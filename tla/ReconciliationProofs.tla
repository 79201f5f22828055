------------------------ MODULE ReconciliationProofs ------------------------
(***************************************************************************)
(* Proofs about Reconciliation, for every set of instances, whichever of   *)
(* them have no service IP, and any number of faults: no session is        *)
(* deleted while Nova still has its VM.                                    *)
(***************************************************************************)
EXTENDS Reconciliation, FiniteSetTheorems, TLAPS

USE InstanceTypes, FaultBound

-----------------------------------------------------------------------------
(***************************************************************************)
(* The order of the rows                                                   *)
(***************************************************************************)
\* A set of numbers has a least one: of the finitely many that are at most some
\* n in it, the one with the fewest below it.
LEMMA SmallestOf ==
    ASSUME NEW S, S \subseteq Nat, S # {}
    PROVE  \E x \in S : \A y \in S : x <= y
<1>1. PICK n \in S : TRUE
    OBVIOUS
<1>2. n \in Nat /\ \A y \in S : y \in Nat
    OBVIOUS
<1> DEFINE Upto(x) == {y \in S : y <= x}
           B == Upto(n)
           T == {Upto(x) : x \in B}
<1>3. ASSUME NEW x \in B
      PROVE  Upto(x) \subseteq B
    <2>1. ASSUME NEW y \in Upto(x)
          PROVE  y \in B
        <3>1. x \in S /\ x <= n /\ y \in S /\ y <= x
            OBVIOUS
        <3>2. x \in Nat /\ y \in Nat
            BY <1>2, <3>1
        <3> QED BY <1>2, <3>1, <3>2
    <2> QED BY <2>1
<1>4. IsFiniteSet(B)
    <2>1. B \in SUBSET Nat /\ \A y \in B : y <= n
        BY <1>2
    <2> QED BY <1>2, <2>1, FS_BoundedSetOfNaturals
<1>5. T # {} /\ T \subseteq FiniteSubsetsOf(B)
    <2>1. n \in B
        BY <1>2
    <2>2. ASSUME NEW x \in B
          PROVE  Upto(x) \in FiniteSubsetsOf(B)
        <3>1. Upto(x) \subseteq B
            BY <1>3
        <3> HIDE DEF B, Upto
        <3> QED BY <1>4, <3>1, FS_Subset DEF FiniteSubsetsOf
    <2> HIDE DEF B, Upto
    <2> QED BY <2>1, <2>2
<1>6. \E X \in T : \A Y \in T : <<Y, X>> \notin StrictSubsetOrdering(B)
    <2> HIDE DEF T
    <2> QED BY <1>5, FS_StrictSubsetOrderingWellFounded, WFMin
<1>7. PICK x \in B : \A y \in B : <<Upto(y), Upto(x)>> \notin StrictSubsetOrdering(B)
    BY <1>6, Zenon
<1>8. x \in S /\ x \in Nat /\ x <= n
    BY <1>2
<1>9. ASSUME NEW y \in S, y < x
      PROVE  FALSE
    <2>1. y \in Nat /\ y \in B
        BY <1>2, <1>8, <1>9
    <2>2. x \in Upto(x) /\ x \notin Upto(y)
        BY <1>8, <1>9, <2>1
    <2>3. ASSUME NEW z \in Upto(y)
          PROVE  z \in Upto(x)
        <3>1. z \in S /\ z <= y
            OBVIOUS
        <3>2. z \in Nat
            BY <1>2, <3>1
        <3> QED BY <1>8, <1>9, <2>1, <3>1, <3>2
    <2>4. Upto(y) \subseteq Upto(x) /\ Upto(x) \subseteq B /\ Upto(y) # Upto(x)
        <3> HIDE DEF Upto, B
        <3> QED BY <1>3, <2>2, <2>3
    <2> HIDE DEF B, Upto
    <2>5. <<Upto(y), Upto(x)>> \in StrictSubsetOrdering(B)
        BY <2>4 DEF StrictSubsetOrdering
    <2> QED BY <1>7, <2>1, <2>5
<1> QED BY <1>2, <1>8, <1>9

\* A pass that is not through has a next instance, so that every pass ends.
LEMMA FirstOfTodo ==
    ASSUME TypeOK, todo # {}
    PROVE  First \in todo /\ First \in Instances
BY SmallestOf DEF TypeOK, First

-----------------------------------------------------------------------------
(***************************************************************************)
(* Type correctness                                                        *)
(***************************************************************************)
RowsTyped == state' \in [Instances -> States] /\ backend' \in [Instances -> BOOLEAN]
TurnTyped == /\ phase' \in Phases
             /\ snap' \in [Instances -> States]
             /\ seen' \in [Instances -> Statuses \union {"unknown", "404"}]
             /\ todo' \subseteq Instances

LEMMA SetRowTyped ==
    ASSUME TypeOK, NEW u \in Instances, NEW s \in States, NEW b \in BOOLEAN, SetRow(u, s, b)
    PROVE  RowsTyped
<1>1. state' \in [Instances -> States]
    BY DEF TypeOK, SetRow
<1>2. backend' \in [Instances -> BOOLEAN]
    <2>1. backend \in [Instances -> BOOLEAN]
        BY DEF TypeOK
    <2> QED BY <2>1 DEF SetRow
<1> QED BY <1>1, <1>2 DEF RowsTyped

\* The record an operation sets has one of the states, and its backend is set,
\* cleared or kept.
LEMMA OperationsTyped ==
    ASSUME TypeOK, NEW u \in Instances
    PROVE  /\ \A s : ActiveReturns(u, s) => RowsTyped
           /\ \A s : ActiveRaises(u, s) => RowsTyped /\ faults' \in 0..MaxFaults
           /\ AbortReturns(u) => RowsTyped
           /\ DeleteReturns(u) => RowsTyped
           /\ DeleteRaises(u) => RowsTyped /\ faults' \in 0..MaxFaults
<1>0. backend[u] \in BOOLEAN
    BY DEF TypeOK
<1>1. UNCHANGED rows => RowsTyped
    BY DEF TypeOK, rows, RowsTyped
<1>2. /\ Serving \subseteq States
      /\ {"STARTING", "DELETED", "FAILED"} \subseteq States
    BY DEF Serving, States, Persisted
<1>3. UNCHANGED faults \/ Fault => faults' \in 0..MaxFaults
    BY DEF Fault, TypeOK
<1>4. ASSUME NEW s, ActiveReturns(u, s)
      PROVE  RowsTyped
    BY <1>0, <1>1, <1>2, <1>4, SetRowTyped DEF ActiveReturns
<1>5. ASSUME NEW s, ActiveRaises(u, s)
      PROVE  RowsTyped /\ faults' \in 0..MaxFaults
    BY <1>0, <1>1, <1>2, <1>3, <1>5, SetRowTyped DEF ActiveRaises
<1>6. AbortReturns(u) => RowsTyped
    BY <1>0, <1>1, <1>2, SetRowTyped DEF AbortReturns
<1>7. DeleteReturns(u) => RowsTyped
    BY <1>1, <1>2, SetRowTyped DEF DeleteReturns
<1>8. DeleteRaises(u) => RowsTyped /\ faults' \in 0..MaxFaults
    BY <1>1, <1>3 DEF DeleteRaises
<1> QED BY <1>4, <1>5, <1>6, <1>7, <1>8

LEMMA NovaTypeOK ==
    ASSUME TypeOK, NEW u \in Instances, Nova(u)
    PROVE  TypeOK'
<1>1. /\ nova' \in [Instances -> Statuses \union {"NONE", "GONE"}]
      /\ sent' \subseteq Events \X Instances
    BY DEF TypeOK, Nova, NovaMoves, Reschedule, Statuses, Events
<1>2. faults' \in 0..MaxFaults
    BY DEF TypeOK, Nova, Reschedule, Fault
<1>3. ports' \subseteq Instances
    BY DEF TypeOK, Nova
<1> QED BY <1>1, <1>2, <1>3 DEF TypeOK, Nova, rows, turn

LEMMA NotificationTypeOK ==
    ASSUME TypeOK, Notification
    PROVE  TypeOK'
<1>1. PICK m \in sent :
         /\ \/ HandleReturns(m[1], m[2]) /\ EventPort(m[1], m[2]) /\ UNCHANGED faults
            \/ HandleRaises(m[1], m[2]) /\ UNCHANGED ports
         /\ UNCHANGED <<bus, turn>>
    BY DEF Notification
<1>2. m[2] \in Instances /\ ports' \subseteq Instances
    BY <1>1 DEF TypeOK, EventPort
<1>3. CASE HandleReturns(m[1], m[2]) /\ UNCHANGED faults
    <2>1. RowsTyped
        BY <1>2, <1>3, OperationsTyped DEF HandleReturns
    <2> QED BY <1>1, <1>2, <1>3, <2>1 DEF TypeOK, RowsTyped, bus, turn
<1>4. CASE HandleRaises(m[1], m[2])
    <2>1. UNCHANGED rows => RowsTyped
        BY DEF TypeOK, rows, RowsTyped
    <2>2. UNCHANGED faults \/ Fault => faults' \in 0..MaxFaults
        BY DEF Fault, TypeOK
    <2>3. RowsTyped /\ faults' \in 0..MaxFaults
        BY <1>2, <1>4, <2>1, <2>2, OperationsTyped DEF HandleRaises, StartRaises
    <2> QED BY <1>1, <1>2, <2>3 DEF TypeOK, RowsTyped, bus, turn
<1> QED BY <1>1, <1>3, <1>4

\* What the steps of a pass do to the turn.
LEMMA TurnSteps ==
    ASSUME TypeOK
    PROVE  /\ \A p \in Phases, S \in SUBSET Instances :
                  Pass(p, S) /\ snap' \in [Instances -> States] => TurnTyped
           /\ Dies => TurnTyped
           /\ Rest /\ todo # {} => TurnTyped
<1>1. Nothing \in [Instances -> Statuses \union {"unknown", "404"}]
      /\ NoSnap \in [Instances -> States]
    BY DEF Nothing, NoSnap, States
<1>2. \A p \in Phases, S \in SUBSET Instances :
         Pass(p, S) /\ snap' \in [Instances -> States] => TurnTyped
    BY <1>1 DEF Pass, TurnTyped
<1>3. Dies => TurnTyped
    BY <1>1 DEF Dies, TurnTyped, Phases
<1>4. Rest /\ todo # {} => TurnTyped
    <2>1. "ABSENT" \in States
        BY DEF States
    <2> QED BY <2>1, FirstOfTodo DEF Rest, TurnTyped, TypeOK
<1> QED BY <1>2, <1>3, <1>4

LEMMA AskTyped ==
    ASSUME TypeOK, NEW p \in Phases, NEW next \in Phases, NEW S \in SUBSET Instances,
           AskStatus(p, next, S)
    PROVE  TypeOK'
<1>1. TurnTyped
    BY FirstOfTodo DEF TypeOK, TurnTyped, AskStatus, StatusOf, Statuses
<1> QED BY <1>1 DEF AskStatus, TypeOK, TurnTyped, world, rows

LEMMA ReconcilerTypeOK ==
    ASSUME TypeOK, Reconciler
    PROVE  TypeOK'
<1>1. CASE TakeSnapshot \/ ListPorts \/ Sleep
    <2>1. TurnTyped
        BY <1>1, TurnSteps DEF TakeSnapshot, ListPorts, Sleep, NoSnap, TypeOK, Phases, States
    <2> QED BY <1>1, <2>1 DEF TakeSnapshot, ListPorts, Sleep, TypeOK, TurnTyped, world, rows
<1>2. CASE AskSessionStatus \/ AskPortStatus
    <2>1. {"statuses", "sessions", "port statuses", "admissions"} \subseteq Phases
        BY DEF Phases
    <2>2. /\ {u \in Instances : snap[u] \notin Admittable} \in SUBSET Instances
          /\ {u \in Instances : seen[u] # "unknown"} \in SUBSET Instances
        OBVIOUS
    <2> QED BY <1>2, <2>1, <2>2, AskTyped DEF AskSessionStatus, AskPortStatus
<1>3. CASE RepairSession
    <2>1. First \in Instances
        BY <1>3, FirstOfTodo DEF RepairSession
    <2>2. UNCHANGED rows => RowsTyped
        BY DEF TypeOK, rows, RowsTyped
    <2>3. TurnTyped
        BY <1>3, TurnSteps DEF RepairSession
    <2>4. RowsTyped /\ faults' \in 0..MaxFaults
        <3>1. CASE RepairReturns(First) /\ UNCHANGED faults
            BY <2>1, <2>2, <3>1, OperationsTyped DEF RepairReturns, TypeOK
        <3>2. CASE RepairRaises(First)
            BY <2>1, <3>2, OperationsTyped DEF RepairRaises
        <3> QED BY <1>3, <3>1, <3>2 DEF RepairSession
    <2> QED BY <1>3, <2>3, <2>4 DEF RepairSession, TypeOK, RowsTyped, TurnTyped, world
<1>4. CASE VisitPort
    <2>1. First \in Instances
        BY <1>4, FirstOfTodo DEF VisitPort
    <2>2. UNCHANGED rows => RowsTyped
        BY DEF TypeOK, rows, RowsTyped
    <2>3. UNCHANGED faults => faults' \in 0..MaxFaults
        BY DEF TypeOK
    <2>4. TurnTyped
        BY <1>4, TurnSteps DEF VisitPort, AdmitPort
    <2>5. RowsTyped /\ faults' \in 0..MaxFaults
        <3>1. CASE AdmitReturns(First) /\ UNCHANGED faults
            <4>1. "RESERVED" \in States /\ FALSE \in BOOLEAN
                BY DEF States, Persisted
            <4>2. RowsTyped
                BY <2>1, <3>1, <4>1, SetRowTyped, OperationsTyped DEF AdmitReturns
            <4> QED BY <2>3, <3>1, <4>2
        <3>2. CASE ActiveRaises(First, "RESERVED")
            BY <2>1, <3>2, OperationsTyped
        <3>3. CASE UNCHANGED rows /\ UNCHANGED faults
            BY <2>2, <2>3, <3>3
        <3> QED BY <1>4, <3>1, <3>2, <3>3 DEF VisitPort, AdmitPort
    <2> QED BY <1>4, <2>4, <2>5 DEF VisitPort, TypeOK, RowsTyped, TurnTyped, world
<1>5. CASE Restart
    BY <1>5 DEF Restart, TypeOK, world, rows, Phases
<1> QED BY <1>1, <1>2, <1>3, <1>4, <1>5 DEF Reconciler

LEMMA NextTypeOK == TypeOK /\ [Next]_vars => TypeOK'
<1> SUFFICES ASSUME TypeOK, [Next]_vars
             PROVE  TypeOK'
    OBVIOUS
<1>1. CASE Crash
    <2>1. TurnTyped
        BY <1>1, TurnSteps DEF Crash
    <2>2. faults' \in 0..MaxFaults
        BY <1>1 DEF Crash, Fault, TypeOK
    <2> QED BY <1>1, <2>1, <2>2 DEF Crash, TypeOK, TurnTyped, world, rows
<1>2. CASE UNCHANGED vars
    BY <1>2 DEF vars, TypeOK
<1> QED BY <1>1, <1>2, NovaTypeOK, NotificationTypeOK, ReconcilerTypeOK DEF Next

\* Nova, the bus, the records and the memory of the reconciler are of their
\* types: no operation is asked about an instance nobody announced.
THEOREM TypeCorrect == Spec => []TypeOK
<1>1. Init => TypeOK
    BY DEF Init, TypeOK, Statuses, States, Phases, NoSnap, Nothing
<1> QED BY <1>1, NextTypeOK, PTL DEF Spec

-----------------------------------------------------------------------------
(***************************************************************************)
(* Only sessions of VMs that are gone are deleted                          *)
(***************************************************************************)
\* What Nova sent was true, and that a VM is gone stays true.
Announced == \A m \in sent : /\ nova[m[2]] # "NONE"
                             /\ (m[1] = "delete.end" => nova[m[2]] = "GONE")

\* Of a VM that was not built yet there is no record and no port, and the reconciler
\* does not look at it.
Built == \A u \in Instances :
            nova[u] = "NONE" => /\ state[u] = "ABSENT" /\ snap[u] = "ABSENT" /\ seen[u] = "unknown"
                                /\ u \notin todo /\ u \notin ports

\* Nova answers 404 only for a VM that was deleted: it was asked about none that
\* was yet to be built.
MissingGone == \A u \in Instances : seen[u] = "404" => nova[u] = "GONE"

\* The reconciler acts on no session whose status it did not ask for.
AllAsked == /\ (phase = "statuses" =>
                  \A u \in Instances : snap[u] \notin Admittable => u \in todo \/ seen[u] # "unknown")
            /\ (phase = "sessions" => \A u \in todo : seen[u] # "unknown")

ReconInv == Announced /\ Built /\ MissingGone /\ AllAsked

\* The step is an operation on the record of u alone, and deletes it only if its
\* VM is gone.
OnRow(u) == /\ \A v \in Instances \ {u} : state'[v] = state[v]
            /\ (state'[u] = "DELETED" => state[u] = "DELETED" \/ nova[u] = "GONE")

LEMMA OperationsOnRow ==
    ASSUME TypeOK, NEW u \in Instances
    PROVE  /\ UNCHANGED rows => OnRow(u)
           /\ \A s : ActiveReturns(u, s) => OnRow(u)
           /\ \A s : ActiveRaises(u, s) => OnRow(u)
           /\ AbortReturns(u) => OnRow(u)
           /\ \A b : SetRow(u, "RESERVED", b) => OnRow(u)
           /\ (DeleteReturns(u) /\ nova[u] = "GONE" => OnRow(u))
           /\ DeleteRaises(u) => OnRow(u)
<1>1. UNCHANGED rows => OnRow(u)
    BY DEF rows, OnRow
<1>2. ASSUME NEW s, NEW b, SetRow(u, s, b), s = "DELETED" => nova[u] = "GONE"
      PROVE  OnRow(u)
    BY <1>2 DEF SetRow, OnRow, TypeOK
<1>3. ASSUME NEW s, ActiveReturns(u, s)
      PROVE  OnRow(u)
    BY <1>1, <1>2, <1>3 DEF ActiveReturns, Serving
<1>4. ASSUME NEW s, ActiveRaises(u, s)
      PROVE  OnRow(u)
    BY <1>1, <1>2, <1>4 DEF ActiveRaises
<1>5. AbortReturns(u) => OnRow(u)
    BY <1>1, <1>2 DEF AbortReturns
<1>6. DeleteReturns(u) /\ nova[u] = "GONE" => OnRow(u)
    BY <1>1, <1>2 DEF DeleteReturns
<1>7. DeleteRaises(u) => OnRow(u)
    BY <1>1 DEF DeleteRaises
<1> QED BY <1>1, <1>2, <1>3, <1>4, <1>5, <1>6, <1>7

\* Notifications are about VMs that were built, and delete.end about one that is
\* gone.
LEMMA NotificationOnRow ==
    ASSUME TypeOK, ReconInv, Notification
    PROVE  /\ \E u \in Instances : nova[u] # "NONE" /\ OnRow(u)
           /\ UNCHANGED <<bus, turn>> /\ ports' \subseteq ports
<1>1. PICK m \in sent :
         /\ \/ HandleReturns(m[1], m[2]) /\ EventPort(m[1], m[2]) /\ UNCHANGED faults
            \/ HandleRaises(m[1], m[2]) /\ UNCHANGED ports
         /\ UNCHANGED <<bus, turn>>
    BY DEF Notification
<1>2. m[2] \in Instances /\ nova[m[2]] # "NONE" /\ (m[1] = "delete.end" => nova[m[2]] = "GONE")
    BY DEF TypeOK, ReconInv, Announced
<1>3. OnRow(m[2])
    BY <1>1, <1>2, OperationsOnRow DEF HandleReturns, HandleRaises, StartRaises
<1>4. ports' \subseteq ports
    BY <1>1 DEF EventPort
<1> QED BY <1>1, <1>2, <1>3, <1>4

\* A session is deleted by the reconciler when Nova answered 404, which is final.
LEMMA RepairOnRow ==
    ASSUME TypeOK, ReconInv, RepairSession
    PROVE  First \in todo /\ First \in Instances /\ OnRow(First)
<1>1. First \in todo /\ First \in Instances
    BY FirstOfTodo DEF RepairSession
<1>2. ToDelete(First) => nova[First] = "GONE"
    BY <1>1 DEF RepairSession, ToDelete, ReconInv, AllAsked, MissingGone
<1>3. OnRow(First)
    BY <1>1, <1>2, OperationsOnRow DEF RepairSession, RepairReturns, RepairRaises
<1> QED BY <1>1, <1>3

LEMMA VisitOnRow ==
    ASSUME TypeOK, VisitPort
    PROVE  First \in todo /\ First \in Instances /\ OnRow(First)
<1>1. First \in todo /\ First \in Instances
    BY FirstOfTodo DEF VisitPort
<1>2. OnRow(First)
    BY <1>1, OperationsOnRow DEF VisitPort, AdmitPort, AdmitReturns
<1> QED BY <1>1, <1>2

\* The records of the other instances and Nova stay as they are: so does what
\* the invariant says, unless the turn comes to know more.
LEMMA RowInv ==
    ASSUME TypeOK, ReconInv, NEW u \in Instances, nova[u] # "NONE", OnRow(u), UNCHANGED bus,
           ports' \subseteq ports,
           UNCHANGED turn \/ Dies \/ (Rest /\ phase \in {"sessions", "admissions"} /\ First \in todo)
    PROVE  ReconInv'
<1>1. Announced'
    BY DEF ReconInv, Announced, bus
<1>2. CASE UNCHANGED turn
    BY <1>1, <1>2 DEF ReconInv, Announced, Built, MissingGone, AllAsked, OnRow, bus, turn
<1>3. CASE Dies
    BY <1>1, <1>3 DEF ReconInv, Built, MissingGone, AllAsked, OnRow, bus, rows, Dies, Nothing, NoSnap
<1>4. CASE Rest /\ phase \in {"sessions", "admissions"} /\ First \in todo
    BY <1>1, <1>4 DEF ReconInv, Built, MissingGone, AllAsked, OnRow, bus, Rest, TypeOK
<1> QED BY <1>2, <1>3, <1>4

LEMMA NovaInv ==
    ASSUME TypeOK, ReconInv, NEW u \in Instances, Nova(u)
    PROVE  ReconInv'
<1>1. PICK from, to, events :
         /\ NovaMoves(u, from, to, events)
         /\ from \subseteq Statuses \union {"NONE"}
         /\ to \in Statuses \union {"GONE"}
         /\ ("delete.end" \in events => to = "GONE")
    BY DEF Nova, Reschedule, Statuses
<1>2. ports' \subseteq ports \union {u}
    BY DEF Nova
<1>3. nova'[u] = to /\ \A v \in Instances \ {u} : nova'[v] = nova[v]
    BY <1>1 DEF NovaMoves, TypeOK
<1>4. nova[u] # "GONE" /\ to # "NONE"
    BY <1>1 DEF NovaMoves, Statuses
<1>5. Announced'
    <2>1. SUFFICES ASSUME NEW m \in sent'
                   PROVE  nova'[m[2]] # "NONE" /\ (m[1] = "delete.end" => nova'[m[2]] = "GONE")
        BY DEF Announced
    <2>2. CASE m \in sent
        BY <1>3, <1>4, <2>2 DEF ReconInv, Announced, TypeOK
    <2>3. CASE m \in events \X {u}
        BY <1>1, <1>3, <1>4, <2>3
    <2> QED BY <1>1, <2>1, <2>2, <2>3 DEF NovaMoves
<1> QED BY <1>2, <1>3, <1>4, <1>5 DEF Nova, ReconInv, Built, MissingGone, AllAsked, rows, turn

\* Nova is asked about VMs that were built: 404 means that the VM is gone.
LEMMA AskInv ==
    ASSUME TypeOK, ReconInv, AskSessionStatus \/ AskPortStatus
    PROVE  ReconInv'
<1>1. UNCHANGED <<world, rows>>
    BY DEF AskSessionStatus, AskPortStatus, AskStatus
<1>2. Announced'
    BY <1>1 DEF ReconInv, Announced, world
<1>3. CASE todo = {}
    BY <1>1, <1>2, <1>3 DEF AskSessionStatus, AskPortStatus, AskStatus, ReconInv, Built, MissingGone,
                           AllAsked, Admittable, world, rows
<1>4. CASE todo # {}
    <2>1. First \in todo /\ First \in Instances
        BY <1>4, FirstOfTodo
    <2>2. /\ seen' = [seen EXCEPT ![First] = StatusOf(First)] /\ todo' = todo \ {First}
          /\ UNCHANGED <<phase, snap>>
          /\ phase \in {"statuses", "port statuses"}
        BY <1>4 DEF AskSessionStatus, AskPortStatus, AskStatus
    <2>3. StatusOf(First) # "unknown" /\ (StatusOf(First) = "404" => nova[First] = "GONE")
        BY <2>1 DEF StatusOf, Statuses, TypeOK, ReconInv, Built
    <2> QED BY <1>1, <1>2, <2>1, <2>2, <2>3 DEF ReconInv, Built, MissingGone, AllAsked, world, rows, TypeOK
<1> QED BY <1>3, <1>4

LEMMA NextInv == TypeOK /\ ReconInv /\ [Next]_vars => ReconInv'
<1> SUFFICES ASSUME TypeOK, ReconInv, [Next]_vars
             PROVE  ReconInv'
    OBVIOUS
<1>1. CASE Notification
    BY <1>1, NotificationOnRow, RowInv
<1>2. CASE TakeSnapshot
    BY <1>2 DEF TakeSnapshot, Pass, Nothing, ReconInv, Announced, Built, MissingGone, AllAsked,
                Admittable, world, rows
<1>3. CASE RepairSession
    <2>1. Rest \/ Dies
        BY <1>3 DEF RepairSession
    <2> QED BY <1>3, <2>1, RepairOnRow, RowInv DEF RepairSession, ReconInv, Built, world, bus
<1>4. CASE ListPorts
    BY <1>4 DEF ListPorts, Pass, Nothing, NoSnap, ReconInv, Announced, Built, MissingGone, AllAsked,
                world, rows
<1>5. CASE VisitPort
    <2>1. Rest \/ Dies
        BY <1>5 DEF VisitPort, AdmitPort
    <2> QED BY <1>5, <2>1, VisitOnRow, RowInv DEF VisitPort, ReconInv, Built, world, bus
<1>6. CASE Sleep
    BY <1>6 DEF Sleep, Pass, Nothing, ReconInv, Announced, Built, MissingGone, AllAsked, world, rows
<1>7. CASE Crash \/ Restart
    BY <1>7 DEF Crash, Dies, Nothing, NoSnap, Restart, ReconInv, Announced, Built, MissingGone,
                AllAsked, world, rows
<1>8. CASE UNCHANGED vars
    BY <1>8 DEF vars, ReconInv, Announced, Built, MissingGone, AllAsked
<1> QED BY <1>1, <1>2, <1>3, <1>4, <1>5, <1>6, <1>7, <1>8, NovaInv, AskInv DEF Next, Reconciler

LEMMA NextDeletesGone ==
    ASSUME TypeOK, ReconInv, [Next]_vars
    PROVE  \A u \in Instances :
              state[u] # "DELETED" /\ state'[u] = "DELETED" => nova[u] = "GONE"
<1>1. (\E u \in Instances : OnRow(u)) \/ UNCHANGED state
    BY NotificationOnRow, RepairOnRow, VisitOnRow
       DEF Next, Nova, Reconciler, TakeSnapshot, AskSessionStatus, AskPortStatus, AskStatus,
           ListPorts, Sleep, Restart, Crash, rows, vars
<1> QED BY <1>1 DEF OnRow

\* No session is deleted while Nova still has its VM, however old the snapshot
\* and the status the reconciler acts on, and however late a notification is.
THEOREM DeletedOnlyWhenGone == Spec => OnlyGoneVmsDeleted
<1>1. Init => ReconInv
    BY DEF Init, ReconInv, Announced, Built, MissingGone, AllAsked, NoSnap, Nothing
<1>2. TypeOK /\ ReconInv /\ [Next]_vars =>
         [\A u \in Instances :
             state[u] # "DELETED" /\ state'[u] = "DELETED" => nova[u] = "GONE"]_vars
    BY NextDeletesGone
<1> QED BY <1>1, <1>2, NextInv, TypeCorrect, PTL DEF Spec, OnlyGoneVmsDeleted
=============================================================================
