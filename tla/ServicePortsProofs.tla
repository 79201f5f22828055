------------------------- MODULE ServicePortsProofs -------------------------
(***************************************************************************)
(* Proofs about ServicePorts, for every set of instances and all finite    *)
(* sets of port ids and handler threads: nobody but an event that ends a   *)
(* build or a VM takes the port of a VM that Nova knows, and a VM has no   *)
(* more ports than it ever had prebuilds at once.                          *)
(***************************************************************************)
EXTENDS ServicePorts, FiniteSetTheorems, TLAPS

USE WorkerTypes, SetTypes

-----------------------------------------------------------------------------
(***************************************************************************)
(* Calls                                                                   *)
(***************************************************************************)
StepNames == {"get", "post", "check", "claim", "write", "session", "delete"}

CallsTyped == call' \in [Workers -> Calls \union {Idle}]

\* Only w did something.
OthersWait(w) == \A v \in Workers \ {w} : call'[v] = call[v]

\* w goes on with what it was asked to do, or is done with it.
GoesOn(w) == \/ call'[w] = Idle
             \/ /\ call'[w] \in Calls
                /\ call'[w].op = call[w].op /\ call'[w].inst = call[w].inst

LEMMA BusyCalls ==
    ASSUME TypeOK, NEW w \in Workers
    PROVE  /\ call[w] # Idle => call[w] \in Calls
           /\ call[w].op # "idle" => call[w] # Idle
           /\ call[w] = Idle => call[w].op = "idle"
BY DEF TypeOK, Idle

LEMMA Returns ==
    ASSUME TypeOK, NEW w \in Workers, Return(w)
    PROVE  CallsTyped /\ OthersWait(w) /\ GoesOn(w) /\ call'[w] = Idle
BY DEF TypeOK, Return, CallsTyped, OthersWait, GoesOn

LEMMA Begins ==
    ASSUME TypeOK, NEW w \in Workers, NEW op \in Ops, NEW u \in Instances,
           NEW step \in StepNames, Begin(w, op, u, step)
    PROVE  /\ CallsTyped /\ OthersWait(w)
           /\ call'[w] \in Calls
           /\ call'[w].op = op /\ call'[w].inst = u /\ call'[w].step = step
<1>1. [op |-> op, inst |-> u, port |-> NoPort, step |-> step] \in Calls
    BY DEF Calls, StepNames
<1> QED BY <1>1 DEF TypeOK, Begin, CallsTyped, OthersWait

LEMMA Goes ==
    ASSUME TypeOK, NEW w \in Workers, call[w] # Idle, NEW step \in StepNames, Goto(w, step)
    PROVE  /\ CallsTyped /\ OthersWait(w) /\ GoesOn(w)
           /\ call'[w] \in Calls /\ call'[w].step = step
<1>1. call[w] \in Calls
    BY BusyCalls
<1>2. call' = [call EXCEPT ![w] = [call[w] EXCEPT !.step = step]]
    BY DEF Goto
<1>3. /\ [call[w] EXCEPT !.step = step] \in Calls
      /\ [call[w] EXCEPT !.step = step].step = step
      /\ [call[w] EXCEPT !.step = step].op = call[w].op
      /\ [call[w] EXCEPT !.step = step].inst = call[w].inst
    BY <1>1 DEF Calls, StepNames
<1> QED BY <1>2, <1>3 DEF TypeOK, CallsTyped, OthersWait, GoesOn

LEMMA GoesWith ==
    ASSUME TypeOK, NEW w \in Workers, call[w] # Idle, NEW step \in StepNames, NEW p \in PortIds,
           GotoWith(w, step, p)
    PROVE  /\ CallsTyped /\ OthersWait(w) /\ GoesOn(w)
           /\ call'[w] \in Calls /\ call'[w].step = step
<1>1. call[w] \in Calls
    BY BusyCalls
<1>2. call' = [call EXCEPT ![w] = [call[w] EXCEPT !.step = step, !.port = p]]
    BY <1>1 DEF GotoWith, TypeOK, Calls
<1>3. /\ [call[w] EXCEPT !.step = step, !.port = p] \in Calls
      /\ [call[w] EXCEPT !.step = step, !.port = p].step = step
      /\ [call[w] EXCEPT !.step = step, !.port = p].op = call[w].op
      /\ [call[w] EXCEPT !.step = step, !.port = p].inst = call[w].inst
    BY <1>1 DEF Calls, StepNames
<1> QED BY <1>2, <1>3 DEF TypeOK, CallsTyped, OthersWait, GoesOn

\* delete, for a handler or the reconciler
LEMMA DeleteGoesOn ==
    ASSUME TypeOK, NEW w \in Workers, NEW u \in Instances, DeleteGet(w, u) \/ Delete(w, u)
    PROVE  /\ CallsTyped /\ OthersWait(w) /\ GoesOn(w)
           /\ call'[w] # Idle => call'[w].step = "delete"
<1>1. call[w] # Idle
    BY DEF DeleteGet, Delete, Deleting, Idle
<1>2. Return(w) \/ \E p \in PortIds : GotoWith(w, "delete", p)
    BY DEF DeleteGet, Delete
<1> QED BY <1>1, <1>2, Returns, GoesWith DEF StepNames

LEMMA HandlerGoesOn ==
    ASSUME TypeOK, NEW t \in Threads, Handler(t)
    PROVE  CallsTyped /\ OthersWait(t) /\ GoesOn(t)
<1>1. t \in Workers
    BY DEF Workers
<1>2. PICK u \in Instances :
         /\ call[t] # Idle /\ call[t].inst = u
         /\ \/ EnsureGet(t, u) \/ EnsurePost(t, u) \/ Rollback(t, u)
            \/ AdmitGet(t, u) \/ AdmitClaim(t, u) \/ AdmitWrite(t, u)
            \/ EventSession(t, u) \/ DeleteGet(t, u) \/ Delete(t, u)
    BY DEF Handler
<1>3. CASE DeleteGet(t, u) \/ Delete(t, u)
    BY <1>1, <1>3, DeleteGoesOn
<1>4. CASE \/ EnsureGet(t, u) \/ EnsurePost(t, u) \/ Rollback(t, u)
           \/ AdmitGet(t, u) \/ AdmitClaim(t, u) \/ AdmitWrite(t, u) \/ EventSession(t, u)
    <2>1. Return(t) \/ \E step \in StepNames : Goto(t, step)
        BY <1>4 DEF EnsureGet, EnsurePost, Rollback, AdmitGet, AdmitClaim, AdmitWrite,
                    EventSession, StepNames
    <2> QED BY <1>1, <1>2, <2>1, Returns, Goes
<1> QED BY <1>2, <1>3, <1>4

\* The prebuilds of an instance are finitely many: threads make them.
LEMMA RunningPrebuilds ==
    ASSUME TypeOK, NEW u \in Instances
    PROVE  /\ IsFiniteSet(Running("prebuild", u))
           /\ Cardinality(Running("prebuild", u)) \in Nat
<1>1. IsFiniteSet(Threads \union {Reconciler})
    BY FS_AddElement
<1>2. Running("prebuild", u) \in SUBSET (Threads \union {Reconciler})
    BY DEF Running, Workers
<1> QED BY <1>1, <1>2, FS_Subset, FS_CardinalityType

-----------------------------------------------------------------------------
(***************************************************************************)
(* Type correctness                                                        *)
(***************************************************************************)
LEMMA InitTypeOK == Init => TypeOK
BY DEF Init, TypeOK, Sessions

LEMMA NovaTypeOK ==
    ASSUME TypeOK, NEW u \in Instances, Nova(u) \/ Age(u)
    PROVE  TypeOK'
BY DEF Nova, Age, TypeOK, world, neutron, turn

LEMMA PrebuildTypeOK ==
    ASSUME TypeOK, NEW t \in Threads, NEW u \in Instances, Prebuild(t, u)
    PROVE  TypeOK'
<1>1. CallsTyped
    BY Begins DEF Prebuild, Workers, Ops, StepNames
<1>2. Cardinality(Running("prebuild", u)) \in Nat
    BY RunningPrebuilds
<1>3. width' \in [Instances -> Nat]
    BY <1>2 DEF Prebuild, TypeOK
<1> QED BY <1>1, <1>3 DEF Prebuild, TypeOK, CallsTyped, world, turn

LEMMA RequestTypeOK ==
    ASSUME TypeOK, NEW t \in Threads, NEW u \in Instances, Request(t, u)
    PROVE  TypeOK'
<1>1. PICK op \in Ops, step \in StepNames : Begin(t, op, u, step)
    BY DEF Request, Ops, StepNames
<1>2. CallsTyped
    BY <1>1, Begins DEF Workers
<1>3. nova' \in [Instances -> {"NONE", "VM", "GONE"}]
    BY DEF Request, TypeOK
<1> QED BY <1>2, <1>3 DEF Request, TypeOK, CallsTyped, neutron, turn

\* What the steps of the handlers do to Neutron's ports and to the records.
LEMMA HandlerTypeOK ==
    ASSUME TypeOK, NEW t \in Threads, Handler(t)
    PROVE  TypeOK'
<1>1. PICK u \in Instances :
         /\ call[t] # Idle /\ call[t].inst = u
         /\ \/ EnsureGet(t, u) \/ EnsurePost(t, u) \/ Rollback(t, u)
            \/ AdmitGet(t, u) \/ AdmitClaim(t, u) \/ AdmitWrite(t, u)
            \/ EventSession(t, u) \/ DeleteGet(t, u) \/ Delete(t, u)
    BY DEF Handler
<1>2. CallsTyped
    BY HandlerGoesOn
<1>3. CASE EnsureGet(t, u) \/ Rollback(t, u) \/ AdmitGet(t, u) \/ AdmitClaim(t, u) \/ DeleteGet(t, u)
    BY <1>2, <1>3 DEF EnsureGet, Rollback, AdmitGet, AdmitClaim, DeleteGet, TypeOK, CallsTyped,
                      world, neutron, turn
<1>4. CASE EnsurePost(t, u)
    BY <1>2, <1>4 DEF EnsurePost, TypeOK, CallsTyped, turn
<1>5. CASE AdmitWrite(t, u)
    BY <1>2, <1>5 DEF AdmitWrite, TypeOK, CallsTyped, Sessions, world, neutron, turn
<1>6. CASE EventSession(t, u)
    <2>1. session' \in [Instances -> Sessions]
        BY <1>6 DEF EventSession, Aborted, Deleted, TypeOK, Sessions
    <2> QED BY <1>2, <1>6, <2>1 DEF EventSession, TypeOK, CallsTyped, world, neutron, turn
<1>7. CASE Delete(t, u)
    BY <1>2, <1>7 DEF Delete, TypeOK, CallsTyped, world, turn
<1> QED BY <1>1, <1>3, <1>4, <1>5, <1>6, <1>7

LEMMA RaiseTypeOK ==
    ASSUME TypeOK, NEW t \in Threads, Raise(t)
    PROVE  TypeOK'
<1>1. CallsTyped
    BY Returns DEF Raise, Workers
<1> QED BY <1>1 DEF Raise, TypeOK, CallsTyped, world, neutron, turn

LEMMA DiesTypes ==
    ASSUME TypeOK, Dies
    PROVE  /\ CallsTyped /\ OthersWait(Reconciler) /\ call'[Reconciler] = Idle
           /\ phase' = "dead" /\ listed' = {} /\ asked' = {} /\ known' = {}
BY Returns DEF Dies, Workers

LEMMA TurnTypeOK ==
    ASSUME TypeOK, Turn
    PROVE  TypeOK'
<1>1. CASE SessionPass
    <2>1. session' \in [Instances -> Sessions]
        BY <1>1 DEF SessionPass, Deleted, TypeOK, Sessions
    <2>2. CASE Dies
        BY <1>1, <2>1, <2>2, DiesTypes DEF SessionPass, TypeOK, CallsTyped, world, neutron
    <2>3. CASE phase' = "list" /\ UNCHANGED <<call, listed, asked, known>>
        BY <1>1, <2>1, <2>3 DEF SessionPass, TypeOK, world, neutron
    <2> QED BY <1>1, <2>2, <2>3 DEF SessionPass
<1>2. CASE ListManaged
    <2>1. listed' \subseteq Listings
        BY <1>2 DEF ListManaged, Listings
    <2> QED BY <1>2, <2>1 DEF ListManaged, TypeOK, world, neutron
<1>3. CASE AskStatus
    <2>1. \A m \in listed : m.inst \in Instances
        BY DEF TypeOK, Listings
    <2> QED BY <1>3, <2>1 DEF AskStatus, TypeOK, world, neutron
<1>4. CASE VisitPort
    <2>1. PICK m \in listed :
             \/ AdmitListed(m)
             \/ /\ ~(session[m.inst] = "none" /\ m.inst \in known)
                /\ listed' = listed \ {m}
                /\ IF Retain(m) THEN UNCHANGED call
                                ELSE Begin(Reconciler, "reclaim", m.inst, "get")
                /\ UNCHANGED <<session, phase, asked, known>>
        BY <1>4 DEF VisitPort
    <2>2. m.inst \in Instances
        BY DEF TypeOK, Listings
    <2>3. CASE AdmitListed(m)
        <3>1. session' \in [Instances -> Sessions]
            BY <2>2, <2>3 DEF AdmitListed, TypeOK, Sessions
        <3> QED BY <1>4, <2>3, <3>1, DiesTypes
                DEF VisitPort, AdmitListed, TypeOK, CallsTyped, world, neutron
    <2>4. CASE /\ listed' = listed \ {m}
               /\ IF Retain(m) THEN UNCHANGED call
                               ELSE Begin(Reconciler, "reclaim", m.inst, "get")
               /\ UNCHANGED <<session, phase, asked, known>>
        <3>1. "reclaim" \in Ops /\ "get" \in StepNames /\ Reconciler \in Workers
            BY DEF Ops, StepNames, Workers
        <3>2. CallsTyped
            BY <2>2, <2>4, <3>1, Begins DEF TypeOK, CallsTyped
        <3> QED BY <1>4, <2>4, <3>2 DEF VisitPort, TypeOK, CallsTyped, world, neutron
    <2> QED BY <2>1, <2>3, <2>4
<1>5. CASE Reclaim
    <2>1. PICK u \in Instances : u = call[Reconciler].inst
        BY <1>5, BusyCalls DEF Reclaim, Workers, Calls
    <2>2. CASE DeleteGet(Reconciler, u)
        BY <2>2, DeleteGoesOn DEF DeleteGet, TypeOK, CallsTyped, Workers, world, neutron, turn
    <2>3. CASE Delete(Reconciler, u)
        BY <2>3, DeleteGoesOn DEF Delete, TypeOK, CallsTyped, Workers, world, turn
    <2>4. CASE Dies /\ UNCHANGED <<world, neutron, old, session>>
        BY <2>4, DiesTypes DEF TypeOK, CallsTyped, world, neutron
    <2> QED BY <1>5, <2>1, <2>2, <2>3, <2>4 DEF Reclaim
<1>6. CASE Sleep \/ Restart
    BY <1>6 DEF Sleep, Restart, TypeOK, world, neutron
<1> QED BY <1>1, <1>2, <1>3, <1>4, <1>5, <1>6 DEF Turn

LEMMA NextTypeOK == TypeOK /\ [Next]_vars => TypeOK'
<1> SUFFICES ASSUME TypeOK, [Next]_vars
             PROVE  TypeOK'
    OBVIOUS
<1>1. CASE Crash
    BY <1>1, DiesTypes DEF Crash, TypeOK, CallsTyped, world, neutron
<1>2. CASE UNCHANGED vars
    BY <1>2 DEF vars, TypeOK
<1> QED BY <1>1, <1>2, NovaTypeOK, PrebuildTypeOK, RequestTypeOK, HandlerTypeOK, RaiseTypeOK,
           TurnTypeOK DEF Next

\* Neutron's ports, the records and what the workers remember are of their types.
THEOREM TypeCorrect == Spec => []TypeOK
BY InitTypeOK, NextTypeOK, PTL DEF Spec

-----------------------------------------------------------------------------
(***************************************************************************)
(* Ports of VMs that Nova knows                                            *)
(***************************************************************************)
\* A call that may delete the port of its instance is about a VM that is gone,
\* and the reconciler makes no other.
Condemning == {"rollback", "deleted", "reclaim"}

CallsJust(w) == /\ (call[w].op \in Condemning => nova[call[w].inst] = "GONE")
                /\ (w = Reconciler /\ call[w] # Idle => call[w].op = "reclaim")

\* A port grows old only after its VM was built or given up ...
OldBuilt == \A u \in Instances : old[u] # {} => nova[u] # "NONE"

\* ... so an old port that was listed, and whose VM Nova did not know later on,
\* is of a VM that is gone.
ListedJust == \A m \in listed :
                 /\ (m.expired => nova[m.inst] # "NONE")
                 /\ (m.expired /\ m.inst \in asked \ known => nova[m.inst] = "GONE")
                 /\ (phase = "ports" => m.inst \in asked)

PortInv == (\A w \in Workers : CallsJust(w)) /\ OldBuilt /\ ListedJust

\* Nova's VMs only go from one state to a later one.
NovaOnward == \A u \in Instances : /\ (nova[u] = "GONE" => nova'[u] = "GONE")
                                  /\ (nova[u] # "NONE" => nova'[u] # "NONE")

\* The invariant holds after a step in which Nova goes onward, no port grows old
\* that must not, and every call goes on or is justified.
LEMMA PortInvKept ==
    ASSUME TypeOK, PortInv, NovaOnward, OldBuilt',
           UNCHANGED turn \/ (listed' \subseteq listed /\ UNCHANGED <<phase, asked, known>>)
                          \/ listed' = {},
           \A w \in Workers : call'[w] = call[w] \/ GoesOn(w) \/ CallsJust(w)'
    PROVE  PortInv'
<1>1. ASSUME NEW w \in Workers
      PROVE  CallsJust(w)'
    <2>1. CASE call'[w] = Idle
        BY <2>1 DEF CallsJust, Condemning, Idle
    <2>2. CASE call'[w] = call[w] \/ GoesOn(w)
        <3>1. call[w] # Idle /\ call'[w] # Idle => call[w] \in Calls /\ call[w].inst \in Instances
            BY BusyCalls DEF Calls
        <3>2. call'[w] # Idle /\ GoesOn(w) => call[w] # Idle
            BY BusyCalls DEF GoesOn, Calls, Ops
        <3>3. call'[w] # Idle => call[w] # Idle /\ call'[w].op = call[w].op /\ call'[w].inst = call[w].inst
            BY <2>2, <3>2 DEF GoesOn
        <3>4. CallsJust(w)
            BY DEF PortInv
        <3> QED BY <2>1, <3>1, <3>3, <3>4 DEF CallsJust, NovaOnward
    <2> QED BY <2>1, <2>2
<1>2. ListedJust'
    <2>1. \A m \in listed : m.inst \in Instances
        BY DEF TypeOK, Listings
    <2> QED BY <2>1 DEF PortInv, ListedJust, NovaOnward, turn
<1> QED BY <1>1, <1>2 DEF PortInv

LEMMA EnvironmentPortInv ==
    ASSUME TypeOK, PortInv, NEW u \in Instances, Nova(u) \/ Age(u)
    PROVE  PortInv'
<1>1. NovaOnward
    BY DEF Nova, Age, NovaOnward, TypeOK, world
<1>2. OldBuilt'
    <2>1. CASE Nova(u)
        BY <1>1, <2>1 DEF Nova, PortInv, OldBuilt, NovaOnward
    <2>2. CASE Age(u)
        BY <2>2 DEF Age, PortInv, OldBuilt, TypeOK, world
    <2> QED BY <2>1, <2>2
<1> QED BY <1>1, <1>2, PortInvKept DEF Nova, Age

LEMMA RequestPortInv ==
    ASSUME TypeOK, PortInv, NEW t \in Threads, NEW u \in Instances,
           Prebuild(t, u) \/ Request(t, u)
    PROVE  PortInv'
<1>1. NovaOnward
    BY DEF Prebuild, Request, NovaOnward, TypeOK, world
<1>2. OldBuilt'
    BY <1>1 DEF Prebuild, Request, PortInv, OldBuilt, NovaOnward
<1>3. PICK op \in Ops, step \in StepNames :
         Begin(t, op, u, step) /\ (op \in Condemning => nova'[u] = "GONE")
    BY DEF Prebuild, Request, Ops, StepNames, Condemning, TypeOK
<1>4. t \in Workers /\ t # Reconciler
    BY DEF Workers
<1>5. CallsJust(t)' /\ OthersWait(t)
    BY <1>3, <1>4, Begins DEF CallsJust
<1> QED BY <1>1, <1>2, <1>5, PortInvKept DEF Prebuild, Request, OthersWait

LEMMA HandlerPortInv ==
    ASSUME TypeOK, PortInv, NEW t \in Threads, Handler(t) \/ Raise(t)
    PROVE  PortInv'
<1>1. OthersWait(t) /\ GoesOn(t)
    BY HandlerGoesOn, Returns DEF Raise, Workers
<1>2. UNCHANGED nova /\ UNCHANGED turn
    BY DEF Handler, Raise, EnsureGet, EnsurePost, Rollback, AdmitGet, AdmitClaim, AdmitWrite,
           EventSession, DeleteGet, Delete, world
<1>3. \A u \in Instances : old'[u] \subseteq old[u]
    <2>1. UNCHANGED old \/ \E u \in Instances : Delete(t, u)
        BY DEF Handler, Raise, EnsureGet, EnsurePost, Rollback, AdmitGet, AdmitClaim, AdmitWrite,
               EventSession, DeleteGet
    <2> QED BY <2>1 DEF Delete, TypeOK
<1>4. NovaOnward /\ OldBuilt'
    BY <1>2, <1>3 DEF NovaOnward, PortInv, OldBuilt
<1> QED BY <1>1, <1>2, <1>4, PortInvKept DEF OthersWait

\* Nova does not know the VM of a port that was old when it was listed.
LEMMA AskPortInv ==
    ASSUME TypeOK, PortInv, AskStatus
    PROVE  PortInv'
<1>1. UNCHANGED <<nova, old, call, listed>>
    BY DEF AskStatus, world
<1>2. \A m \in listed : m.inst \in Instances
    BY DEF TypeOK, Listings
<1>3. ListedJust'
    <2> DEFINE left == {m.inst : m \in listed} \ asked
    <2>1. CASE left = {} /\ phase' = "ports" /\ UNCHANGED <<asked, known>>
        BY <1>1, <1>2, <2>1 DEF PortInv, ListedJust
    <2>2. ASSUME NEW u \in left, asked' = asked \union {u}, UNCHANGED phase,
                 known' = IF nova[u] = "VM" THEN known \union {u} ELSE known
          PROVE  ListedJust'
        <3>1. phase # "ports"
            BY <2>2 DEF AskStatus
        <3>2. u \in Instances /\ nova[u] \in {"NONE", "VM", "GONE"}
            BY <1>2, <2>2 DEF TypeOK
        <3> QED BY <1>1, <1>2, <2>2, <3>1, <3>2 DEF PortInv, ListedJust
    <2> QED BY <2>1, <2>2 DEF AskStatus
<1> QED BY <1>1, <1>3 DEF PortInv, CallsJust, OldBuilt

\* The call that reclaims a port is about a port that was old, and a VM that Nova
\* did not know.
LEMMA VisitPortInv ==
    ASSUME TypeOK, PortInv, VisitPort
    PROVE  PortInv'
<1>1. PICK m \in listed :
         \/ AdmitListed(m)
         \/ /\ ~(session[m.inst] = "none" /\ m.inst \in known)
            /\ listed' = listed \ {m}
            /\ IF Retain(m) THEN UNCHANGED call
                            ELSE Begin(Reconciler, "reclaim", m.inst, "get")
            /\ UNCHANGED <<session, phase, asked, known>>
    BY DEF VisitPort
<1>2. NovaOnward /\ OldBuilt' /\ phase = "ports" /\ UNCHANGED nova
    BY DEF VisitPort, NovaOnward, PortInv, OldBuilt, world
<1>3. CASE AdmitListed(m) \/ (Retain(m) /\ UNCHANGED <<call, phase, asked, known>> /\ listed' = listed \ {m})
    <2>1. CASE Dies
        BY <1>2, <2>1, DiesTypes, PortInvKept DEF OthersWait, GoesOn
    <2>2. CASE UNCHANGED <<call, phase, asked, known>> /\ listed' = listed \ {m}
        BY <1>2, <2>2, PortInvKept
    <2> QED BY <1>3, <2>1, <2>2 DEF AdmitListed
<1>4. CASE /\ ~Retain(m) /\ Begin(Reconciler, "reclaim", m.inst, "get")
           /\ listed' = listed \ {m} /\ UNCHANGED <<phase, asked, known>>
    <2>1. m.inst \in Instances
        BY DEF TypeOK, Listings
    <2>2. nova[m.inst] = "GONE"
        BY <1>2, <1>4 DEF Retain, PortInv, ListedJust
    <2>3. "reclaim" \in Ops /\ "get" \in StepNames /\ Reconciler \in Workers
        BY DEF Ops, StepNames, Workers
    <2>4. CallsJust(Reconciler)' /\ OthersWait(Reconciler)
        BY <1>2, <1>4, <2>1, <2>2, <2>3, Begins DEF CallsJust
    <2> QED BY <1>2, <1>4, <2>4, PortInvKept DEF OthersWait
<1> QED BY <1>1, <1>3, <1>4

LEMMA ReclaimPortInv ==
    ASSUME TypeOK, PortInv, Reclaim
    PROVE  PortInv'
<1>1. Reconciler \in Workers /\ call[Reconciler].inst \in Instances
    BY BusyCalls DEF Reclaim, Workers, Calls
<1>2. OthersWait(Reconciler) /\ GoesOn(Reconciler)
    BY <1>1, DeleteGoesOn, DiesTypes DEF Reclaim, GoesOn
<1>3. UNCHANGED nova /\ (UNCHANGED turn \/ listed' = {})
    BY DEF Reclaim, DeleteGet, Delete, Dies, world
<1>4. \A u \in Instances : old'[u] \subseteq old[u]
    BY <1>1 DEF Reclaim, DeleteGet, Delete, TypeOK
<1>5. NovaOnward /\ OldBuilt'
    BY <1>3, <1>4 DEF NovaOnward, PortInv, OldBuilt
<1> QED BY <1>2, <1>3, <1>5, PortInvKept DEF OthersWait

\* A listing says which ports were old; nothing has been asked yet.
LEMMA ListPortInv ==
    ASSUME TypeOK, PortInv, ListManaged
    PROVE  PortInv'
<1>1. ASSUME NEW m \in listed', m.expired
      PROVE  nova'[m.inst] # "NONE"
    <2>1. m \in Listings /\ m.port \in old[m.inst]
        BY <1>1 DEF ListManaged
    <2> QED BY <2>1 DEF ListManaged, Listings, PortInv, OldBuilt, world
<1> QED BY <1>1 DEF ListManaged, PortInv, CallsJust, OldBuilt, ListedJust, world

LEMMA NextPortInv == TypeOK /\ PortInv /\ [Next]_vars => PortInv'
<1> SUFFICES ASSUME TypeOK, PortInv, [Next]_vars
             PROVE  PortInv'
    OBVIOUS
<1>1. CASE SessionPass
    <2>1. NovaOnward /\ OldBuilt'
        BY <1>1 DEF SessionPass, NovaOnward, PortInv, OldBuilt, world
    <2>2. CASE Dies
        BY <2>1, <2>2, DiesTypes, PortInvKept DEF OthersWait, GoesOn
    <2>3. CASE phase' = "list" /\ UNCHANGED <<call, listed, asked, known>>
        BY <1>1, <2>3 DEF SessionPass, PortInv, CallsJust, OldBuilt, ListedJust, world
    <2> QED BY <1>1, <2>2, <2>3 DEF SessionPass
<1>2. CASE Sleep \/ Restart
    BY <1>2 DEF Sleep, Restart, PortInv, CallsJust, OldBuilt, ListedJust, world
<1>3. CASE Crash
    <2>1. NovaOnward /\ OldBuilt'
        BY <1>3 DEF Crash, NovaOnward, PortInv, OldBuilt, world
    <2> QED BY <1>3, <2>1, DiesTypes, PortInvKept DEF Crash, OthersWait, GoesOn
<1>4. CASE UNCHANGED vars
    BY <1>4 DEF vars, PortInv, CallsJust, OldBuilt, ListedJust
<1> QED BY <1>1, <1>2, <1>3, <1>4, EnvironmentPortInv, RequestPortInv, HandlerPortInv, ListPortInv,
           AskPortInv, VisitPortInv, ReclaimPortInv DEF Next, Turn

\* Only a DELETE takes a port, of the instance its call is about.
LEMMA OnlyDeleteTakes ==
    ASSUME TypeOK, [Next]_vars, NEW u \in Instances, NEW p \in PortIds,
           p \in ports[u], p \notin ports'[u]
    PROVE  \E w \in Workers : Delete(w, u) /\ call[w].inst = u /\ call[w].port = p
<1>1. ASSUME NEW w \in Workers, NEW v \in Instances, Delete(w, v), call[w].inst = v
      PROVE  Delete(w, u) /\ call[w].inst = u /\ call[w].port = p
    BY <1>1 DEF Delete, TypeOK
<1>2. ASSUME NEW t \in Threads, Handler(t)
      PROVE  \E w \in Workers : Delete(w, u) /\ call[w].inst = u /\ call[w].port = p
    <2>1. PICK v \in Instances :
             /\ call[t] # Idle /\ call[t].inst = v
             /\ \/ EnsureGet(t, v) \/ EnsurePost(t, v) \/ Rollback(t, v)
                \/ AdmitGet(t, v) \/ AdmitClaim(t, v) \/ AdmitWrite(t, v)
                \/ EventSession(t, v) \/ DeleteGet(t, v) \/ Delete(t, v)
        BY <1>2 DEF Handler
    <2>2. ~EnsurePost(t, v)
        BY DEF EnsurePost, TypeOK
    <2>3. Delete(t, v)
        BY <2>1, <2>2 DEF EnsureGet, Rollback, AdmitGet, AdmitClaim, AdmitWrite, EventSession,
                          DeleteGet, neutron
    <2> QED BY <1>1, <2>1, <2>3 DEF Workers
<1>3. CASE Reclaim
    <2>1. call[Reconciler].inst \in Instances /\ Reconciler \in Workers
        BY <1>3, BusyCalls DEF Reclaim, Workers, Calls
    <2>2. Delete(Reconciler, call[Reconciler].inst)
        BY <1>3 DEF Reclaim, DeleteGet, neutron
    <2> QED BY <1>1, <2>1, <2>2
<1> QED BY <1>2, <1>3 DEF Next, Nova, Age, Prebuild, Request, Raise, Turn, SessionPass, ListManaged, AskStatus,
                          VisitPort, Sleep, Restart, Crash, neutron, vars

\* A rollback, delete.end or the reconciler deletes the port of a VM only when
\* the VM is gone for good, however long ago they read the session, the list or
\* the status; what is left are the threads that end a failed build.
THEOREM OnlyEndsTakePorts == Spec => PortsOfVmsKept
<1> DEFINE Kept == \A u \in Instances, p \in PortIds :
                      /\ p \in ports[u] /\ p \notin ports'[u]
                      => \/ nova[u] = "GONE"
                         \/ \E t \in Threads : At(t, "error", "delete") /\ call[t].port = p
<1>1. Init => PortInv
    BY DEF Init, PortInv, CallsJust, OldBuilt, ListedJust, Idle, Condemning
<1>2. ASSUME TypeOK, PortInv, [Next]_vars
      PROVE  Kept
    <2>1. SUFFICES ASSUME NEW u \in Instances, NEW p \in PortIds, p \in ports[u], p \notin ports'[u],
                          nova[u] # "GONE"
                   PROVE  \E t \in Threads : At(t, "error", "delete") /\ call[t].port = p
        BY Zenon
    <2>2. PICK w \in Workers : Delete(w, u) /\ call[w].inst = u /\ call[w].port = p
        BY <1>2, <2>1, OnlyDeleteTakes
    <2>3. CallsJust(w) /\ call[w].op = "error"
        BY <1>2, <2>1, <2>2 DEF PortInv, CallsJust, Delete, Deleting, Condemning
    <2>4. w # Reconciler
        BY <2>3 DEF CallsJust, Idle
    <2> QED BY <2>2, <2>3, <2>4 DEF Delete, At, Workers
<1>3. TypeOK /\ PortInv /\ [Next]_vars => [Kept]_vars
    BY <1>2
<1> QED BY <1>1, <1>3, NextPortInv, TypeCorrect, PTL DEF Spec, PortsOfVmsKept

-----------------------------------------------------------------------------
(***************************************************************************)
(* Ports and prebuilds                                                     *)
(***************************************************************************)
\* Prebuilds that found no port and are about to create one.
Posting(u) == {w \in Running("prebuild", u) : call[w].step = "post"}

\* No more prebuilds run than width says, and the ports are those some of them
\* created while the others that found none have theirs still to come.
WidthInv ==
    \A u \in Instances :
        /\ Cardinality(Running("prebuild", u)) <= width[u]
        /\ Cardinality(ports[u]) + Cardinality(Posting(u)) <= width[u]

LEMMA OneMore ==
    ASSUME NEW S, IsFiniteSet(S), NEW x
    PROVE  /\ Cardinality(S \union {x}) \in Nat
           /\ Cardinality(S \union {x}) <= Cardinality(S) + 1
<1>1. Cardinality(S) \in Nat
    BY FS_CardinalityType
<1>2. Cardinality(S \union {x}) = IF x \in S THEN Cardinality(S) ELSE Cardinality(S) + 1
    BY FS_AddElement
<1> QED BY <1>1, <1>2

LEMMA OneLess ==
    ASSUME NEW S, IsFiniteSet(S), NEW x \in S
    PROVE  Cardinality(S \ {x}) = Cardinality(S) - 1
BY FS_RemoveElement

LEMMA Counts ==
    ASSUME TypeOK, NEW u \in Instances
    PROVE  /\ IsFiniteSet(Running("prebuild", u)) /\ Cardinality(Running("prebuild", u)) \in Nat
           /\ IsFiniteSet(Posting(u)) /\ Cardinality(Posting(u)) \in Nat
           /\ Cardinality(Posting(u)) <= Cardinality(Running("prebuild", u))
           /\ IsFiniteSet(ports[u]) /\ Cardinality(ports[u]) \in Nat
           /\ width[u] \in Nat
<1>1. Posting(u) \in SUBSET Running("prebuild", u)
    BY DEF Posting
<1>2. ports[u] \in SUBSET PortIds /\ width[u] \in Nat
    BY DEF TypeOK
<1> QED BY <1>1, <1>2, RunningPrebuilds, FS_Subset, FS_CardinalityType

\* The counts of an instance stay within its width if no port comes, no prebuild
\* begins and none comes to its POST.
LEMMA CountsFall ==
    ASSUME TypeOK, TypeOK', NEW u \in Instances,
           Cardinality(Running("prebuild", u)) <= width[u],
           Cardinality(ports[u]) + Cardinality(Posting(u)) <= width[u],
           ports'[u] \subseteq ports[u], width'[u] = width[u],
           Running("prebuild", u)' \subseteq Running("prebuild", u),
           Posting(u)' \subseteq Posting(u)
    PROVE  /\ Cardinality(Running("prebuild", u)') <= width'[u]
           /\ Cardinality(ports'[u]) + Cardinality(Posting(u)') <= width'[u]
<1>1. /\ Cardinality(Running("prebuild", u)') <= Cardinality(Running("prebuild", u))
      /\ Cardinality(Posting(u)') <= Cardinality(Posting(u))
      /\ Cardinality(ports'[u]) <= Cardinality(ports[u])
    BY Counts, FS_Subset
<1>2. /\ Cardinality(Running("prebuild", u)') \in Nat
      /\ Cardinality(Posting(u)') \in Nat
      /\ Cardinality(ports'[u]) \in Nat
    BY Counts, FS_Subset, FS_CardinalityType
<1> QED BY <1>1, <1>2, Counts

\* A step of one worker that goes on with what it does, or is no prebuild
\* afterwards, and does not come to a POST.
LEMMA WidthKept ==
    ASSUME TypeOK, TypeOK', WidthInv, UNCHANGED width,
           \A u \in Instances : ports'[u] \subseteq ports[u],
           \A w \in Workers : \/ call'[w] = call[w]
                              \/ call'[w].op # "prebuild"
                              \/ GoesOn(w) /\ call'[w].step # "post"
    PROVE  WidthInv'
<1>1. ASSUME NEW u \in Instances
      PROVE  /\ Running("prebuild", u)' \subseteq Running("prebuild", u)
             /\ Posting(u)' \subseteq Posting(u)
    <2>1. ASSUME NEW w \in Workers, call'[w].op = "prebuild", call'[w].inst = u
          PROVE  /\ call[w].op = "prebuild" /\ call[w].inst = u
                 /\ call'[w].step = "post" => call[w].step = "post"
        BY <2>1 DEF GoesOn, Idle
    <2> QED BY <2>1 DEF Running, Posting
<1> QED BY <1>1, CountsFall DEF WidthInv

\* One more prebuild, at its GET.
LEMMA PrebuildWidth ==
    ASSUME TypeOK, TypeOK', WidthInv, NEW t \in Threads, NEW u \in Instances, Prebuild(t, u)
    PROVE  WidthInv'
<1>1. /\ t \in Workers /\ call[t] = Idle /\ OthersWait(t)
      /\ call'[t].op = "prebuild" /\ call'[t].inst = u /\ call'[t].step = "get"
    BY Begins DEF Prebuild, Begin, Workers, Ops, StepNames
<1>2. /\ Running("prebuild", u)' = Running("prebuild", u) \union {t}
      /\ Posting(u)' = Posting(u)
    BY <1>1 DEF Running, Posting, OthersWait, Idle
<1>3. \A v \in Instances \ {u} : /\ Running("prebuild", v)' = Running("prebuild", v)
                                 /\ Posting(v)' = Posting(v)
    BY <1>1 DEF Running, Posting, OthersWait, Idle
<1>4. Cardinality(Running("prebuild", u)') <= Cardinality(Running("prebuild", u)) + 1
      /\ Cardinality(Running("prebuild", u)') \in Nat
    <2>1. IsFiniteSet(Running("prebuild", u))
        BY Counts
    <2> QED BY <1>2, <2>1, OneMore
<1>5. /\ width'[u] >= Cardinality(Running("prebuild", u)) + 1
      /\ width'[u] >= width[u]
      /\ \A v \in Instances \ {u} : width'[v] = width[v]
    BY Counts DEF Prebuild, TypeOK
<1>6. UNCHANGED ports
    BY DEF Prebuild
<1>7. width'[u] \in Nat
    BY DEF TypeOK
<1> QED BY <1>2, <1>3, <1>4, <1>5, <1>6, <1>7, Counts DEF WidthInv

\* A prebuild comes to its POST only while there is no port.
LEMMA EnsureGetWidth ==
    ASSUME TypeOK, TypeOK', WidthInv, NEW t \in Threads, NEW u \in Instances,
           call[t].inst = u, EnsureGet(t, u)
    PROVE  WidthInv'
<1>1. t \in Workers /\ OthersWait(t) /\ GoesOn(t) /\ UNCHANGED <<ports, width>>
    <2>1. call[t] # Idle
        BY DEF EnsureGet, At, Idle
    <2>2. Return(t) \/ Goto(t, "post")
        BY DEF EnsureGet
    <2> QED BY <2>1, <2>2, Returns, Goes DEF EnsureGet, neutron, Workers, StepNames
<1>2. CASE Return(t)
    BY <1>1, <1>2, Returns, WidthKept DEF OthersWait, Idle
<1>3. CASE FindsNone(u)
    <2>1. \A v \in Instances : Running("prebuild", v)' \subseteq Running("prebuild", v)
        BY <1>1 DEF Running, OthersWait, GoesOn, Idle
    <2>2. \A v \in Instances \ {u} : Posting(v)' \subseteq Posting(v)
        BY <1>1 DEF Running, Posting, OthersWait, GoesOn, Idle
    <2>3. \A v \in Instances \ {u} :
             /\ Cardinality(Running("prebuild", v)') <= width'[v]
             /\ Cardinality(ports'[v]) + Cardinality(Posting(v)') <= width'[v]
        BY <1>1, <2>1, <2>2, CountsFall DEF WidthInv
    <2>4. Posting(u)' \in SUBSET Running("prebuild", u)
        BY <2>1 DEF Posting
    <2>5. /\ Cardinality(Posting(u)') <= Cardinality(Running("prebuild", u))
          /\ Cardinality(Posting(u)') \in Nat
          /\ Cardinality(Running("prebuild", u)') <= Cardinality(Running("prebuild", u))
          /\ Cardinality(Running("prebuild", u)') \in Nat
        BY <2>1, <2>4, Counts, FS_Subset, FS_CardinalityType
    <2>6. Cardinality(ports'[u]) = 0
        BY <1>1, <1>3, FS_EmptySet DEF FindsNone
    <2>7. /\ Cardinality(Running("prebuild", u)') <= width'[u]
          /\ Cardinality(ports'[u]) + Cardinality(Posting(u)') <= width'[u]
        BY <1>1, <2>5, <2>6, Counts DEF WidthInv
    <2> QED BY <2>3, <2>7 DEF WidthInv
<1> QED BY <1>2, <1>3 DEF EnsureGet

\* The POST that makes a port is one fewer to come.
LEMMA EnsurePostWidth ==
    ASSUME TypeOK, TypeOK', WidthInv, NEW t \in Threads, NEW u \in Instances,
           call[t].inst = u, EnsurePost(t, u)
    PROVE  WidthInv'
<1>1. t \in Workers /\ OthersWait(t) /\ call'[t] = Idle /\ UNCHANGED width
    BY Returns DEF EnsurePost, Workers
<1>2. \A v \in Instances : /\ Running("prebuild", v)' \subseteq Running("prebuild", v)
                           /\ Posting(v)' \subseteq Posting(v)
    BY <1>1 DEF Running, Posting, OthersWait, Idle
<1>3. PICK p \in PortIds : ports' = [ports EXCEPT ![u] = @ \union {p}]
    BY DEF EnsurePost
<1>4. ports'[u] = ports[u] \union {p} /\ \A v \in Instances \ {u} : ports'[v] = ports[v]
    BY <1>3 DEF TypeOK
<1>5. \A v \in Instances \ {u} :
         /\ Cardinality(Running("prebuild", v)') <= width'[v]
         /\ Cardinality(ports'[v]) + Cardinality(Posting(v)') <= width'[v]
    BY <1>1, <1>2, <1>4, CountsFall DEF WidthInv
<1>6. t \in Posting(u) /\ Posting(u)' = Posting(u) \ {t}
    BY <1>1 DEF EnsurePost, At, Posting, Running, OthersWait, Idle
<1>7. /\ Cardinality(Posting(u)') = Cardinality(Posting(u)) - 1
      /\ Cardinality(ports'[u]) <= Cardinality(ports[u]) + 1
      /\ Cardinality(ports'[u]) \in Nat
    <2>1. IsFiniteSet(Posting(u)) /\ IsFiniteSet(ports[u])
        BY Counts
    <2>2. Cardinality(Posting(u)') = Cardinality(Posting(u)) - 1
        BY <1>6, <2>1, OneLess
    <2>3. /\ Cardinality(ports'[u]) <= Cardinality(ports[u]) + 1
          /\ Cardinality(ports'[u]) \in Nat
        BY <1>4, <2>1, OneMore
    <2> QED BY <2>2, <2>3
<1>8. Cardinality(Running("prebuild", u)') <= width'[u]
    BY <1>1, <1>2, Counts, FS_Subset, FS_CardinalityType DEF WidthInv
<1>9. Cardinality(ports'[u]) + Cardinality(Posting(u)') <= width'[u]
    BY <1>1, <1>7, Counts DEF WidthInv
<1> QED BY <1>5, <1>8, <1>9 DEF WidthInv

\* The other steps of the handlers are those of no prebuild.
LEMMA HandlerWidth ==
    ASSUME TypeOK, TypeOK', WidthInv, NEW t \in Threads, Handler(t)
    PROVE  WidthInv'
<1>1. PICK u \in Instances :
         /\ call[t] # Idle /\ call[t].inst = u
         /\ \/ EnsureGet(t, u) \/ EnsurePost(t, u) \/ Rollback(t, u)
            \/ AdmitGet(t, u) \/ AdmitClaim(t, u) \/ AdmitWrite(t, u)
            \/ EventSession(t, u) \/ DeleteGet(t, u) \/ Delete(t, u)
    BY DEF Handler
<1>2. t \in Workers /\ OthersWait(t) /\ GoesOn(t)
    BY HandlerGoesOn DEF Workers
<1>3. CASE Rollback(t, u) \/ AdmitGet(t, u) \/ AdmitClaim(t, u) \/ AdmitWrite(t, u)
           \/ EventSession(t, u) \/ DeleteGet(t, u) \/ Delete(t, u)
    <2>1. call[t].op # "prebuild" /\ UNCHANGED width
        BY <1>3 DEF Rollback, AdmitGet, AdmitClaim, AdmitWrite, EventSession, DeleteGet, Delete,
                    At, Deleting, neutron
    <2>2. call'[t].op # "prebuild"
        BY <1>2, <2>1 DEF GoesOn, Idle
    <2>3. \A v \in Instances : ports'[v] \subseteq ports[v]
        BY <1>3 DEF Rollback, AdmitGet, AdmitClaim, AdmitWrite, EventSession, DeleteGet, Delete,
                    neutron, TypeOK
    <2> QED BY <1>2, <2>1, <2>2, <2>3, WidthKept DEF OthersWait
<1> QED BY <1>1, <1>3, EnsureGetWidth, EnsurePostWidth

\* The reconciler creates no port and makes no prebuild.
LEMMA TurnWidth ==
    ASSUME TypeOK, TypeOK', WidthInv, Turn \/ Crash
    PROVE  WidthInv'
<1>1. Reconciler \in Workers
    BY DEF Workers
<1>2. ASSUME Dies, UNCHANGED <<ports, width>>
      PROVE  WidthInv'
    BY <1>1, <1>2, DiesTypes, WidthKept DEF OthersWait, Idle
<1>3. CASE ListManaged \/ AskStatus \/ Sleep \/ Restart
    BY <1>3, WidthKept DEF ListManaged, AskStatus, Sleep, Restart, neutron
<1>4. CASE SessionPass
    <2>1. UNCHANGED <<ports, width>> /\ (UNCHANGED call \/ Dies)
        BY <1>4 DEF SessionPass, neutron
    <2> QED BY <1>2, <2>1, WidthKept
<1>5. CASE VisitPort
    <2>1. \/ UNCHANGED call \/ Dies
          \/ \E m \in listed : Begin(Reconciler, "reclaim", m.inst, "get")
        BY <1>5 DEF VisitPort, AdmitListed
    <2>2. UNCHANGED call \/ Dies \/ (OthersWait(Reconciler) /\ call'[Reconciler].op # "prebuild")
        BY <1>1, <2>1, Begins DEF Ops, StepNames, TypeOK, Listings
    <2> QED BY <1>2, <1>5, <2>2, WidthKept DEF VisitPort, OthersWait, neutron
<1>6. CASE Reclaim
    <2>1. call[Reconciler].inst \in Instances
        BY <1>1, <1>6, BusyCalls DEF Reclaim, Calls
    <2>2. CASE Dies /\ UNCHANGED neutron
        BY <1>2, <2>2 DEF neutron
    <2>3. CASE DeleteGet(Reconciler, call[Reconciler].inst) \/ Delete(Reconciler, call[Reconciler].inst)
        <3>1. OthersWait(Reconciler) /\ GoesOn(Reconciler)
            BY <1>1, <2>1, <2>3, DeleteGoesOn
        <3>2. call[Reconciler].op # "prebuild" /\ UNCHANGED width
            BY <2>3 DEF DeleteGet, Delete, Deleting, neutron
        <3>3. call'[Reconciler].op # "prebuild"
            BY <3>1, <3>2 DEF GoesOn, Idle
        <3>4. \A v \in Instances : ports'[v] \subseteq ports[v]
            BY <2>1, <2>3 DEF DeleteGet, Delete, neutron, TypeOK
        <3> QED BY <3>1, <3>2, <3>3, <3>4, WidthKept DEF OthersWait
    <2> QED BY <1>6, <2>2, <2>3 DEF Reclaim
<1>7. CASE Crash
    BY <1>2, <1>7 DEF Crash, neutron
<1> QED BY <1>3, <1>4, <1>5, <1>6, <1>7 DEF Turn

LEMMA NextWidth == TypeOK /\ TypeOK' /\ WidthInv /\ [Next]_vars => WidthInv'
<1> SUFFICES ASSUME TypeOK, TypeOK', WidthInv, [Next]_vars
             PROVE  WidthInv'
    OBVIOUS
<1>1. ASSUME NEW u \in Instances, Nova(u) \/ Age(u)
      PROVE  WidthInv'
    BY <1>1, WidthKept DEF Nova, Age, neutron
<1>2. ASSUME NEW t \in Threads, NEW u \in Instances, Request(t, u)
      PROVE  WidthInv'
    <2>1. PICK op \in Ops \ {"prebuild"}, step \in StepNames : Begin(t, op, u, step)
        BY <1>2 DEF Request, Ops, StepNames
    <2>2. OthersWait(t) /\ call'[t].op # "prebuild"
        BY <2>1, Begins DEF Workers
    <2> QED BY <1>2, <2>2, WidthKept DEF Request, OthersWait, neutron
<1>3. ASSUME NEW t \in Threads, Raise(t)
      PROVE  WidthInv'
    BY <1>3, Returns, WidthKept DEF Raise, Workers, OthersWait, Idle, neutron
<1>4. CASE UNCHANGED vars
    BY <1>4, WidthKept DEF vars
<1> QED BY <1>1, <1>2, <1>3, <1>4, PrebuildWidth, HandlerWidth, TurnWidth DEF Next

LEMMA InitWidth == Init => WidthInv
<1> SUFFICES ASSUME Init, NEW u \in Instances
             PROVE  /\ Cardinality(Running("prebuild", u)) <= width[u]
                    /\ Cardinality(ports[u]) + Cardinality(Posting(u)) <= width[u]
    BY DEF WidthInv
<1>1. Running("prebuild", u) = {} /\ Posting(u) = {} /\ ports[u] = {} /\ width[u] = 0
    BY DEF Init, Running, Posting, Idle
<1> QED BY <1>1, FS_EmptySet

\* The prebuild finds the port that is there: however often it is repeated, and
\* whatever became of the calls before, a VM has as many ports as it had prebuilds
\* at once, at most, and one if they never overlapped.
THEOREM PortsNeedOverlap == Spec => []PortsWithinWidth
<1>1. TypeOK /\ WidthInv => PortsWithinWidth
    BY Counts DEF WidthInv, PortsWithinWidth
<1>2. TypeOK /\ TypeOK' /\ WidthInv /\ [Next]_vars => WidthInv'
    BY NextWidth
<1> QED BY <1>1, <1>2, InitWidth, TypeCorrect, PTL DEF Spec
=============================================================================
