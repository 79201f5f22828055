------------------------- MODULE SharedStoreProofs -------------------------
(***************************************************************************)
(* Proofs about SharedStore, for every set of containers, of instances and *)
(* of tokens, with or without writes that raise: rows are never torn, and  *)
(* what goes wrong goes wrong only where operations overlapped.            *)
(***************************************************************************)
EXTENDS SharedStore, FiniteSetTheorems, TLAPS

USE TokenTypes, NoOneTypes

-----------------------------------------------------------------------------
(***************************************************************************)
(* Type correctness                                                        *)
(***************************************************************************)
LEMMA InitTypeOK == Init => TypeOK
BY DEF Init, TypeOK, NoRecord, NoAnswer, Record, States, Persisted, Phases

\* The members of Phases and States that the operations name.
LEMMA Named ==
    /\ {"idle", "storing", "starting", "creating", "deleting", "closing"} \subseteq Phases
    /\ {"ABSENT", "RESERVED", "STARTING", "FAILED", "DELETED"} \subseteq States
    /\ Serving \subseteq States
BY DEF Phases, States, Persisted, Serving

\* The rows that are written from nothing.
LEMMA WrittenRecords ==
    /\ NoRecord \in Record
    /\ \A g \in Nat : ReservedRecord(g) \in Record
    /\ \A r \in Record : r.generation \in Nat
BY Named DEF Record, NoRecord, ReservedRecord

\* The parts of TypeOK that a step of a container changes.
LEMMA StepTypeOK ==
    ASSUME TypeOK, NEW p \in Procs, Step(p), UNCHANGED answer
    PROVE  TypeOK'
<1> USE Named, WrittenRecords DEF TypeOK
<1> rows \in [Instances -> Record] /\ copy[p] \in Record
    OBVIOUS
<1>1. ASSUME NEW u \in Instances, NEW phase \in Phases, NEW r \in Record, Begin(p, u, phase, r)
      PROVE  /\ pc' \in [Procs -> Phases] /\ on' \in [Procs -> Instances \union {NoOne}]
             /\ copy' \in [Procs -> Record] /\ raced' \subseteq Instances
    BY <1>1 DEF Begin
<1>2. ASSUME NEW phase \in Phases, NEW r \in Record, Goto(p, phase, r)
      PROVE  /\ pc' \in [Procs -> Phases] /\ on' \in [Procs -> Instances \union {NoOne}]
             /\ copy' \in [Procs -> Record] /\ raced' \subseteq Instances
    BY <1>2 DEF Goto
<1>3. ASSUME Done(p)
      PROVE  /\ pc' \in [Procs -> Phases] /\ on' \in [Procs -> Instances \union {NoOne}]
             /\ copy' \in [Procs -> Record] /\ raced' \subseteq Instances
    BY <1>3 DEF Done
<1>4. ASSUME NEW r \in Record, Write(p, r)
      PROVE  rows' \in [Instances -> Record]
    BY <1>4 DEF Write
<1>5. ASSUME NEW u \in Instances, AdmitBegin(p, u)
      PROVE  TypeOK'
    <2>1. ReservedRecord(rows[u].generation) \in Record
        OBVIOUS
    <2>2. "storing" \in Phases
        OBVIOUS
    <2>3. Begin(p, u, "storing", ReservedRecord(rows[u].generation))
        BY <1>5 DEF AdmitBegin
    <2>4. quotas' \in [Procs -> SUBSET Instances]
        BY <1>5 DEF AdmitBegin
    <2> QED BY <1>1, <1>5, <2>1, <2>2, <2>3, <2>4 DEF AdmitBegin
<1>6. ASSUME NEW u \in Instances, ActiveBegin(p, u)
      PROVE  TypeOK'
    <2>1. CASE Begin(p, u, "starting", [rows[u] EXCEPT !.state = "STARTING"])
        <3>1. [rows[u] EXCEPT !.state = "STARTING"] \in Record /\ "starting" \in Phases
            BY rows[u] \in Record DEF Record
        <3> QED BY <1>1, <1>6, <2>1, <3>1 DEF ActiveBegin
    <2>2. ASSUME NEW s \in Serving, Begin(p, u, "storing", [rows[u] EXCEPT !.state = s])
          PROVE  TypeOK'
        <3>1. [rows[u] EXCEPT !.state = s] \in Record /\ "storing" \in Phases
            BY rows[u] \in Record DEF Record
        <3> QED BY <1>1, <1>6, <2>2, <3>1 DEF ActiveBegin
    <2> QED BY <1>6, <2>1, <2>2 DEF ActiveBegin
<1>7. ASSUME NEW u \in Instances, DeleteBegin(p, u)
      PROVE  TypeOK'
    <2> DEFINE phase == IF rows[u].backend THEN "deleting" ELSE "closing"
    <2>1. [rows[u] EXCEPT !.state = "DELETED", !.token = NoToken] \in Record /\ phase \in Phases
        BY rows[u] \in Record DEF Record
    <2>2. Begin(p, u, phase, [rows[u] EXCEPT !.state = "DELETED", !.token = NoToken])
        BY <1>7 DEF DeleteBegin
    <2> HIDE DEF phase
    <2> QED BY <1>1, <1>7, <2>1, <2>2 DEF DeleteBegin
<1>8. ASSUME NEW u \in Instances, AbortBegin(p, u)
      PROVE  TypeOK'
    <2>1. [rows[u] EXCEPT !.state = "FAILED"] \in Record /\ "closing" \in Phases
        BY rows[u] \in Record DEF Record
    <2> QED BY <1>1, <1>8, <2>1 DEF AbortBegin
<1>9. CASE StartPersist(p)
    <2>1. copy[p] \in Record /\ "creating" \in Phases
        OBVIOUS
    <2> QED BY <1>2, <1>4, <1>9, <2>1 DEF StartPersist
<1>10. CASE CreateSession(p)
    <2>1. ASSUME NEW t \in FreshTokens, manager' = Upserted(p, t)
          PROVE  manager' \in [Instances -> ManagerSession \union {NoSession}]
        BY <2>1 DEF Upserted, FreshTokens, ManagerSession
    <2>2. CASE CreateAnswered(p)
        <3>1. PICK t \in FreshTokens, s \in Serving :
                 /\ manager' = Upserted(p, t)
                 /\ Goto(p, "storing", [copy[p] EXCEPT !.state = s, !.token = t, !.backend = TRUE])
            BY <2>2 DEF CreateAnswered
        <3>2. [copy[p] EXCEPT !.state = s, !.token = t, !.backend = TRUE] \in Record
              /\ "storing" \in Phases
            BY copy[p] \in Record DEF Record, FreshTokens
        <3> QED BY <1>2, <1>10, <2>1, <3>1, <3>2 DEF CreateSession
    <2>3. CASE CreateFailed(p)
        <3>1. [copy[p] EXCEPT !.token = NoToken] \in Record /\ "storing" \in Phases
            BY copy[p] \in Record DEF Record
        <3>2. manager' \in [Instances -> ManagerSession \union {NoSession}]
            BY <2>1, <2>3 DEF CreateFailed
        <3>3. Goto(p, "storing", [copy[p] EXCEPT !.token = NoToken])
            BY <2>3 DEF CreateFailed
        <3> QED BY <1>2, <1>10, <3>1, <3>2, <3>3 DEF CreateSession
    <2> QED BY <1>10, <2>2, <2>3 DEF CreateSession
<1>11. CASE Store(p)
    BY <1>3, <1>4, <1>11 DEF Store
<1>12. CASE DeleteSession(p)
    <2>1. [manager EXCEPT ![on[p]] = NoSession] \in [Instances -> ManagerSession \union {NoSession}]
        OBVIOUS
    <2>2. manager' \in [Instances -> ManagerSession \union {NoSession}]
        BY <1>12, <2>1 DEF DeleteSession
    <2>3. [copy[p] EXCEPT !.backend = FALSE] \in Record /\ "closing" \in Phases
        BY copy[p] \in Record DEF Record
    <2>4. /\ pc' \in [Procs -> Phases] /\ on' \in [Procs -> Instances \union {NoOne}]
          /\ copy' \in [Procs -> Record] /\ raced' \subseteq Instances
        BY <1>2, <1>3, <1>12, <2>3 DEF DeleteSession
    <2> QED BY <1>12, <2>2, <2>4 DEF DeleteSession
<1>13. CASE Close(p)
    <2>1. quotas' \in [Procs -> SUBSET Instances]
        BY <1>13 DEF Close
    <2> QED BY <1>3, <1>4, <1>13, <2>1 DEF Close
<1>14. CASE WriteRaises(p)
    <2>1. quotas' \in [Procs -> SUBSET Instances]
        BY <1>14 DEF WriteRaises
    <2> QED BY <1>3, <1>14, <2>1 DEF WriteRaises
<1>15. CASE Crash(p)
    <2>1. quotas' \in [Procs -> SUBSET Instances]
        BY <1>15 DEF Crash, Live
    <2> QED BY <1>3, <1>15, <2>1 DEF Crash
<1> QED BY <1>5, <1>6, <1>7, <1>8, <1>9, <1>10, <1>11, <1>12, <1>13, <1>14, <1>15 DEF Step

LEMMA VendorDataTypeOK ==
    ASSUME TypeOK, NEW u \in Instances, VendorData(u),
           UNCHANGED <<rows, manager, quotas, pc, on, copy, raced>>
    PROVE  TypeOK'
<1> DEFINE Answers == [inst : Instances \union {NoOne}, generation : Nat,
                       token : Tokens \union {NoToken}, life : Nat]
<1>1. answer \in Answers
    BY DEF TypeOK
<1>2. rows[u] \in Record
    BY DEF TypeOK
<1>3. rows[u].generation \in Nat /\ rows[u].token \in Tokens \union {NoToken}
    BY <1>2 DEF Record
<1>4. NoAnswer \in Answers
    BY DEF NoAnswer
<1>5. [NoAnswer EXCEPT !.inst = u, !.generation = rows[u].generation] \in Answers
    BY <1>3, <1>4
<1>6. [answer EXCEPT !.token = rows[u].token, !.life = rows[u].generation] \in Answers
    BY <1>1, <1>3
<1>7. answer' \in Answers
    BY <1>4, <1>5, <1>6 DEF VendorData
<1> QED BY <1>7 DEF TypeOK

\* Every reachable state of the containers, the rows and the answers to Nova is
\* well typed.
THEOREM TypeCorrect == Spec => []TypeOK
<1>1. TypeOK /\ UNCHANGED vars => TypeOK'
    BY DEF TypeOK, vars
<1>2. TypeOK /\ [Next]_vars => TypeOK'
    BY <1>1, StepTypeOK, VendorDataTypeOK DEF Next
<1> QED BY <1>2, InitTypeOK, PTL DEF Spec

-----------------------------------------------------------------------------
(***************************************************************************)
(* Rows are never torn                                                     *)
(*                                                                         *)
(* A row is what some container wrote, so the invariant is about the copy  *)
(* that a container will write next, at each phase of its operation, and   *)
(* needs nothing of the row as it is now: others may have changed it.      *)
(***************************************************************************)
Whole(r) ==
    /\ r.state \in Serving => r.token # NoToken /\ r.backend
    /\ r.state \in Admittable \union Startable => r.token = NoToken /\ ~r.backend

\* The copy is that of a session that has not asked the manager yet.
Unasked(r) == r.state = "STARTING" /\ r.token = NoToken /\ ~r.backend

CopyOK(p) ==
    /\ pc[p] # "idle" => on[p] \in Instances
    /\ pc[p] \in {"starting", "creating"} => Unasked(copy[p])
    /\ pc[p] \in {"storing", "closing"} => Whole(copy[p])
    /\ pc[p] = "deleting" => copy[p].state = "DELETED" /\ copy[p].token = NoToken

WholeInv == /\ \A u \in Instances : Whole(rows[u])
            /\ \A p \in Procs : CopyOK(p)

\* The groups of states do not overlap.
LEMMA Groups ==
    /\ Serving \intersect (Admittable \union Startable) = {}
    /\ "STARTING" \in Startable
    /\ "FAILED" \notin Serving \union Admittable \union Startable
    /\ "DELETED" \in Admittable /\ "RESERVED" \in Startable
    /\ "PENDING_CAPACITY" \in Serving
BY DEF Serving, Admittable, Startable

\* A step that gives p a proper copy and leaves the rows alone, or writes a
\* whole record, keeps the invariant: the other containers are not touched.
LEMMA Kept ==
    ASSUME TypeOK, WholeInv, NEW p \in Procs, TypeOK',
           NEW c, pc' = [pc EXCEPT ![p] = c],
           NEW i, on' = [on EXCEPT ![p] = i],
           NEW r, copy' = [copy EXCEPT ![p] = r],
           CopyOK(p)',
           \/ rows' = rows
           \/ \E w : on[p] \in Instances /\ Whole(w) /\ Write(p, w)
    PROVE  WholeInv'
<1>1. \A q \in Procs : CopyOK(q)'
    BY DEF TypeOK, WholeInv, CopyOK
<1>2. \A u \in Instances : Whole(rows'[u])
    <2>1. ASSUME NEW w, on[p] \in Instances, Whole(w), Write(p, w), NEW u \in Instances
          PROVE  Whole(rows'[u])
        <3>1. rows' = [rows EXCEPT ![on[p]] = w]
            BY <2>1 DEF Write
        <3>2. rows'[u] = w \/ rows'[u] = rows[u]
            BY <2>1, <3>1 DEF TypeOK
        <3> QED BY <2>1, <3>2 DEF WholeInv
    <2> QED BY <2>1 DEF WholeInv
<1> QED BY <1>1, <1>2 DEF WholeInv

\* An operation that is over leaves nothing to be written.
LEMMA DoneKept ==
    ASSUME TypeOK, WholeInv, NEW p \in Procs, TypeOK', Done(p),
           \/ rows' = rows
           \/ \E w : on[p] \in Instances /\ Whole(w) /\ Write(p, w)
    PROVE  WholeInv'
<1>1. pc'[p] = "idle"
    BY DEF Done, TypeOK
<1>2. CopyOK(p)'
    BY <1>1 DEF CopyOK
<1> QED BY <1>2, Kept DEF Done

LEMMA StepWhole ==
    ASSUME TypeOK, TypeOK', WholeInv, NEW p \in Procs, Step(p)
    PROVE  WholeInv'
<1> USE Groups
<1>1. ASSUME NEW u \in Instances, NEW phase, NEW r, Begin(p, u, phase, r), rows' = rows,
             \/ phase = "starting" /\ Unasked(r)
             \/ phase \in {"storing", "closing"} /\ Whole(r)
             \/ phase = "deleting" /\ r.state = "DELETED" /\ r.token = NoToken
      PROVE  WholeInv'
    <2>1. pc'[p] = phase /\ on'[p] = u /\ copy'[p] = r
        BY <1>1 DEF Begin, TypeOK
    <2>2. CopyOK(p)'
        BY <1>1, <2>1 DEF CopyOK
    <2> QED BY <1>1, <2>2, Kept DEF Begin
<1>2. ASSUME NEW phase, NEW r, Goto(p, phase, r), on[p] \in Instances,
             \/ phase = "creating" /\ Unasked(r)
             \/ phase \in {"storing", "closing"} /\ Whole(r),
             rows' = rows \/ \E w : Whole(w) /\ Write(p, w)
      PROVE  WholeInv'
    <2>1. pc'[p] = phase /\ on'[p] = on[p] /\ copy'[p] = r
        BY <1>2 DEF Goto, TypeOK
    <2>2. CopyOK(p)'
        BY <1>2, <2>1 DEF CopyOK
    <2>3. on' = [on EXCEPT ![p] = on[p]]
        BY <1>2 DEF Goto, TypeOK
    <2> QED BY <1>2, <2>2, <2>3, Kept DEF Goto
<1>3. ASSUME NEW u \in Instances, AdmitBegin(p, u)
      PROVE  WholeInv'
    <2>1. Whole(ReservedRecord(rows[u].generation))
        BY DEF Whole, ReservedRecord
    <2> QED BY <1>1, <1>3, <2>1 DEF AdmitBegin
<1>4. ASSUME NEW u \in Instances, ActiveBegin(p, u)
      PROVE  WholeInv'
    <2>1. Whole(rows[u]) /\ rows[u] \in Record
        BY DEF WholeInv, TypeOK
    <2>2. CASE /\ rows[u].state \in Startable
               /\ Begin(p, u, "starting", [rows[u] EXCEPT !.state = "STARTING"])
        <3>1. Unasked([rows[u] EXCEPT !.state = "STARTING"])
            BY <2>1, <2>2 DEF Whole, Unasked, Record
        <3> QED BY <1>1, <1>4, <2>2, <3>1 DEF ActiveBegin
    <2>3. ASSUME rows[u].state = "PENDING_CAPACITY", NEW s \in Serving,
                 Begin(p, u, "storing", [rows[u] EXCEPT !.state = s])
          PROVE  WholeInv'
        <3>1. Whole([rows[u] EXCEPT !.state = s])
            BY <2>1, <2>3 DEF Whole, Record
        <3> QED BY <1>1, <1>4, <2>3, <3>1 DEF ActiveBegin
    <2> QED BY <1>4, <2>2, <2>3 DEF ActiveBegin
<1>5. ASSUME NEW u \in Instances, DeleteBegin(p, u)
      PROVE  WholeInv'
    <2> DEFINE r == [rows[u] EXCEPT !.state = "DELETED", !.token = NoToken]
    <2>1. rows[u] \in Record
        BY DEF TypeOK
    <2>2. r.state = "DELETED" /\ r.token = NoToken /\ r.backend = rows[u].backend
        BY <2>1 DEF Record
    <2>3. ~rows[u].backend => Whole(r)
        BY <2>2 DEF Whole
    <2> HIDE DEF r
    <2>4. CASE rows[u].backend
        <3>1. Begin(p, u, "deleting", r)
            BY <1>5, <2>4 DEF DeleteBegin, r
        <3> QED BY <1>1, <1>5, <2>2, <3>1 DEF DeleteBegin
    <2>5. CASE ~rows[u].backend
        <3>1. Begin(p, u, "closing", r)
            BY <1>5, <2>5 DEF DeleteBegin, r
        <3> QED BY <1>1, <1>5, <2>3, <2>5, <3>1 DEF DeleteBegin
    <2> QED BY <2>4, <2>5
<1>6. ASSUME NEW u \in Instances, AbortBegin(p, u)
      PROVE  WholeInv'
    <2>1. rows[u] \in Record
        BY DEF TypeOK
    <2>2. Whole([rows[u] EXCEPT !.state = "FAILED"])
        BY <2>1 DEF Whole, Record
    <2> QED BY <1>1, <1>6, <2>2 DEF AbortBegin
<1>7. CASE StartPersist(p)
    <2>1. Unasked(copy[p]) /\ on[p] \in Instances
        BY <1>7 DEF StartPersist, WholeInv, CopyOK
    <2>2. Whole(copy[p])
        BY <2>1 DEF Unasked, Whole
    <2> QED BY <1>2, <1>7, <2>1, <2>2 DEF StartPersist
<1>8. CASE CreateSession(p)
    <2>1. Unasked(copy[p]) /\ on[p] \in Instances /\ copy[p] \in Record
        BY <1>8 DEF CreateSession, WholeInv, CopyOK, TypeOK
    <2>2. CASE CreateAnswered(p)
        <3>1. PICK t \in FreshTokens, s \in Serving :
                 Goto(p, "storing", [copy[p] EXCEPT !.state = s, !.token = t, !.backend = TRUE])
            BY <2>2 DEF CreateAnswered
        <3>2. t # NoToken
            BY DEF FreshTokens
        <3>3. Whole([copy[p] EXCEPT !.state = s, !.token = t, !.backend = TRUE])
            BY <2>1, <3>2 DEF Whole, Record
        <3> QED BY <1>2, <1>8, <2>1, <3>1, <3>3 DEF CreateSession
    <2>3. CASE CreateFailed(p)
        <3>1. Whole([copy[p] EXCEPT !.token = NoToken])
            BY <2>1 DEF Whole, Unasked, Record
        <3> QED BY <1>2, <1>8, <2>1, <2>3, <3>1 DEF CreateSession, CreateFailed
    <2> QED BY <1>8, <2>2, <2>3 DEF CreateSession
<1>9. CASE Store(p)
    <2>1. Whole(copy[p]) /\ on[p] \in Instances
        BY <1>9 DEF Store, WholeInv, CopyOK
    <2> QED BY <1>9, <2>1, DoneKept DEF Store
<1>10. CASE DeleteSession(p)
    <2>1. /\ copy[p].state = "DELETED" /\ copy[p].token = NoToken
          /\ on[p] \in Instances /\ copy[p] \in Record
        BY <1>10 DEF DeleteSession, WholeInv, CopyOK, TypeOK
    <2>2. Whole([copy[p] EXCEPT !.backend = FALSE])
        BY <2>1 DEF Whole, Record
    <2> QED BY <1>2, <1>10, <2>1, <2>2, DoneKept DEF DeleteSession
<1>11. CASE Close(p)
    <2>1. Whole(copy[p]) /\ on[p] \in Instances
        BY <1>11 DEF Close, WholeInv, CopyOK
    <2> QED BY <1>11, <2>1, DoneKept DEF Close
<1>12. CASE WriteRaises(p)
    BY <1>12, DoneKept DEF WriteRaises
<1>13. CASE Crash(p)
    BY <1>13, DoneKept DEF Crash
<1> QED BY <1>3, <1>4, <1>5, <1>6, <1>7, <1>8, <1>9, <1>10, <1>11, <1>12, <1>13 DEF Step

LEMMA InitWhole == Init => WholeInv
BY Groups DEF Init, WholeInv, CopyOK, Whole, NoRecord, Serving

\* Between containers without a common lock, and with writes that raise, rows
\* are whole: one that serves has its token and its backend session.
THEOREM RowsNeverTorn == Spec => []RowsAreWhole
<1>1. WholeInv /\ UNCHANGED <<rows, pc, on, copy>> => WholeInv'
    BY DEF WholeInv, CopyOK
<1>2. TypeOK /\ TypeOK' /\ WholeInv /\ [Next]_vars => WholeInv'
    BY <1>1, StepWhole DEF Next, vars
<1>3. WholeInv => RowsAreWhole
    BY DEF WholeInv, Whole, RowsAreWhole
<1> QED BY <1>2, <1>3, InitWhole, TypeCorrect, PTL DEF Spec

-----------------------------------------------------------------------------
(***************************************************************************)
(* What holds where no operations overlapped                               *)
(*                                                                         *)
(* Of an instance that is not raced at most one container works on it, so  *)
(* the row still is the one it read: what it will write is a legal step    *)
(* from there, with the credential that the manager has now.               *)
(***************************************************************************)
\* The steps of the contract from one row to another, and no step of it at all.
LegalStep(r, s) ==
    \/ s.state = r.state /\ s.generation = r.generation
    \/ /\ r.state \in Admittable /\ s.state = "RESERVED"
       /\ s.generation = r.generation + 1
    \/ /\ s.generation = r.generation
       /\ \/ r.state \in Startable /\ s.state \in {"STARTING"} \union Serving
          \/ r.state = "PENDING_CAPACITY" /\ s.state \in Serving
          \/ r.state \in LiveStates /\ s.state = "FAILED"
          \/ r.state \notin Admittable /\ s.state = "DELETED"

Agree(r, m) == r.state \in Serving /\ m # NoSession
                  => m = [credential |-> r.token, generation |-> r.generation]

NextWriteOK(p) ==
    LET r == rows[on[p]]
        c == copy[p]
    IN  /\ pc[p] \in {"starting", "creating"}
               => r.state \in Startable /\ c.generation = r.generation
        /\ pc[p] \in {"storing", "closing", "deleting"} => LegalStep(r, c)
        /\ pc[p] \in {"storing", "closing"}
               => /\ Agree(c, manager[on[p]])
                  /\ r.state \in Serving /\ c.state \in Serving => c.token = r.token

UnracedInv ==
    /\ \A p \in Procs : pc[p] = "idle" => on[p] = NoOne
    /\ \A p, q \in Procs : on[p] \in Instances \ raced /\ on[q] = on[p] => p = q
    /\ \A u \in Instances \ raced : Agree(rows[u], manager[u])
    /\ \A p \in Procs : on[p] \in Instances \ raced => NextWriteOK(p)

\* What a step of p leaves alone: everything but the instance p works on and
\* what p holds; and if p comes to where another one is, the instance is raced.
Frame(p) ==
    /\ raced \subseteq raced'
    /\ \A q \in Procs \ {p} : pc'[q] = pc[q] /\ on'[q] = on[q] /\ copy'[q] = copy[q]
    /\ \A v \in Instances : v # on[p] => rows'[v] = rows[v] /\ manager'[v] = manager[v]
    /\ \A q \in Procs \ {p} : on[q] \in Instances /\ on'[p] = on[q]
                               => on[q] = on[p] \/ on[q] \in raced'

LEMMA StepFrame ==
    ASSUME TypeOK, TypeOK', WholeInv, NEW p \in Procs, Step(p)
    PROVE  Frame(p)
<1> USE DEF TypeOK
<1>1. ASSUME NEW u \in Instances, NEW phase, NEW r, Begin(p, u, phase, r),
             rows' = rows, manager' = manager
      PROVE  Frame(p)
    BY <1>1 DEF Begin, Frame
<1>2. ASSUME NEW phase, NEW r, Goto(p, phase, r),
             \A v \in Instances : v # on[p] => rows'[v] = rows[v] /\ manager'[v] = manager[v]
      PROVE  Frame(p)
    BY <1>2 DEF Goto, Frame
<1>3. ASSUME Done(p),
             \A v \in Instances : v # on[p] => rows'[v] = rows[v] /\ manager'[v] = manager[v]
      PROVE  Frame(p)
    BY <1>3, NoOneTypes DEF Done, Frame
<1>4. ASSUME NEW w, Write(p, w), NEW v \in Instances, v # on[p]
      PROVE  rows'[v] = rows[v]
    BY <1>4 DEF Write
<1>5. ASSUME NEW m, manager' = [manager EXCEPT ![on[p]] = m], NEW v \in Instances, v # on[p]
      PROVE  manager'[v] = manager[v]
    BY <1>5
<1> HIDE DEF TypeOK
<1>6. ASSUME NEW u \in Instances,
             AdmitBegin(p, u) \/ ActiveBegin(p, u) \/ DeleteBegin(p, u) \/ AbortBegin(p, u)
      PROVE  Frame(p)
    BY <1>1, <1>6 DEF AdmitBegin, ActiveBegin, DeleteBegin, AbortBegin
<1>7. CASE StartPersist(p)
    BY <1>2, <1>4, <1>7 DEF StartPersist
<1>8. CASE CreateSession(p)
    <2>1. ASSUME NEW t, manager' = Upserted(p, t), NEW v \in Instances, v # on[p]
          PROVE  manager'[v] = manager[v]
        BY <1>5, <2>1 DEF Upserted
    <2> QED BY <1>2, <1>8, <2>1 DEF CreateSession, CreateAnswered, CreateFailed
<1>9. CASE DeleteSession(p)
    BY <1>2, <1>3, <1>5, <1>9 DEF DeleteSession
<1>10. CASE Store(p) \/ Close(p)
    BY <1>3, <1>4, <1>10 DEF Store, Close
<1>11. CASE WriteRaises(p) \/ Crash(p)
    BY <1>3, <1>11 DEF WriteRaises, Crash
<1> QED BY <1>6, <1>7, <1>8, <1>9, <1>10, <1>11 DEF Step

\* So it is enough to look at p, and at the instance p works on.
LEMMA OnlyOwn ==
    ASSUME TypeOK, TypeOK', WholeInv, UnracedInv, NEW p \in Procs, Frame(p),
           pc'[p] = "idle" => on'[p] = NoOne,
           on[p] \in Instances \ raced' => Agree(rows'[on[p]], manager'[on[p]]),
           on'[p] \in Instances \ raced' => NextWriteOK(p)'
    PROVE  UnracedInv'
<1>1. \A q \in Procs : pc'[q] = "idle" => on'[q] = NoOne
    BY DEF UnracedInv, Frame
<1>2. ASSUME NEW q \in Procs \ {p}, on'[q] \in Instances \ raced'
      PROVE  /\ on[q] \in Instances \ raced /\ on[q] # on[p] /\ on'[q] # on'[p]
             /\ NextWriteOK(q)'
    <2>1. on[q] = on'[q] /\ on[q] \in Instances \ raced
        BY <1>2 DEF Frame
    <2>2. on[q] # on[p] /\ on'[q] # on'[p]
        BY <1>2, <2>1 DEF Frame, UnracedInv
    <2>3. NextWriteOK(q)
        BY <2>1 DEF UnracedInv
    <2>4. /\ rows'[on[q]] = rows[on[q]] /\ manager'[on[q]] = manager[on[q]]
          /\ pc'[q] = pc[q] /\ copy'[q] = copy[q]
        BY <2>1, <2>2 DEF Frame
    <2> QED BY <2>1, <2>2, <2>3, <2>4 DEF NextWriteOK
<1>3. \A q, o \in Procs : on'[q] \in Instances \ raced' /\ on'[o] = on'[q] => q = o
    <2> SUFFICES ASSUME NEW q \in Procs, NEW o \in Procs,
                        on'[q] \in Instances \ raced', on'[o] = on'[q]
                 PROVE  q = o
        OBVIOUS
    <2>1. CASE q = p
        BY <1>2, <2>1
    <2>2. CASE o = p
        BY <1>2, <2>2
    <2>3. CASE q # p /\ o # p
        BY <1>2, <2>3 DEF Frame, UnracedInv
    <2> QED BY <2>1, <2>2, <2>3
<1>4. \A u \in Instances \ raced' : Agree(rows'[u], manager'[u])
    BY DEF Frame, UnracedInv
<1> QED BY <1>1, <1>2, <1>3, <1>4 DEF UnracedInv

\* An operation begins with a copy that is right for the row it read.
LEMMA BeginUnraced ==
    ASSUME TypeOK, TypeOK', WholeInv, UnracedInv, NEW p \in Procs, Frame(p),
           NEW u \in Instances, NEW phase \in Phases \ {"idle"}, NEW r,
           Begin(p, u, phase, r), rows' = rows, manager' = manager,
           phase \in {"starting", "creating"}
               => rows[u].state \in Startable /\ r.generation = rows[u].generation,
           phase \in {"storing", "closing", "deleting"} => LegalStep(rows[u], r),
           u \notin raced /\ phase \in {"storing", "closing"}
               => /\ Agree(r, manager[u])
                  /\ rows[u].state \in Serving /\ r.state \in Serving => r.token = rows[u].token
    PROVE  UnracedInv'
<1>1. pc'[p] = phase /\ on'[p] = u /\ copy'[p] = r /\ on[p] = NoOne
    BY DEF Begin, TypeOK, UnracedInv
<1>2. on'[p] \in Instances \ raced' => NextWriteOK(p)'
    BY <1>1 DEF NextWriteOK, Frame
<1> QED BY <1>1, <1>2, OnlyOwn

\* An operation is over, and the row is the one it read, or the one it wrote.
LEMMA DoneUnraced ==
    ASSUME TypeOK, TypeOK', WholeInv, UnracedInv, NEW p \in Procs, Frame(p), Done(p),
           on[p] \in Instances \ raced => Agree(rows'[on[p]], manager'[on[p]])
    PROVE  UnracedInv'
<1>1. pc'[p] = "idle" /\ on'[p] = NoOne
    BY DEF Done, TypeOK
<1> QED BY <1>1, OnlyOwn, NoOneTypes DEF Done

LEMMA StepUnraced ==
    ASSUME TypeOK, TypeOK', WholeInv, UnracedInv, NEW p \in Procs, Step(p)
    PROVE  UnracedInv'
<1> USE Groups
<1>0. Frame(p)
    BY StepFrame
<1>1. ASSUME NEW u \in Instances, AdmitBegin(p, u)
      PROVE  UnracedInv'
    <2> DEFINE r == ReservedRecord(rows[u].generation)
    <2>1. LegalStep(rows[u], r)
        BY <1>1 DEF LegalStep, ReservedRecord, AdmitBegin
    <2>2. Agree(r, manager[u]) /\ r.state \notin Serving
        BY DEF Agree, ReservedRecord
    <2>3. Begin(p, u, "storing", r) /\ rows' = rows /\ manager' = manager
        BY <1>1 DEF AdmitBegin
    <2> HIDE DEF r
    <2> QED BY <1>0, <2>1, <2>2, <2>3, BeginUnraced, Named
<1>2. ASSUME NEW u \in Instances, ActiveBegin(p, u)
      PROVE  UnracedInv'
    <2>1. rows[u] \in Record /\ rows' = rows /\ manager' = manager
        BY <1>2 DEF TypeOK, ActiveBegin
    <2>2. CASE /\ rows[u].state \in Startable
               /\ Begin(p, u, "starting", [rows[u] EXCEPT !.state = "STARTING"])
        <3>1. [rows[u] EXCEPT !.state = "STARTING"].generation = rows[u].generation
            BY <2>1 DEF Record
        <3> QED BY <1>0, <2>1, <2>2, <3>1, BeginUnraced, Named
    <2>3. ASSUME rows[u].state = "PENDING_CAPACITY", NEW s \in Serving,
                 Begin(p, u, "storing", [rows[u] EXCEPT !.state = s])
          PROVE  UnracedInv'
        <3> DEFINE r == [rows[u] EXCEPT !.state = s]
        <3>1. r.state = s /\ r.generation = rows[u].generation /\ r.token = rows[u].token
            BY <2>1 DEF Record
        <3>2. Begin(p, u, "storing", r)
            BY <2>3
        <3> HIDE DEF r
        <3>3. LegalStep(rows[u], r)
            BY <2>3, <3>1 DEF LegalStep
        <3>4. u \notin raced => Agree(r, manager[u])
            BY <2>3, <3>1 DEF Agree, UnracedInv
        <3> QED BY <1>0, <2>1, <3>1, <3>2, <3>3, <3>4, BeginUnraced, Named
    <2> QED BY <1>2, <2>2, <2>3 DEF ActiveBegin
<1>3. ASSUME NEW u \in Instances, DeleteBegin(p, u)
      PROVE  UnracedInv'
    <2> DEFINE r == [rows[u] EXCEPT !.state = "DELETED", !.token = NoToken]
               phase == IF rows[u].backend THEN "deleting" ELSE "closing"
    <2>1. rows[u] \in Record /\ rows[u].state \notin Admittable
        BY <1>3 DEF TypeOK, DeleteBegin
    <2>2. r.state = "DELETED" /\ r.generation = rows[u].generation
        BY <2>1 DEF Record
    <2>3. phase \in {"deleting", "closing"}
        OBVIOUS
    <2>4. Begin(p, u, phase, r) /\ rows' = rows /\ manager' = manager
        BY <1>3 DEF DeleteBegin
    <2> HIDE DEF r, phase
    <2>5. LegalStep(rows[u], r) /\ Agree(r, manager[u]) /\ r.state \notin Serving
        BY <2>1, <2>2 DEF LegalStep, Agree
    <2> QED BY <1>0, <2>3, <2>4, <2>5, BeginUnraced, Named
<1>4. ASSUME NEW u \in Instances, AbortBegin(p, u)
      PROVE  UnracedInv'
    <2> DEFINE r == [rows[u] EXCEPT !.state = "FAILED"]
    <2>1. rows[u] \in Record /\ rows[u].state \notin Admittable
        BY <1>4 DEF TypeOK, AbortBegin
    <2>2. r.state = "FAILED" /\ r.generation = rows[u].generation
        BY <2>1 DEF Record
    <2>3. Begin(p, u, "closing", r) /\ rows' = rows /\ manager' = manager
        BY <1>4 DEF AbortBegin
    <2> HIDE DEF r
    <2>4. rows[u].state \in LiveStates \union {"FAILED"}
        BY <2>1 DEF Record, States, Persisted, LiveStates, Startable, Serving, Admittable
    <2>5. LegalStep(rows[u], r) /\ Agree(r, manager[u]) /\ r.state \notin Serving
        BY <2>2, <2>4 DEF LegalStep, Agree
    <2> QED BY <1>0, <2>3, <2>5, BeginUnraced, Named
<1>5. CASE StartPersist(p)
    <2>1. /\ on[p] \in Instances /\ Unasked(copy[p]) /\ rows' = [rows EXCEPT ![on[p]] = copy[p]]
          /\ pc'[p] = "creating" /\ on'[p] = on[p] /\ copy'[p] = copy[p]
        BY <1>5 DEF StartPersist, Goto, Write, WholeInv, CopyOK, TypeOK
    <2>2. rows'[on[p]] = copy[p]
        BY <2>1 DEF TypeOK
    <2>3. Agree(rows'[on[p]], manager'[on[p]])
        BY <2>1, <2>2 DEF Agree, Unasked
    <2>4. NextWriteOK(p)'
        BY <2>1, <2>2 DEF NextWriteOK, Unasked
    <2> QED BY <1>0, <2>1, <2>3, <2>4, OnlyOwn
<1>6. CASE CreateSession(p)
    <2>1. /\ on[p] \in Instances /\ Unasked(copy[p]) /\ copy[p] \in Record /\ rows' = rows
          /\ on[p] \notin raced => /\ rows[on[p]].state \in Startable
                                  /\ copy[p].generation = rows[on[p]].generation
        BY <1>6 DEF CreateSession, WholeInv, CopyOK, TypeOK, UnracedInv, NextWriteOK
    <2>2. on[p] \notin raced => Agree(rows'[on[p]], manager'[on[p]])
        BY <2>1 DEF Agree
    <2>3. ASSUME NEW r, Goto(p, "storing", r), r.generation = copy[p].generation,
                 r.state \in Serving \union {"STARTING"}, Agree(r, manager'[on[p]])
          PROVE  UnracedInv'
        <3>1. pc'[p] = "storing" /\ on'[p] = on[p] /\ copy'[p] = r /\ raced' = raced
            BY <2>3 DEF Goto, TypeOK
        <3>2. on[p] \notin raced => LegalStep(rows[on[p]], r)
            BY <2>1, <2>3 DEF LegalStep
        <3>3. on[p] \notin raced => NextWriteOK(p)'
            BY <2>1, <2>3, <3>1, <3>2 DEF NextWriteOK
        <3> QED BY <1>0, <2>2, <3>1, <3>3, OnlyOwn
    <2>4. CASE CreateAnswered(p)
        <3>1. PICK t \in FreshTokens, s \in Serving :
                 /\ manager' = Upserted(p, t)
                 /\ Goto(p, "storing", [copy[p] EXCEPT !.state = s, !.token = t, !.backend = TRUE])
            BY <2>4 DEF CreateAnswered
        <3> DEFINE r == [copy[p] EXCEPT !.state = s, !.token = t, !.backend = TRUE]
        <3>2. r.state = s /\ r.generation = copy[p].generation /\ r.token = t
            BY <2>1 DEF Record
        <3>3. manager'[on[p]] = [credential |-> t, generation |-> copy[p].generation]
            BY <2>1, <3>1 DEF Upserted, TypeOK
        <3>4. Goto(p, "storing", r)
            BY <3>1
        <3> HIDE DEF r
        <3>5. Agree(r, manager'[on[p]])
            BY <3>2, <3>3 DEF Agree
        <3> QED BY <2>3, <3>2, <3>4, <3>5
    <2>5. CASE CreateFailed(p)
        <3> DEFINE r == [copy[p] EXCEPT !.token = NoToken]
        <3>1. r.state = "STARTING" /\ r.generation = copy[p].generation
            BY <2>1 DEF Record, Unasked
        <3>2. Goto(p, "storing", r)
            BY <2>5 DEF CreateFailed
        <3> HIDE DEF r
        <3>3. Agree(r, manager'[on[p]])
            BY <3>1 DEF Agree
        <3> QED BY <2>3, <3>1, <3>2, <3>3
    <2> QED BY <1>6, <2>4, <2>5 DEF CreateSession
<1>7. CASE Store(p) \/ Close(p)
    <2>1. /\ on[p] \in Instances /\ rows' = [rows EXCEPT ![on[p]] = copy[p]]
          /\ manager' = manager /\ Done(p)
        BY <1>7 DEF Store, Close, Write, WholeInv, CopyOK
    <2>2. rows'[on[p]] = copy[p]
        BY <2>1 DEF TypeOK
    <2>3. on[p] \notin raced => Agree(copy[p], manager[on[p]])
        BY <1>7, <2>1 DEF Store, Close, UnracedInv, NextWriteOK
    <2> QED BY <1>0, <2>1, <2>2, <2>3, DoneUnraced
<1>8. CASE DeleteSession(p)
    <2>1. /\ on[p] \in Instances /\ copy[p].state = "DELETED" /\ copy[p] \in Record /\ rows' = rows
          /\ on[p] \notin raced => LegalStep(rows[on[p]], copy[p])
        BY <1>8 DEF DeleteSession, WholeInv, CopyOK, TypeOK, UnracedInv, NextWriteOK
    <2>2. manager'[on[p]] = NoSession \/ manager'[on[p]] = manager[on[p]]
        BY <1>8, <2>1 DEF DeleteSession, TypeOK
    <2>3. on[p] \notin raced => Agree(rows'[on[p]], manager'[on[p]])
        BY <2>1, <2>2 DEF Agree, UnracedInv
    <2>4. CASE Goto(p, "closing", [copy[p] EXCEPT !.backend = FALSE])
        <3> DEFINE r == [copy[p] EXCEPT !.backend = FALSE]
        <3>1. r.state = "DELETED" /\ r.generation = copy[p].generation
            BY <2>1 DEF Record
        <3>2. pc'[p] = "closing" /\ on'[p] = on[p] /\ copy'[p] = r /\ raced' = raced
            BY <2>4 DEF Goto, TypeOK
        <3> HIDE DEF r
        <3>3. on[p] \notin raced => LegalStep(rows[on[p]], r)
            BY <2>1, <3>1 DEF LegalStep
        <3>4. on[p] \notin raced => NextWriteOK(p)'
            BY <2>1, <3>1, <3>2, <3>3 DEF NextWriteOK, Agree
        <3> QED BY <1>0, <2>3, <3>2, <3>4, OnlyOwn
    <2>5. CASE Done(p)
        BY <1>0, <2>3, <2>5, DoneUnraced
    <2> QED BY <1>8, <2>4, <2>5 DEF DeleteSession
<1>9. CASE WriteRaises(p) \/ Crash(p)
    <2>1. Done(p) /\ rows' = rows /\ manager' = manager
        BY <1>9 DEF WriteRaises, Crash
    <2> QED BY <1>0, <2>1, DoneUnraced DEF UnracedInv
<1> QED BY <1>1, <1>2, <1>3, <1>4, <1>5, <1>6, <1>7, <1>8, <1>9 DEF Step

LEMMA InitUnraced == Init => UnracedInv
BY NoOneTypes DEF Init, UnracedInv, Agree, NextWriteOK

\* All that holds in every reachable state.
StoreInv == TypeOK /\ WholeInv /\ UnracedInv

LEMMA StoreInvariant == Spec => []StoreInv
<1>1. UnracedInv /\ UNCHANGED <<rows, manager, pc, on, copy, raced>> => UnracedInv'
    BY DEF UnracedInv, NextWriteOK
<1>2. WholeInv /\ UNCHANGED <<rows, pc, on, copy>> => WholeInv'
    BY DEF WholeInv, CopyOK
<1>3. StoreInv /\ TypeOK' /\ [Next]_vars => StoreInv'
    BY <1>1, <1>2, StepWhole, StepUnraced DEF StoreInv, Next, vars
<1> QED BY <1>3, InitTypeOK, InitWhole, InitUnraced, TypeCorrect, PTL DEF Spec, StoreInv

\* What breaks the agreement of the served token with the manager is two
\* operations at once on one instance, and nothing else.
THEOREM UnracedCredentialsAgree == Spec => []UnracedCredentialAgreement
<1>1. UnracedInv => UnracedCredentialAgreement
    BY DEF UnracedInv, Agree, UnracedCredentialAgreement
<1> QED BY <1>1, StoreInvariant, PTL DEF StoreInv

\* What a step writes over a row that is not raced, which keeps the token
\* from one serving state to the next.
LEMMA StepLegal ==
    ASSUME StoreInv, NEW p \in Procs, Step(p), NEW u \in Instances \ raced
    PROVE  /\ LegalStep(rows[u], rows'[u])
           /\ rows[u].state \in Serving /\ rows'[u].state \in Serving
                  => rows'[u].token = rows[u].token
<1>1. CASE rows' = rows
    BY <1>1 DEF LegalStep
<1>2. CASE Write(p, copy[p]) /\ pc[p] \in {"starting", "storing", "closing"}
    <2>1. on[p] \in Instances
        BY <1>2 DEF StoreInv, WholeInv, CopyOK
    <2>2. rows'[on[p]] = copy[p] /\ (u # on[p] => rows'[u] = rows[u])
        BY <1>2, <2>1 DEF StoreInv, Write, TypeOK
    <2>3. CASE u # on[p]
        BY <2>2, <2>3 DEF LegalStep
    <2>4. CASE u = on[p]
        <3>1. NextWriteOK(p)
            BY <2>4 DEF StoreInv, UnracedInv
        <3>2. pc[p] = "starting" => Unasked(copy[p])
            BY DEF StoreInv, WholeInv, CopyOK
        <3>3. LegalStep(rows[u], copy[p])
            BY <1>2, <2>4, <3>1, <3>2 DEF NextWriteOK, Unasked, LegalStep
        <3>4. rows[u].state \in Serving /\ copy[p].state \in Serving => copy[p].token = rows[u].token
            BY <1>2, <2>4, <3>1, <3>2, Groups DEF NextWriteOK, Unasked
        <3> QED BY <2>2, <2>4, <3>3, <3>4
    <2> QED BY <2>3, <2>4
<1> QED BY <1>1, <1>2 DEF Step, AdmitBegin, ActiveBegin, DeleteBegin, AbortBegin,
           StartPersist, CreateSession, Store, DeleteSession, Close, WriteRaises, Crash

-----------------------------------------------------------------------------
(***************************************************************************)
(* The contract of one session                                             *)
(***************************************************************************)
LEMMA MoveMapped ==
    ASSUME NEW u \in Instances, NEW From, NEW s,
           rows[u].state \in From, rows'[u].state = s,
           rows'[u].generation = rows[u].generation
    PROVE  Contract(u)!Move(u, From, s)
BY DEF Contract!Move

LEMMA AdmitMapped ==
    ASSUME NEW u \in Instances, rows[u].state \in Admittable, rows'[u].state = "RESERVED",
           rows'[u].generation = rows[u].generation + 1
    PROVE  Contract(u)!Admit(u)
<1>1. Contract(u)!LiveSessions = {}
    BY DEF Contract!LiveSessions, Contract!LiveStates, Contract!Startable, Contract!Serving,
           Admittable
<1>2. Contract(u)!SameQuota(Contract(u)!LiveSessions, u) = {}
    BY <1>1 DEF Contract!SameQuota
<1>3. Contract(u)!Cardinality({}) = 0
    BY FS_EmptySet DEF Contract!Cardinality, Cardinality
<1>4. [k \in Projects \X Profiles |-> 1][Contract(u)!QuotaKey(u)] = 1
    BY OfferingTypes DEF Contract!QuotaKey
<1>5. rows[u].state \in Contract(u)!Admittable
    BY DEF Contract!Admittable, Admittable
<1>6. Contract(u)!Cardinality(Contract(u)!SameQuota(Contract(u)!LiveSessions, u))
         < [k \in Projects \X Profiles |-> 1][Contract(u)!QuotaKey(u)]
    BY <1>2, <1>3, <1>4
<1>7. [v \in {u} |-> rows'[v].state]
         = [[v \in {u} |-> rows[v].state] EXCEPT ![u] = "RESERVED"]
    OBVIOUS
<1>8. [v \in {u} |-> rows'[v].generation]
         = [[v \in {u} |-> rows[v].generation] EXCEPT ![u] = @ + 1]
    OBVIOUS
<1> QED BY <1>5, <1>6, <1>7, <1>8 DEF Contract!Admit

\* The legal steps of a row are those of the contract.
LEMMA LegalMapped ==
    ASSUME NEW u \in Instances, rows[u] \in Record, LegalStep(rows[u], rows'[u])
    PROVE  [Contract(u)!Next]_(Contract(u)!cvars)
<1> DEFINE r == rows[u]
           s == rows'[u]
<1> USE DEF Contract!Next, LegalStep
<1>1. CASE s.state = r.state /\ s.generation = r.generation
    BY <1>1 DEF Contract!cvars
<1>2. CASE r.state \in Admittable /\ s.state = "RESERVED" /\ s.generation = r.generation + 1
    BY <1>2, AdmitMapped
<1>3. CASE /\ s.generation = r.generation
           /\ r.state \in Startable /\ s.state \in {"STARTING"} \union Serving
    <2>1. Contract(u)!Start(u)
        BY <1>3, MoveMapped DEF Contract!Start, Contract!Startable, Contract!Serving,
           Startable, Serving
    <2> QED BY <2>1
<1>4. CASE /\ s.generation = r.generation
           /\ r.state = "PENDING_CAPACITY" /\ s.state \in Serving
    <2>1. Contract(u)!Refresh(u)
        BY <1>4, MoveMapped DEF Contract!Refresh, Contract!Serving, Serving
    <2> QED BY <2>1
<1>5. CASE /\ s.generation = r.generation
           /\ r.state \in LiveStates /\ s.state = "FAILED"
    <2>1. Contract(u)!Abort(u)
        BY <1>5, MoveMapped DEF Contract!Abort, Contract!End, Contract!LiveStates, Contract!Startable,
           Contract!Serving, LiveStates, Startable, Serving
    <2> QED BY <2>1
<1>6. CASE /\ s.generation = r.generation
           /\ r.state \notin Admittable /\ s.state = "DELETED"
    <2>1. r.state \in Contract(u)!LiveStates \union {"FAILED"}
        BY <1>6 DEF Record, States, Persisted, Admittable, Contract!LiveStates,
           Contract!Startable, Contract!Serving
    <2>2. Contract(u)!Delete(u)
        BY <1>6, <2>1, MoveMapped DEF Contract!Delete, Contract!End
    <2> QED BY <2>2
<1> QED BY <1>1, <1>2, <1>3, <1>4, <1>5, <1>6

\* And so for steps that are not in the contract of a session.
THEOREM UnracedStepsAreLegal == Spec => UnracedStepsLegal
<1> DEFINE Legal == \A u \in Instances \ raced : [Contract(u)!Next]_(Contract(u)!cvars)
<1>1. UNCHANGED rows => Legal
    BY DEF Contract!cvars
<1>2. ASSUME StoreInv, NEW p \in Procs, Step(p), NEW u \in Instances \ raced
      PROVE  [Contract(u)!Next]_(Contract(u)!cvars)
    BY <1>2, StepLegal, LegalMapped DEF StoreInv, TypeOK
<1> HIDE DEF Legal
<1>3. StoreInv /\ [Next]_vars => [Legal]_vars
    BY <1>1, <1>2 DEF Next, vars, Legal
<1> QED BY <1>3, StoreInvariant, PTL DEF Spec, UnracedStepsLegal, Legal

-----------------------------------------------------------------------------
(***************************************************************************)
(* The two reads of the vendor data                                        *)
(*                                                                         *)
(* The generation is read first, and the row's only grows.  A token is     *)
(* given once in a generation: the row does not go back to a state from    *)
(* which it is started, so one that is read there stays the one it serves. *)
(***************************************************************************)
AnswerInv ==
    LET u == answer.inst
    IN  u \in Instances \ raced =>
            /\ answer.generation <= rows[u].generation
            /\ answer.token # NoToken =>
                   /\ answer.generation <= answer.life
                   /\ answer.life <= rows[u].generation
                   /\ answer.life = rows[u].generation =>
                          /\ rows[u].state \notin Startable
                          /\ rows[u].state \in Serving => rows[u].token = answer.token

LEMMA StepAnswer ==
    ASSUME StoreInv, TypeOK', AnswerInv, NEW p \in Procs, Step(p), UNCHANGED answer
    PROVE  AnswerInv'
<1> DEFINE u == answer.inst
           g == answer.generation
           l == answer.life
<1> SUFFICES ASSUME u \in Instances \ raced'
             PROVE  /\ g <= rows'[u].generation
                    /\ answer.token # NoToken =>
                           /\ g <= l
                           /\ l <= rows'[u].generation
                           /\ l = rows'[u].generation =>
                                  /\ rows'[u].state \notin Startable
                                  /\ rows'[u].state \in Serving => rows'[u].token = answer.token
    BY DEF AnswerInv
<1>1. u \in Instances \ raced
    BY StepFrame DEF StoreInv, Frame
<1>2. /\ g <= rows[u].generation
      /\ answer.token # NoToken =>
             /\ g <= l
             /\ l <= rows[u].generation
             /\ l = rows[u].generation =>
                    /\ rows[u].state \notin Startable
                    /\ rows[u].state \in Serving => rows[u].token = answer.token
    BY <1>1 DEF AnswerInv
<1>3. /\ LegalStep(rows[u], rows'[u])
      /\ rows[u].state \in Serving /\ rows'[u].state \in Serving
             => rows'[u].token = rows[u].token
    BY <1>1, StepLegal
<1>4. g \in Nat /\ l \in Nat /\ rows[u] \in Record /\ rows'[u] \in Record
    BY <1>1 DEF StoreInv, TypeOK
<1> HIDE DEF u, g, l
<1>5. rows'[u].generation \in {rows[u].generation, rows[u].generation + 1}
    BY <1>3 DEF LegalStep
<1>6. rows[u].generation \in Nat
    BY <1>4, WrittenRecords
<1>7. g <= rows'[u].generation
    BY <1>2, <1>4, <1>5, <1>6
<1>8. answer.token # NoToken => g <= l /\ l <= rows'[u].generation
    BY <1>2, <1>4, <1>5, <1>6
<1>9. ASSUME answer.token # NoToken, l = rows'[u].generation
      PROVE  /\ rows'[u].state \notin Startable
             /\ rows'[u].state \in Serving => rows'[u].token = answer.token
    <2>1. rows'[u].generation = rows[u].generation
        BY <1>2, <1>4, <1>5, <1>6, <1>9
    <2>2. /\ rows[u].state \notin Startable
          /\ rows[u].state \in Serving => rows[u].token = answer.token
        BY <1>2, <1>9, <2>1
    <2>3. /\ rows'[u].state \notin Startable
          /\ rows'[u].state \in Serving => rows[u].state \in Serving
        <3>1. rows[u].generation # rows[u].generation + 1
            BY <1>6
        <3> QED BY <1>3, <2>1, <2>2, <3>1, Groups DEF LegalStep, Startable, Serving
    <2> QED BY <1>3, <2>2, <2>3
<1> QED BY <1>7, <1>8, <1>9

LEMMA VendorDataAnswer ==
    ASSUME StoreInv, AnswerInv, NEW u \in Instances, VendorData(u), UNCHANGED <<rows, raced>>
    PROVE  AnswerInv'
<1>1. answer.generation \in Nat /\ rows[u].generation \in Nat
    BY WrittenRecords DEF StoreInv, TypeOK
<1>2. CASE answer' = [NoAnswer EXCEPT !.inst = u, !.generation = rows[u].generation]
    <2>1. answer'.inst = u /\ answer'.generation = rows[u].generation /\ answer'.token = NoToken
        BY <1>2 DEF NoAnswer
    <2> QED BY <1>1, <2>1 DEF AnswerInv
<1>3. CASE answer' = NoAnswer
    BY <1>3, NoOneTypes DEF AnswerInv, NoAnswer
<1>4. CASE /\ answer.inst = u /\ Answered(u)
           /\ answer' = [answer EXCEPT !.token = rows[u].token, !.life = rows[u].generation]
    <2>1. /\ answer'.inst = u /\ answer'.generation = answer.generation
          /\ answer'.token = rows[u].token /\ answer'.life = rows[u].generation
        BY <1>4 DEF StoreInv, TypeOK
    <2> QED BY <1>1, <1>4, <2>1, Groups DEF AnswerInv, Answered
<1> QED BY <1>2, <1>3, <1>4 DEF VendorData

\* No answer has the token of an earlier life under the generation of a later one
\* (the reverse it may have), and its token is the one served as long as the life
\* it was read in serves.
THEOREM AnswersNeverAhead == Spec => []UnracedAnswersNotAhead
<1>1. Init => AnswerInv
    BY NoOneTypes DEF Init, AnswerInv, NoAnswer
<1>2. AnswerInv /\ UNCHANGED vars => AnswerInv'
    BY DEF AnswerInv, vars
<1>3. StoreInv /\ StoreInv' /\ AnswerInv /\ [Next]_vars => AnswerInv'
    BY <1>2, StepAnswer, VendorDataAnswer DEF Next, StoreInv
<1>4. AnswerInv => UnracedAnswersNotAhead
    BY DEF AnswerInv, UnracedAnswersNotAhead
<1> QED BY <1>1, <1>3, <1>4, StoreInvariant, PTL DEF Spec

=============================================================================
