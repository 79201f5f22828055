----------------------- MODULE SharedStoreQuotaProofs -----------------------
(***************************************************************************)
(* What the containers admit together, when each one counts the quota in a *)
(* map of its own and finds the sessions of all of them there after it was *)
(* killed: for every number of containers and instances, and every quota.  *)
(***************************************************************************)
EXTENDS SharedStoreProofs

-----------------------------------------------------------------------------
(***************************************************************************)
(* Counting                                                                *)
(***************************************************************************)
\* Fewer instances need no more quota.
LEMMA QuotaOfPart ==
    ASSUME NEW S \in SUBSET Instances, NEW R \in SUBSET S, WithinQuota(S)
    PROVE  WithinQuota(R)
<1> SUFFICES ASSUME NEW u \in Instances
             PROVE  Cardinality(SameQuota(R, u)) <= Limit[QuotaKey(u)]
    BY DEF WithinQuota
<1>1. IsFiniteSet(SameQuota(S, u)) /\ SameQuota(R, u) \in SUBSET SameQuota(S, u)
    BY InstancesFinite, FS_Subset DEF SameQuota
<1>2. /\ Cardinality(SameQuota(R, u)) <= Cardinality(SameQuota(S, u))
      /\ IsFiniteSet(SameQuota(R, u))
    BY <1>1, FS_Subset
<1>3. Cardinality(SameQuota(R, u)) \in Nat /\ Cardinality(SameQuota(S, u)) \in Nat
    BY <1>1, <1>2, FS_CardinalityType
<1>4. Limit[QuotaKey(u)] \in Nat
    BY LimitTypes, OfferingTypes DEF QuotaKey
<1> QED BY <1>2, <1>3, <1>4 DEF WithinQuota

\* One more instance, when there is room for it.
LEMMA QuotaOfOneMore ==
    ASSUME NEW S \in SUBSET Instances, NEW u \in Instances, WithinQuota(S),
           Cardinality(SameQuota(S, u)) < Limit[QuotaKey(u)]
    PROVE  WithinQuota(S \union {u})
<1> SUFFICES ASSUME NEW v \in Instances
             PROVE  Cardinality(SameQuota(S \union {u}, v)) <= Limit[QuotaKey(v)]
    BY DEF WithinQuota
<1>1. CASE QuotaKey(v) # QuotaKey(u)
    <2>1. SameQuota(S \union {u}, v) = SameQuota(S, v)
        BY <1>1 DEF SameQuota
    <2> QED BY <2>1 DEF WithinQuota
<1>2. CASE QuotaKey(v) = QuotaKey(u)
    <2>1. SameQuota(S \union {u}, v) = SameQuota(S, u) \union {u}
        BY <1>2 DEF SameQuota
    <2>2. IsFiniteSet(SameQuota(S, u))
        BY InstancesFinite, FS_Subset DEF SameQuota
    <2>3. Cardinality(SameQuota(S, u)) \in Nat
        BY <2>2, FS_CardinalityType
    <2>4. Cardinality(SameQuota(S, u) \union {u})
             \in {Cardinality(SameQuota(S, u)), Cardinality(SameQuota(S, u)) + 1}
        BY <2>2, FS_AddElement
    <2>5. Limit[QuotaKey(u)] \in Nat
        BY LimitTypes, OfferingTypes DEF QuotaKey
    <2>6. Cardinality(SameQuota(S, u) \union {u}) <= Limit[QuotaKey(u)]
        BY <2>3, <2>4, <2>5
    <2> QED BY <1>2, <2>1, <2>6
<1> QED BY <1>1, <1>2

\* Sets that are each within the quota have together at most as many members of
\* one quota as there are sets times the quota: a member is found by its set and
\* its number there.
LEMMA QuotaOfAll ==
    ASSUME NEW own \in [Procs -> SUBSET Instances], \A p \in Procs : WithinQuota(own[p]),
           NEW S \in SUBSET Instances, \A v \in S : \E p \in Procs : v \in own[p],
           NEW u \in Instances
    PROVE  Cardinality(SameQuota(S, u)) <= Cardinality(Procs) * Limit[QuotaKey(u)]
<1> DEFINE n     == Limit[QuotaKey(u)]
           C(p)  == Cardinality(SameQuota(own[p], u))
           G     == [p \in Procs |-> CHOOSE b : b \in Bijection(1..C(p), SameQuota(own[p], u))]
           T     == Procs \X (1..n)
           At(t, v) == t[2] \in 1..C(t[1]) /\ G[t[1]][t[2]] = v
           f     == [v \in SameQuota(S, u) |-> CHOOSE t \in T : At(t, v)]
<1>1. n \in Nat
    BY LimitTypes, OfferingTypes DEF QuotaKey
<1>2. ASSUME NEW p \in Procs
      PROVE  /\ C(p) \in Nat /\ C(p) <= n
             /\ G[p] \in Surjection(1..C(p), SameQuota(own[p], u))
    <2>1. IsFiniteSet(SameQuota(own[p], u))
        BY InstancesFinite, FS_Subset DEF SameQuota
    <2>2. C(p) \in Nat /\ ExistsBijection(1..C(p), SameQuota(own[p], u))
        BY <2>1, FS_CardinalityType
    <2>3. G[p] \in Bijection(1..C(p), SameQuota(own[p], u))
        BY <2>2 DEF ExistsBijection
    <2>4. C(p) <= n
        BY DEF WithinQuota
    <2> QED BY <2>2, <2>3, <2>4 DEF Bijection
<1>3. ASSUME NEW v \in SameQuota(S, u)
      PROVE  f[v] \in T /\ At(f[v], v)
    <2>1. PICK p \in Procs : v \in SameQuota(own[p], u)
        BY DEF SameQuota
    <2>2. PICK i \in 1..C(p) : G[p][i] = v
        BY <1>2, <2>1 DEF Surjection
    <2>3. i \in 1..n
        BY <1>1, <1>2, <2>2
    <2>4. <<p, i>> \in T /\ At(<<p, i>>, v)
        BY <2>2, <2>3
    <2> HIDE DEF T, At
    <2> QED BY <2>4
<1>4. f \in Injection(SameQuota(S, u), T)
    <2>1. f \in [SameQuota(S, u) -> T]
        BY <1>3
    <2>2. \A v, w \in SameQuota(S, u) : f[v] = f[w] => v = w
        BY <1>3
    <2> HIDE DEF f
    <2> QED BY <2>1, <2>2 DEF Injection, IsInjective
<1>5. /\ IsFiniteSet(1..n) /\ Cardinality(1..n) = n
    BY <1>1, FS_Interval
<1>6. IsFiniteSet(T) /\ Cardinality(T) = Cardinality(Procs) * n
    BY <1>5, ProcsFinite, FS_Product
<1> HIDE DEF f, T
<1> QED BY <1>4, <1>6, FS_Injection

-----------------------------------------------------------------------------
(***************************************************************************)
(* Who admitted what                                                       *)
(*                                                                         *)
(* Of the instances whose first admission lives, or is being written, each *)
(* belongs to the share of the container that admitted it.  A container    *)
(* holds its share among its reservations, killed or not, until the        *)
(* session ends; it holds more of them after it was killed, and may hold   *)
(* more than the quota, but when it admits there is room for all of them.  *)
(***************************************************************************)
Counted == {u \in Instances \ raced :
               \/ rows[u].generation = 1 /\ rows[u].state \in LiveStates
               \/ rows[u].generation = 0 /\ \E p \in Procs : on[p] = u}

Shares(own) ==
    /\ \A p \in Procs : own[p] \subseteq quotas[p] /\ WithinQuota(own[p])
    /\ \A u \in Counted : \E p \in Procs : u \in own[p]

\* A row that was written has a generation, and so has one that will be.
Numbered ==
    /\ \A u \in Instances : rows[u].generation = 0 => rows[u].state = "ABSENT"
    /\ \A p \in Procs : pc[p] # "idle" => copy[p].generation # 0

\* What gives reservations back also ends the session.
ClosingEnds == \A p \in Procs : /\ pc[p] = "deleting" => copy[p].state = "DELETED"
                                /\ pc[p] = "closing" => copy[p].state \in {"FAILED", "DELETED"}

\* Of a session that was never written only the container at work on it holds
\* a reservation.
NewHeldByOne == \A p \in Procs, u \in Instances \ raced :
                   rows[u].generation = 0 /\ u \in quotas[p] => on[p] = u

HeldInv == Numbered /\ ClosingEnds /\ NewHeldByOne
ShareInv == \E own \in [Procs -> SUBSET Instances] : Shares(own)

LEMMA InitHeld == Init => HeldInv /\ ShareInv
<1> SUFFICES ASSUME Init PROVE HeldInv /\ ShareInv
    OBVIOUS
<1>1. HeldInv
    BY DEF Init, HeldInv, Numbered, ClosingEnds, NewHeldByOne, NoRecord
<1>2. Counted = {}
    BY NoOneTypes DEF Init, Counted, NoRecord
<1>3. WithinQuota({})
    <2> SUFFICES ASSUME NEW u \in Instances
                 PROVE  Cardinality(SameQuota({}, u)) <= Limit[QuotaKey(u)]
        BY DEF WithinQuota
    <2>1. SameQuota({}, u) = {} /\ Limit[QuotaKey(u)] \in Nat
        BY LimitTypes, OfferingTypes DEF QuotaKey, SameQuota
    <2> QED BY <2>1, FS_EmptySet
<1>4. Shares([p \in Procs |-> {}])
    BY <1>2, <1>3 DEF Shares
<1> QED BY <1>1, <1>4 DEF ShareInv

\* A step keeps what is said of the rows, of the copies and of the reservations
\* for sessions that are not written yet.
LEMMA StepHeld ==
    ASSUME StoreInv, TypeOK', HeldInv, ~StoreFails, NEW p \in Procs, Step(p)
    PROVE  HeldInv'
<1> USE DEF StoreInv
<1>0. TypeOK /\ Frame(p)
    BY StepFrame
<1> DEFINE CopyEnds == /\ pc'[p] # "idle" => copy'[p].generation # 0
                       /\ pc'[p] = "deleting" => copy'[p].state = "DELETED"
                       /\ pc'[p] = "closing" => copy'[p].state \in {"FAILED", "DELETED"}
           NewHeld  == \A v \in Instances \ raced' :
                          rows'[v].generation = 0 /\ v \in quotas'[p] => on'[p] = v
           OwnRow   == on[p] \in Instances =>
                          \/ rows'[on[p]] = rows[on[p]]
                          \/ pc[p] # "idle" /\ rows'[on[p]] = copy[p]
\* It is enough to look at the container that takes the step.
<1>1. ASSUME CopyEnds, NewHeld, OwnRow, \A q \in Procs \ {p} : quotas'[q] = quotas[q]
      PROVE  HeldInv'
    <2>1. ASSUME NEW v \in Instances
          PROVE  rows'[v] = rows[v] \/ (rows'[v].generation # 0 /\ v = on[p])
        BY <1>0, <1>1 DEF Frame, HeldInv, Numbered
    <2>2. Numbered'
        BY <1>0, <1>1, <2>1 DEF Frame, HeldInv, Numbered
    <2>3. ClosingEnds'
        BY <1>0, <1>1 DEF Frame, HeldInv, ClosingEnds
    <2>4. ASSUME NEW q \in Procs \ {p}, NEW v \in Instances \ raced',
                 rows'[v].generation = 0, v \in quotas'[q]
          PROVE  on'[q] = v
        <3>1. rows[v].generation = 0 /\ v \notin raced /\ v \in quotas[q] /\ on'[q] = on[q]
            BY <1>0, <1>1, <2>1, <2>4 DEF Frame
        <3> QED BY <3>1 DEF HeldInv, NewHeldByOne
    <2>5. NewHeldByOne'
        BY <1>1, <2>4 DEF NewHeldByOne
    <2> QED BY <2>2, <2>3, <2>5 DEF HeldInv
<1>2. ASSUME NEW v \in Instances
      PROVE  /\ rows[v] \in Record
             /\ rows[v].state # "ABSENT" => rows[v].generation # 0
             /\ v \notin raced /\ rows[v].generation = 0 /\ v \in quotas[p] => on[p] = v
    BY <1>0 DEF TypeOK, HeldInv, Numbered, NewHeldByOne
<1>3. ASSUME NEW u \in Instances, NEW phase, NEW r, Begin(p, u, phase, r), rows' = rows,
             r.generation # 0,
             phase = "deleting" => r.state = "DELETED",
             phase = "closing" => r.state \in {"FAILED", "DELETED"},
             \A q \in Procs \ {p} : quotas'[q] = quotas[q],
             quotas'[p] \subseteq quotas[p] \union {u}
      PROVE  HeldInv'
    <2>1. pc'[p] = phase /\ on'[p] = u /\ copy'[p] = r /\ on[p] = NoOne
        BY <1>0, <1>3 DEF Begin, TypeOK, UnracedInv
    <2>2. CopyEnds /\ OwnRow
        BY <1>3, <2>1
    <2>3. NewHeld
        BY <1>0, <1>2, <1>3, <2>1, NoOneTypes DEF Frame
    <2> HIDE DEF CopyEnds, OwnRow, NewHeld
    <2> QED BY <1>1, <1>3, <2>2, <2>3
\* A step within an operation, which leaves the reservations alone.
<1>4. ASSUME NEW phase, NEW r, Goto(p, phase, r), OwnRow, quotas' = quotas,
             r.generation # 0,
             phase = "deleting" => r.state = "DELETED",
             phase = "closing" => r.state \in {"FAILED", "DELETED"}
      PROVE  HeldInv'
    <2>1. pc'[p] = phase /\ on'[p] = on[p] /\ copy'[p] = r /\ raced' = raced
        BY <1>0, <1>4 DEF Goto, TypeOK
    <2>2. CopyEnds
        BY <1>4, <2>1
    <2>3. ASSUME NEW v \in Instances \ raced', rows'[v].generation = 0, v \in quotas'[p]
          PROVE  on'[p] = v
        <3>1. rows'[v] = rows[v] \/ v = on[p]
            BY <1>0 DEF Frame
        <3> QED BY <1>2, <1>4, <2>1, <2>3, <3>1
    <2>4. NewHeld
        BY <2>3
    <2> HIDE DEF CopyEnds, OwnRow, NewHeld
    <2> QED BY <1>1, <1>4, <2>2, <2>4
\* An operation ends: the session it worked on is written by now, or p holds
\* nothing of it.
<1>5. ASSUME Done(p), OwnRow,
             \A q \in Procs \ {p} : quotas'[q] = quotas[q], quotas'[p] \subseteq quotas[p],
             on[p] \in Instances \ raced => rows'[on[p]].generation # 0
      PROVE  HeldInv'
    <2>1. pc'[p] = "idle" /\ on'[p] = NoOne /\ raced' = raced
        BY <1>0, <1>5 DEF Done, TypeOK
    <2>2. CopyEnds
        BY <2>1
    <2>3. ASSUME NEW v \in Instances \ raced', rows'[v].generation = 0, v \in quotas'[p]
          PROVE  on'[p] = v
        <3>1. v # on[p] /\ v \notin raced
            BY <1>5, <2>1, <2>3
        <3>2. rows'[v] = rows[v]
            BY <1>0, <3>1 DEF Frame
        <3> QED BY <1>2, <1>5, <2>3, <3>1, <3>2
    <2>4. NewHeld
        BY <2>3
    <2> HIDE DEF CopyEnds, OwnRow, NewHeld
    <2> QED BY <1>1, <1>5, <2>2, <2>4
<1>6. pc[p] # "idle" => on[p] \in Instances /\ copy[p] \in Record /\ copy[p].generation # 0
    BY <1>0 DEF TypeOK, WholeInv, CopyOK, HeldInv, Numbered
<1>7. ASSUME Write(p, copy[p]), pc[p] # "idle"
      PROVE  OwnRow /\ rows'[on[p]].generation # 0
    BY <1>0, <1>6, <1>7 DEF Write, TypeOK
<1>8. rows' = rows => OwnRow
    OBVIOUS
<1> HIDE DEF CopyEnds, NewHeld, OwnRow
<1>9. ASSUME NEW u \in Instances, AdmitBegin(p, u)
      PROVE  HeldInv'
    <2> DEFINE r == ReservedRecord(rows[u].generation)
    <2>1. r.generation # 0
        BY <1>2, WrittenRecords DEF ReservedRecord
    <2>2. Begin(p, u, "storing", r) /\ rows' = rows
        BY <1>9 DEF AdmitBegin
    <2>3. /\ \A q \in Procs \ {p} : quotas'[q] = quotas[q]
          /\ quotas'[p] = quotas[p] \union {u}
        BY <1>0, <1>9 DEF AdmitBegin, TypeOK
    <2> HIDE DEF r
    <2> QED BY <1>3, <2>1, <2>2, <2>3
<1>10. ASSUME NEW u \in Instances, ActiveBegin(p, u)
       PROVE  HeldInv'
    <2>1. rows[u].generation # 0 /\ rows' = rows /\ quotas' = quotas
        BY <1>2, <1>10 DEF ActiveBegin, Startable
    <2>2. ASSUME NEW phase \in {"starting", "storing"}, NEW s \in States,
                 Begin(p, u, phase, [rows[u] EXCEPT !.state = s])
          PROVE  HeldInv'
        <3> DEFINE r == [rows[u] EXCEPT !.state = s]
        <3>1. r.generation = rows[u].generation
            BY <1>2 DEF Record
        <3>2. Begin(p, u, phase, r)
            BY <2>2
        <3> HIDE DEF r
        <3> QED BY <1>3, <2>1, <3>1, <3>2
    <2>3. "STARTING" \in States /\ Serving \subseteq States
        BY Named
    <2> QED BY <1>10, <2>2, <2>3 DEF ActiveBegin
<1>11. ASSUME NEW u \in Instances, DeleteBegin(p, u)
       PROVE  HeldInv'
    <2> DEFINE r == [rows[u] EXCEPT !.state = "DELETED", !.token = NoToken]
               phase == IF rows[u].backend THEN "deleting" ELSE "closing"
    <2>1. r.generation = rows[u].generation /\ r.state = "DELETED"
        BY <1>2 DEF Record
    <2>2. /\ rows[u].generation # 0 /\ rows' = rows /\ quotas' = quotas
          /\ Begin(p, u, phase, r)
        BY <1>2, <1>11 DEF DeleteBegin, Admittable
    <2> HIDE DEF r, phase
    <2> QED BY <1>3, <2>1, <2>2
<1>12. ASSUME NEW u \in Instances, AbortBegin(p, u)
       PROVE  HeldInv'
    <2> DEFINE r == [rows[u] EXCEPT !.state = "FAILED"]
    <2>1. r.generation = rows[u].generation /\ r.state = "FAILED"
        BY <1>2 DEF Record
    <2>2. /\ rows[u].generation # 0 /\ rows' = rows /\ quotas' = quotas
          /\ Begin(p, u, "closing", r)
        BY <1>2, <1>12 DEF AbortBegin, Admittable
    <2> HIDE DEF r
    <2> QED BY <1>3, <2>1, <2>2
<1>13. CASE StartPersist(p)
    <2>1. Goto(p, "creating", copy[p]) /\ quotas' = quotas /\ Write(p, copy[p])
          /\ pc[p] # "idle"
        BY <1>13 DEF StartPersist
    <2> QED BY <1>4, <1>6, <1>7, <2>1
<1>14. CASE CreateSession(p)
    <2>1. rows' = rows /\ quotas' = quotas /\ pc[p] # "idle"
        BY <1>14 DEF CreateSession
    <2>2. ASSUME NEW r, Goto(p, "storing", r), r.generation = copy[p].generation
          PROVE  HeldInv'
        BY <1>4, <1>6, <1>8, <2>1, <2>2
    <2>3. CASE CreateAnswered(p)
        <3>1. PICK t \in FreshTokens, s \in Serving :
                 Goto(p, "storing", [copy[p] EXCEPT !.state = s, !.token = t, !.backend = TRUE])
            BY <2>3 DEF CreateAnswered
        <3>2. [copy[p] EXCEPT !.state = s, !.token = t, !.backend = TRUE].generation
                 = copy[p].generation
            BY <1>6, <2>1 DEF Record
        <3> QED BY <2>2, <3>1, <3>2
    <2>4. CASE CreateFailed(p)
        <3>1. [copy[p] EXCEPT !.token = NoToken].generation = copy[p].generation
            BY <1>6, <2>1 DEF Record
        <3>2. Goto(p, "storing", [copy[p] EXCEPT !.token = NoToken])
            BY <2>4 DEF CreateFailed
        <3> QED BY <2>2, <3>1, <3>2
    <2> QED BY <1>14, <2>3, <2>4 DEF CreateSession
<1>15. CASE Store(p)
    <2>1. Done(p) /\ quotas' = quotas /\ Write(p, copy[p]) /\ pc[p] # "idle"
        BY <1>15 DEF Store
    <2> QED BY <1>5, <1>7, <2>1
<1>16. CASE DeleteSession(p)
    <2>1. rows' = rows /\ quotas' = quotas /\ pc[p] = "deleting"
        BY <1>16 DEF DeleteSession
    <2>2. copy[p].state = "DELETED"
        BY <2>1 DEF HeldInv, ClosingEnds
    <2>3. CASE Goto(p, "closing", [copy[p] EXCEPT !.backend = FALSE])
        <3>1. /\ [copy[p] EXCEPT !.backend = FALSE].generation = copy[p].generation
              /\ [copy[p] EXCEPT !.backend = FALSE].state = copy[p].state
            BY <1>6, <2>1 DEF Record
        <3> QED BY <1>4, <1>6, <1>8, <2>1, <2>2, <2>3, <3>1
    <2>4. CASE Done(p)
        <3>1. on[p] \in Instances \ raced => LegalStep(rows[on[p]], copy[p])
            BY <2>1 DEF UnracedInv, NextWriteOK
        <3>2. on[p] \in Instances \ raced => rows[on[p]].generation # 0
            BY <1>6, <2>1, <2>2, <3>1 DEF LegalStep, Serving
        <3> QED BY <1>5, <1>8, <2>1, <2>4, <3>2
    <2> QED BY <1>16, <2>3, <2>4 DEF DeleteSession
<1>17. CASE Close(p)
    <2>1. Done(p) /\ Write(p, copy[p]) /\ pc[p] # "idle"
        BY <1>17 DEF Close
    <2>2. /\ \A q \in Procs \ {p} : quotas'[q] = quotas[q]
          /\ quotas'[p] \subseteq quotas[p]
        BY <1>0, <1>17 DEF Close, TypeOK
    <2> QED BY <1>5, <1>7, <2>1, <2>2
\* What a restart finds in the rows was written.
<1>18. CASE Crash(p)
    <2>1. Done(p) /\ rows' = rows
        BY <1>18 DEF Crash
    <2>2. /\ \A q \in Procs \ {p} : quotas'[q] = quotas[q]
          /\ quotas'[p] = Live
        BY <1>0, <1>18 DEF Crash, TypeOK
    <2>3. pc'[p] = "idle"
        BY <1>0, <2>1 DEF Done, TypeOK
    <2>4. \A v \in Live : rows'[v].generation # 0
        BY <1>2, <2>1 DEF Live, LiveStates, Startable, Serving
    <2>5. CopyEnds /\ NewHeld
        BY <2>2, <2>3, <2>4 DEF CopyEnds, NewHeld
    <2> QED BY <1>1, <1>8, <2>1, <2>2, <2>5
<1> QED BY <1>9, <1>10, <1>11, <1>12, <1>13, <1>14, <1>15, <1>16, <1>17, <1>18
        DEF Step, WriteRaises

\* Nothing begins to count but what is admitted.
LEMMA CountedKept ==
    ASSUME StoreInv, TypeOK', HeldInv, NEW p \in Procs, Step(p), NEW v \in Counted'
    PROVE  v \in Counted \/ AdmitBegin(p, v)
<1> USE DEF StoreInv
<1>0. TypeOK /\ Frame(p)
    BY StepFrame
<1>1. /\ v \in Instances \ raced /\ rows[v] \in Record /\ rows'[v] \in Record
      /\ rows[v].generation = 0 => rows[v].state = "ABSENT"
    BY <1>0 DEF Counted, Frame, TypeOK, HeldInv, Numbered
<1>2. rows[v].generation \in Nat /\ LegalStep(rows[v], rows'[v])
    BY <1>1, StepLegal, WrittenRecords
<1>3. CASE rows'[v].generation = 1 /\ rows'[v].state \in LiveStates
    <2>1. CASE rows[v].generation = 1
        <3>1. rows[v].state \in LiveStates
            BY <1>2, <1>3, <2>1 DEF LegalStep, LiveStates, Startable, Serving
        <3> QED BY <1>1, <2>1, <3>1 DEF Counted
    <2>2. CASE rows[v].generation # 1
        <3>1. rows[v].generation = 0 /\ rows'[v] # rows[v]
            BY <1>2, <1>3, <2>2 DEF LegalStep
        <3>2. on[p] = v
            BY <1>0, <1>1, <3>1 DEF Frame
        <3> QED BY <1>1, <3>1, <3>2 DEF Counted
    <2> QED BY <2>1, <2>2
<1>4. CASE rows'[v].generation = 0 /\ \E q \in Procs : on'[q] = v
    <2>1. rows[v].generation = 0 /\ rows[v].state = "ABSENT"
        BY <1>1, <1>2, <1>4 DEF LegalStep
    <2>2. CASE \E q \in Procs : on[q] = v
        BY <1>1, <2>1, <2>2 DEF Counted
    <2>3. CASE ~ \E q \in Procs : on[q] = v
        <3>1. on'[p] = v /\ on[p] # v
            BY <1>0, <1>4, <2>3 DEF Frame
        <3>2. ASSUME NEW u \in Instances, NEW phase, NEW r, Begin(p, u, phase, r)
              PROVE  u = v
            BY <1>0, <3>1, <3>2 DEF Begin, TypeOK
        <3>3. ~ Done(p)
            BY <1>0, <1>1, <3>1, NoOneTypes DEF Done, TypeOK
        <3>4. ASSUME NEW phase, NEW r PROVE ~ Goto(p, phase, r)
            BY <3>1 DEF Goto
        <3>5. PICK u \in Instances : AdmitBegin(p, u) \/ ActiveBegin(p, u)
                                       \/ DeleteBegin(p, u) \/ AbortBegin(p, u)
            BY <3>3, <3>4 DEF Step, StartPersist, CreateSession, CreateAnswered, CreateFailed,
               Store, DeleteSession, Close, WriteRaises, Crash
        <3>6. u = v
            BY <3>2, <3>5 DEF AdmitBegin, ActiveBegin, DeleteBegin, AbortBegin
        <3> QED BY <2>1, <3>5, <3>6
                DEF ActiveBegin, DeleteBegin, AbortBegin, Startable, Admittable
    <2> QED BY <2>2, <2>3
<1> QED BY <1>3, <1>4 DEF Counted

\* A container keeps what counts of its share: a close ends the session, and a
\* restart finds it in the rows.
LEMMA ShareKept ==
    ASSUME StoreInv, TypeOK', HeldInv, ~StoreFails, NEW p \in Procs, Step(p),
           NEW v \in Counted', NEW q \in Procs, v \in quotas[q]
    PROVE  v \in quotas'[q]
<1> USE DEF StoreInv
<1>0. TypeOK /\ Frame(p)
    BY StepFrame
<1>1. v \in Instances \ raced /\ v \notin raced'
    BY <1>0 DEF Counted, Frame
<1>2. CASE quotas' = quotas
    BY <1>2
<1>3. ASSUME NEW u \in Instances, AdmitBegin(p, u)
      PROVE  v \in quotas'[q]
    BY <1>0, <1>3 DEF AdmitBegin, TypeOK
<1>4. CASE Close(p)
    <2>1. /\ on[p] \in Instances /\ copy[p].state \in {"FAILED", "DELETED"}
          /\ copy[p].generation # 0
        BY <1>4 DEF Close, WholeInv, CopyOK, HeldInv, ClosingEnds, Numbered
    <2>2. rows'[on[p]] = copy[p]
        BY <1>0, <1>4, <2>1 DEF Close, Write, TypeOK
    <2>3. v # on[p]
        BY <2>1, <2>2 DEF Counted, LiveStates, Startable, Serving
    <2> QED BY <1>0, <1>4, <2>3 DEF Close, TypeOK
<1>5. CASE Crash(p)
    <2>1. Done(p) /\ rows' = rows /\ quotas' = [quotas EXCEPT ![p] = Live]
        BY <1>5 DEF Crash
    <2>2. CASE q # p
        BY <1>0, <2>1, <2>2 DEF TypeOK
    <2>3. CASE q = p
        <3>1. quotas'[p] = Live
            BY <1>0, <2>1 DEF TypeOK
        <3>2. CASE rows'[v].generation = 1 /\ rows'[v].state \in LiveStates
            BY <1>1, <2>1, <2>3, <3>1, <3>2 DEF Live
        <3>3. CASE rows'[v].generation = 0 /\ \E o \in Procs : on'[o] = v
            <4>1. on[p] = v
                BY <1>1, <2>1, <2>3, <3>3 DEF HeldInv, NewHeldByOne
            <4>2. PICK o \in Procs : on'[o] = v
                BY <3>3
            <4>3. on'[p] = NoOne
                BY <1>0, <2>1 DEF Done, TypeOK
            <4>4. o # p /\ on[o] = v
                BY <1>0, <1>1, <4>2, <4>3, NoOneTypes DEF Frame
            <4> QED BY <1>1, <4>1, <4>4 DEF UnracedInv
        <3> QED BY <3>2, <3>3 DEF Counted
    <2> QED BY <2>2, <2>3
<1> QED BY <1>2, <1>3, <1>4, <1>5 DEF Step, ActiveBegin, DeleteBegin, AbortBegin, StartPersist,
        CreateSession, Store, DeleteSession, WriteRaises

LEMMA StepShares ==
    ASSUME StoreInv, TypeOK', HeldInv, ShareInv, ~StoreFails, NEW p \in Procs, Step(p)
    PROVE  ShareInv'
<1>1. PICK own \in [Procs -> SUBSET Instances] : Shares(own)
    BY DEF ShareInv
<1> DEFINE kept == [q \in Procs |-> own[q] \intersect Counted']
<1>2. kept \in [Procs -> SUBSET Instances]
    OBVIOUS
<1>3. ASSUME NEW q \in Procs
      PROVE  kept[q] \subseteq quotas'[q] /\ WithinQuota(kept[q])
    <2>1. own[q] \subseteq quotas[q] /\ WithinQuota(own[q]) /\ own[q] \in SUBSET Instances
        BY <1>1 DEF Shares
    <2>2. kept[q] \in SUBSET own[q]
        OBVIOUS
    <2>3. WithinQuota(kept[q])
        BY <2>1, <2>2, QuotaOfPart
    <2> QED BY <2>1, <2>3, ShareKept
\* What counted before belongs to the share it belonged to.
<1>4. ASSUME NEW v \in Counted \intersect Counted'
      PROVE  \E q \in Procs : v \in kept[q]
    BY <1>1 DEF Shares
<1>5. CASE Counted' \subseteq Counted
    <2> HIDE DEF kept
    <2> QED BY <1>2, <1>3, <1>4, <1>5 DEF ShareInv, Shares
\* What is admitted goes to the share of p, which holds all of its share.
<1>6. ASSUME NEW u \in Counted' \ Counted
      PROVE  ShareInv'
    <2>1. /\ AdmitBegin(p, u) /\ u \in Instances \ raced
          /\ \A v \in Counted' \ Counted : AdmitBegin(p, v)
        BY <1>6, CountedKept, StepFrame DEF StoreInv, Frame, Counted
    <2>2. /\ pc[p] = "idle" /\ on[p] = NoOne /\ on'[p] = u
          /\ \A v \in Instances : AdmitBegin(p, v) => v = u
          /\ quotas'[p] = quotas[p] \union {u}
        BY <2>1 DEF AdmitBegin, Begin, StoreInv, TypeOK, UnracedInv
    <2>3. rows[u].generation = 0 /\ rows' = rows
        BY <1>6, <2>1 DEF AdmitBegin, Counted
    <2>4. u \notin quotas[p]
        BY <2>1, <2>2, <2>3, NoOneTypes DEF HeldInv, NewHeldByOne
    <2>5. Cardinality(SameQuota(quotas[p], u)) < Limit[QuotaKey(u)]
        BY <2>1, <2>4 DEF AdmitBegin
    <2> DEFINE given == [kept EXCEPT ![p] = kept[p] \union {u}]
    <2>6. given \in [Procs -> SUBSET Instances] /\ given[p] = kept[p] \union {u}
        BY <1>2, <2>1
    <2>7. \A q \in Procs \ {p} : given[q] = kept[q]
        BY <1>2
    <2>8. WithinQuota(given[p])
        <3>1. kept[p] \in SUBSET Instances /\ kept[p] \subseteq quotas[p]
              /\ quotas[p] \in SUBSET Instances /\ WithinQuota(kept[p])
            BY <1>1, <1>2, <1>3 DEF Shares, StoreInv, TypeOK
        <3>2. SameQuota(kept[p], u) \in SUBSET SameQuota(quotas[p], u)
              /\ IsFiniteSet(SameQuota(quotas[p], u))
            BY <3>1, InstancesFinite, FS_Subset DEF SameQuota
        <3>3. /\ Cardinality(SameQuota(kept[p], u)) <= Cardinality(SameQuota(quotas[p], u))
              /\ IsFiniteSet(SameQuota(kept[p], u))
            BY <3>2, FS_Subset
        <3>4. /\ Cardinality(SameQuota(kept[p], u)) \in Nat
              /\ Cardinality(SameQuota(quotas[p], u)) \in Nat
            BY <3>2, <3>3, FS_CardinalityType
        <3>5. Limit[QuotaKey(u)] \in Nat
            BY <2>1, LimitTypes, OfferingTypes DEF QuotaKey
        <3>6. Cardinality(SameQuota(kept[p], u)) < Limit[QuotaKey(u)]
            BY <2>5, <3>3, <3>4, <3>5
        <3> HIDE DEF kept
        <3> QED BY <2>1, <2>6, <3>1, <3>6, QuotaOfOneMore
    <2>9. \A v \in Counted' : v = u \/ v \in Counted
        BY <2>1, <2>2 DEF Counted
    <2> HIDE DEF kept, given
    <2>10. \A q \in Procs : given[q] \subseteq quotas'[q] /\ WithinQuota(given[q])
        BY <1>3, <2>2, <2>6, <2>7, <2>8
    <2>11. ASSUME NEW v \in Counted'
           PROVE  \E q \in Procs : v \in given[q]
        BY <1>4, <2>6, <2>7, <2>9
    <2> QED BY <2>6, <2>10, <2>11 DEF ShareInv, Shares
<1> QED BY <1>5, <1>6

\* Together the containers admit at most the quota of each, wherever and however
\* often they are killed, under the conditions that UnracedQuota names.
THEOREM QuotaPerContainer == Spec => []UnracedQuota
<1> DEFINE Inv == ~StoreFails => HeldInv /\ ShareInv
<1>1. Init => Inv
    BY InitHeld
<1>2. HeldInv /\ ShareInv /\ UNCHANGED <<rows, quotas, pc, on, copy, raced>>
          => HeldInv' /\ ShareInv'
    BY DEF HeldInv, Numbered, ClosingEnds, NewHeldByOne, ShareInv, Shares, Counted
<1>3. StoreInv /\ StoreInv' /\ Inv /\ [Next]_vars => Inv'
    BY <1>2, StepHeld, StepShares DEF Next, vars, StoreInv
<1>4. StoreInv /\ Inv => UnracedQuota
    <2> SUFFICES ASSUME StoreInv, Inv, AdmittedOnce, ~StoreFails, NEW u \in Instances
                 PROVE  Cardinality(SameQuota(Live \ raced, u))
                            <= Cardinality(Procs) * Limit[QuotaKey(u)]
        BY DEF UnracedQuota
    <2>1. PICK own \in [Procs -> SUBSET Instances] : Shares(own)
        BY DEF ShareInv
    <2>2. ASSUME NEW v \in Live \ raced
          PROVE  v \in Counted
        <3>1. v \in Instances \ raced /\ rows[v].state \in LiveStates /\ rows[v] \in Record
            BY DEF Live, StoreInv, TypeOK
        <3>2. rows[v].generation \in Nat /\ rows[v].generation <= 1
            BY <3>1, WrittenRecords DEF AdmittedOnce
        <3>3. rows[v].generation # 0
            BY <3>1 DEF HeldInv, Numbered, LiveStates, Startable, Serving
        <3>4. rows[v].generation = 1
            BY <3>2, <3>3
        <3> QED BY <3>1, <3>4 DEF Counted
    <2>3. /\ \A p \in Procs : WithinQuota(own[p])
          /\ \A v \in Live \ raced : \E p \in Procs : v \in own[p]
          /\ Live \ raced \in SUBSET Instances
        BY <2>1, <2>2 DEF Shares, Live
    <2> QED BY <2>3, QuotaOfAll
<1> QED BY <1>1, <1>3, <1>4, StoreInvariant, PTL DEF Spec

=============================================================================
