-------------------------- MODULE LifecycleProofs --------------------------
(***************************************************************************)
(* Proofs about Lifecycle, for every value of its constants: any number of *)
(* instances, projects and profiles, any quotas, either capacity provider, *)
(* whatever replies are lost and writes raise.                             *)
(***************************************************************************)
EXTENDS Lifecycle, FiniteSetTheorems, TLAPS

USE OfferingTypes, LimitTypes, TokenTypes

-----------------------------------------------------------------------------
(***************************************************************************)
(* Counting against a quota or an inventory                                *)
(***************************************************************************)

\* Dropping instances from a set of reservations keeps it within the quotas.
LEMMA QuotaOfSubset ==
    ASSUME NEW S, NEW T, S \subseteq T, T \subseteq Instances, WithinQuota(T)
    PROVE  WithinQuota(S)
<1> SUFFICES ASSUME NEW u \in Instances
             PROVE  Cardinality(SameQuota(S, u)) <= Limit[QuotaKey(u)]
    BY DEF WithinQuota
<1>1. SameQuota(S, u) \subseteq SameQuota(T, u) /\ SameQuota(T, u) \subseteq Instances
    BY DEF SameQuota
<1>2. IsFiniteSet(SameQuota(T, u))
    BY <1>1, InstancesFinite, FS_Subset
<1>3. /\ IsFiniteSet(SameQuota(S, u))
      /\ Cardinality(SameQuota(S, u)) <= Cardinality(SameQuota(T, u))
    BY <1>1, <1>2, FS_Subset
<1>4. Cardinality(SameQuota(S, u)) \in Nat /\ Cardinality(SameQuota(T, u)) \in Nat
    BY <1>2, <1>3, FS_CardinalityType
<1>5. Limit[QuotaKey(u)] \in Nat
    BY DEF QuotaKey
<1>6. Cardinality(SameQuota(T, u)) <= Limit[QuotaKey(u)]
    BY DEF WithinQuota
<1> QED BY <1>3, <1>4, <1>5, <1>6

\* Adding an instance for which FakeQuotaProvider.reserve finds room does too.
LEMMA QuotaOfGrant ==
    ASSUME NEW S, S \subseteq Instances, NEW u \in Instances, WithinQuota(S),
           u \in S \/ Cardinality(SameQuota(S, u)) < Limit[QuotaKey(u)]
    PROVE  WithinQuota(S \union {u})
<1>1. CASE u \in S
    <2>1. S \union {u} = S
        BY <1>1
    <2> QED BY <2>1
<1>2. CASE u \notin S
    <2> SUFFICES ASSUME NEW v \in Instances
                 PROVE  Cardinality(SameQuota(S \union {u}, v)) <= Limit[QuotaKey(v)]
        BY DEF WithinQuota
    <2>1. CASE QuotaKey(u) # QuotaKey(v)
        <3>1. SameQuota(S \union {u}, v) = SameQuota(S, v)
            BY <2>1 DEF SameQuota
        <3> QED BY <3>1 DEF WithinQuota
    <2>2. CASE QuotaKey(u) = QuotaKey(v)
        <3>1. /\ SameQuota(S \union {u}, v) = SameQuota(S, u) \union {u}
              /\ u \notin SameQuota(S, u)
            BY <1>2, <2>2 DEF SameQuota
        <3>2. IsFiniteSet(SameQuota(S, u))
            BY InstancesFinite, FS_Subset DEF SameQuota
        <3>3. /\ Cardinality(SameQuota(S \union {u}, v)) = Cardinality(SameQuota(S, u)) + 1
              /\ Cardinality(SameQuota(S, u)) \in Nat
            BY <3>1, <3>2, FS_AddElement, FS_CardinalityType
        <3>4. Cardinality(SameQuota(S, u)) < Limit[QuotaKey(u)]
            BY <1>2
        <3>5. Limit[QuotaKey(u)] \in Nat
            BY DEF QuotaKey
        <3> QED BY <2>2, <3>3, <3>4, <3>5
    <2> QED BY <2>1, <2>2
<1> QED BY <1>1, <1>2

\* The same two facts for the inventory of a profile.
LEMMA InventoryOfSubset ==
    ASSUME NEW S, NEW T, S \subseteq T, T \subseteq Instances, WithinInventory(T)
    PROVE  WithinInventory(S)
<1> SUFFICES ASSUME NEW u \in Instances
             PROVE  Cardinality(SameProfile(S, u)) <= Inventory[ProfileOf[u]]
    BY DEF WithinInventory
<1>1. SameProfile(S, u) \subseteq SameProfile(T, u) /\ SameProfile(T, u) \subseteq Instances
    BY DEF SameProfile
<1>2. IsFiniteSet(SameProfile(T, u))
    BY <1>1, InstancesFinite, FS_Subset
<1>3. /\ IsFiniteSet(SameProfile(S, u))
      /\ Cardinality(SameProfile(S, u)) <= Cardinality(SameProfile(T, u))
    BY <1>1, <1>2, FS_Subset
<1>4. Cardinality(SameProfile(S, u)) \in Nat /\ Cardinality(SameProfile(T, u)) \in Nat
    BY <1>2, <1>3, FS_CardinalityType
<1>5. Inventory[ProfileOf[u]] \in Nat /\ Cardinality(SameProfile(T, u)) <= Inventory[ProfileOf[u]]
    BY DEF WithinInventory
<1> QED BY <1>3, <1>4, <1>5

LEMMA InventoryOfGrant ==
    ASSUME NEW S, S \subseteq Instances, NEW u \in Instances, WithinInventory(S),
           u \in S \/ Cardinality(SameProfile(S, u)) < Inventory[ProfileOf[u]]
    PROVE  WithinInventory(S \union {u})
<1>1. CASE u \in S
    <2>1. S \union {u} = S
        BY <1>1
    <2> QED BY <2>1
<1>2. CASE u \notin S
    <2> SUFFICES ASSUME NEW v \in Instances
                 PROVE  Cardinality(SameProfile(S \union {u}, v)) <= Inventory[ProfileOf[v]]
        BY DEF WithinInventory
    <2>1. CASE ProfileOf[u] # ProfileOf[v]
        <3>1. SameProfile(S \union {u}, v) = SameProfile(S, v)
            BY <2>1 DEF SameProfile
        <3> QED BY <3>1 DEF WithinInventory
    <2>2. CASE ProfileOf[u] = ProfileOf[v]
        <3>1. /\ SameProfile(S \union {u}, v) = SameProfile(S, u) \union {u}
              /\ u \notin SameProfile(S, u)
            BY <1>2, <2>2 DEF SameProfile
        <3>2. IsFiniteSet(SameProfile(S, u))
            BY InstancesFinite, FS_Subset DEF SameProfile
        <3>3. /\ Cardinality(SameProfile(S \union {u}, v)) = Cardinality(SameProfile(S, u)) + 1
              /\ Cardinality(SameProfile(S, u)) \in Nat
            BY <3>1, <3>2, FS_AddElement, FS_CardinalityType
        <3>4. Cardinality(SameProfile(S, u)) < Inventory[ProfileOf[u]]
            BY <1>2
        <3>5. Inventory[ProfileOf[u]] \in Nat
            OBVIOUS
        <3> QED BY <2>2, <3>3, <3>4, <3>5
    <2> QED BY <2>1, <2>2
<1> QED BY <1>1, <1>2

-----------------------------------------------------------------------------
(***************************************************************************)
(* Type correctness                                                        *)
(***************************************************************************)
LEMMA InitTypeOK == Init => TypeOK
BY DEF Init, TypeOK, NoRecord, Record, States, Persisted

LEMMA AdmitBuildTypeOK ==
    ASSUME TypeOK, NEW u \in Instances, AdmitBuild(u)
    PROVE  TypeOK'
<1>1. CASE AdmitGranted(u)
    BY <1>1 DEF AdmitGranted, CapacityReserved, Settled, TypeOK, ReservedRecord, Record,
                States, Persisted
<1>2. CASE AdmitNoCapacity(u)
    BY <1>2 DEF AdmitNoCapacity, Settled, TypeOK
<1>3. CASE AdmitRaises(u)
    BY <1>3 DEF AdmitRaises, CapacityReserved, TypeOK
<1> QED BY <1>1, <1>2, <1>3 DEF AdmitBuild

LEMMA UpsertedType ==
    ASSUME TypeOK, NEW u \in Instances, NEW t \in Tokens
    PROVE  Upserted(u, t) \in [Instances -> ManagerSession \union {NoSession}]
BY DEF TypeOK, Upserted, ManagerSession, Record

LEMMA InstanceActiveTypeOK ==
    ASSUME TypeOK, NEW u \in Instances, InstanceActive(u)
    PROVE  TypeOK'
<1> USE DEF InstanceActive
<1>1. CASE StartAnswered(u)
    <2>1. PICK t \in FreshTokens, s \in Serving :
              /\ sessions' = [sessions EXCEPT ![u] = [@ EXCEPT !.state = s, !.token = t,
                                                              !.backend = TRUE]]
              /\ active'   = active \union {t}
              /\ manager'  = Upserted(u, t)
        BY <1>1 DEF StartAnswered
    <2>2. t \in Tokens
        BY DEF FreshTokens
    <2>3. manager' \in [Instances -> ManagerSession \union {NoSession}]
        BY <2>1, <2>2, UpsertedType
    <2> QED BY <2>1, <2>2, <2>3 DEF TypeOK, Record, Serving, States, Persisted
<1>2. CASE StartRefused(u)
    BY <1>2 DEF StartRefused, KeptStarting, TypeOK, Record, States, Persisted
<1>3. CASE StartReplyLost(u)
    <2>1. PICK t \in FreshTokens : manager' = Upserted(u, t)
        BY <1>3 DEF StartReplyLost
    <2>2. manager' \in [Instances -> ManagerSession \union {NoSession}]
        BY <2>1, UpsertedType DEF FreshTokens
    <2> QED BY <1>3, <2>2 DEF StartReplyLost, KeptStarting, TypeOK, Record, States, Persisted
<1>4. CASE StartUnwritten(u)
    <2>1. PICK t \in FreshTokens : active' = active \union {t} /\ manager' = Upserted(u, t)
        BY <1>4 DEF StartUnwritten
    <2>2. t \in Tokens
        BY DEF FreshTokens
    <2>3. manager' \in [Instances -> ManagerSession \union {NoSession}]
        BY <2>1, <2>2, UpsertedType
    <2> QED BY <1>4, <2>1, <2>2, <2>3 DEF StartUnwritten, KeptStarting, TypeOK, Record, States, Persisted
<1> QED BY <1>1, <1>2, <1>3, <1>4

LEMMA RefreshSessionTypeOK ==
    ASSUME TypeOK, NEW u \in Instances, RefreshSession(u)
    PROVE  TypeOK'
<1>1. PICK s \in Serving : sessions' = [sessions EXCEPT ![u].state = s]
    BY DEF RefreshSession
<1>2. sessions' \in [Instances -> Record]
    BY <1>1 DEF TypeOK, Record, Serving, States, Persisted
<1> QED BY <1>2 DEF RefreshSession, TypeOK

LEMMA ReleasedUnwrittenTypeOK ==
    ASSUME TypeOK, NEW u \in Instances, ReleasedUnwritten(u)
    PROVE  /\ sessions' = sessions
           /\ quotas' \subseteq Instances /\ capacity' \subseteq Instances
           /\ unsettled' \subseteq Instances
BY DEF ReleasedUnwritten, Released, CapacityReleased, TypeOK

LEMMA DeletedTypeOK ==
    ASSUME TypeOK, NEW u \in Instances, Deleted(u)
    PROVE  /\ sessions' \in [Instances -> Record]
           /\ quotas' \subseteq Instances /\ capacity' \subseteq Instances
           /\ unsettled' \subseteq Instances
BY DEF Deleted, Released, Settled, CapacityReleased, TypeOK, Record, States, Persisted

LEMMA DeleteInstanceTypeOK ==
    ASSUME TypeOK, NEW u \in Instances, DeleteInstance(u)
    PROVE  TypeOK'
<1> USE DEF DeleteInstance
<1>1. CASE DeleteAnswered(u)
    <2>1. /\ sessions' \in [Instances -> Record]
          /\ quotas' \subseteq Instances /\ capacity' \subseteq Instances
          /\ unsettled' \subseteq Instances
        BY <1>1, DeletedTypeOK, ReleasedUnwrittenTypeOK DEF DeleteAnswered, TypeOK
    <2> QED BY <1>1, <2>1 DEF DeleteAnswered, TypeOK
<1>2. CASE DeleteRefused(u)
    BY <1>2 DEF DeleteRefused, TypeOK
<1>3. CASE DeleteReplyLost(u)
    BY <1>3 DEF DeleteReplyLost, TypeOK
<1> QED BY <1>1, <1>2, <1>3

LEMMA AbortBuildTypeOK ==
    ASSUME TypeOK, NEW u \in Instances, AbortBuild(u)
    PROVE  TypeOK'
<1>1. CASE Aborted(u)
    BY <1>1 DEF AbortBuild, Aborted, Released, Settled, CapacityReleased, TypeOK, Record,
                States, Persisted
<1>2. CASE ReleasedUnwritten(u)
    BY <1>2, ReleasedUnwrittenTypeOK DEF AbortBuild, TypeOK
<1> QED BY <1>1, <1>2 DEF AbortBuild

LEMMA RestartTypeOK ==
    ASSUME TypeOK, Restart
    PROVE  TypeOK'
<1>1. {sessions[u].token : u \in Live} \ {NoToken} \subseteq Tokens
    BY DEF Live, TypeOK, Record
<1> QED BY <1>1 DEF Restart, Live, TypeOK

\* Every variable keeps its type: in particular a row never holds DRAINING and
\* the manager never holds a session without a credential.
THEOREM TypeCorrect == Spec => []TypeOK
<1>1. Init => TypeOK
    BY InitTypeOK
<1>2. TypeOK /\ [Next]_vars => TypeOK'
    <2> SUFFICES ASSUME TypeOK, [Next]_vars
                 PROVE  TypeOK'
        OBVIOUS
    <2>1. ASSUME NEW u \in Instances, Operation(u)
          PROVE  TypeOK'
        BY <2>1, AdmitBuildTypeOK, InstanceActiveTypeOK, RefreshSessionTypeOK,
           DeleteInstanceTypeOK, AbortBuildTypeOK DEF Operation
    <2>2. ASSUME NEW u \in Instances, NovaClaim(u) \/ NovaRelease(u)
          PROVE  TypeOK'
        BY <2>2 DEF NovaClaim, NovaRelease, TypeOK
    <2>3. CASE Restart
        BY <2>3, RestartTypeOK
    <2>4. CASE UNCHANGED vars
        BY <2>4 DEF vars, TypeOK
    <2> QED BY <2>1, <2>2, <2>3, <2>4 DEF Next
<1> QED BY <1>1, <1>2, PTL DEF Spec

-----------------------------------------------------------------------------
(***************************************************************************)
(* Quota and capacity.                                                     *)
(*                                                                         *)
(* That live sessions are within the quotas is not inductive: an admission *)
(* counts reservations, not sessions.  What is kept by every step is that  *)
(* the reservations are those of the live sessions, but for the unsettled  *)
(* ones, and that those which count are within the quotas: all but the     *)
(* ones a restart gave back to sessions that had been released.            *)
(***************************************************************************)
Counted     == quotas \ (unsettled \intersect Live)
QuotaInv    == ReservationsMatchSessions /\ WithinQuota(Counted)
CapacityInv == ReservationsMatchSessions /\ (~OpenStackMode => WithinInventory(Counted))

\* How each operation moves the set of live sessions.
LEMMA LiveAfterOperation ==
    ASSUME TypeOK, NEW u \in Instances
    PROVE  /\ AdmitBuild(u)     => u \notin Live
           /\ AdmitGranted(u)   => Live' = Live \union {u}
           /\ InstanceActive(u) => Live' = Live
           /\ RefreshSession(u) => Live' = Live
           /\ Deleted(u)        => Live' = Live \ {u}
           /\ Aborted(u)        => Live' = Live \ {u}
           /\ (UNCHANGED sessions) => Live' = Live
<1> USE DEF TypeOK, Live, LiveStates, Startable, Serving
<1>1. AdmitBuild(u) => u \notin Live
    BY DEF AdmitBuild, Admittable
<1>2. AdmitGranted(u) => Live' = Live \union {u}
    BY DEF AdmitGranted, ReservedRecord
<1>3. InstanceActive(u) => Live' = Live
    <2> SUFFICES ASSUME InstanceActive(u) PROVE Live' = Live
        OBVIOUS
    <2>1. /\ sessions[u].state \in Startable
          /\ sessions' \in [Instances -> Record]
          /\ sessions'[u].state \in LiveStates
          /\ \A v \in Instances \ {u} : sessions'[v] = sessions[v]
        <3>1. sessions' \in [Instances -> Record]
            BY InstanceActiveTypeOK
        <3>2. CASE StartAnswered(u)
            <4>1. PICK t \in FreshTokens, s \in Serving :
                      sessions' = [sessions EXCEPT ![u] = [@ EXCEPT !.state = s, !.token = t,
                                                                    !.backend = TRUE]]
                BY <3>2 DEF StartAnswered
            <4>2. sessions'[u].state = s
                BY <4>1 DEF Record
            <4> QED BY <3>1, <4>1, <4>2 DEF InstanceActive
        <3>3. CASE KeptStarting(u)
            BY <3>1, <3>3 DEF KeptStarting, InstanceActive, Record
        <3> QED BY <3>1, <3>2, <3>3
                   DEF InstanceActive, StartRefused, StartReplyLost, StartUnwritten
    <2> QED BY <2>1
<1>4. RefreshSession(u) => Live' = Live
    BY DEF RefreshSession, Record
<1>5. Deleted(u) => Live' = Live \ {u}
    BY DEF Deleted, Record
<1>6. Aborted(u) => Live' = Live \ {u}
    BY DEF Aborted, Record
<1>7. (UNCHANGED sessions) => Live' = Live
    OBVIOUS
<1> QED BY <1>1, <1>2, <1>3, <1>4, <1>5, <1>6, <1>7

\* How every step moves the reservations, the live sessions and the history: it
\* books one instance, frees one, rebuilds all, or leaves them alone.
Books(u)  == /\ u \notin Live /\ QuotaGrants(u) /\ (OpenStackMode \/ CapacityGrants(u))
             /\ quotas' = quotas \union {u}
             /\ CapacityReserved(u)
             /\ \/ Live' = Live \union {u} /\ unsettled' = unsettled \ {u}
                \/ Live' = Live /\ unsettled' = unsettled \union {u}

Frees(u)  == /\ quotas' = quotas \ {u}
             /\ \/ CapacityReleased(u)
                \/ capacity' = capacity /\ (OpenStackMode \/ u \notin capacity)
             /\ \/ Live' = Live \ {u} /\ unsettled' = unsettled \ {u}
                \/ Live' = Live /\ unsettled' = unsettled \union ({u} \intersect Live)

Rebuilds  == /\ quotas' = Live /\ capacity' = (IF OpenStackMode THEN {} ELSE Live)
             /\ Live' = Live /\ unsettled' = unsettled \intersect Live

BooksKept == UNCHANGED <<quotas, capacity, unsettled>> /\ Live' = Live

LEMMA BooksAfterStep ==
    ASSUME TypeOK, [Next]_vars
    PROVE  (\E u \in Instances : Books(u) \/ Frees(u)) \/ Rebuilds \/ BooksKept
<1>1. ASSUME NEW u \in Instances, AdmitBuild(u)
      PROVE  Books(u) \/ Frees(u)
    <2>0. u \notin Live
        BY <1>1, LiveAfterOperation
    <2>1. CASE AdmitGranted(u)
        BY <1>1, <2>0, <2>1, LiveAfterOperation DEF AdmitBuild, AdmitGranted, Settled, Books
    <2>2. CASE AdmitRaises(u)
        BY <1>1, <2>0, <2>2, LiveAfterOperation DEF AdmitBuild, AdmitRaises, Books
    <2>3. CASE AdmitNoCapacity(u)
        <3>1. Live' = Live /\ Live \ {u} = Live
            BY <2>0, <2>3, LiveAfterOperation DEF AdmitNoCapacity
        <3>2. OpenStackMode \/ u \notin capacity
            BY <2>3 DEF AdmitNoCapacity, CapacityGrants
        <3> QED BY <2>3, <3>1, <3>2 DEF AdmitNoCapacity, Settled, Frees
    <2> QED BY <1>1, <2>1, <2>2, <2>3 DEF AdmitBuild
<1>2. ASSUME NEW u \in Instances, InstanceActive(u) \/ RefreshSession(u)
      PROVE  BooksKept
    BY <1>2, LiveAfterOperation DEF InstanceActive, RefreshSession, BooksKept
<1>3. ASSUME NEW u \in Instances, ReleasedUnwritten(u)
      PROVE  Frees(u)
    BY <1>3, LiveAfterOperation DEF ReleasedUnwritten, Released, Frees
<1>4. ASSUME NEW u \in Instances, Deleted(u) \/ Aborted(u)
      PROVE  Frees(u)
    BY <1>4, LiveAfterOperation DEF Deleted, Aborted, Released, Settled, Frees
<1>5. ASSUME NEW u \in Instances, DeleteInstance(u)
      PROVE  Frees(u) \/ BooksKept
    <2>1. CASE DeleteAnswered(u)
        BY <1>3, <1>4, <2>1 DEF DeleteAnswered
    <2>2. CASE DeleteRefused(u) \/ DeleteReplyLost(u)
        BY <2>2, LiveAfterOperation DEF DeleteRefused, DeleteReplyLost, BooksKept
    <2> QED BY <1>5, <2>1, <2>2 DEF DeleteInstance
<1>6. ASSUME NEW u \in Instances, AbortBuild(u)
      PROVE  Frees(u)
    BY <1>3, <1>4, <1>6 DEF AbortBuild
<1>7. ASSUME NEW u \in Instances, Operation(u)
      PROVE  Books(u) \/ Frees(u) \/ BooksKept
    BY <1>1, <1>2, <1>5, <1>6, <1>7 DEF Operation
<1>8. CASE Restart
    BY <1>8 DEF Restart, Rebuilds, Live
<1>9. ASSUME NEW u \in Instances, NovaClaim(u) \/ NovaRelease(u)
      PROVE  BooksKept
    BY <1>9 DEF NovaClaim, NovaRelease, BooksKept, Live
<1>10. CASE UNCHANGED vars
    BY <1>10 DEF vars, BooksKept, Live
<1> QED BY <1>7, <1>8, <1>9, <1>10 DEF Next

LEMMA ReservationsStep ==
    ASSUME TypeOK, ReservationsMatchSessions, [Next]_vars
    PROVE  ReservationsMatchSessions'
<1> USE DEF ReservationsMatchSessions
<1>1. ASSUME NEW u \in Instances, Books(u)
      PROVE  ReservationsMatchSessions'
    BY <1>1 DEF Books, CapacityReserved, TypeOK
<1>2. ASSUME NEW u \in Instances, Frees(u)
      PROVE  ReservationsMatchSessions'
    <2>1. \A v \in Instances \ unsettled' : v \in quotas' <=> v \in Live'
        BY <1>2 DEF Frees, TypeOK
    <2>2. ~OpenStackMode => capacity' = quotas'
        BY <1>2 DEF Frees, CapacityReleased
    <2> QED BY <2>1, <2>2
<1>3. CASE Rebuilds
    BY <1>3 DEF Rebuilds
<1>4. CASE BooksKept
    BY <1>4 DEF BooksKept
<1> QED BY <1>1, <1>2, <1>3, <1>4, BooksAfterStep

\* What counts only grows by an instance for which there was room.
LEMMA CountedAfterStep ==
    ASSUME TypeOK, ReservationsMatchSessions, [Next]_vars
    PROVE  \/ Counted' \subseteq Counted
           \/ \E u \in Instances : /\ QuotaGrants(u) /\ (OpenStackMode \/ CapacityGrants(u))
                                   /\ u \in quotas => u \in Counted
                                   /\ Counted' = Counted \union {u}
<1> USE DEF Counted
<1>1. ASSUME NEW u \in Instances, Books(u)
      PROVE  /\ QuotaGrants(u) /\ (OpenStackMode \/ CapacityGrants(u))
             /\ u \in quotas => u \in Counted
             /\ Counted' = Counted \union {u}
    BY <1>1 DEF Books
<1>2. ASSUME NEW u \in Instances, Frees(u)
      PROVE  Counted' \subseteq Counted
    BY <1>2 DEF Frees
<1>3. CASE Rebuilds
    <2>1. Counted' \subseteq Live \ unsettled
        BY <1>3 DEF Rebuilds
    <2> QED BY <2>1 DEF ReservationsMatchSessions, Live
<1>4. CASE BooksKept
    BY <1>4 DEF BooksKept
<1> QED BY <1>1, <1>2, <1>3, <1>4, BooksAfterStep

LEMMA CountedTypes == ASSUME TypeOK PROVE Counted \subseteq quotas /\ quotas \subseteq Instances
BY DEF TypeOK, Counted

LEMMA QuotaInvStep ==
    ASSUME TypeOK, QuotaInv, [Next]_vars
    PROVE  QuotaInv'
<1>1. ReservationsMatchSessions'
    BY ReservationsStep DEF QuotaInv
<1>2. WithinQuota(Counted')
    <2>1. CASE Counted' \subseteq Counted
        BY <2>1, CountedTypes, QuotaOfSubset DEF QuotaInv
    <2>2. ASSUME NEW u \in Instances, QuotaGrants(u), u \in quotas => u \in Counted,
                 Counted' = Counted \union {u}
          PROVE  WithinQuota(Counted')
        <3>1. CASE u \in quotas
            BY <2>2, <3>1, CountedTypes, QuotaOfGrant DEF QuotaInv
        <3>2. CASE Cardinality(SameQuota(quotas, u)) < Limit[QuotaKey(u)]
            <4>1. SameQuota(Counted, u) \subseteq SameQuota(quotas, u)
                BY CountedTypes DEF SameQuota
            <4>2. IsFiniteSet(SameQuota(quotas, u))
                BY InstancesFinite, CountedTypes, FS_Subset DEF SameQuota
            <4>3. /\ Cardinality(SameQuota(Counted, u)) <= Cardinality(SameQuota(quotas, u))
                  /\ Cardinality(SameQuota(Counted, u)) \in Nat
                  /\ Cardinality(SameQuota(quotas, u)) \in Nat
                BY <4>1, <4>2, FS_Subset, FS_CardinalityType
            <4>4. Limit[QuotaKey(u)] \in Nat
                BY DEF QuotaKey
            <4>5. Cardinality(SameQuota(Counted, u)) < Limit[QuotaKey(u)]
                BY <3>2, <4>3, <4>4
            <4> QED BY <2>2, <4>5, CountedTypes, QuotaOfGrant DEF QuotaInv
        <3> QED BY <2>2, <3>1, <3>2 DEF QuotaGrants
    <2> QED BY <2>1, <2>2, CountedAfterStep DEF QuotaInv
<1>3. WithinQuota(Counted)'
    BY <1>2 DEF WithinQuota, SameQuota, QuotaKey
<1> QED BY <1>1, <1>3 DEF QuotaInv

LEMMA NothingReserved == ASSUME Init PROVE QuotaInv /\ CapacityInv
<1>1. Live = {}
    BY DEF Init, Live, NoRecord, LiveStates, Startable, Serving
<1>2. ASSUME NEW u \in Instances
      PROVE  SameQuota({}, u) = {} /\ SameProfile({}, u) = {}
    BY DEF SameQuota, SameProfile
<1>3. Cardinality({}) = 0
    BY FS_EmptySet
<1>4. \A u \in Instances : Limit[QuotaKey(u)] \in Nat /\ Inventory[ProfileOf[u]] \in Nat
    BY DEF QuotaKey
<1>5. WithinQuota({}) /\ WithinInventory({})
    <2>1. ASSUME NEW u \in Instances
          PROVE  Cardinality(SameQuota({}, u)) <= Limit[QuotaKey(u)]
        <3>1. Cardinality(SameQuota({}, u)) = 0
            BY <1>2, <1>3, Zenon
        <3> QED BY <3>1, <1>4
    <2>2. ASSUME NEW u \in Instances
          PROVE  Cardinality(SameProfile({}, u)) <= Inventory[ProfileOf[u]]
        <3>1. Cardinality(SameProfile({}, u)) = 0
            BY <1>2, <1>3, Zenon
        <3> QED BY <3>1, <1>4
    <2> QED BY <2>1, <2>2 DEF WithinQuota, WithinInventory
<1>6. quotas = {} /\ capacity = {} /\ Counted = {}
    BY DEF Init, Counted
<1>7. ReservationsMatchSessions
    BY <1>1, <1>6 DEF ReservationsMatchSessions
<1> QED BY <1>5, <1>6, <1>7 DEF QuotaInv, CapacityInv

\* What is reserved counts, unless it is unsettled.
LEMMA SettledSessionsCount ==
    ASSUME ReservationsMatchSessions
    PROVE  Live \ unsettled \subseteq Counted
BY DEF ReservationsMatchSessions, Counted, Live

LEMMA QuotaInvHolds == Spec => []QuotaInv
<1>1. Init => QuotaInv
    BY NothingReserved
<1>2. TypeOK /\ QuotaInv /\ [Next]_vars => QuotaInv'
    BY QuotaInvStep
<1> QED BY <1>1, <1>2, TypeCorrect, PTL DEF Spec

\* Without the sessions whose delete or abort released them and could not be
\* written, no project ever holds more live sessions of a profile than its quota:
\* not after a refused delete, an aborted build, an admission that raised, or a
\* restart that gives the released ones their reservations back.
THEOREM QuotaNeverExceeded == Spec => []QuotaRespected
<1>1. TypeOK /\ QuotaInv => QuotaRespected
    BY QuotaOfSubset, SettledSessionsCount, CountedTypes DEF QuotaInv, QuotaRespected
<1> QED BY <1>1, QuotaInvHolds, TypeCorrect, PTL

\* The reservations are those of the live sessions but for the unsettled ones,
\* after any history of failures, aborts, lost replies and restarts; and with the
\* in-memory provider quota and capacity are reserved together.
THEOREM ReservationsAreExact == Spec => []ReservationsMatchSessions
<1>1. QuotaInv => ReservationsMatchSessions
    BY DEF QuotaInv
<1> QED BY <1>1, QuotaInvHolds, PTL

LEMMA CapacityInvStep ==
    ASSUME TypeOK, CapacityInv, [Next]_vars
    PROVE  CapacityInv'
<1>1. ReservationsMatchSessions'
    BY ReservationsStep DEF CapacityInv
<1>2. ASSUME ~OpenStackMode
      PROVE  WithinInventory(Counted')
    <2>0. WithinInventory(Counted) /\ capacity = quotas
        BY <1>2 DEF CapacityInv, ReservationsMatchSessions
    <2>1. CASE Counted' \subseteq Counted
        BY <2>0, <2>1, CountedTypes, InventoryOfSubset
    <2>2. ASSUME NEW u \in Instances, CapacityGrants(u), u \in quotas => u \in Counted,
                 Counted' = Counted \union {u}
          PROVE  WithinInventory(Counted')
        <3>1. CASE u \in quotas
            BY <2>0, <2>2, <3>1, CountedTypes, InventoryOfGrant
        <3>2. CASE Cardinality(SameProfile(quotas, u)) < Inventory[ProfileOf[u]]
            <4>1. SameProfile(Counted, u) \subseteq SameProfile(quotas, u)
                BY CountedTypes DEF SameProfile
            <4>2. IsFiniteSet(SameProfile(quotas, u))
                BY InstancesFinite, CountedTypes, FS_Subset DEF SameProfile
            <4>3. /\ Cardinality(SameProfile(Counted, u)) <= Cardinality(SameProfile(quotas, u))
                  /\ Cardinality(SameProfile(Counted, u)) \in Nat
                  /\ Cardinality(SameProfile(quotas, u)) \in Nat
                BY <4>1, <4>2, FS_Subset, FS_CardinalityType
            <4>4. Inventory[ProfileOf[u]] \in Nat
                OBVIOUS
            <4>5. Cardinality(SameProfile(Counted, u)) < Inventory[ProfileOf[u]]
                BY <3>2, <4>3, <4>4
            <4> QED BY <2>0, <2>2, <4>5, CountedTypes, InventoryOfGrant
        <3> QED BY <1>2, <2>0, <2>2, <3>1, <3>2 DEF CapacityGrants
    <2> QED BY <1>2, <2>1, <2>2, CountedAfterStep DEF CapacityInv
<1>3. ~OpenStackMode => WithinInventory(Counted)'
    BY <1>2 DEF WithinInventory, SameProfile
<1> QED BY <1>1, <1>3 DEF CapacityInv

\* With the fake provider the live sessions of a profile, without the same ones,
\* never outnumber its inventory.
THEOREM CapacityNeverExceeded == Spec => []CapacityRespected
<1>1. Init => CapacityInv
    BY NothingReserved
<1>2. TypeOK /\ CapacityInv /\ [Next]_vars => CapacityInv'
    BY CapacityInvStep
<1>3. TypeOK /\ CapacityInv => CapacityRespected
    BY InventoryOfSubset, SettledSessionsCount, CountedTypes DEF CapacityInv, CapacityRespected
<1> QED BY <1>1, <1>2, <1>3, TypeCorrect, PTL DEF Spec

-----------------------------------------------------------------------------
(***************************************************************************)
(* Refinement of the contract                                              *)
(***************************************************************************)

\* The contract counts with its own instance of FiniteSets.
LEMMA CardinalityMapped == ASSUME NEW S PROVE Contract!Cardinality(S) = Cardinality(S)
BY DEF Contract!Cardinality, Cardinality

\* The set of live sessions of the contract is that of the service.
LEMMA LiveMapped == Contract!LiveSessions = Live
BY DEF Contract!LiveSessions, Contract!LiveStates, Contract!Startable, Contract!Serving,
       Live, LiveStates, Startable, Serving

\* An action that moves the row of u alone, within its generation, moves the
\* contract's state of u alone.
LEMMA MoveMapped ==
    ASSUME TypeOK, TypeOK', NEW u \in Instances, NEW From, NEW s,
           sessions[u].state \in From,
           sessions'[u].state = s,
           sessions'[u].generation = sessions[u].generation,
           \A v \in Instances \ {u} : sessions'[v] = sessions[v]
    PROVE  Contract!Move(u, From, s)
<1> DEFINE mapped     == [v \in Instances |-> sessions[v].state]
           generation == [v \in Instances |-> sessions[v].generation]
<1>1. mapped[u] \in From
    OBVIOUS
<1>2. mapped' = [mapped EXCEPT ![u] = s]
    OBVIOUS
<1>3. generation' = generation
    OBVIOUS
<1> QED BY <1>1, <1>2, <1>3 DEF Contract!Move

\* The sessions the contract counts are those that are not unsettled.
LEMMA ReleasedMapped == Contract!LiveSessions \ (unsettled \intersect Live) = Live \ unsettled
BY LiveMapped

\* When the quota provider grants, the sessions themselves leave room: also
\* for a consumer whose reservation was leaked and is not counted again.
LEMMA RoomForAdmission ==
    ASSUME TypeOK, QuotaInv, NEW u \in Instances, u \notin Live, QuotaGrants(u)
    PROVE  Cardinality(SameQuota(Live \ unsettled, u)) < Limit[QuotaKey(u)]
<1> DEFINE L == SameQuota(Live \ unsettled, u)
           C == SameQuota(Counted, u)
           Q == SameQuota(quotas, u)
<1>1. IsFiniteSet(Q) /\ L \subseteq C /\ C \subseteq Q /\ u \notin L
    <2>1. Live \ unsettled \subseteq Counted
        BY SettledSessionsCount DEF QuotaInv
    <2> QED BY <2>1, InstancesFinite, CountedTypes, FS_Subset DEF SameQuota
<1>2. /\ IsFiniteSet(L) /\ IsFiniteSet(C)
      /\ Cardinality(L) \in Nat /\ Cardinality(C) \in Nat /\ Cardinality(Q) \in Nat
    BY <1>1, FS_Subset, FS_CardinalityType
<1>3. Limit[QuotaKey(u)] \in Nat
    BY DEF QuotaKey
<1>4. CASE u \in quotas
    <2>1. L \union {u} \subseteq C
        BY <1>1, <1>4 DEF SameQuota, Counted
    <2>2. Cardinality(L \union {u}) <= Cardinality(C)
        BY <1>2, <2>1, FS_Subset
    <2>3. Cardinality(L \union {u}) = Cardinality(L) + 1
        BY <1>1, <1>2, FS_AddElement
    <2>4. Cardinality(C) <= Limit[QuotaKey(u)]
        BY DEF QuotaInv, WithinQuota
    <2> QED BY <1>2, <1>3, <2>2, <2>3, <2>4
<1>5. CASE u \notin quotas
    <2>1. Cardinality(L) <= Cardinality(Q)
        BY <1>1, FS_Subset
    <2>2. Cardinality(Q) < Limit[QuotaKey(u)]
        BY <1>5 DEF QuotaGrants
    <2> QED BY <1>2, <1>3, <2>1, <2>2
<1> QED BY <1>4, <1>5

LEMMA AdmissionMapped ==
    ASSUME TypeOK, QuotaInv, NEW u \in Instances, AdmitBuild(u), AdmitGranted(u)
    PROVE  Contract!Admit(u)
<1> DEFINE state      == [v \in Instances |-> sessions[v].state]
           generation == [v \in Instances |-> sessions[v].generation]
<1>1. sessions' = [sessions EXCEPT ![u] = ReservedRecord(@.generation)]
    BY DEF AdmitGranted
<1>2. state[u] \in Contract!Admittable
    BY DEF AdmitBuild, Admittable, Contract!Admittable
<1>3. Contract!Cardinality(Contract!SameQuota(Contract!LiveSessions \ (unsettled \intersect Live), u))
          < Limit[Contract!QuotaKey(u)]
    <2>1. u \notin Live
        BY DEF AdmitBuild, Admittable, Live, LiveStates, Startable, Serving
    <2>2. Cardinality(SameQuota(Live \ unsettled, u)) < Limit[QuotaKey(u)]
        BY <2>1, RoomForAdmission DEF AdmitBuild
    <2>3. /\ Contract!QuotaKey(u) = QuotaKey(u)
          /\ Contract!SameQuota(Contract!LiveSessions \ (unsettled \intersect Live), u)
                 = SameQuota(Live \ unsettled, u)
        BY ReleasedMapped DEF Contract!QuotaKey, QuotaKey, Contract!SameQuota, SameQuota
    <2> QED BY <2>2, <2>3, CardinalityMapped
<1>4. state' = [state EXCEPT ![u] = "RESERVED"]
    BY <1>1 DEF TypeOK, ReservedRecord
<1>5. generation' = [generation EXCEPT ![u] = @ + 1]
    BY <1>1 DEF TypeOK, ReservedRecord
<1>6. (unsettled \intersect Live)' = unsettled \intersect Live
    <2>1. u \notin Live /\ Live' = Live \union {u} /\ unsettled' = unsettled \ {u}
        BY LiveAfterOperation DEF AdmitGranted, Settled
    <2> QED BY <2>1
<1> QED BY <1>2, <1>3, <1>4, <1>5, <1>6 DEF Contract!Admit

\* A step that touches no row, and changes the history of no live one, is a
\* stutter of the contract.
LEMMA StutterMapped ==
    ASSUME UNCHANGED sessions, unsettled' \intersect Live = unsettled \intersect Live
    PROVE  UNCHANGED Contract!cvars
<1>1. (unsettled \intersect Live)' = unsettled \intersect Live
    BY DEF Live
<1> QED BY <1>1 DEF Contract!cvars

LEMMA InstanceActiveMapped ==
    ASSUME TypeOK, NEW u \in Instances, InstanceActive(u)
    PROVE  Contract!Start(u)
<1>1. TypeOK'
    BY InstanceActiveTypeOK
<1>2. PICK s \in {"STARTING"} \union Serving :
          /\ sessions'[u].state = s
          /\ sessions'[u].generation = sessions[u].generation
          /\ \A v \in Instances \ {u} : sessions'[v] = sessions[v]
    <2>1. CASE StartAnswered(u)
        <3>1. PICK t \in FreshTokens, s \in Serving :
                  sessions' = [sessions EXCEPT ![u] = [@ EXCEPT !.state = s, !.token = t,
                                                                !.backend = TRUE]]
            BY <2>1 DEF StartAnswered
        <3>2. sessions'[u].state = s /\ sessions'[u].generation = sessions[u].generation
            BY <3>1 DEF TypeOK, Record
        <3> QED BY <3>1, <3>2 DEF TypeOK
    <2>2. CASE KeptStarting(u)
        BY <2>2 DEF KeptStarting, TypeOK, Record
    <2> QED BY <2>1, <2>2 DEF InstanceActive, StartRefused, StartReplyLost, StartUnwritten
<1>3. sessions[u].state \in Contract!Startable
    BY DEF InstanceActive, Startable, Contract!Startable
<1>4. Contract!Move(u, Contract!Startable, s)
    BY <1>1, <1>2, <1>3, MoveMapped
<1>5. s \in {"STARTING"} \union Contract!Serving
    BY DEF Serving, Contract!Serving
<1>6. (unsettled \intersect Live)' = unsettled \intersect Live
    BY LiveAfterOperation DEF InstanceActive
<1> QED BY <1>4, <1>5, <1>6 DEF Contract!Start

LEMMA RefreshSessionMapped ==
    ASSUME TypeOK, NEW u \in Instances, RefreshSession(u)
    PROVE  Contract!Refresh(u)
<1>1. TypeOK'
    BY RefreshSessionTypeOK
<1>2. PICK s \in Serving : sessions' = [sessions EXCEPT ![u].state = s]
    BY DEF RefreshSession
<1>3. Contract!Move(u, {"PENDING_CAPACITY"}, s)
    <2>1. /\ sessions'[u].state = s
          /\ sessions'[u].generation = sessions[u].generation
          /\ \A v \in Instances \ {u} : sessions'[v] = sessions[v]
        BY <1>2 DEF TypeOK, Record
    <2>2. sessions[u].state \in {"PENDING_CAPACITY"}
        BY DEF RefreshSession
    <2> QED BY <1>1, <2>1, <2>2, MoveMapped
<1>4. (unsettled \intersect Live)' = unsettled \intersect Live
    BY LiveAfterOperation DEF RefreshSession
<1> QED BY <1>3, <1>4 DEF Contract!Refresh, Serving, Contract!Serving

LEMMA DeletedMapped ==
    ASSUME TypeOK, NEW u \in Instances, DeleteInstance(u), Deleted(u)
    PROVE  Contract!Delete(u)
<1>1. TypeOK'
    BY DeleteInstanceTypeOK
<1>2. /\ sessions'[u].state = "DELETED"
      /\ sessions'[u].generation = sessions[u].generation
      /\ \A v \in Instances \ {u} : sessions'[v] = sessions[v]
    BY DEF Deleted, TypeOK, Record
<1>3. sessions[u].state \in Contract!LiveStates \union {"FAILED"}
    BY DEF DeleteInstance, Admittable, TypeOK, Record, States, Persisted,
           Contract!LiveStates, Contract!Startable, Contract!Serving
<1>4. (unsettled \intersect Live)' = (unsettled \intersect Live) \ {u}
    BY LiveAfterOperation DEF Deleted, Settled
<1> QED BY <1>1, <1>2, <1>3, <1>4, MoveMapped DEF Contract!Delete, Contract!End

\* Aborting a session that failed already changes nothing the contract sees.
LEMMA AbortedMapped ==
    ASSUME TypeOK, NEW u \in Instances, AbortBuild(u), Aborted(u)
    PROVE  Contract!Abort(u) \/ UNCHANGED Contract!cvars
<1>1. TypeOK'
    BY AbortBuildTypeOK
<1>2. /\ sessions'[u].state = "FAILED"
      /\ sessions'[u].generation = sessions[u].generation
      /\ \A v \in Instances \ {u} : sessions'[v] = sessions[v]
    BY DEF Aborted, TypeOK, Record
<1>3. (unsettled \intersect Live)' = (unsettled \intersect Live) \ {u}
    BY LiveAfterOperation DEF Aborted, Settled
<1>4. CASE sessions[u].state = "FAILED"
    <2>1. \A v \in Instances : /\ sessions'[v].state = sessions[v].state
                               /\ sessions'[v].generation = sessions[v].generation
        BY <1>2, <1>4
    <2>2. u \notin Live
        BY <1>4 DEF Live, LiveStates, Startable, Serving
    <2>3. (unsettled \intersect Live)' = unsettled \intersect Live
        BY <1>3, <2>2
    <2> QED BY <2>1, <2>3 DEF Contract!cvars
<1>5. CASE sessions[u].state # "FAILED"
    <2>1. sessions[u].state \in Contract!LiveStates
        BY <1>5 DEF AbortBuild, Admittable, TypeOK, Record, States, Persisted,
                    Contract!LiveStates, Contract!Startable, Contract!Serving
    <2> QED BY <1>1, <1>2, <1>3, <2>1, MoveMapped DEF Contract!Abort, Contract!End
<1> QED BY <1>4, <1>5

\* An end that could not be written releases the session, if it is live.
LEMMA ReleaseMapped ==
    ASSUME TypeOK, NEW u \in Instances, ReleasedUnwritten(u)
    PROVE  Contract!Release(u) \/ UNCHANGED Contract!cvars
<1>1. /\ UNCHANGED sessions /\ Live' = Live
      /\ unsettled' = unsettled \union ({u} \intersect Live)
    BY LiveAfterOperation DEF ReleasedUnwritten
<1>2. CASE u \in Live
    <2>1. (unsettled \intersect Live)' = (unsettled \intersect Live) \union {u}
        BY <1>1, <1>2
    <2> QED BY <1>1, <1>2, <2>1, LiveMapped DEF Contract!Release
<1>3. CASE u \notin Live
    BY <1>1, <1>3, StutterMapped
<1> QED BY <1>2, <1>3

LEMMA NextMapped ==
    ASSUME TypeOK, QuotaInv, [Next]_vars
    PROVE  [Contract!Next]_Contract!cvars
<1>1. ASSUME NEW u \in Instances, AdmitBuild(u)
      PROVE  Contract!Admit(u) \/ UNCHANGED Contract!cvars
    <2>1. CASE AdmitGranted(u)
        BY <1>1, <2>1, AdmissionMapped
    <2>2. CASE AdmitNoCapacity(u) \/ AdmitRaises(u)
        <3>1. u \notin Live
            BY <1>1, LiveAfterOperation
        <3>2. UNCHANGED sessions /\ unsettled' \intersect Live = unsettled \intersect Live
            BY <2>2, <3>1 DEF AdmitNoCapacity, AdmitRaises, Settled
        <3> QED BY <3>2, StutterMapped
    <2> QED BY <1>1, <2>1, <2>2 DEF AdmitBuild
<1>2. ASSUME NEW u \in Instances, DeleteInstance(u)
      PROVE  Contract!Delete(u) \/ Contract!Release(u) \/ UNCHANGED Contract!cvars
    <2>1. CASE Deleted(u) \/ ReleasedUnwritten(u)
        BY <1>2, <2>1, DeletedMapped, ReleaseMapped
    <2>2. CASE DeleteRefused(u) \/ DeleteReplyLost(u)
        BY <2>2, StutterMapped DEF DeleteRefused, DeleteReplyLost
    <2> QED BY <1>2, <2>1, <2>2 DEF DeleteInstance, DeleteAnswered
<1>3. ASSUME NEW u \in Instances, AbortBuild(u)
      PROVE  Contract!Abort(u) \/ Contract!Release(u) \/ UNCHANGED Contract!cvars
    BY <1>3, AbortedMapped, ReleaseMapped DEF AbortBuild
<1>4. ASSUME NEW u \in Instances, Operation(u)
      PROVE  [Contract!Next]_Contract!cvars
    BY <1>1, <1>2, <1>3, <1>4, InstanceActiveMapped, RefreshSessionMapped
       DEF Operation, Contract!Next
<1>5. ASSUME NEW u \in Instances, NovaClaim(u) \/ NovaRelease(u)
      PROVE  [Contract!Next]_Contract!cvars
    BY <1>5, StutterMapped DEF NovaClaim, NovaRelease
<1>6. CASE Restart \/ UNCHANGED vars
    BY <1>6, StutterMapped DEF Restart, vars
<1> QED BY <1>4, <1>5, <1>6 DEF Next

\* The service, with its reservations, credentials, lost replies, failing writes
\* and restarts, implements the contract of a session.
THEOREM LifecycleImplementsContract == Spec => ImplementsContract
<1>1. Init => Contract!Init
    BY DEF Init, NoRecord, Contract!Init
<1>2. TypeOK /\ QuotaInv /\ [Next]_vars => [Contract!Next]_Contract!cvars
    BY NextMapped
<1> QED BY <1>1, <1>2, QuotaInvHolds, TypeCorrect, PTL
        DEF Spec, ImplementsContract, Contract!Spec

-----------------------------------------------------------------------------
(***************************************************************************)
(* Credentials and the manager.                                            *)
(*                                                                         *)
(* What relates a row to the manager's session of the same instance: a row *)
(* outside the serving and failed states carries no token and no backend   *)
(* session, the manager is never ahead of the row's generation and behind  *)
(* that of a reserved row, and a serving row and the manager agree.        *)
(***************************************************************************)
PairOK(r, m) ==
    /\ r.state \in Admittable \union Startable => r.token = NoToken /\ ~r.backend
    /\ m # NoSession => m.generation <= r.generation
    /\ r.state = "RESERVED" /\ m # NoSession => m.generation < r.generation
    /\ r.state \in Serving /\ m # NoSession
           => m = [credential |-> r.token, generation |-> r.generation]

CredentialInv == \A u \in Instances : PairOK(sessions[u], manager[u])

\* An operation on u leaves the rows and manager sessions of the others alone.
LEMMA OthersUntouched ==
    ASSUME TypeOK, NEW u \in Instances, Operation(u), NEW v \in Instances, v # u
    PROVE  sessions'[v] = sessions[v] /\ manager'[v] = manager[v]
<1>1. CASE AdmitBuild(u)
    BY <1>1 DEF AdmitBuild, AdmitGranted, AdmitNoCapacity, AdmitRaises, TypeOK
<1>2. CASE InstanceActive(u)
    BY <1>2 DEF InstanceActive, StartAnswered, StartRefused, StartReplyLost, StartUnwritten,
                KeptStarting, Upserted, TypeOK
<1>3. CASE RefreshSession(u)
    BY <1>3 DEF RefreshSession, TypeOK
<1>4. CASE DeleteInstance(u)
    BY <1>4 DEF DeleteInstance, DeleteAnswered, DeleteRefused, DeleteReplyLost, Deleted,
                ReleasedUnwritten, TypeOK
<1>5. CASE AbortBuild(u)
    BY <1>5 DEF AbortBuild, Aborted, ReleasedUnwritten, TypeOK
<1> QED BY <1>1, <1>2, <1>3, <1>4, <1>5 DEF Operation

LEMMA PairAfterAdmitBuild ==
    ASSUME TypeOK, NEW u \in Instances, PairOK(sessions[u], manager[u]), AdmitBuild(u)
    PROVE  PairOK(sessions'[u], manager'[u])
<1>1. CASE AdmitGranted(u)
    <2>1. sessions'[u] = ReservedRecord(sessions[u].generation) /\ manager' = manager
        BY <1>1 DEF AdmitGranted, TypeOK
    <2>2. sessions[u].generation \in Nat
        BY DEF TypeOK, Record
    <2>3. manager[u] # NoSession => manager[u].generation \in Nat
        BY DEF TypeOK, ManagerSession
    <2>4. sessions[u].state \in Admittable
        BY DEF AdmitBuild
    <2> QED BY <2>1, <2>2, <2>3, <2>4 DEF PairOK, ReservedRecord, Admittable, Startable, Serving
<1>2. CASE ~AdmitGranted(u)
    BY <1>2 DEF AdmitBuild, AdmitNoCapacity, AdmitRaises
<1> QED BY <1>1, <1>2

LEMMA PairAfterInstanceActive ==
    ASSUME TypeOK, NEW u \in Instances, PairOK(sessions[u], manager[u]), InstanceActive(u)
    PROVE  PairOK(sessions'[u], manager'[u])
<1> USE DEF Admittable, Startable, Serving
<1>0. sessions[u].generation \in Nat /\ sessions[u].state \in Startable
    BY DEF TypeOK, Record, InstanceActive
<1>1. CASE StartAnswered(u)
    <2>1. PICK t \in FreshTokens, s \in Serving :
              /\ sessions' = [sessions EXCEPT ![u] = [@ EXCEPT !.state = s, !.token = t,
                                                              !.backend = TRUE]]
              /\ manager'  = Upserted(u, t)
        BY <1>1 DEF StartAnswered
    <2>2. /\ sessions'[u].state = s
          /\ sessions'[u].token = t
          /\ sessions'[u].generation = sessions[u].generation
          /\ sessions'[u].backend = TRUE
        BY <2>1 DEF TypeOK, Record
    <2>3. manager'[u] = [credential |-> t, generation |-> sessions[u].generation]
        BY <2>1 DEF Upserted, TypeOK
    <2> QED BY <1>0, <2>2, <2>3 DEF PairOK
<1>2. CASE KeptStarting(u)
    <2>1. /\ sessions'[u].state = "STARTING"
          /\ sessions'[u].token = NoToken
          /\ sessions'[u].generation = sessions[u].generation
          /\ sessions'[u].backend = sessions[u].backend
        BY <1>2 DEF KeptStarting, TypeOK, Record
    <2>2. CASE StartRefused(u)
        BY <1>0, <2>1, <2>2 DEF StartRefused, PairOK
    <2>3. CASE StartReplyLost(u) \/ StartUnwritten(u)
        <3>1. PICK t \in FreshTokens : manager' = Upserted(u, t)
            BY <2>3 DEF StartReplyLost, StartUnwritten
        <3>2. manager'[u] = [credential |-> t, generation |-> sessions[u].generation]
            BY <3>1 DEF Upserted, TypeOK
        <3> QED BY <1>0, <2>1, <3>2 DEF PairOK
    <2>4. CASE StartAnswered(u)
        BY <2>4, <1>1
    <2> QED BY <2>2, <2>3, <2>4 DEF InstanceActive
<1> QED BY <1>1, <1>2 DEF InstanceActive, StartRefused, StartReplyLost, StartUnwritten

LEMMA PairAfterRefreshSession ==
    ASSUME TypeOK, NEW u \in Instances, PairOK(sessions[u], manager[u]), RefreshSession(u)
    PROVE  PairOK(sessions'[u], manager'[u])
<1>1. PICK s \in Serving : sessions' = [sessions EXCEPT ![u].state = s]
    BY DEF RefreshSession
<1>2. /\ sessions'[u].state = s
      /\ sessions'[u].token = sessions[u].token
      /\ sessions'[u].generation = sessions[u].generation
      /\ sessions'[u].backend = sessions[u].backend
    BY <1>1 DEF TypeOK, Record
<1>3. sessions[u].state \in Serving /\ manager' = manager
    BY DEF RefreshSession, Serving
<1> QED BY <1>2, <1>3 DEF PairOK, Admittable, Startable, Serving

LEMMA PairAfterDeleteInstance ==
    ASSUME TypeOK, NEW u \in Instances, PairOK(sessions[u], manager[u]), DeleteInstance(u)
    PROVE  PairOK(sessions'[u], manager'[u])
<1>1. CASE Deleted(u) /\ DeleteAnswered(u)
    <2>1. /\ sessions'[u].state = "DELETED"
          /\ sessions'[u].token = NoToken
          /\ sessions'[u].generation = sessions[u].generation
          /\ ~sessions'[u].backend
        BY <1>1 DEF Deleted, TypeOK, Record
    <2>2. manager'[u] = IF sessions[u].backend THEN NoSession ELSE manager[u]
        BY <1>1 DEF DeleteAnswered, TypeOK
    <2> QED BY <2>1, <2>2 DEF PairOK, Admittable, Startable, Serving
<1>2. CASE sessions' = sessions /\ manager'[u] \in {manager[u], NoSession}
    BY <1>2 DEF PairOK
<1>3. CASE ReleasedUnwritten(u) /\ DeleteAnswered(u)
    BY <1>2, <1>3 DEF ReleasedUnwritten, DeleteAnswered, TypeOK
<1>4. CASE DeleteRefused(u) \/ DeleteReplyLost(u)
    BY <1>2, <1>4 DEF DeleteRefused, DeleteReplyLost, TypeOK
<1> QED BY <1>1, <1>3, <1>4 DEF DeleteInstance, DeleteAnswered

LEMMA PairAfterAbortBuild ==
    ASSUME TypeOK, NEW u \in Instances, PairOK(sessions[u], manager[u]), AbortBuild(u)
    PROVE  PairOK(sessions'[u], manager'[u])
<1>1. CASE Aborted(u)
    <2>1. /\ sessions'[u].state = "FAILED"
          /\ sessions'[u].token = sessions[u].token
          /\ sessions'[u].generation = sessions[u].generation
          /\ sessions'[u].backend = sessions[u].backend
          /\ manager' = manager
        BY <1>1 DEF AbortBuild, Aborted, TypeOK, Record
    <2> QED BY <2>1 DEF PairOK, Admittable, Startable, Serving
<1>2. CASE ReleasedUnwritten(u)
    BY <1>2 DEF AbortBuild, ReleasedUnwritten
<1> QED BY <1>1, <1>2 DEF AbortBuild

LEMMA CredentialInvStep ==
    ASSUME TypeOK, CredentialInv, [Next]_vars
    PROVE  CredentialInv'
<1>1. ASSUME NEW u \in Instances, Operation(u)
      PROVE  CredentialInv'
    <2>1. ASSUME NEW v \in Instances, v # u
          PROVE  PairOK(sessions'[v], manager'[v])
        BY <1>1, <2>1, OthersUntouched DEF CredentialInv
    <2>2. PairOK(sessions'[u], manager'[u])
        BY <1>1, PairAfterAdmitBuild, PairAfterInstanceActive, PairAfterRefreshSession,
           PairAfterDeleteInstance, PairAfterAbortBuild DEF Operation, CredentialInv
    <2> QED BY <2>1, <2>2 DEF CredentialInv
<1>2. ASSUME sessions' = sessions, manager' = manager
      PROVE  CredentialInv'
    BY <1>2 DEF CredentialInv
<1>3. ASSUME NEW u \in Instances, NovaClaim(u) \/ NovaRelease(u)
      PROVE  CredentialInv'
    BY <1>2, <1>3 DEF NovaClaim, NovaRelease
<1>4. CASE Restart \/ UNCHANGED vars
    BY <1>2, <1>4 DEF Restart, vars
<1> QED BY <1>1, <1>3, <1>4 DEF Next

LEMMA CredentialInvHolds == Spec => []CredentialInv
<1>1. Init => CredentialInv
    BY DEF Init, CredentialInv, PairOK, NoRecord, Admittable, Startable, Serving
<1>2. TypeOK /\ CredentialInv /\ [Next]_vars => CredentialInv'
    BY CredentialInvStep
<1> QED BY <1>1, <1>2, TypeCorrect, PTL DEF Spec

\* A session that serves is known to the manager, if at all, under the very
\* token and generation it serves, across retries and lost replies.
THEOREM CredentialsAgree == Spec => []CredentialAgreement
<1>1. CredentialInv => CredentialAgreement
    BY DEF CredentialInv, PairOK, CredentialAgreement
<1> QED BY <1>1, CredentialInvHolds, PTL

\* Whatever an earlier life of an instance left at the manager is older than a
\* new reservation of it.
THEOREM LeftoversAreOlder == Spec => []LeftoverIsOlder
<1>1. CredentialInv => LeftoverIsOlder
    BY DEF CredentialInv, PairOK, LeftoverIsOlder
<1> QED BY <1>1, CredentialInvHolds, PTL

\* Whatever is lost or raises, a session of the manager comes to be unknown to
\* its row only while that row is STARTING: only a start leaves one behind, and
\* nothing drops the record of one before the manager has dropped the session.
THEOREM RecordedUntilDropped == Spec => ManagerSessionsRecorded
<1> DEFINE Kept == \A u \in Instances :
                       Unrecorded(u)' => Unrecorded(u) \/ sessions'[u].state = "STARTING"
<1>1. ASSUME TypeOK, CredentialInv, [Next]_vars
      PROVE  Kept
    <2>1. ASSUME NEW u \in Instances, Operation(u)
          PROVE  Kept
        <3>1. ASSUME NEW v \in Instances, v # u
              PROVE  sessions'[v] = sessions[v] /\ manager'[v] = manager[v]
            BY <1>1, <2>1, <3>1, OthersUntouched
        <3>2. Unrecorded(u)' => Unrecorded(u) \/ sessions'[u].state = "STARTING"
            <4>1. CASE AdmitBuild(u)
                <5>1. PairOK(sessions[u], manager[u]) /\ sessions[u].state \in Admittable
                    BY <1>1, <4>1 DEF CredentialInv, AdmitBuild
                <5>2. ~sessions[u].backend /\ manager' = manager
                    BY <4>1, <5>1 DEF PairOK, AdmitBuild, AdmitGranted, AdmitNoCapacity, AdmitRaises
                <5> QED BY <5>2 DEF Unrecorded
            <4>2. CASE InstanceActive(u)
                <5>1. CASE StartAnswered(u)
                    <6>1. sessions'[u].backend = TRUE
                        BY <1>1, <5>1 DEF StartAnswered, TypeOK, Record
                    <6> QED BY <6>1 DEF Unrecorded
                <5>2. CASE KeptStarting(u)
                    <6>1. sessions'[u].state = "STARTING"
                        BY <1>1, <5>2 DEF KeptStarting, TypeOK, Record
                    <6> QED BY <6>1
                <5> QED BY <4>2, <5>1, <5>2
                        DEF InstanceActive, StartRefused, StartReplyLost, StartUnwritten
            <4>3. CASE RefreshSession(u)
                <5>1. sessions'[u].backend = sessions[u].backend /\ manager' = manager
                    BY <1>1, <4>3 DEF RefreshSession, TypeOK, Record
                <5> QED BY <5>1 DEF Unrecorded
            <4>4. CASE DeleteInstance(u)
                <5>1. CASE Deleted(u) /\ DeleteAnswered(u)
                    <6>1. manager'[u] = IF sessions[u].backend THEN NoSession ELSE manager[u]
                        BY <1>1, <5>1 DEF DeleteAnswered, TypeOK
                    <6> QED BY <6>1 DEF Unrecorded
                <5>2. CASE sessions' = sessions /\ manager'[u] \in {manager[u], NoSession}
                    BY <5>2 DEF Unrecorded
                <5>3. CASE ReleasedUnwritten(u) /\ DeleteAnswered(u)
                    BY <1>1, <5>2, <5>3 DEF ReleasedUnwritten, DeleteAnswered, TypeOK
                <5>4. CASE DeleteRefused(u) \/ DeleteReplyLost(u)
                    BY <1>1, <5>2, <5>4 DEF DeleteRefused, DeleteReplyLost, TypeOK
                <5> QED BY <4>4, <5>1, <5>3, <5>4 DEF DeleteInstance, DeleteAnswered
            <4>5. CASE AbortBuild(u)
                <5>1. sessions'[u].backend = sessions[u].backend /\ manager' = manager
                    BY <1>1, <4>5 DEF AbortBuild, Aborted, ReleasedUnwritten, TypeOK, Record
                <5> QED BY <5>1 DEF Unrecorded
            <4> QED BY <2>1, <4>1, <4>2, <4>3, <4>4, <4>5 DEF Operation
        <3> QED BY <3>1, <3>2 DEF Unrecorded
    <2>2. ASSUME sessions' = sessions, manager' = manager
          PROVE  Kept
        BY <2>2 DEF Unrecorded
    <2> QED BY <1>1, <2>1, <2>2 DEF Next, NovaClaim, NovaRelease, Restart, vars
<1>2. TypeOK /\ CredentialInv /\ [Next]_vars => [Kept]_vars
    BY <1>1
<1> QED BY <1>2, TypeCorrect, CredentialInvHolds, PTL DEF Spec, ManagerSessionsRecorded

\* While a session goes on serving, it serves the same token: only
\* instance_active writes a token, and only to a row that does not serve.
THEOREM ServedTokenStable == Spec => TokenStable
<1> DEFINE Stable == \A u \in Instances :
                         sessions[u].state \in Serving /\ sessions'[u].state \in Serving
                             => sessions'[u].token = sessions[u].token
<1>1. ASSUME TypeOK, [Next]_vars
      PROVE  Stable
    <2>1. ASSUME NEW u \in Instances, Operation(u)
          PROVE  Stable
        <3>1. ASSUME NEW v \in Instances, v # u
              PROVE  sessions'[v] = sessions[v]
            BY <1>1, <2>1, <3>1, OthersUntouched
        <3>2. sessions[u].state \in Serving /\ sessions'[u].state \in Serving
                  => sessions'[u].token = sessions[u].token
            <4>1. CASE AdmitBuild(u)
                BY <4>1 DEF AdmitBuild, Admittable, Serving
            <4>2. CASE InstanceActive(u)
                BY <4>2 DEF InstanceActive, Startable, Serving
            <4>3. CASE RefreshSession(u)
                BY <4>3 DEF RefreshSession, TypeOK, Record
            <4>4. CASE DeleteInstance(u)
                <5>1. CASE Deleted(u)
                    BY <5>1 DEF Deleted, Serving, TypeOK, Record
                <5>2. CASE sessions' = sessions
                    BY <5>2
                <5> QED BY <4>4, <5>1, <5>2 DEF DeleteInstance, DeleteAnswered, ReleasedUnwritten,
                                                DeleteRefused, DeleteReplyLost
            <4>5. CASE AbortBuild(u)
                <5>1. CASE Aborted(u)
                    <6>1. sessions'[u].state = "FAILED"
                        BY <1>1, <5>1 DEF Aborted, TypeOK, Record
                    <6> QED BY <6>1 DEF Serving
                <5>2. CASE sessions' = sessions
                    BY <5>2
                <5> QED BY <4>5, <5>1, <5>2 DEF AbortBuild, ReleasedUnwritten
            <4> QED BY <2>1, <4>1, <4>2, <4>3, <4>4, <4>5 DEF Operation
        <3> QED BY <3>1, <3>2
    <2>2. ASSUME sessions' = sessions
          PROVE  Stable
        <3>1. \A u \in Instances : sessions'[u].token = sessions[u].token
            BY <2>2
        <3> QED BY <3>1
    <2> QED BY <1>1, <2>1, <2>2 DEF Next, NovaClaim, NovaRelease, Restart, vars
<1>2. TypeOK /\ [Next]_vars => [Stable]_vars
    BY <1>1
<1> QED BY <1>2, TypeCorrect, PTL DEF Spec, TokenStable

-----------------------------------------------------------------------------
(***************************************************************************)
(* Valid credentials                                                       *)
(***************************************************************************)
\* What an operation on u makes active, or leaves active without its row, was so
\* before or is the token of the row; the start whose last write raises excepted.
LEMMA ActiveAfterOperation ==
    ASSUME TypeOK, NEW u \in Instances, PairOK(sessions[u], manager[u]), Operation(u),
           ~(InstanceActive(u) /\ StartUnwritten(u))
    PROVE  active' \ {sessions'[u].token} \subseteq active \ {sessions[u].token}
<1>0. NoToken \notin active
    BY TokenTypes DEF TypeOK
<1>1. CASE AdmitBuild(u)
    <2>1. sessions[u].token = NoToken
        BY <1>1 DEF AdmitBuild, PairOK
    <2> QED BY <1>0, <1>1, <2>1 DEF AdmitBuild, AdmitGranted, AdmitNoCapacity, AdmitRaises
<1>2. CASE InstanceActive(u)
    <2>1. sessions[u].token = NoToken
        BY <1>2 DEF InstanceActive, PairOK
    <2>2. CASE StartAnswered(u)
        <3>1. PICK t \in FreshTokens, s \in Serving :
                  /\ sessions' = [sessions EXCEPT ![u] = [@ EXCEPT !.state = s, !.token = t,
                                                                  !.backend = TRUE]]
                  /\ active'   = active \union {t}
            BY <2>2 DEF StartAnswered
        <3>2. sessions'[u].token = t
            BY <3>1 DEF TypeOK, Record
        <3> QED BY <1>0, <2>1, <3>1, <3>2
    <2>3. CASE active' = active
        BY <1>0, <2>1, <2>3
    <2> QED BY <1>2, <2>2, <2>3 DEF InstanceActive, StartRefused, StartReplyLost
<1>3. CASE RefreshSession(u)
    <2>1. sessions'[u].token = sessions[u].token /\ active' = active
        BY <1>3 DEF RefreshSession, TypeOK, Record
    <2> QED BY <2>1
<1>4. CASE DeleteInstance(u)
    BY <1>4 DEF DeleteInstance
<1>5. CASE AbortBuild(u)
    <2>1. sessions'[u].token = sessions[u].token /\ active' = active
        BY <1>5 DEF AbortBuild, Aborted, ReleasedUnwritten, TypeOK, Record
    <2> QED BY <2>1
<1> QED BY <1>1, <1>2, <1>3, <1>4, <1>5 DEF Operation

\* A valid token that no row records is left behind by one step only, the start
\* whose last write raises, and it is then the credential that the manager has
\* for a session which is still to be started.
THEOREM OnlyAnsweredTokensForgotten == Spec => NoForgottenCredential
<1> DEFINE Remembered == \A t \in active' \ Recorded' : t \in active \ Recorded \/ HeldForStart(t)'
<1>1. ASSUME TypeOK, CredentialInv, [Next]_vars
      PROVE  Remembered
    <2>1. ASSUME NEW u \in Instances, Operation(u), ~(InstanceActive(u) /\ StartUnwritten(u)),
                 NEW t \in active' \ Recorded'
          PROVE  t \in active \ Recorded
        <3>1. t \in active /\ t # sessions[u].token
            <4>1. t # sessions'[u].token
                BY <2>1 DEF Recorded
            <4> QED BY <1>1, <2>1, <4>1, ActiveAfterOperation DEF CredentialInv
        <3>2. ASSUME NEW v \in Instances, t = sessions[v].token
              PROVE  FALSE
            <4>1. sessions'[v] = sessions[v]
                BY <1>1, <2>1, <3>1, <3>2, OthersUntouched
            <4> QED BY <2>1, <3>2, <4>1 DEF Recorded
        <3> QED BY <3>1, <3>2 DEF Recorded
    <2>2. ASSUME NEW u \in Instances, InstanceActive(u), StartUnwritten(u),
                 NEW t \in active' \ Recorded'
          PROVE  t \in active \ Recorded \/ HeldForStart(t)'
        <3>1. PICK n \in FreshTokens : active' = active \union {n} /\ manager' = Upserted(u, n)
            BY <2>2 DEF StartUnwritten
        <3>2. sessions'[u].state = "STARTING" /\ sessions'[u].token = NoToken
            BY <1>1, <2>2 DEF StartUnwritten, KeptStarting, TypeOK, Record
        <3>3. CASE t = n
            <4>1. manager'[u] = [credential |-> n, generation |-> sessions[u].generation]
                BY <1>1, <3>1 DEF Upserted, TypeOK
            <4>2. n \in Tokens /\ sessions[u].generation \in Nat
                BY <1>1 DEF FreshTokens, TypeOK, Record
            <4>3. manager'[u] # NoSession /\ manager'[u].credential = t
                BY <3>3, <4>1, <4>2, TokenTypes
            <4> QED BY <3>2, <4>3 DEF HeldForStart
        <3>4. CASE t # n
            <4>1. t \in active
                BY <2>2, <3>1, <3>4
            <4>2. ASSUME NEW v \in Instances, t = sessions[v].token
                  PROVE  FALSE
                <5>1. CASE v = u
                    <6>1. sessions[u].token = NoToken
                        BY <1>1, <2>2 DEF CredentialInv, PairOK, InstanceActive
                    <6> QED BY <1>1, <4>1, <4>2, <5>1, <6>1, TokenTypes DEF TypeOK
                <5>2. CASE v # u
                    <6>1. sessions'[v] = sessions[v]
                        BY <1>1, <2>2, <5>2, OthersUntouched DEF Operation
                    <6> QED BY <2>2, <4>2, <6>1 DEF Recorded
                <5> QED BY <5>1, <5>2
            <4> QED BY <4>1, <4>2 DEF Recorded
        <3> QED BY <3>3, <3>4
    <2>3. ASSUME NEW u \in Instances, Operation(u)
          PROVE  Remembered
        BY <2>1, <2>2, <2>3
    <2>4. ASSUME NEW u \in Instances, NovaClaim(u) \/ NovaRelease(u)
          PROVE  Remembered
        BY <2>4 DEF NovaClaim, NovaRelease, Recorded
    <2>5. CASE Restart
        BY <2>5 DEF Restart, Recorded, Live
    <2>6. CASE UNCHANGED vars
        BY <2>6 DEF vars, Recorded
    <2> QED BY <1>1, <2>3, <2>4, <2>5, <2>6 DEF Next
<1>2. TypeOK /\ CredentialInv /\ [Next]_vars => [Remembered]_vars
    BY <1>1
<1> QED BY <1>2, TypeCorrect, CredentialInvHolds, PTL DEF Spec, NoForgottenCredential
=============================================================================
