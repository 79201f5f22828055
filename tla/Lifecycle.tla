----------------------------- MODULE Lifecycle -----------------------------
(***************************************************************************)
(* FlytLifecycleService of one adapter process (service.py) over the       *)
(* persisted records (storage.py), with its quota and capacity providers   *)
(* and its credential issuer (fakes.py, openstack.py), the Cluster Manager *)
(* it commands (flyt.py), and the restart of the process (http.py).        *)
(*                                                                         *)
(* Every operation holds the service's lock from beginning to end, so one  *)
(* operation is one action, with one disjunct per outcome.  The write of a *)
(* row may raise in any of them, which undoes nothing that came before it. *)
(* A crash inside an operation leaves what one of its outcomes leaves,     *)
(* followed by Restart, so it needs no action of its own.                  *)
(*                                                                         *)
(* A call that changes nothing (an ineligible request, an exceeded quota,  *)
(* instance_active of a READY session, a refresh that raises, a first      *)
(* write that raises, a read) is a stutter.                                *)
(***************************************************************************)
EXTENDS FlytModel

CONSTANTS
    OpenStackMode,  \* Placement holds the allocations, not FakeCapacityProvider
    HasRefresh      \* the backend has refresh_session (GpuCellFlytBackend)

ASSUME ModeTypes == {OpenStackMode, HasRefresh} \subseteq BOOLEAN

VARIABLES
    sessions,    \* the rows of flyt_sessions: [Instances -> Record]
    quotas,      \* FakeQuotaProvider.reservations: instances holding quota
    capacity,    \* FakeCapacityProvider.reservations: instances holding capacity
    placement,   \* instances with an allocation in Placement, owned by Nova
    active,      \* FakeCredentialIssuer.active: tokens not revoked
    manager,     \* sessions of the Cluster Manager, by workload id
    unsettled    \* history: instances whose reservations an operation changed
                 \* before it raised without having written their row

vars == <<sessions, quotas, capacity, placement, active, manager, unsettled>>

TypeOK == /\ sessions  \in [Instances -> Record]
          /\ quotas    \subseteq Instances
          /\ capacity  \subseteq Instances
          /\ placement \subseteq Instances
          /\ active    \subseteq Tokens
          /\ manager   \in [Instances -> ManagerSession \union {NoSession}]
          /\ unsettled \subseteq Instances

Init == /\ sessions  = [u \in Instances |-> NoRecord]
        /\ quotas    = {}
        /\ capacity  = {}
        /\ placement = {}
        /\ active    = {}
        /\ manager   = [u \in Instances |-> NoSession]
        /\ unsettled = {}

-----------------------------------------------------------------------------
Live == {u \in Instances : sessions[u].state \in LiveStates}

InCirculation == active \union {sessions[u].token : u \in Instances}
                 \union {manager[u].credential : u \in {v \in Instances : manager[v] # NoSession}}

\* secrets.token_urlsafe never draws a token that is still known anywhere.
FreshTokens == Tokens \ InCirculation

\* FakeQuotaProvider.reserve: a consumer that holds quota keeps it unchecked.
QuotaGrants(u) == \/ u \in quotas
                  \/ Cardinality(SameQuota(quotas, u)) < Limit[QuotaKey(u)]

\* Mutant: the last free unit is given twice.
CapacityOffByOne(u) == IF OpenStackMode
                       THEN u \in placement
                       ELSE \/ u \in capacity
                            \/ Cardinality(SameProfile(capacity, u)) <= Inventory[ProfileOf[u]]

\* FakeCapacityProvider.reserve, and PlacementCapacityProvider.reserve, which
\* only reads the allocation Nova's scheduler made.
CapacityGrants(u) == IF OpenStackMode
                     THEN u \in placement
                     ELSE \/ u \in capacity
                          \/ Cardinality(SameProfile(capacity, u)) < Inventory[ProfileOf[u]]

\* The fake provider books and frees; the Placement provider does neither.
CapacityReserved(u) == capacity' = IF OpenStackMode THEN capacity ELSE capacity \union {u}
CapacityReleased(u) == capacity' = IF OpenStackMode THEN capacity ELSE capacity \ {u}

\* The row of u is written, after its reservations were changed to match it.
Settled(u) == unsettled' = unsettled \ {u}

-----------------------------------------------------------------------------
(***************************************************************************)
(* admit_build                                                             *)
(***************************************************************************)
AdmitGranted(u) ==
    /\ CapacityGrants(u)
    /\ quotas' = quotas \union {u}
    /\ CapacityReserved(u)
    /\ sessions' = [sessions EXCEPT ![u] = ReservedRecord(@.generation)]
    /\ Settled(u)
    /\ UNCHANGED <<placement, active, manager>>

\* NoCapacityError, which the Placement provider also raises for an error of
\* its own request: the quota is given back, also one an earlier call leaked.
AdmitNoCapacity(u) ==
    /\ OpenStackMode \/ ~CapacityGrants(u)
    /\ quotas' = quotas \ {u}
    /\ Settled(u)
    /\ UNCHANGED <<sessions, capacity, placement, active, manager>>

\* The write of the row raises, or a malformed Placement response raises
\* OpenStackError, which no handler of admit_build catches: what was reserved
\* stays reserved without a session.
AdmitRaises(u) ==
    /\ OpenStackMode \/ CapacityGrants(u)
    /\ quotas' = quotas \union {u}
    /\ CapacityReserved(u)
    /\ unsettled' = unsettled \union {u}
    /\ UNCHANGED <<sessions, placement, active, manager>>

AdmitBuild(u) ==
    /\ sessions[u].state \in Admittable
    /\ sessions[u].generation < MaxGeneration
    /\ QuotaGrants(u)
    /\ AdmitGranted(u) \/ AdmitNoCapacity(u) \/ AdmitRaises(u)

-----------------------------------------------------------------------------
(***************************************************************************)
(* instance_active                                                         *)
(***************************************************************************)
Upserted(u, t) == [manager EXCEPT ![u] =
                     [credential |-> t, generation |-> sessions[u].generation]]

\* Mutant: the row keeps a token issued anew after the manager answered.
StartReissued(u) ==
    \E t \in FreshTokens, s \in Serving : \E n \in FreshTokens \ {t} :
        /\ sessions' = [sessions EXCEPT ![u] = [@ EXCEPT !.state = s, !.token = n, !.backend = TRUE]]
        /\ active'   = active \union {n}
        /\ manager'  = Upserted(u, t)

\* The manager answers; PENDING_CAPACITY is its answer or that of a GPU Cell
\* which is not ready.
StartAnswered(u) ==
    \E t \in FreshTokens, s \in Serving :
        /\ sessions' = [sessions EXCEPT ![u] = [@ EXCEPT !.state = s, !.token = t, !.backend = TRUE]]
        /\ active'   = active \union {t}
        /\ manager'  = Upserted(u, t)

\* STARTING was persisted before the token was issued.
KeptStarting(u) == sessions' = [sessions EXCEPT ![u] = [@ EXCEPT !.state = "STARTING", !.token = NoToken]]

\* Mutant: the handler forgets to revoke the token it issued.
StartUnrevoked(u) ==
    /\ KeptStarting(u)
    /\ \E t \in FreshTokens : active' = active \union {t}
    /\ UNCHANGED manager

\* The handler revokes the token and keeps STARTING.
StartRefused(u) == KeptStarting(u) /\ UNCHANGED <<active, manager>>

\* The five second timeout, a broken connection or a crash after the manager
\* stored the session.
StartReplyLost(u) == /\ KeptStarting(u)
                     /\ \E t \in FreshTokens : manager' = Upserted(u, t)
                     /\ UNCHANGED active

\* The manager answers and the last write, which is behind the handler, raises:
\* nobody revokes the token, and the row knows neither it nor the session.
StartUnwritten(u) ==
    /\ KeptStarting(u)
    /\ \E t \in FreshTokens : active' = active \union {t} /\ manager' = Upserted(u, t)

\* Mutant: the early return of a READY session is gone.
ActivateAgain(u) ==
    /\ sessions[u].state \in Startable \union {"READY"}
    /\ StartAnswered(u) \/ StartRefused(u) \/ StartReplyLost(u) \/ StartUnwritten(u)
    /\ UNCHANGED <<quotas, capacity, placement, unsettled>>

InstanceActive(u) ==
    /\ sessions[u].state \in Startable
    /\ StartAnswered(u) \/ StartRefused(u) \/ StartReplyLost(u) \/ StartUnwritten(u)
    /\ UNCHANGED <<quotas, capacity, placement, unsettled>>

\* The PENDING_CAPACITY branch: only the state of the GPU Cell is asked.
RefreshSession(u) ==
    /\ HasRefresh
    /\ sessions[u].state = "PENDING_CAPACITY"
    /\ \E s \in Serving : sessions' = [sessions EXCEPT ![u].state = s]
    /\ UNCHANGED <<quotas, capacity, placement, active, manager, unsettled>>

-----------------------------------------------------------------------------
(***************************************************************************)
(* delete_instance                                                         *)
(***************************************************************************)
\* The reservations go before the row is written.
Released(u) == quotas' = quotas \ {u} /\ CapacityReleased(u)

\* The write raises: the row of u stays as it was, and a live one without its
\* reservations.
ReleasedUnwritten(u) ==
    /\ Released(u)
    /\ unsettled' = unsettled \union ({u} \intersect Live)
    /\ UNCHANGED sessions

Deleted(u) ==
    /\ Released(u)
    /\ Settled(u)
    /\ sessions' = [sessions EXCEPT ![u] = [@ EXCEPT !.state = "DELETED", !.token = NoToken,
                                                    !.backend = FALSE]]

\* The backend is asked only if create_session answered for this record.
DeleteAnswered(u) ==
    /\ Deleted(u) \/ ReleasedUnwritten(u)
    /\ manager' = IF sessions[u].backend THEN [manager EXCEPT ![u] = NoSession] ELSE manager

\* Mutant: the transition to DRAINING is written before the backend is asked.
DeletePersistsDraining(u) ==
    /\ sessions[u].backend
    /\ sessions' = [sessions EXCEPT ![u].state = "DRAINING"]
    /\ UNCHANGED <<quotas, capacity, manager, unsettled>>

\* Mutant: what delete_session raises is swallowed.
DeleteSwallows(u) ==
    /\ sessions[u].backend
    /\ Deleted(u)
    /\ UNCHANGED manager

\* delete_session raises after the token was revoked and before anything was
\* written: the row keeps its state and the revoked token.
DeleteRefused(u) ==
    /\ sessions[u].backend
    /\ UNCHANGED <<quotas, capacity, sessions, manager, unsettled>>

\* The answer is lost, or the process is killed after it.
DeleteReplyLost(u) ==
    /\ sessions[u].backend
    /\ manager' = [manager EXCEPT ![u] = NoSession]
    /\ UNCHANGED <<quotas, capacity, sessions, unsettled>>

DeleteInstance(u) ==
    /\ sessions[u].state \notin Admittable
    /\ active' = active \ {sessions[u].token}
    /\ DeleteAnswered(u) \/ DeleteRefused(u) \/ DeleteReplyLost(u)
    /\ UNCHANGED placement

-----------------------------------------------------------------------------
\* Mutant: abort_build frees the capacity and forgets the quota.
AbortKeepsQuota(u) ==
    /\ sessions' = [sessions EXCEPT ![u].state = "FAILED"]
    /\ CapacityReleased(u)
    /\ Settled(u)
    /\ UNCHANGED quotas

Aborted(u) ==
    /\ sessions' = [sessions EXCEPT ![u].state = "FAILED"]
    /\ Released(u)
    /\ Settled(u)

\* Mutant: a late create.error also fails a session that is deleted.
AbortUnguarded(u) ==
    /\ sessions[u].state # "ABSENT"
    /\ Aborted(u) \/ ReleasedUnwritten(u)
    /\ UNCHANGED <<placement, active, manager>>

\* abort_build: the reservations go, the token and the backend session stay.
AbortBuild(u) ==
    /\ sessions[u].state \notin Admittable
    /\ Aborted(u) \/ ReleasedUnwritten(u)
    /\ UNCHANGED <<placement, active, manager>>

\* Mutant: only the sessions that serve are restored.
RestartRestoresServing ==
    LET Restored == {u \in Instances : sessions[u].state \in Serving}
    IN  /\ quotas'   = Restored
        /\ capacity' = IF OpenStackMode THEN {} ELSE Restored
        /\ active'   = {sessions[u].token : u \in Restored} \ {NoToken}
        /\ unsettled' = unsettled \intersect Live
        /\ UNCHANGED <<sessions, placement, manager>>

\* Application.build rebuilds what the process holds in memory from the rows,
\* also what it exceeds a limit by: nothing is checked and no row is ended.
Restart ==
    /\ quotas'   = Live
    /\ capacity' = IF OpenStackMode THEN {} ELSE Live
    /\ active'   = {sessions[u].token : u \in Live} \ {NoToken}
    /\ unsettled' = unsettled \intersect Live
    /\ UNCHANGED <<sessions, placement, manager>>

-----------------------------------------------------------------------------
\* Nova's scheduler claims an allocation within the inventory, and Nova drops
\* it whenever it gives the VM up.
NovaClaim(u) ==
    /\ OpenStackMode
    /\ u \notin placement
    /\ Cardinality(SameProfile(placement, u)) < Inventory[ProfileOf[u]]
    /\ placement' = placement \union {u}
    /\ UNCHANGED <<sessions, quotas, capacity, active, manager, unsettled>>

NovaRelease(u) ==
    /\ u \in placement
    /\ placement' = placement \ {u}
    /\ UNCHANGED <<sessions, quotas, capacity, active, manager, unsettled>>

-----------------------------------------------------------------------------
Operation(u) == AdmitBuild(u) \/ InstanceActive(u) \/ RefreshSession(u)
                \/ DeleteInstance(u) \/ AbortBuild(u)

Next == \/ \E u \in Instances : Operation(u) \/ NovaClaim(u) \/ NovaRelease(u)
        \/ Restart

Spec == Init /\ [][Next]_vars

-----------------------------------------------------------------------------
(***************************************************************************)
(* Properties                                                              *)
(***************************************************************************)

\* The sessions a project holds for a profile never exceed its quota, through
\* failed deletes, aborts, quota leaked by an admission that raised, and restarts
\* that rebuild the reservations from the rows.  What they may exceed it by is
\* the sessions whose delete or abort gave the quota back and then could not
\* write the row: an admission in their place is not refused, and no restart
\* mends it.
QuotaRespected == WithinQuota(Live \ unsettled)

\* With the fake provider the same holds of the inventory.
CapacityRespected == ~OpenStackMode => WithinInventory(Live \ unsettled)

\* An operation that did not raise over the write of its row, or over a malformed
\* answer, neither leaks a reservation nor drops one that is still in use: quota
\* is reserved for exactly the live sessions, but for the unsettled ones; and with
\* the fake provider quota and capacity are never reserved one without the other.
ReservationsMatchSessions ==
    /\ \A u \in Instances \ unsettled : u \in quotas <=> u \in Live
    /\ ~OpenStackMode => capacity = quotas

\* A session that serves its token and that the manager keeps is kept there
\* under the same token and generation: the guest is never handed a credential
\* of another attempt or of an earlier life of the instance.
CredentialAgreement ==
    \A u \in Instances :
        sessions[u].state \in Serving /\ manager[u] # NoSession
            => manager[u] = [credential |-> sessions[u].token,
                             generation |-> sessions[u].generation]

Recorded == {sessions[u].token : u \in Instances}

HeldForStart(t) == \E u \in Instances : /\ manager[u] # NoSession
                                        /\ manager[u].credential = t
                                        /\ sessions[u].state = "STARTING"

\* A credential that is still valid is recorded in a row, where delete_instance
\* will find it, or it was forgotten by the one step that forgets: the last write
\* of a start raised, and the manager has that very credential for a row that is
\* still to be started.  No other path of the service, failed, retried or
\* restarted, comes to hold a valid token that no row knows.
NoForgottenCredential ==
    [][\A t \in active' \ Recorded' : t \in active \ Recorded \/ HeldForStart(t)']_vars

\* Whatever is lost or raises, a session of the manager comes to be unknown to
\* its row only while that row is STARTING, where the next start finds it under
\* the same workload id: no delete, abort or new admission drops the record of a
\* session that the manager keeps.
Unrecorded(u) == manager[u] # NoSession /\ ~sessions[u].backend

ManagerSessionsRecorded ==
    [][\A u \in Instances :
          Unrecorded(u)' => Unrecorded(u) \/ sessions'[u].state = "STARTING"]_vars

\* Nova may read vendor data any number of times (service.py:156-161): while a
\* session goes on serving, the token it serves does not change.
TokenStable ==
    [][\A u \in Instances :
          sessions[u].state \in Serving /\ sessions'[u].state \in Serving
              => sessions'[u].token = sessions[u].token]_vars

\* What an earlier life of the instance left at the manager (a delete whose
\* row had no backend session, a lost reply) is of an older generation than a
\* new reservation, so that the manager can tell the two apart.
LeftoverIsOlder ==
    \A u \in Instances :
        sessions[u].state = "RESERVED" /\ manager[u] # NoSession
            => manager[u].generation < sessions[u].generation

\* The service implements the contract of a session.
Contract == INSTANCE SessionContract
                WITH state      <- [u \in Instances |-> sessions[u].state],
                     generation <- [u \in Instances |-> sessions[u].generation],
                     released   <- unsettled \intersect Live

\* Every operation, in every outcome, also where the write of a row raises, is a
\* step the contract allows or leaves the contract's state as it was.
ImplementsContract == Contract!Spec

-----------------------------------------------------------------------------
(***************************************************************************)
(* What the code's documents say and the code does not do                  *)
(***************************************************************************)

\* "Idempotently remove credentials, backend session, and reservation."
\* (service.py:135): a deleted instance has no session at the manager.
DeletedLeavesNoSession ==
    \A u \in Instances : sessions[u].state = "DELETED" => manager[u] = NoSession
=============================================================================
