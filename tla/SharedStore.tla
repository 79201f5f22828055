---------------------------- MODULE SharedStore ----------------------------
(***************************************************************************)
(* The containers of one pod (adapter, nova-notifications, reconciler) run *)
(* the same FlytLifecycleService over the same SQLite file.  Each has its  *)
(* own lock and its own quota reservations, so inside a container an       *)
(* operation is alone, and between containers it is a read of the row, a   *)
(* private copy, calls, and a write of the whole copy (storage.py), with   *)
(* anything in between.                                                    *)
(*                                                                         *)
(* One step here is one access to what is shared: the row or the manager.  *)
(* A container may be killed between any two steps and starts again from   *)
(* the rows, and a write may raise (a locked database, a full disk).       *)
(* Placement grants what it is asked; what a refused reservation does is   *)
(* in Lifecycle.                                                           *)
(*                                                                         *)
(* Nova's request for vendor data is two reads by a thread of the adapter, *)
(* of the record and of the token, and the lock is held for the second one *)
(* only: between them there is room for operations of any container.       *)
(***************************************************************************)
EXTENDS FlytModel

CONSTANTS
    Procs,        \* the containers
    NoOne,        \* the instance a container works on when it is idle
    StoreFails,   \* a write of a row may raise
    Asks          \* Nova asks for vendor data

ASSUME ProcsFinite == IsFiniteSet(Procs)
ASSUME NoOneTypes  == NoOne \notin Instances
ASSUME SwitchTypes == {StoreFails, Asks} \subseteq BOOLEAN

VARIABLES
    rows,      \* flyt_sessions, shared: [Instances -> Record]
    manager,   \* sessions of the Cluster Manager, shared
    quotas,    \* FakeQuotaProvider.reservations of each container
    pc,        \* where the operation of each container is
    on,        \* the instance it works on
    copy,      \* the SessionRecord it read and changes
    raced,     \* instances on which operations of two containers overlapped
    answer     \* vendor data that was read: the instance, generation and token,
               \* and (history) the generation the row had when the token was read

vars == <<rows, manager, quotas, pc, on, copy, raced, answer>>

NoAnswer == [inst |-> NoOne, generation |-> 0, token |-> NoToken, life |-> 0]

\* idle      no operation in progress
\* storing   copy is final: admit_build, the end of instance_active, a refresh
\* starting  instance_active, before STARTING is written
\* creating  instance_active, before the manager is asked
\* deleting  delete_instance, before the manager is asked
\* closing   delete_instance and abort_build, before the reservations go
Phases == {"idle", "storing", "starting", "creating", "deleting", "closing"}

TypeOK == /\ rows    \in [Instances -> Record]
          /\ manager \in [Instances -> ManagerSession \union {NoSession}]
          /\ quotas  \in [Procs -> SUBSET Instances]
          /\ pc      \in [Procs -> Phases]
          /\ on      \in [Procs -> Instances \union {NoOne}]
          /\ copy    \in [Procs -> Record]
          /\ raced   \subseteq Instances
          /\ answer  \in [inst : Instances \union {NoOne}, generation : Nat,
                          token : Tokens \union {NoToken}, life : Nat]

Init == /\ rows    = [u \in Instances |-> NoRecord]
        /\ manager = [u \in Instances |-> NoSession]
        /\ quotas  = [p \in Procs |-> {}]
        /\ pc      = [p \in Procs |-> "idle"]
        /\ on      = [p \in Procs |-> NoOne]
        /\ copy    = [p \in Procs |-> NoRecord]
        /\ raced   = {}
        /\ answer  = NoAnswer

-----------------------------------------------------------------------------
Live == {u \in Instances : rows[u].state \in LiveStates}

FreshTokens == Tokens \ ( {answer.token} \union {rows[u].token : u \in Instances}
                          \union {copy[p].token : p \in Procs}
                          \union {manager[u].credential :
                                    u \in {v \in Instances : manager[v] # NoSession}} )

\* p takes its lock, reads the row of u and goes on at phase with the copy r.
Begin(p, u, phase, r) ==
    /\ pc[p] = "idle"
    /\ pc'    = [pc EXCEPT ![p] = phase]
    /\ on'    = [on EXCEPT ![p] = u]
    /\ copy'  = [copy EXCEPT ![p] = r]
    /\ raced' = IF \E q \in Procs \ {p} : on[q] = u THEN raced \union {u} ELSE raced

Goto(p, phase, r) ==
    /\ pc'   = [pc EXCEPT ![p] = phase]
    /\ copy' = [copy EXCEPT ![p] = r]
    /\ UNCHANGED <<on, raced>>

\* The operation returns or raises, and p releases its lock.
Done(p) ==
    /\ pc'   = [pc EXCEPT ![p] = "idle"]
    /\ on'   = [on EXCEPT ![p] = NoOne]
    /\ copy' = [copy EXCEPT ![p] = NoRecord]
    /\ UNCHANGED raced

\* __setitem__ writes every column of the copy.
Write(p, r) == rows' = [rows EXCEPT ![on[p]] = r]

-----------------------------------------------------------------------------
\* admit_build reads the row and reserves quota in the container's own map.
AdmitBegin(p, u) ==
    /\ rows[u].state \in Admittable
    /\ rows[u].generation < MaxGeneration
    /\ u \in quotas[p] \/ Cardinality(SameQuota(quotas[p], u)) < Limit[QuotaKey(u)]
    /\ quotas' = [quotas EXCEPT ![p] = @ \union {u}]
    /\ Begin(p, u, "storing", ReservedRecord(rows[u].generation))
    /\ UNCHANGED <<rows, manager>>

\* Mutant: a READY session is materialized again, and STARTING not persisted.
ActiveUnpersisted(p, u) ==
    /\ rows[u].state \in LiveStates
    /\ Begin(p, u, "creating", [rows[u] EXCEPT !.state = "STARTING"])
    /\ UNCHANGED <<rows, manager, quotas>>

\* instance_active: the branches of RESERVED and STARTING, and of
\* PENDING_CAPACITY, whose refresh_session asks nothing of the manager.
ActiveBegin(p, u) ==
    /\ \/ /\ rows[u].state \in Startable
          /\ Begin(p, u, "starting", [rows[u] EXCEPT !.state = "STARTING"])
       \/ /\ rows[u].state = "PENDING_CAPACITY"
          /\ \E s \in Serving : Begin(p, u, "storing", [rows[u] EXCEPT !.state = s])
    /\ UNCHANGED <<rows, manager, quotas>>

\* Mutant: the copy delete_instance writes is still DRAINING.
DeleteDraining(p, u) ==
    /\ rows[u].state \notin Admittable
    /\ Begin(p, u, IF rows[u].backend THEN "deleting" ELSE "closing",
             [rows[u] EXCEPT !.state = "DRAINING", !.token = NoToken])
    /\ UNCHANGED <<rows, manager, quotas>>

\* delete_instance clears the token of its copy and goes to the manager only
\* if the row it read had a backend session.
DeleteBegin(p, u) ==
    /\ rows[u].state \notin Admittable
    /\ Begin(p, u, IF rows[u].backend THEN "deleting" ELSE "closing",
             [rows[u] EXCEPT !.state = "DELETED", !.token = NoToken])
    /\ UNCHANGED <<rows, manager, quotas>>

\* Mutant: a late create.error also fails a session that is deleted.
AbortUnguarded(p, u) ==
    /\ rows[u].state # "ABSENT"
    /\ Begin(p, u, "closing", [rows[u] EXCEPT !.state = "FAILED"])
    /\ UNCHANGED <<rows, manager, quotas>>

AbortBegin(p, u) ==
    /\ rows[u].state \notin Admittable
    /\ Begin(p, u, "closing", [rows[u] EXCEPT !.state = "FAILED"])
    /\ UNCHANGED <<rows, manager, quotas>>

-----------------------------------------------------------------------------
\* STARTING is written before the token is issued.
StartPersist(p) ==
    /\ pc[p] = "starting"
    /\ Write(p, copy[p])
    /\ Goto(p, "creating", copy[p])
    /\ UNCHANGED <<manager, quotas>>

Upserted(p, t) == [manager EXCEPT ![on[p]] =
                     [credential |-> t, generation |-> copy[p].generation]]

\* The manager stores the session and answers, stores it and the answer is
\* lost, or refuses.
CreateAnswered(p) ==
    \E t \in FreshTokens, s \in Serving :
        /\ manager' = Upserted(p, t)
        /\ Goto(p, "storing", [copy[p] EXCEPT !.state = s, !.token = t, !.backend = TRUE])

CreateFailed(p) ==
    /\ manager' = manager \/ \E t \in FreshTokens : manager' = Upserted(p, t)
    /\ Goto(p, "storing", [copy[p] EXCEPT !.token = NoToken])

CreateSession(p) ==
    /\ pc[p] = "creating"
    /\ CreateAnswered(p) \/ CreateFailed(p)
    /\ UNCHANGED <<rows, quotas>>

Store(p) ==
    /\ pc[p] = "storing"
    /\ Write(p, copy[p])
    /\ Done(p)
    /\ UNCHANGED <<manager, quotas>>

\* Without an answer delete_instance raises and nothing is written.
DeleteSession(p) ==
    /\ pc[p] = "deleting"
    /\ \/ /\ manager' = [manager EXCEPT ![on[p]] = NoSession]
          /\ Goto(p, "closing", [copy[p] EXCEPT !.backend = FALSE])
       \/ /\ manager' \in {manager, [manager EXCEPT ![on[p]] = NoSession]}
          /\ Done(p)
    /\ UNCHANGED <<rows, quotas>>

\* Mutant: an UPDATE of the state column instead of the whole row.
CloseStateColumn(p) ==
    /\ pc[p] = "closing"
    /\ quotas' = [quotas EXCEPT ![p] = @ \ {on[p]}]
    /\ rows'   = [rows EXCEPT ![on[p]].state = copy[p].state]
    /\ Done(p)
    /\ UNCHANGED manager

\* The reservations of this container go, then the row is written.
Close(p) ==
    /\ pc[p] = "closing"
    /\ quotas' = [quotas EXCEPT ![p] = @ \ {on[p]}]
    /\ Write(p, copy[p])
    /\ Done(p)
    /\ UNCHANGED manager

\* __setitem__ raises, and with it the operation: what it did before stays done,
\* the reservations that Close gives back first included.
WriteRaises(p) ==
    /\ StoreFails
    /\ pc[p] \in {"storing", "starting", "closing"}
    /\ quotas' = IF pc[p] = "closing" THEN [quotas EXCEPT ![p] = @ \ {on[p]}] ELSE quotas
    /\ Done(p)
    /\ UNCHANGED <<rows, manager>>

\* Mutant: nothing is restored.
CrashForgets(p) ==
    /\ quotas' = [quotas EXCEPT ![p] = {}]
    /\ Done(p)
    /\ UNCHANGED <<rows, manager>>

\* The container is killed and Application.build runs again.
Crash(p) ==
    /\ quotas' = [quotas EXCEPT ![p] = Live]
    /\ Done(p)
    /\ UNCHANGED <<rows, manager>>

-----------------------------------------------------------------------------
(***************************************************************************)
(* POST /v1/nova/vendor-data                                               *)
(***************************************************************************)
\* A record must be there; then bootstrap_token returns or raises.
Answered(u) == rows[u].state \in Serving /\ rows[u].token # NoToken

\* Mutant: the token first and then the generation, as /v1/vendor-data/<uuid> reads.
TokenFirst(u) ==
    \/ /\ answer.inst = NoOne \/ answer.generation # 0
       /\ answer' = IF Answered(u) THEN [inst |-> u, generation |-> 0, token |-> rows[u].token,
                                         life |-> rows[u].generation]
                                   ELSE NoAnswer
    \/ /\ answer.inst = u /\ answer.generation = 0
       /\ answer' = [answer EXCEPT !.generation = rows[u].generation]

VendorData(u) ==
    \/ /\ answer.inst = NoOne \/ answer.token # NoToken
       /\ rows[u].state # "ABSENT"
       /\ answer' = [NoAnswer EXCEPT !.inst = u, !.generation = rows[u].generation]
    \/ /\ answer.inst = u /\ answer.token = NoToken
       /\ answer' = IF Answered(u)
                    THEN [answer EXCEPT !.token = rows[u].token, !.life = rows[u].generation]
                    ELSE NoAnswer

-----------------------------------------------------------------------------
Step(p) ==
    \/ \E u \in Instances : \/ AdmitBegin(p, u)  \/ ActiveBegin(p, u)
                            \/ DeleteBegin(p, u) \/ AbortBegin(p, u)
    \/ StartPersist(p) \/ CreateSession(p) \/ Store(p)
    \/ DeleteSession(p) \/ Close(p) \/ WriteRaises(p) \/ Crash(p)

Next == \/ (\E p \in Procs : Step(p)) /\ UNCHANGED answer
        \/ \E u \in Instances :
              /\ Asks /\ VendorData(u)
              /\ UNCHANGED <<rows, manager, quotas, pc, on, copy, raced>>

Spec == Init /\ [][Next]_vars

-----------------------------------------------------------------------------
(***************************************************************************)
(* Properties                                                              *)
(***************************************************************************)

\* Whatever two containers do to a row, and wherever one is killed, the row is
\* one that some operation wrote: a session that serves has its token and its
\* backend session, so that vendor data never answers "bootstrap token is
\* unavailable", and one that was deleted, or has not been started yet, has
\* neither.  A FAILED row may keep both: abort_build clears neither.
RowsAreWhole ==
    \A u \in Instances :
        /\ rows[u].state \in Serving => rows[u].token # NoToken /\ rows[u].backend
        /\ rows[u].state \in Admittable \union Startable
               => rows[u].token = NoToken /\ ~rows[u].backend

\* As long as the operations on an instance never overlapped, the token it
\* serves is the one the manager has, although every operation is several
\* steps and any of them may be the last of its container.
UnracedCredentialAgreement ==
    \A u \in Instances \ raced :
        rows[u].state \in Serving /\ manager[u] # NoSession
            => manager[u] = [credential |-> rows[u].token, generation |-> rows[u].generation]

\* Each container holds the sessions it admits to the quota, so together they
\* admit at most the quota of each, however often they are killed and start again
\* from rows of all of them.  It takes writes that do not fail, sessions on which
\* no two containers worked at once, and instances that are admitted once: a
\* container does not count again what its own map still holds, also if another
\* one has deleted that session since.
AdmittedOnce == \A u \in Instances : rows[u].generation <= 1

UnracedQuota ==
    AdmittedOnce /\ ~StoreFails =>
        \A u \in Instances :
            Cardinality(SameQuota(Live \ raced, u)) <= Cardinality(Procs) * Limit[QuotaKey(u)]

\* The generation and the token of an answer are read one after the other, and a
\* delete and a new admission may lie between the reads: the answer then has the
\* generation of one life of the session and the token of a later one, which the
\* code does not exclude.  What it never does is to hand out the token of an
\* earlier life under a later generation; and as long as the life the token was
\* read in goes on serving, it is the token served, whatever came after the reads.
UnracedAnswersNotAhead ==
    LET u == answer.inst
    IN  u \in Instances \ raced /\ answer.token # NoToken =>
            /\ answer.generation <= answer.life
            /\ rows[u].state \in Serving /\ rows[u].generation = answer.life
                   => rows[u].token = answer.token

\* The contract of the session of u alone, where it never lacks quota.
Contract(u) == INSTANCE SessionContract
                   WITH Instances  <- {u},
                        ProjectOf  <- [v \in {u} |-> ProjectOf[v]],
                        ProfileOf  <- [v \in {u} |-> ProfileOf[v]],
                        Limit      <- [k \in Projects \X Profiles |-> 1],
                        state      <- [v \in {u} |-> rows[v].state],
                        generation <- [v \in {u} |-> rows[v].generation],
                        released   <- {}

\* A row on which no two operations overlapped only takes steps of the
\* contract: in particular a deleted session is not brought back by the write
\* of an operation that had read it before.
UnracedStepsLegal ==
    [][\A u \in Instances \ raced : [Contract(u)!Next]_(Contract(u)!cvars)]_vars
=============================================================================
