--------------------------- MODULE Reconciliation ---------------------------
(***************************************************************************)
(* The repair loop (reconcile.py, __main__.py): Nova's notifications may   *)
(* be lost, repeated or delivered late, and the reconciler process is to   *)
(* bring the sessions in line with the VMs all the same.                   *)
(*                                                                         *)
(* One turn of the loop takes a snapshot of the records, asks Nova for one *)
(* status after the other, and then acts on what it remembers; the port    *)
(* pass admits the VMs that have a managed port and no record.  Meanwhile  *)
(* notifications are handled by another process.  A session operation is   *)
(* one step here: what happens inside one is in Lifecycle and SharedStore. *)
(* An exception ends the turn and the process (__main__.py catches none),  *)
(* and the container starts again.                                         *)
(***************************************************************************)
EXTENDS Integers, SessionStates

CONSTANTS
    Instances,   \* UUIDs; their order is the order of the rows (storage.py)
    Unbound,     \* instances whose record was admitted without a service IP
    MaxFaults    \* bound of the model on transient faults

ASSUME InstanceTypes == Instances \subseteq Nat /\ Unbound \subseteq Instances
ASSUME FaultBound    == MaxFaults \in Nat

Statuses == {"BUILD", "ACTIVE", "ERROR"}          \* of a server Nova knows
Events   == {"create.start", "create.end", "create.error", "delete.end"}

VARIABLES
    nova,      \* the VM of the instance: NONE yet, a status, or GONE for good
    sent,      \* notifications Nova has sent
    ports,     \* instances that have their managed port, until the VM is gone
    state,     \* state of the record of the instance
    backend,   \* whether its backend_session_id is set
    phase,     \* what the reconciler process is doing
    snap,      \* state of each record when the turn began
    seen,      \* status Nova gave for each instance in this pass
    todo,      \* instances the current pass still has to go through
    faults     \* transient faults that happened

bus    == <<nova, sent>>
world  == <<nova, sent, ports>>
rows   == <<state, backend>>
turn   == <<phase, snap, seen, todo>>
vars   == <<nova, sent, ports, state, backend, phase, snap, seen, todo, faults>>

Phases == {"asleep", "statuses", "sessions", "port statuses", "admissions", "dead"}

TypeOK == /\ nova    \in [Instances -> Statuses \union {"NONE", "GONE"}]
          /\ sent    \subseteq Events \X Instances
          /\ ports   \subseteq Instances
          /\ state   \in [Instances -> States]
          /\ backend \in [Instances -> BOOLEAN]
          /\ phase   \in Phases
          /\ snap    \in [Instances -> States]
          /\ seen    \in [Instances -> Statuses \union {"unknown", "404"}]
          /\ todo    \subseteq Instances
          /\ faults  \in 0..MaxFaults

Nothing == [u \in Instances |-> "unknown"]
NoSnap  == [u \in Instances |-> "ABSENT"]

Init == /\ nova    = [u \in Instances |-> "NONE"]
        /\ sent    = {}
        /\ ports   = {}
        /\ state   = [u \in Instances |-> "ABSENT"]
        /\ backend = [u \in Instances |-> FALSE]
        /\ phase   = "asleep"
        /\ snap    = NoSnap
        /\ seen    = Nothing
        /\ todo    = {}
        /\ faults  = 0

Fault == faults < MaxFaults /\ faults' = faults + 1

-----------------------------------------------------------------------------
(***************************************************************************)
(* Nova: its VMs, the notifications it sends, the statuses it gives.  A    *)
(* build begins when the prebuild has made the managed port of the VM; the *)
(* port of a VM that is gone has nothing to admit and is ServicePorts'.    *)
(***************************************************************************)
NovaMoves(u, from, to, events) ==
    /\ nova[u] \in from
    /\ nova' = [nova EXCEPT ![u] = to]
    /\ sent' = sent \union (events \X {u})

\* A build that failed on one host and starts again on another keeps the UUID
\* and is announced by a create.error and a create.start.
Reschedule(u) == NovaMoves(u, {"BUILD"}, "BUILD", {"create.error", "create.start"}) /\ Fault

Nova(u) ==
    /\ \/ /\ \/ NovaMoves(u, {"NONE"}, "BUILD", {"create.start"})
             \/ NovaMoves(u, {"BUILD"}, "ACTIVE", {"create.end"})
             \/ NovaMoves(u, {"BUILD"}, "ERROR", {"create.error"})
             \/ NovaMoves(u, Statuses, "GONE", {"delete.end"})
          /\ UNCHANGED faults
       \/ Reschedule(u)
    /\ ports' = CASE nova[u] = "NONE"  -> ports \union {u}
                  [] nova'[u] = "GONE" -> ports \ {u}
                  [] OTHER             -> ports
    /\ UNCHANGED <<rows, turn>>

\* NovaInstanceStatusInventory: 404 for a server Nova does not know.
StatusOf(u) == IF nova[u] \in Statuses THEN nova[u] ELSE "404"

\* Nova's scheduler claimed the allocation admit_build looks for.
Claimed(u) == nova[u] \in Statuses

-----------------------------------------------------------------------------
(***************************************************************************)
(* Session operations: each has one operator for the call that returns and *)
(* one for the call that raises.  s is the state the operation finds.      *)
(***************************************************************************)
SetRow(u, s, b) == /\ state'   = [state EXCEPT ![u] = s]
                   /\ backend' = [backend EXCEPT ![u] = b]

\* instance_active on a record found in state s.  PENDING_CAPACITY may be
\* refreshed to either serving state.
ActiveReturns(u, s) ==
    \/ s \in Startable /\ u \notin Unbound /\ \E r \in Serving : SetRow(u, r, TRUE)
    \/ s = "PENDING_CAPACITY" /\ \E r \in Serving : SetRow(u, r, backend[u])
    \/ s = "READY" /\ UNCHANGED rows

\* create_session raises for a record without a service IP every time, and for
\* a manager that does not answer; so does a refresh; other states are refused.
ActiveRaises(u, s) ==
    \/ /\ s \in Startable
       /\ SetRow(u, "STARTING", backend[u])
       /\ IF u \in Unbound THEN UNCHANGED faults ELSE Fault
    \/ s = "PENDING_CAPACITY" /\ Fault /\ UNCHANGED rows
    \/ /\ s \in {"ABSENT", "FAILED", "DELETED"}
       /\ UNCHANGED <<rows, faults>>

\* Mutant: the record is saved while it is DRAINING.
DeleteDraining(u) == IF state[u] \in Admittable THEN UNCHANGED rows ELSE SetRow(u, "DRAINING", FALSE)

DeleteReturns(u) == IF state[u] \in Admittable THEN UNCHANGED rows ELSE SetRow(u, "DELETED", FALSE)

DeleteRaises(u) == state[u] \notin Admittable /\ backend[u] /\ Fault /\ UNCHANGED rows

AbortReturns(u) == IF state[u] \in Admittable THEN UNCHANGED rows
                   ELSE SetRow(u, "FAILED", backend[u])

\* State in which admit_build leaves the record: a record that exists, also a
\* failed one, is returned as it is.
Admitted(u) == IF state[u] \in Admittable THEN "RESERVED" ELSE state[u]

\* admit_build needs the claim only when it has to write a record.
AdmitGrants(u) == state[u] \in Admittable => Claimed(u)

-----------------------------------------------------------------------------
(***************************************************************************)
(* NovaEventConsumer.handle in the notifications process                   *)
(***************************************************************************)
HandleReturns(e, u) ==
    \/ e = "create.start" /\ AdmitGrants(u) /\ ActiveReturns(u, Admitted(u))
    \/ e = "create.end"   /\ ActiveReturns(u, state[u])
    \/ e = "create.error" /\ AbortReturns(u)
    \/ e = "delete.end"   /\ DeleteReturns(u)

\* The admission is refused, for want of a claim, of quota or of an approved image
\* or because something failed, or it goes through and the activation raises.
StartRaises(u) ==
    \/ UNCHANGED <<rows, faults>>
    \/ AdmitGrants(u) /\ ActiveRaises(u, Admitted(u))

HandleRaises(e, u) ==
    \/ e = "create.start" /\ StartRaises(u)
    \/ e = "create.end"   /\ ActiveRaises(u, state[u])
    \/ e = "delete.end"   /\ DeleteRaises(u)

\* POST /v1/events deletes the port after create.error (and after delete.end, when
\* it no longer counts here), whether or not there is a record; the consumer of the
\* bus leaves it, and Neutron may fail.
EventPort(e, u) == ports' \in IF e = "create.error" THEN {ports, ports \ {u}} ELSE {ports}

\* A notification is never taken from sent: that it is lost (allow_requeue is
\* false, so it is when its handler raises) means it is not delivered again,
\* and it may also be delivered late, repeatedly or in any order.
Notification ==
    \E m \in sent : /\ \/ HandleReturns(m[1], m[2]) /\ EventPort(m[1], m[2]) /\ UNCHANGED faults
                       \/ HandleRaises(m[1], m[2]) /\ UNCHANGED ports
                    /\ UNCHANGED <<bus, turn>>

-----------------------------------------------------------------------------
(***************************************************************************)
(* The reconciler process                                                  *)
(***************************************************************************)
\* The rows come in the order of their UUID.
First == CHOOSE u \in todo : \A v \in todo : u <= v

\* A pass over the instances S begins in phase p.
Pass(p, S) == phase' = p /\ todo' = S /\ seen' = Nothing

Dies == phase' = "dead" /\ todo' = {} /\ seen' = Nothing /\ snap' = NoSnap

\* Done with the first instance; what is known about it is not used again.
Rest == /\ todo' = todo \ {First}
        /\ snap' = [snap EXCEPT ![First] = "ABSENT"]
        /\ seen' = [seen EXCEPT ![First] = "unknown"]
        /\ UNCHANGED phase

\* Mutant: a failed record counts as settled, too.
SnapshotOfUnsettled ==
    /\ phase = "asleep"
    /\ Pass("statuses", {u \in Instances : state[u] \notin Admittable \union {"FAILED"}})
    /\ snap' = [u \in Instances |-> IF state[u] = "FAILED" THEN "DELETED" ELSE state[u]]
    /\ UNCHANGED <<world, rows, faults>>

\* SessionReconciler.run_once: the records that are not DELETED.
TakeSnapshot ==
    /\ phase = "asleep"
    /\ Pass("statuses", {u \in Instances : state[u] \notin Admittable})
    /\ snap' = state
    /\ UNCHANGED <<world, rows, faults>>

\* nova.statuses asks for one server at a time; next is the phase that acts.
AskStatus(p, next, S) ==
    /\ phase = p
    /\ IF todo = {}
       THEN phase' = next /\ todo' = S /\ UNCHANGED <<snap, seen>>
       ELSE seen' = [seen EXCEPT ![First] = StatusOf(First)] /\ todo' = todo \ {First}
            /\ UNCHANGED <<phase, snap>>
    /\ UNCHANGED <<world, rows, faults>>

\* Mutant: the records are listed again after the statuses were asked for, and
\* one whose status was not asked for counts as a missing server.
ActOnEveryRecord == AskStatus("statuses", "sessions",
                              {u \in Instances : state[u] \notin Admittable})

AskSessionStatus == AskStatus("statuses", "sessions",
                              {u \in Instances : snap[u] \notin Admittable})

\* What the loop decides for u from the snapshot and the status it got.
ToDelete(u) == seen[u] \in {"404", "unknown"}
\* Mutant: a start that was begun is not taken up again.
StartReserved(u) == seen[u] = "ACTIVE" /\ snap[u] = "RESERVED"

ToStart(u)  == seen[u] = "ACTIVE" /\ snap[u] \in Startable
ToAbort(u)  == seen[u] = "ERROR" /\ snap[u] = "RESERVED"

RepairReturns(u) == \/ ToDelete(u) /\ DeleteReturns(u)
                    \/ ToStart(u)  /\ ActiveReturns(u, state[u])
                    \/ ToAbort(u)  /\ AbortReturns(u)
                    \/ ~ToDelete(u) /\ ~ToStart(u) /\ ~ToAbort(u) /\ UNCHANGED rows

RepairRaises(u) == \/ ToDelete(u) /\ DeleteRaises(u)
                   \/ ToStart(u)  /\ ActiveRaises(u, state[u])

RepairSession ==
    /\ phase = "sessions" /\ todo # {}
    /\ \/ RepairReturns(First) /\ Rest /\ UNCHANGED faults
       \/ RepairRaises(First) /\ Dies
    /\ UNCHANGED world

\* OrphanPortReconciler.run_once lists the managed ports.
ListPorts ==
    /\ phase = "sessions" /\ todo = {}
    /\ Pass("port statuses", ports)
    /\ snap' = NoSnap
    /\ UNCHANGED <<world, rows, faults>>

AskPortStatus == AskStatus("port statuses", "admissions",
                           {u \in Instances : seen[u] # "unknown"})

\* The port pass reads the record now, and admits only if there is none.
ToAdmit(u) == state[u] = "ABSENT" /\ seen[u] \in {"BUILD", "ACTIVE"}

AdmitReturns(u) == \/ seen[u] = "BUILD"  /\ SetRow(u, "RESERVED", FALSE)
                   \/ seen[u] = "ACTIVE" /\ ActiveReturns(u, "RESERVED")

\* catalog.instance_request asks for the server again, and raises if it went.
Requested(u) == nova[u] \in Statuses

\* An AdmissionError keeps the port for the next turn, in which the admission may
\* be refused again, for good if the image or the flavor is not eligible, or as
\* long as the quota is used up.  What instance_active raises ends the turn.
AdmitPort(u) ==
    \/ Requested(u)  /\ AdmitReturns(u) /\ Rest /\ UNCHANGED faults
    \/ Requested(u)  /\ Rest /\ UNCHANGED <<rows, faults>>
    \/ Requested(u)  /\ seen[u] = "ACTIVE" /\ ActiveRaises(u, "RESERVED") /\ Dies
    \/ ~Requested(u) /\ Dies /\ UNCHANGED <<rows, faults>>

VisitPort ==
    /\ phase = "admissions" /\ todo # {}
    /\ \/ ToAdmit(First)  /\ AdmitPort(First)
       \/ ~ToAdmit(First) /\ Rest /\ UNCHANGED <<rows, faults>>
    /\ UNCHANGED world

Sleep ==
    /\ phase = "admissions" /\ todo = {}
    /\ Pass("asleep", {})
    /\ UNCHANGED <<world, rows, snap, faults>>

\* Killed, or an error of the Nova or Neutron API.
Crash == phase # "dead" /\ Dies /\ Fault /\ UNCHANGED <<world, rows>>

\* kubelet starts the container again.
Restart == phase = "dead" /\ phase' = "asleep" /\ UNCHANGED <<world, rows, snap, seen, todo, faults>>

Reconciler == \/ TakeSnapshot \/ AskSessionStatus \/ RepairSession
              \/ ListPorts \/ AskPortStatus \/ VisitPort \/ Sleep \/ Restart

-----------------------------------------------------------------------------
Next == \/ \E u \in Instances : Nova(u)
        \/ Notification \/ Reconciler \/ Crash

\* The loop never waits for anything but its sleep, and the container is
\* always started again.  Nothing is assumed of Nova or of the bus.
Spec == Init /\ [][Next]_vars /\ WF_vars(Reconciler)

-----------------------------------------------------------------------------
(***************************************************************************)
(* Properties                                                              *)
(***************************************************************************)

\* No session is deleted while Nova still has its VM, however old the snapshot
\* and the status the reconciler acts on: the records are read before the
\* statuses, and a record only exists once its VM does.
OnlyGoneVmsDeleted ==
    [][\A u \in Instances :
          state[u] # "DELETED" /\ state'[u] = "DELETED" => nova[u] = "GONE"]_vars

\* The session of a VM that is gone is deleted in the end and stays so, also if
\* delete.end is lost, overtaken by create.start, or its handler raises.
GoneSessionsEnd ==
    \A u \in Instances : nova[u] = "GONE" ~> [](state[u] \in Admittable)

\* The port pass visits u, which it is to admit, and leaves it without a record.
Refused(u) == /\ phase = "admissions" /\ todo # {} /\ First = u /\ ToAdmit(u)
              /\ phase' = phase /\ UNCHANGED state

\* A VM that runs gets its session in the end, also if all its notifications are
\* lost, unless its build was reported as failed: an abort is final, and without a
\* record the event takes the port, and with it the only way back to the VM, also
\* when the build goes on elsewhere.  It takes admissions that are not refused for
\* ever (quota, image), and starts the manager does not refuse for ever.
ActiveVmsServed ==
    \A u \in Instances :
        <>[][~Refused(u)]_vars =>
            (nova[u] = "ACTIVE" ~> \/ state[u] \in Serving \union {"FAILED"}
                                   \/ state[u] = "ABSENT" /\ u \notin ports
                                   \/ nova[u] # "ACTIVE")
=============================================================================
