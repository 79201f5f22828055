---------------------------- MODULE ServicePorts ----------------------------
(***************************************************************************)
(* The managed Neutron ports (network.py), the HTTP handlers that create   *)
(* and delete them (http.py) and the OrphanPortReconciler (reconcile.py).  *)
(*                                                                         *)
(* Neutron finds a port by its device_id and keeps no two callers apart:   *)
(* ensure is a GET and a POST, delete is a GET and a DELETE, and an        *)
(* admission copies what an earlier GET returned.  A handler is a thread   *)
(* that makes one such request per step, and a request that fails ends it. *)
(* The session operations are one step each: Lifecycle and SharedStore say *)
(* what happens inside, and Reconciliation what the session pass does.     *)
(*                                                                         *)
(* Anything that raises in the reconciler ends its process, the ports and  *)
(* records of other VMs included: whatever Instances is, a turn may be cut *)
(* off at any step, and that may happen in every turn (Dies).              *)
(***************************************************************************)
EXTENDS Integers, FiniteSets

CONSTANTS
    Instances,    \* Nova instance UUIDs
    PortIds,      \* ids Neutron gives to the ports of an instance
    Threads,      \* handler threads (ThreadingHTTPServer)
    Reconciler,   \* the worker of the reconciler process
    NoPort,       \* no port id
    Undated       \* ports for which Neutron reports no created_at

ASSUME WorkerTypes == Reconciler \notin Threads /\ NoPort \notin PortIds
ASSUME SetTypes    == IsFiniteSet(Threads) /\ IsFiniteSet(PortIds) /\ Undated \subseteq PortIds

VARIABLES
    nova,      \* the VM: NONE before it is built, VM, GONE for good
    prebuilt,  \* instances for which a prebuild succeeded
    ports,     \* managed ports Neutron has of each instance
    used,      \* port ids given out, for good
    old,       \* those of them _expired: dated, and older than orphan_grace_seconds
    width,     \* (history) how many prebuilds of the instance ran at once, at most
    session,   \* the record: none, live, failed or ended (DELETED)
    call,      \* what each worker is doing
    phase,     \* where the reconciler is in its turn
    listed,    \* what list_managed returned and is still to be visited
    asked,     \* instances whose status the turn has asked for
    known      \* those of them Nova knew

world == <<nova, prebuilt>>
neutron == <<ports, used, width>>
turn  == <<phase, listed, asked, known>>
vars  == <<nova, prebuilt, ports, used, width, old, session, call, phase, listed, asked, known>>

Workers == Threads \union {Reconciler}

Sessions == {"none", "live", "failed", "ended"}
Ops      == {"prebuild", "rollback", "admit", "error", "deleted", "reclaim"}
Idle     == [op |-> "idle"]
Calls    == [op : Ops, inst : Instances, port : PortIds \union {NoPort},
             step : {"get", "post", "check", "claim", "write", "session", "delete"}]
Listings == [inst : Instances, port : PortIds, expired : BOOLEAN]

TypeOK == /\ nova \in [Instances -> {"NONE", "VM", "GONE"}]
          /\ prebuilt \subseteq Instances
          /\ ports \in [Instances -> SUBSET PortIds]
          /\ used  \in [Instances -> SUBSET PortIds]
          /\ old   \in [Instances -> SUBSET PortIds]
          /\ width \in [Instances -> Nat]
          /\ session \in [Instances -> Sessions]
          /\ call \in [Workers -> Calls \union {Idle}]
          /\ phase \in {"asleep", "list", "statuses", "ports", "dead"}
          /\ listed \subseteq Listings
          /\ known \subseteq asked /\ asked \subseteq Instances

Init == /\ nova     = [u \in Instances |-> "NONE"]
        /\ prebuilt = {}
        /\ ports    = [u \in Instances |-> {}]
        /\ used     = [u \in Instances |-> {}]
        /\ old      = [u \in Instances |-> {}]
        /\ width    = [u \in Instances |-> 0]
        /\ session  = [u \in Instances |-> "none"]
        /\ call     = [w \in Workers |-> Idle]
        /\ phase    = "asleep"
        /\ listed   = {}
        /\ asked    = {}
        /\ known    = {}

Running(op, u) == {w \in Workers : call[w].op = op /\ call[w].inst = u}

Begin(w, op, u, step) ==
    /\ call[w] = Idle
    /\ call' = [call EXCEPT ![w] = [op |-> op, inst |-> u, port |-> NoPort, step |-> step]]

Goto(w, step)      == call' = [call EXCEPT ![w].step = step]
GotoWith(w, step, p) == call' = [call EXCEPT ![w].step = step, ![w].port = p]
Return(w)          == call' = [call EXCEPT ![w] = Idle]
At(w, op, step)    == call[w].op = op /\ call[w].step = step

-----------------------------------------------------------------------------
(***************************************************************************)
(* Nova                                                                    *)
(***************************************************************************)
\* The VM comes after its port; it may be given up before, and deleted.
Nova(u) ==
    /\ \/ nova[u] = "NONE" /\ u \in prebuilt /\ nova' = [nova EXCEPT ![u] = "VM"]
       \/ nova[u] \in {"NONE", "VM"} /\ nova' = [nova EXCEPT ![u] = "GONE"]
    /\ UNCHANGED <<prebuilt, neutron, old, session, call, turn>>

\* The grace of a port ends.  By then Nova has built the VM or given it up, and
\* a request that creates or looks for the port is over (each takes seconds).  A
\* port without created_at never expires.
Age(u) ==
    /\ nova[u] # "NONE" /\ Running("prebuild", u) = {}
    /\ old[u] # ports[u] \ Undated /\ old' = [old EXCEPT ![u] = ports[u] \ Undated]
    /\ UNCHANGED <<world, neutron, session, call, turn>>

\* Nova, or a client that timed out and repeats its request, asks for the port of
\* a VM.  The prebuild runs until Neutron is done with its POST, also if the
\* handler has given up waiting by then.
Prebuild(t, u) ==
    /\ nova[u] = "NONE"
    /\ Cardinality(used[u]) + Cardinality(Running("prebuild", u)) < Cardinality(PortIds)
    /\ Begin(t, "prebuild", u, "get")
    /\ LET running == Cardinality(Running("prebuild", u)) + 1
       IN  width' = [width EXCEPT ![u] = IF @ < running THEN running ELSE @]
    /\ UNCHANGED <<world, ports, used, old, session, turn>>

\* The other requests of Nova.  A rollback says that it gave the VM up;
\* create.start and create.error may come late, delete.end when the VM is gone.
Request(t, u) ==
    /\ \/ /\ nova[u] \in {"NONE", "GONE"} /\ Begin(t, "rollback", u, "check")
          /\ nova' = [nova EXCEPT ![u] = "GONE"]
       \/ nova[u] # "NONE" /\ u \in prebuilt /\ Begin(t, "admit", u, "get") /\ UNCHANGED nova
       \/ nova[u] # "NONE" /\ u \in prebuilt /\ Begin(t, "error", u, "session") /\ UNCHANGED nova
       \/ nova[u] = "GONE" /\ u \in prebuilt /\ Begin(t, "deleted", u, "session") /\ UNCHANGED nova
    /\ UNCHANGED <<prebuilt, neutron, old, session, turn>>

-----------------------------------------------------------------------------
(***************************************************************************)
(* NeutronServicePortProvider                                              *)
(***************************************************************************)
\* get: no port, the port, or an error if the instance has several.
Finds(u, p)  == ports[u] = {p}
FindsNone(u) == ports[u] = {}
Ambiguous(u) == Cardinality(ports[u]) > 1

\* Mutant: a port is created without looking for one.
EnsureBlindly(t, u) ==
    /\ At(t, "prebuild", "get")
    /\ Goto(t, "post")
    /\ UNCHANGED <<world, neutron, old, session, turn>>

\* ensure: the GET
EnsureGet(t, u) ==
    /\ At(t, "prebuild", "get")
    /\ \/ FindsNone(u) /\ Goto(t, "post") /\ UNCHANGED prebuilt
       \/ ports[u] # {} /\ ~Ambiguous(u) /\ Return(t) /\ prebuilt' = prebuilt \union {u}
       \/ Ambiguous(u) /\ Return(t) /\ UNCHANGED prebuilt
    /\ UNCHANGED <<nova, neutron, old, session, turn>>

\* ensure: the POST, whose answer may be lost
EnsurePost(t, u) ==
    /\ At(t, "prebuild", "post")
    /\ \E p \in PortIds \ used[u] :
          /\ ports' = [ports EXCEPT ![u] = @ \union {p}]
          /\ used'  = [used EXCEPT ![u] = @ \union {p}]
    /\ prebuilt' \in {prebuilt, prebuilt \union {u}}
    /\ Return(t)
    /\ UNCHANGED <<nova, width, old, session, turn>>

\* delete, for the calls that have come to it: the GET ...
Deleting == {"rollback", "error", "deleted", "reclaim"}

DeleteGet(w, u) ==
    /\ call[w].op \in Deleting /\ call[w].step = "get"
    /\ \/ \E p \in PortIds : Finds(u, p) /\ GotoWith(w, "delete", p)
       \/ FindsNone(u) /\ Return(w)
       \/ Ambiguous(u) /\ w \in Threads /\ Return(w)
    /\ UNCHANGED <<world, neutron, old, session, turn>>

\* ... and the DELETE; 404 is as good.
Delete(w, u) ==
    /\ call[w].op \in Deleting /\ call[w].step = "delete"
    /\ ports' = [ports EXCEPT ![u] = @ \ {call[w].port}]
    /\ old'   = [old EXCEPT ![u] = @ \ {call[w].port}]
    /\ Return(w)
    /\ UNCHANGED <<world, used, width, session, turn>>

-----------------------------------------------------------------------------
(***************************************************************************)
(* The handlers                                                            *)
(***************************************************************************)
\* DELETE /v1/prebuild: 409 if there is any record, else the port is deleted.
Rollback(t, u) ==
    /\ At(t, "rollback", "check")
    /\ IF session[u] # "none" THEN Return(t) ELSE Goto(t, "get")
    /\ UNCHANGED <<world, neutron, old, session, turn>>

\* POST /v1/admissions and create.start: the port first, then admit_build, which
\* returns a record that exists, or looks for Nova's claim and writes one.
AdmitGet(t, u) ==
    /\ At(t, "admit", "get")
    /\ IF \E p \in PortIds : Finds(u, p) THEN Goto(t, "claim") ELSE Return(t)
    /\ UNCHANGED <<world, neutron, old, session, turn>>

AdmitClaim(t, u) ==
    /\ At(t, "admit", "claim")
    /\ IF session[u] \in {"none", "ended"} /\ nova[u] = "VM" THEN Goto(t, "write") ELSE Return(t)
    /\ UNCHANGED <<world, neutron, old, session, turn>>

AdmitWrite(t, u) ==
    /\ At(t, "admit", "write")
    /\ session' = [session EXCEPT ![u] = "live"]
    /\ Return(t)
    /\ UNCHANGED <<world, neutron, old, turn>>

\* POST /v1/events: the session operation comes first, then the port goes.
Aborted(s) == IF s \in {"none", "ended"} THEN s ELSE "failed"

\* Mutant: the record is saved while it is still draining.
Drained(s) == IF s = "none" THEN s ELSE "draining"

Deleted(s) == IF s = "none" THEN s ELSE "ended"

EventSession(t, u) ==
    /\ call[t].op \in {"error", "deleted"} /\ call[t].step = "session"
    /\ session' = [session EXCEPT ![u] = IF call[t].op = "error" THEN Aborted(@) ELSE Deleted(@)]
    /\ Goto(t, "get")
    /\ UNCHANGED <<world, neutron, old, turn>>

\* A handler that raises, whose request fails or whose process is killed.
Raise(t) == /\ call[t] # Idle /\ Return(t)
            /\ UNCHANGED <<world, neutron, old, session, turn>>

Handler(t) == \E u \in Instances :
    /\ call[t] # Idle /\ call[t].inst = u
    /\ \/ EnsureGet(t, u) \/ EnsurePost(t, u) \/ Rollback(t, u)
       \/ AdmitGet(t, u) \/ AdmitClaim(t, u) \/ AdmitWrite(t, u)
       \/ EventSession(t, u) \/ DeleteGet(t, u) \/ Delete(t, u)

-----------------------------------------------------------------------------
(***************************************************************************)
(* The reconciler process                                                  *)
(***************************************************************************)
\* Something in the turn raises, or the process is killed.
Dies == /\ phase' = "dead" /\ listed' = {} /\ asked' = {} /\ known' = {}
        /\ Return(Reconciler)

\* SessionReconciler.run_once: the sessions of the VMs that are gone end, unless
\* a record raises: then the later ones stay, and the ports are not looked at.
SessionPass ==
    /\ phase = "asleep"
    /\ \E gone \in SUBSET {u \in Instances : nova[u] = "GONE"} :
          /\ session' = [u \in Instances |-> IF u \in gone THEN Deleted(session[u]) ELSE session[u]]
          /\ \/ /\ \A u \in Instances : nova[u] = "GONE" => u \in gone
                /\ phase' = "list" /\ UNCHANGED <<call, listed, asked, known>>
             \/ Dies
    /\ UNCHANGED <<world, neutron, old>>

\* OrphanPortReconciler.run_once: now, and the ports.
ListManaged ==
    /\ phase = "list" /\ phase' = "statuses"
    /\ listed' = {m \in Listings : /\ m.port \in ports[m.inst]
                                   /\ m.expired <=> m.port \in old[m.inst]}
    /\ asked' = {} /\ known' = {}
    /\ UNCHANGED <<world, neutron, old, session, call>>

\* nova.statuses asks for one server at a time.
AskStatus ==
    /\ phase = "statuses"
    /\ LET left == {m.inst : m \in listed} \ asked
       IN  \/ \E u \in left : /\ asked' = asked \union {u}
                              /\ known' = IF nova[u] = "VM" THEN known \union {u} ELSE known
                              /\ UNCHANGED phase
           \/ left = {} /\ phase' = "ports" /\ UNCHANGED <<asked, known>>
    /\ UNCHANGED <<world, neutron, old, session, call, listed>>

\* The port of a VM without a session (in BUILD or ACTIVE, which is not told
\* apart from ERROR here) is admitted with the port as it was listed, and started
\* if it is ACTIVE.  An AdmissionError keeps the port for the next turn; what else
\* raises, before the admission (catalog.instance_request asks Nova again, and the
\* VM may be gone) or after it (instance_active), ends the turn, in any turn.
AdmitListed(m) ==
    /\ session[m.inst] = "none" /\ m.inst \in known
    /\ \/ UNCHANGED session
       \/ nova[m.inst] = "VM" /\ session' = [session EXCEPT ![m.inst] = "live"]
    /\ \/ /\ nova[m.inst] = "VM"
          /\ listed' = listed \ {m} /\ UNCHANGED <<call, phase, asked, known>>
       \/ Dies

\* Mutant: the age of the port is not looked at.
RetainKnown(m) == m.inst \in known \/ session[m.inst] \in {"live", "failed"}

\* Mutant: a record of any state keeps the port, a deleted one, too.
RetainRecorded(m) == m.inst \in known \/ session[m.inst] # "none" \/ ~m.expired

\* The port stays: its VM was known, its session is not deleted, or it is young.
Retain(m) == m.inst \in known \/ session[m.inst] \in {"live", "failed"} \/ ~m.expired

VisitPort ==
    /\ phase = "ports" /\ call[Reconciler] = Idle
    /\ \E m \in listed :
          \/ AdmitListed(m)
          \/ /\ ~(session[m.inst] = "none" /\ m.inst \in known)
             /\ listed' = listed \ {m}
             /\ IF Retain(m) THEN UNCHANGED call
                             ELSE Begin(Reconciler, "reclaim", m.inst, "get")
             /\ UNCHANGED <<session, phase, asked, known>>
    /\ UNCHANGED <<world, neutron, old>>

\* ports.delete by the UUID of the listed port; get raises if there are several.
Reclaim ==
    /\ call[Reconciler] # Idle
    /\ LET u == call[Reconciler].inst
       IN  \/ DeleteGet(Reconciler, u) \/ Delete(Reconciler, u)
           \/ /\ call[Reconciler].step = "get" /\ Ambiguous(u) /\ Dies
              /\ UNCHANGED <<world, neutron, old, session>>

Sleep ==
    /\ phase = "ports" /\ listed = {} /\ call[Reconciler] = Idle
    /\ phase' = "asleep" /\ asked' = {} /\ known' = {}
    /\ UNCHANGED <<world, neutron, old, session, call, listed>>

Crash == /\ phase # "dead" /\ Dies
         /\ UNCHANGED <<world, neutron, old, session>>

Restart == /\ phase = "dead" /\ phase' = "asleep"
           /\ UNCHANGED <<world, neutron, old, session, call, listed, asked, known>>

Turn == SessionPass \/ ListManaged \/ AskStatus \/ VisitPort \/ Reclaim \/ Sleep \/ Restart

-----------------------------------------------------------------------------
Next == \/ \E u \in Instances : Nova(u) \/ Age(u)
        \/ \E t \in Threads, u \in Instances : Prebuild(t, u) \/ Request(t, u)
        \/ \E t \in Threads : Handler(t) \/ Raise(t)
        \/ Turn \/ Crash

\* Time passes, a thread goes on until its handler returns, the loop of the
\* reconciler goes on.  Nothing is assumed of Nova.
Spec == /\ Init /\ [][Next]_vars
        /\ \A u \in Instances : WF_vars(Age(u))
        /\ \A t \in Threads : WF_vars(Handler(t))
        /\ WF_vars(Turn)

-----------------------------------------------------------------------------
(***************************************************************************)
(* Properties                                                              *)
(***************************************************************************)

\* A rollback or the reconciler deletes the port of a VM only when the VM is
\* gone for good, however long ago they read the session, the list or the status:
\* only the events that end a build or a VM take the port of one that Nova knows.
PortsOfVmsKept ==
    [][\A u \in Instances, p \in PortIds :
          /\ p \in ports[u] /\ p \notin ports'[u]
          => \/ nova[u] = "GONE"
             \/ \E t \in Threads : At(t, "error", "delete") /\ call[t].port = p]_vars

\* The port of a VM that is gone is deleted in the end and does not come back,
\* also if the rollback overtook the prebuild or was never sent, its answer or the
\* events were lost, and the session had to be deleted by the reconciler first:
\* provided that Neutron says when the port was created, and that the reconciler
\* gets through a turn again and again, whatever ends the turns between.  One
\* record or port that raises in every turn, of this VM or another, or one VM with
\* two ports (Ambiguous), keeps all orphans.
TurnsComplete == []<><<Sleep>>_vars

OrphansReclaimed ==
    TurnsComplete => \A u \in Instances : nova[u] = "GONE" ~> [](ports[u] \subseteq Undated)

\* The prebuild finds the port that is there, however often it is repeated and
\* whatever became of the rollbacks and prebuilds before; it takes prebuilds that
\* run at once to make several ports, and n of them at once make n at most.  A VM
\* with two ports is lost to the adapter: no request can use or delete either.
PortsWithinWidth == \A u \in Instances : Cardinality(ports[u]) <= width[u]
=============================================================================
