------------------------------ MODULE GpuCells ------------------------------
(***************************************************************************)
(* One GPU Cell: the ResourceClaim and the Pod that KubernetesGpuCell-     *)
(* Provider creates for a physical profile (kubernetes.py), and the        *)
(* sessions GpuCellFlytBackend maps onto it (flyt.py).                     *)
(*                                                                         *)
(* Every container of the adapter creates the cell when it starts a        *)
(* session and finds none; the names are the same, so one request per step *)
(* decides who creates what.  instance_active is reduced to its calls of   *)
(* the backend; operations on one session do not overlap here (SharedStore *)
(* is about those that do), operations on different sessions do.           *)
(***************************************************************************)
EXTENDS Integers, SessionStates

CONSTANTS
    Instances,   \* instances whose sessions are mapped onto the cell
    Procs,       \* the containers; each works on one session at a time
    NoOne,       \* no instance
    MaxFaults    \* bound of the model on failed requests and Pods taken away

ASSUME CellTypes == NoOne \notin Instances /\ MaxFaults \in Nat

VARIABLES
    claim,    \* ResourceClaim: none, free, held by the Pod, or ending with it
    pod,      \* the Pod: none, pending, running, ready or failed
    node,     \* its Node Manager is registered at the Cluster Manager
    state,    \* state of the session of each instance
    pc,       \* what each container is about to ask for
    on,       \* the instance it works on
    cell,     \* the state of the cell it was told
    spoiled,  \* (history) since the cell was created from nothing, two containers
              \* were creating it at once, or an error came back though its Pod is there
    faults    \* faults that happened

kube  == <<claim, pod, node>>
local == <<pc, on, cell, spoiled>>
vars  == <<claim, pod, node, state, pc, on, cell, spoiled, faults>>

\* look: the GET of refresh_session; get, claim, pod, undo and again: the
\* requests of ensure; ask: create_session of the manager.
Steps == {"idle", "look", "get", "claim", "pod", "undo", "again", "ask"}

\* GpuCellState, as far as get returns it.
Cells == {"POD_PENDING", "READY", "FAILED"}

TypeOK == /\ claim \in {"none", "free", "held", "ending"}
          /\ pod   \in {"none", "pending", "running", "ready", "failed"}
          /\ node  \in BOOLEAN
          /\ state \in [Instances -> Startable \union Serving]
          /\ pc    \in [Procs -> Steps]
          /\ on    \in [Procs -> Instances \union {NoOne}]
          /\ cell  \in [Procs -> Cells]
          /\ spoiled \in BOOLEAN
          /\ faults \in 0..MaxFaults

Init == /\ claim = "none" /\ pod = "none" /\ node = FALSE
        /\ state = [u \in Instances |-> "RESERVED"]
        /\ pc    = [p \in Procs |-> "idle"]
        /\ on    = [p \in Procs |-> NoOne]
        /\ cell  = [p \in Procs |-> "POD_PENDING"]
        /\ spoiled = FALSE /\ faults = 0

Fault == faults < MaxFaults /\ faults' = faults + 1

-----------------------------------------------------------------------------
(***************************************************************************)
(* Kubernetes and the Node Manager in the Pod                              *)
(***************************************************************************)
\* The Pod leaves its claim: it is free again, or gone if it was deleted.
Released(c) == IF c = "held" THEN "free" ELSE IF c = "ending" THEN "none" ELSE c

\* The readiness probe sees the process; the process then registers.  A Pod may
\* lose its process, be evicted, or be taken away; its claim is not its own.
Kubernetes ==
    /\ \/ /\ pod = "pending" /\ claim = "free" /\ pod' = "running" /\ claim' = "held"
          /\ UNCHANGED <<node, faults>>
       \/ pod = "running" /\ pod' = "ready" /\ UNCHANGED <<claim, node, faults>>
       \/ pod = "ready" /\ node' = TRUE /\ UNCHANGED <<claim, pod, faults>>
       \/ pod = "ready" /\ pod' = "running" /\ node' = FALSE /\ Fault /\ UNCHANGED claim
       \/ /\ pod \notin {"none", "failed"} /\ pod' = "failed"
          /\ claim' = Released(claim) /\ node' = FALSE /\ Fault
       \/ /\ pod # "none" /\ pod' = "none"
          /\ claim' = Released(claim) /\ node' = FALSE /\ Fault
    /\ UNCHANGED <<state, local>>

\* What get makes of a Pod it finds.
CellState == CASE pod = "failed" -> "FAILED"
               [] pod = "ready"  -> "READY"
               [] OTHER          -> "POD_PENDING"

-----------------------------------------------------------------------------
(***************************************************************************)
(* instance_active and the backend                                         *)
(***************************************************************************)
Creating(p) == pc[p] \in {"claim", "pod", "undo"}

Moves(p, step) == pc' = [pc EXCEPT ![p] = step] /\ UNCHANGED on

Goto(p, step) == Moves(p, step) /\ UNCHANGED spoiled

\* p found no Pod and creates the cell, alone or together with others.
Create(p) == /\ Moves(p, "claim")
             /\ spoiled' = \E q \in Procs \ {p} : Creating(q)

Return(p) == /\ pc'   = [pc EXCEPT ![p] = "idle"]
             /\ on'   = [on EXCEPT ![p] = NoOne]
             /\ cell' = [cell EXCEPT ![p] = "POD_PENDING"]
             /\ UNCHANGED spoiled

\* STARTING is written before create_session; a session that is pending is
\* refreshed; READY returns at once, for good, whatever becomes of the cell.
Begin(p, u) ==
    /\ pc[p] = "idle" /\ u \notin {on[q] : q \in Procs}
    /\ \/ /\ state[u] \in Startable /\ state' = [state EXCEPT ![u] = "STARTING"]
          /\ pc' = [pc EXCEPT ![p] = "get"]
       \/ /\ state[u] = "PENDING_CAPACITY" /\ UNCHANGED state
          /\ pc' = [pc EXCEPT ![p] = "look"]
    /\ on' = [on EXCEPT ![p] = u]
    /\ UNCHANGED <<kube, cell, spoiled, faults>>

\* Mutant: a failed cell fails the session for good.
ToldFinally(p, c) ==
    IF c = "FAILED" THEN Return(p) /\ state' = [state EXCEPT ![on[p]] = "FAILED"]
    ELSE Goto(p, "ask") /\ cell' = [cell EXCEPT ![p] = c] /\ UNCHANGED state

\* The cell p was told: a failed one raises, and for a refresh the answer is
\* the new state; create_session goes on to the manager.
Told(p, c) ==
    IF c = "FAILED" THEN Return(p) /\ UNCHANGED state
    ELSE IF state[on[p]] = "PENDING_CAPACITY"
    THEN /\ state' = [state EXCEPT ![on[p]] = IF c = "READY" THEN "READY" ELSE "PENDING_CAPACITY"]
         /\ Return(p)
    ELSE Goto(p, "ask") /\ cell' = [cell EXCEPT ![p] = c] /\ UNCHANGED state

\* GET the Pod: in refresh_session, which without one goes on to ensure, at the
\* beginning of ensure, and at its end, where no Pod counts as one that is pending.
Get(p) ==
    /\ pc[p] \in {"look", "get", "again"}
    /\ IF pod # "none" THEN Told(p, CellState)
       ELSE IF pc[p] = "again" THEN Told(p, "POD_PENDING")
       ELSE /\ IF pc[p] = "look" THEN Goto(p, "get") ELSE Create(p)
            /\ UNCHANGED <<state, cell>>
    /\ UNCHANGED <<kube, faults>>

\* Mutant: a claim that is there already is an error.
ClaimUnlessThere(p) ==
    /\ pc[p] = "claim"
    /\ IF claim = "none" THEN claim' = "free" /\ Goto(p, "pod") /\ UNCHANGED cell
                         ELSE Return(p) /\ UNCHANGED claim
    /\ UNCHANGED <<pod, node, state, faults>>

\* POST the claim; 409 is as good as 201.
PostClaim(p) ==
    /\ pc[p] = "claim" /\ Goto(p, "pod")
    /\ claim' = IF claim = "none" THEN "free" ELSE claim
    /\ UNCHANGED <<pod, node, state, cell, faults>>

Posted(c) == IF c = "none" THEN "pending" ELSE c

\* Mutant: the claim is also taken back when only the last GET fails.
PodPostedBlindly(p) ==
    /\ pc[p] = "pod"
    /\ pod' = Posted(pod)
    /\ \/ Goto(p, "again") /\ UNCHANGED faults
       \/ Goto(p, "undo")  /\ Fault
    /\ UNCHANGED <<claim, node, state, cell>>

\* POST the Pod: 201 or 409, or an error status, after which ensure takes the
\* claim back, whoever made it, and also when the error (a 500, a 504) came with
\* a Pod that was created all the same.
PostPod(p) ==
    /\ pc[p] = "pod"
    /\ \/ /\ pod' = Posted(pod)
          /\ Goto(p, "again") /\ UNCHANGED faults
       \/ /\ pod' \in {pod, Posted(pod)}
          /\ Moves(p, "undo") /\ spoiled' = (spoiled \/ pod' # "none") /\ Fault
    /\ UNCHANGED <<claim, node, state, cell>>

\* DELETE the claim, whose status nobody looks at, and raise.  A claim in use
\* stays until the Pod goes.
Undo(p) ==
    /\ pc[p] = "undo" /\ Return(p)
    /\ claim' = CASE claim = "free" -> "none" [] claim = "held" -> "ending" [] OTHER -> claim
    /\ UNCHANGED <<pod, node, state, faults>>

\* The manager keeps the session and answers whether it has a node for it; the
\* session is READY if the cell was ready, too.
AskManager(p) ==
    /\ pc[p] = "ask" /\ Return(p)
    /\ state' = [state EXCEPT ![on[p]] =
                    IF node /\ cell[p] = "READY" THEN "READY" ELSE "PENDING_CAPACITY"]
    /\ UNCHANGED <<kube, faults>>

\* A request fails or gets an error status, the manager refuses, or the
\* container is killed; the POST of a Pod may have done its work all the same.
Raise(p) ==
    /\ pc[p] # "idle" /\ Fault /\ Return(p)
    /\ pod' \in IF pc[p] = "pod" THEN {pod, Posted(pod)} ELSE {pod}
    /\ claim' \in IF pc[p] = "claim" /\ claim = "none" THEN {"none", "free"} ELSE {claim}
    /\ UNCHANGED <<node, state>>

Work(p) == Get(p) \/ PostClaim(p) \/ PostPod(p) \/ Undo(p) \/ AskManager(p)

\* The reconciler starts again what is STARTING while its VM runs.
Retry(u) == state[u] \in Startable /\ \E p \in Procs : Begin(p, u)

-----------------------------------------------------------------------------
Next == \/ Kubernetes
        \/ \E p \in Procs : Work(p) \/ Raise(p) \/ \E u \in Instances : Begin(p, u)

\* Every request comes to an end (each has a timeout), and every turn of the
\* reconciler tries a start that failed again, however busy the containers are
\* between two turns.  A refresh, and Kubernetes, need never happen.
Spec == /\ Init /\ [][Next]_vars
        /\ \A p \in Procs : WF_vars(Work(p))
        /\ \A u \in Instances : SF_vars(Retry(u))

-----------------------------------------------------------------------------
(***************************************************************************)
(* Properties                                                              *)
(***************************************************************************)

\* A Pod has its claim, without which it never runs: an attempt that failed
\* halfway, its rollback, and a Pod that was taken away cost no Pod its claim, and
\* the next attempt takes up what is left.  Two ways to lose it remain: containers
\* that create the cell at once, where the rollback of one takes the claim of the
\* other's Pod, and an error status for a Pod that was created.  The loss is that
\* of this Pod: once it is gone, the cell that is created next is sound again.
PodHasClaim == pod # "none" /\ ~spoiled => claim \in {"free", "held"}

\* Every session comes to serve, whatever claim or Pod an interrupted attempt
\* left, in whatever order the containers create them, unless the Pod failed and
\* is left there: nothing in the adapter replaces a failed cell.
SessionsServe == \A u \in Instances : <>[](state[u] \in Serving) \/ <>[](pod = "failed")

\* "With zero Node Managers the adapter session must remain PENDING_CAPACITY,
\* never READY." (README.md:53-54): no session becomes READY while the cluster
\* manager has none.
NeverReadyWithoutNode ==
    [][\A u \in Instances : state[u] # "READY" /\ state'[u] = "READY" => node]_vars
=============================================================================
