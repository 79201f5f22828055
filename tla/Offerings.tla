----------------------------- MODULE Offerings -----------------------------
(***************************************************************************)
(* The offerings (flyt:profile) an operator configures, and what becomes   *)
(* of sessions when the configuration changes under them.                  *)
(*                                                                         *)
(* Every container loads the file when it starts, and only then; a file    *)
(* that ServiceConfig.load rejects keeps it from starting.  An offering is *)
(* named in five sections of the file and in Placement.  Admission asks    *)
(* the quota section and Placement, create_session asks the sections of    *)
(* the manager and of the GPU Cells: that the two agree is what load has   *)
(* to see to.                                                              *)
(*                                                                         *)
(* A session operation is one step, and calls do not fail; Lifecycle and   *)
(* SharedStore are about those.  A quota here is zero or not reached.      *)
(***************************************************************************)
EXTENDS SessionStates, Integers

CONSTANTS
    Instances,      \* Nova instances with a Flyt flavor
    Offerings,      \* values of flyt:profile
    CellProfiles,   \* physical profiles of GPU Cells
    OfferingOf,     \* [Instances -> Offerings], the flavor of the instance
    Contents,       \* what an operator may put into the file
    Reconciler,     \* the container of the repair loop
    Frontends,      \* the other containers: adapter, nova-notifications
    NotRunning,     \* configuration of a container that has not started
    MaxChanges      \* bound of the model on edits of the file and kills

Procs == {Reconciler} \union Frontends

\* inventory, sized and mapped are the keys of "inventory", of the profiles of
\* "flyt_manager" and of "session_profiles", limited those with a quota.
Content == [cells     : BOOLEAN,              \* kubernetes_gpu_cells is there
            manager   : BOOLEAN,              \* flyt_manager is there
            inventory : SUBSET Offerings,
            limited   : SUBSET Offerings,
            sized     : SUBSET Offerings,
            mapped    : SUBSET Offerings,
            target    : [Offerings -> CellProfiles],
            defined   : SUBSET CellProfiles]

ASSUME OfferingsTypes == /\ OfferingOf \in [Instances -> Offerings]
                         /\ Contents \subseteq Content
                         /\ NotRunning \notin Content
                         /\ Reconciler \notin Frontends
                         /\ MaxChanges \in Nat

VARIABLES
    file,      \* config.json as it is now
    runs,      \* the configuration each container loaded
    pools,     \* offerings with an inventory in Placement
    vm,        \* what Nova has of each instance: none, active or gone
    state,     \* state of its session
    under,     \* the configuration it was admitted under
    pods,      \* physical profiles whose GPU Cell has a Pod
    changes    \* edits and kills that happened

vars == <<file, runs, pools, vm, state, under, pods, changes>>

TypeOK == /\ file  \in Contents
          /\ runs  \in [Procs -> Contents \union {NotRunning}]
          /\ pools \subseteq Offerings
          /\ vm    \in [Instances -> {"none", "active", "gone"}]
          /\ state \in [Instances -> States]
          /\ under \in [Instances -> Contents \union {NotRunning}]
          /\ pods  \subseteq CellProfiles
          /\ changes \in 0..MaxChanges
          /\ \A u \in Instances : under[u] = NotRunning => state[u] = "ABSENT"

Init == /\ file  \in Contents
        /\ runs  = [p \in Procs |-> NotRunning]
        /\ pools = {}
        /\ vm    = [u \in Instances |-> "none"]
        /\ state = [u \in Instances |-> "ABSENT"]
        /\ under = [u \in Instances |-> NotRunning]
        /\ pods  = {}
        /\ changes = 0

-----------------------------------------------------------------------------
(***************************************************************************)
(* ServiceConfig.load                                                      *)
(***************************************************************************)
\* Mutant: the offerings of the quotas are not looked at.
AcceptsAnyQuota(c) ==
    c.cells => /\ c.manager
               /\ c.mapped # {} /\ c.defined # {}
               /\ {c.target[f] : f \in c.mapped} \subseteq c.defined
               /\ c.sized = c.mapped
               /\ c.inventory = c.mapped

\* Without GPU Cells no section is compared with another one.
Accepted(c) ==
    c.cells => /\ c.manager
               /\ c.mapped # {} /\ c.defined # {}
               /\ {c.target[f] : f \in c.mapped} \subseteq c.defined
               /\ c.sized = c.mapped
               /\ c.inventory = c.mapped
               /\ c.limited \subseteq c.mapped

\* create_session of the backend that Application.build chooses: it gets to a
\* Pod, and it does not raise for a name it does not know.
GetsCell(c, f)   == c.cells /\ f \in c.mapped /\ c.target[f] \in pods \union c.defined
Creatable(c, f) == /\ c.cells => GetsCell(c, f)
                   /\ c.manager => f \in c.sized

EnsureCell(c, f) == pods' = IF GetsCell(c, f) THEN pods \union {c.target[f]} ELSE pods

-----------------------------------------------------------------------------
Edit(c) == /\ changes < MaxChanges
           /\ changes' = changes + 1
           /\ file' = c
           /\ UNCHANGED <<runs, pools, vm, state, under, pods>>

\* The container is stopped or killed.
Killed(p) == /\ runs[p] # NotRunning
             /\ changes < MaxChanges
             /\ changes' = changes + 1
             /\ runs' = [runs EXCEPT ![p] = NotRunning]
             /\ UNCHANGED <<file, pools, vm, state, under, pods>>

\* main: load raises, or the container runs with what is in the file now.
Starts(p) == /\ runs[p] = NotRunning
             /\ Accepted(file)
             /\ runs' = [runs EXCEPT ![p] = file]
             /\ UNCHANGED <<file, pools, vm, state, under, pods, changes>>

\* The placement-sync Job: offerings that are no longer in the file stay.
Sync == /\ Accepted(file)
        /\ pools' = pools \union file.inventory
        /\ UNCHANGED <<file, runs, vm, state, under, pods, changes>>

NovaBuilds(u) == /\ vm[u] = "none"
                 /\ OfferingOf[u] \in pools
                 /\ vm' = [vm EXCEPT ![u] = "active"]
                 /\ UNCHANGED <<file, runs, pools, state, under, pods, changes>>

NovaDeletes(u) == /\ vm[u] = "active"
                  /\ vm' = [vm EXCEPT ![u] = "gone"]
                  /\ UNCHANGED <<file, runs, pools, state, under, pods, changes>>

-----------------------------------------------------------------------------
\* The consumer must have its allocation, and the project a quota.
AdmitBuild(p, u) ==
    /\ runs[p] # NotRunning
    /\ vm[u] = "active"
    /\ state[u] \in Admittable
    /\ OfferingOf[u] \in runs[p].limited
    /\ state' = [state EXCEPT ![u] = "RESERVED"]
    /\ under' = [under EXCEPT ![u] = runs[p]]
    /\ UNCHANGED <<file, runs, pools, vm, pods, changes>>

\* Mutant: the loop goes on after a session that raises.
StartSurvives(p, u) ==
    /\ runs[p] # NotRunning
    /\ vm[u] = "active"
    /\ state[u] \in Startable
    /\ EnsureCell(runs[p], OfferingOf[u])
    /\ IF Creatable(runs[p], OfferingOf[u])
       THEN \E s \in Serving : state' = [state EXCEPT ![u] = s]
       ELSE state' = [state EXCEPT ![u] = "STARTING"]
    /\ UNCHANGED <<file, runs, pools, vm, under, changes>>

\* instance_active.  What it raises is an answer of the handlers and the end of
\* the reconciler's process; the session is left in STARTING.
InstanceActive(p, u) ==
    /\ runs[p] # NotRunning
    /\ vm[u] = "active"
    /\ state[u] \in Startable
    /\ EnsureCell(runs[p], OfferingOf[u])
    /\ \/ /\ Creatable(runs[p], OfferingOf[u])
          /\ \E s \in Serving : state' = [state EXCEPT ![u] = s]
          /\ UNCHANGED runs
       \/ /\ ~Creatable(runs[p], OfferingOf[u])
          /\ state' = [state EXCEPT ![u] = "STARTING"]
          /\ runs'  = IF p = Reconciler THEN [runs EXCEPT ![p] = NotRunning] ELSE runs
    /\ UNCHANGED <<file, pools, vm, under, changes>>

\* instance_active of a PENDING_CAPACITY session; the reconciler leaves it alone.
RefreshSession(p, u) ==
    /\ p \in Frontends
    /\ runs[p] # NotRunning
    /\ vm[u] = "active"
    /\ state[u] = "PENDING_CAPACITY"
    /\ GetsCell(runs[p], OfferingOf[u])
    /\ EnsureCell(runs[p], OfferingOf[u])
    /\ \E s \in Serving : state' = [state EXCEPT ![u] = s]
    /\ UNCHANGED <<file, runs, pools, vm, under, changes>>

\* Mutant: the state of the local copy is written before the last one.
DeletePersistsDraining(p, u) ==
    /\ runs[p] # NotRunning
    /\ vm[u] = "gone"
    /\ state[u] \notin Admittable
    /\ state' = [state EXCEPT ![u] = "DRAINING"]
    /\ UNCHANGED <<file, runs, pools, vm, under, pods, changes>>

\* Mutant: a session is only deleted by a container that knows its offering.
DeleteKnown(p, u) ==
    /\ runs[p] # NotRunning
    /\ vm[u] = "gone"
    /\ state[u] \notin Admittable
    /\ Creatable(runs[p], OfferingOf[u])
    /\ state' = [state EXCEPT ![u] = "DELETED"]
    /\ UNCHANGED <<file, runs, pools, vm, under, pods, changes>>

\* No section of the file is asked.
DeleteInstance(p, u) ==
    /\ runs[p] # NotRunning
    /\ vm[u] = "gone"
    /\ state[u] \notin Admittable
    /\ state' = [state EXCEPT ![u] = "DELETED"]
    /\ UNCHANGED <<file, runs, pools, vm, under, pods, changes>>

-----------------------------------------------------------------------------
Next == \/ \E c \in Contents : Edit(c)
        \/ \E p \in Procs : Killed(p) \/ Starts(p)
        \/ Sync
        \/ \E u \in Instances : NovaBuilds(u) \/ NovaDeletes(u)
        \/ \E p \in Procs, u \in Instances :
              \/ AdmitBuild(p, u) \/ InstanceActive(p, u)
              \/ RefreshSession(p, u) \/ DeleteInstance(p, u)

\* A container is started again for as long as it takes, and a turn of the
\* loop gets to every session unless it ends before.  Nothing is assumed of
\* the frontends, of Nova, of the operator or of the Job.
Fairness == /\ WF_vars(Starts(Reconciler))
            /\ \A u \in Instances : /\ WF_vars(InstanceActive(Reconciler, u))
                                    /\ WF_vars(DeleteInstance(Reconciler, u))

Spec == Init /\ [][Next]_vars /\ Fairness

-----------------------------------------------------------------------------
(***************************************************************************)
(* Properties                                                              *)
(***************************************************************************)

\* With GPU Cells no session is admitted that the configuration it was admitted
\* under cannot create: Nova may still schedule onto the pool of an offering that
\* was taken out of the file, and the quota section is all that then refuses it.
AdmittedCanBeCreated ==
    \A u \in Instances :
        state[u] \in Startable /\ under[u].cells => Creatable(under[u], OfferingOf[u])

\* Once the file offers, and goes on offering, what every instance asks for, each
\* session whose VM runs is started, even if the reconciler runs with an older
\* file and raises for it: what it raises makes it load the file again.
StartedOnceOffered ==
    LET offersAll == Accepted(file) /\ \A u \in Instances : Creatable(file, OfferingOf[u])
    IN  <>[]offersAll =>
            \A u \in Instances : (state[u] \in Startable /\ vm[u] = "active")
                                    ~> (state[u] \notin Startable \/ vm[u] # "active")

\* The session of a VM that is gone ends, although its offering may have been
\* taken out of the file in the meantime, as long as the file is one that loads
\* and can start the sessions of the VMs that run.
GoneSessionsEndAnyway ==
    LET loads == Accepted(file) /\ \A u \in Instances :
                    state[u] \in Startable /\ vm[u] = "active" => Creatable(file, OfferingOf[u])
    IN  <>[]loads => \A u \in Instances : (vm[u] = "gone") ~> (state[u] \in Admittable)
=============================================================================
