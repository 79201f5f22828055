--------------------------- MODULE PlacementSync ---------------------------
(***************************************************************************)
(* The placement-sync Job: PlacementInventoryManager.ensure_profile        *)
(* (openstack.py) for every profile of the configuration (__main__.py).    *)
(* It gives each profile a resource provider in Placement (a pool) with an *)
(* inventory and two traits, and puts the pool and the compute providers   *)
(* into one aggregate, so that Nova's scheduler shares the pool with them. *)
(*                                                                         *)
(* One step is one request.  Placement refuses a PUT whose generation of   *)
(* the provider is not the current one (409), and Nova and operators write *)
(* to the same providers.  Of a generation that was read only one thing    *)
(* matters, whether it is still current: fresh.  Any error ends the        *)
(* program, and the Job starts it again up to Backoff times; Kubernetes    *)
(* may also start the program of one Job twice.                            *)
(***************************************************************************)
EXTENDS Integers, FiniteSets

CONSTANTS
    Syncs,       \* programs Kubernetes may run for the Job at the same time
    Pools,       \* profiles of the inventory, each with its own provider
    Computes,    \* compute_provider_uuids
    Shared,      \* aggregate_uuid
    Others,      \* aggregates of somebody else
    Traits,      \* CUSTOM_FLYT_REMOTE_GPU, MISC_SHARES_VIA_AGGREGATE
    NoProvider,  \* a program that is not running works on none
    Backoff,     \* backoffLimit of the Job
    MaxFaults    \* bound of the model on faults and on writes that disturb

ASSUME ProviderNames  == /\ NoProvider \notin Pools \union Computes
                         /\ Pools \intersect Computes = {}
                         /\ Traits \intersect Pools = {}
ASSUME AggregateNames == Shared \notin Others
ASSUME PoolsFinite    == IsFiniteSet(Pools) /\ IsFiniteSet(Computes) /\ Pools # {}
ASSUME CounterBounds  == Backoff \in Nat /\ MaxFaults \in Nat

VARIABLES
    declared,    \* resource classes (named by their pool) and traits of Placement
    provider,    \* what Placement has of each provider
    task,        \* the request each program is about to make
    failures,    \* attempts of the Job that failed
    faults,      \* faults and disturbances that happened
    overlapped   \* two programs of the Job ran at the same time

vars == <<declared, provider, task, failures, faults, overlapped>>

Providers  == Pools \union Computes
Aggregates == Others \union {Shared}
Provider   == [there : BOOLEAN, inventory : BOOLEAN, traits : BOOLEAN,
               aggregates : SUBSET Aggregates]

\* off and done are between attempts and at the end; the others name a request.
Reads  == {"look", "inventory generation", "trait generation", "aggregates"}
Writes == {"declare", "create", "inventory", "traits", "share"}
Steps  == {"off", "done"} \union Reads \union Writes

Task == [step  : Steps,
         todo  : SUBSET Pools,                    \* profiles not yet ensured
         pool  : Pools \union {NoProvider},       \* the profile being ensured
         at    : Providers \union {NoProvider},   \* the provider of the request
         rest  : SUBSET Computes,                 \* _ensure_aggregate still to come
         read  : SUBSET Aggregates,               \* aggregates that were read
         fresh : BOOLEAN]                         \* the generation read is current

Resting(step) == [step |-> step, todo |-> {}, pool |-> NoProvider, at |-> NoProvider,
                  rest |-> {}, read |-> {}, fresh |-> FALSE]

Running(s) == task[s].step \notin {"off", "done"}

TypeOK == /\ declared \subseteq Pools \union Traits
          /\ provider \in [Providers -> Provider]
          /\ task \in [Syncs -> Task]
          /\ \A s \in Syncs : Running(s) =>
                /\ task[s].pool \in task[s].todo
                /\ task[s].at # task[s].pool => task[s].step \in {"aggregates", "share"}
                                               /\ task[s].at \in Computes
          /\ failures \in Nat
          /\ faults \in 0..MaxFaults
          /\ overlapped \in BOOLEAN

Init == /\ declared \in SUBSET Traits
        /\ provider \in {f \in [Providers -> Provider] :
              /\ \A k \in Pools : f[k] = [there |-> FALSE, inventory |-> FALSE,
                                          traits |-> FALSE, aggregates |-> {}]
              /\ \A c \in Computes : /\ f[c].there /\ f[c].inventory /\ ~f[c].traits
                                     /\ Shared \notin f[c].aggregates}
        /\ task = [s \in Syncs |-> Resting("off")]
        /\ failures = 0
        /\ faults = 0
        /\ overlapped = FALSE

-----------------------------------------------------------------------------
JobFailed  == failures > Backoff
At(s, step) == task[s].step = step
Here(s)    == provider[task[s].at]

\* The first request of ensure_profile for a profile that is left.
EnsureProfiles(todo) ==
    {[Resting("declare") EXCEPT !.todo = todo, !.pool = k, !.at = k] : k \in todo}

\* Mutant: provider_id is that of the profile before.
AfterAggregateOldProvider(t) ==
    IF t.rest # {} THEN {[t EXCEPT !.step = "aggregates", !.at = c, !.rest = @ \ {c},
                                   !.read = {}, !.fresh = FALSE] : c \in t.rest}
    ELSE IF t.todo # {t.pool} THEN {[n EXCEPT !.at = t.at] : n \in EnsureProfiles(t.todo \ {t.pool})}
    ELSE {Resting("done")}

\* _ensure_aggregate of each compute provider, then the next profile.
AfterAggregate(t) ==
    IF t.rest # {} THEN {[t EXCEPT !.step = "aggregates", !.at = c, !.rest = @ \ {c},
                                   !.read = {}, !.fresh = FALSE] : c \in t.rest}
    ELSE IF t.todo # {t.pool} THEN EnsureProfiles(t.todo \ {t.pool})
    ELSE {Resting("done")}

Continue(s, next) == task' = [task EXCEPT ![s] = next]

\* The program ends with an error, and the Job counts it.
Fail(s, tasks) == /\ task' = [tasks EXCEPT ![s] = Resting("off")]
                  /\ failures' = failures + 1

\* A write to provider p: no generation of it that was read is current any more.
Outdated(p) == [s \in Syncs |-> IF task[s].at = p THEN [task[s] EXCEPT !.fresh = FALSE] ELSE task[s]]

-----------------------------------------------------------------------------
(***************************************************************************)
(* Requests                                                                *)
(***************************************************************************)
\* Mutant: a provider that an earlier attempt has created is created again.
LookBlindly(s) == At(s, "look") /\ Continue(s, [task[s] EXCEPT !.step = "create"])

Look(s) ==
    /\ At(s, "look")
    /\ Continue(s, [task[s] EXCEPT !.step = IF Here(s).there THEN "inventory generation"
                                                             ELSE "create"])

\* _generation, once for each of the two PUTs
ReadGeneration(s) ==
    \/ /\ At(s, "inventory generation")
       /\ Continue(s, [task[s] EXCEPT !.step = "inventory", !.fresh = TRUE])
    \/ /\ At(s, "trait generation")
       /\ Continue(s, [task[s] EXCEPT !.step = "traits", !.fresh = TRUE])

\* Mutant: a provider that is in the aggregate ends ensure_profile.
ReadAggregatesReturns(s) ==
    /\ At(s, "aggregates")
    /\ \/ /\ Shared \notin Here(s).aggregates
          /\ Continue(s, [task[s] EXCEPT !.step = "share", !.fresh = TRUE,
                                         !.read = Here(s).aggregates])
       \/ /\ Shared \in Here(s).aggregates
          /\ \E next \in AfterAggregate([task[s] EXCEPT !.rest = {}]) : Continue(s, next)

\* The aggregates and the generation come in one answer; nothing is written if
\* the aggregate is among them.
ReadAggregates(s) ==
    /\ At(s, "aggregates")
    /\ \/ /\ Shared \notin Here(s).aggregates
          /\ Continue(s, [task[s] EXCEPT !.step = "share", !.fresh = TRUE,
                                         !.read = Here(s).aggregates])
       \/ /\ Shared \in Here(s).aggregates
          /\ \E next \in AfterAggregate(task[s]) : Continue(s, next)

Read(s) == /\ Look(s) \/ ReadGeneration(s) \/ ReadAggregates(s)
           /\ UNCHANGED <<declared, provider, failures, faults, overlapped>>

\* Mutant: aggregates are written without a generation (microversions before 1.19).
AcceptedUnchecked(s) == CASE At(s, "create")    -> ~Here(s).there
                          [] At(s, "inventory") -> task[s].fresh /\ task[s].pool \in declared
                          [] At(s, "traits")    -> task[s].fresh /\ Traits \subseteq declared
                          [] OTHER              -> TRUE

\* Placement refuses a provider that is there, a generation that is not
\* current, and a resource class or a trait that it does not know.
Accepted(s) == CASE At(s, "declare")   -> TRUE
                 [] At(s, "create")    -> ~Here(s).there
                 [] At(s, "inventory") -> task[s].fresh /\ task[s].pool \in declared
                 [] At(s, "traits")    -> task[s].fresh /\ Traits \subseteq declared
                 [] At(s, "share")     -> task[s].fresh

\* What the request writes.
Written(s) == CASE At(s, "create")    -> [Here(s) EXCEPT !.there = TRUE]
                [] At(s, "inventory") -> [Here(s) EXCEPT !.inventory = TRUE]
                [] At(s, "traits")    -> [Here(s) EXCEPT !.traits = TRUE]
                [] At(s, "share")     -> [Here(s) EXCEPT !.aggregates = task[s].read \union {Shared}]
                [] OTHER              -> Here(s)

\* Mutant: the traits are forgotten.
FollowingWithoutTraits(s) ==
    CASE At(s, "declare")   -> {[task[s] EXCEPT !.step = "look"]}
      [] At(s, "create")    -> {[task[s] EXCEPT !.step = "inventory generation"]}
      [] At(s, "inventory") -> {[task[s] EXCEPT !.step = "aggregates", !.rest = Computes,
                                                !.fresh = FALSE]}
      [] OTHER              -> AfterAggregate(task[s])

\* Mutant: one generation for both PUTs.
FollowingOneGeneration(s) ==
    CASE At(s, "declare")   -> {[task[s] EXCEPT !.step = "look"]}
      [] At(s, "create")    -> {[task[s] EXCEPT !.step = "inventory generation"]}
      [] At(s, "inventory") -> {[task[s] EXCEPT !.step = "traits", !.fresh = FALSE]}
      [] At(s, "traits")    -> {[task[s] EXCEPT !.step = "aggregates", !.rest = Computes,
                                                !.fresh = FALSE]}
      [] At(s, "share")     -> AfterAggregate(task[s])

\* What comes after it.
Following(s) ==
    CASE At(s, "declare")   -> {[task[s] EXCEPT !.step = "look"]}
      [] At(s, "create")    -> {[task[s] EXCEPT !.step = "inventory generation"]}
      [] At(s, "inventory") -> {[task[s] EXCEPT !.step = "trait generation", !.fresh = FALSE]}
      [] At(s, "traits")    -> {[task[s] EXCEPT !.step = "aggregates", !.rest = Computes,
                                                !.fresh = FALSE]}
      [] At(s, "share")     -> AfterAggregate(task[s])

\* The resource class and the traits are three PUTs that change nothing once
\* they are there.
TakesEffect(s) ==
    /\ provider' = [provider EXCEPT ![task[s].at] = Written(s)]
    /\ declared' = IF At(s, "declare") THEN declared \union Traits \union {task[s].pool}
                                       ELSE declared

Write(s) ==
    /\ task[s].step \in Writes /\ Accepted(s)
    /\ TakesEffect(s)
    /\ \E next \in Following(s) : task' = [Outdated(task[s].at) EXCEPT ![s] = next]
    /\ UNCHANGED <<failures, faults, overlapped>>

\* 409, or another refusal, which no handler catches.
Refused(s) ==
    /\ task[s].step \in Writes /\ ~Accepted(s)
    /\ Fail(s, task)
    /\ UNCHANGED <<declared, provider, faults, overlapped>>

\* The request fails, its answer is lost, or the program is killed: what it
\* writes may have been written.
Fault(s) ==
    /\ Running(s)
    /\ faults < MaxFaults /\ faults' = faults + 1
    /\ \/ /\ UNCHANGED <<declared, provider>> /\ Fail(s, task)
       \/ /\ task[s].step \in Writes /\ Accepted(s)
          /\ TakesEffect(s) /\ Fail(s, Outdated(task[s].at))
       \/ /\ At(s, "declare") /\ UNCHANGED provider /\ Fail(s, task)
          /\ \E D \in SUBSET (Traits \union {task[s].pool}) : declared' = declared \union D
    /\ UNCHANGED overlapped

-----------------------------------------------------------------------------
(***************************************************************************)
(* The Job, Nova and the operators                                         *)
(***************************************************************************)
\* The first start of the program and every one after an error.
Start(s) ==
    /\ At(s, "off") /\ ~JobFailed
    /\ \E next \in EnsureProfiles(Pools) : Continue(s, next)
    /\ overlapped' = (overlapped \/ \E r \in Syncs \ {s} : Running(r))
    /\ UNCHANGED <<declared, provider, failures, faults>>

\* A claim of Nova on a pool, or Nova's own update of a compute provider: a new
\* generation, which concerns a program that has read the one before it.
Claim(p) ==
    /\ \E s \in Syncs : task[s].at = p /\ task[s].fresh
    /\ p \in Pools => provider[p].inventory
    /\ faults < MaxFaults /\ faults' = faults + 1
    /\ task' = Outdated(p)
    /\ UNCHANGED <<declared, provider, failures, overlapped>>

\* An operator adds a compute provider to an aggregate, or takes it out.
Reassign(c) ==
    /\ \E a \in Others :
          provider' = [provider EXCEPT ![c].aggregates = IF a \in @ THEN @ \ {a} ELSE @ \union {a}]
    /\ \/ faults < MaxFaults /\ faults' = faults + 1
       \/ task = Outdated(c) /\ UNCHANGED faults
    /\ task' = Outdated(c)
    /\ UNCHANGED <<declared, failures, overlapped>>

-----------------------------------------------------------------------------
Next == \/ \E s \in Syncs : Start(s) \/ Read(s) \/ Write(s) \/ Refused(s) \/ Fault(s)
        \/ \E p \in Providers : Claim(p)
        \/ \E c \in Computes : Reassign(c)

\* Each request has a timeout, and the Job starts the program again.
Spec == Init /\ [][Next]_vars
        /\ \A s \in Syncs : WF_vars(Start(s) \/ Read(s) \/ Write(s) \/ Refused(s))

-----------------------------------------------------------------------------
(***************************************************************************)
(* Properties                                                              *)
(***************************************************************************)
Ensured(k) == /\ provider[k].inventory /\ provider[k].traits
              /\ \A p \in {k} \union Computes : Shared \in provider[p].aggregates

\* The scheduler sees a pool only when it is whole: wherever a program stops,
\* a pool in the aggregate has its inventory and traits, and a compute provider
\* is in it only when some pool is.
SharedOnlyWhenWhole ==
    /\ \A k \in Pools : Shared \in provider[k].aggregates
                          => provider[k].inventory /\ provider[k].traits
    /\ \A c \in Computes : Shared \in provider[c].aggregates
                          => \E k \in Pools : Shared \in provider[k].aggregates

\* A program that ends without an error leaves every profile as configured,
\* also if another one or Nova wrote at the same time.
DoneMeansEnsured == \A s \in Syncs, k \in Pools : At(s, "done") => Ensured(k)

\* What an attempt that was interrupted leaves never makes the next one fail:
\* one program alone fails only as often as it is disturbed.
FailsOnlyWhenDisturbed == ~overlapped => failures <= faults

\* A program never takes a provider out of an aggregate, nor puts it back into
\* one an operator has taken it out of.
ForeignAggregatesKept ==
    [][(\E s \in Syncs : task'[s].step # task[s].step)
          => \A p \in Providers : provider'[p].aggregates \ {Shared}
                                    = provider[p].aggregates \ {Shared}]_vars

\* A Job that is started and disturbed at most Backoff times offers every
\* profile in the end.
Completes == (\E s \in Syncs : Running(s))
                ~> (\/ \A k \in Pools : Ensured(k)
                    \/ overlapped \/ faults > Backoff)
=============================================================================
