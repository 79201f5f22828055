------------------------ MODULE PlacementSyncProofs ------------------------
(***************************************************************************)
(* Proofs about PlacementSync, for every set of profiles, compute          *)
(* providers and aggregates, any number of programs of the Job and any     *)
(* number of faults: Placement offers a profile only when it is whole, a   *)
(* program that ends has left every profile as configured, and one alone   *)
(* fails only as often as it is disturbed.                                 *)
(***************************************************************************)
EXTENDS PlacementSync, TLAPS

USE ProviderNames, AggregateNames, CounterBounds

-----------------------------------------------------------------------------
(***************************************************************************)
(* Requests                                                                *)
(***************************************************************************)
Sharing == {"aggregates", "share"}

\* A task of a program that runs is about one of its profiles, and at a compute
\* provider only while it puts them into the aggregate.
Proper(t) == /\ t \in Task
             /\ t.step \notin {"off", "done"} =>
                   /\ t.pool \in t.todo
                   /\ (t.at # t.pool => t.step \in Sharing /\ t.at \in Computes)

\* u goes on with the same profile at the same provider.
SameWork(t, u) == u.todo = t.todo /\ u.pool = t.pool /\ u.at = t.at /\ u.rest = t.rest

LEMMA ProperTasks == TypeOK <=> /\ declared \subseteq Pools \union Traits
                                /\ provider \in [Providers -> Provider]
                                /\ task \in [Syncs -> Task]
                                /\ \A s \in Syncs : Proper(task[s])
                                /\ failures \in Nat
                                /\ faults \in 0..MaxFaults
                                /\ overlapped \in BOOLEAN
BY DEF TypeOK, Proper, Running, Sharing

LEMMA ProperAt ==
    ASSUME NEW t, Proper(t), t.step \notin {"off", "done"}
    PROVE  t.pool \in Pools /\ t.at \in Providers /\ (t.step \notin Sharing => t.at = t.pool)
BY DEF Proper, Task, Providers

LEMMA Rests ==
    /\ Proper(Resting("off")) /\ Resting("off").step = "off"
    /\ Proper(Resting("done")) /\ Resting("done").step = "done" /\ Resting("done").todo = {}
BY DEF Proper, Resting, Task, Steps

LEMMA EnsuresProfile ==
    ASSUME NEW T \in SUBSET Pools, NEW n \in EnsureProfiles(T)
    PROVE  /\ Proper(n)
           /\ n.step = "declare" /\ n.todo = T
<1>1. PICK k \in T : n = [step |-> "declare", todo |-> T, pool |-> k, at |-> k, rest |-> {},
                          read |-> {}, fresh |-> FALSE]
    BY DEF EnsureProfiles, Resting
<1>2. n \in Task
    BY <1>1 DEF Task, Steps, Writes, Providers
<1> QED BY <1>1, <1>2 DEF Proper

\* A compute provider is next, or a profile, or the program is done.
LEMMA AggregateDone ==
    ASSUME NEW t, Proper(t), t.step \in Sharing, NEW n \in AfterAggregate(t)
    PROVE  /\ Proper(n)
           /\ \/ /\ n.step = "aggregates" /\ n.todo = t.todo /\ n.pool = t.pool
                 /\ \E c \in t.rest : n.at = c /\ n.rest = t.rest \ {c}
              \/ /\ t.rest = {} /\ n.step = "declare" /\ n.todo = t.todo \ {t.pool}
              \/ /\ t.rest = {} /\ n = Resting("done") /\ t.todo = {t.pool}
<1>1. t \in Task /\ t.pool \in t.todo
    BY DEF Proper, Sharing
<1>2. CASE t.rest # {}
    <2>1. PICK c \in t.rest : n = [t EXCEPT !.step = "aggregates", !.at = c, !.rest = @ \ {c},
                                            !.read = {}, !.fresh = FALSE]
        BY <1>2 DEF AfterAggregate
    <2>2. /\ n.step = "aggregates" /\ n.todo = t.todo /\ n.pool = t.pool
          /\ n.at = c /\ n.rest = t.rest \ {c}
        BY <1>1, <2>1 DEF Task
    <2>3. n \in Task /\ c \in Computes
        BY <1>1, <2>1 DEF Task, Steps, Reads, Providers
    <2> QED BY <1>1, <2>2, <2>3 DEF Proper, Sharing
<1>3. CASE t.rest = {} /\ t.todo # {t.pool}
    <2>1. n \in EnsureProfiles(t.todo \ {t.pool}) /\ t.todo \ {t.pool} \in SUBSET Pools
        BY <1>1, <1>3 DEF AfterAggregate, Task
    <2> QED BY <1>3, <2>1, EnsuresProfile
<1>4. CASE t.rest = {} /\ t.todo = {t.pool}
    BY <1>4, Rests DEF AfterAggregate
<1> QED BY <1>2, <1>3, <1>4

LEMMA AggregateDoneStep ==
    ASSUME NEW t, Proper(t), t.step \in Sharing, NEW n \in AfterAggregate(t)
    PROVE  n.step \in {"aggregates", "declare", "done"}
BY AggregateDone, Rests

\* A read of the program, and what it goes on with.
LEMMA ReadSteps ==
    ASSUME TypeOK, NEW s \in Syncs, Read(s)
    PROVE  \E n : /\ task' = [task EXCEPT ![s] = n] /\ Proper(n)
                  /\ Running(s)
                  /\ \/ /\ SameWork(task[s], n)
                        /\ \/ /\ At(s, "look")
                              /\ \/ n.step = "create" /\ ~Here(s).there
                                 \/ n.step = "inventory generation"
                           \/ At(s, "inventory generation") /\ n.step = "inventory" /\ n.fresh
                           \/ At(s, "trait generation") /\ n.step = "traits" /\ n.fresh
                           \/ /\ At(s, "aggregates") /\ n.step = "share" /\ n.fresh
                              /\ n.read = Here(s).aggregates
                     \/ /\ At(s, "aggregates") /\ Shared \in Here(s).aggregates
                        /\ n \in AfterAggregate(task[s])
<1>1. Proper(task[s]) /\ task[s] \in Task
    BY ProperTasks
<1>2. CASE At(s, "look")
    <2>1. PICK step \in {"create", "inventory generation"} :
             /\ task' = [task EXCEPT ![s] = [task[s] EXCEPT !.step = step]]
             /\ (step = "create" => ~Here(s).there)
        BY <1>2 DEF Read, Look, ReadGeneration, ReadAggregates, Continue, At
    <2> DEFINE n == [task[s] EXCEPT !.step = step]
    <2>2. n \in Task /\ SameWork(task[s], n) /\ n.step = step
        BY <1>1 DEF Task, SameWork, Steps, Reads, Writes
    <2>3. task' = [task EXCEPT ![s] = n]
        BY <2>1
    <2> HIDE DEF n
    <2>4. Proper(n) /\ Running(s)
        BY <1>1, <1>2, <2>2 DEF Proper, SameWork, At, Sharing, Running
    <2> QED BY <1>2, <2>1, <2>2, <2>3, <2>4
<1>2a. CASE At(s, "inventory generation") \/ At(s, "trait generation")
    <2>1. PICK step \in {"inventory", "traits"} :
             /\ task' = [task EXCEPT ![s] = [task[s] EXCEPT !.step = step, !.fresh = TRUE]]
             /\ \/ At(s, "inventory generation") /\ step = "inventory"
                \/ At(s, "trait generation") /\ step = "traits"
        BY <1>2a DEF Read, Look, ReadGeneration, ReadAggregates, Continue, At
    <2> DEFINE n == [task[s] EXCEPT !.step = step, !.fresh = TRUE]
    <2>2. n \in Task /\ SameWork(task[s], n) /\ n.step = step /\ n.fresh
        BY <1>1 DEF Task, SameWork, Steps, Reads, Writes
    <2>3. task' = [task EXCEPT ![s] = n]
        BY <2>1
    <2> HIDE DEF n
    <2>4. Proper(n) /\ Running(s)
        BY <1>1, <1>2a, <2>2 DEF Proper, SameWork, At, Sharing, Running
    <2> QED BY <2>1, <2>2, <2>3, <2>4
<1>3. CASE At(s, "aggregates") /\ Shared \notin Here(s).aggregates
    <2> DEFINE n == [task[s] EXCEPT !.step = "share", !.fresh = TRUE, !.read = Here(s).aggregates]
    <2>1. task' = [task EXCEPT ![s] = n]
        BY <1>3 DEF Read, Look, ReadGeneration, ReadAggregates, Continue, At
    <2>2. task[s].at \in Providers /\ Here(s).aggregates \in SUBSET Aggregates
        BY <1>1, <1>3, ProperAt DEF At, Here, TypeOK, Provider
    <2>3. /\ n \in Task /\ SameWork(task[s], n)
          /\ n.step = "share" /\ n.fresh /\ n.read = Here(s).aggregates
        BY <1>1, <2>2 DEF Task, SameWork, Steps, Writes
    <2> HIDE DEF n
    <2>4. Proper(n) /\ Running(s)
        BY <1>1, <1>3, <2>3 DEF Proper, SameWork, At, Sharing, Running
    <2> QED BY <1>3, <2>1, <2>3, <2>4
<1>4. CASE At(s, "aggregates") /\ Shared \in Here(s).aggregates
    <2>1. PICK n \in AfterAggregate(task[s]) : task' = [task EXCEPT ![s] = n]
        BY <1>4 DEF Read, Look, ReadGeneration, ReadAggregates, Continue, At
    <2>2. Proper(n) /\ Running(s)
        BY <1>1, <1>4, AggregateDone DEF At, Sharing, Running
    <2> QED BY <1>4, <2>1, <2>2
<1> QED BY <1>2, <1>2a, <1>3, <1>4 DEF Read, Look, ReadGeneration, ReadAggregates

\* What comes after a write.
LEMMA WriteSteps ==
    ASSUME TypeOK, NEW s \in Syncs, task[s].step \in Writes, NEW n \in Following(s)
    PROVE  /\ Proper(n)
           /\ \/ /\ SameWork(task[s], n)
                 /\ \/ At(s, "declare") /\ n.step = "look"
                    \/ At(s, "create") /\ n.step = "inventory generation"
                    \/ At(s, "inventory") /\ n.step = "trait generation"
              \/ /\ At(s, "traits") /\ n.step = "aggregates" /\ n.rest = Computes
                 /\ n.todo = task[s].todo /\ n.pool = task[s].pool /\ n.at = task[s].at
              \/ At(s, "share") /\ n \in AfterAggregate(task[s])
<1>1. Proper(task[s]) /\ task[s] \in Task
    BY ProperTasks
<1>2. CASE At(s, "declare") \/ At(s, "create") \/ At(s, "inventory")
    <2>1. /\ n \in Task /\ SameWork(task[s], n)
          /\ \/ At(s, "declare") /\ n.step = "look"
             \/ At(s, "create") /\ n.step = "inventory generation"
             \/ At(s, "inventory") /\ n.step = "trait generation"
        BY <1>1, <1>2 DEF Following, At, Task, SameWork, Steps, Reads
    <2> QED BY <1>1, <1>2, <2>1 DEF Proper, SameWork, At, Sharing
<1>3. CASE At(s, "traits")
    <2>1. n = [task[s] EXCEPT !.step = "aggregates", !.rest = Computes, !.fresh = FALSE]
        BY <1>3 DEF Following, At
    <2>2. /\ n \in Task /\ n.step = "aggregates" /\ n.rest = Computes
          /\ n.todo = task[s].todo /\ n.pool = task[s].pool /\ n.at = task[s].at
        BY <1>1, <2>1 DEF Task, Steps, Reads
    <2> QED BY <1>1, <1>3, <2>2 DEF Proper, At, Sharing
<1>4. CASE At(s, "share")
    <2>1. n \in AfterAggregate(task[s])
        BY <1>4 DEF Following, At
    <2> QED BY <1>1, <1>4, <2>1, AggregateDone DEF At, Sharing
<1> QED BY <1>2, <1>3, <1>4 DEF Writes, At

\* The others only learn that what they have read is not current any more.
Aged(r) == /\ task'[r] \in Task /\ task'[r].step = task[r].step
           /\ SameWork(task[r], task'[r]) /\ task'[r].read = task[r].read
           /\ (task'[r].fresh => /\ task[r].fresh
                                 /\ task[r].at \in Providers =>
                                      provider'[task[r].at] = provider[task[r].at])

LEMMA OutdatedTyped ==
    ASSUME TypeOK, NEW p
    PROVE  Outdated(p) \in [Syncs -> Task]
<1>1. ASSUME NEW r \in Syncs
      PROVE  task[r] \in Task /\ [task[r] EXCEPT !.fresh = FALSE] \in Task
    <2>1. task[r] \in Task
        BY DEF TypeOK
    <2> QED BY <2>1 DEF Task
<1>2. \A r \in Syncs :
         (IF task[r].at = p THEN [task[r] EXCEPT !.fresh = FALSE] ELSE task[r]) \in Task
    BY <1>1
<1> QED BY <1>2, Zenon DEF Outdated

LEMMA OutdatedTasks ==
    ASSUME TypeOK, NEW p, NEW s \in Syncs
    PROVE  /\ Outdated(p)[s] \in Task
           /\ Outdated(p)[s].step = task[s].step /\ SameWork(task[s], Outdated(p)[s])
           /\ Outdated(p)[s].read = task[s].read
           /\ (Outdated(p)[s].fresh => task[s].fresh /\ task[s].at # p)
<1>1. task[s] \in Task
    BY DEF TypeOK
<1>2. Outdated(p)[s] \in Task
    BY OutdatedTyped
<1>3. Outdated(p)[s] = IF task[s].at = p THEN [task[s] EXCEPT !.fresh = FALSE] ELSE task[s]
    BY DEF Outdated
<1> QED BY <1>1, <1>2, <1>3 DEF SameWork, Task

-----------------------------------------------------------------------------
(***************************************************************************)
(* Steps: what each action does to the tasks and to Placement              *)
(***************************************************************************)
\* Placement forgets nothing that a program wrote.
Grows == /\ declared \subseteq declared'
         /\ \A p \in Providers :
               /\ (provider[p].there => provider'[p].there)
               /\ (provider[p].inventory => provider'[p].inventory)
               /\ (provider[p].traits => provider'[p].traits)
               /\ (Shared \in provider[p].aggregates => Shared \in provider'[p].aggregates)

PlacementTyped == declared' \subseteq Pools \union Traits /\ provider' \in [Providers -> Provider]

LEMMA EffectTypes ==
    ASSUME TypeOK, NEW s \in Syncs, task[s].step \in Writes, TakesEffect(s)
    PROVE  /\ PlacementTyped /\ Grows
           /\ \A p \in Providers \ {task[s].at} : provider'[p] = provider[p]
           /\ provider'[task[s].at] = Written(s)
<1>1. Proper(task[s]) /\ task[s] \in Task
    BY ProperTasks
<1>2. task[s].at \in Providers /\ task[s].pool \in Pools
    BY <1>1, ProperAt DEF Writes
<1>3. Here(s) \in Provider
    BY <1>2 DEF TypeOK, Here
<1>4. /\ Written(s) \in Provider
      /\ (Here(s).there => Written(s).there) /\ (Here(s).inventory => Written(s).inventory)
      /\ (Here(s).traits => Written(s).traits)
      /\ (Shared \in Here(s).aggregates => Shared \in Written(s).aggregates)
    BY <1>1, <1>3 DEF Written, At, Writes, Provider, Task, Aggregates
<1>5. /\ provider' \in [Providers -> Provider]
      /\ \A p \in Providers \ {task[s].at} : provider'[p] = provider[p]
      /\ provider'[task[s].at] = Written(s)
    BY <1>2, <1>4 DEF TakesEffect, TypeOK
<1>6. declared \subseteq declared' /\ declared' \subseteq Pools \union Traits
    BY <1>2 DEF TakesEffect, TypeOK
<1> QED BY <1>4, <1>5, <1>6 DEF PlacementTyped, Grows, Here

LEMMA WriteForm ==
    ASSUME TypeOK, NEW s \in Syncs, Write(s)
    PROVE  /\ PlacementTyped /\ Grows
           /\ task'[s] \in Following(s) /\ Proper(task'[s])
           /\ task' \in [Syncs -> Task]
           /\ \A r \in Syncs \ {s} : Aged(r)
<1>1. PICK n \in Following(s) : task' = [Outdated(task[s].at) EXCEPT ![s] = n]
    BY DEF Write
<1>2. Proper(n)
    BY WriteSteps DEF Write
<1>3. /\ task' \in [Syncs -> Task] /\ task'[s] = n
      /\ \A r \in Syncs \ {s} : task'[r] = Outdated(task[s].at)[r]
    BY <1>1, <1>2, OutdatedTyped DEF Proper
<1>4. ASSUME NEW r \in Syncs \ {s}
      PROVE  Aged(r)
    <2>1. task'[r].fresh /\ task[r].at \in Providers => provider'[task[r].at] = provider[task[r].at]
        BY <1>3, OutdatedTasks, EffectTypes DEF Write
    <2> QED BY <1>3, <2>1, OutdatedTasks DEF Aged
<1> QED BY <1>1, <1>2, <1>3, <1>4, EffectTypes DEF Write

\* Whoever ends with an error has written what Placement accepted, or part of
\* what it declares, or nothing.
LEMMA FailForm ==
    ASSUME TypeOK, NEW s \in Syncs, Refused(s) \/ Fault(s)
    PROVE  /\ PlacementTyped /\ Grows
           /\ task'[s] = Resting("off") /\ task' \in [Syncs -> Task]
           /\ \A r \in Syncs \ {s} : Aged(r)
           /\ failures' = failures + 1 /\ UNCHANGED overlapped
           /\ \A p \in Providers \ {task[s].at} : provider'[p] = provider[p]
           /\ (UNCHANGED provider \/ (task[s].step \in Writes /\ Accepted(s) /\ TakesEffect(s)))
<1>1. /\ failures' = failures + 1 /\ UNCHANGED overlapped
      /\ (UNCHANGED provider \/ (task[s].step \in Writes /\ Accepted(s) /\ TakesEffect(s)))
    BY DEF Refused, Fault, Fail
<1>2. \/ Fail(s, task) /\ UNCHANGED provider
      \/ Fail(s, Outdated(task[s].at)) /\ task[s].step \in Writes /\ TakesEffect(s)
    BY DEF Refused, Fault
<1>3. \A r \in Syncs : task[r] \in Task
    BY DEF TypeOK
<1>4. Resting("off") \in Task
    BY Rests DEF Proper
<1>5. PlacementTyped /\ Grows
    <2>1. CASE UNCHANGED <<declared, provider>>
        BY <2>1 DEF PlacementTyped, Grows, TypeOK
    <2>2. CASE task[s].step \in Writes /\ TakesEffect(s)
        BY <2>2, EffectTypes
    <2>3. CASE /\ UNCHANGED provider /\ At(s, "declare")
               /\ \E D \in SUBSET (Traits \union {task[s].pool}) : declared' = declared \union D
        <3>1. task[s].pool \in Pools
            BY <2>3, ProperTasks, ProperAt DEF At
        <3> QED BY <2>3, <3>1 DEF PlacementTyped, Grows, TypeOK
    <2> QED BY <2>1, <2>2, <2>3 DEF Refused, Fault
<1>6. CASE Fail(s, task) /\ UNCHANGED provider
    <2>1. task' = [task EXCEPT ![s] = Resting("off")]
        BY <1>6 DEF Fail
    <2>2. /\ task'[s] = Resting("off") /\ task' \in [Syncs -> Task]
          /\ \A r \in Syncs \ {s} : task'[r] = task[r]
        BY <1>4, <2>1 DEF TypeOK
    <2> QED BY <1>1, <1>3, <1>5, <1>6, <2>2 DEF Aged, SameWork
<1>7. CASE Fail(s, Outdated(task[s].at)) /\ task[s].step \in Writes /\ TakesEffect(s)
    <2>1. task' = [Outdated(task[s].at) EXCEPT ![s] = Resting("off")]
        BY <1>7 DEF Fail
    <2>2. /\ task'[s] = Resting("off") /\ task' \in [Syncs -> Task]
          /\ \A r \in Syncs \ {s} : task'[r] = Outdated(task[s].at)[r]
        BY <1>4, <2>1, OutdatedTyped
    <2>3. \A p \in Providers \ {task[s].at} : provider'[p] = provider[p]
        BY <1>7, EffectTypes
    <2>4. ASSUME NEW r \in Syncs \ {s}
          PROVE  Aged(r)
        BY <2>2, <2>3, OutdatedTasks DEF Aged
    <2> QED BY <1>1, <1>5, <2>2, <2>3, <2>4
<1> QED BY <1>2, <1>6, <1>7

LEMMA EnvironmentForm ==
    ASSUME TypeOK, NEW p \in Providers, Claim(p) \/ (p \in Computes /\ Reassign(p))
    PROVE  /\ PlacementTyped /\ Grows
           /\ task' \in [Syncs -> Task]
           /\ \A r \in Syncs : Aged(r)
           /\ faults' \in 0..MaxFaults
           /\ \/ faults' = faults + 1
              \/ faults' = faults /\ task' = task
           /\ \A q \in Providers :
                 /\ provider'[q].there = provider[q].there
                 /\ (Shared \in provider'[q].aggregates => Shared \in provider[q].aggregates)
           /\ UNCHANGED <<declared, failures, overlapped>>
<1>1. /\ faults' \in 0..MaxFaults
      /\ \/ faults' = faults + 1
         \/ faults' = faults /\ task' = task
      /\ UNCHANGED <<declared, failures, overlapped>>
    BY DEF Claim, Reassign, TypeOK
<1>2. /\ PlacementTyped /\ Grows
      /\ \A q \in Providers :
            /\ provider'[q].there = provider[q].there
            /\ (Shared \in provider'[q].aggregates => Shared \in provider[q].aggregates)
      /\ \A q \in Providers \ {p} : provider'[q] = provider[q]
    <2>1. CASE Claim(p)
        BY <2>1 DEF Claim, PlacementTyped, Grows, TypeOK
    <2>2. CASE Reassign(p)
        <3>1. PICK A \in SUBSET Aggregates :
                 /\ provider' = [provider EXCEPT ![p] = [provider[p] EXCEPT !.aggregates = A]]
                 /\ (Shared \in provider[p].aggregates <=> Shared \in A)
            <4>1. provider[p].aggregates \in SUBSET Aggregates
                BY DEF TypeOK, Provider
            <4>2. PICK a \in Others :
                     provider' = [provider EXCEPT ![p].aggregates = IF a \in @ THEN @ \ {a} ELSE @ \union {a}]
                BY <2>2 DEF Reassign
            <4> DEFINE B == provider[p].aggregates
                       A == IF a \in B THEN B \ {a} ELSE B \union {a}
            <4>3. A \in SUBSET Aggregates /\ (Shared \in B <=> Shared \in A)
                BY <4>1 DEF Aggregates
            <4> QED BY <4>2, <4>3
        <3>2. provider[p] \in Provider
            BY DEF TypeOK
        <3> DEFINE n == [provider[p] EXCEPT !.aggregates = A]
        <3>3. /\ n \in Provider /\ n.aggregates = A
              /\ n.there = provider[p].there /\ n.inventory = provider[p].inventory
              /\ n.traits = provider[p].traits
            BY <3>2 DEF Provider
        <3>4. /\ provider' \in [Providers -> Provider] /\ provider'[p] = n
              /\ \A q \in Providers \ {p} : provider'[q] = provider[q]
            BY <3>1, <3>3 DEF TypeOK
        <3> HIDE DEF n
        <3> QED BY <1>1, <3>1, <3>3, <3>4 DEF PlacementTyped, Grows, TypeOK
    <2> QED BY <2>1, <2>2
<1>3. task' = Outdated(p)
    BY DEF Claim, Reassign
<1>4. task' \in [Syncs -> Task]
    BY <1>3, OutdatedTyped
<1>5. ASSUME NEW r \in Syncs
      PROVE  Aged(r)
    <2>1. task'[r] \in Task
        BY <1>4
    <2> QED BY <1>2, <1>3, <2>1, OutdatedTasks DEF Aged
<1> QED BY <1>1, <1>2, <1>4, <1>5

LEMMA StartForm ==
    ASSUME TypeOK, NEW s \in Syncs, Start(s)
    PROVE  /\ task'[s].step = "declare" /\ task'[s].todo = Pools /\ Proper(task'[s])
           /\ \A r \in Syncs \ {s} : task'[r] = task[r]
           /\ task' \in [Syncs -> Task]
<1>1. PICK n \in EnsureProfiles(Pools) : task' = [task EXCEPT ![s] = n]
    BY DEF Start, Continue
<1>2. Proper(n) /\ n.step = "declare" /\ n.todo = Pools
    BY EnsuresProfile
<1> QED BY <1>1, <1>2 DEF TypeOK, Proper

-----------------------------------------------------------------------------
(***************************************************************************)
(* Type correctness                                                        *)
(***************************************************************************)
LEMMA AgedProper == ASSUME NEW r \in Syncs, Proper(task[r]), Aged(r) PROVE Proper(task'[r])
BY DEF Proper, Aged, SameWork

LEMMA NextTypeOK == TypeOK /\ [Next]_vars => TypeOK'
<1> SUFFICES ASSUME TypeOK, [Next]_vars
             PROVE  TypeOK'
    OBVIOUS
<1> USE ProperTasks
<1>0. /\ declared' \subseteq Pools \union Traits
      /\ provider' \in [Providers -> Provider]
      /\ task' \in [Syncs -> Task]
      /\ \A s \in Syncs : Proper(task'[s])
      /\ failures' \in Nat
      /\ faults' \in 0..MaxFaults
      /\ overlapped' \in BOOLEAN
      => TypeOK'
    BY DEF TypeOK, Proper, Running, Sharing
<1>1. ASSUME NEW s \in Syncs, Start(s)
      PROVE  TypeOK'
    <2>1. overlapped' \in BOOLEAN
        BY <1>1 DEF Start
    <2> QED BY <1>0, <1>1, <2>1, StartForm DEF Start
<1>2. ASSUME NEW s \in Syncs, Read(s)
      PROVE  TypeOK'
    <2>1. PICK n : task' = [task EXCEPT ![s] = n] /\ Proper(n)
        BY <1>2, ReadSteps
    <2>2. task' \in [Syncs -> Task] /\ \A r \in Syncs : Proper(task'[r])
        BY <2>1 DEF Proper
    <2> QED BY <1>0, <1>2, <2>2 DEF Read
<1>3. ASSUME NEW s \in Syncs, Write(s)
      PROVE  TypeOK'
    <2>1. \A r \in Syncs : Proper(task'[r])
        BY <1>3, WriteForm, AgedProper
    <2> QED BY <1>0, <1>3, <2>1, WriteForm DEF Write, PlacementTyped
<1>4. ASSUME NEW s \in Syncs, Refused(s) \/ Fault(s)
      PROVE  TypeOK'
    <2>1. \A r \in Syncs : Proper(task'[r])
        BY <1>4, FailForm, AgedProper, Rests
    <2>2. failures' \in Nat /\ faults' \in 0..MaxFaults
        BY <1>4 DEF Refused, Fault, Fail, TypeOK
    <2> QED BY <1>0, <1>4, <2>1, <2>2, FailForm DEF PlacementTyped
<1>5. ASSUME NEW p \in Providers, Claim(p) \/ (p \in Computes /\ Reassign(p))
      PROVE  TypeOK'
    <2>1. \A r \in Syncs : Proper(task'[r])
        BY <1>5, EnvironmentForm, AgedProper
    <2> QED BY <1>0, <1>5, <2>1, EnvironmentForm DEF PlacementTyped
<1>6. CASE UNCHANGED vars
    BY <1>0, <1>6 DEF vars
<1> QED BY <1>1, <1>2, <1>3, <1>4, <1>5, <1>6 DEF Next, Providers

LEMMA InitTypeOK == Init => TypeOK
<1> SUFFICES ASSUME Init
             PROVE  TypeOK
    OBVIOUS
<1>1. task \in [Syncs -> Task] /\ \A s \in Syncs : ~Running(s)
    BY Rests DEF Init, Running, Proper
<1>2. overlapped \in BOOLEAN
    BY DEF Init
<1> QED BY <1>1, <1>2 DEF Init, TypeOK

\* What Placement has and what the programs are doing is of its type: a program
\* is always about one of its profiles, and at a provider Placement may have.
THEOREM TypeCorrect == Spec => []TypeOK
BY InitTypeOK, NextTypeOK, PTL DEF Spec

-----------------------------------------------------------------------------
(***************************************************************************)
(* Programs that end have ensured every profile                            *)
(***************************************************************************)
Declared  == {"look", "create", "inventory generation", "inventory"}
Inventory == {"trait generation", "traits"} \union Sharing

\* What a program did before the request it is about to make is still there.
Done(t) ==
    /\ (t.step # "off" => \A k \in Pools \ t.todo : Ensured(k))
    /\ (t.step = "done" => t.todo = {})
    /\ (t.step \in Declared \union Inventory => t.pool \in declared /\ Traits \subseteq declared)
    /\ (t.step \in Inventory => provider[t.pool].inventory)
    /\ (t.step \in Sharing =>
          /\ provider[t.pool].traits
          /\ \A p \in ({t.pool} \union Computes) \ (t.rest \union {t.at}) :
                Shared \in provider[p].aggregates)

SyncInv == \A s \in Syncs : Done(task[s])

LEMMA EnsuredStays ==
    ASSUME Grows, NEW k \in Pools, Ensured(k)
    PROVE  Ensured(k)'
BY DEF Grows, Ensured, Providers

\* What was done stays done: also for a task u that works as t does.
LEMMA DoneStays ==
    ASSUME Grows, NEW t, Proper(t), Done(t), NEW u, SameWork(t, u),
           u.step \in Inventory => t.step \in Inventory,
           u.step \in Sharing => t.step \in Sharing,
           u.step \in Declared => t.step \in Declared,
           u.step # "off" => t.step # "off", u.step = "done" => t.step = "done"
    PROVE  Done(u)'
<1>1. t.step \in Inventory => t.pool \in Providers
    BY ProperAt DEF Inventory, Sharing, Providers
<1>2. u.step # "off" => \A k \in Pools \ u.todo : Ensured(k)'
    BY EnsuredStays DEF Done, SameWork
<1>3. u.step \in Inventory => provider'[u.pool].inventory
    BY <1>1 DEF Done, SameWork, Grows
<1>4. u.step \in Sharing =>
         /\ provider'[u.pool].traits
         /\ \A p \in ({u.pool} \union Computes) \ (u.rest \union {u.at}) :
               Shared \in provider'[p].aggregates
    BY <1>1 DEF Done, SameWork, Grows, Providers, Inventory
<1>5. u.step \in Declared \union Inventory => u.pool \in declared' /\ Traits \subseteq declared'
    BY DEF Done, SameWork, Grows
<1>6. u.step = "done" => u.todo = {}
    BY DEF Done, SameWork
<1> QED BY <1>2, <1>3, <1>4, <1>5, <1>6 DEF Done

LEMMA DoneAfterAggregate ==
    ASSUME Grows, NEW t, Proper(t), Done(t), t.step \in Sharing,
           Shared \in provider'[t.at].aggregates, NEW n \in AfterAggregate(t)
    PROVE  Done(n)'
<1>1. /\ t.pool \in Pools /\ t.pool \in Providers /\ t.rest \subseteq Computes /\ t.todo \subseteq Pools
    BY ProperAt DEF Proper, Task, Sharing, Providers
<1>2. \A k \in Pools \ t.todo : Ensured(k)'
    BY EnsuredStays DEF Done, Sharing
<1>3. /\ t.pool \in declared' /\ Traits \subseteq declared'
      /\ provider'[t.pool].inventory /\ provider'[t.pool].traits
    BY <1>1 DEF Done, Grows, Inventory
<1>4. \A p \in ({t.pool} \union Computes) \ t.rest : Shared \in provider'[p].aggregates
    BY <1>1 DEF Done, Grows, Providers
<1>5. CASE /\ n.step = "aggregates" /\ n.todo = t.todo /\ n.pool = t.pool
           /\ \E c \in t.rest : n.at = c /\ n.rest = t.rest \ {c}
    BY <1>2, <1>3, <1>4, <1>5 DEF Done
<1>6. CASE t.rest = {}
    <2>1. Ensured(t.pool)'
        BY <1>3, <1>4, <1>6 DEF Ensured
    <2>2. CASE n.step = "declare" /\ n.todo = t.todo \ {t.pool}
        BY <1>2, <2>1, <2>2 DEF Done, Declared, Inventory, Sharing
    <2>3. CASE n = Resting("done") /\ t.todo = {t.pool}
        BY <1>2, <2>1, <2>3, Rests DEF Done, Declared, Inventory, Sharing
    <2> QED BY <1>6, <2>2, <2>3, AggregateDone
<1> QED BY <1>5, <1>6, AggregateDone

LEMMA AgedDone ==
    ASSUME TypeOK, SyncInv, Grows, NEW r \in Syncs, Aged(r)
    PROVE  Done(task[r])'
<1>1. Proper(task[r]) /\ Done(task[r])
    BY ProperTasks DEF SyncInv
<1>2. \A u : u.step = task[r].step /\ SameWork(task[r], u) => Done(u)'
    BY <1>1, DoneStays
<1> QED BY <1>2 DEF Aged, Done

\* The write that precedes a request has done what the request relies on.
LEMMA WriteDone ==
    ASSUME TypeOK, SyncInv, NEW s \in Syncs, Write(s)
    PROVE  Done(task[s])'
<1> DEFINE t == task[s]
           n == task'[s]
<1>1. Proper(t) /\ t \in Task /\ Done(t) /\ t.step \in Writes
    BY ProperTasks DEF SyncInv, Write
<1>2. Grows /\ n \in Following(s) /\ provider'[t.at] = Written(s) /\ TakesEffect(s)
    BY WriteForm, EffectTypes DEF Write
<1>3. t.pool \in Pools /\ (t.step \notin Sharing => t.at = t.pool)
    BY <1>1, ProperAt DEF Writes
<1>4. Here(s) \in Provider
    BY <1>1, ProperAt DEF TypeOK, Here, Writes
<1>5. \A k \in Pools \ t.todo : Ensured(k)'
    BY <1>1, <1>2, EnsuredStays DEF Done, Writes
<1>6. CASE At(s, "declare")
    <2>1. n.step = "look" /\ SameWork(t, n)
        BY <1>1, <1>2, <1>6, WriteSteps DEF At
    <2>2. t.pool \in declared' /\ Traits \subseteq declared'
        BY <1>2, <1>6 DEF TakesEffect
    <2> QED BY <1>5, <2>1, <2>2 DEF Done, SameWork, Inventory, Sharing
<1>7. CASE At(s, "create")
    <2>1. n.step = "inventory generation" /\ SameWork(t, n)
        BY <1>1, <1>2, <1>7, WriteSteps DEF At
    <2>2. t.pool \in declared' /\ Traits \subseteq declared'
        BY <1>1, <1>2, <1>7 DEF Done, Grows, At, Declared
    <2> QED BY <1>5, <2>1, <2>2 DEF Done, SameWork, Inventory, Sharing
<1>8. CASE At(s, "inventory")
    <2>1. n.step = "trait generation" /\ SameWork(t, n)
        BY <1>1, <1>2, <1>8, WriteSteps DEF At
    <2>2. t.pool \in declared' /\ Traits \subseteq declared'
        BY <1>1, <1>2, <1>8 DEF Done, Grows, At, Declared
    <2>3. provider'[t.pool].inventory
        BY <1>2, <1>3, <1>4, <1>8 DEF At, Sharing, Written, Provider
    <2> QED BY <1>5, <2>1, <2>2, <2>3 DEF Done, SameWork, Sharing
<1>9. CASE At(s, "traits")
    <2>1. /\ n.step = "aggregates" /\ n.rest = Computes
          /\ n.todo = t.todo /\ n.pool = t.pool /\ n.at = t.at
        BY <1>1, <1>2, <1>9, WriteSteps DEF At
    <2>2. t.pool \in declared' /\ Traits \subseteq declared' /\ provider'[t.pool].inventory
        BY <1>1, <1>2, <1>3, <1>9 DEF Done, Grows, At, Inventory, Providers
    <2>3. provider'[t.pool].traits /\ t.at = t.pool
        BY <1>2, <1>3, <1>4, <1>9 DEF At, Sharing, Written, Provider
    <2> QED BY <1>5, <2>1, <2>2, <2>3 DEF Done
<1>10. CASE At(s, "share")
    <2>1. n \in AfterAggregate(t) /\ t.step \in Sharing
        BY <1>1, <1>2, <1>10, WriteSteps DEF At, Sharing
    <2>2. Shared \in provider'[t.at].aggregates
        BY <1>2, <1>4, <1>10 DEF At, Written, Provider
    <2>3. \A m \in AfterAggregate(t) : Done(m)'
        BY <1>1, <1>2, <2>1, <2>2, DoneAfterAggregate
    <2> QED BY <2>1, <2>3 DEF Done
<1> QED BY <1>1, <1>6, <1>7, <1>8, <1>9, <1>10 DEF Writes, At

LEMMA ReadDone ==
    ASSUME TypeOK, SyncInv, NEW s \in Syncs, Read(s)
    PROVE  SyncInv'
<1>1. UNCHANGED <<declared, provider>> /\ Grows
    BY DEF Read, Grows
<1>2. Proper(task[s]) /\ Done(task[s])
    BY ProperTasks DEF SyncInv
<1>3. PICK n : /\ task' = [task EXCEPT ![s] = n]
               /\ Running(s)
               /\ \/ /\ SameWork(task[s], n)
                     /\ \/ At(s, "look") /\ n.step \in {"create", "inventory generation"}
                        \/ At(s, "inventory generation") /\ n.step = "inventory"
                        \/ At(s, "trait generation") /\ n.step = "traits"
                        \/ At(s, "aggregates") /\ n.step = "share"
                  \/ /\ At(s, "aggregates") /\ Shared \in Here(s).aggregates
                     /\ n \in AfterAggregate(task[s])
    BY ReadSteps
<1>4. Done(n)'
    <2>1. CASE SameWork(task[s], n) /\ ~(At(s, "aggregates") /\ n \in AfterAggregate(task[s]))
        BY <1>1, <1>2, <1>3, <2>1, DoneStays DEF At, Declared, Inventory, Sharing
    <2>2. CASE At(s, "aggregates") /\ n \in AfterAggregate(task[s]) /\ Shared \in Here(s).aggregates
        BY <1>1, <1>2, <2>2, DoneAfterAggregate DEF At, Sharing, Here
    <2>3. CASE At(s, "aggregates") /\ n.step = "share" /\ SameWork(task[s], n)
        BY <1>1, <1>2, <2>3, DoneStays DEF At, Declared, Inventory, Sharing
    <2> QED BY <1>3, <2>1, <2>2, <2>3 DEF At
<1>5. task'[s] = n /\ \A r \in Syncs \ {s} : task'[r] = task[r]
    BY <1>3 DEF TypeOK
<1>6. ASSUME NEW r \in Syncs \ {s}
      PROVE  Done(task[r])'
    BY <1>1, <1>5 DEF SyncInv, Done, Ensured
<1>7. Done(task[s])'
    BY <1>4, <1>5 DEF Done
<1> QED BY <1>6, <1>7 DEF SyncInv

LEMMA NextSync == TypeOK /\ SyncInv /\ [Next]_vars => SyncInv'
<1> SUFFICES ASSUME TypeOK, SyncInv, [Next]_vars
             PROVE  SyncInv'
    OBVIOUS
<1>1. ASSUME NEW s \in Syncs, Start(s)
      PROVE  SyncInv'
    <2>1. Done(task[s])'
        BY <1>1, StartForm DEF Done, Declared, Inventory, Sharing
    <2>2. \A r \in Syncs \ {s} : Done(task[r])'
        BY <1>1, StartForm DEF Start, SyncInv, Done, Ensured
    <2> QED BY <2>1, <2>2 DEF SyncInv
<1>2. ASSUME NEW s \in Syncs, Write(s)
      PROVE  SyncInv'
    BY <1>2, WriteForm, WriteDone, AgedDone DEF SyncInv
<1>3. ASSUME NEW s \in Syncs, Refused(s) \/ Fault(s)
      PROVE  SyncInv'
    <2>1. Done(task[s])'
        BY <1>3, FailForm, Rests DEF Done, Declared, Inventory, Sharing
    <2> QED BY <1>3, <2>1, FailForm, AgedDone DEF SyncInv
<1>4. ASSUME NEW p \in Providers, Claim(p) \/ (p \in Computes /\ Reassign(p))
      PROVE  SyncInv'
    BY <1>4, EnvironmentForm, AgedDone DEF SyncInv
<1>5. CASE UNCHANGED vars
    BY <1>5 DEF vars, SyncInv, Done, Ensured
<1> QED BY <1>1, <1>2, <1>3, <1>4, <1>5, ReadDone DEF Next, Providers

LEMMA InitSync == Init => SyncInv
BY Rests DEF Init, SyncInv, Done, Declared, Inventory, Sharing

\* A program that ends without an error leaves every profile as configured, also
\* if any number of others, Nova and operators write at the same time.
THEOREM DoneIsEnsured == Spec => []DoneMeansEnsured
<1>1. TypeOK /\ SyncInv => DoneMeansEnsured
    <2> SUFFICES ASSUME SyncInv, TypeOK, NEW s \in Syncs, NEW k \in Pools, At(s, "done")
                 PROVE  Ensured(k)
        BY DEF DoneMeansEnsured
    <2> QED BY DEF SyncInv, Done, At
<1> QED BY <1>1, InitSync, NextSync, TypeCorrect, PTL DEF Spec

-----------------------------------------------------------------------------
(***************************************************************************)
(* Nothing is offered before it is whole                                   *)
(***************************************************************************)
\* A provider comes into the aggregate only by the write of a program at it.
LEMMA OnlyShareOffers ==
    ASSUME TypeOK, [Next]_vars, NEW p \in Providers,
           Shared \notin provider[p].aggregates, Shared \in provider'[p].aggregates
    PROVE  \E s \in Syncs : At(s, "share") /\ task[s].at = p
<1>1. ASSUME NEW s \in Syncs, task[s].step \in Writes, TakesEffect(s)
      PROVE  At(s, "share") /\ task[s].at = p
    <2>1. task[s].at \in Providers
        BY <1>1, ProperTasks, ProperAt DEF Writes
    <2>2. task[s].at = p
        BY <1>1, EffectTypes
    <2>3. Here(s) = provider[p] /\ Here(s) \in Provider /\ provider'[p] = Written(s)
        BY <1>1, <2>1, <2>2, EffectTypes DEF Here, TypeOK
    <2>4. At(s, "share")
        BY <1>1, <2>3 DEF Written, At, Writes, Provider
    <2> QED BY <2>2, <2>4
<1>2. \/ \E s \in Syncs : task[s].step \in Writes /\ TakesEffect(s)
      \/ \E q \in Providers : Claim(q) \/ (q \in Computes /\ Reassign(q))
      \/ UNCHANGED provider
    BY DEF Next, Start, Read, Write, Refused, Fault, Providers, vars
<1> QED BY <1>1, <1>2, EnvironmentForm

LEMMA NextGrows ==
    ASSUME TypeOK, [Next]_vars
    PROVE  Grows
<1>1. UNCHANGED <<declared, provider>> => Grows
    BY DEF Grows
<1> QED BY <1>1, WriteForm, FailForm, EnvironmentForm DEF Next, Start, Read, Providers, vars

LEMMA NextShared == TypeOK /\ SyncInv /\ SharedOnlyWhenWhole /\ [Next]_vars => SharedOnlyWhenWhole'
<1> SUFFICES ASSUME TypeOK, SyncInv, SharedOnlyWhenWhole, [Next]_vars
             PROVE  SharedOnlyWhenWhole'
    OBVIOUS
<1>1. Grows
    BY NextGrows
<1>2. ASSUME NEW s \in Syncs, At(s, "share")
      PROVE  /\ task[s].pool \in Pools
             /\ (task[s].at \in Pools => task[s].at = task[s].pool)
             /\ provider[task[s].pool].inventory /\ provider[task[s].pool].traits
             /\ (task[s].at \in Computes => Shared \in provider[task[s].pool].aggregates)
    <2>1. Proper(task[s]) /\ Done(task[s])
        BY ProperTasks DEF SyncInv
    <2>2. task[s].pool \in Pools /\ task[s].rest \subseteq Computes
        BY <1>2, <2>1, ProperAt DEF At, Proper, Task
    <2> QED BY <1>2, <2>1, <2>2 DEF At, Proper, Done, Inventory, Sharing
<1>3. ASSUME NEW k \in Pools, Shared \in provider'[k].aggregates
      PROVE  provider'[k].inventory /\ provider'[k].traits
    <2>1. k \in Providers
        BY DEF Providers
    <2>2. provider[k].inventory /\ provider[k].traits
        BY <1>2, <1>3, <2>1, OnlyShareOffers DEF SharedOnlyWhenWhole
    <2> QED BY <1>1, <2>1, <2>2 DEF Grows
<1>4. ASSUME NEW c \in Computes, Shared \in provider'[c].aggregates
      PROVE  \E k \in Pools : Shared \in provider'[k].aggregates
    <2>1. c \in Providers
        BY DEF Providers
    <2>2. \E k \in Pools : Shared \in provider[k].aggregates
        BY <1>2, <1>4, <2>1, OnlyShareOffers DEF SharedOnlyWhenWhole
    <2> QED BY <1>1, <2>2 DEF Grows, Providers
<1> QED BY <1>3, <1>4 DEF SharedOnlyWhenWhole

\* Wherever a program stops, Placement offers no profile without its inventory and
\* traits, and a compute provider shares only profiles that are offered.
THEOREM OffersAreWhole == Spec => []SharedOnlyWhenWhole
<1>1. Init => SharedOnlyWhenWhole
    BY DEF Init, SharedOnlyWhenWhole
<1> QED BY <1>1, InitSync, NextSync, NextShared, TypeCorrect, PTL DEF Spec

-----------------------------------------------------------------------------
(***************************************************************************)
(* Aggregates of somebody else                                             *)
(***************************************************************************)
\* What a program has read is what Placement has, as long as it is fresh.
ReadCurrent(s) == At(s, "share") /\ task[s].fresh => task[s].read = Here(s).aggregates

ReadInv == \A s \in Syncs : ReadCurrent(s)

LEMMA AgedRead ==
    ASSUME TypeOK, ReadInv, NEW r \in Syncs, Aged(r)
    PROVE  ReadCurrent(r)'
<1>1. At(r, "share") => task[r].at \in Providers
    BY ProperTasks, ProperAt DEF At
<1> QED BY <1>1 DEF ReadInv, ReadCurrent, Aged, At, Here, SameWork

LEMMA NextRead == TypeOK /\ ReadInv /\ [Next]_vars => ReadInv'
<1> SUFFICES ASSUME TypeOK, ReadInv, [Next]_vars
             PROVE  ReadInv'
    OBVIOUS
<1>1. ASSUME NEW s \in Syncs, Start(s)
      PROVE  ReadInv'
    BY <1>1, StartForm DEF Start, ReadInv, ReadCurrent, At, Here
<1>2. ASSUME NEW s \in Syncs, Read(s)
      PROVE  ReadInv'
    <2>1. PICK n : /\ task' = [task EXCEPT ![s] = n]
                   /\ \/ SameWork(task[s], n) /\ n.step # "share"
                      \/ SameWork(task[s], n) /\ n.read = Here(s).aggregates
                      \/ At(s, "aggregates") /\ n \in AfterAggregate(task[s])
        BY <1>2, ReadSteps
    <2>1a. n.step = "share" => n.read = Here(s).aggregates /\ n.at = task[s].at
        BY <2>1, AggregateDoneStep, ProperTasks DEF SameWork, At, Sharing
    <2>2. task'[s] = n /\ \A r \in Syncs \ {s} : task'[r] = task[r]
        BY <2>1 DEF TypeOK
    <2> QED BY <1>2, <2>1a, <2>2 DEF Read, ReadInv, ReadCurrent, At, Here
<1>3. ASSUME NEW s \in Syncs, Write(s)
      PROVE  ReadInv'
    <2>1. task'[s].step # "share"
        <3>1. task'[s] \in Following(s) /\ Proper(task[s]) /\ task[s].step \in Writes
            BY <1>3, WriteForm, ProperTasks DEF Write
        <3> QED BY <3>1, WriteSteps, AggregateDone, Rests DEF At, Sharing
    <2> QED BY <1>3, <2>1, WriteForm, AgedRead DEF ReadInv, ReadCurrent, At
<1>4. ASSUME NEW s \in Syncs, Refused(s) \/ Fault(s)
      PROVE  ReadInv'
    BY <1>4, FailForm, Rests, AgedRead DEF ReadInv, ReadCurrent, At
<1>5. ASSUME NEW p \in Providers, Claim(p) \/ (p \in Computes /\ Reassign(p))
      PROVE  ReadInv'
    BY <1>5, EnvironmentForm, AgedRead DEF ReadInv
<1>6. CASE UNCHANGED vars
    BY <1>6 DEF vars, ReadInv, ReadCurrent, At, Here
<1> QED BY <1>1, <1>2, <1>3, <1>4, <1>5, <1>6 DEF Next, Providers

\* A program writes the aggregates it has read, and Shared.
LEMMA WritesWhatItRead ==
    ASSUME TypeOK, ReadInv, NEW s \in Syncs, task[s].step \in Writes, Accepted(s), TakesEffect(s),
           NEW p \in Providers
    PROVE  provider'[p].aggregates \ {Shared} = provider[p].aggregates \ {Shared}
<1>1. task[s].at \in Providers
    BY ProperTasks, ProperAt DEF Writes
<1>2. CASE p # task[s].at
    BY <1>2, EffectTypes
<1>3. CASE p = task[s].at
    <2>1. provider'[p] = Written(s) /\ Here(s) = provider[p] /\ Here(s) \in Provider
        BY <1>1, <1>3, EffectTypes DEF Here, TypeOK
    <2>2. At(s, "share") => task[s].fresh /\ task[s].read = provider[p].aggregates
        BY <2>1 DEF Accepted, At, ReadInv, ReadCurrent
    <2> QED BY <2>1, <2>2 DEF Written, At, Writes, Provider
<1> QED BY <1>2, <1>3

\* A program never takes a provider out of an aggregate of somebody else, nor puts
\* it back into one an operator has taken it out of, however long ago it read them.
THEOREM OthersKeepTheirs == Spec => ForeignAggregatesKept
<1> DEFINE Kept == (\E s \in Syncs : task'[s].step # task[s].step)
                      => \A p \in Providers : provider'[p].aggregates \ {Shared}
                                                = provider[p].aggregates \ {Shared}
<1>1. ASSUME TypeOK, ReadInv, [Next]_vars
      PROVE  Kept
    <2>1. \/ \E s \in Syncs : task[s].step \in Writes /\ Accepted(s) /\ TakesEffect(s)
          \/ \E q \in Providers : Claim(q) \/ (q \in Computes /\ Reassign(q))
          \/ UNCHANGED provider
        BY <1>1 DEF Next, Start, Read, Write, Refused, Fault, Providers, vars
    <2>2. ASSUME NEW q \in Providers, Claim(q) \/ (q \in Computes /\ Reassign(q))
          PROVE  \A s \in Syncs : task'[s].step = task[s].step
        BY <1>1, <2>2, EnvironmentForm DEF Aged
    <2> QED BY <1>1, <2>1, <2>2, WritesWhatItRead
<1>2. TypeOK /\ ReadInv /\ [Next]_vars => [Kept]_vars
    BY <1>1
<1>3. Init => ReadInv
    BY Rests DEF Init, ReadInv, ReadCurrent, At
<1> QED BY <1>2, <1>3, NextRead, TypeCorrect, PTL DEF Spec, ForeignAggregatesKept

-----------------------------------------------------------------------------
(***************************************************************************)
(* One program alone                                                       *)
(***************************************************************************)
\* Somebody wrote to the provider since its generation was read.
Stale(s) == task[s].step \in {"inventory", "traits", "share"} /\ ~task[s].fresh

\* As long as no two programs ran at the same time: the one that runs creates no
\* provider that is there, and every failure, and the refusal that a stale program
\* is about to get, is owed to a disturbance of its own.
Alone == /\ \A r, s \in Syncs : Running(r) /\ Running(s) => r = s
         /\ \A s \in Syncs : At(s, "create") => ~Here(s).there
         /\ failures <= faults
         /\ ((\E s \in Syncs : Stale(s)) => failures + 1 <= faults)

AloneInv == ~overlapped => Alone

\* A step of s after which it is not stale and no other program runs.
LEMMA AloneKept ==
    ASSUME TypeOK, NEW s \in Syncs,
           \A r \in Syncs \ {s} : ~Running(r)',
           ~Stale(s)',
           At(s, "create")' => ~Here(s).there',
           failures' <= faults'
    PROVE  AloneInv'
BY DEF AloneInv, Alone, Stale, Running, At

LEMMA NextAlone == TypeOK /\ SyncInv /\ AloneInv /\ [Next]_vars => AloneInv'
<1> SUFFICES ASSUME TypeOK, SyncInv, AloneInv, [Next]_vars, ~overlapped'
             PROVE  AloneInv'
    BY DEF AloneInv
<1>1. failures \in Nat /\ faults \in Nat
    BY DEF TypeOK
<1>2. ~overlapped /\ Alone
    <2>1. ASSUME NEW s \in Syncs, Start(s)
          PROVE  ~overlapped
        BY <2>1, Zenon DEF Start
    <2>2. ~overlapped
        BY <2>1 DEF Next, Read, Write, Refused, Fault, Claim, Reassign, vars
    <2> QED BY <2>2 DEF AloneInv
<1>3. ASSUME NEW s \in Syncs, Start(s)
      PROVE  AloneInv'
    <2>1. \A r \in Syncs \ {s} : ~Running(r)'
        BY <1>3, StartForm DEF Start, Running
    <2>2. ~Stale(s)' /\ ~At(s, "create")'
        BY <1>3, StartForm DEF Stale, At
    <2> QED BY <1>2, <1>3, <2>1, <2>2, AloneKept DEF Start, Alone
<1>4. ASSUME NEW s \in Syncs, Read(s)
      PROVE  AloneInv'
    <2>1. PICK n : /\ task' = [task EXCEPT ![s] = n]
                   /\ Running(s)
                   /\ \/ /\ SameWork(task[s], n)
                         /\ \/ n.step = "create" /\ ~Here(s).there
                            \/ n.step = "inventory generation"
                            \/ n.step \in {"inventory", "traits", "share"} /\ n.fresh
                      \/ At(s, "aggregates") /\ n \in AfterAggregate(task[s])
        BY <1>4, ReadSteps
    <2>1a. /\ (n.step = "create" => ~Here(s).there /\ n.at = task[s].at)
          /\ (n.step \in {"inventory", "traits", "share"} => n.fresh)
        BY <2>1, AggregateDoneStep, ProperTasks DEF SameWork, At, Sharing
    <2>2. task'[s] = n /\ \A r \in Syncs \ {s} : task'[r] = task[r]
        BY <2>1 DEF TypeOK
    <2>3. \A r \in Syncs \ {s} : ~Running(r)'
        BY <1>2, <2>1, <2>2 DEF Alone, Running
    <2>4. ~Stale(s)' /\ (At(s, "create")' => ~Here(s).there')
        BY <1>4, <2>1a, <2>2 DEF Stale, At, Here, Read
    <2> QED BY <1>2, <1>4, <2>3, <2>4, AloneKept DEF Read, Alone
<1>5. ASSUME NEW s \in Syncs, Write(s)
      PROVE  AloneInv'
    <2>1. Running(s) /\ task[s].step \in Writes /\ task'[s] \in Following(s) /\ Proper(task[s])
        BY <1>5, WriteForm, ProperTasks DEF Write, Writes, Running
    <2>2. task'[s].step \notin {"create", "inventory", "traits", "share"}
        BY <2>1, WriteSteps, AggregateDone, Rests DEF At, Sharing
    <2>3. \A r \in Syncs \ {s} : ~Running(r)'
        BY <1>2, <1>5, <2>1, WriteForm DEF Alone, Running, Aged
    <2> QED BY <1>2, <1>5, <2>2, <2>3, AloneKept DEF Write, Alone, Stale, At
<1>6. ASSUME NEW s \in Syncs, Refused(s) \/ Fault(s)
      PROVE  AloneInv'
    <2>1. Running(s)
        BY <1>6 DEF Refused, Fault, Writes, Running
    <2>2. \A r \in Syncs \ {s} : ~Running(r)'
        BY <1>2, <1>6, <2>1, FailForm DEF Alone, Running, Aged
    <2>3. ~Stale(s)' /\ ~At(s, "create")'
        BY <1>6, FailForm, Rests DEF Stale, At
    <2>4. Refused(s) => Stale(s)
        <3>1. Done(task[s])
            BY DEF SyncInv
        <3> QED BY <1>2, <3>1 DEF Refused, Accepted, Stale, Alone, At, Writes, Done, Declared, Inventory
    <2>5. failures' <= faults'
        <3>1. CASE Refused(s)
            BY <1>1, <1>2, <2>4, <3>1 DEF Refused, Fail, Alone
        <3>2. CASE Fault(s)
            <4>1. failures' = failures + 1 /\ faults' = faults + 1
                BY <3>2 DEF Fault, Fail
            <4> QED BY <1>1, <1>2, <4>1 DEF Alone
        <3> QED BY <1>6, <3>1, <3>2
    <2> QED BY <2>2, <2>3, <2>5, AloneKept
<1>7. ASSUME NEW p \in Providers, Claim(p) \/ (p \in Computes /\ Reassign(p))
      PROVE  AloneInv'
    <2>1. \A r \in Syncs : Aged(r)
        BY <1>7, EnvironmentForm
    <2>2. \A r, s \in Syncs : Running(r)' /\ Running(s)' => r = s
        BY <1>2, <2>1 DEF Alone, Running, Aged
    <2>3. ASSUME NEW s \in Syncs, At(s, "create")'
          PROVE  ~Here(s).there'
        <3>1. At(s, "create") /\ task'[s].at = task[s].at
            BY <2>1, <2>3 DEF Aged, SameWork, At
        <3>2. task[s].at \in Providers
            BY <3>1, ProperTasks, ProperAt DEF At
        <3> QED BY <1>2, <1>7, <3>1, <3>2, EnvironmentForm DEF Alone, Here
    <2>4. failures' <= faults' /\ ((\E s \in Syncs : Stale(s)') => failures' + 1 <= faults')
        <3>1. CASE faults' = faults + 1 /\ failures' = failures
            BY <1>1, <1>2, <3>1 DEF Alone
        <3>2. CASE UNCHANGED <<faults, task, failures>>
            BY <1>2, <3>2 DEF Alone, Stale
        <3> QED BY <1>7, <3>1, <3>2, EnvironmentForm
    <2> QED BY <2>2, <2>3, <2>4 DEF AloneInv, Alone
<1>8. CASE UNCHANGED vars
    BY <1>8 DEF vars, AloneInv, Alone, Running, At, Here, Stale
<1> QED BY <1>3, <1>4, <1>5, <1>6, <1>7, <1>8 DEF Next, Providers

\* What an interrupted attempt leaves never makes the next one fail: as long as no
\* two programs run at the same time, one fails only as often as it is disturbed.
THEOREM FailuresAreDisturbances == Spec => []FailsOnlyWhenDisturbed
<1>1. Init => AloneInv
    BY Rests DEF Init, AloneInv, Alone, Running, At, Stale
<1>2. TypeOK /\ AloneInv => FailsOnlyWhenDisturbed
    BY DEF AloneInv, Alone, FailsOnlyWhenDisturbed
<1> QED BY <1>1, <1>2, InitSync, NextSync, NextAlone, TypeCorrect, PTL DEF Spec
=============================================================================
