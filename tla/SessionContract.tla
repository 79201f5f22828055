-------------------------- MODULE SessionContract --------------------------
(***************************************************************************)
(* What the adapter promises about the session of an instance, whatever    *)
(* the reservations, credentials and replies it needs to keep the promise: *)
(*                                                                         *)
(*   - a session is admitted only within the quota of its project, for     *)
(*     which a session counts until its delete or abort releases it, also  *)
(*     if the end of that session could not be recorded;                   *)
(*   - each admission opens a new generation;                              *)
(*   - a session never serves before it was admitted, a failed one never   *)
(*     serves, and a deleted one only comes back by a new admission.       *)
(***************************************************************************)
EXTENDS FlytModel

VARIABLES state,       \* [Instances -> States]
          generation,  \* [Instances -> Nat]
          released     \* live sessions that no longer count

cvars == <<state, generation, released>>

LiveSessions == {u \in Instances : state[u] \in LiveStates}

Init == /\ state      = [u \in Instances |-> "ABSENT"]
        /\ generation = [u \in Instances |-> 0]
        /\ released   = {}

\* Move u from one of the states of From to s, within its generation.
Move(u, From, s) == /\ state[u] \in From
                    /\ state' = [state EXCEPT ![u] = s]
                    /\ UNCHANGED generation

Admit(u) == /\ state[u] \in Admittable
            /\ Cardinality(SameQuota(LiveSessions \ released, u)) < Limit[QuotaKey(u)]
            /\ state'      = [state EXCEPT ![u] = "RESERVED"]
            /\ generation' = [generation EXCEPT ![u] = @ + 1]
            /\ UNCHANGED released

\* The session stays as it is, because its end could not be recorded.
Release(u) == /\ u \in LiveSessions
              /\ released' = released \union {u}
              /\ UNCHANGED <<state, generation>>

End(u, From, s) == Move(u, From, s) /\ released' = released \ {u}

Start(u)   == \E s \in {"STARTING"} \union Serving :
                  Move(u, Startable, s) /\ UNCHANGED released
Refresh(u) == \E s \in Serving : Move(u, {"PENDING_CAPACITY"}, s) /\ UNCHANGED released
Abort(u)   == End(u, LiveStates, "FAILED")
Delete(u)  == End(u, LiveStates \union {"FAILED"}, "DELETED")

Next == \E u \in Instances :
            Admit(u) \/ Release(u) \/ Start(u) \/ Refresh(u) \/ Abort(u) \/ Delete(u)

Spec == Init /\ [][Next]_cvars
=============================================================================
