----------------------------- MODULE FlytModel -----------------------------
(***************************************************************************)
(* The vocabulary shared by the modules of the adapter: instances, the     *)
(* offering each one asks for, the persisted session record and the        *)
(* session the Cluster Manager keeps for it (models.py, storage.py).       *)
(*                                                                         *)
(* Identifiers are model values.  A row that was never written is the      *)
(* record NoRecord, so that "existing.generation + 1 if existing else 1"   *)
(* is generation + 1 in both cases.                                        *)
(***************************************************************************)
EXTENDS Integers, FiniteSets, SessionStates

CONSTANTS
    Instances,      \* Nova instance UUIDs
    Projects,       \* Keystone projects
    Profiles,       \* values of flyt:profile
    ProjectOf,      \* [Instances -> Projects]
    ProfileOf,      \* [Instances -> Profiles]
    Limit,          \* [Projects \X Profiles -> Nat], config "quotas"
    Inventory,      \* [Profiles -> Nat], config "inventory"
    Tokens,         \* bootstrap tokens the issuer can draw
    NoToken,        \* bootstrap_token is None
    NoSession,      \* the manager keeps no session for the instance
    MaxGeneration   \* bound of the model on admissions of one instance

ASSUME InstancesFinite == IsFiniteSet(Instances)
ASSUME OfferingTypes   == /\ ProjectOf \in [Instances -> Projects]
                          /\ ProfileOf \in [Instances -> Profiles]
ASSUME LimitTypes      == /\ Limit \in [Projects \X Profiles -> Nat]
                          /\ Inventory \in [Profiles -> Nat]
ASSUME TokenTypes      == /\ NoToken \notin Tokens
                          /\ NoSession \notin [credential : Tokens, generation : Nat]
ASSUME GenerationBound == MaxGeneration \in Nat

Record == [state      : States,
           generation : Nat,
           token      : Tokens \union {NoToken},
           backend    : BOOLEAN]           \* backend_session_id is set

NoRecord == [state |-> "ABSENT", generation |-> 0, token |-> NoToken,
             backend |-> FALSE]

\* Mutant: a re-admission repeats the generation of the deleted session.
SameGeneration(g) == [state |-> "RESERVED", generation |-> IF g = 0 THEN 1 ELSE g,
                      token |-> NoToken, backend |-> FALSE]

\* The row admit_build writes over an earlier row of generation g.
ReservedRecord(g) == [state |-> "RESERVED", generation |-> g + 1,
                      token |-> NoToken, backend |-> FALSE]

\* What UPSERT_SESSION leaves in the Cluster Manager.
ManagerSession == [credential : Tokens, generation : Nat]

-----------------------------------------------------------------------------
\* The quota key of an instance, and the instances of S that count against
\* the same quota, or the same inventory, as u.
QuotaKey(u)           == <<ProjectOf[u], ProfileOf[u]>>
SameQuota(S, u)       == {v \in S : QuotaKey(v) = QuotaKey(u)}
SameProfile(S, u)     == {v \in S : ProfileOf[v] = ProfileOf[u]}

WithinQuota(S)     == \A u \in Instances : Cardinality(SameQuota(S, u)) <= Limit[QuotaKey(u)]
WithinInventory(S) == \A u \in Instances : Cardinality(SameProfile(S, u)) <= Inventory[ProfileOf[u]]
=============================================================================
