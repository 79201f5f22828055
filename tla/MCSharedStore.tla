--------------------------- MODULE MCSharedStore ---------------------------
(***************************************************************************)
(* Two containers of the pod over the session of one instance, or over     *)
(* three instances that compete for one quota.                             *)
(***************************************************************************)
EXTENDS SharedStore, TLC

CONSTANTS pa, gpu

MCProjectOf == [u \in Instances |-> pa]
MCProfileOf == [u \in Instances |-> gpu]
MCLimit     == (<<pa, gpu>> :> 1)
MCInventory == (gpu :> 3)

Symmetry == Permutations(Procs) \union Permutations(Instances) \union Permutations(Tokens)
=============================================================================
