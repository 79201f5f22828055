---------------------------- MODULE MCLifecycle ----------------------------
(***************************************************************************)
(* Two instances of one project compete for its quota of one session; a    *)
(* third one of another project competes with them for the inventory.      *)
(***************************************************************************)
EXTENDS Lifecycle, TLC

CONSTANTS a1, a2, b1, pa, pb, gpu

MCProjectOf == (a1 :> pa) @@ (a2 :> pa) @@ (b1 :> pb)
MCProfileOf == (a1 :> gpu) @@ (a2 :> gpu) @@ (b1 :> gpu)
MCLimit     == (<<pa, gpu>> :> 1) @@ (<<pb, gpu>> :> 1)
MCInventory == (gpu :> 2)
MCScarce    == (gpu :> 1)

\* One project, one instance, for the questions about a single session.
OneProjectOf == (a1 :> pa)
OneProfileOf == (a1 :> gpu)
OneLimit     == (<<pa, gpu>> :> 1)

PairProjectOf == (a1 :> pa) @@ (a2 :> pa)
PairProfileOf == (a1 :> gpu) @@ (a2 :> gpu)

\* Tokens are only compared, and a1 and a2 differ in nothing.
Symmetry == Permutations(Tokens) \union Permutations({a1, a2})
=============================================================================
