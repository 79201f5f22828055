---------------------------- MODULE MCOfferings ----------------------------
(***************************************************************************)
(* Two offerings on one kind of GPU Cell.  The contents of the file are a  *)
(* consistent catalog of both, of one, and of one with each section ahead  *)
(* of the others in turn, as when an operator adds or removes an offering  *)
(* and forgets a section; then a file without GPU Cells.                   *)
(***************************************************************************)
EXTENDS Offerings, TLC

CONSTANTS a, b, gold, silver, whole, half

MCOfferingOf == (a :> gold) @@ (b :> silver)

Catalog(fs) == [cells |-> TRUE, manager |-> TRUE, inventory |-> fs, limited |-> fs,
                sized |-> fs, mapped |-> fs, target |-> [f \in Offerings |-> whole],
                defined |-> {whole}]

Both == Catalog({gold, silver})
One  == Catalog({gold})

MCContents == {Both, One,
               [One EXCEPT !.limited = {gold, silver}],
               [Both EXCEPT !.limited = {silver}],
               [Both EXCEPT !.sized = {gold}],
               [Both EXCEPT !.mapped = {gold}],
               [Both EXCEPT !.target[silver] = half],
               [Both EXCEPT !.manager = FALSE, !.sized = {}],
               [Both EXCEPT !.cells = FALSE, !.mapped = {}, !.sized = {gold}]}
=============================================================================
