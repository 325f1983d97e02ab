-------------------------- MODULE MCInvestigations --------------------------
(* Small instances of Investigations for TLC. *)
EXTENDS Investigations, TLC

Symmetry == Permutations(Request) \union Permutations(Alert)
=============================================================================
