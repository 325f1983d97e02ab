---------------------------- MODULE MCIngestion -----------------------------
(* Small instances of Ingestion for TLC. *)
EXTENDS Ingestion, TLC

CONSTANTS c1, c2, ref

Ask(c, r, amount, country) ==
  [customer |-> c, ref |-> r, amount |-> amount, country |-> country]

(* Amounts just below and at the threshold, a reference that two payloads  *)
(* and so two keys may share, and one payload that trips both rules.       *)
MCPayload ==
  {Ask(c1, NoRef, 2, "IR"), Ask(c1, ref, 1, "GB"), Ask(c2, ref, 2, "GB")}

(* One request that trips one rule, so that the order of alerts is no matter. *)
ReplayPayload == {Ask(c1, NoRef, 2, "GB")}

Symmetry == Permutations(Request) \union Permutations(Key)
=============================================================================
