---------------------------- MODULE MCOnboarding ----------------------------
(* Small instances of Onboarding for TLC. *)
EXTENDS Onboarding, TLC

(* Customers with 35 and 55 points, on both sides of where enhanced due    *)
(* diligence begins; the second is worse than the first.                   *)
MCFactors ==
  {[country |-> "high", flags |-> {"SourceOfFundsVerified"}],
   [country |-> "high", flags |-> {}]}

Symmetry == Permutations(Request) \union Permutations(Actor)
=============================================================================
