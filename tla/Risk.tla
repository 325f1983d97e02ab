-------------------------------- MODULE Risk --------------------------------
(***************************************************************************)
(* The customer risk engine: a score from the risk factors, and from the   *)
(* score the rating and the due diligence the customer gets.               *)
(***************************************************************************)
EXTENDS Naturals

Flag == {"PEP", "SanctionsPotentialMatch", "HighRiskIndustry", "ComplexOwnership",
         "SourceOfFundsVerified"}

RiskFactors == [country : {"low", "medium", "high"}, flags : SUBSET Flag]

Points(holds, points) == IF holds THEN points ELSE 0

(* Mutant of Score: the negation is missing. *)
ScoreInverted(f) ==
  Points(f.country = "high", 35)
    + Points(f.country = "medium", 15)
    + Points("PEP" \in f.flags, 35)
    + Points("SanctionsPotentialMatch" \in f.flags, 100)
    + Points("HighRiskIndustry" \in f.flags, 20)
    + Points("ComplexOwnership" \in f.flags, 20)
    + Points("SourceOfFundsVerified" \in f.flags, 20)

Score(f) ==
  Points(f.country = "high", 35)
    + Points(f.country = "medium", 15)
    + Points("PEP" \in f.flags, 35)
    + Points("SanctionsPotentialMatch" \in f.flags, 100)
    + Points("HighRiskIndustry" \in f.flags, 20)
    + Points("ComplexOwnership" \in f.flags, 20)
    + Points("SourceOfFundsVerified" \notin f.flags, 20)

Rating(f) ==
  IF "SanctionsPotentialMatch" \in f.flags \/ Score(f) >= 50 THEN "high"
  ELSE IF Score(f) >= 20 THEN "medium"
  ELSE "low"

DueDiligence(f) ==
  IF "SanctionsPotentialMatch" \in f.flags THEN "blocked_pending_review"
  ELSE IF Score(f) >= 50 THEN "enhanced"
  ELSE "standard"

Assess(f) == [score |-> Score(f), rating |-> Rating(f), due_diligence |-> DueDiligence(f)]

-----------------------------------------------------------------------------
(* The order in which a compliance officer would put factors and results. *)
Bad(f) == (f.flags \ {"SourceOfFundsVerified"})
            \union (IF "SourceOfFundsVerified" \in f.flags THEN {} ELSE {"Unverified"})

Level == [low |-> 0, medium |-> 1, high |-> 2,
          standard |-> 0, enhanced |-> 1, blocked_pending_review |-> 2]

AtLeastAsRisky(g, f) ==
  /\ Level[g.country] >= Level[f.country]
  /\ Bad(f) \subseteq Bad(g)

NoLower(a, b) ==
  /\ a.score >= b.score
  /\ Level[a.rating] >= Level[b.rating]
  /\ Level[a.due_diligence] >= Level[b.due_diligence]
=============================================================================
