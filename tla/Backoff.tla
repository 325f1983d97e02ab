------------------------------ MODULE Backoff -------------------------------
(***************************************************************************)
(* The retry delays of the two workers.  Both functions double a delay in  *)
(* a loop that stops when the attempt is reached or the cap is passed, and *)
(* then clip the result to the cap.                                        *)
(***************************************************************************)
EXTENDS Naturals

(* for i := 1; i < attempt && delay < cap; i++ { delay *= 2 }, and the     *)
(* clipping after it.  attempt is at least 1 in every call.                *)
DoublingBackoff(base, cap, attempt) ==
  LET delay[i \in Nat] ==
        IF i = 0 THEN base
        ELSE IF delay[i - 1] < cap THEN 2 * delay[i - 1]
        ELSE delay[i - 1]
  IN  IF delay[attempt - 1] \in 0..cap THEN delay[attempt - 1] ELSE cap
=============================================================================
