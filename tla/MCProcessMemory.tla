-------------------------- MODULE MCProcessMemory ---------------------------
(* Model of what an API process keeps in memory and its requests share:    *)
(* the circuit breaker of the screening provider and the cache of signing  *)
(* keys.  No code touches both, and neither reads the database, so each is *)
(* checked while the other rests in an initial state, in which no step     *)
(* that fairness demands is enabled.                                       *)
EXTENDS ScreeningProvider, SigningKeys

Init == ProviderInit /\ KeysInit

KeysRest == KeysInit /\ Published = {}

Next ==
  \/ KeysRest /\ ProviderNext /\ UNCHANGED keysVars
  \/ ProviderInit /\ KeysNext /\ UNCHANGED providerVars

Spec ==
  /\ Init
  /\ [][Next]_<<providerVars, keysVars>>
  /\ ProviderFairness
  /\ KeysFairness
=============================================================================
