------------------------- MODULE ScreeningProvider --------------------------
(***************************************************************************)
(* The HTTP adapter of the external screening provider: bounded retries    *)
(* and a circuit breaker that all callers of the process share.            *)
(*                                                                         *)
(* The screening worker and the request handlers call Screen concurrently. *)
(* The mutex protects the two counters, not the call: a caller reads the   *)
(* circuit, sends its requests without the lock, and reports the outcome   *)
(* to a circuit that others may have opened or closed in the meantime.     *)
(***************************************************************************)
EXTENDS Naturals

CONSTANTS
  Caller,     \* goroutines that call Screen
  Retries,    \* retries of one call
  Threshold,  \* failed calls that open the circuit (three)
  OpenFor     \* how long the circuit stays open

ASSUME ProviderAssumption ==
  /\ Retries \in Nat
  /\ Threshold \in Nat \ {0}
  /\ OpenFor \in Nat \ {0}

VARIABLES
  call,      \* "idle", "request", or the outcome that is to be reported
  attempt,   \* loop variable of Screen
  failures,  \* p.failures
  openIn,    \* time left until p.openUntil
  recent     \* history: failed calls that ended since the last good one or
             \* the last opening, by the error of their last request

requestVars == <<call, attempt>>
circuit == <<failures, openIn, recent>>
providerVars == <<requestVars, circuit>>

(* "transient": network error, 429 or 5xx; "contract": any other status and *)
(* every malformed answer.                                                  *)
Failure == {"transient", "contract"}

ProviderTypeOK ==
  /\ call \in [Caller -> {"idle", "request", "ok"} \union Failure]
  /\ attempt \in [Caller -> 0..Retries]
  /\ failures \in 0..Threshold - 1
  /\ openIn \in 0..OpenFor
  /\ recent \in [Failure -> Nat]

ProviderInit ==
  /\ call = [c \in Caller |-> "idle"]
  /\ attempt = [c \in Caller |-> 0]
  /\ failures = 0
  /\ openIn = 0
  /\ recent = [f \in Failure |-> 0]

-----------------------------------------------------------------------------
(* Screen finds the circuit closed and enters its loop. *)
Screen(c) ==
  /\ call[c] = "idle"
  /\ openIn = 0
  /\ call' = [call EXCEPT ![c] = "request"]
  /\ attempt' = [attempt EXCEPT ![c] = 0]
  /\ UNCHANGED circuit

(* Mutant of ScreenRefused: a refused call counts as a failed one. *)
ScreenRefusedCounted(c) ==
  /\ call[c] = "idle"
  /\ openIn > 0
  /\ call' = [call EXCEPT ![c] = "transient"]
  /\ UNCHANGED <<attempt, circuit>>

(* Screen returns ErrCircuitOpen: nothing is sent and nothing counted. *)
ScreenRefused(c) ==
  /\ call[c] = "idle"
  /\ openIn > 0
  /\ UNCHANGED providerVars

(* One request: a usable answer, an error that is retried while the loop   *)
(* has attempts left, or one that ends the loop.                           *)
RequestSucceeds(c) ==
  /\ call[c] = "request"
  /\ call' = [call EXCEPT ![c] = "ok"]
  /\ UNCHANGED <<attempt, circuit>>

(* Mutant of RequestRetried: the loop starts over after its last attempt. *)
RequestRetriedForEver(c) ==
  /\ call[c] = "request"
  /\ attempt' = [attempt EXCEPT ![c] = (@ + 1) % (Retries + 1)]
  /\ UNCHANGED <<call, circuit>>

RequestRetried(c) ==
  /\ call[c] = "request"
  /\ attempt[c] < Retries
  /\ attempt' = [attempt EXCEPT ![c] = @ + 1]
  /\ UNCHANGED <<call, circuit>>

RequestFails(c, failure) ==
  /\ call[c] = "request"
  /\ failure = "transient" => attempt[c] = Retries
  /\ call' = [call EXCEPT ![c] = failure]
  /\ UNCHANGED <<attempt, circuit>>

EndCall(c) == call' = [call EXCEPT ![c] = "idle"] /\ UNCHANGED attempt

(* Mutant of Succeed: old failures stay on the count. *)
SucceedKeepingFailures(c) ==
  /\ call[c] = "ok"
  /\ openIn' = 0
  /\ recent' = [f \in Failure |-> 0]
  /\ EndCall(c)
  /\ UNCHANGED failures

(* The outcome is reported under the mutex. *)
Succeed(c) ==
  /\ call[c] = "ok"
  /\ failures' = 0
  /\ openIn' = 0
  /\ recent' = [f \in Failure |-> 0]
  /\ EndCall(c)

(* Mutant of CountFailure: the count is not reset when the circuit opens. *)
CountFailureWithoutReset(c) ==
  /\ call[c] \in Failure
  /\ failures' = failures + 1
  /\ IF failures + 1 >= Threshold
       THEN openIn' = OpenFor /\ recent' = [f \in Failure |-> 0]
       ELSE recent' = [recent EXCEPT ![call[c]] = @ + 1] /\ UNCHANGED openIn
  /\ EndCall(c)

CountFailure(c) ==
  /\ call[c] \in Failure
  /\ IF failures + 1 >= Threshold
       THEN /\ openIn' = OpenFor
            /\ failures' = 0
            /\ recent' = [f \in Failure |-> 0]
       ELSE /\ failures' = failures + 1
            /\ recent' = [recent EXCEPT ![call[c]] = @ + 1]
            /\ UNCHANGED openIn
  /\ EndCall(c)

ProviderTimePasses ==
  /\ openIn > 0
  /\ openIn' = openIn - 1
  /\ UNCHANGED <<requestVars, failures, recent>>

ProviderNext ==
  \/ \E c \in Caller :
       \/ Screen(c) \/ ScreenRefused(c)
       \/ RequestSucceeds(c) \/ RequestRetried(c)
       \/ \E f \in Failure : RequestFails(c, f)
       \/ Succeed(c) \/ CountFailure(c)
  \/ ProviderTimePasses

ProviderSpec == ProviderInit /\ [][ProviderNext]_providerVars

(* Time passes, and every request has a timeout. *)
Proceeds(c) ==
  \/ RequestSucceeds(c) \/ RequestRetried(c) \/ \E f \in Failure : RequestFails(c, f)
  \/ Succeed(c) \/ CountFailure(c)

ProviderFairness ==
  /\ WF_providerVars(ProviderTimePasses)
  /\ \A c \in Caller : WF_providerVars(Proceeds(c))

ProviderFairSpec == ProviderSpec /\ ProviderFairness

-----------------------------------------------------------------------------
(* The circuit opens only on the last of Threshold failed calls with no    *)
(* successful call reported between them, whichever callers they came from *)
(* and however their reports interleaved.                                  *)
LastOfStreak ==
  openIn' > openIn =>
    /\ recent["transient"] + recent["contract"] = Threshold - 1
    /\ \E c \in Caller : call[c] \in Failure /\ call'[c] = "idle"

OpensAfterStreak == [][LastOfStreak]_providerVars

(* Its inductive invariant: p.failures counts the streak, whatever opened  *)
(* or closed the circuit in between.                                       *)
StreakCounted == recent["transient"] + recent["contract"] = failures

ProviderInv == ProviderTypeOK /\ StreakCounted

(* The breaker never locks itself out: although calls that were under way  *)
(* when it opened may open it again, it closes after every opening.        *)
CircuitCloses == []<>(openIn = 0)

(* Every call returns: the retries are bounded, and so are the requests,   *)
(* so that every caller is idle again and again.                           *)
ScreenReturns == \A c \in Caller : []<>(call[c] = "idle")

(* "Network errors, 429 and 5xx responses use bounded retries and the      *)
(* circuit breaker; other 4xx and contract violations do not"              *)
(* (docs/PROVIDER_ONBOARDING.md:32): the circuit never opens on answers    *)
(* that violate the contract alone.                                        *)
OnlyTransientErrorsOpen ==
  [][openIn' > openIn =>
       \/ recent["transient"] > 0
       \/ \E c \in Caller : call[c] = "transient" /\ call'[c] = "idle"]_providerVars
=============================================================================
