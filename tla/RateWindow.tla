----------------------------- MODULE RateWindow -----------------------------
(***************************************************************************)
(* What the rate limiter is for: how many requests of a client a process   *)
(* admits in a span of time.  APIProcess with two history variables that   *)
(* count, for each client of each process, the requests admitted and the   *)
(* ticks passed since an arbitrary moment.  A process that starts anew     *)
(* begins with full buckets and a new span.                                *)
(***************************************************************************)
EXTENDS APIProcess

VARIABLES
  admitted,  \* requests admitted since the window began
  elapsed    \* ticks since then

windowVars == <<vars, admitted, elapsed>>

WindowInit ==
  /\ Init
  /\ admitted = [b \in Bucket |-> 0]
  /\ elapsed = [b \in Bucket |-> 0]

CountAnswer(r, c) ==
  /\ admitted' = [admitted EXCEPT ![<<r, c>>] =
                    IF answer' = <<r, c, "admitted">> THEN @ + 1 ELSE @]
  /\ UNCHANGED elapsed

CountTick ==
  /\ elapsed' = [b \in Bucket |-> elapsed[b] + 1]
  /\ UNCHANGED admitted

BeginWindow(K) ==
  /\ admitted' = [b \in Bucket |-> IF b \in K THEN 0 ELSE admitted[b]]
  /\ elapsed' = [b \in Bucket |-> IF b \in K THEN 0 ELSE elapsed[b]]

WindowNext ==
  \/ \E r \in Replica :
       \/ \E c \in Client : allow(r, c) /\ CountAnswer(r, c)
       \/ Serve(r) /\ NewRateLimiter(r) /\ BeginWindow(Of(r))
       \/ LifeStep(r) /\ UNCHANGED <<admitted, elapsed>>
  \/ Tick /\ CountTick
  \/ \E b \in Bucket : BeginWindow({b}) /\ UNCHANGED vars

WindowSpec == WindowInit /\ [][WindowNext]_windowVars

(* In any span of t ticks, wherever it begins, a client is admitted at     *)
(* most burst + g * t requests: for g = Rate as long as a bucket fills     *)
(* before its client is forgotten, and else for the rate at which a        *)
(* bucket would have to be refilled for that.                              *)
WindowBounded(g) == \A b \in Bucket : admitted[b] * Cost <= Cap + elapsed[b] * g

(* The inductive invariant: what is left in the bucket was not admitted,   *)
(* and what could have been gained while the client was silent was not     *)
(* either, so that a bucket deleted after that may be replaced by a full   *)
(* one.                                                                    *)
Unspent(b, g) == admitted[b] * Cost + Level(b) <= Cap + elapsed[b] * g
Unasked(b, g) == admitted[b] = 0 \/ admitted[b] * Cost + silence[b] * g <= Cap + elapsed[b] * g

WindowInv(g) ==
  /\ admitted \in [Bucket -> Nat]
  /\ elapsed \in [Bucket -> Nat]
  /\ \A b \in Bucket : Unspent(b, g) /\ Unasked(b, g)
=============================================================================
