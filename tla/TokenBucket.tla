---------------------------- MODULE TokenBucket -----------------------------
(* What the rate limiter promises: one token bucket for each client of a   *)
(* process, full when the process starts serving, refilled at a fixed rate *)
(* up to its capacity and emptied by admitted requests only.  A request is *)
(* admitted exactly if its bucket holds a whole token.  One thing is left  *)
(* open: the bucket of a client that has long been silent may be full      *)
(* before its refill is complete.                                          *)
EXTENDS Naturals

CONSTANTS
  Process,   \* API processes
  Client,    \* remote hosts
  Cap,       \* what a full bucket holds: the burst
  Cost,      \* what a request takes: one token
  Rate,      \* what a bucket gains in a unit of time
  Grace      \* how long a client is silent before its bucket may be filled up

VARIABLES
  running,   \* the processes that serve
  level,     \* what each bucket holds
  silence,   \* time since its client asked, counted to Grace + 1
  answer     \* the last answer: NoAnswer, or whose request was admitted or not

tbVars == <<running, level, silence, answer>>

Capped(n) == IF n > Cap THEN Cap ELSE n
NoAnswer == <<>>

Init ==
  /\ running = {}
  /\ level = [b \in Process \X Client |-> Cap]
  /\ silence = [b \in Process \X Client |-> Grace + 1]
  /\ answer = NoAnswer

ComeUp(p) ==
  /\ p \notin running
  /\ running' = running \union {p}
  /\ level' = [b \in Process \X Client |-> IF b[1] = p THEN Cap ELSE level[b]]
  /\ silence' = [b \in Process \X Client |-> IF b[1] = p THEN Grace + 1 ELSE silence[b]]
  /\ UNCHANGED answer

GoDown(p) ==
  /\ p \in running
  /\ running' = running \ {p}
  /\ UNCHANGED <<level, silence, answer>>

Refill ==
  /\ silence' = [b \in Process \X Client |->
                   IF silence[b] <= Grace THEN silence[b] + 1 ELSE silence[b]]
  /\ \E filled \in SUBSET {b \in Process \X Client : silence'[b] > Grace} :
       level' = [b \in Process \X Client |->
                   IF b \in filled THEN Cap ELSE Capped(level[b] + Rate)]
  /\ answer' = NoAnswer
  /\ UNCHANGED running

Ask(p, c) ==
  /\ p \in running
  /\ IF level[<<p, c>>] >= Cost
       THEN level' = [level EXCEPT ![<<p, c>>] = @ - Cost] /\ answer' = <<p, c, "admitted">>
       ELSE UNCHANGED level /\ answer' = <<p, c, "rejected">>
  /\ silence' = [silence EXCEPT ![<<p, c>>] = 0]
  /\ UNCHANGED running

Next ==
  \/ \E p \in Process : ComeUp(p) \/ GoDown(p) \/ \E c \in Client : Ask(p, c)
  \/ Refill

Spec == Init /\ [][Next]_tbVars
=============================================================================
