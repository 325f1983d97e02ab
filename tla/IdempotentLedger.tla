-------------------------- MODULE IdempotentLedger --------------------------
(***************************************************************************)
(* What POST /transactions promises its clients, whatever runs at the same *)
(* time, fails or is sent again: a key is used for one transaction at      *)
(* most, the entry never changes, and every answer is true of it.  Each    *)
(* request takes effect in one step.                                       *)
(***************************************************************************)
CONSTANTS Request, Key, NoTxn, NoRef

VARIABLES
  asked,  \* asked[i]: the key and the payload of request i
  entry,  \* entry[k]: the request whose transaction is stored under k
  told    \* the answer that the client of each request got

Init ==
  /\ entry = [k \in Key |-> NoTxn]
  /\ told = [i \in Request |-> "nothing"]

RefIsFree(i) ==
  \/ asked[i].payload.ref = NoRef
  \/ \A k \in Key : entry[k] # NoTxn =>
        asked[entry[k]].payload.ref # asked[i].payload.ref

Tell(i, outcome) ==
  /\ told[i] = "nothing"
  /\ told' = [told EXCEPT ![i] = outcome]
  /\ UNCHANGED asked

(* The transaction is stored; the answer may be lost. *)
Store(i, outcome) ==
  /\ outcome \in {"created", "error"}
  /\ entry[asked[i].key] = NoTxn
  /\ RefIsFree(i)
  /\ entry' = [entry EXCEPT ![asked[i].key] = i]
  /\ Tell(i, outcome)

Answer(i, outcome) ==
  LET stored == entry[asked[i].key] IN
  /\ outcome = "replayed" =>
       stored # NoTxn /\ asked[stored].payload = asked[i].payload
  /\ outcome = "conflict" =>
       stored # NoTxn /\ asked[stored].payload # asked[i].payload
  /\ Tell(i, outcome)
  /\ UNCHANGED entry

Next ==
  \E i \in Request :
    \/ \E outcome \in {"created", "error"} : Store(i, outcome)
    \/ \E outcome \in {"replayed", "conflict", "refused", "error"} : Answer(i, outcome)

Spec == Init /\ [][Next]_<<asked, entry, told>>
=============================================================================
