---------------------------- MODULE AtLeastOnce -----------------------------
(***************************************************************************)
(* What the notification outbox promises about a message, whatever the     *)
(* workers, leases, clocks and failures behind it do: a message that was   *)
(* saved is offered to its destination until the destination has accepted  *)
(* it; it is recorded as delivered only after that, and for good; it may   *)
(* be accepted again afterwards, so a receiver has to tell duplicates.     *)
(***************************************************************************)
EXTENDS Naturals

CONSTANT Message

VARIABLES
  status,    \* "absent" before the row exists, then notification_outbox.status
  accepted   \* how often the destination accepted the message, counted to 2

promiseVars == <<status, accepted>>

Init ==
  /\ status = [m \in Message |-> "absent"]
  /\ accepted = [m \in Message |-> 0]

Save(m) ==
  /\ status[m] = "absent"
  /\ status' = [status EXCEPT ![m] = "pending"]
  /\ UNCHANGED accepted

Accept(m) ==
  /\ status[m] # "absent"
  /\ accepted' = [accepted EXCEPT ![m] = IF @ = 0 THEN 1 ELSE 2]
  /\ UNCHANGED status

Record(m) ==
  /\ status[m] = "pending"
  /\ accepted[m] > 0
  /\ status' = [status EXCEPT ![m] = "delivered"]
  /\ UNCHANGED accepted

Next == \E m \in Message : Save(m) \/ Accept(m) \/ Record(m)

Spec == Init /\ [][Next]_promiseVars
=============================================================================
