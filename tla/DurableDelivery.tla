-------------------------- MODULE DurableDelivery --------------------------
(***************************************************************************)
(* What a durable queue of siphon-ai promises, whatever its items are: the *)
(* webhook spool (WebhookSpool) and the recording upload spool             *)
(* (UploadSpool) each implement it.                                        *)
(*                                                                         *)
(* An item the queue has on disk is owed.  The far side may receive an     *)
(* item, more than once and before it is owed or after.  An item leaves    *)
(* the queue only with a verdict, "delivered" only when the far side has   *)
(* it, and an item with a verdict never returns: no crash changes what is  *)
(* owed.                                                                   *)
(***************************************************************************)
CONSTANT Item

VARIABLES owed, received, verdict

Verdict == {"none", "delivered", "rejected", "dropped"}

Init ==
  /\ owed = {} /\ received = {}
  /\ verdict = [i \in Item |-> "none"]

Owe(i) ==
  /\ verdict[i] = "none" /\ i \notin owed
  /\ owed' = owed \cup {i}
  /\ UNCHANGED <<received, verdict>>

Receive(i) ==
  /\ received' = received \cup {i}
  /\ UNCHANGED <<owed, verdict>>

\* The verdict may come with the answer that brought it.
Settle(i, v) ==
  /\ verdict[i] = "none" /\ v \in Verdict \ {"none"}
  /\ received' \in {received, received \cup {i}}
  /\ v = "delivered" => i \in received'
  /\ owed' = owed \ {i}
  /\ verdict' = [verdict EXCEPT ![i] = v]

Next == \E i \in Item : Owe(i) \/ Receive(i) \/ \E v \in Verdict : Settle(i, v)

Spec == Init /\ [][Next]_<<owed, received, verdict>>
=============================================================================
