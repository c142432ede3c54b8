--------------------------- MODULE DialogPromises ---------------------------
(***************************************************************************)
(* What the requests of one dialog promise, whoever makes them: in terms   *)
(* of the call's end, the peer, and the numbers that went over the wire.   *)
(* Transfer has the tasks that make the requests.                          *)
(***************************************************************************)
VARIABLES
  at,       \* where the controller, then the clean-up after it, stands
  reused,   \* a number has been on the wire twice
  crowded,  \* two requests were under way that do not know of each other
  peer,     \* still in the call?
  bye_lost  \* a transfer's own BYE was not sent

\* transfer.rs:109 (issues 353, 377, 490): as long as two requests are not under way at once,
\* each has a number of its own, over refreshes without an answer, glare and transfers; and
\* so has the BYE that meets one of them in flight.
NumbersContinue == ~crowded => ~reused

\* call.rs:1800: whoever ends the call, and whoever owes the BYE, no peer is left in it, unless
\* the BYE of a transfer could not be sent.
PeerLetGo == at = "over" => peer = "out" \/ bye_lost
=============================================================================
