--------------------------- MODULE CallLifecycle ---------------------------
(***************************************************************************)
(* What one answered call promises its caller, whatever happens to the     *)
(* WebSocket session behind it.  The call is in one of five modes:         *)
(*   bridged      the caller is (or is being) connected to a WS session    *)
(*   parked       the session was detached; hold music until a retrieve    *)
(*   recovering   the session dropped; hold music while it is redialled    *)
(*   apologising  the session is lost for good; the failure prompt plays   *)
(*   over         the call is being torn down                              *)
(* CallControl implements this module (see CallControl!Lifecycle).         *)
(***************************************************************************)
VARIABLE mode

Modes == {"bridged", "parked", "recovering", "apologising", "over"}

LifecycleTypeOK == mode \in Modes

Init == mode = "bridged"

\* A park detaches a bridged call, and only a bridged one.
Park == mode = "bridged" /\ mode' = "parked"

\* An operator's retrieve is the only way a parked call gets a session back.
Retrieve == mode = "parked" /\ mode' = "bridged"

Drop == mode = "bridged" /\ mode' = "recovering"

Recover == mode = "recovering" /\ mode' = "bridged"

\* The prompt is the way out of a lost session; nothing follows it but the end.
Apologise == mode \in {"bridged", "recovering"} /\ mode' = "apologising"

HangUp == mode # "over" /\ mode' = "over"

GiveUp == Recover \/ (mode = "recovering" /\ (Apologise \/ HangUp))

EndApology == mode = "apologising" /\ HangUp

Next == Park \/ Retrieve \/ Drop \/ Recover \/ Apologise \/ HangUp

\* Recovery is bounded by its window, the prompt by its 30 s cap.
Fairness == WF_mode(GiveUp) /\ WF_mode(EndApology)

Spec == Init /\ [][Next]_mode /\ Fairness
=============================================================================
