----------------------------- MODULE CallLedger -----------------------------
(***************************************************************************)
(* What siphon-ai promises whoever bills its calls: a call that connects   *)
(* may have one call-detail record and never a second, a leg that is       *)
(* reported as failed never connects and has none, and nothing is recorded *)
(* or reported after the process has gone.  CallTeardown implements this   *)
(* module.                                                                 *)
(***************************************************************************)
EXTENDS Naturals

CONSTANT Call

VARIABLES
  connected,  \* the calls that connected
  failed,     \* the legs reported as failed
  records,    \* records written for each call
  closed      \* the process is gone

ledgerVars == <<connected, failed, records, closed>>

Init ==
  connected = {} /\ failed = {} /\ records = [c \in Call |-> 0] /\ closed = FALSE

Connect(c) ==
  /\ ~closed /\ c \notin connected \cup failed
  /\ connected' = connected \cup {c}
  /\ UNCHANGED <<failed, records, closed>>

Fail(c) ==
  /\ ~closed /\ c \notin connected \cup failed
  /\ failed' = failed \cup {c}
  /\ UNCHANGED <<connected, records, closed>>

Record(c) ==
  /\ ~closed /\ c \in connected /\ records[c] = 0
  /\ records' = [records EXCEPT ![c] = 1]
  /\ UNCHANGED <<connected, failed, closed>>

Close == ~closed /\ closed' = TRUE /\ UNCHANGED <<connected, failed, records>>

Next == Close \/ \E c \in Call : Connect(c) \/ Fail(c) \/ Record(c)

Spec == Init /\ [][Next]_ledgerVars
=============================================================================
