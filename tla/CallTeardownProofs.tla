------------------------- MODULE CallTeardownProofs -------------------------
(***************************************************************************)
(* What CallTeardown keeps true for any calls of any kind, any number of   *)
(* permits and any reaper queue.                                           *)
(***************************************************************************)
EXTENDS CallTeardown, TLAPS

\* The steps of a call that is in the registry.
Registered == {"running", "disarm", "bye", "byeing", "retire", "unlist", "stop_media",
               "record", "deregister"}

\* A call is in the registry from run_call to the end of its cleanup task, and a parked
\* offer is the only thing that can still become a call or a failure record.
TablesInv(c) ==
  /\ c \in registry <=> pc[c] \in Registered
  /\ c \in served => pc[c] \in Registered \cup {"done"}
  /\ pc[c] \in Registered => c \in served
  /\ c \in pending <=> pc[c] = "awaiting_ack"
  /\ pc[c] \in {"awaiting_ack", "binding"} => c \in Late
  /\ reclaim[c] # "none" => pc[c] = "done" /\ c \notin served /\ c \in Late

\* The record is written at one place on each path, and a leg reported as failed has none.
RecordInv(c) ==
  /\ pc[c] \notin {"deregister", "done"} => cdr[c] = 0
  /\ pc[c] = "deregister" => cdr[c] = 1
  /\ pc[c] = "done" /\ c \in served => cdr[c] = 1
  /\ reclaim[c] = "record" => cdr[c] = 0
  /\ reclaim[c] = "release" => cdr[c] = 1
  /\ pc[c] = "done" /\ c \notin served /\ reclaim[c] = "none" =>
       IF c \in Out THEN c \in failed /\ cdr[c] = 0 ELSE Answered(c) <=> cdr[c] = 1
  /\ c \in failed => c \in Out /\ pc[c] = "done" /\ c \notin served
  /\ pc[c] \in {"idle", "setup"} => ~Answered(c)
  /\ pc[c] \notin {"idle", "setup", "done"} \/ c \in served \/ reclaim[c] # "none" =>
       Answered(c)

\* What the task holds and which table still leads to it, step by step.
HoldingsInv(c) ==
  /\ pc[c] = "idle" => c \notin media
  /\ pc[c] \in {"record", "deregister"} => c \notin media
  /\ pc[c] = "done" /\ reclaim[c] = "none" => c \notin media
  /\ c \in permits => c \in Out
  /\ c \in permits => pc[c] \notin {"idle", "done"}
  /\ c \in dialog_handles => pc[c] \in {"running", "disarm"} \/ (c \in Out /\ pc[c] = "unlist")
  /\ c \in control_registry =>
       \/ pc[c] \in {"running", "unlist"}
       \/ c \notin Out /\ pc[c] \in {"disarm", "bye", "byeing", "retire"}

\* The steps that follow the exchange of BYEs.
AfterByes(c) == {"retire", "stop_media", "record", "deregister"}
                \cup (IF c \in Out THEN {} ELSE {"unlist"})

ByeInv(c) ==
  /\ remote_bye[c] => peer[c] = "down"
  /\ pc[c] \in AfterByes(c) => peer[c] = "down"
  /\ pc[c] = "done" /\ c \in served => peer[c] = "down"
  /\ pc[c] \in {"idle", "setup"} => peer[c] = "none"

CallInv(c) == TablesInv(c) /\ RecordInv(c) /\ HoldingsInv(c) /\ ByeInv(c)

Books == \A c \in Call : CallInv(c)

\* A verdict on the drain is given once, by the step that ends the process.
VerdictIsLast == outcome # "none" => phase = "exited"

Inv == TypeOK /\ Books /\ VerdictIsLast /\ DrainKeepsRecords

-----------------------------------------------------------------------------
(* Types *)

LEMMA SetupType ==
  ASSUME TypeOK, Books, NEW c \in Call, Setup(c) PROVE TypeOK'
<1>1. CASE Invite(c)
  BY <1>1 DEF Invite, TypeOK, Books, Goto, At, Step, Dialog, taskVars, lateVars,
     handleVars, tableVars, sipVars, reportVars, drainVars
<1>2. CASE Originate(c)
  BY <1>2 DEF Originate, TypeOK, Books, Goto, At, Step, Dialog, taskVars, lateVars,
     handleVars, tableVars, sipVars, reportVars, drainVars
<1>3. CASE SetupFails(c)
  BY <1>3 DEF SetupFails, TypeOK, Books, Goto, At, Step, Dialog, taskVars, lateVars,
     handleVars, tableVars, sipVars, reportVars, drainVars
<1>4. CASE Answer(c)
  BY <1>4 DEF Answer, TypeOK, Books, Goto, At, Step, Dialog, taskVars, lateVars,
     handleVars, tableVars, sipVars, reportVars, drainVars
<1>5. CASE AnswerUnusable(c)
  BY <1>5 DEF AnswerUnusable, TypeOK, Books, Goto, At, Step, Dialog, taskVars, lateVars,
     handleVars, tableVars, sipVars, reportVars, drainVars, Call
<1>6. CASE RunCall(c)
  BY <1>6 DEF RunCall, TypeOK, Books, Goto, At, Step, Dialog, taskVars, lateVars,
     handleVars, tableVars, sipVars, reportVars, drainVars, Call
<1>7. QED
  BY <1>1, <1>2, <1>3, <1>4, <1>5, <1>6 DEF Setup

LEMMA DelayedOfferType ==
  ASSUME TypeOK, Books, NEW c \in Call, DelayedOffer(c) PROVE TypeOK'
<1>1. CASE AwaitAck(c)
  BY <1>1 DEF AwaitAck, TypeOK, Books, Goto, At, Step, Dialog, taskVars, lateVars,
     handleVars, tableVars, sipVars, reportVars, drainVars
<1>2. CASE Ack(c)
  BY <1>2 DEF Ack, TypeOK, Books, Goto, At, Step, Dialog, taskVars, lateVars,
     handleVars, tableVars, sipVars, reportVars, drainVars
<1>3. CASE BindFails(c)
  BY <1>3 DEF BindFails, TypeOK, Books, Goto, At, Step, Dialog, taskVars, lateVars,
     handleVars, tableVars, sipVars, reportVars, drainVars
<1>4. CASE WatchdogFires(c)
  BY <1>4 DEF WatchdogFires, ReapPending, TypeOK, Books, Goto, At, Step, Dialog,
     taskVars, lateVars, handleVars, tableVars, sipVars, reportVars, drainVars
<1>5. CASE ReclaimRecord(c)
  BY <1>5 DEF ReclaimRecord, TypeOK, Books, Goto, At, Step, Dialog, taskVars, lateVars,
     handleVars, tableVars, sipVars, reportVars, drainVars, CallInv, RecordInv
<1>6. CASE ReclaimMedia(c)
  BY <1>6 DEF ReclaimMedia, TypeOK, Books, Goto, At, Step, Dialog, taskVars, lateVars,
     handleVars, tableVars, sipVars, reportVars, drainVars
<1>7. QED
  BY <1>1, <1>2, <1>3, <1>4, <1>5, <1>6 DEF DelayedOffer

LEMMA EndingType ==
  ASSUME TypeOK, Books, NEW c \in Call, Ending(c) PROVE TypeOK'
<1>1. CASE PeerBye(c)
  BY <1>1 DEF PeerBye, ReapPending, TypeOK, Books, Goto, At, Step, Dialog, taskVars,
     lateVars, handleVars, tableVars, sipVars, reportVars, drainVars
<1>2. CASE Cancel(c)
  BY <1>2 DEF Cancel, TypeOK, Books, Goto, At, Step, Dialog, taskVars, lateVars,
     handleVars, tableVars, sipVars, reportVars, drainVars
<1>3. CASE SessionExpired(c)
  BY <1>3 DEF SessionExpired, TypeOK, Books, Goto, At, Step, Dialog, taskVars, lateVars,
     handleVars, tableVars, sipVars, reportVars, drainVars
<1>4. CASE AdminHangup(c)
  BY <1>4 DEF AdminHangup, TypeOK, Books, Goto, At, Step, Dialog, taskVars, lateVars,
     handleVars, tableVars, sipVars, reportVars, drainVars
<1>5. CASE ControllerReturns(c)
  BY <1>5 DEF ControllerReturns, AfterRun, TypeOK, Books, Goto, At, Step, Dialog,
     taskVars, lateVars, handleVars, tableVars, sipVars, reportVars, drainVars
<1>6. QED
  BY <1>1, <1>2, <1>3, <1>4, <1>5 DEF Ending

LEMMA CleanupType ==
  ASSUME TypeOK, Books, NEW c \in Call, Cleanup(c) PROVE TypeOK'
<1>1. CASE Disarm(c)
  BY <1>1 DEF Disarm, TypeOK, Books, Goto, At, Step, Dialog, taskVars, lateVars,
     handleVars, tableVars, sipVars, reportVars, drainVars
<1>2. CASE SendBye(c)
  BY <1>2 DEF SendBye, TypeOK, Books, Goto, At, Step, Dialog, taskVars, lateVars,
     handleVars, tableVars, sipVars, reportVars, drainVars
<1>3. CASE ByeDone(c)
  BY <1>3 DEF ByeDone, TypeOK, Books, Goto, At, Step, Dialog, taskVars, lateVars,
     handleVars, tableVars, sipVars, reportVars, drainVars
<1>4. CASE Retire(c)
  BY <1>4 DEF Retire, AfterRetire, TypeOK, Books, Goto, At, Step, Dialog, taskVars,
     lateVars, handleVars, tableVars, sipVars, reportVars, drainVars
<1>5. CASE Unlist(c)
  BY <1>5 DEF Unlist, AfterUnlist, TypeOK, Books, Goto, At, Step, Dialog, taskVars,
     lateVars, handleVars, tableVars, sipVars, reportVars, drainVars
<1>6. CASE StopMedia(c)
  BY <1>6 DEF StopMedia, TypeOK, Books, Goto, At, Step, Dialog, taskVars, lateVars,
     handleVars, tableVars, sipVars, reportVars, drainVars
<1>7. CASE EmitRecord(c)
  BY <1>7 DEF EmitRecord, TypeOK, Books, Goto, At, Step, Dialog, taskVars, lateVars,
     handleVars, tableVars, sipVars, reportVars, drainVars, CallInv, RecordInv
<1>8. CASE Deregister(c)
  BY <1>8 DEF Deregister, TypeOK, Books, Goto, At, Step, Dialog, taskVars, lateVars,
     handleVars, tableVars, sipVars, reportVars, drainVars
<1>9. QED
  BY <1>1, <1>2, <1>3, <1>4, <1>5, <1>6, <1>7, <1>8 DEF Cleanup

LEMMA ReaperType ==
  ASSUME TypeOK, Books, NEW c \in Call, Reaper(c) PROVE TypeOK'
<1>1. CASE Absorb(c)
  BY <1>1 DEF Absorb, TypeOK, Books, Goto, At, Step, Dialog, taskVars, lateVars,
     handleVars, tableVars, sipVars, reportVars, drainVars
<1>2. CASE Sweep(c)
  BY <1>2 DEF Sweep, TypeOK, Books, Goto, At, Step, Dialog, taskVars, lateVars,
     handleVars, tableVars, sipVars, reportVars, drainVars
<1>3. QED
  BY <1>1, <1>2 DEF Reaper

-----------------------------------------------------------------------------
(* The books of each call *)

LEMMA SetupBooks ==
  ASSUME TypeOK, Books, NEW c \in Call, Setup(c) PROVE Books'
<1> SUFFICES ASSUME NEW d \in Call PROVE CallInv(d)'
  BY DEF Books
<1>0. CallInv(d) /\ CallInv(c)
  BY DEF Books
<1>1. CASE Invite(c)
  <2>1. TablesInv(d)'
    BY <1>0, <1>1, KindAssumption DEF Invite, TypeOK, CallInv, TablesInv, Goto, At,
       Step, Registered, Call, taskVars, lateVars, handleVars, tableVars, sipVars, reportVars,
       drainVars
  <2>2. RecordInv(d)'
    BY <1>0, <1>1, KindAssumption DEF Invite, TypeOK, CallInv, TablesInv, RecordInv,
       Goto, At, Step, Registered, Answered, Dialog, taskVars, lateVars, handleVars,
       tableVars, sipVars, reportVars, drainVars
  <2>3. HoldingsInv(d)'
    BY <1>0, <1>1, KindAssumption DEF Invite, TypeOK, CallInv, TablesInv, HoldingsInv,
       Goto, At, Step, Registered, Call, taskVars, lateVars, handleVars, tableVars,
       sipVars, reportVars, drainVars
  <2>4. ByeInv(d)'
    BY <1>0, <1>1, KindAssumption DEF Invite, TypeOK, CallInv, TablesInv, ByeInv, Goto,
       At, Step, Registered, AfterByes, taskVars, lateVars, handleVars, tableVars,
       sipVars, reportVars, drainVars
  <2>5. QED
    BY <2>1, <2>2, <2>3, <2>4 DEF CallInv
<1>2. CASE Originate(c)
  <2>1. TablesInv(d)'
    BY <1>0, <1>2, KindAssumption DEF Originate, TypeOK, CallInv, TablesInv, Goto, At,
       Step, Registered, Call, taskVars, lateVars, handleVars, tableVars, sipVars, reportVars,
       drainVars
  <2>2. RecordInv(d)'
    BY <1>0, <1>2, KindAssumption DEF Originate, TypeOK, CallInv, TablesInv, RecordInv,
       Goto, At, Step, Registered, Answered, Dialog, taskVars, lateVars, handleVars,
       tableVars, sipVars, reportVars, drainVars
  <2>3. HoldingsInv(d)'
    BY <1>0, <1>2, KindAssumption DEF Originate, TypeOK, CallInv, TablesInv,
       HoldingsInv, Goto, At, Step, Registered, Call, taskVars, lateVars, handleVars,
       tableVars, sipVars, reportVars, drainVars
  <2>4. ByeInv(d)'
    BY <1>0, <1>2, KindAssumption DEF Originate, TypeOK, CallInv, TablesInv, ByeInv,
       Goto, At, Step, Registered, AfterByes, taskVars, lateVars, handleVars, tableVars,
       sipVars, reportVars, drainVars
  <2>5. QED
    BY <2>1, <2>2, <2>3, <2>4 DEF CallInv
<1>3. CASE SetupFails(c)
  <2>1. TablesInv(d)'
    BY <1>0, <1>3, KindAssumption DEF SetupFails, TypeOK, CallInv, TablesInv, Goto, At,
       Step, Registered, Call, taskVars, lateVars, handleVars, tableVars, sipVars, reportVars,
       drainVars
  <2>2. RecordInv(d)'
    BY <1>0, <1>3, KindAssumption DEF SetupFails, TypeOK, CallInv, TablesInv, RecordInv,
       Goto, At, Step, Registered, Answered, Dialog, taskVars, lateVars, handleVars,
       tableVars, sipVars, reportVars, drainVars
  <2>3. HoldingsInv(d)'
    BY <1>0, <1>3, KindAssumption DEF SetupFails, TypeOK, CallInv, TablesInv,
       HoldingsInv, Goto, At, Step, Registered, Call, taskVars, lateVars, handleVars,
       tableVars, sipVars, reportVars, drainVars
  <2>4. ByeInv(d)'
    BY <1>0, <1>3, KindAssumption DEF SetupFails, TypeOK, CallInv, TablesInv, ByeInv,
       Goto, At, Step, Registered, AfterByes, taskVars, lateVars, handleVars, tableVars,
       sipVars, reportVars, drainVars
  <2>5. QED
    BY <2>1, <2>2, <2>3, <2>4 DEF CallInv
<1>4. CASE Answer(c)
  <2>1. TablesInv(d)'
    BY <1>0, <1>4, KindAssumption DEF Answer, TypeOK, CallInv, TablesInv, Goto, At,
       Step, Registered, Call, taskVars, lateVars, handleVars, tableVars, sipVars, reportVars,
       drainVars
  <2>2. RecordInv(d)'
    BY <1>0, <1>4, KindAssumption DEF Answer, TypeOK, CallInv, TablesInv, RecordInv,
       Goto, At, Step, Registered, Answered, Dialog, taskVars, lateVars, handleVars,
       tableVars, sipVars, reportVars, drainVars
  <2>3. HoldingsInv(d)'
    BY <1>0, <1>4, KindAssumption DEF Answer, TypeOK, CallInv, TablesInv, HoldingsInv,
       Goto, At, Step, Registered, Call, taskVars, lateVars, handleVars, tableVars,
       sipVars, reportVars, drainVars
  <2>4. ByeInv(d)'
    BY <1>0, <1>4, KindAssumption DEF Answer, TypeOK, CallInv, TablesInv, ByeInv, Goto,
       At, Step, Registered, AfterByes, taskVars, lateVars, handleVars, tableVars,
       sipVars, reportVars, drainVars
  <2>5. QED
    BY <2>1, <2>2, <2>3, <2>4 DEF CallInv
<1>5. CASE AnswerUnusable(c)
  <2>1. TablesInv(d)'
    BY <1>0, <1>5, KindAssumption DEF AnswerUnusable, TypeOK, CallInv, TablesInv, Goto, At,
       Step, Registered, Call, taskVars, lateVars, handleVars, tableVars, sipVars, reportVars,
       drainVars
  <2>2. RecordInv(d)'
    BY <1>0, <1>5, KindAssumption DEF AnswerUnusable, TypeOK, CallInv, TablesInv, RecordInv,
       Goto, At, Step, Registered, Answered, Dialog, taskVars, lateVars, handleVars,
       tableVars, sipVars, reportVars, drainVars
  <2>3. HoldingsInv(d)'
    BY <1>0, <1>5, KindAssumption DEF AnswerUnusable, TypeOK, CallInv, TablesInv, HoldingsInv,
       Goto, At, Step, Registered, Call, taskVars, lateVars, handleVars, tableVars,
       sipVars, reportVars, drainVars
  <2>4. ByeInv(d)'
    BY <1>0, <1>5, KindAssumption DEF AnswerUnusable, TypeOK, CallInv, TablesInv, ByeInv, Goto,
       At, Step, Registered, AfterByes, taskVars, lateVars, handleVars, tableVars,
       sipVars, reportVars, drainVars
  <2>5. QED
    BY <2>1, <2>2, <2>3, <2>4 DEF CallInv
<1>6. CASE RunCall(c)
  <2>1. TablesInv(d)'
    BY <1>0, <1>6, KindAssumption DEF RunCall, TypeOK, CallInv, TablesInv, Goto, At,
       Step, Registered, Call, taskVars, lateVars, handleVars, tableVars, sipVars, reportVars,
       drainVars
  <2>2. RecordInv(d)'
    BY <1>0, <1>6, KindAssumption DEF RunCall, TypeOK, CallInv, TablesInv, RecordInv,
       Goto, At, Step, Registered, Answered, Dialog, taskVars, lateVars, handleVars,
       tableVars, sipVars, reportVars, drainVars
  <2>3. HoldingsInv(d)'
    BY <1>0, <1>6, KindAssumption DEF RunCall, TypeOK, CallInv, TablesInv, HoldingsInv,
       Goto, At, Step, Registered, Call, taskVars, lateVars, handleVars, tableVars,
       sipVars, reportVars, drainVars
  <2>4. ByeInv(d)'
    BY <1>0, <1>6, KindAssumption DEF RunCall, TypeOK, CallInv, TablesInv, ByeInv, Goto,
       At, Step, Registered, AfterByes, taskVars, lateVars, handleVars, tableVars,
       sipVars, reportVars, drainVars
  <2>5. QED
    BY <2>1, <2>2, <2>3, <2>4 DEF CallInv
<1>7. QED
  BY <1>1, <1>2, <1>3, <1>4, <1>5, <1>6 DEF Setup

LEMMA DelayedOfferBooks ==
  ASSUME TypeOK, Books, NEW c \in Call, DelayedOffer(c) PROVE Books'
<1> SUFFICES ASSUME NEW d \in Call PROVE CallInv(d)'
  BY DEF Books
<1>0. CallInv(d) /\ CallInv(c)
  BY DEF Books
<1>1. CASE AwaitAck(c)
  <2>1. TablesInv(d)'
    BY <1>0, <1>1, KindAssumption DEF AwaitAck, TypeOK, CallInv, TablesInv, Goto, At,
       Step, Registered, Call, taskVars, lateVars, handleVars, tableVars, sipVars, reportVars,
       drainVars
  <2>2. RecordInv(d)'
    BY <1>0, <1>1, KindAssumption DEF AwaitAck, TypeOK, CallInv, TablesInv, RecordInv,
       Goto, At, Step, Registered, Answered, Dialog, taskVars, lateVars, handleVars,
       tableVars, sipVars, reportVars, drainVars
  <2>3. HoldingsInv(d)'
    BY <1>0, <1>1, KindAssumption DEF AwaitAck, TypeOK, CallInv, TablesInv, HoldingsInv,
       Goto, At, Step, Registered, Call, taskVars, lateVars, handleVars, tableVars,
       sipVars, reportVars, drainVars
  <2>4. ByeInv(d)'
    BY <1>0, <1>1, KindAssumption DEF AwaitAck, TypeOK, CallInv, TablesInv, ByeInv,
       Goto, At, Step, Registered, AfterByes, taskVars, lateVars, handleVars, tableVars,
       sipVars, reportVars, drainVars
  <2>5. QED
    BY <2>1, <2>2, <2>3, <2>4 DEF CallInv
<1>2. CASE Ack(c)
  <2>1. TablesInv(d)'
    BY <1>0, <1>2, KindAssumption DEF Ack, TypeOK, CallInv, TablesInv, Goto, At, Step,
       Registered, Call, taskVars, lateVars, handleVars, tableVars, sipVars, reportVars, drainVars
  <2>2. RecordInv(d)'
    BY <1>0, <1>2, KindAssumption DEF Ack, TypeOK, CallInv, TablesInv, RecordInv, Goto,
       At, Step, Registered, Answered, Dialog, taskVars, lateVars, handleVars,
       tableVars, sipVars, reportVars, drainVars
  <2>3. HoldingsInv(d)'
    BY <1>0, <1>2, KindAssumption DEF Ack, TypeOK, CallInv, TablesInv, HoldingsInv,
       Goto, At, Step, Registered, Call, taskVars, lateVars, handleVars, tableVars,
       sipVars, reportVars, drainVars
  <2>4. ByeInv(d)'
    BY <1>0, <1>2, KindAssumption DEF Ack, TypeOK, CallInv, TablesInv, ByeInv, Goto, At,
       Step, Registered, AfterByes, taskVars, lateVars, handleVars, tableVars, sipVars, reportVars,
       drainVars
  <2>5. QED
    BY <2>1, <2>2, <2>3, <2>4 DEF CallInv
<1>3. CASE BindFails(c)
  <2>1. TablesInv(d)'
    BY <1>0, <1>3, KindAssumption DEF BindFails, TypeOK, CallInv, TablesInv, Goto, At,
       Step, Registered, Call, taskVars, lateVars, handleVars, tableVars, sipVars, reportVars,
       drainVars
  <2>2. RecordInv(d)'
    BY <1>0, <1>3, KindAssumption DEF BindFails, TypeOK, CallInv, TablesInv, RecordInv,
       Goto, At, Step, Registered, Answered, Dialog, taskVars, lateVars, handleVars,
       tableVars, sipVars, reportVars, drainVars
  <2>3. HoldingsInv(d)'
    BY <1>0, <1>3, KindAssumption DEF BindFails, TypeOK, CallInv, TablesInv,
       HoldingsInv, Goto, At, Step, Registered, Call, taskVars, lateVars, handleVars,
       tableVars, sipVars, reportVars, drainVars
  <2>4. ByeInv(d)'
    BY <1>0, <1>3, KindAssumption DEF BindFails, TypeOK, CallInv, TablesInv, ByeInv,
       Goto, At, Step, Registered, AfterByes, taskVars, lateVars, handleVars, tableVars,
       sipVars, reportVars, drainVars
  <2>5. QED
    BY <2>1, <2>2, <2>3, <2>4 DEF CallInv
<1>4. CASE WatchdogFires(c)
  <2>1. TablesInv(d)'
    BY <1>0, <1>4, KindAssumption DEF WatchdogFires, ReapPending, TypeOK, CallInv,
       TablesInv, Goto, At, Step, Registered, Call, taskVars, lateVars, handleVars,
       tableVars, sipVars, reportVars, drainVars
  <2>2. RecordInv(d)'
    BY <1>0, <1>4, KindAssumption DEF WatchdogFires, ReapPending, TypeOK, CallInv,
       TablesInv, RecordInv, Goto, At, Step, Registered, Answered, Dialog, taskVars,
       lateVars, handleVars, tableVars, sipVars, reportVars, drainVars
  <2>3. HoldingsInv(d)'
    BY <1>0, <1>4, KindAssumption DEF WatchdogFires, ReapPending, TypeOK, CallInv,
       TablesInv, HoldingsInv, Goto, At, Step, Registered, Call, taskVars, lateVars,
       handleVars, tableVars, sipVars, reportVars, drainVars
  <2>4. ByeInv(d)'
    BY <1>0, <1>4, KindAssumption DEF WatchdogFires, ReapPending, TypeOK, CallInv,
       TablesInv, ByeInv, Goto, At, Step, Registered, AfterByes, taskVars, lateVars,
       handleVars, tableVars, sipVars, reportVars, drainVars
  <2>5. QED
    BY <2>1, <2>2, <2>3, <2>4 DEF CallInv
<1>5. CASE ReclaimRecord(c)
  <2>1. TablesInv(d)'
    BY <1>0, <1>5, KindAssumption DEF ReclaimRecord, TypeOK, CallInv, TablesInv, Goto,
       At, Step, Registered, Call, taskVars, lateVars, handleVars, tableVars, sipVars, reportVars,
       drainVars
  <2>2. RecordInv(d)'
    BY <1>0, <1>5, KindAssumption DEF ReclaimRecord, TypeOK, CallInv, TablesInv,
       RecordInv, Goto, At, Step, Registered, Answered, Dialog, taskVars, lateVars,
       handleVars, tableVars, sipVars, reportVars, drainVars
  <2>3. HoldingsInv(d)'
    BY <1>0, <1>5, KindAssumption DEF ReclaimRecord, TypeOK, CallInv, TablesInv,
       HoldingsInv, Goto, At, Step, Registered, Call, taskVars, lateVars, handleVars,
       tableVars, sipVars, reportVars, drainVars
  <2>4. ByeInv(d)'
    BY <1>0, <1>5, KindAssumption DEF ReclaimRecord, TypeOK, CallInv, TablesInv, ByeInv,
       Goto, At, Step, Registered, AfterByes, taskVars, lateVars, handleVars, tableVars,
       sipVars, reportVars, drainVars
  <2>5. QED
    BY <2>1, <2>2, <2>3, <2>4 DEF CallInv
<1>6. CASE ReclaimMedia(c)
  <2>1. TablesInv(d)'
    BY <1>0, <1>6, KindAssumption DEF ReclaimMedia, TypeOK, CallInv, TablesInv, Goto,
       At, Step, Registered, Call, taskVars, lateVars, handleVars, tableVars, sipVars, reportVars,
       drainVars
  <2>2. RecordInv(d)'
    BY <1>0, <1>6, KindAssumption DEF ReclaimMedia, TypeOK, CallInv, TablesInv,
       RecordInv, Goto, At, Step, Registered, Answered, Dialog, taskVars, lateVars,
       handleVars, tableVars, sipVars, reportVars, drainVars
  <2>3. HoldingsInv(d)'
    BY <1>0, <1>6, KindAssumption DEF ReclaimMedia, TypeOK, CallInv, TablesInv,
       HoldingsInv, Goto, At, Step, Registered, Call, taskVars, lateVars, handleVars,
       tableVars, sipVars, reportVars, drainVars
  <2>4. ByeInv(d)'
    BY <1>0, <1>6, KindAssumption DEF ReclaimMedia, TypeOK, CallInv, TablesInv, ByeInv,
       Goto, At, Step, Registered, AfterByes, taskVars, lateVars, handleVars, tableVars,
       sipVars, reportVars, drainVars
  <2>5. QED
    BY <2>1, <2>2, <2>3, <2>4 DEF CallInv
<1>7. QED
  BY <1>1, <1>2, <1>3, <1>4, <1>5, <1>6 DEF DelayedOffer

LEMMA EndingBooks ==
  ASSUME TypeOK, Books, NEW c \in Call, Ending(c) PROVE Books'
<1> SUFFICES ASSUME NEW d \in Call PROVE CallInv(d)'
  BY DEF Books
<1>0. CallInv(d) /\ CallInv(c)
  BY DEF Books
<1>1. CASE PeerBye(c)
  <2>1. TablesInv(d)'
    BY <1>0, <1>1, KindAssumption DEF PeerBye, ReapPending, TypeOK, CallInv, TablesInv,
       Goto, At, Step, Registered, Call, taskVars, lateVars, handleVars, tableVars,
       sipVars, reportVars, drainVars
  <2>2. RecordInv(d)'
    BY <1>0, <1>1, KindAssumption DEF PeerBye, ReapPending, TypeOK, CallInv, TablesInv,
       RecordInv, Goto, At, Step, Registered, Answered, Dialog, taskVars, lateVars,
       handleVars, tableVars, sipVars, reportVars, drainVars
  <2>3. HoldingsInv(d)'
    BY <1>0, <1>1, KindAssumption DEF PeerBye, ReapPending, TypeOK, CallInv, TablesInv,
       HoldingsInv, Goto, At, Step, Registered, Call, taskVars, lateVars, handleVars,
       tableVars, sipVars, reportVars, drainVars
  <2>4. ByeInv(d)'
    BY <1>0, <1>1, KindAssumption DEF PeerBye, ReapPending, TypeOK, CallInv, TablesInv,
       ByeInv, Goto, At, Step, Registered, AfterByes, taskVars, lateVars, handleVars,
       tableVars, sipVars, reportVars, drainVars
  <2>5. QED
    BY <2>1, <2>2, <2>3, <2>4 DEF CallInv
<1>2. CASE Cancel(c)
  <2>1. TablesInv(d)'
    BY <1>0, <1>2, KindAssumption DEF Cancel, TypeOK, CallInv, TablesInv, Goto, At,
       Step, Registered, Call, taskVars, lateVars, handleVars, tableVars, sipVars, reportVars,
       drainVars
  <2>2. RecordInv(d)'
    BY <1>0, <1>2, KindAssumption DEF Cancel, TypeOK, CallInv, TablesInv, RecordInv,
       Goto, At, Step, Registered, Answered, Dialog, taskVars, lateVars, handleVars,
       tableVars, sipVars, reportVars, drainVars
  <2>3. HoldingsInv(d)'
    BY <1>0, <1>2, KindAssumption DEF Cancel, TypeOK, CallInv, TablesInv, HoldingsInv,
       Goto, At, Step, Registered, Call, taskVars, lateVars, handleVars, tableVars,
       sipVars, reportVars, drainVars
  <2>4. ByeInv(d)'
    BY <1>0, <1>2, KindAssumption DEF Cancel, TypeOK, CallInv, TablesInv, ByeInv, Goto,
       At, Step, Registered, AfterByes, taskVars, lateVars, handleVars, tableVars,
       sipVars, reportVars, drainVars
  <2>5. QED
    BY <2>1, <2>2, <2>3, <2>4 DEF CallInv
<1>3. CASE SessionExpired(c)
  <2>1. TablesInv(d)'
    BY <1>0, <1>3, KindAssumption DEF SessionExpired, TypeOK, CallInv, TablesInv, Goto,
       At, Step, Registered, Call, taskVars, lateVars, handleVars, tableVars, sipVars, reportVars,
       drainVars
  <2>2. RecordInv(d)'
    BY <1>0, <1>3, KindAssumption DEF SessionExpired, TypeOK, CallInv, TablesInv,
       RecordInv, Goto, At, Step, Registered, Answered, Dialog, taskVars, lateVars,
       handleVars, tableVars, sipVars, reportVars, drainVars
  <2>3. HoldingsInv(d)'
    BY <1>0, <1>3, KindAssumption DEF SessionExpired, TypeOK, CallInv, TablesInv,
       HoldingsInv, Goto, At, Step, Registered, Call, taskVars, lateVars, handleVars,
       tableVars, sipVars, reportVars, drainVars
  <2>4. ByeInv(d)'
    BY <1>0, <1>3, KindAssumption DEF SessionExpired, TypeOK, CallInv, TablesInv,
       ByeInv, Goto, At, Step, Registered, AfterByes, taskVars, lateVars, handleVars,
       tableVars, sipVars, reportVars, drainVars
  <2>5. QED
    BY <2>1, <2>2, <2>3, <2>4 DEF CallInv
<1>4. CASE AdminHangup(c)
  <2>1. TablesInv(d)'
    BY <1>0, <1>4, KindAssumption DEF AdminHangup, TypeOK, CallInv, TablesInv, Goto, At,
       Step, Registered, Call, taskVars, lateVars, handleVars, tableVars, sipVars, reportVars,
       drainVars
  <2>2. RecordInv(d)'
    BY <1>0, <1>4, KindAssumption DEF AdminHangup, TypeOK, CallInv, TablesInv,
       RecordInv, Goto, At, Step, Registered, Answered, Dialog, taskVars, lateVars,
       handleVars, tableVars, sipVars, reportVars, drainVars
  <2>3. HoldingsInv(d)'
    BY <1>0, <1>4, KindAssumption DEF AdminHangup, TypeOK, CallInv, TablesInv,
       HoldingsInv, Goto, At, Step, Registered, Call, taskVars, lateVars, handleVars,
       tableVars, sipVars, reportVars, drainVars
  <2>4. ByeInv(d)'
    BY <1>0, <1>4, KindAssumption DEF AdminHangup, TypeOK, CallInv, TablesInv, ByeInv,
       Goto, At, Step, Registered, AfterByes, taskVars, lateVars, handleVars, tableVars,
       sipVars, reportVars, drainVars
  <2>5. QED
    BY <2>1, <2>2, <2>3, <2>4 DEF CallInv
<1>5. CASE ControllerReturns(c)
  <2>1. TablesInv(d)'
    BY <1>0, <1>5, KindAssumption DEF ControllerReturns, AfterRun, TypeOK, CallInv,
       TablesInv, Goto, At, Step, Registered, Call, taskVars, lateVars, handleVars,
       tableVars, sipVars, reportVars, drainVars
  <2>2. RecordInv(d)'
    BY <1>0, <1>5, KindAssumption DEF ControllerReturns, AfterRun, TypeOK, CallInv,
       TablesInv, RecordInv, Goto, At, Step, Registered, Answered, Dialog, taskVars,
       lateVars, handleVars, tableVars, sipVars, reportVars, drainVars
  <2>3. HoldingsInv(d)'
    BY <1>0, <1>5, KindAssumption DEF ControllerReturns, AfterRun, TypeOK, CallInv,
       TablesInv, HoldingsInv, Goto, At, Step, Registered, Call, taskVars, lateVars,
       handleVars, tableVars, sipVars, reportVars, drainVars
  <2>4. ByeInv(d)'
    BY <1>0, <1>5, KindAssumption DEF ControllerReturns, AfterRun, TypeOK, CallInv,
       TablesInv, ByeInv, Goto, At, Step, Registered, AfterByes, taskVars, lateVars,
       handleVars, tableVars, sipVars, reportVars, drainVars
  <2>5. QED
    BY <2>1, <2>2, <2>3, <2>4 DEF CallInv
<1>6. QED
  BY <1>1, <1>2, <1>3, <1>4, <1>5 DEF Ending

LEMMA CleanupBooks ==
  ASSUME TypeOK, Books, NEW c \in Call, Cleanup(c) PROVE Books'
<1> SUFFICES ASSUME NEW d \in Call PROVE CallInv(d)'
  BY DEF Books
<1>0. CallInv(d) /\ CallInv(c)
  BY DEF Books
<1>1. CASE Disarm(c)
  <2>1. TablesInv(d)'
    BY <1>0, <1>1, KindAssumption DEF Disarm, TypeOK, CallInv, TablesInv, Goto, At,
       Step, Registered, Call, taskVars, lateVars, handleVars, tableVars, sipVars, reportVars,
       drainVars
  <2>2. RecordInv(d)'
    BY <1>0, <1>1, KindAssumption DEF Disarm, TypeOK, CallInv, TablesInv, RecordInv,
       Goto, At, Step, Registered, Answered, Dialog, taskVars, lateVars, handleVars,
       tableVars, sipVars, reportVars, drainVars
  <2>3. HoldingsInv(d)'
    BY <1>0, <1>1, KindAssumption DEF Disarm, TypeOK, CallInv, TablesInv, HoldingsInv,
       Goto, At, Step, Registered, Call, taskVars, lateVars, handleVars, tableVars,
       sipVars, reportVars, drainVars
  <2>4. ByeInv(d)'
    BY <1>0, <1>1, KindAssumption DEF Disarm, TypeOK, CallInv, TablesInv, ByeInv, Goto,
       At, Step, Registered, AfterByes, taskVars, lateVars, handleVars, tableVars,
       sipVars, reportVars, drainVars
  <2>5. QED
    BY <2>1, <2>2, <2>3, <2>4 DEF CallInv
<1>2. CASE SendBye(c)
  <2>1. TablesInv(d)'
    BY <1>0, <1>2, KindAssumption DEF SendBye, TypeOK, CallInv, TablesInv, Goto, At,
       Step, Registered, Call, taskVars, lateVars, handleVars, tableVars, sipVars, reportVars,
       drainVars
  <2>2. RecordInv(d)'
    BY <1>0, <1>2, KindAssumption DEF SendBye, TypeOK, CallInv, TablesInv, RecordInv,
       Goto, At, Step, Registered, Answered, Dialog, taskVars, lateVars, handleVars,
       tableVars, sipVars, reportVars, drainVars
  <2>3. HoldingsInv(d)'
    BY <1>0, <1>2, KindAssumption DEF SendBye, TypeOK, CallInv, TablesInv, HoldingsInv,
       Goto, At, Step, Registered, Call, taskVars, lateVars, handleVars, tableVars,
       sipVars, reportVars, drainVars
  <2>4. ByeInv(d)'
    BY <1>0, <1>2, KindAssumption DEF SendBye, TypeOK, CallInv, TablesInv, ByeInv, Goto,
       At, Step, Registered, AfterByes, taskVars, lateVars, handleVars, tableVars,
       sipVars, reportVars, drainVars
  <2>5. QED
    BY <2>1, <2>2, <2>3, <2>4 DEF CallInv
<1>3. CASE ByeDone(c)
  <2>1. TablesInv(d)'
    BY <1>0, <1>3, KindAssumption DEF ByeDone, TypeOK, CallInv, TablesInv, Goto, At,
       Step, Registered, Call, taskVars, lateVars, handleVars, tableVars, sipVars, reportVars,
       drainVars
  <2>2. RecordInv(d)'
    BY <1>0, <1>3, KindAssumption DEF ByeDone, TypeOK, CallInv, TablesInv, RecordInv,
       Goto, At, Step, Registered, Answered, Dialog, taskVars, lateVars, handleVars,
       tableVars, sipVars, reportVars, drainVars
  <2>3. HoldingsInv(d)'
    BY <1>0, <1>3, KindAssumption DEF ByeDone, TypeOK, CallInv, TablesInv, HoldingsInv,
       Goto, At, Step, Registered, Call, taskVars, lateVars, handleVars, tableVars,
       sipVars, reportVars, drainVars
  <2>4. ByeInv(d)'
    BY <1>0, <1>3, KindAssumption DEF ByeDone, TypeOK, CallInv, TablesInv, ByeInv, Goto,
       At, Step, Registered, AfterByes, taskVars, lateVars, handleVars, tableVars,
       sipVars, reportVars, drainVars
  <2>5. QED
    BY <2>1, <2>2, <2>3, <2>4 DEF CallInv
<1>4. CASE Retire(c)
  <2>1. TablesInv(d)'
    BY <1>0, <1>4, KindAssumption DEF Retire, AfterRetire, TypeOK, CallInv, TablesInv,
       Goto, At, Step, Registered, Call, taskVars, lateVars, handleVars, tableVars,
       sipVars, reportVars, drainVars
  <2>2. RecordInv(d)'
    BY <1>0, <1>4, KindAssumption DEF Retire, AfterRetire, TypeOK, CallInv, TablesInv,
       RecordInv, Goto, At, Step, Registered, Answered, Dialog, taskVars, lateVars,
       handleVars, tableVars, sipVars, reportVars, drainVars
  <2>3. HoldingsInv(d)'
    BY <1>0, <1>4, KindAssumption DEF Retire, AfterRetire, TypeOK, CallInv, TablesInv,
       HoldingsInv, Goto, At, Step, Registered, Call, taskVars, lateVars, handleVars,
       tableVars, sipVars, reportVars, drainVars
  <2>4. ByeInv(d)'
    BY <1>0, <1>4, KindAssumption DEF Retire, AfterRetire, TypeOK, CallInv, TablesInv,
       ByeInv, Goto, At, Step, Registered, AfterByes, taskVars, lateVars, handleVars,
       tableVars, sipVars, reportVars, drainVars
  <2>5. QED
    BY <2>1, <2>2, <2>3, <2>4 DEF CallInv
<1>5. CASE Unlist(c)
  <2>1. TablesInv(d)'
    BY <1>0, <1>5, KindAssumption DEF Unlist, AfterUnlist, TypeOK, CallInv, TablesInv,
       Goto, At, Step, Registered, Call, taskVars, lateVars, handleVars, tableVars,
       sipVars, reportVars, drainVars
  <2>2. RecordInv(d)'
    BY <1>0, <1>5, KindAssumption DEF Unlist, AfterUnlist, TypeOK, CallInv, TablesInv,
       RecordInv, Goto, At, Step, Registered, Answered, Dialog, taskVars, lateVars,
       handleVars, tableVars, sipVars, reportVars, drainVars
  <2>3. HoldingsInv(d)'
    BY <1>0, <1>5, KindAssumption DEF Unlist, AfterUnlist, TypeOK, CallInv, TablesInv,
       HoldingsInv, Goto, At, Step, Registered, Call, taskVars, lateVars, handleVars,
       tableVars, sipVars, reportVars, drainVars
  <2>4. ByeInv(d)'
    BY <1>0, <1>5, KindAssumption DEF Unlist, AfterUnlist, TypeOK, CallInv, TablesInv,
       ByeInv, Goto, At, Step, Registered, AfterByes, taskVars, lateVars, handleVars,
       tableVars, sipVars, reportVars, drainVars
  <2>5. QED
    BY <2>1, <2>2, <2>3, <2>4 DEF CallInv
<1>6. CASE StopMedia(c)
  <2>1. TablesInv(d)'
    BY <1>0, <1>6, KindAssumption DEF StopMedia, TypeOK, CallInv, TablesInv, Goto, At,
       Step, Registered, Call, taskVars, lateVars, handleVars, tableVars, sipVars, reportVars,
       drainVars
  <2>2. RecordInv(d)'
    BY <1>0, <1>6, KindAssumption DEF StopMedia, TypeOK, CallInv, TablesInv, RecordInv,
       Goto, At, Step, Registered, Answered, Dialog, taskVars, lateVars, handleVars,
       tableVars, sipVars, reportVars, drainVars
  <2>3. HoldingsInv(d)'
    BY <1>0, <1>6, KindAssumption DEF StopMedia, TypeOK, CallInv, TablesInv,
       HoldingsInv, Goto, At, Step, Registered, Call, taskVars, lateVars, handleVars,
       tableVars, sipVars, reportVars, drainVars
  <2>4. ByeInv(d)'
    BY <1>0, <1>6, KindAssumption DEF StopMedia, TypeOK, CallInv, TablesInv, ByeInv,
       Goto, At, Step, Registered, AfterByes, taskVars, lateVars, handleVars, tableVars,
       sipVars, reportVars, drainVars
  <2>5. QED
    BY <2>1, <2>2, <2>3, <2>4 DEF CallInv
<1>7. CASE EmitRecord(c)
  <2>1. TablesInv(d)'
    BY <1>0, <1>7, KindAssumption DEF EmitRecord, TypeOK, CallInv, TablesInv, Goto, At,
       Step, Registered, Call, taskVars, lateVars, handleVars, tableVars, sipVars, reportVars,
       drainVars
  <2>2. RecordInv(d)'
    BY <1>0, <1>7, KindAssumption DEF EmitRecord, TypeOK, CallInv, TablesInv, RecordInv,
       Goto, At, Step, Registered, Answered, Dialog, taskVars, lateVars, handleVars,
       tableVars, sipVars, reportVars, drainVars
  <2>3. HoldingsInv(d)'
    BY <1>0, <1>7, KindAssumption DEF EmitRecord, TypeOK, CallInv, TablesInv,
       HoldingsInv, Goto, At, Step, Registered, Call, taskVars, lateVars, handleVars,
       tableVars, sipVars, reportVars, drainVars
  <2>4. ByeInv(d)'
    BY <1>0, <1>7, KindAssumption DEF EmitRecord, TypeOK, CallInv, TablesInv, ByeInv,
       Goto, At, Step, Registered, AfterByes, taskVars, lateVars, handleVars, tableVars,
       sipVars, reportVars, drainVars
  <2>5. QED
    BY <2>1, <2>2, <2>3, <2>4 DEF CallInv
<1>8. CASE Deregister(c)
  <2>1. TablesInv(d)'
    BY <1>0, <1>8, KindAssumption DEF Deregister, TypeOK, CallInv, TablesInv, Goto, At,
       Step, Registered, Call, taskVars, lateVars, handleVars, tableVars, sipVars, reportVars,
       drainVars
  <2>2. RecordInv(d)'
    BY <1>0, <1>8, KindAssumption DEF Deregister, TypeOK, CallInv, TablesInv, RecordInv,
       Goto, At, Step, Registered, Answered, Dialog, taskVars, lateVars, handleVars,
       tableVars, sipVars, reportVars, drainVars
  <2>3. HoldingsInv(d)'
    BY <1>0, <1>8, KindAssumption DEF Deregister, TypeOK, CallInv, TablesInv,
       HoldingsInv, Goto, At, Step, Registered, Call, taskVars, lateVars, handleVars,
       tableVars, sipVars, reportVars, drainVars
  <2>4. ByeInv(d)'
    BY <1>0, <1>8, KindAssumption DEF Deregister, TypeOK, CallInv, TablesInv, ByeInv,
       Goto, At, Step, Registered, AfterByes, taskVars, lateVars, handleVars, tableVars,
       sipVars, reportVars, drainVars
  <2>5. QED
    BY <2>1, <2>2, <2>3, <2>4 DEF CallInv
<1>9. QED
  BY <1>1, <1>2, <1>3, <1>4, <1>5, <1>6, <1>7, <1>8 DEF Cleanup

LEMMA ReaperBooks ==
  ASSUME TypeOK, Books, NEW c \in Call, Reaper(c) PROVE Books'
<1> SUFFICES ASSUME NEW d \in Call PROVE CallInv(d)'
  BY DEF Books
<1>0. CallInv(d) /\ CallInv(c)
  BY DEF Books
<1>1. CASE Absorb(c)
  <2>1. TablesInv(d)'
    BY <1>0, <1>1, KindAssumption DEF Absorb, TypeOK, CallInv, TablesInv, Goto, At,
       Step, Registered, Call, taskVars, lateVars, handleVars, tableVars, sipVars, reportVars,
       drainVars
  <2>2. RecordInv(d)'
    BY <1>0, <1>1, KindAssumption DEF Absorb, TypeOK, CallInv, TablesInv, RecordInv,
       Goto, At, Step, Registered, Answered, Dialog, taskVars, lateVars, handleVars,
       tableVars, sipVars, reportVars, drainVars
  <2>3. HoldingsInv(d)'
    BY <1>0, <1>1, KindAssumption DEF Absorb, TypeOK, CallInv, TablesInv, HoldingsInv,
       Goto, At, Step, Registered, Call, taskVars, lateVars, handleVars, tableVars,
       sipVars, reportVars, drainVars
  <2>4. ByeInv(d)'
    BY <1>0, <1>1, KindAssumption DEF Absorb, TypeOK, CallInv, TablesInv, ByeInv, Goto,
       At, Step, Registered, AfterByes, taskVars, lateVars, handleVars, tableVars,
       sipVars, reportVars, drainVars
  <2>5. QED
    BY <2>1, <2>2, <2>3, <2>4 DEF CallInv
<1>2. CASE Sweep(c)
  <2>1. TablesInv(d)'
    BY <1>0, <1>2, KindAssumption DEF Sweep, TypeOK, CallInv, TablesInv, Goto, At, Step,
       Registered, Call, taskVars, lateVars, handleVars, tableVars, sipVars, reportVars, drainVars
  <2>2. RecordInv(d)'
    BY <1>0, <1>2, KindAssumption DEF Sweep, TypeOK, CallInv, TablesInv, RecordInv,
       Goto, At, Step, Registered, Answered, Dialog, taskVars, lateVars, handleVars,
       tableVars, sipVars, reportVars, drainVars
  <2>3. HoldingsInv(d)'
    BY <1>0, <1>2, KindAssumption DEF Sweep, TypeOK, CallInv, TablesInv, HoldingsInv,
       Goto, At, Step, Registered, Call, taskVars, lateVars, handleVars, tableVars,
       sipVars, reportVars, drainVars
  <2>4. ByeInv(d)'
    BY <1>0, <1>2, KindAssumption DEF Sweep, TypeOK, CallInv, TablesInv, ByeInv, Goto,
       At, Step, Registered, AfterByes, taskVars, lateVars, handleVars, tableVars,
       sipVars, reportVars, drainVars
  <2>5. QED
    BY <2>1, <2>2, <2>3, <2>4 DEF CallInv
<1>3. QED
  BY <1>1, <1>2 DEF Reaper
-----------------------------------------------------------------------------
(* The drain *)

\* The drain moves no call: it asks some of them to stop.
LEMMA DrainInv == ASSUME TypeOK, Books, Drain PROVE TypeOK' /\ Books'
<1>1. UNCHANGED <<callVars, remote_bye>>
  BY DEF Drain, BeginDrain, ExitAtOnce, DrainEmptied, DrainTimeout, StragglersSignalled,
     GraceOver, ForceStraggler, callVars, handleVars
<1>2. shutdown' \in [Call -> BOOLEAN]
  BY DEF Drain, BeginDrain, ExitAtOnce, DrainEmptied, DrainTimeout, StragglersSignalled,
     GraceOver, ForceStraggler, handleVars, TypeOK
<1>3. /\ stragglers' \subseteq Call
      /\ phase' \in {"serving", "draining", "forcing", "flushing", "exited"}
      /\ outcome' \in {"none", "emptied", "dropped", "grace_over"}
  BY DEF Drain, BeginDrain, ExitAtOnce, DrainEmptied, DrainTimeout, StragglersSignalled,
     GraceOver, ForceStraggler, TypeOK
<1>4. TypeOK'
  BY <1>1, <1>2, <1>3 DEF TypeOK, callVars, taskVars, lateVars, tableVars, sipVars, reportVars
<1>5. Books'
  <2> SUFFICES ASSUME NEW d \in Call PROVE CallInv(d)'
    BY DEF Books
  <2>1. CallInv(d)
    BY DEF Books
  <2>2. QED
    BY <1>1, <2>1 DEF CallInv, TablesInv, RecordInv, HoldingsInv, ByeInv, Registered,
       AfterByes, Answered, callVars, taskVars, lateVars, tableVars, sipVars, reportVars
<1>6. QED
  BY <1>4, <1>5

\* A call moves only while the process is alive, and never the drain.
LEMMA CallStepsLive ==
  ASSUME NEW c \in Call, Setup(c) \/ DelayedOffer(c) \/ Ending(c) \/ Cleanup(c) \/ Reaper(c)
  PROVE  Alive /\ UNCHANGED <<phase, stragglers, outcome>>
<1>1. CASE Setup(c)
  BY <1>1 DEF Setup, Invite, Originate, SetupFails, Answer, AnswerUnusable, RunCall, At,
     drainVars
<1>2. CASE DelayedOffer(c)
  BY <1>2 DEF DelayedOffer, AwaitAck, Ack, BindFails, WatchdogFires, ReclaimRecord,
     ReclaimMedia, At, drainVars
<1>3. CASE Ending(c)
  BY <1>3 DEF Ending, PeerBye, Cancel, SessionExpired, AdminHangup, ControllerReturns, At,
     drainVars
<1>4. CASE Cleanup(c)
  BY <1>4 DEF Cleanup, Disarm, SendBye, ByeDone, Retire, Unlist, StopMedia, EmitRecord,
     Deregister, At, drainVars
<1>5. CASE Reaper(c)
  BY <1>5 DEF Reaper, Absorb, Sweep, drainVars
<1>6. QED
  BY <1>1, <1>2, <1>3, <1>4, <1>5

\* When the registry is empty every call that was served has been recorded.
LEMMA EmptyRegistry ==
  ASSUME TypeOK, Books, registry = {} PROVE \A c \in served : cdr[c] = 1
<1> SUFFICES ASSUME NEW c \in served PROVE cdr[c] = 1
  OBVIOUS
<1>1. c \in Call
  BY DEF TypeOK
<1>2. CallInv(c)
  BY <1>1 DEF Books
<1>3. QED
  BY <1>2 DEF CallInv, TablesInv, RecordInv

-----------------------------------------------------------------------------
(* The theorems *)

LEMMA InvInit == Init => Inv
<1> SUFFICES ASSUME Init PROVE Inv
  OBVIOUS
<1>1. TypeOK
  BY DEF Init, TypeOK, Step, Dialog
<1>2. Books
  <2> SUFFICES ASSUME NEW c \in Call PROVE CallInv(c)
    BY DEF Books
  <2>1. QED
    BY DEF Init, CallInv, TablesInv, RecordInv, HoldingsInv, ByeInv, Registered, AfterByes,
       Answered
<1>3. QED
  BY <1>1, <1>2 DEF Init, Inv, VerdictIsLast, DrainKeepsRecords

LEMMA InvStep == Inv /\ [Next]_vars => Inv'
<1> SUFFICES ASSUME Inv, [Next]_vars PROVE Inv'
  OBVIOUS
<1>0. TypeOK /\ Books /\ VerdictIsLast /\ DrainKeepsRecords
  BY DEF Inv
<1>1. ASSUME NEW c \in Call,
             Setup(c) \/ DelayedOffer(c) \/ Ending(c) \/ Cleanup(c) \/ Reaper(c)
      PROVE  Inv'
  <2>1. TypeOK'
    BY <1>0, <1>1, SetupType, DelayedOfferType, EndingType, CleanupType, ReaperType
  <2>2. Books'
    BY <1>0, <1>1, SetupBooks, DelayedOfferBooks, EndingBooks, CleanupBooks, ReaperBooks
  <2>3. outcome = "none" /\ outcome' = outcome /\ phase' = phase
    BY <1>0, <1>1, CallStepsLive DEF VerdictIsLast, Alive
  <2>4. QED
    BY <2>1, <2>2, <2>3 DEF Inv, VerdictIsLast, DrainKeepsRecords
<1>2. CASE Drain
  <2>1. TypeOK' /\ Books'
    BY <1>0, <1>2, DrainInv
  <2>2. VerdictIsLast'
    BY <1>0, <1>2 DEF Drain, BeginDrain, ExitAtOnce, DrainEmptied, DrainTimeout,
       StragglersSignalled, GraceOver, ForceStraggler, VerdictIsLast, Alive
  <2>3. DrainKeepsRecords'
    <3>1. CASE DrainEmptied
      BY <1>0, <3>1, EmptyRegistry DEF DrainEmptied, callVars, taskVars, reportVars,
         DrainKeepsRecords
    <3>2. CASE ~DrainEmptied
      BY <1>0, <1>2, <3>2 DEF Drain, BeginDrain, ExitAtOnce, DrainTimeout,
         StragglersSignalled, GraceOver, ForceStraggler, callVars, taskVars, reportVars,
         DrainKeepsRecords
    <3>3. QED
      BY <3>1, <3>2
  <2>4. QED
    BY <2>1, <2>2, <2>3 DEF Inv
<1>3. CASE UNCHANGED vars
  <2>1. TypeOK'
    BY <1>0, <1>3 DEF TypeOK, vars, taskVars, lateVars, handleVars, tableVars, sipVars, reportVars,
       drainVars
  <2>2. Books'
    <3> SUFFICES ASSUME NEW d \in Call PROVE CallInv(d)'
      BY DEF Books
    <3>1. CallInv(d)
      BY <1>0 DEF Books
    <3>2. QED
      BY <1>3, <3>1 DEF CallInv, TablesInv, RecordInv, HoldingsInv, ByeInv, Registered,
         AfterByes, Answered, vars, taskVars, lateVars, handleVars, tableVars, sipVars, reportVars
  <2>3. QED
    BY <1>0, <1>3, <2>1, <2>2 DEF Inv, VerdictIsLast, DrainKeepsRecords, vars, taskVars,
       reportVars, drainVars
<1>4. QED
  BY <1>1, <1>2, <1>3 DEF Next

\* The tables, the records, what each task holds and the exchange of BYEs agree with where
\* the task of each call stands, in every reachable state.
THEOREM Invariance == Spec => []Inv
BY InvInit, InvStep, PTL DEF Spec

\* Every variable keeps its type; above all, no call is ever recorded twice, whichever of the
\* cleanup task, the watchdog, a reaping BYE or a failed ACK writes its record.
THEOREM TypeCorrect == Spec => []TypeOK
<1>1. Inv => TypeOK
  BY DEF Inv
<1>2. QED
  BY <1>1, Invariance, PTL

\* Issue #344 cannot come back: a drain that reports every call ended has the record of
\* every call that was ever in the registry.
THEOREM DrainLosesNoRecord == Spec => []DrainKeepsRecords
<1>1. Inv => DrainKeepsRecords
  BY DEF Inv
<1>2. QED
  BY <1>1, Invariance, PTL

\* A call that is over holds no media, permit or parked offer, is in no table, and has its
\* verdict: a record or a failure report for a leg we placed, a record for an inbound call
\* that was answered, and nothing for one that was not.
THEOREM CallsSettle == Spec => []Settled
<1>1. Inv => Settled
  <2> SUFFICES ASSUME Inv, NEW c \in Call, Over(c)
               PROVE  /\ c \notin media \cup permits \cup pending
                      /\ c \notin registry \cup control_registry \cup dialog_handles
                      /\ cdr[c] = 1 <=> IF c \in Out THEN c \notin failed ELSE Answered(c)
    BY DEF Settled
  <2>1. CallInv(c)
    BY DEF Inv, Books
  <2>2. c \notin media \cup permits \cup pending
        /\ c \notin registry \cup control_registry \cup dialog_handles
    BY <2>1 DEF Over, CallInv, TablesInv, HoldingsInv, Registered
  <2>3. cdr[c] = 1 <=> IF c \in Out THEN c \notin failed ELSE Answered(c)
    BY <2>1 DEF Over, CallInv, RecordInv
  <2>4. QED
    BY <2>2, <2>3
<1>2. QED
  BY <1>1, Invariance, PTL

\* No call that ran is over while its peer is still in it.
THEOREM PeersReleased == Spec => []PeerReleased
<1>1. Inv => PeerReleased
  <2> SUFFICES ASSUME Inv, NEW c \in served, Over(c) PROVE peer[c] = "down"
    BY DEF PeerReleased
  <2>1. CallInv(c)
    BY DEF Inv, Books, TypeOK
  <2>2. QED
    BY <2>1 DEF Over, CallInv, ByeInv
<1>2. QED
  BY <1>1, Invariance, PTL
-----------------------------------------------------------------------------
(* The ledger *)

Connects(c) == IF c \in Out THEN RunCall(c) ELSE Answer(c)
Fails(c) == c \in Out /\ (SetupFails(c) \/ AnswerUnusable(c))
Records(c) == ReclaimRecord(c) \/ EmitRecord(c)

\* No step takes an answer back, and only Answer gives one.
LEMMA AnswersStay ==
  ASSUME TypeOK, Books, NEW c \in Call,
         Setup(c) \/ DelayedOffer(c) \/ Ending(c) \/ Cleanup(c) \/ Reaper(c),
         ~Answer(c)
  PROVE  \A d \in Call : (dialog[d] # "none")' <=> dialog[d] # "none"
<1>0. CallInv(c)
  BY DEF Books
<1>1. CASE Setup(c)
  BY <1>1 DEF Setup, Invite, Originate, SetupFails, AnswerUnusable, RunCall, sipVars
<1>2. CASE DelayedOffer(c)
  BY <1>2 DEF DelayedOffer, AwaitAck, Ack, BindFails, WatchdogFires, ReclaimRecord,
     ReclaimMedia, sipVars
<1>3. CASE Ending(c)
  BY <1>3 DEF Ending, PeerBye, Cancel, SessionExpired, AdminHangup, ControllerReturns,
     sipVars
<1>4. CASE Cleanup(c)
  BY <1>0, <1>4 DEF Cleanup, Disarm, SendBye, ByeDone, Retire, Unlist, StopMedia,
     EmitRecord, Deregister, TypeOK, Dialog, At, sipVars, CallInv, RecordInv, Answered
<1>5. CASE Reaper(c)
  BY <1>5 DEF Reaper, Absorb, Sweep, TypeOK, Dialog
<1>6. QED
  BY <1>1, <1>2, <1>3, <1>4, <1>5

\* Every step but a connection, a failure, a record and the exit leaves the ledger alone.
LEMMA LedgerStutters ==
  ASSUME TypeOK, Books, NEW c \in Call,
         Setup(c) \/ DelayedOffer(c) \/ Ending(c) \/ Cleanup(c) \/ Reaper(c),
         ~Connects(c), ~Fails(c), ~Records(c)
  PROVE  UNCHANGED <<cdr, failed, Connected>>
<1>0. CallInv(c)
  BY DEF Books
<1>1. CASE Answer(c)
  <2>1. c \in Out /\ c \notin served
    BY <1>0, <1>1 DEF Connects, Answer, At, CallInv, TablesInv, Registered
  <2>2. UNCHANGED <<cdr, failed, served>> /\ dialog' = [dialog EXCEPT ![c] = "confirmed"]
    BY <1>1 DEF Answer, reportVars
  <2>3. QED
    BY <2>1, <2>2 DEF Connected, Answered, TypeOK
<1>2. CASE RunCall(c)
  <2>1. c \notin Out
    BY <1>2 DEF Connects
  <2>2. UNCHANGED <<cdr, failed, dialog>> /\ served' = served \cup {c}
    BY <1>2 DEF RunCall, reportVars, sipVars
  <2>3. QED
    BY <2>1, <2>2 DEF Connected, Answered
<1>3. CASE ~Answer(c) /\ ~RunCall(c)
  <2>1. UNCHANGED <<cdr, failed, served>>
    <3>1. CASE Setup(c)
      BY <1>3, <3>1 DEF Setup, Invite, Originate, SetupFails, AnswerUnusable, Fails, taskVars,
         reportVars
    <3>2. CASE DelayedOffer(c)
      BY <3>2 DEF DelayedOffer, Records, AwaitAck, Ack, BindFails, WatchdogFires,
         ReclaimMedia, reportVars, taskVars
    <3>3. CASE Ending(c)
      BY <3>3 DEF Ending, PeerBye, Cancel, SessionExpired, AdminHangup, ControllerReturns,
         reportVars, taskVars
    <3>4. CASE Cleanup(c)
      BY <3>4 DEF Cleanup, Records, Disarm, SendBye, ByeDone, Retire, Unlist, StopMedia,
         Deregister, reportVars, taskVars
    <3>5. CASE Reaper(c)
      BY <3>5 DEF Reaper, Absorb, Sweep, reportVars, taskVars
    <3>6. QED
      BY <3>1, <3>2, <3>3, <3>4, <3>5
  <2>2. \A d \in Call : (dialog[d] # "none")' <=> dialog[d] # "none"
    BY <1>3, AnswersStay
  <2>3. QED
    BY <2>1, <2>2 DEF Connected, Answered
<1>4. QED
  BY <1>1, <1>2, <1>3

LEMMA LedgerConnects ==
  ASSUME TypeOK, Books, NEW c \in Call, Connects(c) PROVE Ledger!Connect(c)
<1>0. CallInv(c)
  BY DEF Books
<1>1. UNCHANGED <<cdr, failed, phase>> /\ Alive
  BY DEF Connects, Answer, RunCall, At, reportVars, drainVars
<1>2. c \notin Connected \cup failed
  BY <1>0 DEF Connects, Answer, RunCall, At, Connected, CallInv, RecordInv, TablesInv,
     Registered
<1>3. Connected' = Connected \cup {c}
  <2>1. CASE c \in Out
    <3>1. served' = served \cup {c} /\ dialog' = dialog /\ Answered(c)
      BY <1>0, <2>1 DEF Connects, RunCall, At, sipVars, CallInv, RecordInv
    <3>2. QED
      BY <2>1, <3>1 DEF Connected, Answered
  <2>2. CASE c \notin Out
    <3>1. served' = served /\ dialog' = [dialog EXCEPT ![c] = "confirmed"]
      BY <2>2 DEF Connects, Answer
    <3>2. QED
      BY <2>2, <3>1 DEF Connected, Answered, TypeOK
  <2>3. QED
    BY <2>1, <2>2
<1>4. QED
  BY <1>1, <1>2, <1>3 DEF Alive, Ledger!Connect

LEMMA LedgerFails ==
  ASSUME TypeOK, Books, NEW c \in Call, Fails(c) PROVE Ledger!Fail(c)
<1>0. CallInv(c)
  BY DEF Books
<1>1. UNCHANGED <<cdr, served, dialog, phase>> /\ Alive /\ failed' = failed \cup {c}
  BY DEF Fails, SetupFails, AnswerUnusable, At, sipVars, drainVars
<1>2. c \notin Connected \cup failed
  BY <1>0 DEF Fails, SetupFails, AnswerUnusable, At, Connected, CallInv, RecordInv,
     TablesInv, Registered
<1>3. Connected' = Connected
  BY <1>1 DEF Connected, Answered
<1>4. QED
  BY <1>1, <1>2, <1>3 DEF Alive, Ledger!Fail

LEMMA LedgerRecords ==
  ASSUME TypeOK, Books, NEW c \in Call, Records(c) PROVE Ledger!Record(c)
<1>0. CallInv(c)
  BY DEF Books
<1>1. cdr' = [cdr EXCEPT ![c] = cdr[c] + 1]
      /\ UNCHANGED <<failed, served, dialog, phase>> /\ Alive
  BY DEF Records, ReclaimRecord, EmitRecord, At, taskVars, sipVars, drainVars
<1>2. cdr[c] = 0 /\ Answered(c)
  BY <1>0 DEF Records, ReclaimRecord, EmitRecord, At, CallInv, RecordInv
<1>3. c \in Out => c \in served
  BY <1>0, KindAssumption DEF Records, ReclaimRecord, EmitRecord, At, CallInv, TablesInv,
     Registered
<1>4. c \in Connected /\ Connected' = Connected
  BY <1>1, <1>2, <1>3 DEF Connected, Answered
<1>5. QED
  BY <1>1, <1>2, <1>4 DEF Alive, Ledger!Record

LEMMA LedgerStep == Inv /\ [Next]_vars => [Ledger!Next]_(Ledger!ledgerVars)
<1> SUFFICES ASSUME Inv, [Next]_vars PROVE [Ledger!Next]_(Ledger!ledgerVars)
  OBVIOUS
<1>0. TypeOK /\ Books
  BY DEF Inv
<1>1. ASSUME NEW c \in Call,
             Setup(c) \/ DelayedOffer(c) \/ Ending(c) \/ Cleanup(c) \/ Reaper(c)
      PROVE  [Ledger!Next]_(Ledger!ledgerVars)
  <2>1. CASE Connects(c)
    BY <1>0, <2>1, LedgerConnects DEF Ledger!Next
  <2>2. CASE Fails(c)
    BY <1>0, <2>2, LedgerFails DEF Ledger!Next
  <2>3. CASE Records(c)
    BY <1>0, <2>3, LedgerRecords DEF Ledger!Next
  <2>4. CASE ~Connects(c) /\ ~Fails(c) /\ ~Records(c)
    <3>1. UNCHANGED <<cdr, failed, Connected>>
      BY <1>0, <1>1, <2>4, LedgerStutters
    <3>2. phase' = phase
      BY <1>1, CallStepsLive
    <3>3. QED
      BY <3>1, <3>2 DEF Alive, Ledger!ledgerVars
  <2>5. QED
    BY <2>1, <2>2, <2>3, <2>4
<1>2. CASE Drain
  <2>1. UNCHANGED <<cdr, failed, Connected>>
    BY <1>2 DEF Drain, BeginDrain, ExitAtOnce, DrainEmptied, DrainTimeout,
       StragglersSignalled, GraceOver, ForceStraggler, callVars, taskVars, sipVars,
       reportVars, Connected, Answered
  <2>2. CASE Alive /\ ~Alive'
    BY <2>1, <2>2 DEF Ledger!Next, Ledger!Close
  <2>3. CASE ~(Alive /\ ~Alive')
    <3>1. phase = "exited" <=> phase' = "exited"
      BY <1>2, <2>3 DEF Drain, BeginDrain, ExitAtOnce, DrainEmptied, DrainTimeout,
         StragglersSignalled, GraceOver, ForceStraggler, Alive
    <3>2. QED
      BY <2>1, <3>1 DEF Ledger!ledgerVars, Alive
  <2>4. QED
    BY <2>2, <2>3
<1>3. CASE UNCHANGED vars
  BY <1>3 DEF vars, taskVars, sipVars, reportVars, drainVars, Ledger!ledgerVars, Connected,
     Answered, Alive
<1>4. QED
  BY <1>1, <1>2, <1>3 DEF Next

\* The daemon keeps the ledger: no connected call has two records, a leg reported as failed
\* never connects and has none, and none is written after the exit, however the ACK,
\* Timer H and a BYE race for a parked offer.
THEOREM KeepsLedger == Spec => LedgerSpec
<1>1. Init => Ledger!Init
  BY DEF Init, Ledger!Init, Connected, Answered, Alive
<1>2. QED
  BY <1>1, LedgerStep, Invariance, PTL DEF Spec, LedgerSpec, Ledger!Spec
=============================================================================
