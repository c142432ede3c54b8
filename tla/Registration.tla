---------------------------- MODULE Registration ----------------------------
(***************************************************************************)
(* One [[register]] block: the task that keeps our binding at a registrar  *)
(* (bins/siphon-ai/src/registration.rs), the manager's row and command     *)
(* queue (crates/sip-glue/src/register.rs) and the teardown of the daemon  *)
(* (bins/siphon-ai/src/runtime.rs).  Blocks are independent of each other. *)
(*                                                                         *)
(* Time is a count of ticks.  What a task can do at once it does before    *)
(* the next tick; only sleeping and a REGISTER on the way let time pass.   *)
(***************************************************************************)
EXTENDS Integers, Sequences

CONSTANTS
  Grants,          \* what the registrar may grant, in ticks
  RefreshMargin,   \* timing::REFRESH_MARGIN
  MinRefreshDelay, \* timing::MIN_REFRESH_DELAY
  BackoffInitial, BackoffMax,
  AttemptMax,      \* the SIP stack answers or gives up within this many ticks
  QueueCap         \* places in the command channel

ASSUME TimingAssumption ==
  /\ Grants \subseteq Nat
  /\ RefreshMargin \in Nat /\ MinRefreshDelay \in Nat /\ AttemptMax \in Nat
  /\ BackoffInitial \in Nat /\ BackoffMax \in Nat /\ BackoffInitial <= BackoffMax
  /\ QueueCap \in Nat \ {0}

VARIABLES
  phase,         \* of the daemon
  pc,            \* where the drive task is
  notified,      \* the shutdown Notify has woken the wait the task is in
  status, rows,  \* the manager's row; the rows of the gauge that are 1
  told,          \* the status of the last webhook
  backoff, timer,
  arrived, flight_age, \* the REGISTER on the way
  binding,       \* ticks the registrar will still keep our binding
  offered,       \* what it last granted
  cleared,       \* an Expires: 0 took the binding away
  commands,
  owed, owed_age,\* an accepted command no REGISTER has followed yet
  restart_owed,  \* an accepted restart that has not unregistered yet
  idle           \* ticks since the last attempt ended, as far as they matter

rowVars == <<status, rows, told>>
timeVars == <<backoff, timer, idle>>
flightVars == <<arrived, flight_age>>
registrarVars == <<binding, offered, cleared>>
queueVars == <<commands, owed, owed_age, restart_owed>>
vars == <<phase, pc, notified, rowVars, timeVars, flightVars, registrarVars, queueVars>>

Status == {"pending", "registered", "failed", "disabled"}
Command == {"refresh", "restart"}
Waiting == {"registered", "backing_off"}
InFlight == {"registering", "unregistering"}

\* The registrar has had no binding of ours for longer than matters.
Lapsed == -(3 * AttemptMax + 1)

\* The least time between two attempts that nobody asked for.
MinGap == IF BackoffInitial < MinRefreshDelay THEN BackoffInitial ELSE MinRefreshDelay

\* Mutant: sleeps for all that was granted.
refresh_delay_NoMargin(expires) == IF expires < MinRefreshDelay THEN MinRefreshDelay ELSE expires

refresh_delay(expires) ==
  IF expires < RefreshMargin + MinRefreshDelay THEN MinRefreshDelay
  ELSE expires - RefreshMargin

Init ==
  /\ phase = "serving" /\ notified = FALSE
  /\ \/ pc = "parked" /\ status = "disabled"
     \/ pc = "registering" /\ status = "pending"
  /\ rows = {status} /\ told = "none"
  /\ backoff = BackoffInitial /\ timer = 0 /\ idle = MinGap
  /\ arrived = FALSE /\ flight_age = 0
  /\ binding = Lapsed /\ offered = 0 /\ cleared = FALSE
  /\ commands = <<>> /\ owed = FALSE /\ owed_age = 0 /\ restart_owed = FALSE

-----------------------------------------------------------------------------
(* The drive task. *)

\* set_status, and on a change publish_state and emit_webhook.
SetStatus(new) ==
  /\ status' = new
  /\ rows' = (rows \ {status}) \cup {new}
  /\ told' = IF status = new THEN told ELSE new

\* A REGISTER leaves; the fresh one of a cycle settles what the operator is owed.
SendRegister(kind) ==
  /\ pc' = kind /\ arrived' = FALSE /\ flight_age' = 0
  /\ IF kind = "registering" THEN owed' = FALSE /\ owed_age' = 0
     ELSE UNCHANGED <<owed, owed_age>>

\* The first command of a parked block starts it; there is no binding to clear.
Unpark ==
  /\ pc = "parked" /\ commands # <<>> /\ commands' = Tail(commands)
  /\ SetStatus("pending") /\ SendRegister("registering") /\ notified' = FALSE
  /\ UNCHANGED <<phase, timeVars, registrarVars, restart_owed>>

\* The registrar does what the REGISTER says.
Arrives ==
  /\ pc \in InFlight /\ ~arrived /\ arrived' = TRUE
  /\ \/ /\ pc = "registering"
        /\ \E granted \in Grants : binding' = granted /\ offered' = granted
        /\ cleared' = FALSE
     \/ /\ pc = "unregistering"
        /\ binding' = Lapsed /\ cleared' = TRUE /\ UNCHANGED offered
  /\ UNCHANGED <<phase, pc, notified, rowVars, timeVars, flight_age, queueVars>>

\* An Expires: 0 is over, well or not: the fresh REGISTER follows.
Unregistered ==
  /\ pc = "unregistering" /\ SendRegister("registering")
  /\ UNCHANGED <<phase, notified, rowVars, timeVars, registrarVars, commands, restart_owed>>

\* RegisterOutcome::Registered
Registered ==
  /\ pc = "registering" /\ arrived /\ pc' = "registered"
  /\ SetStatus("registered")
  /\ backoff' = BackoffInitial /\ timer' = refresh_delay(offered) /\ idle' = 0
  /\ UNCHANGED <<phase, notified, flightVars, registrarVars, queueVars>>

\* RegisterOutcome::Failed: refused, or no answer came, though it may have been obeyed.
Failed ==
  /\ pc = "registering" /\ pc' = "backing_off"
  /\ SetStatus("failed")
  /\ timer' = backoff /\ idle' = 0 /\ UNCHANGED backoff
  /\ UNCHANGED <<phase, notified, flightVars, registrarVars, queueVars>>

\* Mutant: the back-off is waited out for ever.
WakeElapsed_OnlyRefresh ==
  /\ pc = "registered" /\ timer = 0
  /\ UNCHANGED backoff /\ SendRegister("registering") /\ notified' = FALSE
  /\ UNCHANGED <<phase, rowVars, timer, idle, registrarVars, commands, restart_owed>>

\* Wake::Elapsed
WakeElapsed ==
  /\ pc \in Waiting /\ timer = 0
  /\ backoff' = IF pc = "registered" THEN backoff
                ELSE IF 2 * backoff > BackoffMax THEN BackoffMax ELSE 2 * backoff
  /\ SendRegister("registering") /\ notified' = FALSE
  /\ UNCHANGED <<phase, rowVars, timer, idle, registrarVars, commands, restart_owed>>

\* Wake::Command
WakeCommand ==
  /\ pc \in Waiting /\ commands # <<>> /\ commands' = Tail(commands)
  /\ backoff' = IF pc = "registered" THEN backoff ELSE BackoffInitial
  /\ IF Head(commands) = "restart"
     THEN SendRegister("unregistering") /\ restart_owed' = FALSE
     ELSE SendRegister("registering") /\ UNCHANGED restart_owed
  /\ notified' = FALSE
  /\ UNCHANGED <<phase, rowVars, timer, idle, registrarVars>>

\* Wake::Shutdown, and the same arm of the parked wait.
WakeShutdown ==
  /\ pc \in Waiting \cup {"parked"} /\ notified /\ pc' = "exited" /\ notified' = FALSE
  /\ UNCHANGED <<phase, rowVars, timeVars, flightVars, registrarVars, queueVars>>

-----------------------------------------------------------------------------
(* The operator, the daemon and the clock. *)

\* send_command: a full queue is a success, a task that has exited a refusal.
SendCommand(command) ==
  /\ phase # "down" /\ pc # "exited"
  /\ commands' = IF Len(commands) < QueueCap THEN Append(commands, command) ELSE commands
  /\ owed' = TRUE /\ UNCHANGED owed_age
  /\ restart_owed' = (restart_owed \/ (command = "restart" /\ pc # "parked"))
  /\ UNCHANGED <<phase, pc, notified, rowVars, timeVars, flightVars, registrarVars>>

BeginDrain ==
  /\ phase = "serving" /\ phase' = "draining"
  /\ UNCHANGED <<pc, notified, rowVars, timeVars, flightVars, registrarVars, queueVars>>

\* notify_waiters: only a task that is waiting hears it.
Shutdown ==
  /\ phase \in {"serving", "draining"} /\ phase' = "tearing"
  /\ notified' = (pc \in Waiting \cup {"parked"})
  /\ UNCHANGED <<pc, rowVars, timeVars, flightVars, registrarVars, queueVars>>

\* The daemon has waited for the task, or for 250 ms.
Down ==
  /\ phase = "tearing" /\ phase' = "down"
  /\ UNCHANGED <<pc, notified, rowVars, timeVars, flightVars, registrarVars, queueVars>>

\* Mutant: a sleeping task does not look at its commands.
Urgent_NoCommands ==
  \/ phase = "tearing"
  \/ pc = "parked" /\ commands # <<>>
  \/ pc \in Waiting /\ timer = 0
  \/ pc \in InFlight /\ flight_age = AttemptMax

\* The teardown takes less than a tick; a task whose wait is over runs at once.
Urgent ==
  \/ phase = "tearing"
  \/ pc \in Waiting \cup {"parked"} /\ commands # <<>>
  \/ pc \in Waiting /\ timer = 0
  \/ pc \in InFlight /\ flight_age = AttemptMax

Tick ==
  /\ phase # "down" /\ ~Urgent
  /\ timer' = IF pc \in Waiting THEN timer - 1 ELSE timer
  /\ flight_age' = IF pc \in InFlight THEN flight_age + 1 ELSE flight_age
  /\ binding' = IF binding > Lapsed THEN binding - 1 ELSE binding
  /\ owed_age' = IF owed THEN owed_age + 1 ELSE owed_age
  /\ idle' = IF idle < MinGap /\ pc \in Waiting THEN idle + 1 ELSE idle
  /\ UNCHANGED <<phase, pc, notified, rowVars, backoff, arrived, offered, cleared,
                 commands, owed, restart_owed>>

-----------------------------------------------------------------------------
Drive ==
  \/ Unpark \/ Unregistered \/ Registered \/ Failed
  \/ WakeElapsed \/ WakeCommand \/ WakeShutdown
Daemon == BeginDrain \/ Shutdown \/ Down
Operator == \E command \in Command : SendCommand(command)

Next ==
  \/ phase # "down" /\ (Drive \/ Arrives)
  \/ Operator \/ Daemon \/ Tick
  \/ phase = "down" /\ UNCHANGED vars

Spec == Init /\ [][Next]_vars

(***************************************************************************)
(* The task runs, the clock ticks, and a registrar that is asked again and *)
(* again grants a binding some time.                                       *)
(***************************************************************************)
FairSpec ==
  /\ Spec
  /\ WF_vars(phase # "down" /\ Drive) /\ WF_vars(Tick)
  /\ SF_vars(phase # "down" /\ pc = "registering" /\ Arrives)
  /\ SF_vars(phase # "down" /\ Registered)

-----------------------------------------------------------------------------
(* Properties. *)

TaskType ==
  /\ phase \in {"serving", "draining", "tearing", "down"}
  /\ pc \in Waiting \cup InFlight \cup {"parked", "exited"}
  /\ status \in Status /\ rows \in SUBSET Status /\ told \in Status \cup {"none"}
TimeType ==
  /\ backoff \in BackoffInitial .. BackoffMax /\ timer \in Nat /\ idle \in 0 .. MinGap
  /\ flight_age \in 0 .. AttemptMax
RegistrarType == binding \in Int /\ binding >= Lapsed /\ offered \in Nat
QueueType ==
  /\ commands \in Seq(Command) /\ Len(commands) <= QueueCap
  /\ owed_age \in Nat
FlagType ==
  /\ notified \in BOOLEAN /\ arrived \in BOOLEAN /\ cleared \in BOOLEAN
  /\ owed \in BOOLEAN /\ restart_owed \in BOOLEAN

TypeOK == TaskType /\ TimeType /\ RegistrarType /\ QueueType /\ FlagType

\* register.rs:319: while the row says registered, the binding of a registrar that grants
\* enough lasts, unless a restart cleared it: what is left of the margin when the answer took
\* one attempt's time, and the next REGISTER another one, or two with a restart before it.
BindingCovered ==
  status = "registered" /\ ~cleared /\ offered >= RefreshMargin + MinRefreshDelay
    => binding >= RefreshMargin - 3 * AttemptMax

\* register.rs:274: a command that was accepted, on a full queue too, is followed by a fresh
\* REGISTER, whatever back-off or refresh the task sleeps through: it waits for the attempt in
\* flight and for the Expires: 0 of a restart, for nothing else.
KickServed == owed => owed_age <= 2 * AttemptMax

\* register.rs:335: a registrar is never asked again at once by the timers alone, however
\* short its grants and however often it refuses.
Polite ==
  [][(pc \in Waiting /\ pc' = "registering" /\ commands' = commands) => (idle >= MinGap)]_vars

\* registration.rs:15: manager, gauge and webhooks tell of the same status: exactly one row of
\* the gauge is 1, and the last webhook was about it, unless nothing has changed yet.
StatusPublished ==
  /\ rows = {status}
  /\ told = status \/ (told = "none" /\ status \in {"pending", "disabled"})

\* registration.rs:56: a failed registration is retried until it succeeds.
Recovers == (status = "failed") ~> (status = "registered" \/ phase # "serving")

-----------------------------------------------------------------------------
(* Statements of the comments and documents that do not hold. *)

\* "dropping the extra kick loses nothing" (register.rs:276): an accepted restart is queued
\* until it has unregistered.
RestartKept == restart_owed => \E i \in DOMAIN commands : commands[i] = "restart"

\* "They observe the shutdown notify on their next loop iter" (runtime.rs:1549): a task that
\* sleeps while the daemon is torn down has been woken.
ShutdownHeard == phase = "tearing" /\ pc \in Waiting => notified

\* "409 = the daemon is draining" (docs/REGISTRATION.md:166): no command is accepted then.
DrainRefuses == [][phase = "draining" => (owed' => owed)]_vars
=============================================================================
