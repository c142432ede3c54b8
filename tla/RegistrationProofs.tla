-------------------------- MODULE RegistrationProofs --------------------------
(***************************************************************************)
(* Proofs about Registration, for every choice of its timers, every grant  *)
(* and every length of the queue: types, that the row, the gauge and the   *)
(* webhooks agree, how far the registrar's binding may run down while the  *)
(* row says registered, how long an accepted command waits, and that the   *)
(* timers alone never ask the registrar twice at once.                     *)
(***************************************************************************)
EXTENDS Registration, TLAPS

\* What the place of the task says of the row and of the daemon.
PlaceBooks ==
  /\ pc = "registered" => status = "registered"
  /\ pc = "backing_off" => status = "failed"
  /\ pc = "parked" => status = "disabled"
  /\ notified \/ pc = "exited" => phase \in {"tearing", "down"}

\* What is owed is in the queue, or waits for an Expires: 0 to end.
KickBooks ==
  /\ ~owed => owed_age = 0
  /\ owed /\ pc = "registering" => commands # <<>> /\ owed_age <= flight_age
  /\ owed /\ pc \in Waiting \cup {"parked"} => commands # <<>> /\ owed_age <= AttemptMax
  /\ owed /\ pc = "unregistering" => owed_age <= AttemptMax + flight_age
  /\ owed /\ pc = "exited" => owed_age <= AttemptMax

\* The last grant was enough, and no restart has cleared the binding.
Granted == offered >= RefreshMargin + MinRefreshDelay /\ ~cleared

\* The binding runs down with the sleep, then with the attempts that follow it.
BindingBooks ==
  /\ Granted /\ pc = "registered" => binding >= timer + RefreshMargin - AttemptMax
  /\ Granted /\ status = "registered" /\ pc = "unregistering" =>
       binding >= RefreshMargin - AttemptMax - flight_age
  /\ Granted /\ status = "registered" /\ pc = "registering" /\ ~arrived =>
       binding >= RefreshMargin - 2 * AttemptMax - flight_age
  /\ pc = "registering" /\ arrived => binding >= offered - flight_age
  /\ Granted /\ status = "registered" /\ pc = "exited" => binding >= RefreshMargin - AttemptMax

\* What has been slept and what is left of the sleep make up the least gap.
GapBooks == pc \in Waiting => idle + timer >= MinGap

IInv == TypeOK /\ PlaceBooks /\ StatusPublished /\ KickBooks /\ BindingBooks /\ GapBooks

LEMMA Gap == MinGap \in Nat /\ MinGap <= BackoffInitial /\ MinGap <= MinRefreshDelay
BY TimingAssumption DEF MinGap

LEMMA LapsedInt == Lapsed \in Int /\ Lapsed <= 0
BY TimingAssumption DEF Lapsed

\* The refresh comes no sooner than the floor, and leaves the margin when it can.
LEMMA RefreshDelay ==
  ASSUME NEW expires \in Nat
  PROVE  /\ refresh_delay(expires) \in Nat /\ refresh_delay(expires) >= MinRefreshDelay
         /\ expires >= RefreshMargin + MinRefreshDelay =>
              refresh_delay(expires) = expires - RefreshMargin
BY TimingAssumption DEF refresh_delay

LEMMA InitInv == Init => IInv
<1> SUFFICES ASSUME Init PROVE IInv
  OBVIOUS
<1>1. TypeOK
  <2>1. TaskType
    BY DEF Init, TaskType, Status, Waiting, InFlight
  <2>2. TimeType
    BY TimingAssumption, Gap DEF Init, TimeType
  <2>3. RegistrarType
    BY LapsedInt DEF Init, RegistrarType
  <2>4. QueueType
    BY TimingAssumption DEF Init, QueueType
  <2>5. FlagType
    BY DEF Init, FlagType
  <2> QED BY <2>1, <2>2, <2>3, <2>4, <2>5 DEF TypeOK
<1>2. PlaceBooks /\ StatusPublished /\ KickBooks /\ GapBooks
  BY TimingAssumption, Gap
     DEF Init, PlaceBooks, StatusPublished, KickBooks, GapBooks, Waiting
<1>3. BindingBooks
  BY TimingAssumption DEF Init, BindingBooks, Granted
<1> QED BY <1>1, <1>2, <1>3 DEF IInv

-----------------------------------------------------------------------------
(* Each step keeps the invariant, one conjunct after the other. *)

LEMMA KeepsTaskType ==
  ASSUME IInv, [Next]_vars
  PROVE  TaskType'
<1> USE TimingAssumption DEF IInv, TypeOK, TaskType, Status, Waiting, InFlight, rowVars, timeVars, flightVars, registrarVars, queueVars
<1>1. ASSUME Unpark PROVE TaskType'
  BY <1>1 DEF Unpark, SendRegister, SetStatus
<1>2. ASSUME Arrives PROVE TaskType'
  BY <1>2 DEF Arrives
<1>3. ASSUME Unregistered PROVE TaskType'
  BY <1>3 DEF Unregistered, SendRegister
<1>4. ASSUME Registered PROVE TaskType'
  BY <1>4 DEF Registered, SetStatus
<1>5. ASSUME Failed PROVE TaskType'
  BY <1>5 DEF Failed, SetStatus
<1>6. ASSUME WakeElapsed PROVE TaskType'
  BY <1>6 DEF WakeElapsed, SendRegister
<1>7. ASSUME WakeCommand PROVE TaskType'
  BY <1>7 DEF WakeCommand, SendRegister
<1>8. ASSUME WakeShutdown PROVE TaskType'
  BY <1>8 DEF WakeShutdown
<1>9. ASSUME NEW command \in Command, SendCommand(command) PROVE TaskType'
  BY <1>9 DEF SendCommand
<1>10. ASSUME Daemon PROVE TaskType'
  BY <1>10 DEF Daemon, BeginDrain, Shutdown, Down
<1>11. ASSUME Tick PROVE TaskType'
  BY <1>11 DEF Tick, Urgent
<1>12. CASE UNCHANGED vars
  BY <1>12 DEF vars
<1> QED BY <1>1, <1>2, <1>3, <1>4, <1>5, <1>6, <1>7, <1>8, <1>9, <1>10, <1>11, <1>12 DEF Next, Drive, Operator

LEMMA KeepsTimeType ==
  ASSUME IInv, [Next]_vars
  PROVE  TimeType'
<1> USE TimingAssumption, Gap DEF IInv, TypeOK, TimeType, Waiting, InFlight, rowVars, timeVars, flightVars, registrarVars, queueVars
<1>1. ASSUME Unpark PROVE TimeType'
  BY <1>1 DEF Unpark, SendRegister, SetStatus
<1>2. ASSUME Arrives PROVE TimeType'
  BY <1>2 DEF Arrives
<1>3. ASSUME Unregistered PROVE TimeType'
  BY <1>3 DEF Unregistered, SendRegister
<1>4. ASSUME Registered PROVE TimeType'
  <2>1. refresh_delay(offered) \in Nat
    BY RefreshDelay DEF RegistrarType
  <2> QED BY <1>4, <2>1 DEF Registered, SetStatus
<1>5. ASSUME Failed PROVE TimeType'
  BY <1>5 DEF Failed, SetStatus
<1>6. ASSUME WakeElapsed PROVE TimeType'
  BY <1>6 DEF WakeElapsed, SendRegister
<1>7. ASSUME WakeCommand PROVE TimeType'
  BY <1>7 DEF WakeCommand, SendRegister
<1>8. ASSUME WakeShutdown PROVE TimeType'
  BY <1>8 DEF WakeShutdown
<1>9. ASSUME NEW command \in Command, SendCommand(command) PROVE TimeType'
  BY <1>9 DEF SendCommand
<1>10. ASSUME Daemon PROVE TimeType'
  BY <1>10 DEF Daemon, BeginDrain, Shutdown, Down
<1>11. ASSUME Tick PROVE TimeType'
  BY <1>11 DEF Tick, Urgent
<1>12. CASE UNCHANGED vars
  BY <1>12 DEF vars
<1> QED BY <1>1, <1>2, <1>3, <1>4, <1>5, <1>6, <1>7, <1>8, <1>9, <1>10, <1>11, <1>12 DEF Next, Drive, Operator

LEMMA KeepsRegistrarType ==
  ASSUME IInv, [Next]_vars
  PROVE  RegistrarType'
<1> USE TimingAssumption, LapsedInt DEF IInv, TypeOK, RegistrarType, InFlight, rowVars, timeVars, flightVars, registrarVars, queueVars
<1>1. ASSUME Unpark PROVE RegistrarType'
  BY <1>1 DEF Unpark, SendRegister, SetStatus
<1>2. ASSUME Arrives PROVE RegistrarType'
  BY <1>2 DEF Arrives
<1>3. ASSUME Unregistered PROVE RegistrarType'
  BY <1>3 DEF Unregistered, SendRegister
<1>4. ASSUME Registered PROVE RegistrarType'
  BY <1>4 DEF Registered, SetStatus
<1>5. ASSUME Failed PROVE RegistrarType'
  BY <1>5 DEF Failed, SetStatus
<1>6. ASSUME WakeElapsed PROVE RegistrarType'
  BY <1>6 DEF WakeElapsed, SendRegister
<1>7. ASSUME WakeCommand PROVE RegistrarType'
  BY <1>7 DEF WakeCommand, SendRegister
<1>8. ASSUME WakeShutdown PROVE RegistrarType'
  BY <1>8 DEF WakeShutdown
<1>9. ASSUME NEW command \in Command, SendCommand(command) PROVE RegistrarType'
  BY <1>9 DEF SendCommand
<1>10. ASSUME Daemon PROVE RegistrarType'
  BY <1>10 DEF Daemon, BeginDrain, Shutdown, Down
<1>11. ASSUME Tick PROVE RegistrarType'
  BY <1>11 DEF Tick, Urgent
<1>12. CASE UNCHANGED vars
  BY <1>12 DEF vars
<1> QED BY <1>1, <1>2, <1>3, <1>4, <1>5, <1>6, <1>7, <1>8, <1>9, <1>10, <1>11, <1>12 DEF Next, Drive, Operator

LEMMA KeepsQueueType ==
  ASSUME IInv, [Next]_vars
  PROVE  QueueType'
<1> USE TimingAssumption DEF IInv, TypeOK, QueueType, Command, rowVars, timeVars, flightVars, registrarVars, queueVars
<1>1. ASSUME Unpark PROVE QueueType'
  BY <1>1 DEF Unpark, SendRegister, SetStatus
<1>2. ASSUME Arrives PROVE QueueType'
  BY <1>2 DEF Arrives
<1>3. ASSUME Unregistered PROVE QueueType'
  BY <1>3 DEF Unregistered, SendRegister
<1>4. ASSUME Registered PROVE QueueType'
  BY <1>4 DEF Registered, SetStatus
<1>5. ASSUME Failed PROVE QueueType'
  BY <1>5 DEF Failed, SetStatus
<1>6. ASSUME WakeElapsed PROVE QueueType'
  BY <1>6 DEF WakeElapsed, SendRegister
<1>7. ASSUME WakeCommand PROVE QueueType'
  BY <1>7 DEF WakeCommand, SendRegister
<1>8. ASSUME WakeShutdown PROVE QueueType'
  BY <1>8 DEF WakeShutdown
<1>9. ASSUME NEW command \in Command, SendCommand(command) PROVE QueueType'
  BY <1>9 DEF SendCommand
<1>10. ASSUME Daemon PROVE QueueType'
  BY <1>10 DEF Daemon, BeginDrain, Shutdown, Down
<1>11. ASSUME Tick PROVE QueueType'
  BY <1>11 DEF Tick, Urgent
<1>12. CASE UNCHANGED vars
  BY <1>12 DEF vars
<1> QED BY <1>1, <1>2, <1>3, <1>4, <1>5, <1>6, <1>7, <1>8, <1>9, <1>10, <1>11, <1>12 DEF Next, Drive, Operator

LEMMA KeepsFlagType ==
  ASSUME IInv, [Next]_vars
  PROVE  FlagType'
<1> USE DEF IInv, TypeOK, FlagType, Waiting, rowVars, timeVars, flightVars, registrarVars, queueVars
<1>1. ASSUME Unpark PROVE FlagType'
  BY <1>1 DEF Unpark, SendRegister, SetStatus
<1>2. ASSUME Arrives PROVE FlagType'
  BY <1>2 DEF Arrives
<1>3. ASSUME Unregistered PROVE FlagType'
  BY <1>3 DEF Unregistered, SendRegister
<1>4. ASSUME Registered PROVE FlagType'
  BY <1>4 DEF Registered, SetStatus
<1>5. ASSUME Failed PROVE FlagType'
  BY <1>5 DEF Failed, SetStatus
<1>6. ASSUME WakeElapsed PROVE FlagType'
  BY <1>6 DEF WakeElapsed, SendRegister
<1>7. ASSUME WakeCommand PROVE FlagType'
  BY <1>7 DEF WakeCommand, SendRegister
<1>8. ASSUME WakeShutdown PROVE FlagType'
  BY <1>8 DEF WakeShutdown
<1>9. ASSUME NEW command \in Command, SendCommand(command) PROVE FlagType'
  BY <1>9 DEF SendCommand
<1>10. ASSUME Daemon PROVE FlagType'
  <2>1. notified' \in BOOLEAN
    <3>1. notified' = notified \/ notified' = (pc \in Waiting \cup {"parked"})
      BY <1>10, Zenon DEF Daemon, BeginDrain, Shutdown, Down
    <3>2. (pc \in Waiting \cup {"parked"}) \in BOOLEAN
      OBVIOUS
    <3> QED BY <3>1, <3>2, Zenon
  <2>2. UNCHANGED <<arrived, cleared, owed, restart_owed>>
    BY <1>10 DEF Daemon, BeginDrain, Shutdown, Down
  <2> QED BY <2>1, <2>2
<1>11. ASSUME Tick PROVE FlagType'
  BY <1>11 DEF Tick, Urgent
<1>12. CASE UNCHANGED vars
  BY <1>12 DEF vars
<1> QED BY <1>1, <1>2, <1>3, <1>4, <1>5, <1>6, <1>7, <1>8, <1>9, <1>10, <1>11, <1>12 DEF Next, Drive, Operator

LEMMA KeepsPlace ==
  ASSUME IInv, [Next]_vars
  PROVE  PlaceBooks'
<1> USE TimingAssumption DEF IInv, TypeOK, TaskType, TimeType, RegistrarType, QueueType, FlagType, PlaceBooks, Waiting, InFlight, rowVars, timeVars, flightVars, registrarVars, queueVars
<1>1. ASSUME Unpark PROVE PlaceBooks'
  BY <1>1 DEF Unpark, SendRegister, SetStatus
<1>2. ASSUME Arrives PROVE PlaceBooks'
  BY <1>2 DEF Arrives
<1>3. ASSUME Unregistered PROVE PlaceBooks'
  BY <1>3 DEF Unregistered, SendRegister
<1>4. ASSUME Registered PROVE PlaceBooks'
  BY <1>4 DEF Registered, SetStatus
<1>5. ASSUME Failed PROVE PlaceBooks'
  BY <1>5 DEF Failed, SetStatus
<1>6. ASSUME WakeElapsed PROVE PlaceBooks'
  BY <1>6 DEF WakeElapsed, SendRegister
<1>7. ASSUME WakeCommand PROVE PlaceBooks'
  BY <1>7 DEF WakeCommand, SendRegister
<1>8. ASSUME WakeShutdown PROVE PlaceBooks'
  BY <1>8 DEF WakeShutdown
<1>9. ASSUME NEW command \in Command, SendCommand(command) PROVE PlaceBooks'
  BY <1>9 DEF SendCommand
<1>10. ASSUME Daemon PROVE PlaceBooks'
  BY <1>10 DEF Daemon, BeginDrain, Shutdown, Down
<1>11. ASSUME Tick PROVE PlaceBooks'
  BY <1>11 DEF Tick, Urgent
<1>12. CASE UNCHANGED vars
  BY <1>12 DEF vars
<1> QED BY <1>1, <1>2, <1>3, <1>4, <1>5, <1>6, <1>7, <1>8, <1>9, <1>10, <1>11, <1>12 DEF Next, Drive, Operator

LEMMA KeepsPublished ==
  ASSUME IInv, [Next]_vars
  PROVE  StatusPublished'
<1> USE TimingAssumption DEF IInv, TypeOK, TaskType, TimeType, RegistrarType, QueueType, FlagType, StatusPublished, PlaceBooks, Waiting, InFlight, rowVars, timeVars, flightVars, registrarVars, queueVars
<1>1. ASSUME Unpark PROVE StatusPublished'
  BY <1>1 DEF Unpark, SendRegister, SetStatus
<1>2. ASSUME Arrives PROVE StatusPublished'
  BY <1>2 DEF Arrives
<1>3. ASSUME Unregistered PROVE StatusPublished'
  BY <1>3 DEF Unregistered, SendRegister
<1>4. ASSUME Registered PROVE StatusPublished'
  BY <1>4 DEF Registered, SetStatus
<1>5. ASSUME Failed PROVE StatusPublished'
  BY <1>5 DEF Failed, SetStatus
<1>6. ASSUME WakeElapsed PROVE StatusPublished'
  BY <1>6 DEF WakeElapsed, SendRegister
<1>7. ASSUME WakeCommand PROVE StatusPublished'
  BY <1>7 DEF WakeCommand, SendRegister
<1>8. ASSUME WakeShutdown PROVE StatusPublished'
  BY <1>8 DEF WakeShutdown
<1>9. ASSUME NEW command \in Command, SendCommand(command) PROVE StatusPublished'
  BY <1>9 DEF SendCommand
<1>10. ASSUME Daemon PROVE StatusPublished'
  BY <1>10 DEF Daemon, BeginDrain, Shutdown, Down
<1>11. ASSUME Tick PROVE StatusPublished'
  BY <1>11 DEF Tick, Urgent
<1>12. CASE UNCHANGED vars
  BY <1>12 DEF vars
<1> QED BY <1>1, <1>2, <1>3, <1>4, <1>5, <1>6, <1>7, <1>8, <1>9, <1>10, <1>11, <1>12 DEF Next, Drive, Operator

LEMMA KeepsKicks ==
  ASSUME IInv, [Next]_vars
  PROVE  KickBooks'
<1> USE TimingAssumption DEF IInv, TypeOK, TaskType, TimeType, RegistrarType, QueueType, FlagType, KickBooks, Waiting, InFlight, rowVars, timeVars, flightVars, registrarVars, queueVars
<1>1. ASSUME Unpark PROVE KickBooks'
  BY <1>1 DEF Unpark, SendRegister, SetStatus
<1>2. ASSUME Arrives PROVE KickBooks'
  BY <1>2 DEF Arrives
<1>3. ASSUME Unregistered PROVE KickBooks'
  BY <1>3 DEF Unregistered, SendRegister
<1>4. ASSUME Registered PROVE KickBooks'
  BY <1>4 DEF Registered, SetStatus
<1>5. ASSUME Failed PROVE KickBooks'
  BY <1>5 DEF Failed, SetStatus
<1>6. ASSUME WakeElapsed PROVE KickBooks'
  BY <1>6 DEF WakeElapsed, SendRegister
<1>7. ASSUME WakeCommand PROVE KickBooks'
  BY <1>7 DEF WakeCommand, SendRegister
<1>8. ASSUME WakeShutdown PROVE KickBooks'
  BY <1>8 DEF WakeShutdown
<1>9. ASSUME NEW command \in Command, SendCommand(command) PROVE KickBooks'
  <2>1. owed' /\ UNCHANGED <<pc, flight_age, owed_age>> /\ pc # "exited"
    BY <1>9 DEF SendCommand
  <2>2. commands' # <<>>
    BY <1>9 DEF SendCommand, Command
  <2>3. CASE owed
    BY <2>1, <2>2, <2>3
  <2>4. CASE ~owed
    BY <2>1, <2>2, <2>4
  <2> QED BY <2>3, <2>4
<1>10. ASSUME Daemon PROVE KickBooks'
  BY <1>10 DEF Daemon, BeginDrain, Shutdown, Down
<1>11. ASSUME Tick PROVE KickBooks'
  <2>1. UNCHANGED <<pc, commands, owed>>
    BY <1>11 DEF Tick
  <2>2. pc \in Waiting \cup {"parked"} => commands = <<>>
    BY <1>11 DEF Tick, Urgent
  <2>3. flight_age' = IF pc \in InFlight THEN flight_age + 1 ELSE flight_age
    BY <1>11 DEF Tick
  <2>4. CASE owed
    <3>1. owed_age' = owed_age + 1
      BY <1>11, <2>4 DEF Tick
    <3>2. pc # "exited"
      BY <1>11 DEF Tick, Urgent, PlaceBooks
    <3> QED BY <2>1, <2>2, <2>3, <2>4, <3>1, <3>2
  <2>5. CASE ~owed
    <3>1. owed_age' = owed_age
      BY <1>11, <2>5 DEF Tick
    <3> QED BY <2>1, <2>5, <3>1
  <2> QED BY <2>4, <2>5
<1>12. CASE UNCHANGED vars
  BY <1>12 DEF vars
<1> QED BY <1>1, <1>2, <1>3, <1>4, <1>5, <1>6, <1>7, <1>8, <1>9, <1>10, <1>11, <1>12 DEF Next, Drive, Operator

LEMMA KeepsBinding ==
  ASSUME IInv, [Next]_vars
  PROVE  BindingBooks'
<1> USE TimingAssumption DEF IInv, TypeOK, TaskType, TimeType, RegistrarType, QueueType, FlagType, BindingBooks, PlaceBooks, Granted, Waiting, InFlight, rowVars, timeVars, flightVars, registrarVars, queueVars
<1>1. ASSUME Unpark PROVE BindingBooks'
  BY <1>1 DEF Unpark, SendRegister, SetStatus
<1>2. ASSUME Arrives PROVE BindingBooks'
  BY <1>2 DEF Arrives
<1>3. ASSUME Unregistered PROVE BindingBooks'
  BY <1>3 DEF Unregistered, SendRegister
<1>4. ASSUME Registered PROVE BindingBooks'
  BY <1>4, RefreshDelay DEF Registered, SetStatus
<1>5. ASSUME Failed PROVE BindingBooks'
  BY <1>5 DEF Failed, SetStatus
<1>6. ASSUME WakeElapsed PROVE BindingBooks'
  BY <1>6 DEF WakeElapsed, SendRegister
<1>7. ASSUME WakeCommand PROVE BindingBooks'
  BY <1>7 DEF WakeCommand, SendRegister
<1>8. ASSUME WakeShutdown PROVE BindingBooks'
  BY <1>8 DEF WakeShutdown
<1>9. ASSUME NEW command \in Command, SendCommand(command) PROVE BindingBooks'
  BY <1>9 DEF SendCommand
<1>10. ASSUME Daemon PROVE BindingBooks'
  BY <1>10 DEF Daemon, BeginDrain, Shutdown, Down
<1>11. ASSUME Tick PROVE BindingBooks'
  BY <1>11 DEF Tick, Urgent, Lapsed
<1>12. CASE UNCHANGED vars
  BY <1>12 DEF vars
<1> QED BY <1>1, <1>2, <1>3, <1>4, <1>5, <1>6, <1>7, <1>8, <1>9, <1>10, <1>11, <1>12 DEF Next, Drive, Operator

LEMMA KeepsGap ==
  ASSUME IInv, [Next]_vars
  PROVE  GapBooks'
<1> USE TimingAssumption, Gap DEF IInv, TypeOK, TaskType, TimeType, RegistrarType, QueueType, FlagType, GapBooks, Waiting, InFlight, rowVars, timeVars, flightVars, registrarVars, queueVars
<1>1. ASSUME Unpark PROVE GapBooks'
  BY <1>1 DEF Unpark, SendRegister, SetStatus
<1>2. ASSUME Arrives PROVE GapBooks'
  BY <1>2 DEF Arrives
<1>3. ASSUME Unregistered PROVE GapBooks'
  BY <1>3 DEF Unregistered, SendRegister
<1>4. ASSUME Registered PROVE GapBooks'
  BY <1>4, RefreshDelay DEF Registered, SetStatus
<1>5. ASSUME Failed PROVE GapBooks'
  BY <1>5 DEF Failed, SetStatus
<1>6. ASSUME WakeElapsed PROVE GapBooks'
  BY <1>6 DEF WakeElapsed, SendRegister
<1>7. ASSUME WakeCommand PROVE GapBooks'
  BY <1>7 DEF WakeCommand, SendRegister
<1>8. ASSUME WakeShutdown PROVE GapBooks'
  BY <1>8 DEF WakeShutdown
<1>9. ASSUME NEW command \in Command, SendCommand(command) PROVE GapBooks'
  BY <1>9 DEF SendCommand
<1>10. ASSUME Daemon PROVE GapBooks'
  BY <1>10 DEF Daemon, BeginDrain, Shutdown, Down
<1>11. ASSUME Tick PROVE GapBooks'
  BY <1>11 DEF Tick, Urgent
<1>12. CASE UNCHANGED vars
  BY <1>12 DEF vars
<1> QED BY <1>1, <1>2, <1>3, <1>4, <1>5, <1>6, <1>7, <1>8, <1>9, <1>10, <1>11, <1>12 DEF Next, Drive, Operator

-----------------------------------------------------------------------------
(* The theorems. *)

\* The inductive invariant holds in every reachable state.
THEOREM Invariance == Spec => []IInv
<1>1. IInv /\ [Next]_vars => IInv'
  BY KeepsTaskType, KeepsTimeType, KeepsRegistrarType, KeepsQueueType,
     KeepsFlagType, KeepsPlace, KeepsPublished, KeepsKicks, KeepsBinding, KeepsGap DEF IInv, TypeOK
<1> QED BY InitInv, <1>1, PTL DEF Spec

\* Every variable keeps its type, and the command queue its capacity.
THEOREM TypeCorrect == Spec => []TypeOK
<1>1. IInv => TypeOK
  BY DEF IInv
<1> QED BY Invariance, <1>1, PTL

\* Manager, gauge and webhooks tell of the same status.
THEOREM Published == Spec => []StatusPublished
<1>1. IInv => StatusPublished
  BY DEF IInv
<1> QED BY Invariance, <1>1, PTL

\* How far the binding runs down while the row says registered.
THEOREM Covered == Spec => []BindingCovered
<1>1. IInv => BindingCovered
  BY TimingAssumption
     DEF IInv, TypeOK, TaskType, TimeType, RegistrarType, QueueType, FlagType, PlaceBooks, BindingBooks, Granted, BindingCovered, Waiting, InFlight
<1> QED BY Invariance, <1>1, PTL

\* How long an accepted command waits for its REGISTER.
THEOREM KicksServed == Spec => []KickServed
<1>1. IInv => KickServed
  BY TimingAssumption DEF IInv, TypeOK, TaskType, TimeType, RegistrarType, QueueType, FlagType, KickBooks, KickServed, Waiting, InFlight
<1> QED BY Invariance, <1>1, PTL

\* The timers alone leave the registrar in peace for the least gap.
THEOREM StaysPolite == Spec => Polite
<1> DEFINE ByTimer == pc \in Waiting /\ pc' = "registering" /\ commands' = commands
<1>1. IInv /\ [Next]_vars => (ByTimer => idle >= MinGap)
  <2> SUFFICES ASSUME IInv, [Next]_vars, ByTimer PROVE idle >= MinGap
    OBVIOUS
  <2>1. CASE WakeElapsed
    BY <2>1, Gap DEF IInv, TypeOK, TaskType, TimeType, RegistrarType, QueueType, FlagType, GapBooks, WakeElapsed
  <2>2. CASE WakeCommand
    <3>1. commands' = Tail(commands) /\ commands # <<>> /\ commands \in Seq(Command)
      BY <2>2 DEF WakeCommand, IInv, TypeOK
    <3>2. Len(Tail(commands)) # Len(commands)
      BY <3>1
    <3> QED BY <3>1, <3>2
  <2>3. ~Unpark /\ ~Arrives /\ ~Unregistered /\ ~Registered /\ ~Failed /\ ~WakeShutdown
    BY DEF Unpark, Arrives, Unregistered, Registered, Failed, WakeShutdown, Waiting, InFlight
  <2>4. ~Operator /\ ~Daemon /\ ~Tick /\ ~UNCHANGED vars
    BY DEF Operator, SendCommand, Daemon, BeginDrain, Shutdown, Down, Tick, vars, Waiting
  <2> QED BY <2>1, <2>2, <2>3, <2>4 DEF Next, Drive
<1> QED BY Invariance, <1>1, PTL DEF Polite, Spec
=============================================================================
