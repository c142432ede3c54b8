------------------------------- MODULE Rooms -------------------------------
(***************************************************************************)
(* Conference rooms: the registry that finds or spawns a room              *)
(* (crates/core/src/conference.rs), the room task with its bounded control *)
(* queue (crates/media-glue/src/room.rs), the join that a call's           *)
(* controller spawns (call.rs), and the part of the call's tap that holds  *)
(* a membership (tap.rs).                                                  *)
(*                                                                         *)
(* A membership is known by the join request that got it.  Dropping it     *)
(* asks the room to remove the call, with a try_send that a full queue     *)
(* loses, and closes its sinks; the room's tick reaps members whose sinks  *)
(* are closed.  Audio, tones and participant events are left out; a room   *)
(* that ended is not reused, a new one gets a new instance.                *)
(***************************************************************************)
EXTENDS Naturals, Sequences, FiniteSets

CONSTANTS
  Call, RoomId,
  MaxRooms, MaxCalls, \* max_rooms, max_participants_per_room
  CtrlCap,   \* CTRL_CHANNEL_CAPACITY of a room
  OutcomeCap, \* capacity of a controller's channel of join outcomes
  MaxJoins,  \* bound: joins requested
  MaxSpawns, \* bound: rooms spawned
  None

Request == 1 .. MaxJoins
Inst == 1 .. MaxSpawns

ASSUME RoomsAssumption ==
  /\ MaxRooms \in Nat \ {0} /\ MaxCalls \in Nat \ {0}
  /\ CtrlCap \in Nat \ {0} /\ OutcomeCap \in Nat \ {0}
  /\ MaxJoins \in Nat /\ MaxSpawns \in Nat
  /\ None \notin Call \cup Request \cup Inst \cup RoomId

VARIABLES
  registry,  \* the room of an id
  status, ever_joined, members, ctrl, \* each room task
  step, caller, target, inst, attempt, \* each join request
  unheard,   \* joins whose outcome never reached the controller
  live, tap \* each call, and the membership its tap holds

roomVars == <<status, ever_joined, members>>
reqVars == <<step, caller, target, inst, attempt, unheard>>
vars == <<registry, roomVars, ctrl, reqVars, live, tap>>

\* A join asks ("lookup", "send", "wait"), has its membership ("joined") and reports it to the
\* controller ("offered"), which passes it to the tap ("queued", "in"), or is "refused".
Step == {"unused", "lookup", "send", "wait", "joined", "offered", "queued", "in", "refused",
         "out"}
Msg == [type : {"Join"}, req : Request] \cup [type : {"Leave"}, call : Call]
       \cup [type : {"ClearInput", "EndRoom"}]

Closed(i) == status[i] = "ended"
Found(r) == registry[r] # None /\ ~Closed(registry[r])
Kept(q) == step[q] \in {"joined", "offered", "queued", "in"} \* its sinks are open
Size(i) == Cardinality({c \in Call : members[i][c] # None})

Init ==
  /\ registry = [r \in RoomId |-> None]
  /\ status = [i \in Inst |-> "unborn"]
  /\ ever_joined = [i \in Inst |-> FALSE]
  /\ members = [i \in Inst |-> [c \in Call |-> None]] /\ ctrl = [i \in Inst |-> <<>>]
  /\ step = [q \in Request |-> "unused"] /\ caller = [q \in Request |-> None]
  /\ target = [q \in Request |-> None] /\ inst = [q \in Request |-> None]
  /\ attempt = [q \in Request |-> 0] /\ unheard = {}
  /\ live = [c \in Call |-> TRUE] /\ tap = [c \in Call |-> None]

-----------------------------------------------------------------------------
(* The registry. *)

Unborn == {i \in Inst : status[i] = "unborn"}

\* A room found dead is replaced; the cap counts live rooms.
Spawn(r, i) ==
  LET live_ids == {k \in RoomId : Found(k)}
  IN  /\ Cardinality(live_ids) < MaxRooms /\ i \in Unborn /\ \A j \in Unborn : i <= j
      /\ registry' = [k \in RoomId |-> IF k = r THEN i
                                       ELSE IF k \in live_ids THEN registry[k] ELSE None]
      /\ status' = [status EXCEPT ![i] = "running"]
      /\ UNCHANGED <<ever_joined, members>>

create_room(r) ==
  /\ ~Found(r)
  /\ \E i \in Inst : Spawn(r, i)
  /\ UNCHANGED <<ctrl, reqVars, live, tap>>

TrySend(i, m) ==
  ctrl' = IF status[i] = "running" /\ Len(ctrl[i]) < CtrlCap
          THEN [ctrl EXCEPT ![i] = Append(@, m)] ELSE ctrl

end_room(r) ==
  /\ Found(r)
  /\ TrySend(registry[r], [type |-> "EndRoom"])
  /\ registry' = [registry EXCEPT ![r] = None]
  /\ UNCHANGED <<roomVars, reqVars, live, tap>>

-----------------------------------------------------------------------------
(* A join, on a task of its own. *)

spawn_conference_join(q, c, r) ==
  /\ live[c] /\ step[q] = "unused" /\ \A p \in Request : step[p] = "unused" => q <= p
  /\ step' = [step EXCEPT ![q] = "lookup"]
  /\ caller' = [caller EXCEPT ![q] = c] /\ target' = [target EXCEPT ![q] = r]
  /\ UNCHANGED <<registry, roomVars, ctrl, inst, attempt, unheard, live, tap>>

\* The outcome of a join goes to the controller by try_send: a channel that is full of earlier
\* outcomes, or closed with the call, loses it.
OutcomeFits(c) ==
  live[c] /\ Cardinality({p \in Request : caller[p] = c /\ step[p] \in {"offered", "refused"}})
             < OutcomeCap

Unheard(q) == step' = [step EXCEPT ![q] = "out"] /\ unheard' = unheard \cup {q}

\* The join ends in an error, which is its outcome.
Refuse(q) ==
  \/ OutcomeFits(caller[q]) /\ step' = [step EXCEPT ![q] = "refused"] /\ UNCHANGED unheard
  \/ ~OutcomeFits(caller[q]) /\ Unheard(q)

live_handle_or_create(q) ==
  LET r == target[q]
      Handle(i) == /\ step' = [step EXCEPT ![q] = "send"] /\ inst' = [inst EXCEPT ![q] = i]
                   /\ UNCHANGED unheard
  IN  /\ step[q] = "lookup"
      /\ \/ Found(r) /\ Handle(registry[r]) /\ UNCHANGED <<registry, roomVars>>
         \/ ~Found(r) /\ \E i \in Inst : Spawn(r, i) /\ Handle(i)
         \/ /\ ~Found(r) /\ Cardinality({k \in RoomId : Found(k)}) >= MaxRooms
            /\ registry' = [k \in RoomId |-> IF Found(k) THEN registry[k] ELSE None]
            /\ Refuse(q) /\ UNCHANGED <<inst, roomVars>>
      /\ UNCHANGED <<ctrl, caller, target, attempt, live, tap>>

SendJoin(q) ==
  /\ step[q] = "send" /\ ~Closed(inst[q]) /\ Len(ctrl[inst[q]]) < CtrlCap
  /\ ctrl' = [ctrl EXCEPT ![inst[q]] = Append(@, [type |-> "Join", req |-> q])]
  /\ step' = [step EXCEPT ![q] = "wait"]
  /\ UNCHANGED <<registry, roomVars, caller, target, inst, attempt, unheard, live, tap>>

\* As if only a send that fails were noticed, not an answer that never comes.
RoomClosed_IgnoresReply(q) ==
  /\ step[q] = "send" /\ Closed(inst[q])
  /\ \/ /\ attempt[q] = 0
        /\ step' = [step EXCEPT ![q] = "lookup"] /\ attempt' = [attempt EXCEPT ![q] = 1]
        /\ registry' = [registry EXCEPT ![target[q]] = IF Found(target[q]) THEN @ ELSE None]
        /\ UNCHANGED unheard
     \/ attempt[q] = 1 /\ Refuse(q) /\ UNCHANGED <<attempt, registry>>
  /\ UNCHANGED <<roomVars, ctrl, caller, target, inst, live, tap>>

\* The room ended before it took the join, or before it answered: one more try.
RoomClosed(q) ==
  /\ step[q] \in {"send", "wait"} /\ Closed(inst[q])
  /\ \/ /\ attempt[q] = 0
        /\ step' = [step EXCEPT ![q] = "lookup"] /\ attempt' = [attempt EXCEPT ![q] = 1]
        /\ registry' = [registry EXCEPT ![target[q]] = IF Found(target[q]) THEN @ ELSE None]
        /\ UNCHANGED unheard
     \/ attempt[q] = 1 /\ Refuse(q) /\ UNCHANGED <<attempt, registry>>
  /\ UNCHANGED <<roomVars, ctrl, caller, target, inst, live, tap>>

\* A membership is dropped: its sender asks the room to remove the call, its sinks close.
Leave(q) == TrySend(inst[q], [type |-> "Leave", call |-> caller[q]])

\* The join's task reports its membership; an outcome that is lost drops it.
Report(q) ==
  /\ step[q] = "joined"
  /\ \/ /\ OutcomeFits(caller[q]) /\ step' = [step EXCEPT ![q] = "offered"]
        /\ UNCHANGED <<ctrl, unheard>>
     \/ ~OutcomeFits(caller[q]) /\ Leave(q) /\ Unheard(q)
  /\ UNCHANGED <<registry, roomVars, caller, target, inst, attempt, live, tap>>

\* The controller takes an outcome.  A membership goes to the tap, or is dropped when the tap's
\* channel is full, of commands that are not counted here: so a drop is always possible.  The
\* server is told of a drop and of a refusal.
Deliver(q) ==
  /\ step[q] \in {"offered", "refused"} /\ live[caller[q]]
  /\ \/ step[q] = "offered" /\ step' = [step EXCEPT ![q] = "queued"] /\ UNCHANGED ctrl
     \/ step[q] = "offered" /\ step' = [step EXCEPT ![q] = "out"] /\ Leave(q)
     \/ step[q] = "refused" /\ step' = [step EXCEPT ![q] = "out"] /\ UNCHANGED ctrl
  /\ UNCHANGED <<registry, roomVars, caller, target, inst, attempt, unheard, live, tap>>

-----------------------------------------------------------------------------
(* The call and its tap. *)

\* The tap takes membership t, or none, in the place of the one it has.
LeaveRoom(c, t) ==
  /\ tap' = [tap EXCEPT ![c] = t]
  /\ IF tap[c] = None THEN UNCHANGED ctrl ELSE Leave(tap[c])

Gone(c) == IF tap[c] = None THEN step ELSE [step EXCEPT ![tap[c]] = "out"]

\* A membership that waited in the tap's channel; the one in hand is let go.
JoinRoom(q) ==
  /\ step[q] = "queued" /\ live[caller[q]] /\ LeaveRoom(caller[q], q)
  /\ step' = [Gone(caller[q]) EXCEPT ![q] = "in"]
  /\ UNCHANGED <<registry, roomVars, caller, target, inst, attempt, unheard, live>>

\* LeaveRoom and Park; what the command waits in the channel is part of when it comes.
LeaveCommand(c) ==
  /\ live[c] /\ tap[c] # None /\ LeaveRoom(c, None) /\ step' = Gone(c)
  /\ UNCHANGED <<registry, roomVars, caller, target, inst, attempt, unheard, live>>

\* The room closed a sink: back to the direct pair.
revert_to_direct(c) ==
  /\ live[c] /\ tap[c] # None /\ members[inst[tap[c]]][c] # tap[c]
  /\ LeaveRoom(c, None) /\ step' = Gone(c)
  /\ UNCHANGED <<registry, roomVars, caller, target, inst, attempt, unheard, live>>

\* The tap asks the room to clear what its bot has buffered.
clear_ws_input(c) ==
  /\ live[c] /\ tap[c] # None /\ TrySend(inst[tap[c]], [type |-> "ClearInput"])
  /\ UNCHANGED <<registry, roomVars, reqVars, live, tap>>

CallEnds(c) ==
  /\ live[c] /\ live' = [live EXCEPT ![c] = FALSE]
  /\ UNCHANGED <<registry, roomVars, ctrl, reqVars, tap>>

\* What the tap of a call that ended has in hand, and what waits in the channels of the tap
\* and the controller, is dropped.
TapGone(c) ==
  /\ ~live[c]
  /\ \/ tap[c] # None /\ LeaveRoom(c, None) /\ step' = Gone(c)
     \/ \E q \in Request : /\ caller[q] = c /\ step[q] \in {"offered", "queued"} /\ Leave(q)
                          /\ step' = [step EXCEPT ![q] = "out"] /\ UNCHANGED tap
  /\ UNCHANGED <<registry, roomVars, caller, target, inst, attempt, unheard, live>>

-----------------------------------------------------------------------------
(* The room task. *)

\* As if a join at a full room replaced whom it finds there.
handle_join_Replaces(i, q) ==
  \/ /\ members' = [members EXCEPT ![i] = [c \in Call |-> IF c = caller[q] THEN q
                                            ELSE IF Size(i) < MaxCalls THEN @[c] ELSE None]]
     /\ ever_joined' = [ever_joined EXCEPT ![i] = TRUE]
     /\ step' = [step EXCEPT ![q] = "joined"] /\ UNCHANGED unheard
  \/ Refuse(q) /\ UNCHANGED <<members, ever_joined>>

\* A member, a full room, another sample rate and a mixer that fails refuse the call; rates and
\* the mixer are left out, so a refusal is always possible.
handle_join(i, q) ==
  \/ /\ members[i][caller[q]] = None /\ Size(i) < MaxCalls
     /\ members' = [members EXCEPT ![i][caller[q]] = q]
     /\ ever_joined' = [ever_joined EXCEPT ![i] = TRUE]
     /\ step' = [step EXCEPT ![q] = "joined"] /\ UNCHANGED unheard
  \/ Refuse(q) /\ UNCHANGED <<members, ever_joined>>

RoomCtrl(i) ==
  LET m == Head(ctrl[i]) IN
  /\ status[i] = "running" /\ ctrl[i] # <<>> /\ m.type # "EndRoom"
  /\ ctrl' = [ctrl EXCEPT ![i] = Tail(@)]
  /\ \/ m.type = "Join" /\ handle_join(i, m.req)
     \/ /\ m.type = "Leave" /\ members' = [members EXCEPT ![i][m.call] = None]
        /\ UNCHANGED <<ever_joined, step, unheard>>
     \/ m.type = "ClearInput" /\ UNCHANGED <<members, ever_joined, step, unheard>>
  /\ UNCHANGED <<registry, status, caller, target, inst, attempt, live, tap>>

\* The task returns: the queue and the sinks' senders go with it.
Ends(i) ==
  /\ status' = [status EXCEPT ![i] = "ended"] /\ ctrl' = [ctrl EXCEPT ![i] = <<>>]
  /\ members' = [members EXCEPT ![i] = [c \in Call |-> None]]

EndRoom(i) ==
  /\ status[i] = "running" /\ ctrl[i] # <<>> /\ Head(ctrl[i]).type = "EndRoom"
  /\ Ends(i)
  /\ UNCHANGED <<registry, ever_joined, reqVars, live, tap>>

\* As if the tick trusted the leaves and did not reap.
Tick_NoReap(i) ==
  /\ status[i] = "running"
  /\ IF ever_joined[i] /\ Size(i) = 0 THEN Ends(i) ELSE UNCHANGED <<members, status, ctrl>>
  /\ UNCHANGED <<registry, ever_joined, reqVars, live, tap>>

\* The 20 ms tick: members whose sinks are closed are reaped; the last one takes the room
\* with it.
Tick(i) ==
  LET rest == [c \in Call |-> IF members[i][c] # None /\ Kept(members[i][c])
                             THEN members[i][c] ELSE None]
  IN  /\ status[i] = "running"
      /\ IF ever_joined[i] /\ \A c \in Call : rest[c] = None
         THEN Ends(i)
         ELSE members' = [members EXCEPT ![i] = rest] /\ UNCHANGED <<status, ctrl>>
      /\ UNCHANGED <<registry, ever_joined, reqVars, live, tap>>

-----------------------------------------------------------------------------
JoinTask(q) ==
  \/ live_handle_or_create(q) \/ SendJoin(q) \/ RoomClosed(q)
  \/ Report(q) \/ Deliver(q) \/ JoinRoom(q)
TapTask(c) == LeaveCommand(c) \/ revert_to_direct(c) \/ TapGone(c)
RoomTask(i) == RoomCtrl(i) \/ EndRoom(i)

Next ==
  \/ \E r \in RoomId : end_room(r) \/ create_room(r)
  \/ \E q \in Request : JoinTask(q) \/ \E c \in Call, r \in RoomId : spawn_conference_join(q, c, r)
  \/ \E c \in Call : TapTask(c) \/ clear_ws_input(c) \/ CallEnds(c)
  \/ \E i \in Inst : RoomTask(i) \/ Tick(i)

(***************************************************************************)
(* The tasks of joins and rooms go on when they can; the room's tick comes *)
(* round although its select also takes commands; a send that waits for    *)
(* room in the queue gets it, for waiters are served in order.  A call     *)
(* that ended drops what it holds: its tap is aborted when it does not     *)
(* return.  While the call lives nothing is assumed of its controller and  *)
(* tap, which can wait for the server for as long as it does not read.     *)
(***************************************************************************)
Fairness ==
  /\ \A q \in Request :
       WF_vars(live_handle_or_create(q) \/ RoomClosed(q) \/ Report(q)) /\ SF_vars(SendJoin(q))
  /\ \A c \in Call : WF_vars(TapGone(c))
  /\ \A i \in Inst : WF_vars(RoomTask(i)) /\ WF_vars(Tick(i))

Spec == Init /\ [][Next]_vars
FairSpec == Spec /\ Fairness

-----------------------------------------------------------------------------
(* Properties. *)

QueueType == ctrl \in [Inst -> Seq(Msg)] /\ \A i \in Inst : Len(ctrl[i]) <= CtrlCap

TypeOK ==
  /\ QueueType
  /\ registry \in [RoomId -> Inst \cup {None}]
  /\ status \in [Inst -> {"unborn", "running", "ended"}] /\ ever_joined \in [Inst -> BOOLEAN]
  /\ members \in [Inst -> [Call -> Request \cup {None}]]
  /\ step \in [Request -> Step] /\ caller \in [Request -> Call \cup {None}]
  /\ target \in [Request -> RoomId \cup {None}] /\ inst \in [Request -> Inst \cup {None}]
  /\ attempt \in [Request -> {0, 1}] /\ unheard \subseteq Request
  /\ live \in [Call -> BOOLEAN]
  /\ tap \in [Call -> Request \cup {None}]

\* A live call that joined stays a member while the room runs, but for one case: the leave of
\* an earlier membership of its own, still in the queue, can take it out.  Another call's leave
\* or reaping never does, and neither does its own join being refused.
EvictedOnlyByOwn ==
  \A q \in Request :
    /\ Kept(q) /\ live[caller[q]] /\ status[inst[q]] = "running"
    => \/ members[inst[q]][caller[q]] = q
       \/ \E p \in Request \ {q} : caller[p] = caller[q] /\ inst[p] = inst[q] /\ step[p] = "out"

\* Whatever was lost on the way (a leave that found the queue full, a membership that reached
\* no tap), a room that had members ends when its calls are gone.
RoomsEnd ==
  \A i \in Inst :
    (status[i] = "running" /\ ever_joined[i] /\ \A c \in Call : ~live[c]) ~> (status[i] = "ended")

\* A join comes to an outcome, also when the room it found dies before or after taking it, and
\* whatever the call's controller and tap do; what is left over is the bound on rooms.
JoinsDecided ==
  \A q \in Request :
    (step[q] \in {"lookup", "send", "wait", "joined"}) ~>
      \/ step[q] \in {"offered", "queued", "in", "refused", "out"}
      \/ step[q] = "lookup" /\ ~Found(target[q]) /\ Unborn = {}

\* "Cap a few deep so back-to-back joins don't drop a result" (call.rs:1009), for the server of a
\* live call is to hear of each (docs/PROTOCOL.md:526).  A controller that is late drops them.
JoinsHeard == \A q \in unheard : ~live[caller[q]]

\* The reason "room_closed" of conference_left means "the room ended underneath it"
\* (docs/PROTOCOL.md:582): a tap finds its sinks closed by the room only when the room ended.
\* The code removes a member by call id, so a stale leave closes the sinks of the membership
\* that replaced the one it was sent for.
ClosedMeansEnded ==
  \A c \in Call : live[c] /\ tap[c] # None =>
    members[inst[tap[c]]][c] = tap[c] \/ Closed(inst[tap[c]])
=============================================================================
