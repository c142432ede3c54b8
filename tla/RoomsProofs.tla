---------------------------- MODULE RoomsProofs ----------------------------
(***************************************************************************)
(* Proofs about Rooms, for any calls, rooms, joins and queue capacity: its *)
(* types, and that a live call which joined a room is a member of it for   *)
(* as long as the room runs, unless a leave of its own came late.          *)
(***************************************************************************)
EXTENDS Rooms, TLAPS

\* What a join's step says of its fields, and a tap of its membership.
StepBooks ==
  /\ \A r \in RoomId : registry[r] # None => status[registry[r]] # "unborn"
  /\ \A q \in Request :
       /\ step[q] # "unused" => caller[q] \in Call /\ target[q] \in RoomId
       /\ step[q] \in {"send", "wait"} \/ Kept(q) => inst[q] \in Inst /\ status[inst[q]] # "unborn"
  /\ \A c \in Call : tap[c] # None => caller[tap[c]] = c /\ step[tap[c]] = "in"

\* A queued leave is that of a membership which is gone; a queued join is waited for, once.
QueueBooks ==
  \A i \in Inst :
    /\ status[i] # "running" => ctrl[i] = <<>>
    /\ \A k \in 1 .. Len(ctrl[i]) :
         /\ ctrl[i][k].type = "Leave" =>
              \E p \in Request : step[p] = "out" /\ caller[p] = ctrl[i][k].call /\ inst[p] = i
         /\ ctrl[i][k].type = "Join" =>
              /\ step[ctrl[i][k].req] = "wait" /\ inst[ctrl[i][k].req] = i
              /\ \A l \in 1 .. Len(ctrl[i]) : ctrl[i][l] = ctrl[i][k] => l = k

\* A member is a join of that call for that room.
MemberBooks ==
  \A i \in Inst, c \in Call : members[i][c] # None =>
    /\ caller[members[i][c]] = c /\ inst[members[i][c]] = i
    /\ Kept(members[i][c]) \/ step[members[i][c]] = "out"

IInv == TypeOK /\ StepBooks /\ QueueBooks /\ MemberBooks /\ EvictedOnlyByOwn

LEMMA InitInv == Init => IInv
BY RoomsAssumption
   DEF Init, IInv, TypeOK, QueueType, StepBooks, QueueBooks, MemberBooks, EvictedOnlyByOwn, Kept, Step, Msg

-----------------------------------------------------------------------------
(* The queue. *)

\* The four kinds of message are messages.
LEMMA Messages ==
  /\ \A q \in Request : [type |-> "Join", req |-> q] \in Msg
  /\ \A c \in Call : [type |-> "Leave", call |-> c] \in Msg
  /\ [type |-> "ClearInput"] \in Msg /\ [type |-> "EndRoom"] \in Msg
  /\ \A m \in Msg : /\ m.type = "Join" => m.req \in Request /\ m = [type |-> "Join", req |-> m.req]
                    /\ m.type = "Leave" => m.call \in Call
BY DEF Msg

\* What a try_send may change: one message more at the end of one running room's queue.
Sent(i, m) ==
  /\ ctrl' \in [Inst -> Seq(Msg)] /\ \A j \in Inst : Len(ctrl'[j]) <= CtrlCap
  /\ \A j \in Inst : status[j] # "running" => ctrl'[j] = ctrl[j]
  /\ \A j \in Inst : \A k \in 1 .. Len(ctrl'[j]) :
       \/ k \in 1 .. Len(ctrl[j]) /\ ctrl'[j][k] = ctrl[j][k]
       \/ j = i /\ k = Len(ctrl[i]) + 1 /\ ctrl'[j][k] = m

LEMMA TrySends ==
  ASSUME TypeOK, NEW i \in Inst, NEW m \in Msg, TrySend(i, m)
  PROVE  Sent(i, m)
<1>1. \A j \in Inst : ctrl'[j] = ctrl[j]
                       \/ /\ j = i /\ status[i] = "running" /\ Len(ctrl[i]) < CtrlCap
                          /\ ctrl'[i] = Append(ctrl[i], m)
  BY DEF TrySend, TypeOK, QueueType
<1>2. \A j \in Inst : ctrl[j] \in Seq(Msg) /\ Len(ctrl[j]) <= CtrlCap
  BY DEF TypeOK, QueueType
<1>3. CtrlCap \in Nat
  BY RoomsAssumption
<1>4. ctrl' \in [Inst -> Seq(Msg)] /\ \A j \in Inst : Len(ctrl'[j]) <= CtrlCap
  <2>1. DOMAIN ctrl' = Inst /\ ctrl' = [j \in Inst |-> ctrl'[j]]
    <3>1. ctrl \in [Inst -> Seq(Msg)]
      BY DEF TypeOK, QueueType
    <3>2. ctrl' = ctrl \/ ctrl' = [ctrl EXCEPT ![i] = Append(@, m)]
      BY DEF TrySend
    <3> QED BY <3>1, <3>2
  <2>2. ASSUME NEW j \in Inst PROVE ctrl'[j] \in Seq(Msg) /\ Len(ctrl'[j]) <= CtrlCap
    <3>1. CASE ctrl'[j] = ctrl[j]
      BY <3>1, <1>2
    <3>2. CASE j = i /\ Len(ctrl[i]) < CtrlCap /\ ctrl'[i] = Append(ctrl[i], m)
      <4>1. ctrl[i] \in Seq(Msg)
        BY <1>2
      <4>2. Append(ctrl[i], m) \in Seq(Msg) /\ Len(Append(ctrl[i], m)) = Len(ctrl[i]) + 1
        BY <4>1
      <4> QED BY <3>2, <4>1, <4>2, <1>3
    <3> QED BY <1>1, <3>1, <3>2
  <2> QED BY <2>1, <2>2
<1>5. \A j \in Inst : \A k \in 1 .. Len(ctrl'[j]) :
       \/ k \in 1 .. Len(ctrl[j]) /\ ctrl'[j][k] = ctrl[j][k]
       \/ j = i /\ k = Len(ctrl[i]) + 1 /\ ctrl'[j][k] = m
  BY <1>1, <1>2
<1>6. \A j \in Inst : status[j] # "running" => ctrl'[j] = ctrl[j]
  BY <1>1
<1> QED BY <1>4, <1>5, <1>6 DEF Sent

\* However the outcome of a refused join fares, the join is over.
LEMMA Refuses ==
  ASSUME NEW q \in Request, unheard \subseteq Request, Refuse(q)
  PROVE  /\ \E s \in {"refused", "out"} : step' = [step EXCEPT ![q] = s]
         /\ unheard' \subseteq Request
BY DEF Refuse, Unheard

-----------------------------------------------------------------------------
(* Each step keeps the invariant, one conjunct after the other. *)

\* The queues keep their books when a message is sent whose leave, or whose join, is accounted
\* for.
LEMMA KeepsQueue ==
  ASSUME IInv, NEW i \in Inst, NEW m \in Msg, Sent(i, m),
         m.type = "Join" => step[m.req] # "wait" /\ step'[m.req] = "wait" /\ inst[m.req] = i,
         m.type = "Leave" =>
           \E p \in Request : step'[p] = "out" /\ caller[p] = m.call /\ inst[p] = i,
         caller' = caller, inst' = inst, status' = status,
         \A p \in Request : step[p] \in {"out", "wait"} => step'[p] = step[p]
  PROVE  QueueBooks'
<1> SUFFICES ASSUME NEW j \in Inst
             PROVE  /\ status'[j] # "running" => ctrl'[j] = <<>>
                    /\ \A k \in 1 .. Len(ctrl'[j]) :
                         /\ ctrl'[j][k].type = "Leave" =>
                              \E p \in Request :
                                step'[p] = "out" /\ caller'[p] = ctrl'[j][k].call /\ inst'[p] = j
                         /\ ctrl'[j][k].type = "Join" =>
                              /\ step'[ctrl'[j][k].req] = "wait" /\ inst'[ctrl'[j][k].req] = j
                              /\ \A l \in 1 .. Len(ctrl'[j]) : ctrl'[j][l] = ctrl'[j][k] => l = k
  BY DEF QueueBooks
<1>1. status'[j] # "running" => ctrl'[j] = <<>>
  BY DEF IInv, QueueBooks, Sent
<1>2. ASSUME NEW k \in 1 .. Len(ctrl[j])
      PROVE  /\ ctrl[j][k] \in Msg
             /\ ctrl[j][k].type = "Leave" =>
                  \E p \in Request : step[p] = "out" /\ caller[p] = ctrl[j][k].call /\ inst[p] = j
             /\ ctrl[j][k].type = "Join" =>
                  /\ ctrl[j][k].req \in Request
                  /\ step[ctrl[j][k].req] = "wait" /\ inst[ctrl[j][k].req] = j
                  /\ \A l \in 1 .. Len(ctrl[j]) : ctrl[j][l] = ctrl[j][k] => l = k
  <2>1. ctrl[j][k] \in Msg
    BY DEF IInv, TypeOK, QueueType
  <2> QED BY <2>1, Messages DEF IInv, QueueBooks
<1> SUFFICES ASSUME NEW k \in 1 .. Len(ctrl'[j])
             PROVE  /\ ctrl'[j][k].type = "Leave" =>
                         \E p \in Request :
                           step'[p] = "out" /\ caller'[p] = ctrl'[j][k].call /\ inst'[p] = j
                    /\ ctrl'[j][k].type = "Join" =>
                         /\ step'[ctrl'[j][k].req] = "wait" /\ inst'[ctrl'[j][k].req] = j
                         /\ \A l \in 1 .. Len(ctrl'[j]) : ctrl'[j][l] = ctrl'[j][k] => l = k
  BY <1>1
<1>3. CASE k \in 1 .. Len(ctrl[j]) /\ ctrl'[j][k] = ctrl[j][k]
  <2>1. ASSUME ctrl[j][k].type = "Join", NEW l \in 1 .. Len(ctrl'[j]), ctrl'[j][l] = ctrl'[j][k]
        PROVE  l = k
    <3>1. ctrl'[j][l] # m
      BY <2>1, <1>2, <1>3
    <3> QED BY <3>1, <2>1, <1>2, <1>3 DEF Sent
  <2> QED BY <1>2, <1>3, <2>1
<1>4. CASE j = i /\ k = Len(ctrl[i]) + 1 /\ ctrl'[j][k] = m
  <2>1. ASSUME m.type = "Join", NEW l \in 1 .. Len(ctrl'[j]), ctrl'[j][l] = m
        PROVE  l = k
    <3>1. ~(l \in 1 .. Len(ctrl[j]) /\ ctrl'[j][l] = ctrl[j][l])
      BY <2>1, <1>2
    <3> QED BY <3>1, <1>4 DEF Sent
  <2> QED BY <1>4, <2>1
<1> QED BY <1>3, <1>4 DEF Sent

\* They also do when nothing is sent and no join that a running room has queued goes on.
LEMMA SameQueue ==
  ASSUME IInv, ctrl' = ctrl,
         \A i \in Inst : status'[i] # "running" => status[i] # "running",
         \A p \in Request :
           step[p] = "out" \/ (step[p] = "wait" /\ status[inst[p]] = "running") =>
             step'[p] = step[p] /\ caller'[p] = caller[p] /\ inst'[p] = inst[p]
  PROVE  QueueBooks'
<1>1. ASSUME NEW i \in Inst, NEW k \in 1 .. Len(ctrl[i])
      PROVE  status[i] = "running" /\ ctrl[i][k] \in Msg
  BY DEF IInv, QueueBooks, TypeOK, QueueType
<1>2. ASSUME NEW i \in Inst, NEW k \in 1 .. Len(ctrl[i]), ctrl[i][k].type = "Leave"
      PROVE  \E p \in Request : step'[p] = "out" /\ caller'[p] = ctrl[i][k].call /\ inst'[p] = i
  BY <1>2 DEF IInv, QueueBooks
<1>3. ASSUME NEW i \in Inst, NEW k \in 1 .. Len(ctrl[i]), ctrl[i][k].type = "Join"
      PROVE  step'[ctrl[i][k].req] = "wait" /\ inst'[ctrl[i][k].req] = i
  <2>1. ctrl[i][k].req \in Request /\ step[ctrl[i][k].req] = "wait" /\ inst[ctrl[i][k].req] = i
    BY <1>1, <1>3, Messages DEF IInv, QueueBooks
  <2> QED BY <1>1, <2>1
<1> QED BY <1>2, <1>3 DEF IInv, QueueBooks

\* Room registry: the operator ends a room.
LEMMA Inv_end_room ==
  ASSUME IInv, NEW r \in RoomId, end_room(r)
  PROVE  IInv'
<1>0. registry[r] \in Inst /\ [type |-> "EndRoom"] \in Msg /\ Sent(registry[r], [type |-> "EndRoom"])
  BY Messages, TrySends DEF IInv, end_room, Found, Closed, StepBooks, TypeOK, Kept, LeaveRoom, Leave, roomVars, reqVars
<1>1. TypeOK'
  BY <1>0, RoomsAssumption DEF IInv, TypeOK, QueueType, Step, StepBooks, Kept, end_room, Found, Closed, Sent, LeaveRoom, Leave, roomVars, reqVars
<1>2. StepBooks'
  BY <1>0, RoomsAssumption DEF IInv, TypeOK, Step, StepBooks, Kept, end_room, Found, Closed, LeaveRoom, roomVars, reqVars
<1>3. QueueBooks'
  <2>1. \A p \in Request : step[p] \in {"out", "wait"} => step'[p] = step[p]
    BY DEF IInv, TypeOK, StepBooks, end_room, Found, Closed, reqVars
  <2> QED BY <1>0, <2>1, KeepsQueue DEF IInv, TypeOK, StepBooks, end_room, Found, Closed, LeaveRoom, roomVars, reqVars
<1>4. MemberBooks'
  BY <1>0, RoomsAssumption DEF IInv, TypeOK, StepBooks, MemberBooks, Kept, end_room, Found, Closed, LeaveRoom, roomVars, reqVars
<1>5. EvictedOnlyByOwn'
  BY <1>0, RoomsAssumption DEF IInv, TypeOK, StepBooks, MemberBooks, EvictedOnlyByOwn, Kept, end_room, Found, Closed, LeaveRoom, roomVars, reqVars
<1> QED BY <1>1, <1>2, <1>3, <1>4, <1>5 DEF IInv

\* The operator creates a room.
LEMMA Inv_create_room ==
  ASSUME IInv, NEW r \in RoomId, create_room(r)
  PROVE  IInv'
<1>1. TypeOK'
  BY RoomsAssumption DEF IInv, TypeOK, QueueType, Step, StepBooks, Kept, create_room, Spawn, Unborn, Found, roomVars, reqVars
<1>2. StepBooks'
  BY RoomsAssumption DEF IInv, TypeOK, Step, StepBooks, Kept, create_room, Spawn, Unborn, Found, roomVars, reqVars
<1>3. QueueBooks'
  BY SameQueue DEF IInv, TypeOK, StepBooks, Kept, create_room, Spawn, Unborn, Found, roomVars, reqVars
<1>4. MemberBooks'
  BY RoomsAssumption DEF IInv, TypeOK, StepBooks, MemberBooks, Kept, create_room, Spawn, Unborn, Found, roomVars, reqVars
<1>5. EvictedOnlyByOwn'
  BY RoomsAssumption DEF IInv, TypeOK, StepBooks, MemberBooks, EvictedOnlyByOwn, Kept, create_room, Spawn, Unborn, Found, roomVars, reqVars
<1> QED BY <1>1, <1>2, <1>3, <1>4, <1>5 DEF IInv

\* A join is asked for.
LEMMA Inv_spawn_conference_join ==
  ASSUME IInv, NEW q \in Request, NEW c \in Call, NEW r \in RoomId, spawn_conference_join(q, c, r)
  PROVE  IInv'
<1>1. TypeOK'
  BY RoomsAssumption DEF IInv, TypeOK, QueueType, Step, StepBooks, Kept, spawn_conference_join, roomVars, reqVars
<1>2. StepBooks'
  BY RoomsAssumption DEF IInv, TypeOK, Step, StepBooks, Kept, spawn_conference_join, roomVars, reqVars
<1>3. QueueBooks'
  BY SameQueue DEF IInv, TypeOK, StepBooks, Kept, spawn_conference_join, roomVars, reqVars
<1>4. MemberBooks'
  BY RoomsAssumption DEF IInv, TypeOK, StepBooks, MemberBooks, Kept, spawn_conference_join, roomVars, reqVars
<1>5. EvictedOnlyByOwn'
  BY RoomsAssumption DEF IInv, TypeOK, StepBooks, MemberBooks, EvictedOnlyByOwn, Kept, spawn_conference_join, roomVars, reqVars
<1> QED BY <1>1, <1>2, <1>3, <1>4, <1>5 DEF IInv

\* The join finds a room or spawns one, or the cap refuses it.
LEMMA Inv_live_handle_or_create ==
  ASSUME IInv, NEW q \in Request, live_handle_or_create(q)
  PROVE  IInv'
<1> DEFINE Went == /\ step' \in [Request -> Step] /\ inst' \in [Request -> Inst \cup {None}]
                   /\ \A p \in Request : p # q => step'[p] = step[p] /\ inst'[p] = inst[p]
                   /\ unheard' \subseteq Request
                   /\ step'[q] \in {"refused", "out"} \/ (step'[q] = "send" /\ inst'[q] \in Inst /\ status'[inst'[q]] # "unborn")
<1> DEFINE Looked == /\ registry' \in [RoomId -> Inst \cup {None}]
                     /\ \A r \in RoomId : registry'[r] # None => status'[registry'[r]] # "unborn"
                     /\ status' \in [Inst -> {"unborn", "running", "ended"}]
                     /\ \A i \in Inst : status'[i] = status[i] \/ (status[i] = "unborn" /\ status'[i] = "running")
                     /\ UNCHANGED <<members, ever_joined>>
<1>a. /\ step[q] = "lookup" /\ UNCHANGED <<ctrl, caller, target, attempt, live, tap>>
      /\ target[q] \in RoomId /\ step \in [Request -> Step] /\ inst \in [Request -> Inst \cup {None}]
      /\ unheard \subseteq Request
  BY DEF live_handle_or_create, IInv, TypeOK, StepBooks
<1>b. ASSUME /\ Found(target[q]) /\ UNCHANGED <<registry, roomVars>>
           /\ step' = [step EXCEPT ![q] = "send"] /\ inst' = [inst EXCEPT ![q] = registry[target[q]]]
           /\ UNCHANGED unheard
      PROVE  Went /\ Looked
  <2>0. /\ registry \in [RoomId -> Inst \cup {None}] /\ UNCHANGED <<registry, status, members, ever_joined>>
        /\ status \in [Inst -> {"unborn", "running", "ended"}]
        /\ \A r \in RoomId : registry[r] # None => status[registry[r]] # "unborn"
    BY <1>b DEF IInv, TypeOK, StepBooks, roomVars
  <2>1. Looked
    BY <2>0
  <2>2. registry[target[q]] \in Inst /\ status'[registry[target[q]]] # "unborn"
    BY <1>a, <1>b, <2>0 DEF Found
  <2> HIDE DEF Looked
  <2> QED BY <1>a, <1>b, <2>1, <2>2 DEF Step
<1>c. ASSUME NEW i \in Inst, Spawn(target[q], i),
             step' = [step EXCEPT ![q] = "send"], inst' = [inst EXCEPT ![q] = i], unheard' = unheard
      PROVE  Went /\ Looked
  <2>0. status \in [Inst -> {"unborn", "running", "ended"}]
    BY DEF IInv, TypeOK
  <2>1. /\ status' = [status EXCEPT ![i] = "running"] /\ status[i] = "unborn"
        /\ UNCHANGED <<members, ever_joined>>
    BY <1>c DEF Spawn, Unborn
  <2>2. registry' \in [RoomId -> Inst \cup {None}]
    BY <1>c DEF Spawn, Found, IInv, TypeOK
  <2>3. \A r \in RoomId : registry'[r] \in {i, None, registry[r]}
    BY <1>c DEF Spawn
  <2>4. status' \in [Inst -> {"unborn", "running", "ended"}]
    BY <2>1 DEF IInv, TypeOK
  <2>5. \A j \in Inst : status'[j] = status[j] \/ (status[j] = "unborn" /\ status'[j] = "running")
    BY <2>0, <2>1
  <2>6. status'[i] # "unborn"
    BY <2>1 DEF IInv, TypeOK
  <2>7. \A r \in RoomId : registry'[r] # None => status'[registry'[r]] # "unborn"
    BY <2>2, <2>3, <2>5, <2>6 DEF IInv, TypeOK, StepBooks
  <2>8. Looked
    BY <2>1, <2>2, <2>4, <2>5, <2>7
  <2> HIDE DEF Looked
  <2> QED BY <1>a, <1>c, <2>6, <2>8 DEF Step
<1>d. ASSUME /\ registry' = [k \in RoomId |-> IF Found(k) THEN registry[k] ELSE None]
           /\ Refuse(q) /\ UNCHANGED <<inst, roomVars>>
      PROVE  Went /\ Looked
  <2>0. /\ registry \in [RoomId -> Inst \cup {None}] /\ UNCHANGED <<status, members, ever_joined>>
        /\ status \in [Inst -> {"unborn", "running", "ended"}]
        /\ \A r \in RoomId : registry[r] # None => status[registry[r]] # "unborn"
    BY <1>d DEF IInv, TypeOK, StepBooks, roomVars
  <2>1. registry' \in [RoomId -> Inst \cup {None}]
    BY <1>d DEF IInv, TypeOK
  <2>2. \A r \in RoomId : registry'[r] \in {None, registry[r]}
    BY <1>d
  <2>3. Looked
    BY <2>0, <2>1, <2>2
  <2>4. Went
    <3>1. PICK e \in {"refused", "out"} : step' = [step EXCEPT ![q] = e] /\ unheard' \subseteq Request
      BY <1>a, <1>d, Refuses
    <3> QED BY <1>a, <1>d, <3>1 DEF Step
  <2> QED BY <2>3, <2>4
<1>0. Went /\ Looked
  <2> HIDE DEF Went, Looked
  <2> QED BY <1>b, <1>c, <1>d DEF live_handle_or_create
<1>1. TypeOK'
  BY <1>a, <1>0 DEF IInv, TypeOK, QueueType
<1>2. StepBooks'
  BY <1>a, <1>0, RoomsAssumption DEF IInv, TypeOK, Step, StepBooks, MemberBooks, EvictedOnlyByOwn, Kept
<1>3. QueueBooks'
  BY <1>a, <1>0, SameQueue DEF IInv, TypeOK, Step
<1>4. MemberBooks'
  <2>1. \A p \in Request : step[p] = "out" \/ Kept(p) =>
          (step'[p] = "out" \/ Kept(p)') /\ inst'[p] = inst[p] /\ caller'[p] = caller[p]
    BY <1>a, <1>0 DEF Kept
  <2> QED BY <1>0, <2>1 DEF IInv, TypeOK, MemberBooks
<1>5. EvictedOnlyByOwn'
  <2>1. ASSUME NEW p \in Request, Kept(p)', status'[inst'[p]] = "running"
        PROVE  p # q /\ Kept(p) /\ inst'[p] = inst[p] /\ inst[p] \in Inst /\ status[inst[p]] = "running"
    BY <1>a, <1>0, <2>1 DEF IInv, StepBooks, Kept
  <2> QED BY <1>a, <1>0, <2>1 DEF IInv, TypeOK, EvictedOnlyByOwn
<1> QED BY <1>1, <1>2, <1>3, <1>4, <1>5 DEF IInv

\* The join is sent.
LEMMA Inv_SendJoin ==
  ASSUME IInv, NEW q \in Request, SendJoin(q)
  PROVE  IInv'
<1>0. inst[q] \in Inst /\ [type |-> "Join", req |-> q] \in Msg /\ Sent(inst[q], [type |-> "Join", req |-> q])
  <2>1. inst[q] \in Inst /\ status[inst[q]] = "running"
    BY DEF SendJoin, Closed, IInv, TypeOK, StepBooks
  <2>2. TrySend(inst[q], [type |-> "Join", req |-> q])
    BY <2>1 DEF SendJoin, TrySend
  <2> QED BY <2>1, <2>2, Messages, TrySends DEF IInv
<1>1. TypeOK'
  BY <1>0, RoomsAssumption DEF IInv, TypeOK, QueueType, Step, StepBooks, Kept, SendJoin, Closed, Sent, LeaveRoom, Leave, roomVars, reqVars
<1>2. StepBooks'
  BY <1>0, RoomsAssumption DEF IInv, TypeOK, Step, StepBooks, Kept, SendJoin, Closed, LeaveRoom, roomVars, reqVars
<1>3. QueueBooks'
  <2>1. \A p \in Request : step[p] \in {"out", "wait"} => step'[p] = step[p]
    BY DEF IInv, TypeOK, StepBooks, SendJoin, Closed, reqVars
  <2> QED BY <1>0, <2>1, KeepsQueue DEF IInv, TypeOK, SendJoin, Closed, roomVars
<1>4. MemberBooks'
  BY <1>0, RoomsAssumption DEF IInv, TypeOK, StepBooks, MemberBooks, Kept, SendJoin, Closed, LeaveRoom, roomVars, reqVars
<1>5. EvictedOnlyByOwn'
  BY <1>0, RoomsAssumption DEF IInv, TypeOK, StepBooks, MemberBooks, EvictedOnlyByOwn, Kept, SendJoin, Closed, LeaveRoom, roomVars, reqVars
<1> QED BY <1>1, <1>2, <1>3, <1>4, <1>5 DEF IInv

\* The room is closed to the join.
LEMMA Inv_RoomClosed ==
  ASSUME IInv, NEW q \in Request, RoomClosed(q)
  PROVE  IInv'
<1>1. TypeOK'
  <2>1. target[q] \in RoomId
    BY DEF RoomClosed, IInv, TypeOK, StepBooks
  <2>2. registry' \in [RoomId -> Inst \cup {None}] /\ attempt' \in [Request -> {0, 1}]
    BY <2>1 DEF RoomClosed, IInv, TypeOK
  <2>3. step' \in [Request -> Step] /\ unheard' \subseteq Request
    BY DEF RoomClosed, Refuse, Unheard, IInv, TypeOK, Step
  <2> QED BY <2>2, <2>3 DEF RoomClosed, IInv, TypeOK, QueueType, roomVars
<1>2. StepBooks'
  BY RoomsAssumption DEF IInv, TypeOK, Step, StepBooks, Kept, RoomClosed, Closed, Found, Refuse, Unheard, roomVars, reqVars
<1>3. QueueBooks'
  BY SameQueue DEF IInv, TypeOK, StepBooks, Kept, RoomClosed, Closed, Found, Refuse, Unheard, roomVars, reqVars
<1>4. MemberBooks'
  BY RoomsAssumption DEF IInv, TypeOK, StepBooks, MemberBooks, Kept, RoomClosed, Closed, Found, Refuse, Unheard, roomVars, reqVars
<1>5. EvictedOnlyByOwn'
  BY RoomsAssumption DEF IInv, TypeOK, StepBooks, MemberBooks, EvictedOnlyByOwn, Kept, RoomClosed, Closed, Found, Refuse, Unheard, roomVars, reqVars
<1> QED BY <1>1, <1>2, <1>3, <1>4, <1>5 DEF IInv

\* A membership on its way to the tap is dropped.
LEMMA Inv_Dropped ==
  ASSUME IInv, NEW q \in Request, step[q] \in {"joined", "offered", "queued"}, Leave(q),
         step' = [step EXCEPT ![q] = "out"], unheard' \subseteq Request,
         UNCHANGED <<registry, roomVars, caller, target, inst, attempt, live, tap>>
  PROVE  IInv'
<1>0. inst[q] \in Inst /\ [type |-> "Leave", call |-> caller[q]] \in Msg
      /\ Sent(inst[q], [type |-> "Leave", call |-> caller[q]])
  BY Messages, TrySends DEF IInv, StepBooks, TypeOK, Kept, Leave
<1>1. TypeOK'
  BY <1>0 DEF IInv, TypeOK, QueueType, Step, Sent, roomVars
<1>2. StepBooks'
  BY <1>0 DEF IInv, TypeOK, StepBooks, Kept, roomVars
<1>3. QueueBooks'
  <2>1. \A p \in Request : step[p] \in {"out", "wait"} => step'[p] = step[p]
    BY DEF IInv, TypeOK
  <2> QED BY <1>0, <2>1, KeepsQueue DEF IInv, TypeOK, StepBooks, roomVars
<1>4. MemberBooks'
  BY DEF IInv, TypeOK, MemberBooks, Kept, roomVars
<1>5. EvictedOnlyByOwn'
  BY DEF IInv, TypeOK, EvictedOnlyByOwn, Kept, roomVars
<1> QED BY <1>1, <1>2, <1>3, <1>4, <1>5 DEF IInv

\* It goes one channel on, or the server is told of a refusal.
LEMMA Inv_Passed ==
  ASSUME IInv, NEW q \in Request, NEW s \in {"offered", "queued", "out"},
         step[q] = IF s = "offered" THEN "joined" ELSE IF s = "queued" THEN "offered" ELSE "refused",
         step' = [step EXCEPT ![q] = s], UNCHANGED <<ctrl, unheard>>,
         UNCHANGED <<registry, roomVars, caller, target, inst, attempt, live, tap>>
  PROVE  IInv'
<1>0. /\ step' \in [Request -> Step] /\ \A p \in Request : p # q => step'[p] = step[p]
      /\ step'[q] = s /\ (Kept(q)' <=> Kept(q)) /\ \A p \in Request : p # q => (Kept(p)' <=> Kept(p))
      /\ step[q] \in {"joined", "offered", "refused"}
  BY DEF IInv, TypeOK, Step, Kept
<1>1. TypeOK'
  BY <1>0 DEF IInv, TypeOK, QueueType, roomVars
<1>2. StepBooks'
  BY <1>0 DEF IInv, TypeOK, StepBooks, roomVars
<1>3. QueueBooks'
  BY <1>0, SameQueue DEF roomVars
<1>4. MemberBooks'
  BY <1>0 DEF IInv, TypeOK, MemberBooks, roomVars
<1>5. EvictedOnlyByOwn'
  BY <1>0 DEF IInv, TypeOK, EvictedOnlyByOwn, roomVars
<1> QED BY <1>1, <1>2, <1>3, <1>4, <1>5 DEF IInv

\* The join's task reports its membership.
LEMMA Inv_Report ==
  ASSUME IInv, NEW q \in Request, Report(q)
  PROVE  IInv'
<1>1. CASE Leave(q) /\ Unheard(q)
  BY <1>1, Inv_Dropped DEF Report, Unheard, IInv, TypeOK
<1>2. CASE step' = [step EXCEPT ![q] = "offered"] /\ UNCHANGED <<ctrl, unheard>>
  BY <1>2, Inv_Passed DEF Report
<1> QED BY <1>1, <1>2 DEF Report

\* The controller takes the outcome.
LEMMA Inv_Deliver ==
  ASSUME IInv, NEW q \in Request, Deliver(q)
  PROVE  IInv'
<1>1. CASE step[q] = "offered" /\ step' = [step EXCEPT ![q] = "queued"] /\ UNCHANGED ctrl
  BY <1>1, Inv_Passed DEF Deliver
<1>2. CASE step[q] = "offered" /\ step' = [step EXCEPT ![q] = "out"] /\ Leave(q)
  BY <1>2, Inv_Dropped DEF Deliver, IInv, TypeOK
<1>3. CASE step[q] = "refused" /\ step' = [step EXCEPT ![q] = "out"] /\ UNCHANGED ctrl
  BY <1>3, Inv_Passed DEF Deliver
<1> QED BY <1>1, <1>2, <1>3 DEF Deliver

\* The tap takes a membership and lets go of the one it has.
LEMMA Inv_JoinRoom ==
  ASSUME IInv, NEW q \in Request, JoinRoom(q)
  PROVE  IInv'
<1>0. tap[caller[q]] # None => inst[tap[caller[q]]] \in Inst /\ [type |-> "Leave", call |-> caller[tap[caller[q]]]] \in Msg /\ Sent(inst[tap[caller[q]]], [type |-> "Leave", call |-> caller[tap[caller[q]]]])
  BY Messages, TrySends DEF IInv, JoinRoom, Gone, StepBooks, TypeOK, Kept, LeaveRoom, Leave, roomVars, reqVars
<1>1. TypeOK'
  BY <1>0, RoomsAssumption DEF IInv, TypeOK, QueueType, Step, StepBooks, Kept, JoinRoom, Gone, Sent, LeaveRoom, Leave, roomVars, reqVars
<1>2. StepBooks'
  BY <1>0, RoomsAssumption DEF IInv, TypeOK, Step, StepBooks, Kept, JoinRoom, Gone, LeaveRoom, roomVars, reqVars
<1>3. QueueBooks'
  <2>1. \A p \in Request : step[p] \in {"out", "wait"} => step'[p] = step[p]
    BY DEF IInv, TypeOK, StepBooks, JoinRoom, Gone, reqVars
  <2>2. CASE tap[caller[q]] # None
    <3>1. /\ tap[caller[q]] \in Request /\ tap[caller[q]] # q /\ caller[tap[caller[q]]] = caller[q]
          /\ step'[tap[caller[q]]] = "out"
      BY <2>2 DEF IInv, TypeOK, StepBooks, JoinRoom, Gone
    <3> QED BY <1>0, <2>1, <2>2, <3>1, KeepsQueue DEF IInv, TypeOK, JoinRoom, roomVars
  <2>3. CASE ~(tap[caller[q]] # None)
    <3>1. ctrl' = ctrl
      BY <2>3 DEF IInv, TypeOK, JoinRoom, Gone, LeaveRoom
    <3> QED BY <2>1, <3>1, SameQueue DEF JoinRoom, Gone, roomVars
  <2> QED BY <2>2, <2>3
<1>4. MemberBooks'
  BY <1>0, RoomsAssumption DEF IInv, TypeOK, StepBooks, MemberBooks, Kept, JoinRoom, Gone, LeaveRoom, roomVars, reqVars
<1>5. EvictedOnlyByOwn'
  <2>1. /\ step[q] = "queued" /\ step'[q] = "in"
        /\ \A p \in Request : p # q => step'[p] = step[p] \/ step'[p] = "out"
    BY DEF JoinRoom, Gone, IInv, TypeOK, StepBooks
  <2>2. UNCHANGED <<members, status, live, caller, inst>>
    BY DEF JoinRoom, roomVars
  <2>3. \A p \in Request : Kept(p)' => Kept(p)
    BY <2>1 DEF Kept
  <2>4. \A p \in Request : step[p] = "out" => step'[p] = "out"
    BY <2>1
  <2> QED BY <2>2, <2>3, <2>4 DEF IInv, EvictedOnlyByOwn
<1> QED BY <1>1, <1>2, <1>3, <1>4, <1>5 DEF IInv

\* The tap leaves on command.
LEMMA Inv_LeaveCommand ==
  ASSUME IInv, NEW c \in Call, LeaveCommand(c)
  PROVE  IInv'
<1>0. inst[tap[c]] \in Inst /\ [type |-> "Leave", call |-> caller[tap[c]]] \in Msg /\ Sent(inst[tap[c]], [type |-> "Leave", call |-> caller[tap[c]]])
  BY Messages, TrySends DEF IInv, LeaveCommand, Gone, StepBooks, TypeOK, Kept, LeaveRoom, Leave, roomVars, reqVars
<1>1. TypeOK'
  BY <1>0, RoomsAssumption DEF IInv, TypeOK, QueueType, Step, StepBooks, Kept, LeaveCommand, Gone, Sent, LeaveRoom, Leave, roomVars, reqVars
<1>2. StepBooks'
  BY <1>0, RoomsAssumption DEF IInv, TypeOK, Step, StepBooks, Kept, LeaveCommand, Gone, LeaveRoom, roomVars, reqVars
<1>3. QueueBooks'
  <2>1. \A p \in Request : step[p] \in {"out", "wait"} => step'[p] = step[p]
    BY DEF IInv, TypeOK, StepBooks, LeaveCommand, Gone, reqVars
  <2> QED BY <1>0, <2>1, KeepsQueue DEF IInv, TypeOK, StepBooks, LeaveCommand, Gone, LeaveRoom, roomVars, reqVars
<1>4. MemberBooks'
  BY <1>0, RoomsAssumption DEF IInv, TypeOK, StepBooks, MemberBooks, Kept, LeaveCommand, Gone, LeaveRoom, roomVars, reqVars
<1>5. EvictedOnlyByOwn'
  BY <1>0, RoomsAssumption DEF IInv, TypeOK, StepBooks, MemberBooks, EvictedOnlyByOwn, Kept, LeaveCommand, Gone, LeaveRoom, roomVars, reqVars
<1> QED BY <1>1, <1>2, <1>3, <1>4, <1>5 DEF IInv

\* The tap finds its sinks closed.
LEMMA Inv_revert_to_direct ==
  ASSUME IInv, NEW c \in Call, revert_to_direct(c)
  PROVE  IInv'
<1>0. inst[tap[c]] \in Inst /\ [type |-> "Leave", call |-> caller[tap[c]]] \in Msg /\ Sent(inst[tap[c]], [type |-> "Leave", call |-> caller[tap[c]]])
  BY Messages, TrySends DEF IInv, revert_to_direct, Gone, StepBooks, TypeOK, Kept, LeaveRoom, Leave, roomVars, reqVars
<1>1. TypeOK'
  BY <1>0, RoomsAssumption DEF IInv, TypeOK, QueueType, Step, StepBooks, Kept, revert_to_direct, Gone, Sent, LeaveRoom, Leave, roomVars, reqVars
<1>2. StepBooks'
  BY <1>0, RoomsAssumption DEF IInv, TypeOK, Step, StepBooks, Kept, revert_to_direct, Gone, LeaveRoom, roomVars, reqVars
<1>3. QueueBooks'
  <2>1. \A p \in Request : step[p] \in {"out", "wait"} => step'[p] = step[p]
    BY DEF IInv, TypeOK, StepBooks, revert_to_direct, Gone, reqVars
  <2> QED BY <1>0, <2>1, KeepsQueue DEF IInv, TypeOK, StepBooks, revert_to_direct, Gone, LeaveRoom, roomVars, reqVars
<1>4. MemberBooks'
  BY <1>0, RoomsAssumption DEF IInv, TypeOK, StepBooks, MemberBooks, Kept, revert_to_direct, Gone, LeaveRoom, roomVars, reqVars
<1>5. EvictedOnlyByOwn'
  BY <1>0, RoomsAssumption DEF IInv, TypeOK, StepBooks, MemberBooks, EvictedOnlyByOwn, Kept, revert_to_direct, Gone, LeaveRoom, roomVars, reqVars
<1> QED BY <1>1, <1>2, <1>3, <1>4, <1>5 DEF IInv

\* The tap asks for a clear.
LEMMA Inv_clear_ws_input ==
  ASSUME IInv, NEW c \in Call, clear_ws_input(c)
  PROVE  IInv'
<1>0. inst[tap[c]] \in Inst /\ [type |-> "ClearInput"] \in Msg /\ Sent(inst[tap[c]], [type |-> "ClearInput"])
  BY Messages, TrySends DEF IInv, clear_ws_input, StepBooks, TypeOK, Kept, LeaveRoom, Leave, roomVars, reqVars
<1>1. TypeOK'
  BY <1>0, RoomsAssumption DEF IInv, TypeOK, QueueType, Step, StepBooks, Kept, clear_ws_input, Sent, LeaveRoom, Leave, roomVars, reqVars
<1>2. StepBooks'
  BY <1>0, RoomsAssumption DEF IInv, TypeOK, Step, StepBooks, Kept, clear_ws_input, LeaveRoom, roomVars, reqVars
<1>3. QueueBooks'
  <2>1. \A p \in Request : step[p] \in {"out", "wait"} => step'[p] = step[p]
    BY DEF IInv, TypeOK, StepBooks, clear_ws_input, reqVars
  <2> QED BY <1>0, <2>1, KeepsQueue DEF IInv, TypeOK, StepBooks, clear_ws_input, LeaveRoom, roomVars, reqVars
<1>4. MemberBooks'
  BY <1>0, RoomsAssumption DEF IInv, TypeOK, StepBooks, MemberBooks, Kept, clear_ws_input, LeaveRoom, roomVars, reqVars
<1>5. EvictedOnlyByOwn'
  BY <1>0, RoomsAssumption DEF IInv, TypeOK, StepBooks, MemberBooks, EvictedOnlyByOwn, Kept, clear_ws_input, LeaveRoom, roomVars, reqVars
<1> QED BY <1>1, <1>2, <1>3, <1>4, <1>5 DEF IInv

\* A call ends.
LEMMA Inv_CallEnds ==
  ASSUME IInv, NEW c \in Call, CallEnds(c)
  PROVE  IInv'
<1>1. TypeOK'
  BY RoomsAssumption DEF IInv, TypeOK, QueueType, Step, StepBooks, Kept, CallEnds, roomVars, reqVars
<1>2. StepBooks'
  BY RoomsAssumption DEF IInv, TypeOK, Step, StepBooks, Kept, CallEnds, roomVars, reqVars
<1>3. QueueBooks'
  BY SameQueue DEF IInv, TypeOK, StepBooks, Kept, CallEnds, roomVars, reqVars
<1>4. MemberBooks'
  BY RoomsAssumption DEF IInv, TypeOK, StepBooks, MemberBooks, Kept, CallEnds, roomVars, reqVars
<1>5. EvictedOnlyByOwn'
  BY RoomsAssumption DEF IInv, TypeOK, StepBooks, MemberBooks, EvictedOnlyByOwn, Kept, CallEnds, roomVars, reqVars
<1> QED BY <1>1, <1>2, <1>3, <1>4, <1>5 DEF IInv

\* A tap that ended drops what it has in hand.
LEMMA Inv_TapGone_Hand ==
  ASSUME IInv, NEW c \in Call, ~live[c], tap[c] # None, LeaveRoom(c, None),
         step' = Gone(c), UNCHANGED <<registry, roomVars, caller, target, inst, attempt, unheard, live>>
  PROVE  IInv'
<1>0. inst[tap[c]] \in Inst /\ [type |-> "Leave", call |-> caller[tap[c]]] \in Msg /\ Sent(inst[tap[c]], [type |-> "Leave", call |-> caller[tap[c]]])
  BY Messages, TrySends DEF IInv, Gone, StepBooks, TypeOK, Kept, LeaveRoom, Leave, roomVars, reqVars
<1>1. TypeOK'
  BY <1>0, RoomsAssumption DEF IInv, TypeOK, QueueType, Step, StepBooks, Kept, Gone, Sent, LeaveRoom, Leave, roomVars, reqVars
<1>2. StepBooks'
  BY <1>0, RoomsAssumption DEF IInv, TypeOK, Step, StepBooks, Kept, Gone, LeaveRoom, roomVars, reqVars
<1>3. QueueBooks'
  <2>1. \A p \in Request : step[p] \in {"out", "wait"} => step'[p] = step[p]
    BY DEF IInv, TypeOK, StepBooks, Gone
  <2> QED BY <1>0, <2>1, KeepsQueue DEF IInv, TypeOK, StepBooks, Gone, LeaveRoom, roomVars, reqVars
<1>4. MemberBooks'
  BY <1>0, RoomsAssumption DEF IInv, TypeOK, StepBooks, MemberBooks, Kept, Gone, LeaveRoom, roomVars, reqVars
<1>5. EvictedOnlyByOwn'
  BY <1>0, RoomsAssumption DEF IInv, TypeOK, StepBooks, MemberBooks, EvictedOnlyByOwn, Kept, Gone, LeaveRoom, roomVars, reqVars
<1> QED BY <1>1, <1>2, <1>3, <1>4, <1>5 DEF IInv

\* A room takes a message: a join it answers, a leave, a clear.
LEMMA Inv_RoomCtrl ==
  ASSUME IInv, NEW i \in Inst, RoomCtrl(i)
  PROVE  IInv'
<1> DEFINE m == Head(ctrl[i])
<1>1. /\ status[i] = "running" /\ ctrl[i] # <<>> /\ ctrl[i] \in Seq(Msg) /\ Len(ctrl[i]) <= CtrlCap
      /\ ctrl' = [ctrl EXCEPT ![i] = Tail(@)]
      /\ UNCHANGED <<registry, status, caller, target, inst, attempt, live, tap>>
  BY DEF RoomCtrl, IInv, TypeOK, QueueType
<1>2. m \in Msg /\ m = ctrl[i][1] /\ 1 \in 1 .. Len(ctrl[i])
  BY <1>1
<1>3. \A j \in Inst : ctrl'[j] = IF j = i THEN Tail(ctrl[i]) ELSE ctrl[j]
  BY <1>1 DEF IInv, TypeOK, QueueType
<1>4. /\ Tail(ctrl[i]) \in Seq(Msg) /\ Len(Tail(ctrl[i])) <= CtrlCap
      /\ \A k \in 1 .. Len(Tail(ctrl[i])) :
           Tail(ctrl[i])[k] = ctrl[i][k + 1] /\ k + 1 \in 1 .. Len(ctrl[i]) /\ k + 1 # 1
  BY <1>1, RoomsAssumption
<1>5. m.type = "Join" => /\ m.req \in Request /\ step[m.req] = "wait" /\ inst[m.req] = i
                         /\ \A l \in 1 .. Len(ctrl[i]) : ctrl[i][l] = m => l = 1
  BY <1>2, Messages DEF IInv, QueueBooks
<1>6. m.type = "Leave" =>
        m.call \in Call /\ \E p \in Request : step[p] = "out" /\ caller[p] = m.call /\ inst[p] = i
  BY <1>2, Messages DEF IInv, QueueBooks
<1>7. /\ step' \in [Request -> Step] /\ ever_joined' \in [Inst -> BOOLEAN]
      /\ \A p \in Request : step'[p] # step[p] =>
           m.type = "Join" /\ p = m.req /\ step'[p] \in {"joined", "refused", "out"}
      /\ unheard' \subseteq Request
  <2>1. step \in [Request -> Step] /\ ever_joined \in [Inst -> BOOLEAN] /\ unheard \subseteq Request
    BY DEF IInv, TypeOK
  <2>2. CASE m.type = "Join" /\ Refuse(m.req) /\ UNCHANGED ever_joined
    <3>1. PICK e \in {"refused", "out"} : step' = [step EXCEPT ![m.req] = e] /\ unheard' \subseteq Request
      BY <1>5, <2>1, <2>2, Refuses
    <3> QED BY <1>5, <2>1, <2>2, <3>1 DEF Step
  <2>3. CASE ~(m.type = "Join" /\ Refuse(m.req) /\ UNCHANGED ever_joined)
    BY <1>5, <2>1, <2>3 DEF RoomCtrl, handle_join, Step
  <2> QED BY <2>2, <2>3
<1>8. /\ members' \in [Inst -> [Call -> Request \cup {None}]]
      /\ \A j \in Inst, c \in Call : members'[j][c] # members[j][c] =>
           /\ j = i
           /\ \/ /\ m.type = "Join" /\ c = caller[m.req] /\ members[j][c] = None
                 /\ members'[j][c] = m.req /\ step'[m.req] = "joined"
              \/ m.type = "Leave" /\ c = m.call /\ members'[j][c] = None
  <2>0. members \in [Inst -> [Call -> Request \cup {None}]] /\ step \in [Request -> Step]
    BY DEF IInv, TypeOK
  <2>1. CASE /\ m.type = "Join" /\ members[i][caller[m.req]] = None
             /\ members' = [members EXCEPT ![i][caller[m.req]] = m.req]
             /\ step' = [step EXCEPT ![m.req] = "joined"]
    BY <1>5, <2>0, <2>1
  <2>2. CASE m.type = "Leave" /\ members' = [members EXCEPT ![i][m.call] = None]
    BY <1>6, <2>0, <2>2
  <2>3. CASE members' = members
    BY <2>0, <2>3
  <2> QED BY <2>1, <2>2, <2>3 DEF RoomCtrl, handle_join
<1>9. m.type = "Join" /\ step'[m.req] = "joined" => members'[i][caller[m.req]] = m.req
  BY <1>5 DEF RoomCtrl, handle_join, Refuse, Unheard, IInv, TypeOK, StepBooks
<1>10. TypeOK'
  <2>1. ctrl' \in [Inst -> Seq(Msg)] /\ \A j \in Inst : Len(ctrl'[j]) <= CtrlCap
    BY <1>1, <1>3, <1>4 DEF IInv, TypeOK, QueueType
  <2> QED BY <1>1, <1>7, <1>8, <2>1 DEF IInv, TypeOK, QueueType
<1>11. StepBooks'
  BY <1>1, <1>5, <1>7 DEF IInv, TypeOK, StepBooks, Kept
<1>12. QueueBooks'
  <2>1. ASSUME NEW j \in Inst, NEW k \in 1 .. Len(ctrl'[j])
        PROVE  \E n \in 1 .. Len(ctrl[j]) :
                 /\ n = (IF j = i THEN k + 1 ELSE k) /\ ctrl'[j][k] = ctrl[j][n]
                 /\ j = i => n # 1
    BY <1>3, <1>4
  <2>2. ASSUME NEW j \in Inst, NEW n \in 1 .. Len(ctrl[j]), j = i => n # 1
        PROVE  /\ ctrl[j][n] \in Msg
               /\ ctrl[j][n].type = "Leave" =>
                    \E p \in Request : step'[p] = "out" /\ caller'[p] = ctrl[j][n].call /\ inst'[p] = j
               /\ ctrl[j][n].type = "Join" =>
                    step'[ctrl[j][n].req] = "wait" /\ inst'[ctrl[j][n].req] = j
    <3>1. ctrl[j][n] \in Msg
      BY DEF IInv, TypeOK, QueueType
    <3>2. ASSUME ctrl[j][n].type = "Leave"
          PROVE  \E p \in Request : step'[p] = "out" /\ caller'[p] = ctrl[j][n].call /\ inst'[p] = j
      <4>1. PICK p \in Request : step[p] = "out" /\ caller[p] = ctrl[j][n].call /\ inst[p] = j
        BY <3>2 DEF IInv, QueueBooks
      <4>2. step'[p] = "out"
        BY <4>1, <1>5, <1>7
      <4> QED BY <1>1, <4>1, <4>2
    <3>3. ASSUME ctrl[j][n].type = "Join"
          PROVE  step'[ctrl[j][n].req] = "wait" /\ inst'[ctrl[j][n].req] = j
      <4>1. /\ ctrl[j][n].req \in Request /\ ctrl[j][n] = [type |-> "Join", req |-> ctrl[j][n].req]
            /\ step[ctrl[j][n].req] = "wait" /\ inst[ctrl[j][n].req] = j
        BY <3>1, <3>3, Messages DEF IInv, QueueBooks
      <4>2. ASSUME m.type = "Join", m.req = ctrl[j][n].req
            PROVE  FALSE
        <5>1. m = ctrl[j][n]
          BY <1>2, <4>1, <4>2, Messages
        <5> QED BY <1>5, <2>2, <4>1, <4>2, <5>1
      <4> QED BY <1>1, <1>7, <4>1, <4>2
    <3> QED BY <3>1, <3>2, <3>3
  <2>3. ASSUME NEW j \in Inst, NEW k \in 1 .. Len(ctrl'[j]), ctrl'[j][k].type = "Join",
               NEW l \in 1 .. Len(ctrl'[j]), ctrl'[j][l] = ctrl'[j][k]
        PROVE  l = k
    <3>1. PICK n \in 1 .. Len(ctrl[j]) :
            n = (IF j = i THEN k + 1 ELSE k) /\ ctrl'[j][k] = ctrl[j][n]
      BY <2>1
    <3>2. PICK o \in 1 .. Len(ctrl[j]) :
            o = (IF j = i THEN l + 1 ELSE l) /\ ctrl'[j][l] = ctrl[j][o]
      BY <2>1
    <3>3. o = n
      BY <2>3, <3>1, <3>2 DEF IInv, QueueBooks
    <3> QED BY <3>1, <3>2, <3>3
  <2>4. ASSUME NEW j \in Inst, status'[j] # "running"
        PROVE  ctrl'[j] = <<>>
    BY <1>1, <1>3, <2>4 DEF IInv, QueueBooks
  <2>5. ASSUME NEW j \in Inst, NEW k \in 1 .. Len(ctrl'[j])
        PROVE  /\ ctrl'[j][k].type = "Leave" =>
                    \E p \in Request :
                      step'[p] = "out" /\ caller'[p] = ctrl'[j][k].call /\ inst'[p] = j
               /\ ctrl'[j][k].type = "Join" =>
                    step'[ctrl'[j][k].req] = "wait" /\ inst'[ctrl'[j][k].req] = j
    <3>1. PICK n \in 1 .. Len(ctrl[j]) : ctrl'[j][k] = ctrl[j][n] /\ (j = i => n # 1)
      BY <2>1
    <3> QED BY <2>2, <3>1
  <2> QED BY <2>3, <2>4, <2>5 DEF QueueBooks
<1>13. MemberBooks'
  BY <1>1, <1>5, <1>7, <1>8 DEF IInv, TypeOK, MemberBooks, Kept
<1>14. EvictedOnlyByOwn'
  <2> SUFFICES ASSUME NEW q \in Request, Kept(q)', live[caller[q]], status[inst[q]] = "running"
               PROVE  \/ members'[inst[q]][caller[q]] = q
                      \/ \E p \in Request \ {q} :
                           caller[p] = caller[q] /\ inst[p] = inst[q] /\ step'[p] = "out"
    BY <1>1 DEF EvictedOnlyByOwn
  <2>1. CASE step'[q] # step[q]
    BY <1>5, <1>7, <1>9, <2>1 DEF Kept
  <2>2. CASE step'[q] = step[q]
    <3>1. Kept(q) /\ inst[q] \in Inst /\ caller[q] \in Call
      BY <2>2 DEF Kept, IInv, StepBooks
    <3>2. \A p \in Request : step[p] = "out" => step'[p] = "out"
      BY <1>5, <1>7
    <3>3. CASE \E p \in Request \ {q} :
                 caller[p] = caller[q] /\ inst[p] = inst[q] /\ step[p] = "out"
      BY <3>2, <3>3
    <3>4. CASE members[inst[q]][caller[q]] = q /\ members'[inst[q]][caller[q]] # q
      <4>1. m.type = "Leave" /\ inst[q] = i /\ caller[q] = m.call
        BY <1>8, <3>1, <3>4, RoomsAssumption
      <4>2. PICK p \in Request : step[p] = "out" /\ caller[p] = m.call /\ inst[p] = i
        BY <1>6, <4>1
      <4>3. p # q
        BY <3>1, <4>2 DEF Kept
      <4> QED BY <3>2, <4>1, <4>2, <4>3
    <3> QED BY <3>1, <3>3, <3>4 DEF IInv, EvictedOnlyByOwn
  <2> QED BY <2>1, <2>2
<1> QED BY <1>10, <1>11, <1>12, <1>13, <1>14 DEF IInv

\* A room that ends empties its queue and its members.
LEMMA Inv_Ends ==
  ASSUME IInv, NEW i \in Inst, Ends(i), UNCHANGED <<registry, ever_joined, reqVars, live, tap>>
  PROVE  IInv'
<1>0. /\ \A j \in Inst : j # i => status'[j] = status[j] /\ ctrl'[j] = ctrl[j] /\ members'[j] = members[j]
      /\ status'[i] = "ended" /\ ctrl'[i] = <<>> /\ \A c \in Call : members'[i][c] = None
      /\ UNCHANGED <<step, caller, target, inst, attempt>>
  BY DEF Ends, IInv, TypeOK, QueueType, reqVars
<1>1. TypeOK'
  <2>1. ctrl' \in [Inst -> Seq(Msg)] /\ \A j \in Inst : Len(ctrl'[j]) <= CtrlCap
    BY <1>0, RoomsAssumption DEF Ends, IInv, TypeOK, QueueType
  <2> QED BY <1>0, <2>1 DEF Ends, IInv, TypeOK, QueueType, reqVars
<1>2. StepBooks'
  BY <1>0 DEF IInv, TypeOK, StepBooks, Kept
<1>3. QueueBooks'
  <2>1. \A k \in 1 .. Len(ctrl'[i]) : FALSE
    BY <1>0
  <2>2. QueueBooks
    BY DEF IInv
  <2> QED BY <1>0, <2>1, <2>2 DEF QueueBooks
<1>4. MemberBooks'
  BY <1>0 DEF IInv, TypeOK, MemberBooks, Kept
<1>5. EvictedOnlyByOwn'
  <2>1. ASSUME NEW q \in Request, Kept(q), status'[inst[q]] = "running"
        PROVE  inst[q] \in Inst /\ inst[q] # i /\ status[inst[q]] = "running"
    BY <1>0, <2>1 DEF IInv, StepBooks
  <2> QED BY <1>0, <2>1 DEF IInv, TypeOK, EvictedOnlyByOwn, Kept
<1> QED BY <1>1, <1>2, <1>3, <1>4, <1>5 DEF IInv

\* A tick reaps members that nobody keeps.
LEMMA Inv_Reaps ==
  ASSUME IInv, NEW i \in Inst,
         members' = [members EXCEPT ![i] = [c \in Call |-> IF members[i][c] # None /\ Kept(members[i][c])
                                                          THEN members[i][c] ELSE None]],
         UNCHANGED <<registry, status, ctrl, ever_joined, reqVars, live, tap>>
  PROVE  IInv'
<1>0. /\ members' \in [Inst -> [Call -> Request \cup {None}]]
      /\ \A j \in Inst, c \in Call :
           \/ members'[j][c] = members[j][c]
           \/ members'[j][c] = None /\ ~Kept(members[j][c])
  BY DEF IInv, TypeOK
<1>1. TypeOK'
  BY <1>0 DEF IInv, TypeOK, QueueType, reqVars
<1>2. StepBooks'
  BY DEF IInv, TypeOK, StepBooks, Kept, reqVars
<1>3. QueueBooks'
  BY SameQueue DEF IInv, reqVars
<1>4. MemberBooks'
  BY <1>0 DEF IInv, TypeOK, MemberBooks, Kept, reqVars
<1>5. EvictedOnlyByOwn'
  BY <1>0 DEF IInv, TypeOK, StepBooks, EvictedOnlyByOwn, Kept, reqVars
<1> QED BY <1>1, <1>2, <1>3, <1>4, <1>5 DEF IInv

-----------------------------------------------------------------------------
(* The theorems. *)

LEMMA NextInv == IInv /\ [Next]_vars => IInv'
<1> SUFFICES ASSUME IInv, [Next]_vars
             PROVE  IInv'
  OBVIOUS
<1>1. ASSUME NEW r \in RoomId, end_room(r) \/ create_room(r)
      PROVE  IInv'
  BY <1>1, Inv_end_room, Inv_create_room
<1>2. ASSUME NEW q \in Request, JoinTask(q)
      PROVE  IInv'
  BY <1>2, Inv_live_handle_or_create, Inv_SendJoin, Inv_RoomClosed, Inv_Report, Inv_Deliver, Inv_JoinRoom
     DEF JoinTask
<1>3. ASSUME NEW q \in Request, NEW c \in Call, NEW r \in RoomId, spawn_conference_join(q, c, r)
      PROVE  IInv'
  BY <1>3, Inv_spawn_conference_join
<1>4. ASSUME NEW c \in Call, TapGone(c)
      PROVE  IInv'
  <2>1. CASE tap[c] # None /\ LeaveRoom(c, None) /\ step' = Gone(c)
    BY <1>4, <2>1, Inv_TapGone_Hand DEF TapGone
  <2>2. ASSUME NEW q \in Request, step[q] \in {"offered", "queued"}, Leave(q),
               step' = [step EXCEPT ![q] = "out"], UNCHANGED tap
        PROVE  IInv'
    BY <1>4, <2>2, Inv_Dropped DEF TapGone, IInv, TypeOK
  <2> QED BY <1>4, <2>1, <2>2 DEF TapGone
<1>5. ASSUME NEW c \in Call, TapTask(c) \/ clear_ws_input(c) \/ CallEnds(c)
      PROVE  IInv'
  BY <1>4, <1>5, Inv_LeaveCommand, Inv_revert_to_direct, Inv_clear_ws_input, Inv_CallEnds
     DEF TapTask
<1>6. ASSUME NEW i \in Inst, RoomTask(i)
      PROVE  IInv'
  <2>1. CASE RoomCtrl(i)
    BY <2>1, Inv_RoomCtrl
  <2>2. CASE EndRoom(i)
    BY <2>2, Inv_Ends DEF EndRoom
  <2> QED BY <1>6, <2>1, <2>2 DEF RoomTask
<1>7. ASSUME NEW i \in Inst, Tick(i)
      PROVE  IInv'
  BY <1>7, Inv_Ends, Inv_Reaps DEF Tick
<1>8. CASE UNCHANGED vars
  <2>1. UNCHANGED <<registry, status, ever_joined, members, ctrl, step, caller, target, inst, attempt, unheard, live, tap>>
    BY <1>8 DEF vars, roomVars, reqVars
  <2> QED BY <2>1 DEF IInv, TypeOK, QueueType, StepBooks, QueueBooks, MemberBooks, EvictedOnlyByOwn, Kept
<1> QED BY <1>1, <1>2, <1>3, <1>5, <1>6, <1>7, <1>8 DEF Next

\* The inductive invariant: behind every queued leave there is a membership that is gone, and
\* every member is a join of that call.
THEOREM Invariance == Spec => []IInv
BY InitInv, NextInv, PTL DEF Spec

\* Every variable has its type; no queue of a room grows past its capacity.
THEOREM TypeCorrect == Spec => []TypeOK
<1>1. IInv => TypeOK
  BY DEF IInv
<1> QED BY <1>1, Invariance, PTL

\* A live call that joined a running room is a member of it, or had an earlier membership
\* of that room whose leave took it out.
THEOREM MembersStay == Spec => []EvictedOnlyByOwn
<1>1. IInv => EvictedOnlyByOwn
  BY DEF IInv
<1> QED BY <1>1, Invariance, PTL
=============================================================================
