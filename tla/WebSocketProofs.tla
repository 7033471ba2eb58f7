--------------------------- MODULE WebSocketProofs ---------------------------
(***************************************************************************)
(* Proofs about WebSocket.tla for every number of clients, documents,      *)
(* slots, frames and invalidations: type correctness, what membership      *)
(* means to a live session, and the refinement of RoomMembership.          *)
(***************************************************************************)
EXTENDS WebSocket, SequenceTheorems, TLAPS

-----------------------------------------------------------------------------
(* The map of rooms.                                                       *)

\* Replacing a room's Vec changes the members of that room only.
LEMMA SetRoomMembers ==
  ASSUME RoomsTypeOK, NEW room \in DocumentId, NEW entries \in [ClientId -> Nat],
         rooms' = SetRoom(room, entries)
  PROVE  /\ DOMAIN rooms' \subseteq DocumentId
         /\ rooms' \in [DOMAIN rooms' -> [ClientId -> Nat]]
         /\ Members(room)' = {c \in ClientId : entries[c] > 0}
         /\ \A r : r # room => Members(r)' = Members(r)
  BY DEF RoomsTypeOK, SetRoom, Members, Entries

\* retain() takes out the named clients, of that room only.
LEMMA WithoutClientsMembers ==
  ASSUME RoomsTypeOK, NEW room \in DOMAIN rooms, NEW gone \in SUBSET ClientId,
         rooms' = WithoutClients(room, gone)
  PROVE  /\ DOMAIN rooms' \subseteq DocumentId
         /\ rooms' \in [DOMAIN rooms' -> [ClientId -> Nat]]
         /\ Members(room)' = Members(room) \ gone
         /\ \A r : r # room => Members(r)' = Members(r)
<1>1. CASE Members(room) \subseteq gone
  BY <1>1 DEF RoomsTypeOK, WithoutClients, Members, Entries
<1>2. CASE ~ (Members(room) \subseteq gone)
  <2> DEFINE left == [c \in ClientId |-> IF c \in gone THEN 0 ELSE rooms[room][c]]
  <2>1. rooms' = SetRoom(room, left)
    BY <1>2 DEF WithoutClients
  <2>2. left \in [ClientId -> Nat] /\ room \in DocumentId
    BY DEF RoomsTypeOK
  <2>3. {c \in ClientId : left[c] > 0} = Members(room) \ gone
    BY DEF RoomsTypeOK, Members, Entries
  <2> HIDE DEF left
  <2> QED BY <2>1, <2>2, <2>3, SetRoomMembers
<1> QED BY <1>1, <1>2

-----------------------------------------------------------------------------
(* The channels.                                                           *)

\* A command that finds a free slot is the new last one.
LEMMA CommandAppended ==
  ASSUME RoomsTypeOK, NEW cmd \in RoomCommand, TrySendCommand(cmd)
  PROVE  /\ cmds' \in Seq(RoomCommand)
         /\ Len(cmds') = Len(cmds) + 1
         /\ Len(cmds') <= RoomsCapacity
         /\ \A i \in 1..Len(cmds') :
              IF i <= Len(cmds) THEN cmds'[i] = cmds[i] ELSE cmds'[i] = cmd
  BY RoomsAssumption DEF RoomsTypeOK, TrySendCommand, ChannelFull

\* The coordinator takes the first one.
LEMMA CommandTaken ==
  ASSUME RoomsTypeOK, NEW op, Receive(op)
  PROVE  /\ cmds' \in Seq(RoomCommand)
         /\ Len(cmds') <= RoomsCapacity
         /\ Head(cmds) \in RoomCommand
         /\ Head(cmds) = cmds[1]
         /\ 1 \in 1..Len(cmds)
         /\ Len(cmds) = Len(cmds') + 1
         /\ \A i \in 1..Len(cmds') : i + 1 \in 1..Len(cmds) /\ cmds'[i] = cmds[i + 1]
<1>1. cmds \in Seq(RoomCommand) /\ cmds # <<>> /\ cmds' = Tail(cmds)
  BY DEF RoomsTypeOK, Receive
<1>2. Len(cmds) \in Nat /\ Len(cmds) <= RoomsCapacity
  BY <1>1, LenProperties DEF RoomsTypeOK
<1> HIDE DEF RoomCommand
<1>3. /\ Head(cmds) \in RoomCommand
      /\ cmds' \in Seq(RoomCommand)
      /\ Len(cmds') = Len(cmds) - 1
      /\ \A i \in 1..Len(cmds') : cmds'[i] = cmds[i + 1]
  BY <1>1, HeadTailProperties
<1>4. Head(cmds) = cmds[1] /\ 1 <= Len(cmds)
  BY <1>1, <1>2, EmptySeq
<1> QED BY <1>2, <1>3, <1>4, RoomsAssumption

\* A reply leaves every other outbox alone, and adds at most itself.
LEMMA ReplyType ==
  ASSUME RoomsTypeOK, NEW c \in ClientId, NEW m \in ServerMessage, Reply(c, m)
  PROVE  /\ outbox' \in [ClientId -> Seq(ServerMessage)]
         /\ \A d \in ClientId : Len(outbox'[d]) <= ClientCapacity
         /\ \A d \in ClientId : outbox'[d] = outbox[d] \/ (d = c /\ outbox'[d] = Append(outbox[d], m))
  BY RoomsAssumption DEF RoomsTypeOK, Reply

\* A fan-out adds copies of the payload, to members only, within the capacity.
LEMMA FanoutType ==
  ASSUME RoomsTypeOK, NEW room \in DocumentId, NEW c \in ClientId,
         NEW m \in Payload
  PROVE  /\ Accepted(room, c) \in Nat
         /\ Accepted(room, c) <= Entries(room, c)
         /\ Dropped(room, c) \in Nat
         /\ Fanout(room, c, m) \in Seq(ServerMessage)
         /\ Len(Fanout(room, c, m)) <= ClientCapacity
         /\ Len(Fanout(room, c, m)) = Len(outbox[c]) + Accepted(room, c)
         /\ \A i \in 1..Len(Fanout(room, c, m)) :
              IF i <= Len(outbox[c]) THEN Fanout(room, c, m)[i] = outbox[c][i]
              ELSE Fanout(room, c, m)[i] = m /\ c \in Members(room)
<1>1. Entries(room, c) \in Nat
  BY DEF RoomsTypeOK, Entries
<1>2. /\ Accepted(room, c) \in Nat
      /\ Accepted(room, c) <= Entries(room, c)
      /\ Len(outbox[c]) + Accepted(room, c) <= ClientCapacity
  BY <1>1, RoomsAssumption DEF RoomsTypeOK, Accepted
<1>3. Dropped(room, c) \in Nat
  BY <1>1, <1>2 DEF Dropped
<1>4. /\ Copies(room, c, m) \in Seq(ServerMessage)
      /\ Len(Copies(room, c, m)) = Accepted(room, c)
      /\ \A i \in 1..Accepted(room, c) : Copies(room, c, m)[i] = m
  BY <1>2 DEF Copies, ServerMessage
<1>5. Accepted(room, c) > 0 => c \in Members(room)
  BY <1>1, <1>2 DEF Members
<1>6. outbox[c] \in Seq(ServerMessage) /\ Len(outbox[c]) \in Nat
  BY LenProperties DEF RoomsTypeOK
<1>7. /\ Fanout(room, c, m) \in Seq(ServerMessage)
      /\ Len(Fanout(room, c, m)) = Len(outbox[c]) + Len(Copies(room, c, m))
      /\ \A i \in 1..Len(outbox[c]) + Len(Copies(room, c, m)) : Fanout(room, c, m)[i] =
           IF i <= Len(outbox[c]) THEN outbox[c][i]
                                  ELSE Copies(room, c, m)[i - Len(outbox[c])]
  BY <1>4, <1>6, ConcatProperties, Zenon DEF Fanout
<1>8. ASSUME NEW i \in 1..Len(Fanout(room, c, m))
      PROVE  IF i <= Len(outbox[c]) THEN Fanout(room, c, m)[i] = outbox[c][i]
             ELSE Fanout(room, c, m)[i] = m /\ c \in Members(room)
  <2>1. i \in 1..Len(outbox[c]) + Accepted(room, c)
    BY <1>4, <1>7
  <2>2. CASE i <= Len(outbox[c])
    BY <2>1, <2>2, <1>4, <1>7
  <2>3. CASE ~ (i <= Len(outbox[c]))
    <3>1. i - Len(outbox[c]) \in 1..Accepted(room, c)
      BY <2>1, <2>3, <1>2, <1>6
    <3>2. Fanout(room, c, m)[i] = Copies(room, c, m)[i - Len(outbox[c])]
      BY <2>1, <2>3, <1>4, <1>7, Zenon
    <3>3. Copies(room, c, m)[i - Len(outbox[c])] = m
      BY <3>1, <1>4, Zenon
    <3>4. Accepted(room, c) > 0
      BY <3>1, <1>2
    <3> QED BY <2>3, <3>2, <3>3, <3>4, <1>5, Zenon
  <2> QED BY <2>2, <2>3
<1> QED BY <1>2, <1>3, <1>4, <1>7, <1>8

-----------------------------------------------------------------------------
(* Type correctness.                                                       *)

\* What the sessions and the sink send is of the declared types.
LEMMA MessagesTyped ==
  ASSUME NEW room \in DocumentId, NEW c \in ClientId, NEW n \in Nat
  PROVE  /\ Error \in ServerMessage
         /\ Joined(room) \in ServerMessage
         /\ Message(room, c, n) \in Payload
         /\ Invalidation(room, n) \in Payload
         /\ Join(room, c, n) \in RoomCommand
         /\ Leave(room, c) \in RoomCommand
         /\ \A m \in Payload : Broadcast(room, m) \in RoomCommand
  BY DEF Error, Joined, Message, Invalidation, Join, Leave, Broadcast,
         ServerMessage, Payload, MessageType, InvalidationType, RoomCommand,
         JoinCommand, LeaveCommand, BroadcastCommand

\* The fields of a command follow from its op.
LEMMA CommandFields ==
  ASSUME NEW cmd \in RoomCommand
  PROVE  /\ cmd.room \in DocumentId
         /\ cmd.op = "join" => cmd.client \in ClientId /\ cmd.req \in Nat
         /\ cmd.op = "leave" => cmd.client \in ClientId
         /\ cmd.op = "broadcast" => cmd.message \in Payload
         /\ cmd.op \in {"join", "leave", "broadcast"}
  BY DEF RoomCommand, JoinCommand, LeaveCommand, BroadcastCommand

\* What each handler does to the memberships.
LEMMA JoinAdds ==
  ASSUME RoomsTypeOK, HandleJoin, NEW cmd, cmd = Head(cmds)
  PROVE  /\ cmd \in RoomCommand /\ cmd = cmds[1] /\ cmd.op = "join"
         /\ cmd.room \in DocumentId /\ cmd.client \in ClientId /\ cmd.req \in Nat
         /\ DOMAIN rooms' \subseteq DocumentId
         /\ rooms' \in [DOMAIN rooms' -> [ClientId -> Nat]]
         /\ \A room : Members(room)' = IF room = cmd.room
                                      THEN Members(room) \cup {cmd.client}
                                      ELSE Members(room)
<1> DEFINE entries == [c \in ClientId |->
             Entries(cmd.room, c) + (IF c = cmd.client THEN 1 ELSE 0)]
<1>1. cmd \in RoomCommand /\ cmd = cmds[1] /\ cmd.op = "join"
  BY CommandTaken DEF HandleJoin, Receive
<1>2. cmd.room \in DocumentId /\ cmd.client \in ClientId /\ cmd.req \in Nat
  BY <1>1, CommandFields
<1>3. rooms' = SetRoom(cmd.room, entries)
  BY DEF HandleJoin
<1>0. \A c \in ClientId : Entries(cmd.room, c) \in Nat
  BY DEF Entries, RoomsTypeOK
<1>4. /\ entries \in [ClientId -> Nat]
      /\ \A c \in ClientId : entries[c] > 0 <=> Entries(cmd.room, c) > 0 \/ c = cmd.client
  BY <1>0
<1> HIDE DEF entries
<1>6. {c \in ClientId : entries[c] > 0} = Members(cmd.room) \cup {cmd.client}
  BY <1>2, <1>4 DEF Members
<1>5. /\ DOMAIN rooms' \subseteq DocumentId
      /\ rooms' \in [DOMAIN rooms' -> [ClientId -> Nat]]
      /\ Members(cmd.room)' = Members(cmd.room) \cup {cmd.client}
      /\ \A r : r # cmd.room => Members(r)' = Members(r)
  BY <1>2, <1>3, <1>4, <1>6, SetRoomMembers
<1> QED BY <1>1, <1>2, <1>5

\* What HandleLeave does to the memberships: the client is out of that room,
\* everything else is as before.
LEMMA LeaveRemoves ==
  ASSUME RoomsTypeOK, HandleLeave, NEW cmd, cmd = Head(cmds)
  PROVE  /\ cmd \in RoomCommand /\ cmd = cmds[1] /\ cmd.op = "leave"
         /\ cmd.room \in DocumentId /\ cmd.client \in ClientId
         /\ DOMAIN rooms' \subseteq DocumentId
         /\ rooms' \in [DOMAIN rooms' -> [ClientId -> Nat]]
         /\ \A room : Members(room)' = IF room = cmd.room
                                      THEN Members(room) \ {cmd.client}
                                      ELSE Members(room)
<1>1. cmd \in RoomCommand /\ cmd = cmds[1] /\ cmd.op = "leave"
  BY CommandTaken DEF HandleLeave, Receive
<1>2. cmd.room \in DocumentId /\ cmd.client \in ClientId
  BY <1>1, CommandFields
<1>3. CASE cmd.room \in DOMAIN rooms
  <2>1. rooms' = WithoutClients(cmd.room, {cmd.client})
    BY <1>3 DEF HandleLeave
  <2>2. /\ DOMAIN rooms' \subseteq DocumentId
        /\ rooms' \in [DOMAIN rooms' -> [ClientId -> Nat]]
        /\ Members(cmd.room)' = Members(cmd.room) \ {cmd.client}
        /\ \A r : r # cmd.room => Members(r)' = Members(r)
    BY <1>2, <1>3, <2>1, WithoutClientsMembers, SMTT(30)
  <2> QED BY <1>1, <1>2, <2>2
<1>4. CASE cmd.room \notin DOMAIN rooms
  <2>1. rooms' = rooms
    BY <1>4 DEF HandleLeave
  <2>2. Members(cmd.room) = {}
    BY <1>4 DEF Members, Entries
  <2> QED BY <1>1, <1>2, <2>1, <2>2 DEF Members, Entries, RoomsTypeOK
<1> QED BY <1>3, <1>4

\* What HandleBroadcast does to them: only clients without a receiver go.
LEMMA BroadcastRemoves ==
  ASSUME RoomsTypeOK, HandleBroadcast, NEW cmd, cmd = Head(cmds)
  PROVE  /\ cmd \in RoomCommand /\ cmd = cmds[1] /\ cmd.op = "broadcast"
         /\ cmd.room \in DocumentId /\ cmd.message \in Payload
         /\ DOMAIN rooms' \subseteq DocumentId
         /\ rooms' \in [DOMAIN rooms' -> [ClientId -> Nat]]
         /\ \A room : Members(room)' = IF room = cmd.room
                                      THEN Members(room) \ Failed(room)
                                      ELSE Members(room)
<1>1. cmd \in RoomCommand /\ cmd = cmds[1] /\ cmd.op = "broadcast"
  BY CommandTaken DEF HandleBroadcast, Receive
<1>2. cmd.room \in DocumentId /\ cmd.message \in Payload
  BY <1>1, CommandFields
<1>3. CASE Failed(cmd.room) # {}
  <2>1. rooms' = WithoutClients(cmd.room, Failed(cmd.room))
    BY <1>3 DEF HandleBroadcast
  <2>2. cmd.room \in DOMAIN rooms /\ Failed(cmd.room) \in SUBSET ClientId
    BY <1>3 DEF Failed, Members, Entries
  <2>3. /\ DOMAIN rooms' \subseteq DocumentId
        /\ rooms' \in [DOMAIN rooms' -> [ClientId -> Nat]]
        /\ Members(cmd.room)' = Members(cmd.room) \ Failed(cmd.room)
        /\ \A r : r # cmd.room => Members(r)' = Members(r)
    BY <2>1, <2>2, WithoutClientsMembers
  <2> QED BY <1>1, <1>2, <2>3
<1>4. CASE Failed(cmd.room) = {}
  <2>1. rooms' = rooms
    BY <1>4 DEF HandleBroadcast
  <2> QED BY <1>1, <1>2, <1>4, <2>1 DEF Members, Entries, RoomsTypeOK
<1> QED BY <1>3, <1>4

\* Every command the coordinator handles leaves its state well typed.
LEMMA CoordinatorTypeOK ==
  ASSUME RoomsTypeOK, Coordinator
  PROVE  RoomsTypeOK'
<1>0. cmds' \in Seq(RoomCommand) /\ Len(cmds') <= RoomsCapacity
  BY CommandTaken DEF Coordinator, HandleJoin, HandleLeave, HandleBroadcast
<1>1. CASE HandleJoin
  BY <1>0, <1>1, JoinAdds DEF HandleJoin, RoomsTypeOK
<1>2. CASE HandleLeave
  BY <1>0, <1>2, LeaveRemoves DEF HandleLeave, RoomsTypeOK
<1>3. CASE HandleBroadcast
  <2> DEFINE room == Head(cmds).room
             message == Head(cmds).message
  <2>1. room \in DocumentId /\ message \in Payload
    BY <1>3, BroadcastRemoves
  <2>2. \A c \in ClientId : /\ Fanout(room, c, message) \in Seq(ServerMessage)
                            /\ Len(Fanout(room, c, message)) <= ClientCapacity
                            /\ Dropped(room, c) \in Nat
    BY <2>1, FanoutType
  <2>3. DOMAIN rooms' \subseteq DocumentId /\ rooms' \in [DOMAIN rooms' -> [ClientId -> Nat]]
    BY <1>3, BroadcastRemoves
  <2> QED BY <1>0, <1>3, <2>2, <2>3 DEF HandleBroadcast, RoomsTypeOK
<1> QED BY <1>1, <1>2, <1>3 DEF Coordinator

\* The types hold when the server starts.
LEMMA TypeInit == Init => TypeOK
BY RoomsAssumption
   DEF Init, RoomsInit, TypeOK, RoomsTypeOK

\* The parts the handlers of frames are made of.
LEMMA HandlerParts ==
  ASSUME TypeOK, NEW c \in ClientId
  PROVE  /\ TakeFrame(c) => /\ frames' \in [ClientId -> Nat]
                            /\ frames[c] + 1 \in Nat
         /\ \A m \in ServerMessage : Reply(c, m) =>
              /\ outbox' \in [ClientId -> Seq(ServerMessage)]
              /\ \A d \in ClientId : Len(outbox'[d]) <= ClientCapacity
         /\ CommandDropped(c) => cmdDrops' \in [ClientId -> Nat] /\ Reply(c, Error)
         /\ \A cmd \in RoomCommand : TrySendCommand(cmd) =>
              cmds' \in Seq(RoomCommand) /\ Len(cmds') <= RoomsCapacity
         /\ \A room \in DocumentId, m \in Payload : Enqueue(room, m) =>
              /\ cmds' \in Seq(RoomCommand) /\ Len(cmds') <= RoomsCapacity
              /\ expected' \in [ClientId -> SUBSET Payload]
<1>1. TakeFrame(c) => frames' \in [ClientId -> Nat] /\ frames[c] + 1 \in Nat
  BY DEF TakeFrame, TypeOK
<1>2. \A m \in ServerMessage : Reply(c, m) =>
        /\ outbox' \in [ClientId -> Seq(ServerMessage)]
        /\ \A d \in ClientId : Len(outbox'[d]) <= ClientCapacity
  BY ReplyType DEF TypeOK
<1>3. CommandDropped(c) => cmdDrops' \in [ClientId -> Nat] /\ Reply(c, Error)
  BY DEF CommandDropped, TypeOK
<1>4. \A cmd \in RoomCommand : TrySendCommand(cmd) =>
        cmds' \in Seq(RoomCommand) /\ Len(cmds') <= RoomsCapacity
  BY CommandAppended DEF TypeOK
<1>5. ASSUME NEW room \in DocumentId, NEW m \in Payload, Enqueue(room, m)
      PROVE  /\ cmds' \in Seq(RoomCommand) /\ Len(cmds') <= RoomsCapacity
             /\ expected' \in [ClientId -> SUBSET Payload]
  <2>1. Broadcast(room, m) \in RoomCommand /\ TrySendCommand(Broadcast(room, m))
    BY <1>5, MessagesTyped DEF Enqueue
  <2> QED BY <1>4, <1>5, <2>1 DEF Enqueue, TypeOK
<1> QED BY <1>1, <1>2, <1>3, <1>4, <1>5

\* recv_task keeps every type: its frames become commands and replies.
LEMMA RecvTypeOK ==
  ASSUME TypeOK, NEW c \in ClientId,
         \/ \E room \in DocumentId : RecvJoin(c, room) \/ RecvSendMessageTo(c, room)
         \/ RecvSendMessage(c) \/ RecvInvalid(c) \/ AckJoin(c)
         \/ TimeoutJoin(c) \/ RecvEnd(c) \/ RecvAborted(c)
  PROVE  TypeOK'
<1>0. Error \in ServerMessage
  BY DEF Error, ServerMessage
<1>1. ASSUME NEW room \in DocumentId, RecvJoin(c, room) PROVE TypeOK'
  <2>1. Join(room, c, frames[c] + 1) \in RoomCommand
    BY <1>1, HandlerParts, MessagesTyped DEF RecvJoin
  <2>2. recvTask[c] = "next" /\ TakeFrame(c)
    BY <1>1 DEF RecvJoin, TakeFrame
  <2>3. CASE TrySendCommand(Join(room, c, frames[c] + 1)) /\ UNCHANGED <<outbox, cmdDrops>>
             /\ recvTask' = [recvTask EXCEPT ![c] = "awaitAck"]
             /\ joining' = [joining EXCEPT ![c] = room]
    BY <1>1, <2>1, <2>2, <2>3, HandlerParts, RoomsAssumption
       DEF RecvJoin, TypeOK, RoomsTypeOK, sinkVars, history
  <2>4. CASE CommandDropped(c) /\ UNCHANGED <<cmds, recvTask, joining>>
    BY <1>0, <1>1, <2>2, <2>4, HandlerParts
       DEF RecvJoin, TypeOK, RoomsTypeOK, sinkVars, history
  <2> QED BY <1>1, <2>3, <2>4 DEF RecvJoin
<1> DEFINE Publish(r) == TakeFrame(c) /\ PublishFrame(c, r)
<1>2. ASSUME NEW r \in DocumentId, Publish(r)
      PROVE  /\ frames' \in [ClientId -> Nat]
             /\ cmds' \in Seq(RoomCommand) /\ Len(cmds') <= RoomsCapacity
             /\ outbox' \in [ClientId -> Seq(ServerMessage)]
             /\ \A d \in ClientId : Len(outbox'[d]) <= ClientCapacity
             /\ cmdDrops' \in [ClientId -> Nat]
             /\ expected' \in [ClientId -> SUBSET Payload]
  <2>1. Message(r, c, frames[c] + 1) \in Payload
    BY <1>2, HandlerParts, MessagesTyped
  <2>2. CASE Enqueue(r, Message(r, c, frames[c] + 1)) /\ UNCHANGED <<outbox, cmdDrops>>
    BY <1>2, <2>1, <2>2, HandlerParts DEF TypeOK, RoomsTypeOK
  <2>3. CASE CommandDropped(c) /\ UNCHANGED <<cmds, expected>>
    BY <1>0, <1>2, <2>3, HandlerParts DEF TypeOK, RoomsTypeOK
  <2> QED BY <1>2, <2>2, <2>3 DEF PublishFrame
<1>3. ASSUME NEW room \in DocumentId, RecvSendMessageTo(c, room) PROVE TypeOK'
  <2>1. Publish(room)
    BY <1>3 DEF RecvSendMessageTo
  <2> HIDE DEF Publish
  <2> QED BY <1>2, <1>3, <2>1 DEF RecvSendMessageTo, TypeOK, RoomsTypeOK, sinkVars
<1>4. CASE RecvSendMessage(c)
  <2>1. CASE currentRoom[c] # NoRoom /\ PublishFrame(c, currentRoom[c])
    <3>1. currentRoom[c] \in DocumentId /\ Publish(currentRoom[c])
      BY <1>4, <2>1 DEF RecvSendMessage, TypeOK
    <3> HIDE DEF Publish
    <3> QED BY <1>2, <1>4, <3>1 DEF RecvSendMessage, TypeOK, RoomsTypeOK, sinkVars
  <2>2. CASE Reply(c, Error) /\ UNCHANGED <<cmds, cmdDrops, expected>>
    BY <1>0, <1>4, <2>2, HandlerParts DEF RecvSendMessage, TypeOK, RoomsTypeOK, sinkVars
  <2> QED BY <1>4, <2>1, <2>2 DEF RecvSendMessage
<1>5. CASE RecvInvalid(c)
  BY <1>0, <1>5, HandlerParts DEF RecvInvalid, TypeOK, RoomsTypeOK, sinkVars, history
<1>6. CASE AckJoin(c)
  <2>1. joining[c] \in DocumentId
    BY <1>6 DEF AckJoin, TypeOK
  <2>2. Joined(joining[c]) \in ServerMessage
    BY <2>1, MessagesTyped
  <2> QED BY <1>6, <2>1, <2>2, HandlerParts
          DEF AckJoin, EndJoin, TypeOK, RoomsTypeOK, sinkVars, history
<1>7. CASE TimeoutJoin(c)
  BY <1>0, <1>7, HandlerParts
     DEF TimeoutJoin, EndJoin, TypeOK, RoomsTypeOK, sinkVars, history
<1>8. CASE RecvEnd(c)
  BY <1>8 DEF RecvEnd, TypeOK, RoomsTypeOK, roomsVars, sinkVars, history
<1>9. CASE RecvAborted(c)
  BY <1>9 DEF RecvAborted, TypeOK, RoomsTypeOK, roomsVars, sinkVars, history
<1> QED BY <1>1, <1>3, <1>4, <1>5, <1>6, <1>7, <1>8, <1>9

\* send_task, the task of handle_socket and the peer do too.
LEMMA SessionTypeOK ==
  ASSUME TypeOK, NEW c \in ClientId,
         \/ SendDeliver(c) \/ SendFail(c) \/ SendAborted(c)
         \/ MainSelect(c) \/ MainLeave(c) \/ PeerClose(c)
  PROVE  TypeOK'
<1>1. CASE SendDeliver(c)
  <2>1. outbox[c] \in Seq(ServerMessage) /\ outbox[c] # <<>>
    BY <1>1 DEF SendDeliver, TypeOK, RoomsTypeOK
  <2>2. /\ Head(outbox[c]) \in ServerMessage
        /\ Tail(outbox[c]) \in Seq(ServerMessage)
        /\ Len(Tail(outbox[c])) = Len(outbox[c]) - 1
        /\ Len(outbox[c]) \in Nat
    BY <2>1, HeadTailProperties, LenProperties
  <2>3. wire' \in [ClientId -> Seq(ServerMessage)]
    BY <1>1, <2>2 DEF SendDeliver, TypeOK
  <2>4. /\ outbox' \in [ClientId -> Seq(ServerMessage)]
        /\ \A d \in ClientId : Len(outbox'[d]) <= ClientCapacity
    <3>1. outbox' = [outbox EXCEPT ![c] = Tail(@)]
      BY <1>1 DEF SendDeliver
    <3>2. Len(Tail(outbox[c])) <= ClientCapacity
      BY <2>2, RoomsAssumption DEF TypeOK, RoomsTypeOK
    <3> QED BY <2>2, <3>1, <3>2 DEF TypeOK, RoomsTypeOK
  <2>5. RoomsTypeOK'
    BY <1>1, <2>4 DEF SendDeliver, TypeOK, RoomsTypeOK
  <2> QED BY <1>1, <2>3, <2>5, SMTT(20) DEF SendDeliver, TypeOK, sessionVars, sinkVars
<1>2. CASE SendFail(c) \/ SendAborted(c)
  <2>0. <<>> \in Seq(ServerMessage) /\ Len(<<>>) = 0
    BY EmptySeq
  <2>1. /\ outbox' \in [ClientId -> Seq(ServerMessage)]
        /\ \A d \in ClientId : Len(outbox'[d]) <= ClientCapacity
    <3>1. outbox' = [outbox EXCEPT ![c] = <<>>]
      BY <1>2 DEF SendFail, SendAborted, EndSendTask
    <3> QED BY <2>0, <3>1, RoomsAssumption DEF TypeOK, RoomsTypeOK
  <2>2. /\ sendTask' \in [ClientId -> {"running", "done", "aborted"}]
        /\ rxOpen' \in [ClientId -> BOOLEAN]
    BY <1>2 DEF SendFail, SendAborted, EndSendTask, TypeOK, RoomsTypeOK
  <2>3. UNCHANGED <<cmds, rooms, acks, fanoutDrops, socket, recvTask, mainTask, joining,
                    currentRoom, frames, cmdDrops, invalidations, wire, expected>>
    BY <1>2 DEF SendFail, SendAborted, EndSendTask, sinkVars, history
  <2>4. RoomsTypeOK'
    BY <2>1, <2>2, <2>3 DEF TypeOK, RoomsTypeOK
  <2> HIDE <1>2
  <2>5. /\ socket' \in [ClientId -> {"open", "closed"}]
        /\ recvTask' \in [ClientId -> {"next", "awaitAck", "done", "aborted"}]
        /\ mainTask' \in [ClientId -> {"select", "leaving", "done"}]
        /\ joining' \in [ClientId -> DocumentId \cup {NoRoom}]
        /\ \A d \in ClientId : joining'[d] # NoRoom <=> recvTask'[d] = "awaitAck"
    BY <2>3 DEF TypeOK
  <2>6. /\ currentRoom' \in [ClientId -> DocumentId \cup {NoRoom}]
        /\ frames' \in [ClientId -> Nat]
        /\ cmdDrops' \in [ClientId -> Nat]
        /\ invalidations' \in Nat
        /\ wire' \in [ClientId -> Seq(ServerMessage)]
        /\ expected' \in [ClientId -> SUBSET Payload]
    BY <2>3 DEF TypeOK
  <2> HIDE <1>2
  <2> QED BY <2>2, <2>4, <2>5, <2>6, Zenon DEF TypeOK
<1>3. CASE MainSelect(c)
  <2>1. RoomsTypeOK'
    BY <1>3 DEF MainSelect, TypeOK, RoomsTypeOK, roomsVars
  <2>2. mainTask' \in [ClientId -> {"select", "leaving", "done"}]
    BY <1>3 DEF MainSelect, TypeOK
  <2>3. \/ recvTask' = recvTask /\ joining' = joining
        \/ /\ recvTask' = [recvTask EXCEPT ![c] = "aborted"]
           /\ joining' = [joining EXCEPT ![c] = NoRoom]
    BY <1>3, Zenon DEF MainSelect
  <2>4. /\ recvTask' \in [ClientId -> {"next", "awaitAck", "done", "aborted"}]
        /\ joining' \in [ClientId -> DocumentId \cup {NoRoom}]
        /\ \A d \in ClientId : joining'[d] # NoRoom <=> recvTask'[d] = "awaitAck"
    <3> HIDE <1>3
    <3>1. /\ recvTask \in [ClientId -> {"next", "awaitAck", "done", "aborted"}]
          /\ joining \in [ClientId -> DocumentId \cup {NoRoom}]
          /\ \A d \in ClientId : joining[d] # NoRoom <=> recvTask[d] = "awaitAck"
      BY DEF TypeOK
    <3>2. CASE recvTask' = recvTask /\ joining' = joining
      BY <3>1, <3>2
    <3>3. CASE /\ recvTask' = [recvTask EXCEPT ![c] = "aborted"]
               /\ joining' = [joining EXCEPT ![c] = NoRoom]
      <4>1. /\ recvTask' \in [ClientId -> {"next", "awaitAck", "done", "aborted"}]
            /\ joining' \in [ClientId -> DocumentId \cup {NoRoom}]
        BY <3>1, <3>3
      <4>2. ASSUME NEW d \in ClientId
            PROVE  joining'[d] # NoRoom <=> recvTask'[d] = "awaitAck"
        BY <3>1, <3>3
      <4> QED BY <4>1, <4>2
    <3> QED BY <2>3, <3>2, <3>3
  <2>5. UNCHANGED <<socket, sendTask, currentRoom, frames, cmdDrops, sinkVars, history>>
    BY <1>3 DEF MainSelect
  <2> QED BY <2>1, <2>2, <2>4, <2>5, SMTT(20) DEF TypeOK, sinkVars, history
<1>4. CASE MainLeave(c)
  <2>1. currentRoom[c] # NoRoom => Leave(currentRoom[c], c) \in RoomCommand
    BY MessagesTyped, EmptySeq DEF TypeOK
  <2>2. cmds' \in Seq(RoomCommand) /\ Len(cmds') <= RoomsCapacity
    BY <1>4, <2>1, HandlerParts DEF MainLeave, TypeOK, RoomsTypeOK
  <2>3. cmdDrops' \in [ClientId -> Nat] /\ mainTask' = [mainTask EXCEPT ![c] = "done"]
    BY <1>4 DEF MainLeave, TypeOK
  <2>4. UNCHANGED <<rooms, outbox, rxOpen, acks, fanoutDrops, socket, recvTask,
                    sendTask, joining, currentRoom, frames, sinkVars, history>>
    BY <1>4 DEF MainLeave
  <2> QED BY <2>2, <2>3, <2>4 DEF TypeOK, RoomsTypeOK, sinkVars, history
<1>5. CASE PeerClose(c)
  BY <1>5 DEF PeerClose, TypeOK, RoomsTypeOK, roomsVars, sinkVars, history
<1> QED BY <1>1, <1>2, <1>3, <1>4, <1>5

\* The WAL reader's calls do too.
LEMMA SinkTypeOK ==
  ASSUME TypeOK, NEW room \in DocumentId, SendInvalidation(room)
  PROVE  TypeOK'
<1>1. Invalidation(room, invalidations + 1) \in Payload
  BY DEF TypeOK, Invalidation, Payload, InvalidationType
<1>2. \A m \in Payload : Broadcast(room, m) \in RoomCommand
  BY DEF Broadcast, RoomCommand, BroadcastCommand
<1>3. /\ cmds' \in Seq(RoomCommand) /\ Len(cmds') <= RoomsCapacity
      /\ expected' \in [ClientId -> SUBSET Payload]
  <2> DEFINE m == Invalidation(room, invalidations + 1)
  <2>1. CASE Enqueue(room, m)
    <3>1. TrySendCommand(Broadcast(room, m)) /\ m \in Payload
      BY <1>1, <2>1 DEF Enqueue
    <3> HIDE DEF m
    <3>2. cmds' \in Seq(RoomCommand) /\ Len(cmds') <= RoomsCapacity
      BY <1>2, <3>1, CommandAppended DEF TypeOK
    <3> QED BY <2>1, <3>1, <3>2 DEF Enqueue, TypeOK
  <2>2. CASE UNCHANGED <<cmds, expected>>
    BY <2>2 DEF TypeOK, RoomsTypeOK
  <2> QED BY <2>1, <2>2 DEF SendInvalidation
<1>4. invalidations' \in Nat
  BY DEF SendInvalidation, TypeOK
<1>5. UNCHANGED <<rooms, outbox, rxOpen, acks, fanoutDrops, sessionVars, wire>>
  BY DEF SendInvalidation
<1> QED BY <1>3, <1>4, <1>5 DEF TypeOK, RoomsTypeOK, sessionVars

\* Every step of any task keeps the types.
LEMMA TypeNext == TypeOK /\ [Next]_vars => TypeOK'
<1> SUFFICES ASSUME TypeOK, [Next]_vars PROVE TypeOK'
  OBVIOUS
<1>1. CASE CoordinatorStep
  <2>1. RoomsTypeOK'
    BY <1>1, CoordinatorTypeOK DEF CoordinatorStep, TypeOK
  <2> QED BY <1>1, <2>1 DEF CoordinatorStep, TypeOK, sessionVars, sinkVars, history
<1>2. ASSUME NEW c \in ClientId, NEW room \in DocumentId,
             RecvJoin(c, room) \/ RecvSendMessageTo(c, room)
      PROVE  TypeOK'
  BY <1>2, RecvTypeOK
<1>3. ASSUME NEW c \in ClientId,
             \/ AckJoin(c) \/ TimeoutJoin(c) \/ RecvSendMessage(c) \/ RecvInvalid(c)
             \/ RecvEnd(c) \/ RecvAborted(c)
             \/ SendDeliver(c) \/ SendFail(c) \/ SendAborted(c)
             \/ MainSelect(c) \/ MainLeave(c) \/ PeerClose(c)
      PROVE  TypeOK'
  BY <1>3, RecvTypeOK, SessionTypeOK
<1>4. ASSUME NEW room \in DocumentId, SendInvalidation(room) PROVE TypeOK'
  BY <1>4, SinkTypeOK
<1>5. CASE UNCHANGED vars
  BY <1>5 DEF vars, TypeOK, RoomsTypeOK, roomsVars, sessionVars, sinkVars, history
<1> QED BY <1>1, <1>2, <1>3, <1>4, <1>5 DEF Next, SessionsNext

\* Every variable keeps its type, and no channel ever exceeds its capacity.
THEOREM TypeCorrect == Spec => []TypeOK
BY TypeInit, TypeNext, PTL DEF Spec

-----------------------------------------------------------------------------
(* MembershipInv is an invariant, and with it the specification implements  *)
(* RoomMembership.                                                         *)

\* the elements of a sequence
Elems(s) == {s[i] : i \in 1..Len(s)}

\* A message is in a concatenation when it is in one of the two sequences.
LEMMA InConcat ==
  ASSUME NEW S, NEW s \in Seq(S), NEW t \in Seq(S)
  PROVE  Elems(s \o t) = Elems(s) \cup Elems(t)
<1>1. /\ Len(s) \in Nat /\ Len(t) \in Nat
      /\ Len(s \o t) = Len(s) + Len(t)
      /\ \A i \in 1..Len(s) + Len(t) : (s \o t)[i] =
           IF i <= Len(s) THEN s[i] ELSE t[i - Len(s)]
  BY ConcatProperties, LenProperties
<1>2. ASSUME NEW i \in 1..Len(s \o t)
      PROVE  (s \o t)[i] \in {s[j] : j \in 1..Len(s)} \cup {t[j] : j \in 1..Len(t)}
  <2>1. CASE i <= Len(s)
    BY <1>1, <2>1
  <2>2. CASE ~ (i <= Len(s))
    <3>1. i - Len(s) \in 1..Len(t) /\ (s \o t)[i] = t[i - Len(s)]
      BY <1>1, <2>2
    <3> QED BY <3>1
  <2> QED BY <2>1, <2>2
<1>3. ASSUME NEW i \in 1..Len(s)
      PROVE  i \in 1..Len(s \o t) /\ (s \o t)[i] = s[i]
  BY <1>1
<1>4. ASSUME NEW i \in 1..Len(t)
      PROVE  i + Len(s) \in 1..Len(s \o t) /\ (s \o t)[i + Len(s)] = t[i]
  BY <1>1
<1> DEFINE Whole == {(s \o t)[i] : i \in 1..Len(s \o t)}
           Parts == {s[i] : i \in 1..Len(s)} \cup {t[i] : i \in 1..Len(t)}
<1>5. ASSUME NEW m \in Whole PROVE m \in Parts
  <2>1. PICK i \in 1..Len(s \o t) : m = (s \o t)[i]
    BY Zenon
  <2> QED BY <1>2, <2>1, Zenon
<1>6. ASSUME NEW m \in Parts PROVE m \in Whole
  <2>1. CASE \E i \in 1..Len(s) : m = s[i]
    <3>1. PICK i \in 1..Len(s) : m = s[i]
      BY <2>1, Zenon
    <3> QED BY <1>3, <3>1, Zenon
  <2>2. CASE \E i \in 1..Len(t) : m = t[i]
    <3>1. PICK i \in 1..Len(t) : m = t[i]
      BY <2>2, Zenon
    <3>2. i + Len(s) \in 1..Len(s \o t) /\ (s \o t)[i + Len(s)] = m
      BY <1>4, <3>1, Zenon
    <3> QED BY <3>2, Zenon
  <2> QED BY <2>1, <2>2, Zenon
<1>7. Whole = Parts
  <2> HIDE DEF Whole, Parts
  <2> QED BY <1>5, <1>6, Zenon
<1> QED BY <1>7, Zenon DEF Elems

-----------------------------------------------------------------------------
(* No step takes a room away from a session that is being served.          *)

\* A session that is being served after a step was served before it.
LEMMA LiveStays ==
  ASSUME TypeOK, [Next]_vars, NEW c \in ClientId, Live(c)'
  PROVE  Live(c)
<1> USE DEF Live, TypeOK, RoomsTypeOK
<1>1. CASE CoordinatorStep
  BY <1>1 DEF CoordinatorStep, Coordinator, HandleJoin, HandleLeave, HandleBroadcast,
              sessionVars
<1>2. ASSUME NEW d \in ClientId, NEW room \in DocumentId,
             RecvJoin(d, room) \/ RecvSendMessageTo(d, room)
      PROVE  Live(c)
  BY <1>2 DEF RecvJoin, RecvSendMessageTo
<1>3. ASSUME NEW d \in ClientId,
             \/ AckJoin(d) \/ TimeoutJoin(d) \/ RecvSendMessage(d) \/ RecvInvalid(d)
             \/ RecvEnd(d) \/ RecvAborted(d)
      PROVE  Live(c)
  <2>1. mainTask' = mainTask /\ rxOpen' = rxOpen
    BY <1>3 DEF AckJoin, TimeoutJoin, EndJoin, RecvSendMessage, RecvInvalid, RecvEnd,
                RecvAborted, roomsVars
  <2> QED BY <2>1
<1>4. ASSUME NEW d \in ClientId,
             \/ SendDeliver(d) \/ SendFail(d) \/ SendAborted(d)
             \/ MainSelect(d) \/ MainLeave(d) \/ PeerClose(d)
      PROVE  Live(c)
  <2>1. \/ rxOpen' = rxOpen
        \/ rxOpen' = [rxOpen EXCEPT ![d] = FALSE]
    BY <1>4 DEF SendDeliver, SendFail, SendAborted, EndSendTask, MainSelect, MainLeave,
                PeerClose, roomsVars
  <2>2. \/ mainTask' = mainTask
        \/ mainTask' = [mainTask EXCEPT ![d] = "leaving"] /\ mainTask[d] = "select"
        \/ mainTask' = [mainTask EXCEPT ![d] = "done"] /\ mainTask[d] = "leaving"
    BY <1>4 DEF SendDeliver, SendFail, SendAborted, EndSendTask, MainSelect, MainLeave,
                PeerClose, sessionVars
  <2>3. rxOpen'[c] => rxOpen[c]
    BY <2>1
  <2>4. mainTask'[c] = "select" => mainTask[c] = "select"
    BY <2>2
  <2> QED BY <2>3, <2>4
<1>5. ASSUME NEW room \in DocumentId, SendInvalidation(room)
      PROVE  Live(c)
  BY <1>5 DEF SendInvalidation, sessionVars
<1>6. CASE UNCHANGED vars
  BY <1>6 DEF vars, roomsVars, sessionVars
<1> QED BY <1>1, <1>2, <1>3, <1>4, <1>5, <1>6 DEF Next, SessionsNext

\* Only the coordinator touches the map.
LEMMA OnlyCoordinatorOwnsRooms ==
  ASSUME [Next]_vars
  PROVE  CoordinatorStep \/ rooms' = rooms
BY DEF Next, SessionsNext, RecvJoin, RecvSendMessageTo, AckJoin, TimeoutJoin, EndJoin,
       RecvSendMessage, RecvInvalid, RecvEnd, RecvAborted, SendDeliver, SendFail,
       SendAborted, EndSendTask, MainSelect, MainLeave, PeerClose, SendInvalidation,
       roomsVars, vars

\* No step takes a client whose session is being served out of a room.
LEMMA MembersStay ==
  ASSUME TypeOK, LeaveOrigin, [Next]_vars, NEW c \in ClientId, Live(c),
         NEW room, c \in Members(room)
  PROVE  c \in Members(room)'
<1>1. CASE rooms' = rooms
  BY <1>1 DEF Members, Entries
<1>2. CASE CoordinatorStep
  <2>1. PICK cmd : cmd = Head(cmds)
    OBVIOUS
  <2> RoomsTypeOK
    BY DEF TypeOK
  <2>2. CASE HandleJoin
    BY <2>1, <2>2, JoinAdds
  <2>3. CASE HandleLeave
    <3>1. /\ cmd = cmds[1] /\ cmd.op = "leave"
          /\ Members(room)' = IF room = cmd.room THEN Members(room) \ {cmd.client}
                              ELSE Members(room)
      BY <2>1, <2>3, LeaveRemoves
    <3>2. 1 \in 1..Len(cmds)
      BY <2>3, CommandTaken DEF HandleLeave
    <3>3. cmd.client # c
      BY <3>1, <3>2 DEF LeaveOrigin, Live
    <3> QED BY <3>1, <3>3
  <2>4. CASE HandleBroadcast
    <3>1. Members(room)' = IF room = cmd.room THEN Members(room) \ Failed(room)
                           ELSE Members(room)
      BY <2>1, <2>4, BroadcastRemoves
    <3>2. c \notin Failed(room)
      BY DEF Failed, Live
    <3> QED BY <3>1, <3>2
  <2> QED BY <1>2, <2>2, <2>3, <2>4 DEF CoordinatorStep, Coordinator
<1> QED BY <1>1, <1>2, OnlyCoordinatorOwnsRooms

-----------------------------------------------------------------------------
(* What one step changes.                                                  *)

\* A session's frames are numbered upwards, and it awaits an ack only for the
\* frame just read.
LEMMA SessionChange ==
  ASSUME TypeOK, [Next]_vars, NEW c \in ClientId
  PROVE  /\ frames'[c] \in {frames[c], frames[c] + 1}
         /\ recvTask'[c] = "awaitAck" =>
              \/ /\ recvTask[c] = "awaitAck" /\ frames'[c] = frames[c]
                 /\ joining'[c] = joining[c]
              \/ frames'[c] = frames[c] + 1 /\ UNCHANGED <<acks, rooms>>
         /\ mainTask[c] # "select" => mainTask'[c] # "select"
<1> USE DEF TypeOK
<1>1. CASE CoordinatorStep
  BY <1>1 DEF CoordinatorStep, sessionVars
<1>2. ASSUME NEW d \in ClientId, NEW room \in DocumentId, RecvJoin(d, room)
      PROVE  /\ frames'[c] \in {frames[c], frames[c] + 1}
             /\ recvTask'[c] = "awaitAck" =>
                  \/ /\ recvTask[c] = "awaitAck" /\ frames'[c] = frames[c]
                     /\ joining'[c] = joining[c]
                  \/ frames'[c] = frames[c] + 1 /\ UNCHANGED <<acks, rooms>>
             /\ mainTask[c] # "select" => mainTask'[c] # "select"
  BY <1>2 DEF RecvJoin, TakeFrame
<1>3. ASSUME NEW d \in ClientId,
             \/ \E room \in DocumentId : RecvSendMessageTo(d, room)
             \/ RecvSendMessage(d) \/ RecvInvalid(d)
      PROVE  /\ frames'[c] \in {frames[c], frames[c] + 1}
             /\ UNCHANGED <<recvTask, joining, mainTask, acks, rooms>>
  BY <1>3 DEF RecvSendMessageTo, RecvSendMessage, RecvInvalid, TakeFrame
<1>4. ASSUME NEW d \in ClientId,
             AckJoin(d) \/ TimeoutJoin(d) \/ RecvEnd(d) \/ RecvAborted(d)
      PROVE  /\ UNCHANGED <<frames, mainTask>>
             /\ recvTask'[c] = "awaitAck" => UNCHANGED recvTask[c] /\ UNCHANGED joining[c]
  BY <1>4 DEF AckJoin, TimeoutJoin, EndJoin, RecvEnd, RecvAborted
<1>5. ASSUME NEW d \in ClientId,
             \/ SendDeliver(d) \/ SendFail(d) \/ SendAborted(d) \/ PeerClose(d)
             \/ MainLeave(d)
      PROVE  /\ UNCHANGED <<frames, recvTask, joining>>
             /\ mainTask[c] # "select" => mainTask'[c] # "select"
  BY <1>5 DEF SendDeliver, SendFail, SendAborted, EndSendTask, PeerClose, MainLeave,
              sessionVars
<1>6. ASSUME NEW d \in ClientId, MainSelect(d)
      PROVE  /\ UNCHANGED frames
             /\ recvTask'[c] = "awaitAck" => UNCHANGED recvTask[c] /\ UNCHANGED joining[c]
             /\ mainTask[c] # "select" => mainTask'[c] # "select"
  BY <1>6 DEF MainSelect
<1>7. ASSUME NEW room \in DocumentId, SendInvalidation(room)
      PROVE  UNCHANGED sessionVars
  BY <1>7 DEF SendInvalidation
<1>8. CASE UNCHANGED vars
  BY <1>8 DEF vars, sessionVars
<1> QED BY <1>1, <1>2, <1>3, <1>4, <1>5, <1>6, <1>7, <1>8 DEF Next, SessionsNext, sessionVars

\* What a command just appended says of its sender.
Fresh(cmd) ==
  /\ cmd.op = "leave" => mainTask'[cmd.client] # "select"
  /\ cmd.op = "broadcast" => cmd.message.room = cmd.room
  /\ cmd.op = "join" => cmd.req = frames'[cmd.client] /\ cmd.room = joining'[cmd.client]

\* What a step may do to the command channel.
LEMMA CommandsChange ==
  ASSUME TypeOK, [Next]_vars
  PROVE  \/ cmds' = cmds
         \/ CoordinatorStep /\ \E op : Receive(op)
         \/ \E cmd \in RoomCommand : TrySendCommand(cmd) /\ Fresh(cmd)
<1>1. CASE CoordinatorStep
  BY <1>1 DEF CoordinatorStep, Coordinator, HandleJoin, HandleLeave, HandleBroadcast
<1>2. ASSUME NEW d \in ClientId, NEW room \in DocumentId, RecvJoin(d, room)
      PROVE  cmds' = cmds \/ \E cmd \in RoomCommand : TrySendCommand(cmd) /\ Fresh(cmd)
  <2>1. CASE cmds' = cmds
    BY <2>1
  <2>2. CASE /\ TrySendCommand(Join(room, d, frames[d] + 1))
             /\ joining' = [joining EXCEPT ![d] = room]
    <3>1. Join(room, d, frames[d] + 1) \in RoomCommand
      BY MessagesTyped DEF TypeOK
    <3>2. frames'[d] = frames[d] + 1 /\ joining'[d] = room
      BY <1>2, <2>2 DEF RecvJoin, TakeFrame, TypeOK
    <3>3. Fresh(Join(room, d, frames[d] + 1))
      BY <3>2 DEF Fresh, Join
    <3> QED BY <2>2, <3>1, <3>3
  <2> QED BY <1>2, <2>1, <2>2 DEF RecvJoin
<1>3. ASSUME NEW room \in DocumentId, NEW m \in Payload, m.room = room, Enqueue(room, m)
      PROVE  \E cmd \in RoomCommand : TrySendCommand(cmd) /\ Fresh(cmd)
  <2>1. Broadcast(room, m) \in RoomCommand
    BY DEF Broadcast, RoomCommand, BroadcastCommand
  <2>2. Fresh(Broadcast(room, m))
    BY <1>3 DEF Fresh, Broadcast
  <2> QED BY <1>3, <2>1, <2>2 DEF Enqueue
<1>4. ASSUME NEW d \in ClientId, NEW room \in DocumentId, PublishFrame(d, room)
      PROVE  cmds' = cmds \/ \E cmd \in RoomCommand : TrySendCommand(cmd) /\ Fresh(cmd)
  <2>1. Message(room, d, frames[d] + 1) \in Payload
    BY MessagesTyped DEF TypeOK
  <2>2. Message(room, d, frames[d] + 1).room = room
    BY DEF Message
  <2> QED BY <1>3, <1>4, <2>1, <2>2 DEF PublishFrame
<1>5. ASSUME NEW d \in ClientId, NEW room \in DocumentId, RecvSendMessageTo(d, room)
      PROVE  cmds' = cmds \/ \E cmd \in RoomCommand : TrySendCommand(cmd) /\ Fresh(cmd)
  BY <1>4, <1>5 DEF RecvSendMessageTo
<1>6. ASSUME NEW d \in ClientId, RecvSendMessage(d)
      PROVE  cmds' = cmds \/ \E cmd \in RoomCommand : TrySendCommand(cmd) /\ Fresh(cmd)
  <2>1. currentRoom[d] # NoRoom => currentRoom[d] \in DocumentId
    BY DEF TypeOK
  <2> QED BY <1>4, <1>6, <2>1 DEF RecvSendMessage
<1>7. ASSUME NEW room \in DocumentId, SendInvalidation(room)
      PROVE  cmds' = cmds \/ \E cmd \in RoomCommand : TrySendCommand(cmd) /\ Fresh(cmd)
  <2>1. /\ Invalidation(room, invalidations + 1) \in Payload
        /\ Invalidation(room, invalidations + 1).room = room
    BY DEF TypeOK, Invalidation, Payload, InvalidationType
  <2> QED BY <1>3, <1>7, <2>1 DEF SendInvalidation
<1>8. ASSUME NEW d \in ClientId, MainLeave(d)
      PROVE  cmds' = cmds \/ \E cmd \in RoomCommand : TrySendCommand(cmd) /\ Fresh(cmd)
  <2>1. CASE currentRoom[d] # NoRoom /\ TrySendCommand(Leave(currentRoom[d], d))
    <3>1. Leave(currentRoom[d], d) \in RoomCommand
      BY <2>1 DEF TypeOK, Leave, RoomCommand, LeaveCommand
    <3>2. mainTask'[d] = "done"
      BY <1>8 DEF MainLeave, TypeOK
    <3>3. Fresh(Leave(currentRoom[d], d))
      BY <3>2 DEF Fresh, Leave
    <3> QED BY <2>1, <3>1, <3>3
  <2> QED BY <1>8, <2>1 DEF MainLeave
<1>9. ASSUME NEW d \in ClientId,
             \/ AckJoin(d) \/ TimeoutJoin(d) \/ RecvInvalid(d) \/ RecvEnd(d)
             \/ RecvAborted(d) \/ SendDeliver(d) \/ SendFail(d) \/ SendAborted(d)
             \/ MainSelect(d) \/ PeerClose(d)
      PROVE  cmds' = cmds
  BY <1>9 DEF AckJoin, TimeoutJoin, EndJoin, RecvInvalid, RecvEnd, RecvAborted,
              SendDeliver, SendFail, SendAborted, EndSendTask, MainSelect, PeerClose,
              roomsVars
<1>10. CASE UNCHANGED vars
  BY <1>10 DEF vars, roomsVars
<1> QED BY <1>1, <1>2, <1>5, <1>6, <1>7, <1>8, <1>9, <1>10 DEF Next, SessionsNext

\* Every command in the channel was there before, or is the one just sent.
LEMMA OldOrFresh ==
  ASSUME TypeOK, [Next]_vars, NEW i \in 1..Len(cmds')
  PROVE  /\ cmds'[i] \in RoomCommand
         /\ (\E j \in 1..Len(cmds) : cmds'[i] = cmds[j]) \/ Fresh(cmds'[i])
<1> RoomsTypeOK
  BY DEF TypeOK
<1>0. \A j \in 1..Len(cmds) : cmds[j] \in RoomCommand
  BY ElementOfSeq DEF RoomsTypeOK
<1>1. CASE cmds' = cmds
  BY <1>0, <1>1
<1>2. ASSUME NEW op, Receive(op)
      PROVE  \E j \in 1..Len(cmds) : cmds'[i] = cmds[j]
  BY <1>2, CommandTaken
<1>3. ASSUME NEW cmd \in RoomCommand, TrySendCommand(cmd), Fresh(cmd)
      PROVE  (\E j \in 1..Len(cmds) : cmds'[i] = cmds[j]) \/ cmds'[i] = cmd
  <2>1. /\ Len(cmds') = Len(cmds) + 1 /\ Len(cmds) \in Nat
        /\ IF i <= Len(cmds) THEN cmds'[i] = cmds[i] ELSE cmds'[i] = cmd
    BY <1>3, CommandAppended, LenProperties DEF RoomsTypeOK
  <2> QED BY <2>1
<1> QED BY <1>0, <1>1, <1>2, <1>3, CommandsChange

\* What a step may do to the oneshots.
LEMMA AcksChange ==
  ASSUME [Next]_vars
  PROVE  acks' \subseteq acks \/ HandleJoin
BY DEF Next, SessionsNext, CoordinatorStep, Coordinator, HandleLeave, HandleBroadcast, RecvJoin,
       RecvSendMessageTo, AckJoin, TimeoutJoin, RecvSendMessage, RecvInvalid, RecvEnd,
       RecvAborted, SendDeliver, SendFail, SendAborted, EndSendTask, MainSelect,
       MainLeave, PeerClose, SendInvalidation, roomsVars, vars

\* A session changes its current room only on an ack, to the room it joined.
LEMMA CurrentRoomChange ==
  ASSUME TypeOK, [Next]_vars, NEW c \in ClientId
  PROVE  currentRoom'[c] = currentRoom[c] \/ (AckJoin(c) /\ currentRoom'[c] = joining[c])
<1>1. ASSUME NEW d \in ClientId, AckJoin(d)
      PROVE  currentRoom'[c] = IF c = d THEN joining[c] ELSE currentRoom[c]
  BY <1>1 DEF AckJoin, TypeOK
<1>2. ASSUME ~ \E d \in ClientId : AckJoin(d)
      PROVE  currentRoom' = currentRoom
  BY <1>2 DEF Next, SessionsNext, CoordinatorStep, RecvJoin, RecvSendMessageTo, TimeoutJoin,
       RecvSendMessage, RecvInvalid, RecvEnd, RecvAborted, SendDeliver, SendFail,
       SendAborted, EndSendTask, MainSelect, MainLeave, PeerClose, SendInvalidation,
       sessionVars, vars
<1> QED BY <1>1, <1>2

\* What a peer's stream gains in a step: its session's replies, and payloads of
\* rooms it is listed in.
Gained(c, m) ==
  \/ m = Error
  \/ AckJoin(c) /\ m = Joined(joining[c])
  \/ HandleBroadcast /\ m = Head(cmds).message /\ c \in Members(Head(cmds).room)

\* The messages of Stream(c), without its order.
Heard(c) == Elems(wire[c]) \cup Elems(outbox[c])

\* Received, by membership in the two sequences of the stream.
LEMMA ReceivedIsHeard ==
  TypeOK => \A c \in ClientId : Received(c) = Heard(c)
<1> SUFFICES ASSUME TypeOK, NEW c \in ClientId PROVE Received(c) = Heard(c)
  OBVIOUS
<1>1. wire[c] \in Seq(ServerMessage) /\ outbox[c] \in Seq(ServerMessage)
  BY DEF TypeOK, RoomsTypeOK
<1>2. Elems(wire[c] \o outbox[c]) = Elems(wire[c]) \cup Elems(outbox[c])
  BY <1>1, InConcat, SMTT(20)
<1> QED BY <1>2, Zenon DEF Received, Stream, Heard, Elems

LEMMA HeardChange ==
  ASSUME TypeOK, [Next]_vars, NEW c \in ClientId, NEW m \in Heard(c)'
  PROVE  m \in Heard(c) \/ Gained(c, m)
<1> RoomsTypeOK
  BY DEF TypeOK
<1>0. /\ outbox[c] \in Seq(ServerMessage) /\ Len(outbox[c]) \in Nat
      /\ wire[c] \in Seq(ServerMessage) /\ Len(wire[c]) \in Nat
  BY LenProperties DEF TypeOK, RoomsTypeOK
<1>1. ASSUME outbox'[c] = outbox[c], wire'[c] = wire[c] PROVE m \in Heard(c)
  BY <1>1 DEF Heard, Elems
<1>2. ASSUME NEW e, wire'[c] = wire[c],
             outbox'[c] = outbox[c] \/ outbox'[c] = Append(outbox[c], e)
      PROVE  m \in Heard(c) \/ m = e
  <2>1. CASE outbox'[c] = outbox[c]
    BY <1>2, <2>1 DEF Heard, Elems
  <2>2. CASE outbox'[c] = Append(outbox[c], e)
    <3>1. /\ Len(outbox'[c]) = Len(outbox[c]) + 1
          /\ \A i \in 1..Len(outbox'[c]) : outbox'[c][i] =
               IF i <= Len(outbox[c]) THEN outbox[c][i] ELSE e
      BY <1>0, <2>2
    <3>2. \A i \in 1..Len(outbox'[c]) :
            outbox'[c][i] = e \/ (i \in 1..Len(outbox[c]) /\ outbox'[c][i] = outbox[c][i])
      BY <1>0, <3>1
    <3>3. CASE \E i \in 1..Len(wire[c]) : m = wire[c][i]
      BY <3>3, Zenon DEF Heard, Elems
    <3>4. CASE \E i \in 1..Len(outbox'[c]) : m = outbox'[c][i]
      <4>1. PICK i \in 1..Len(outbox'[c]) : m = outbox'[c][i]
        BY <3>4, Zenon
      <4> QED BY <3>2, <4>1, Zenon DEF Heard, Elems
    <3>5. \/ \E i \in 1..Len(wire[c]) : m = wire[c][i]
          \/ \E i \in 1..Len(outbox'[c]) : m = outbox'[c][i]
      BY <1>2, Zenon DEF Heard, Elems
    <3> QED BY <3>3, <3>4, <3>5, Zenon
  <2> QED BY <1>2, <2>1, <2>2
<1>3. ASSUME NEW d \in ClientId, NEW e, Reply(d, e), wire' = wire
      PROVE  m \in Heard(c) \/ (d = c /\ m = e)
  <2>1. outbox'[c] = outbox[c] \/ (d = c /\ outbox'[c] = Append(outbox[c], e))
    BY <1>3 DEF Reply, RoomsTypeOK
  <2>2. wire'[c] = wire[c]
    BY <1>3
  <2> QED BY <1>1, <1>2, <2>1, <2>2
<1>4. CASE HandleBroadcast /\ wire' = wire
  <2>1. PICK cmd : cmd = Head(cmds)
    OBVIOUS
  <2>2. cmd.room \in DocumentId /\ cmd.message \in Payload
    BY <1>4, <2>1, BroadcastRemoves
  <2>3. outbox'[c] = Fanout(cmd.room, c, cmd.message)
    BY <1>4, <2>1 DEF HandleBroadcast
  <2>4. \A i \in 1..Len(outbox'[c]) :
          \/ i \in 1..Len(outbox[c]) /\ outbox'[c][i] = outbox[c][i]
          \/ outbox'[c][i] = cmd.message /\ c \in Members(cmd.room)
    BY <1>0, <2>2, <2>3, FanoutType
  <2> QED BY <1>4, <2>1, <2>4 DEF Heard, Elems, Gained
<1>5. ASSUME NEW d \in ClientId, SendDeliver(d)
      PROVE  m \in Heard(c)
  <2>1. CASE d # c
    BY <1>1, <1>5, <2>1 DEF SendDeliver, TypeOK, RoomsTypeOK
  <2>2. CASE d = c
    <3>1. /\ outbox[c] # <<>>
          /\ outbox'[c] = Tail(outbox[c])
          /\ wire'[c] = wire[c] \/ wire'[c] = Append(wire[c], Head(outbox[c]))
      BY <1>5, <2>2 DEF SendDeliver, TypeOK, RoomsTypeOK
    <3>2. /\ Len(outbox'[c]) = Len(outbox[c]) - 1
          /\ \A i \in 1..Len(outbox'[c]) : outbox'[c][i] = outbox[c][i + 1]
          /\ Head(outbox[c]) = outbox[c][1] /\ 1 <= Len(outbox[c])
      BY <1>0, <3>1, HeadTailProperties, EmptySeq
    <3>3. \A i \in 1..Len(outbox'[c]) : i + 1 \in 1..Len(outbox[c])
      BY <1>0, <3>2
    <3>4. \A i \in 1..Len(wire'[c]) :
            \/ i \in 1..Len(wire[c]) /\ wire'[c][i] = wire[c][i]
            \/ 1 \in 1..Len(outbox[c]) /\ wire'[c][i] = outbox[c][1]
      <4>1. 1 \in 1..Len(outbox[c]) /\ Head(outbox[c]) = outbox[c][1]
        BY <1>0, <3>2
      <4>2. CASE wire'[c] = wire[c]
        BY <4>2
      <4>3. CASE wire'[c] = Append(wire[c], Head(outbox[c]))
        BY <1>0, <4>1, <4>3, SMTT(20)
      <4> QED BY <3>1, <4>2, <4>3
    <3>5. CASE \E i \in 1..Len(wire'[c]) : m = wire'[c][i]
      <4>1. PICK i \in 1..Len(wire'[c]) : m = wire'[c][i]
        BY <3>5
      <4> QED BY <3>4, <4>1, Zenon DEF Heard, Elems
    <3>6. CASE \E i \in 1..Len(outbox'[c]) : m = outbox'[c][i]
      <4>1. PICK i \in 1..Len(outbox'[c]) : m = outbox'[c][i]
        BY <3>6
      <4>2. m = outbox[c][i + 1] /\ i + 1 \in 1..Len(outbox[c])
        BY <3>2, <3>3, <4>1, Zenon
      <4> QED BY <4>2, Zenon DEF Heard, Elems
    <3> QED BY <3>5, <3>6, Zenon DEF Heard, Elems
  <2> QED BY <2>1, <2>2
<1>6. ASSUME NEW d \in ClientId, SendFail(d) \/ SendAborted(d)
      PROVE  m \in Heard(c)
  <2>1. wire' = wire /\ outbox' = [outbox EXCEPT ![d] = <<>>]
    BY <1>6 DEF SendFail, SendAborted, EndSendTask, history
  <2>2. outbox'[c] = outbox[c] \/ (outbox'[c] = <<>> /\ Len(<<>>) = 0)
    BY <2>1, EmptySeq DEF RoomsTypeOK
  <2> QED BY <2>1, <2>2 DEF Heard, Elems
<1>7. ASSUME NEW d \in ClientId,
             \/ TimeoutJoin(d) \/ RecvInvalid(d) \/ RecvSendMessage(d)
             \/ \E room \in DocumentId : RecvJoin(d, room) \/ RecvSendMessageTo(d, room)
      PROVE  m \in Heard(c) \/ m = Error
  <2>1. wire' = wire /\ (outbox' = outbox \/ Reply(d, Error))
    BY <1>7 DEF TimeoutJoin, EndJoin, RecvInvalid, RecvSendMessage, RecvJoin,
                RecvSendMessageTo, PublishFrame, CommandDropped, history
  <2> QED BY <1>1, <1>3, <2>1
<1>8. ASSUME NEW d \in ClientId, AckJoin(d)
      PROVE  m \in Heard(c) \/ (AckJoin(c) /\ m = Joined(joining[c]))
  <2>1. wire' = wire /\ Reply(d, Joined(joining[d]))
    BY <1>8 DEF AckJoin, EndJoin, history
  <2> QED BY <1>3, <1>8, <2>1
<1>9. CASE CoordinatorStep
  BY <1>1, <1>4, <1>9 DEF CoordinatorStep, Coordinator, HandleJoin, HandleLeave, history
<1>10. ASSUME NEW d \in ClientId,
              RecvEnd(d) \/ RecvAborted(d) \/ MainSelect(d) \/ MainLeave(d) \/ PeerClose(d)
       PROVE  m \in Heard(c)
  BY <1>1, <1>10 DEF RecvEnd, RecvAborted, MainSelect, MainLeave, PeerClose, roomsVars,
                     history
<1>11. ASSUME NEW room \in DocumentId, SendInvalidation(room)
       PROVE  m \in Heard(c)
  BY <1>1, <1>11 DEF SendInvalidation
<1>12. CASE UNCHANGED vars
  BY <1>1, <1>12 DEF vars, roomsVars, history
<1> QED BY <1>5, <1>6, <1>7, <1>8, <1>9, <1>10, <1>11, <1>12 DEF Next, SessionsNext, Gained

-----------------------------------------------------------------------------
(* The invariant.                                                          *)

\* The invariant holds when the server starts.
LEMMA MembershipInit == Init => MembershipInv
<1> SUFFICES ASSUME Init PROVE MembershipInv
  OBVIOUS
<1>1. Len(cmds) = 0 /\ acks = {}
  BY EmptySeq DEF Init, RoomsInit
<1>2. \A c \in ClientId : currentRoom[c] = NoRoom /\ Heard(c) = {}
  <2> SUFFICES ASSUME NEW c \in ClientId PROVE currentRoom[c] = NoRoom /\ Heard(c) = {}
    OBVIOUS
  <2>1. currentRoom[c] = NoRoom /\ wire[c] = <<>> /\ outbox[c] = <<>>
    BY DEF Init, RoomsInit
  <2> QED BY <2>1 DEF Heard, Elems
<1>3. \A c \in ClientId : Received(c) = {}
  BY <1>2, TypeInit, ReceivedIsHeard
<1> QED BY <1>1, <1>2, <1>3 DEF MembershipInv, LeaveOrigin, BroadcastOrigin, JoinOrigin,
                                AckOrigin, JoinedIsMember, OnlyMembersHear

\* Every step keeps the facts about pending commands.
LEMMA OriginsNext ==
  ASSUME TypeOK, MembershipInv, [Next]_vars
  PROVE  LeaveOrigin' /\ BroadcastOrigin' /\ JoinOrigin'
<1> USE DEF MembershipInv
<1>1. ASSUME NEW i \in 1..Len(cmds'), cmds'[i].op = "leave"
      PROVE  mainTask'[cmds'[i].client] # "select"
  <2>1. CASE Fresh(cmds'[i])
    BY <1>1, <2>1 DEF Fresh
  <2>2. ASSUME NEW j \in 1..Len(cmds), cmds'[i] = cmds[j]
        PROVE  mainTask'[cmds'[i].client] # "select"
    <3>1. cmds[j].client \in ClientId /\ mainTask[cmds[j].client] # "select"
      BY <1>1, <2>2, OldOrFresh, CommandFields DEF LeaveOrigin
    <3> QED BY <2>2, <3>1, SessionChange
  <2> QED BY <2>1, <2>2, OldOrFresh
<1>2. ASSUME NEW i \in 1..Len(cmds'), cmds'[i].op = "broadcast"
      PROVE  cmds'[i].message.room = cmds'[i].room
  BY <1>2, OldOrFresh DEF Fresh, BroadcastOrigin
<1>3. ASSUME NEW i \in 1..Len(cmds'), cmds'[i].op = "join", NEW c, c = cmds'[i].client
      PROVE  /\ cmds'[i].req <= frames'[c]
             /\ recvTask'[c] = "awaitAck" /\ cmds'[i].req = frames'[c]
                  => cmds'[i].room = joining'[c]
  <2>0. c \in ClientId /\ cmds'[i].req \in Nat
    BY <1>3, OldOrFresh, CommandFields
  <2>1. frames[c] \in Nat /\ frames'[c] \in {frames[c], frames[c] + 1}
    BY <2>0, SessionChange DEF TypeOK
  <2>2. CASE Fresh(cmds'[i])
    BY <1>3, <2>0, <2>1, <2>2 DEF Fresh
  <2>3. ASSUME NEW j \in 1..Len(cmds), cmds'[i] = cmds[j]
        PROVE  /\ cmds'[i].req <= frames'[c]
               /\ recvTask'[c] = "awaitAck" /\ cmds'[i].req = frames'[c]
                    => cmds'[i].room = joining'[c]
    <3>1. /\ cmds'[i].req <= frames[c]
          /\ recvTask[c] = "awaitAck" /\ cmds'[i].req = frames[c]
               => cmds'[i].room = joining[c]
      BY <1>3, <2>3 DEF JoinOrigin
    <3> QED BY <2>0, <2>1, <3>1, SessionChange
  <2> QED BY <2>2, <2>3, OldOrFresh
<1> QED BY <1>1, <1>2, <1>3 DEF LeaveOrigin, BroadcastOrigin, JoinOrigin

\* An oneshot that fires means that its client is in the room it joined.
LEMMA AckOriginNext ==
  ASSUME TypeOK, MembershipInv, [Next]_vars
  PROVE  AckOrigin'
<1> USE DEF MembershipInv
<1> RoomsTypeOK
  BY DEF TypeOK
<1>1. PICK cmd : cmd = Head(cmds)
  OBVIOUS
<1>2. CASE HandleJoin
  <2>1. /\ acks' = acks \cup {<<cmd.client, cmd.req>>}
        /\ cmd = cmds[1] /\ cmd.op = "join"
        /\ cmd.room \in DocumentId /\ cmd.client \in ClientId /\ cmd.req \in Nat
        /\ cmd.client \in Members(cmd.room)'
    BY <1>1, <1>2, JoinAdds DEF HandleJoin
  <2>2. /\ cmd.req <= frames[cmd.client]
        /\ recvTask[cmd.client] = "awaitAck" /\ cmd.req = frames[cmd.client]
             => cmd.room = joining[cmd.client]
    BY <1>2, <2>1, CommandTaken DEF HandleJoin, JoinOrigin
  <2>3. acks' \subseteq ClientId \X Nat
    BY <2>1 DEF RoomsTypeOK
  <2>4. ASSUME NEW ack \in acks'
        PROVE  ack[2] <= frames'[ack[1]]
    <3>1. ack[1] \in ClientId /\ ack[2] \in Nat
      BY <2>3
    <3>2. ack[2] <= frames[ack[1]]
      BY <2>1, <2>2 DEF AckOrigin
    <3>3. frames[ack[1]] \in Nat /\ frames'[ack[1]] \in {frames[ack[1]], frames[ack[1]] + 1}
      BY <3>1, SessionChange DEF TypeOK
    <3> QED BY <3>1, <3>2, <3>3
  <2>5. ASSUME NEW c \in ClientId, Live(c)', recvTask'[c] = "awaitAck",
               <<c, frames'[c]>> \in acks'
        PROVE  c \in Members(joining[c])' /\ joining'[c] = joining[c]
    <3>1. frames[c] \in Nat /\ Live(c)
      BY <2>5, LiveStays DEF TypeOK
    <3>2. ~ UNCHANGED acks \/ <<c, frames'[c]>> \in acks
      BY <2>5
    <3>3. CASE <<c, frames'[c]>> \in acks
      <4>1. frames'[c] <= frames[c]
        BY <3>3 DEF AckOrigin
      <4>2. recvTask[c] = "awaitAck" /\ frames'[c] = frames[c] /\ joining'[c] = joining[c]
        BY <2>5, <3>1, <4>1, SessionChange
      <4> QED BY <3>1, <3>3, <4>2, MembersStay DEF AckOrigin
    <3>4. CASE <<c, frames'[c]>> \notin acks
      <4>1. c = cmd.client /\ frames'[c] = cmd.req
        BY <2>1, <2>5, <3>4
      <4>2. recvTask[c] = "awaitAck" /\ frames'[c] = frames[c] /\ joining'[c] = joining[c]
        BY <2>2, <2>5, <3>1, <4>1, SessionChange
      <4> QED BY <2>1, <2>2, <4>1, <4>2
    <3> QED BY <3>3, <3>4
  <2> QED BY <2>4, <2>5 DEF AckOrigin
<1>3. CASE acks' \subseteq acks
  <2>1. ASSUME NEW ack \in acks'
        PROVE  ack[2] <= frames'[ack[1]]
    <3>1. ack[1] \in ClientId /\ ack[2] \in Nat /\ ack[2] <= frames[ack[1]]
      BY <1>3 DEF RoomsTypeOK, AckOrigin
    <3>2. frames[ack[1]] \in Nat /\ frames'[ack[1]] \in {frames[ack[1]], frames[ack[1]] + 1}
      BY <3>1, SessionChange DEF TypeOK
    <3> QED BY <3>1, <3>2
  <2>2. ASSUME NEW c \in ClientId, Live(c)', recvTask'[c] = "awaitAck",
               <<c, frames'[c]>> \in acks'
        PROVE  c \in Members(joining[c])' /\ joining'[c] = joining[c]
    <3>1. frames[c] \in Nat /\ Live(c) /\ frames'[c] <= frames[c]
      BY <1>3, <2>2, LiveStays DEF TypeOK, AckOrigin
    <3>2. recvTask[c] = "awaitAck" /\ frames'[c] = frames[c] /\ joining'[c] = joining[c]
      BY <2>2, <3>1, SessionChange
    <3> QED BY <1>3, <2>2, <3>1, <3>2, MembersStay DEF AckOrigin
  <2> QED BY <2>1, <2>2 DEF AckOrigin
<1> QED BY <1>2, <1>3, AcksChange

\* A live session in a room, or told so, or sent its payloads, is a member of it.
LEMMA StandingNext ==
  ASSUME TypeOK, MembershipInv, [Next]_vars
  PROVE  JoinedIsMember' /\ OnlyMembersHear'
<1> USE DEF MembershipInv
<1> RoomsTypeOK
  BY DEF TypeOK
<1>0. TypeOK'
  BY TypeNext
<1>1. ASSUME NEW c \in ClientId, Live(c)', currentRoom'[c] # NoRoom
      PROVE  c \in Members(currentRoom[c])'
  <2>1. Live(c)
    BY <1>1, LiveStays
  <2>2. PICK room : room = currentRoom'[c]
    OBVIOUS
  <2>3. c \in Members(room)
    <3>1. CASE currentRoom'[c] = currentRoom[c]
      BY <1>1, <2>1, <2>2, <3>1 DEF JoinedIsMember
    <3>2. CASE AckJoin(c) /\ currentRoom'[c] = joining[c]
      BY <2>1, <2>2, <3>2 DEF AckJoin, AckOrigin
    <3> QED BY <3>1, <3>2, CurrentRoomChange
  <2>4. c \in Members(room)'
    BY <2>1, <2>3, MembersStay
  <2> QED BY <2>2, <2>4 DEF Members, Entries
<1>2. ASSUME NEW c \in ClientId, Live(c)', NEW m \in Heard(c)', m.type # "error"
      PROVE  c \in Members(m.room)'
  <2>1. Live(c)
    BY <1>2, LiveStays
  <2>2. c \in Members(m.room)
    <3>1. CASE m \in Heard(c)
      <4>1. m \in ServerMessage
        BY <3>1 DEF Heard, Elems, TypeOK, RoomsTypeOK
      <4>2. m \in Received(c)
        BY <3>1, ReceivedIsHeard
      <4>3. m.type = "joined" \/ m \in Payload
        BY <1>2, <4>1 DEF ServerMessage
      <4> QED BY <2>1, <4>2, <4>3 DEF JoinedIsMember, OnlyMembersHear
    <3>2. CASE AckJoin(c) /\ m = Joined(joining[c])
      BY <2>1, <3>2 DEF AckJoin, AckOrigin, Joined
    <3>3. CASE HandleBroadcast /\ m = Head(cmds).message /\ c \in Members(Head(cmds).room)
      <4>1. PICK cmd : cmd = Head(cmds)
        OBVIOUS
      <4>2. cmd = cmds[1] /\ cmd.op = "broadcast" /\ 1 \in 1..Len(cmds)
        BY <3>3, <4>1, BroadcastRemoves, CommandTaken DEF HandleBroadcast
      <4> QED BY <3>3, <4>1, <4>2 DEF BroadcastOrigin
    <3>4. m # Error
      BY <1>2 DEF Error
    <3> QED BY <1>2, <3>1, <3>2, <3>3, <3>4, HeardChange DEF Gained
  <2> QED BY <2>1, <2>2, MembersStay
<1>3. \A c \in ClientId : Received(c)' = Heard(c)'
  <2>1. (TypeOK => \A c \in ClientId : Received(c) = Heard(c))'
    BY ReceivedIsHeard, PTL
  <2> QED BY <1>0, <2>1
<1>4. \A m \in Payload : m.type # "error"
  BY DEF Payload, MessageType, InvalidationType
<1> QED BY <1>1, <1>2, <1>3, <1>4 DEF JoinedIsMember, OnlyMembersHear

\* Every step keeps the whole invariant.
LEMMA MembershipNext == TypeOK /\ MembershipInv /\ [Next]_vars => MembershipInv'
BY OriginsNext, AckOriginNext, StandingNext DEF MembershipInv

\* No session that is being served ever misses a membership it was told of, and
\* none receives what is not of its rooms, whatever the interleaving of joins,
\* timeouts, aborts, full channels and late acks.
THEOREM MembershipCorrect == Spec => []MembershipInv
BY TypeInit, TypeNext, MembershipInit, MembershipNext, PTL DEF Spec

\* A live session that believes it is in a room, or whose peer was told so, is
\* one the coordinator fans out to.
THEOREM JoinedCorrect == Spec => []JoinedIsMember
<1>1. MembershipInv => JoinedIsMember
  BY DEF MembershipInv
<1> QED BY <1>1, MembershipCorrect, PTL

\* A live session receives payloads of rooms it is a member of, no others.
THEOREM HearCorrect == Spec => []OnlyMembersHear
<1>1. MembershipInv => OnlyMembersHear
  BY DEF MembershipInv
<1> QED BY <1>1, MembershipCorrect, PTL

-----------------------------------------------------------------------------
(* The refinement.  The abstract state is the one of the INSTANCE.         *)

Listed == [room \in DocumentId |-> Members(room)]

Ended == {c \in ClientId : ~ Live(c)}

\* A step that is not the coordinator's ends at most one session.
LEMMA EndedChange ==
  ASSUME TypeOK, [Next]_vars
  PROVE  Ended' = Ended \/ \E c \in ClientId : Ended' = Ended \cup {c}
<1> USE DEF TypeOK, RoomsTypeOK, Ended, Live
<1>1. CASE UNCHANGED <<mainTask, rxOpen>>
  BY <1>1
<1>2. ASSUME NEW d \in ClientId, MainSelect(d)
      PROVE  Ended' = Ended \cup {d}
  BY <1>2 DEF MainSelect, roomsVars
<1>3. ASSUME NEW d \in ClientId, MainLeave(d)
      PROVE  Ended' = Ended
  BY <1>3 DEF MainLeave
<1>4. ASSUME NEW d \in ClientId, SendFail(d) \/ SendAborted(d)
      PROVE  Ended' = Ended \cup {d}
  BY <1>4 DEF SendFail, SendAborted, EndSendTask
<1>5. ASSUME NEW d \in ClientId,
             \/ \E room \in DocumentId : RecvJoin(d, room) \/ RecvSendMessageTo(d, room)
             \/ AckJoin(d) \/ TimeoutJoin(d) \/ RecvSendMessage(d) \/ RecvInvalid(d)
             \/ RecvEnd(d) \/ RecvAborted(d) \/ SendDeliver(d) \/ PeerClose(d)
      PROVE  UNCHANGED <<mainTask, rxOpen>>
  BY <1>5 DEF RecvJoin, RecvSendMessageTo, AckJoin, TimeoutJoin, EndJoin, RecvSendMessage,
              RecvInvalid, RecvEnd, RecvAborted, SendDeliver, PeerClose, roomsVars,
              sessionVars
<1>6. CoordinatorStep \/ (\E room \in DocumentId : SendInvalidation(room)) \/ UNCHANGED vars
        => UNCHANGED <<mainTask, rxOpen>>
  BY DEF CoordinatorStep, Coordinator, HandleJoin, HandleLeave, HandleBroadcast,
         SendInvalidation, sessionVars, roomsVars, vars
<1> QED BY <1>1, <1>2, <1>3, <1>4, <1>5, <1>6 DEF Next, SessionsNext

\* Initially nobody is anywhere.
LEMMA RefinementInit == Init => Membership!Init
<1> SUFFICES ASSUME Init PROVE Listed = [room \in DocumentId |-> {}] /\ Ended = {}
  BY DEF Membership!Init, Listed, Ended
<1> QED BY DEF Init, RoomsInit, Listed, Ended, Members, Entries, Live

\* Every step is a step of RoomMembership, or leaves its variables alone.
LEMMA RefinementNext ==
  ASSUME TypeOK, MembershipInv, [Next]_vars
  PROVE  [Membership!Next]_<<Listed, Ended>>
<1> RoomsTypeOK
  BY DEF TypeOK
<1>1. CASE CoordinatorStep
  <2>1. PICK cmd : cmd = Head(cmds)
    OBVIOUS
  <2>2. Ended' = Ended
    BY <1>1 DEF CoordinatorStep, Coordinator, HandleJoin, HandleLeave, HandleBroadcast,
                sessionVars, Ended, Live
  <2>3. CASE HandleJoin
    <3>1. /\ cmd.room \in DocumentId /\ cmd.client \in ClientId
          /\ \A room : Members(room)' = IF room = cmd.room
                                       THEN Members(room) \cup {cmd.client} ELSE Members(room)
      BY <2>1, <2>3, JoinAdds
    <3>2. Listed' = [Listed EXCEPT ![cmd.room] = @ \cup {cmd.client}]
      BY <3>1 DEF Listed
    <3>3. Membership!Join(cmd.client, cmd.room)
      BY <2>2, <3>2 DEF Membership!Join, Listed, Ended
    <3> QED BY <3>1, <3>3 DEF Membership!Next
  <2>4. CASE HandleLeave
    <3>1. /\ cmd.room \in DocumentId /\ cmd.client \in ClientId
          /\ cmd = cmds[1] /\ cmd.op = "leave" /\ 1 \in 1..Len(cmds)
          /\ \A room : Members(room)' = IF room = cmd.room
                                       THEN Members(room) \ {cmd.client} ELSE Members(room)
      BY <2>1, <2>4, LeaveRemoves, CommandTaken DEF HandleLeave
    <3>2. Listed' = [Listed EXCEPT ![cmd.room] = @ \ {cmd.client}]
      BY <3>1 DEF Listed
    <3>3. {cmd.client} \subseteq Ended
      BY <3>1 DEF MembershipInv, LeaveOrigin, Ended, Live
    <3>4. Membership!Evict(cmd.room, {cmd.client})
      BY <2>2, <3>2, <3>3 DEF Membership!Evict, Listed, Ended
    <3> QED BY <3>1, <3>4 DEF Membership!Next
  <2>5. CASE HandleBroadcast
    <3>1. /\ cmd.room \in DocumentId
          /\ \A room : Members(room)' = IF room = cmd.room
                                       THEN Members(room) \ Failed(room) ELSE Members(room)
      BY <2>1, <2>5, BroadcastRemoves
    <3>2. Listed' = [Listed EXCEPT ![cmd.room] = @ \ Failed(cmd.room)]
      BY <3>1 DEF Listed
    <3>3. Failed(cmd.room) \subseteq Ended /\ Failed(cmd.room) \in SUBSET ClientId
      BY DEF Failed, Members, Ended, Live
    <3>4. Membership!Evict(cmd.room, Failed(cmd.room))
      BY <2>2, <3>2, <3>3 DEF Membership!Evict, Listed, Ended
    <3> QED BY <3>1, <3>3, <3>4 DEF Membership!Next
  <2> QED BY <1>1, <2>3, <2>4, <2>5 DEF CoordinatorStep, Coordinator
<1>2. CASE rooms' = rooms
  <2>1. Listed' = Listed
    BY <1>2 DEF Listed, Members, Entries
  <2>2. CASE Ended' = Ended
    BY <2>1, <2>2
  <2>3. ASSUME NEW c \in ClientId, Ended' = Ended \cup {c}
        PROVE  Membership!Next
    <3>1. Membership!End(c)
      BY <2>1, <2>3 DEF Membership!End, Listed, Ended
    <3> QED BY <3>1 DEF Membership!Next
  <2> QED BY <2>2, <2>3, EndedChange
<1> QED BY <1>1, <1>2, OnlyCoordinatorOwnsRooms

\* The sessions get from the coordinator what RoomMembership promises: nobody is
\* taken out of a room while its session is served.
THEOREM MembershipRefined == Spec => ImplementsMembership
<1>1. TypeOK /\ MembershipInv /\ [Next]_vars => [Membership!Next]_<<Listed, Ended>>
  BY RefinementNext
<1> QED BY <1>1, RefinementInit, TypeCorrect, MembershipCorrect, PTL
        DEF ImplementsMembership, Membership!Spec, Spec, Listed, Ended

=============================================================================
