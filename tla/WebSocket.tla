------------------------------ MODULE WebSocket ------------------------------
(***************************************************************************)
(* The sessions of src/websocket.rs over the coordinator of Rooms.tla.     *)
(* handle_socket runs three tasks per connection: recv_task reads frames   *)
(* and calls handle_client_message, send_task writes the outbox to the     *)
(* socket, and the task of handle_socket itself (mainTask) waits for       *)
(* either, aborts the other and leaves the current room.  The WAL reader   *)
(* is here only the caller of RoomsInvalidationSink::send_invalidation.    *)
(*                                                                         *)
(* A frame's number stands for its text and identifies its join oneshot.   *)
(***************************************************************************)
EXTENDS Rooms, FiniteSets

CONSTANTS
  MaxFrames,         \* bound: the frames each peer sends
  MaxInvalidations   \* bound: the invalidations the WAL reader delivers

ASSUME WebSocketAssumption ==
  /\ MaxFrames \in [ClientId -> Nat]
  /\ MaxInvalidations \in Nat

VARIABLES
  socket,         \* the connection itself: "open" until the peer is gone
  recvTask,       \* "next": reading; "awaitAck": in the join timeout; "done"; "aborted"
  sendTask,       \* "running", "done" (a send failed) or "aborted"
  mainTask,       \* "select", then "leaving", then "done"
  joining,        \* the document_id of the Join that recvTask awaits
  currentRoom,    \* Session::current_room
  frames,         \* frames taken from the socket so far
  cmdDrops,       \* per client, its share of the metric actor_cmd_drops_total
  invalidations,  \* calls of send_invalidation so far
  wire,           \* history: the messages each peer has received, in order
  expected        \* history: the payloads each joined session is owed

sessionVars == <<socket, recvTask, sendTask, mainTask, joining, currentRoom,
                 frames, cmdDrops>>
sinkVars == <<invalidations>>
history == <<wire, expected>>
vars == <<roomsVars, sessionVars, sinkVars, history>>

Init ==
  /\ RoomsInit
  /\ socket = [c \in ClientId |-> "open"]
  /\ recvTask = [c \in ClientId |-> "next"]
  /\ sendTask = [c \in ClientId |-> "running"]
  /\ mainTask = [c \in ClientId |-> "select"]
  /\ joining = [c \in ClientId |-> NoRoom]
  /\ currentRoom = [c \in ClientId |-> NoRoom]
  /\ frames = [c \in ClientId |-> 0]
  /\ cmdDrops = [c \in ClientId |-> 0]
  /\ invalidations = 0
  /\ wire = [c \in ClientId |-> <<>>]
  /\ expected = [c \in ClientId |-> {}]

\* a session that is being served: nobody has started to tear it down
Live(c) == mainTask[c] = "select" /\ rxOpen[c]

Error == [type |-> "error"]
Joined(room) == [type |-> "joined", room |-> room]
Message(room, from, seq) ==
  [type |-> "message", room |-> room, from |-> from, seq |-> seq]
Invalidation(room, seq) == [type |-> "invalidation", room |-> room, seq |-> seq]

-----------------------------------------------------------------------------
(* RoomsHandle::broadcast_to_room, when the channel accepts the command:   *)
(* from now on every live session of the room is owed the payload.         *)

Enqueue(room, message) ==
  /\ TrySendCommand(Broadcast(room, message))
  /\ expected' = [c \in ClientId |->
       IF Live(c) /\ currentRoom[c] = room THEN expected[c] \cup {message}
                                           ELSE expected[c]]

-----------------------------------------------------------------------------
(* recv_task.  One frame is handled up to its first await that blocks.     *)

\* recv_task of client takes a frame; frames already read from a peer that
\* has gone are still handled
TakeFrame(c) ==
  /\ recvTask[c] = "next"
  /\ frames[c] < MaxFrames[c]
  /\ frames' = [frames EXCEPT ![c] = @ + 1]

\* the handler returned Err because the command channel was full
CommandDropped(c) ==
  /\ ChannelFull
  /\ cmdDrops' = [cmdDrops EXCEPT ![c] = @ + 1]
  /\ Reply(c, Error)

RecvJoin(c, room) ==
  /\ TakeFrame(c)
  /\ \/ /\ TrySendCommand(Join(room, c, frames[c] + 1))
        /\ recvTask' = [recvTask EXCEPT ![c] = "awaitAck"]
        /\ joining' = [joining EXCEPT ![c] = room]
        /\ UNCHANGED <<outbox, cmdDrops>>
     \/ /\ CommandDropped(c)
        /\ UNCHANGED <<cmds, recvTask, joining>>
  /\ UNCHANGED <<rooms, rxOpen, acks, fanoutDrops, socket, sendTask, mainTask,
                 currentRoom, sinkVars, history>>

EndJoin(c) ==
  /\ recvTask' = [recvTask EXCEPT ![c] = "next"]
  /\ joining' = [joining EXCEPT ![c] = NoRoom]
  /\ UNCHANGED <<cmds, rooms, rxOpen, fanoutDrops, socket, sendTask, mainTask,
                 frames, cmdDrops, sinkVars, history>>

\* the oneshot arrived: this session is now in the room
AckJoin(c) ==
  /\ recvTask[c] = "awaitAck"
  /\ <<c, frames[c]>> \in acks
  /\ acks' = acks \ {<<c, frames[c]>>}
  /\ currentRoom' = [currentRoom EXCEPT ![c] = joining[c]]
  /\ Reply(c, Joined(joining[c]))
  /\ EndJoin(c)

\* JOIN_TIMEOUT elapsed first.  timeout() polls the oneshot before the timer.
\* A recv_task aborted while it waits is not polled again.
TimeoutJoin(c) ==
  /\ recvTask[c] = "awaitAck"
  /\ mainTask[c] = "select"
  /\ <<c, frames[c]>> \notin acks
  /\ Reply(c, Error)
  /\ EndJoin(c)
  /\ UNCHANGED <<acks, currentRoom>>

PublishFrame_LocalEcho(c, room) ==
  /\ Enqueue(room, Message(room, c, frames[c] + 1))
  /\ Reply(c, Message(room, c, frames[c] + 1))
  /\ UNCHANGED cmdDrops

\* try_send of a chat message to room, the tail both send handlers share
PublishFrame(c, room) ==
  \/ /\ Enqueue(room, Message(room, c, frames[c] + 1))
     /\ UNCHANGED <<outbox, cmdDrops>>
  \/ /\ CommandDropped(c)
     /\ UNCHANGED <<cmds, expected>>

RecvSendMessage(c) ==
  /\ TakeFrame(c)
  /\ \/ /\ currentRoom[c] # NoRoom
        /\ PublishFrame(c, currentRoom[c])
     \/ /\ currentRoom[c] = NoRoom
        /\ Reply(c, Error)
        /\ UNCHANGED <<cmds, cmdDrops, expected>>
  /\ UNCHANGED <<rooms, rxOpen, acks, fanoutDrops, socket, recvTask, sendTask,
                 mainTask, joining, currentRoom, sinkVars, wire>>

RecvSendMessageTo(c, room) ==
  /\ TakeFrame(c)
  /\ PublishFrame(c, room)
  /\ UNCHANGED <<rooms, rxOpen, acks, fanoutDrops, socket, recvTask, sendTask,
                 mainTask, joining, currentRoom, sinkVars, wire>>

\* a text frame that is no ClientMessage
RecvInvalid(c) ==
  /\ TakeFrame(c)
  /\ Reply(c, Error)
  /\ UNCHANGED <<cmds, rooms, rxOpen, acks, fanoutDrops, socket, recvTask,
                 sendTask, mainTask, joining, currentRoom, cmdDrops, sinkVars,
                 history>>

\* receiver.next() gave None or an error
RecvEnd(c) ==
  /\ recvTask[c] = "next"
  /\ socket[c] = "closed"
  /\ recvTask' = [recvTask EXCEPT ![c] = "done"]
  /\ UNCHANGED <<roomsVars, socket, sendTask, mainTask, joining, currentRoom,
                 frames, cmdDrops, sinkVars, history>>

\* The abort of MainSelect takes effect at an await; a poll that was running
\* on another worker thread goes on until then.
RecvAborted(c) ==
  /\ mainTask[c] # "select"
  /\ recvTask[c] \in {"next", "awaitAck"}
  /\ recvTask' = [recvTask EXCEPT ![c] = "aborted"]
  /\ joining' = [joining EXCEPT ![c] = NoRoom]
  /\ UNCHANGED <<roomsVars, socket, sendTask, mainTask, currentRoom, frames,
                 cmdDrops, sinkVars, history>>

-----------------------------------------------------------------------------
(* send_task.                                                              *)

\* A write to a socket whose peer has gone may still succeed, unseen.
SendDeliver(c) ==
  /\ sendTask[c] = "running"
  /\ outbox[c] # <<>>
  /\ outbox' = [outbox EXCEPT ![c] = Tail(@)]
  /\ wire' = IF socket[c] = "open"
             THEN [wire EXCEPT ![c] = Append(@, Head(outbox[c]))]
             ELSE wire
  /\ UNCHANGED <<cmds, rooms, rxOpen, acks, fanoutDrops, sessionVars, sinkVars,
                 expected>>

\* the task's end drops its receiver, and with it what the outbox holds
EndSendTask(c, status) ==
  /\ sendTask[c] = "running"
  /\ sendTask' = [sendTask EXCEPT ![c] = status]
  /\ rxOpen' = [rxOpen EXCEPT ![c] = FALSE]
  /\ outbox' = [outbox EXCEPT ![c] = <<>>]
  /\ UNCHANGED <<cmds, rooms, acks, fanoutDrops, socket, recvTask, mainTask,
                 joining, currentRoom, frames, cmdDrops, sinkVars, history>>

SendFail(c) ==
  /\ outbox[c] # <<>>
  /\ socket[c] = "closed"
  /\ EndSendTask(c, "done")

\* aborted by MainSelect, at the await of its choice
SendAborted(c) ==
  /\ mainTask[c] # "select"
  /\ EndSendTask(c, "aborted")

-----------------------------------------------------------------------------
(* handle_socket: wait for a task to finish, abort the other, leave.       *)

MainSelect_SendOnly(c) ==
  /\ mainTask[c] = "select"
  /\ sendTask[c] = "done"
  /\ mainTask' = [mainTask EXCEPT ![c] = "leaving"]
  /\ UNCHANGED <<roomsVars, socket, recvTask, joining, sendTask, currentRoom,
                 frames, cmdDrops, sinkVars, history>>

\* A recv_task that waits for an ack not yet sent is not running: it ends here.
MainSelect(c) ==
  /\ mainTask[c] = "select"
  /\ recvTask[c] = "done" \/ sendTask[c] = "done"
  /\ mainTask' = [mainTask EXCEPT ![c] = "leaving"]
  /\ IF recvTask[c] = "awaitAck" /\ <<c, frames[c]>> \notin acks
     THEN /\ recvTask' = [recvTask EXCEPT ![c] = "aborted"]
          /\ joining' = [joining EXCEPT ![c] = NoRoom]
     ELSE UNCHANGED <<recvTask, joining>>
  /\ UNCHANGED <<roomsVars, socket, sendTask, currentRoom, frames, cmdDrops,
                 sinkVars, history>>

\* reads current_room without waiting for the aborted task, and does not retry
MainLeave(c) ==
  /\ mainTask[c] = "leaving"
  /\ mainTask' = [mainTask EXCEPT ![c] = "done"]
  /\ \/ /\ currentRoom[c] = NoRoom
        /\ UNCHANGED <<cmds, cmdDrops>>
     \/ /\ currentRoom[c] # NoRoom
        /\ TrySendCommand(Leave(currentRoom[c], c))
        /\ UNCHANGED cmdDrops
     \/ /\ currentRoom[c] # NoRoom
        /\ ChannelFull
        /\ cmdDrops' = [cmdDrops EXCEPT ![c] = @ + 1]
        /\ UNCHANGED cmds
  /\ UNCHANGED <<rooms, outbox, rxOpen, acks, fanoutDrops, socket, recvTask,
                 sendTask, joining, currentRoom, frames, sinkVars, history>>

-----------------------------------------------------------------------------
(* The peer, and the WAL reader through RoomsInvalidationSink.             *)

PeerClose(c) ==
  /\ socket[c] = "open"
  /\ socket' = [socket EXCEPT ![c] = "closed"]
  /\ UNCHANGED <<roomsVars, recvTask, sendTask, mainTask, joining, currentRoom,
                 frames, cmdDrops, sinkVars, history>>

SendInvalidation(room) ==
  /\ invalidations < MaxInvalidations
  /\ invalidations' = invalidations + 1
  /\ \/ Enqueue(room, Invalidation(room, invalidations + 1))
     \/ ChannelFull /\ UNCHANGED <<cmds, expected>>
  /\ UNCHANGED <<rooms, outbox, rxOpen, acks, fanoutDrops, sessionVars, wire>>

CoordinatorStep == Coordinator /\ UNCHANGED <<sessionVars, sinkVars, history>>

SessionsNext ==
  \/ \E c \in ClientId, room \in DocumentId :
       RecvJoin(c, room) \/ RecvSendMessageTo(c, room)
  \/ \E c \in ClientId :
       \/ AckJoin(c) \/ TimeoutJoin(c) \/ RecvSendMessage(c) \/ RecvInvalid(c)
       \/ RecvEnd(c) \/ RecvAborted(c)
       \/ SendDeliver(c) \/ SendFail(c) \/ SendAborted(c)
       \/ MainSelect(c) \/ MainLeave(c) \/ PeerClose(c)

Next ==
  \/ CoordinatorStep
  \/ SessionsNext
  \/ \E room \in DocumentId : SendInvalidation(room)

Spec == Init /\ [][Next]_vars

-----------------------------------------------------------------------------
(* Fairness: the runtime polls a task that can go on.  Nothing is assumed  *)
(* of the peer or of the WAL reader, nor that a write ever completes: a    *)
(* send_task may hang in a peer's full TCP window until it is aborted.     *)

RecvRuns(c) == AckJoin(c) \/ TimeoutJoin(c) \/ RecvEnd(c) \/ RecvAborted(c)

MainRuns(c) == MainSelect(c) \/ MainLeave(c)

Fairness ==
  /\ WF_vars(CoordinatorStep)
  /\ \A c \in ClientId :
       WF_vars(RecvRuns(c)) /\ WF_vars(MainRuns(c)) /\ WF_vars(SendAborted(c))

FairSpec == Spec /\ Fairness

-----------------------------------------------------------------------------
(* Properties.                                                             *)

TypeOK ==
  /\ RoomsTypeOK
  /\ socket \in [ClientId -> {"open", "closed"}]
  /\ recvTask \in [ClientId -> {"next", "awaitAck", "done", "aborted"}]
  /\ sendTask \in [ClientId -> {"running", "done", "aborted"}]
  /\ mainTask \in [ClientId -> {"select", "leaving", "done"}]
  /\ joining \in [ClientId -> DocumentId \cup {NoRoom}]
  /\ \A c \in ClientId : joining[c] # NoRoom <=> recvTask[c] = "awaitAck"
  /\ currentRoom \in [ClientId -> DocumentId \cup {NoRoom}]
  /\ frames \in [ClientId -> Nat]
  /\ cmdDrops \in [ClientId -> Nat]
  /\ invalidations \in Nat
  /\ wire \in [ClientId -> Seq(ServerMessage)]
  /\ expected \in [ClientId -> SUBSET Payload]

\* what the peer of c has received, then what is on its way
Stream(c) == wire[c] \o outbox[c]

Received(c) == {Stream(c)[i] : i \in 1..Len(Stream(c))}

\* A live session that believes it is in a room, or whose peer was told so,
\* is one the coordinator fans out to: the ack of handle_client_message's
\* Join comes after the push, and nobody leaves for a session that is served.
JoinedIsMember ==
  \A c \in ClientId : Live(c) =>
    /\ currentRoom[c] # NoRoom => c \in Members(currentRoom[c])
    /\ \A m \in Received(c) : m.type = "joined" => c \in Members(m.room)

\* A live session receives payloads of rooms it is a member of, no others.
OnlyMembersHear ==
  \A c \in ClientId : Live(c) =>
    \A m \in Received(c) : m \in Payload => c \in Members(m.room)

\* Why the two hold.  A pending Leave is never of a session being served; a
\* pending Join or a fired oneshot is of a frame already read, and the one that
\* recv_task awaits is for the room that it will then make its current room.
LeaveOrigin ==
  \A i \in 1..Len(cmds) :
    cmds[i].op = "leave" => mainTask[cmds[i].client] # "select"

BroadcastOrigin ==
  \A i \in 1..Len(cmds) :
    cmds[i].op = "broadcast" => cmds[i].message.room = cmds[i].room

JoinOrigin ==
  \A i \in 1..Len(cmds) : cmds[i].op = "join" =>
    LET c == cmds[i].client IN
      /\ cmds[i].req <= frames[c]
      /\ recvTask[c] = "awaitAck" /\ cmds[i].req = frames[c] => cmds[i].room = joining[c]

AckOrigin ==
  /\ \A ack \in acks : ack[2] <= frames[ack[1]]
  /\ \A c \in ClientId :
       (Live(c) /\ recvTask[c] = "awaitAck" /\ <<c, frames[c]>> \in acks)
         => c \in Members(joining[c])

MembershipInv ==
  /\ LeaveOrigin
  /\ BroadcastOrigin
  /\ JoinOrigin
  /\ AckOrigin
  /\ JoinedIsMember
  /\ OnlyMembersHear

\* Every payload owed to a live session on an open socket was received, is in
\* its outbox or is still a pending command, but for those that the coordinator
\* counted as fan-out drops of that session: no message or invalidation is
\* lost between a successful broadcast_to_room and the socket without a trace.
Pending(m) == \E i \in 1..Len(cmds) : cmds[i].op = "broadcast" /\ cmds[i].message = m

Missing(c) == {m \in expected[c] : m \notin Received(c) /\ ~ Pending(m)}

LossesAreCounted ==
  \A c \in ClientId : Live(c) /\ socket[c] = "open" =>
    Cardinality(Missing(c)) <= fanoutDrops[c]

\* the messages of one session, and the invalidations, are each numbered by the
\* order in which they were sent
SameSource(m, n) ==
  \/ m.type = "message" /\ n.type = "message" /\ m.from = n.from
  \/ m.type = "invalidation" /\ n.type = "invalidation"

\* A peer sees what one session or the WAL reader sent in the order in which it
\* was sent.
SenderOrder ==
  \A c \in ClientId : \A i, j \in 1..Len(Stream(c)) :
    i < j /\ SameSource(Stream(c)[i], Stream(c)[j])
      => Stream(c)[i].seq <= Stream(c)[j].seq

\* m is before n in the stream of c
Before(c, m, n) ==
  \E i, j \in 1..Len(Stream(c)) : i < j /\ Stream(c)[i] = m /\ Stream(c)[j] = n

\* Two peers never see two payloads in opposite orders, whoever sent them:
\* a session's own messages come back to it through the coordinator.
RoomsAgreeOnOrder ==
  \A c, d \in ClientId : \A m, n \in (Received(c) \cap Received(d)) \cap Payload :
    m # n /\ Before(c, m, n) => ~ Before(d, n, m)

\* When handle_socket went by the branch of recv_task, dropped no command and
\* nothing of its client is pending, the client is out of its last room,
\* however often it had joined it.
PendingOf(c) ==
  \E i \in 1..Len(cmds) : cmds[i].op \in {"join", "leave"} /\ cmds[i].client = c

CleanDisconnectLeavesRoom ==
  \A c \in ClientId :
    (/\ mainTask[c] = "done"
     /\ sendTask[c] = "aborted"
     /\ cmdDrops[c] = 0
     /\ ~ PendingOf(c)
     /\ currentRoom[c] # NoRoom) => c \notin Members(currentRoom[c])

\* The map keeps no key without clients: every handler that empties a Vec
\* removes its room.
NoEmptyRooms == \A room \in DOMAIN rooms : Members(room) # {}

\* What the demo plan says of a room switch: once a peer was told that it joined
\* a room after another one, no payload of the other reaches it any more.
RoomsAreIsolated ==
  \A c \in ClientId : \A i, j, k \in 1..Len(Stream(c)) :
    LET old == Stream(c)[i]
        new == Stream(c)[j]
        m == Stream(c)[k]
    IN (/\ i < j /\ j < k
        /\ old.type = "joined" /\ new.type = "joined" /\ old.room # new.room
        /\ m \in Payload) => m.room # old.room

\* What the sessions are promised of the coordinator: see RoomMembership.
Membership == INSTANCE RoomMembership WITH
  members <- [room \in DocumentId |-> Members(room)],
  ended <- {c \in ClientId : ~ Live(c)}

ImplementsMembership == Membership!Spec

\* When a peer is gone, all three tasks of its session end, whatever they were
\* doing: a join in progress times out, and the send task does not outlive it.
SessionTornDown ==
  \A c \in ClientId :
    socket[c] = "closed" ~> /\ mainTask[c] = "done"
                            /\ recvTask[c] \in {"done", "aborted"}
                            /\ ~ rxOpen[c]

\* A dead session still listed in a room is swept out by the next broadcast
\* to that room.
BroadcastSweeps ==
  \A c \in ClientId, room \in DocumentId :
    (~ rxOpen[c] /\ \E i \in 1..Len(cmds) : cmds[i].op = "broadcast"
                                            /\ cmds[i].room = room)
      ~> c \notin Members(room)
=============================================================================
