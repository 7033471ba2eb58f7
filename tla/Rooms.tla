-------------------------------- MODULE Rooms --------------------------------
(***************************************************************************)
(* The rooms coordinator of src/rooms.rs: one task that owns the room      *)
(* memberships and consumes RoomCommands from a bounded channel, and the   *)
(* bounded channel of ServerMessages it keeps per connected client.        *)
(*                                                                         *)
(* The module has the coordinator's own steps and the three non-blocking   *)
(* operations of RoomsHandle; WebSocket.tla composes it with the sessions  *)
(* that call them.  A payload is the pair of its sender and the number the *)
(* sender gave it: texts, hint lists and timestamps are not modelled.  The *)
(* room of a payload is carried in the message for the properties to read. *)
(***************************************************************************)
EXTENDS Naturals, Sequences

CONSTANTS
  ClientId,         \* the connections (a fresh UUID per connection)
  DocumentId,       \* the rooms
  NoRoom,           \* the None of Option<DocumentId>
  RoomsCapacity,    \* slots of the coordinator's command channel
  ClientCapacity    \* slots of each client's outbound channel

ASSUME RoomsAssumption ==
  /\ NoRoom \notin DocumentId
  /\ RoomsCapacity \in Nat \ {0}
  /\ ClientCapacity \in Nat \ {0}

VARIABLES
  cmds,         \* the command channel: RoomCommands not yet handled, oldest first
  rooms,        \* HashMap<DocumentId, Vec<(ClientId, Sender)>>; entries per client
  outbox,       \* per client, the ServerMessages its send task has not taken
  rxOpen,       \* per client, whether the receiving end of outbox still exists
  acks,         \* <<client, request>>: the join oneshots the coordinator fired
  fanoutDrops   \* per client, its share of the metric fanout_drops_total

roomsVars == <<cmds, rooms, outbox, rxOpen, acks, fanoutDrops>>

-----------------------------------------------------------------------------
(* Messages and commands.                                                  *)

MessageType == [type : {"message"}, room : DocumentId, from : ClientId, seq : Nat]
InvalidationType == [type : {"invalidation"}, room : DocumentId, seq : Nat]
Payload == MessageType \cup InvalidationType

ServerMessage ==
  Payload \cup [type : {"joined"}, room : DocumentId] \cup [type : {"error"}]

JoinCommand ==
  [op : {"join"}, room : DocumentId, client : ClientId, req : Nat]
LeaveCommand == [op : {"leave"}, room : DocumentId, client : ClientId]
BroadcastCommand == [op : {"broadcast"}, room : DocumentId, message : Payload]
RoomCommand == JoinCommand \cup LeaveCommand \cup BroadcastCommand

Join(room, client, req) ==
  [op |-> "join", room |-> room, client |-> client, req |-> req]
Leave(room, client) == [op |-> "leave", room |-> room, client |-> client]
Broadcast(room, message) ==
  [op |-> "broadcast", room |-> room, message |-> message]

-----------------------------------------------------------------------------
(* The two channels.  try_send never waits: it fails when the buffer is    *)
(* full, and for an outbox also when its receiver is gone.                 *)

ChannelFull_OffByOne == Len(cmds) > RoomsCapacity

ChannelFull == Len(cmds) >= RoomsCapacity

TrySendCommand(cmd) == ~ ChannelFull /\ cmds' = Append(cmds, cmd)

\* outbox of client after try_send(message) by its own session
Reply(client, message) ==
  outbox' = IF rxOpen[client] /\ Len(outbox[client]) < ClientCapacity
            THEN [outbox EXCEPT ![client] = Append(@, message)]
            ELSE outbox

-----------------------------------------------------------------------------
(* The map of rooms.  rooms[room][client] counts the client's entries in   *)
(* the room's Vec: joining twice pushes a second entry.                    *)

Entries(room, client) == IF room \in DOMAIN rooms THEN rooms[room][client] ELSE 0

Members(room) == {client \in ClientId : Entries(room, client) > 0}

\* the map with the room's Vec replaced
SetRoom(room, entries) ==
  [r \in DOMAIN rooms \cup {room} |-> IF r = room THEN entries ELSE rooms[r]]

\* An operator named F_Something, here and in WebSocket, is F with a
\* mistake that some property has to notice; no specification uses it.
WithoutClients_KeyStays(room, gone) ==
  SetRoom(room, [c \in ClientId |-> IF c \in gone THEN 0 ELSE rooms[room][c]])

WithoutClients_OneEntry(room, gone) ==
  SetRoom(room, [c \in ClientId |->
    IF c \in gone /\ rooms[room][c] > 0 THEN rooms[room][c] - 1 ELSE rooms[room][c]])

\* the map after retain() drops the clients `gone`, and the key if none is left
WithoutClients(room, gone) ==
  IF Members(room) \subseteq gone
  THEN [r \in DOMAIN rooms \ {room} |-> rooms[r]]
  ELSE SetRoom(room, [c \in ClientId |-> IF c \in gone THEN 0 ELSE rooms[room][c]])

-----------------------------------------------------------------------------
(* The coordinator's three handlers, each run to its end on the oldest     *)
(* command: rooms_coordinator awaits nothing but rx.recv().                *)

RoomsInit ==
  /\ cmds = <<>>
  /\ rooms = [r \in {} |-> [c \in ClientId |-> 0]]
  /\ outbox = [c \in ClientId |-> <<>>]
  /\ rxOpen = [c \in ClientId |-> TRUE]
  /\ acks = {}
  /\ fanoutDrops = [c \in ClientId |-> 0]

Receive(op) == cmds # <<>> /\ Head(cmds).op = op /\ cmds' = Tail(cmds)

HandleJoin_AckOnly ==
  /\ Receive("join")
  /\ rooms' = IF Head(cmds).room \in DOMAIN rooms THEN rooms
              ELSE SetRoom(Head(cmds).room, [c \in ClientId |->
                     IF c = Head(cmds).client THEN 1 ELSE 0])
  /\ acks' = acks \cup {<<Head(cmds).client, Head(cmds).req>>}
  /\ UNCHANGED <<outbox, rxOpen, fanoutDrops>>

HandleJoin ==
  /\ Receive("join")
  /\ LET cmd == Head(cmds) IN
       /\ rooms' = SetRoom(cmd.room, [c \in ClientId |->
                     Entries(cmd.room, c) + (IF c = cmd.client THEN 1 ELSE 0)])
       /\ acks' = acks \cup {<<cmd.client, cmd.req>>}
  /\ UNCHANGED <<outbox, rxOpen, fanoutDrops>>

HandleLeave ==
  /\ Receive("leave")
  /\ LET cmd == Head(cmds) IN
       rooms' = IF cmd.room \in DOMAIN rooms
                THEN WithoutClients(cmd.room, {cmd.client})
                ELSE rooms
  /\ UNCHANGED <<outbox, rxOpen, acks, fanoutDrops>>

\* entries of client in room whose try_send finds a free slot
Accepted(room, client) ==
  LET free == ClientCapacity - Len(outbox[client])
      n == Entries(room, client)
  IN IF ~ rxOpen[client] THEN 0 ELSE IF n <= free THEN n ELSE free

Copies(room, client, message) == [i \in 1..Accepted(room, client) |-> message]

Fanout_NewestFirst(room, client, message) ==
  Copies(room, client, message) \o outbox[client]

\* the outbox of client after the loop's pushes
Fanout(room, client, message) ==
  outbox[client] \o Copies(room, client, message)

Dropped_Uncounted(room, client) == 0

\* the pushes of the loop that found the outbox full
Dropped(room, client) ==
  IF rxOpen[client] THEN Entries(room, client) - Accepted(room, client) ELSE 0

Failed_None(room) == {}

Failed_FullToo(room) ==
  {c \in Members(room) : Accepted(room, c) < Entries(room, c)}

\* failed_clients
Failed(room) == {c \in Members(room) : ~ rxOpen[c]}

HandleBroadcast ==
  /\ Receive("broadcast")
  /\ LET room == Head(cmds).room
         message == Head(cmds).message
     IN /\ outbox' = [c \in ClientId |-> Fanout(room, c, message)]
        /\ fanoutDrops' = [c \in ClientId |-> fanoutDrops[c] + Dropped(room, c)]
        /\ rooms' = IF Failed(room) = {} THEN rooms
                    ELSE WithoutClients(room, Failed(room))
  /\ UNCHANGED <<rxOpen, acks>>

Coordinator == HandleJoin \/ HandleLeave \/ HandleBroadcast

-----------------------------------------------------------------------------
RoomsTypeOK ==
  /\ cmds \in Seq(RoomCommand)
  /\ Len(cmds) <= RoomsCapacity
  /\ DOMAIN rooms \subseteq DocumentId
  /\ rooms \in [DOMAIN rooms -> [ClientId -> Nat]]
  /\ outbox \in [ClientId -> Seq(ServerMessage)]
  /\ \A c \in ClientId : Len(outbox[c]) <= ClientCapacity
  /\ rxOpen \in [ClientId -> BOOLEAN]
  /\ acks \subseteq ClientId \X Nat
  /\ fanoutDrops \in [ClientId -> Nat]
=============================================================================
