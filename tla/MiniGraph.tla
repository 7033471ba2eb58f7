------------------------------- MODULE MiniGraph -------------------------------
(***************************************************************************)
(* The whole server of src/lib.rs: the sessions and the coordinator of     *)
(* WebSocket.tla and the WAL reader of WalReader.tla as one process over   *)
(* one command channel.  run_server gives both a handle of the same        *)
(* coordinator; the reader's sink is one more caller of it, so that what   *)
(* either puts on the channel takes a slot from the other.                 *)
(*                                                                         *)
(* WebSocket has the channel with whole commands; the reader's view of it  *)
(* is the rooms of those commands.  When the process dies everything but   *)
(* the database dies with it, connections included.                        *)
(***************************************************************************)
EXTENDS WebSocket

CONSTANTS Transactions, OtherText, Null, Unchanged, MaxTransactions, MaxFaults

VARIABLES
  log, confirmed, tx, pos, announced, connected, faults,
  reader, relations, transaction, routed, appliedLsn, stopSent,
  consumed, dropped, slotActive,
  sent, settled,
  since           \* history: the invalidations sent before each session joined its room

readerVars == <<log, confirmed, tx, pos, announced, connected, faults, reader, relations,
                transaction, routed, appliedLsn, stopSent, consumed, dropped, slotActive,
                sent, settled>>
systemVars == <<vars, readerVars, since>>

Wal == INSTANCE WalReader WITH cmds <- [i \in DOMAIN cmds |-> cmds[i].room]

ASSUME MiniGraphAssumption ==
  /\ Null \notin Wal!Text /\ Unchanged \notin Wal!Text
  /\ \A changes \in Transactions :
       /\ changes \in Seq({changes[i] : i \in DOMAIN changes})
       /\ \A i \in DOMAIN changes : Wal!IsChange(changes[i])
  /\ MaxTransactions \in Nat
  /\ MaxFaults \in Nat

SystemInit == Init /\ Wal!Init /\ since = [c \in ClientId |-> 0]

-----------------------------------------------------------------------------
(* Steps of one part.  What sessions and coordinator do to the channel is  *)
(* WalReader's SessionsSend and RoomsTake.                                 *)

RoomsStep ==
  /\ CoordinatorStep \/ SessionsNext
  /\ since' = [c \in ClientId |->
       IF currentRoom'[c] # currentRoom[c] THEN invalidations ELSE since[c]]
  /\ UNCHANGED readerVars

DatabaseStep ==
  /\ UNCHANGED <<vars, since>>
  /\ (\E changes \in Transactions : Wal!Commit(changes)) \/ Wal!ConfirmApplied \/ Wal!LoseStream

ReaderStep ==
  /\ UNCHANGED <<vars, since>>
  /\ \/ Wal!StopCommand \/ Wal!Connect \/ Wal!RecvStop \/ Wal!SlotPoll \/ Wal!RecvEnd
     \/ Wal!RecvBegin \/ Wal!RecvRelation \/ Wal!RecvRow \/ Wal!RecvCommit \/ Wal!EndCommit

-----------------------------------------------------------------------------
(* Steps of both.                                                          *)

\* RoomsInvalidationSink::send_invalidation, from the reader's loop
Invalidate(room) ==
  SendInvalidation(room) /\ Wal!SendInvalidation(room) /\ UNCHANGED since

\* The process is started again: run_server makes a new channel, and the
\* connections of the model are now others.
NewProcess ==
  /\ cmds' = <<>>
  /\ rooms' = [r \in {} |-> [c \in ClientId |-> 0]]
  /\ outbox' = [c \in ClientId |-> <<>>]
  /\ rxOpen' = [c \in ClientId |-> TRUE]
  /\ acks' = {}
  /\ fanoutDrops' = [c \in ClientId |-> 0]
  /\ socket' = [c \in ClientId |-> "open"]
  /\ recvTask' = [c \in ClientId |-> "next"]
  /\ sendTask' = [c \in ClientId |-> "running"]
  /\ mainTask' = [c \in ClientId |-> "select"]
  /\ joining' = [c \in ClientId |-> NoRoom]
  /\ currentRoom' = [c \in ClientId |-> NoRoom]
  /\ frames' = [c \in ClientId |-> 0]
  /\ cmdDrops' = [c \in ClientId |-> 0]
  /\ invalidations' = 0
  /\ since' = [c \in ClientId |-> 0]
  /\ wire' = [c \in ClientId |-> <<>>]
  /\ expected' = [c \in ClientId |-> {}]
  /\ Wal!Crash \/ Wal!Restart

SystemNext ==
  \/ RoomsStep
  \/ DatabaseStep
  \/ ReaderStep
  \/ \E room \in DOMAIN routed : Invalidate(room)
  \/ NewProcess

SystemSpec == SystemInit /\ [][SystemNext]_systemVars

-----------------------------------------------------------------------------
\* From the database to a peer: an invalidation that a served peer receives or
\* has in its outbox is of a room it is a member of, and stands for a send of the
\* reader that fitted the channel, for a transaction that committed and changed a
\* row of that room's document (replication.rs:262, rooms.rs:141).
PeersHearCommits ==
  \A c \in ClientId : Live(c) =>
    \A m \in Received(c) : m.type = "invalidation" =>
      /\ c \in Members(m.room)
      /\ m.seq \in DOMAIN sent /\ sent[m.seq].ok /\ sent[m.seq].room = m.room
      /\ m.room \in Wal!OwedRooms(log[sent[m.seq].tx])

\* ... and of several transactions it hears in the order in which they committed
\* (rooms.rs:91, websocket.rs:152).
CommitOrder ==
  \A c \in ClientId : \A i, j \in 1..Len(Stream(c)) :
    LET m == Stream(c)[i]
        n == Stream(c)[j]
    IN i < j /\ m.type = "invalidation" /\ n.type = "invalidation"
         => sent[m.seq].tx <= sent[n.seq].tx

\* the sends accepted for the room of c after it had joined, of which its peer has
\* nothing and will have nothing
Unheard(c) ==
  {i \in DOMAIN sent :
     /\ sent[i].ok /\ sent[i].room = currentRoom[c] /\ since[c] < i
     /\ Invalidation(sent[i].room, i) \notin Received(c)
     /\ ~ Pending(Invalidation(sent[i].room, i))}

\* A transaction that the reader has dealt with and Postgres still keeps has been
\* answered by this very process, in every room it owes; and each answer is either
\* counted as refused by the full channel, or has reached, or is on its way to,
\* every session that was in the room, except for as many as the coordinator
\* counted as that session's fan-out drops (replication.rs:249-281, rooms.rs:141).
CommitsReachPeers ==
  /\ \A t \in confirmed + 1 .. tx - 1 : \A room \in Wal!OwedRooms(log[t]) :
       \E i \in DOMAIN sent :
         sent[i].tx = t /\ sent[i].room = room /\ (sent[i].ok \/ dropped > 0)
  /\ \A c \in ClientId : Live(c) /\ socket[c] = "open" =>
       Cardinality(Unheard(c)) <= fanoutDrops[c]

\* where the invalidations are in what the peer of c has received
Invalidations(c) == {i \in DOMAIN wire[c] : wire[c][i].type = "invalidation"}

\* the transactions and rooms whose invalidation has reached the peer of c
HeardOf(c) ==
  {<<sent[m.seq].tx, m.room>> : m \in {wire[c][i] : i \in Invalidations(c)}}

\* What the database and the peers are promised: see Notifications.
Promised == INSTANCE Notifications WITH
  OwedRooms <- Wal!OwedRooms,
  heard <- [c \in ClientId |-> HeardOf(c)]

\* Seen from the database and from the sockets, the server with all its tasks,
\* channels and crashes only settles transactions in commit order, forgets what is
\* settled, and tells a peer of settled ones, in that order (replication.rs:249-281,
\* rooms.rs:91, websocket.rs:152).
ImplementsNotifications == Promised!Spec

\* The sessions and the coordinator do nothing to the channel they share with the
\* reader but what the reader's module allows them: put a command into a free slot
\* and take the oldest (rooms.rs:27-67, lib.rs:24-26).
ImplementsReader == Wal!Spec
================================================================================
