# A formal model of minigraph

minigraph is a small collaborative server: WebSocket clients join document
rooms and chat in them, and a reader of PostgreSQL's write-ahead log tells a
room when the rows of its document have changed.  This directory holds TLA+
modules that model its moving parts, TLC configurations that check them on
small instances, and theorems about them that TLAPS proves for every instance.
Line numbers below are those of the repository (`src/rooms.rs` and so on).

Contents: [parts](#1-the-parts-of-the-system) ·
[modules](#2-modules-and-their-correspondence-to-the-code) ·
[runs](#3-what-the-runs-check) · [fairness](#4-fairness) ·
[proofs](#5-what-is-proved) · [disagreements](#6-where-code-and-documents-disagree) ·
[abstractions](#7-abstractions-and-what-is-not-modelled) · [plan](#8-plan)

## 1. The parts of the system

| Part | State | Operations | What makes it correct |
|---|---|---|---|
| Rooms coordinator (`rooms.rs`) | `rooms`: document → list of (client, sender); a channel of 256 commands | `Join`, `Leave`, `Broadcast`, handled one by one; callers use `try_send` | members follow the sessions; a slow or dead client costs the others nothing; no empty rooms; losses are counted |
| WebSocket sessions (`websocket.rs`) | per connection: `current_room`, an outbox of 256 messages, three tasks | read a frame, handle it, write a message, tear down | a served session is in the room it thinks it is in; all tasks end when the peer goes; order of messages |
| Invalidation sink (`wal/sink.rs`) | none | `send_invalidation` → `broadcast_to_room` | never waits |
| WAL reader (`wal/replication.rs`) | relations, open transaction, applied LSN | one branch of a `select!` per event: stop, slot poll, row, BEGIN, COMMIT, end of stream | each COMMIT tells each affected room exactly what changed, once; the slot never passes a loss nobody counted |
| Decoding (`wal/pgoutput.rs`, `byte_reader.rs`, `types.rs`) | none | bytes → messages → row events | one event per row change of a known relation |
| Hints (`wal/hint_generator.rs`, `router.rs`, `transaction.rs`) | hints of the open transaction | event → hints → rooms | both documents of a moved comment; grouped per room |
| Subscription index (`edge/subscription_index.rs`) | two maps, converse of one another | subscribe, unsubscribe, update, look up | no ghost and no missed subscription, no growth |
| Metrics (`metrics.rs`) | atomic counters and gauges | increment, sample, snapshot | counters match what happened; a snapshot is coherent |
| Postgres setup (`postgres/setup.rs`) | the database's tables, publication, slot | a list of statements | safe to repeat from any prefix and beside another server; the slot comes last |
| Bootstrap (`lib.rs`, `main.rs`, `state.rs`) | none | start everything in order | coordinator before WAL reader |
| Load test (`bin/loadtest.rs`) | a barrier between main and the subscribers, each subscriber's counters, one clock | join, produce, measure, report | ends; blames the server for no loss it did not count |
| Capture tool, browser client, logging | – | – | – |

How they interact: sessions and the sink share the coordinator's bounded
command channel; the coordinator and each session's own replies share that
session's bounded outbox; a `Join` carries a oneshot for its ack, which the
session awaits for 250 ms; the WAL reader calls the sink at each COMMIT and then
reports the LSN to Postgres.  No send ever waits: a full channel is an error
that somebody has to count.

What is hard: the three tasks of a session abort each other at any await; a
join's ack races its timeout; a full channel loses a `Leave` for good; a crash
falls between two invalidations of one COMMIT; a relation changes in the middle
of a transaction; sessions and reader take each other's slots of one channel;
two servers set one database up.  `PROJECT.json` lists these hazards at their
lines, each with the properties that would notice it going wrong.

## 2. Modules and their correspondence to the code

| Module | Role |
|---|---|
| `Rooms` | the coordinator, its channel and the outboxes it fans out to |
| `WebSocket` | the sessions, over `Rooms` |
| `RoomMembership` | abstract: who may be in a room, by whose doing |
| `Hints`, `PgOutput` | operators: hint generation and routing; what a pgoutput message becomes |
| `WalReader` | the reader, over those, with Postgres and the failures around it |
| `Invalidator` | abstract: commits are settled in order, and forgotten only when settled |
| `PgOutputBytes`, `WalPayloads` | operators: the byte reader and the parsers; Postgres' encoding and what the parsers must make of it |
| `MiniGraph` | the whole server: `WebSocket` and `WalReader` as one process over one command channel |
| `Notifications` | abstract: what the whole server promises the database and the peers |
| `SubscriptionIndex`, `SubscriptionMap` | the two indexes; abstract: one map |
| `Metrics` | the resource sampler against the snapshots, atomic by atomic |
| `Setup` | the statements of the setup by several servers, Postgres and the failures around them |
| `LoadTest` | the load test client, with the server as it looks from outside |
| `MCWebSocket`, `MCWalReader`, `MCMiniGraph`, `MCSubscriptionIndex`, `MCSetup`, `MCLoadTest` | the small instances TLC checks |
| `WebSocketProofs`, `WebSocketDeliveryProofs` | types and who hears what; over that, in which order, and what is lost |
| `WalReaderProofs`, `WalPayloadsProofs`, `MiniGraphProofs` | the reader; the parsers, over that; the whole server, from sessions and reader |
| `SubscriptionIndexProofs`, `SetupProofs`, `LoadTestProofs` | lemmas, theorems, proofs of those three |

An operator whose name has an underscore (`Fanout_NewestFirst`) is the operator
before the underscore with one mistake in it.  No specification uses it;
`PROJECT.json` pairs it with the property that notices when it takes the
place of the right one.

### Rooms and WebSocket

| State | In the code |
|---|---|
| `cmds` | the mpsc channel of `RoomCommand`s, `rooms.rs:18` |
| `rooms[room][client]` | how many entries of the room's `Vec` are the client's; a client may have several |
| `outbox`, `rxOpen` | the mpsc channel of `websocket.rs:145`, and whether its receiver (owned by `send_task`) still exists |
| `acks` | the join oneshots that were fired and not yet received |
| `fanoutDrops`, `cmdDrops` | `fanout_drops_total` and `actor_cmd_drops_total`, split by client so that a property can say whose loss was counted |
| `invalidations` | history only: the calls of `send_invalidation`, which number its messages |
| `recvTask`, `sendTask`, `mainTask` | where each of a connection's tasks is |
| `joining`, `currentRoom` | the `document_id` a join is awaiting; `Session::current_room` |
| `wire`, `expected` | history only: what the peer got, what it was owed |

`HandleJoin`, `HandleLeave`, `HandleBroadcast` are the arms of the coordinator's
`match`.  `RecvJoin` is the `Join` arm of `handle_client_message` up to its
await; `AckJoin` and `TimeoutJoin` are what may follow; `RecvSendMessage`,
`RecvSendMessageTo` and `RecvInvalid` are the other frames.  `SendDeliver` and
`SendFail` are `send_task`.  `MainSelect` is the `select!` of `handle_socket`,
`MainLeave` what comes after it, `RecvAborted` and `SendAborted` the moments at
which an abort takes effect.

Granularity.  The coordinator awaits nothing but its channel, so one command is
one step.  Its fan-out is one step although other threads may take from an
outbox meanwhile: pushes to different outboxes commute, so for clients with one
entry nothing is lost by this; for a client with several entries, the model
does not let its send task run between two of its copies.  A frame is one step
up to its first await that can block (`current_room` is a mutex held for one
assignment), its error reply included.  `abort()` only requests: the runtime of
`#[tokio::main]` has several workers, so a task that is being polled goes on to
its next await, which is why `recvTask` may still act while `mainTask` is
`"leaving"`.

### WalReader

| State | In the code |
|---|---|
| `log`, `confirmed`, `tx`, `pos`, `announced`, `connected` | external: the slot's transactions, its `confirmed_flush_lsn`, the position of the stream, the relations announced on it, the connection |
| `reader` | `"starting"`, at the `select!`, `"sending"` inside COMMIT, or how it ended |
| `relations`, `transaction` | the locals of `replication.rs:147-148`; `<<>>` is `None` |
| `routed` | what is left of the loop `for (document_id, hints) in routed` |
| `appliedLsn` | the last value given to `set_wal_lsn` and `update_applied_lsn` |
| `consumed`, `dropped`, `slotActive` | the metrics of those names |
| `sent`, `settled` | history only: this process's sends and every process's |

The branches of `select!` are `RecvStop`, `SlotPoll`, `RecvBegin`,
`RecvRelation` and `RecvRow` (XLogData), `RecvCommit`/`SendInvalidation`/`EndCommit`
(COMMIT) and `RecvEnd`.  COMMIT is several steps because the coordinator empties
its channel (`RoomsTake`), sessions fill it (`SessionsSend`), and the process may
die, between two sends.  `Crash` kills the
server anywhere; `Restart` is an operator who restarts one whose reader has
ended.  Both lose everything but the database.

What is assumed of the external parts: a walsender resumes after the confirmed
transaction and sends whole transactions in commit order; it announces a
relation before its first row of a session and whenever the columns changed;
`comments` has `REPLICA IDENTITY FULL` and `documents` the default one, as
`setup.rs` leaves them; an XLogData carries one message.

`RecvRelation` and `RecvRow` take a message where the code takes bytes.
`WalPayloads` is the bridge: it has Postgres encode the message that is next in
the stream, and `PayloadsAreDecoded` says that `PgOutputBytes`, the translation of
`parse_pgoutput_messages` over `ByteReader`, gives that message back for the
whole payload and an error for every shorter one.  So the message level leaves
nothing out of what the reader would see.  A loop of the parsers is `Iterate`, a
function on the number of its turns: as many as there are bytes are enough, since
each turn takes one or fails.

### MiniGraph

`run_server` makes one coordinator and hands it to the sessions and to the
sink.  `MiniGraph` has the variables of both modules but only one channel:
`WalReader` is instantiated with the rooms of the commands in `cmds`.  A step is
one of the sessions or the coordinator (`RoomsStep`), of the database or of the
reader alone, a send of the reader, which is `SendInvalidation` of both modules
at once (`Invalidate`), or a `NewProcess`, which starts everything anew but the
database.  Nothing is assumed here of what a session or the reader puts on the
channel: each does what its module says.  `since` is history: how many
invalidations had been sent when a session joined its current room, so that a
property can tell which of them are for it.

`Notifications` is the server as the database and the peers see it.  Its state is
that of `Invalidator` and what each peer has heard of, which in `MiniGraph` is
`HeardOf`: the transactions behind the invalidations on the wire.  A peer may
hear of what is settled and not earlier than what it has heard; a `NewProcess`
is `Renew`, new peers that have heard nothing beside a database that remembers.

### SubscriptionIndex

`inverted` and `subscriptionHints` are the two fields, as functions on the keys
present; `answer` is the last call's return value.  Every method has the index
to itself (`&mut self` or `&self`), so every call is one step, its loops
included.  Nothing in the server calls the index yet: `Next` is any sequence of
calls.

### Metrics

`record_resource_sample` and `snapshot` are loops over `RecordOps` and `SnapshotOps`,
the atomics in the order in which the code touches them, and every access is a
step.  The counters that other tasks add to, once each, are variables of the
modules of those tasks.

### Setup

`at[server]` is the statement a server executes next, named after what it
makes; `database` and `slots` are what exists.  The connection is in autocommit
mode, so a statement commits by itself.  A `CREATE` is two steps, since Postgres
looks for the object (`LookUp`) before it enters it in a catalog (`Create`), and
`IF NOT EXISTS` covers only the first.  An object that is found is as good as made:
`IF NOT EXISTS`, or for the publication error 42710, which `is_duplicate_object`
(`setup.rs:116-123`) takes for success.  An object that another server has made
since is a unique violation, error 23505, which nothing here accepts: setup
returns it and the server exits, for the publication too.  `creating` has the
servers between the two steps.  `Alter` repeats without harm.  `FindSlot` and
`CreateSlot` are the two queries of
`ensure_replication_slot`; the second one's duplicate is an error.  `Fail` is any
other error, a lost connection whose statement may or may not have been carried
out, or a crash, also of a server that is long since running: all of them end
the process (`lib.rs:19-22`).  `Start` is the operator.  Nothing in the code drops
an object, so nothing here does.  `begun` is history: what existed when the
attempt under way connected.

### LoadTest

`sub`, `main` and `producer` are where the tasks are; `joinedMsgs` is the channel
of the barrier, whose senders live as long as `run_subscriber` runs; `clock` is
where time is among `start`, `test_end` and `drain_end`.  The producer looks at
the clock before it waits for its tick, so it may send one message late.  Its
connection holds `Window` frames; beyond them `sink.send` waits.  The three calls
without a timeout, `connect_async` of the producer, its `sink.send` and the last
`fetch_metrics`, are steps of their own (`ProducerConnect`, `ProducerSend`, `Report`).

The server answers joins or not, takes the producer's messages in order and drops
some as commands or in the fan-out: what `WebSocket` allows, without its reasons.
`connected` and `served` are apart because the server notices a lost connection
later; until then it fans out to a session nobody reads.  `cmdDrops` is the metric
`actor_cmd_drops_total`, which also counts the `Join` (`websocket.rs:62-64`, in
`FailJoin`) and the `Leave` (`websocket.rs:223-226`, in `EndSession`) that a full
channel refused.  The main task of a session sends one `Leave` at most and a
subscriber one `Join`, and a subscriber whose `Join` was refused has no `Leave`: so
each it is done with adds one at most.  Frames that a lost connection of the
producer never delivers stay in `toServer`.  That the server accepts a command and
fans it out is one step; no other client uses the server during the test.

## 3. What the runs check

| Run | Instance | Shows |
|---|---|---|
| `order` | `MiniGraph`: 2 clients, 1 room, channels of 2, 2+1 frames, 1 transaction, 1 fault; nobody disconnects | messages of one sender stay in order, peers agree on the order of everything, what a live session misses was counted as its drop; a commit reaches the rooms it owes, and a peer hears of nothing else |
| `peer` | `MiniGraph`: 1 client, 2 rooms, channels of 2, 1 frame, 2 transactions, 1 fault; the peer may leave | a peer hears of settled commits of its room, in commit order (`Notifications`); the sessions are what the reader's module takes them for |
| `teardown` | 2 clients, 2 rooms, outboxes of 1, 2+1 frames, moves between rooms, disconnects anywhere | types, the inductive invariant, membership, clean leaves, no empty rooms, refinement of `RoomMembership` |
| `live` | 2 clients, channels of 1, 1+1 frames, 1 invalidation | sessions are torn down; dead entries are swept |
| `wal_reader` | 2 transactions out of 5 kinds, channel of 1, 2 faults | the inductive invariant, exact and single invalidations, no silent loss, decoded payloads, refinement of `Invalidator`, every commit reported in the end |
| `subscription_index` | 2 subscriptions, 3 hints | the two indexes are one map and keep nothing empty |
| `setup` | 3 servers, 2 slot names, 2 failures, racing `CREATE`s | slots come last, a server that starts has everything, nothing older than an attempt ends it, and each succeeds in the end |
| `load_test` | 2 subscribers, 3 messages, a window of 2, connections ending anywhere, Joins and Leaves refused | the inductive invariant, losses are the server's and counted, a started test ends if the server serves on |
| `rejoin`, `wal_reader_schema`, `metrics_average`, `load_test_hang` | smallest that does it | the disagreements of section 6 |

Why the bounds are enough.  Capacities of 1 or 2 stand for 256: what matters is
that a channel is empty, has room for one more or is full, and each instance
reaches all three.  Two clients give every pair of roles (sender and receiver,
living and dead, member and leaver).  Two or three frames let one client join
twice, or join, be refused and join again, or join and send twice.  Two
transactions give a redelivered one and the next; two faults give a crash in
the recovery from another.  In the whole server one transaction and one crash
give a redelivery whose first answer is still in somebody's outbox, and three
senders (two peers and the reader) overflow channels of two.  Two transactions
are beyond TLC with two peers, and their order needs only one: `peer` has them,
with an outbox that holds both, and everything a peer may do; the commits are of one
room, and the peer may be in the other.  Two subscriptions
share, or do not share, each of three hints, and update between any two sets of
them.  Two servers race for a slot and a third has its own; three messages make a
gap of one between two, and one more than a window of two makes the producer wait.
No symmetry is declared: the clients and servers differ in their bounds, and
most of the runs are temporal.

`CHECK_DEADLOCK FALSE` is set for the server's runs because the bounded
environment really stops: peers send finitely many frames and leave, the
database commits finitely often, a load test ends, a setup is over.  The
subscription index is checked for deadlock.

Properties worth a second look:

- `JoinedIsMember`: the ack is sent after the push, but the session may time
  out, join again, move and be aborted in between; it still never believes
  itself in a room it was not put into.
- `CleanDisconnectLeavesRoom` says exactly when a disconnect does leave the
  room: the reading task ended first and no command of the client was dropped.
  Without either premise it fails (the abort races the join; a dropped `Leave`
  is not retried) and only `BroadcastSweeps` is left: the next broadcast to the
  room removes the dead entry.
- `NoSilentLoss` ties the slot's LSN, which survives crashes, to what all the
  processes so far have sent or counted: it is why the LSN is reported after
  the loop and not before.
- `CommitsReachPeers` and `PeersHearCommits` are the two directions of the way
  from the database to the socket.  The first says that nothing the slot may
  still redeliver is taken as dealt with because an earlier process, whose
  channel died with it, had sent it; that what the full channel refused was
  counted; and that what it accepted after a session had joined the room has
  reached the peer or is on its way, but for as many as the coordinator counted
  as that session's drops.  The second says that no interleaving with chat,
  joins and full channels makes a peer hear of a commit that is not its room's.
- `NothingOlderEndsSetup` is what "safe to run again" can mean here.  An attempt
  may well end because another server did the same thing at the same time; it
  never ends because of what was there before it began.
- `LossesExplained` has two sides because the metric does not say what kind of
  command it counts: what a subscriber missed is in the two numbers main
  subtracts, and they may exceed it, by one for each subscriber the server is
  done with and by no more.
- `ImplementsNotifications` says at once what `NoSilentLoss`, `ImplementsInvalidator`
  and `CommitOrder` say of the parts: on the way from the commit to the socket lie
  three queues, four tasks and a crash anywhere, and outside none of them shows.
- `ImplementsReader` is why the runs of `WalReader` alone mean something: what it
  assumes of its channel's other users is what sessions and coordinator do.
- `InvalidationsAreExact` compares what a room is told with what the rows of
  the transaction were before and after, which the code never sees directly.

## 4. Fairness

`FairSpec` of `WebSocket`: tokio polls a task that is ready, so weak fairness of
the coordinator, of `recv_task`'s own continuations, of `handle_socket` and of
the effect of an abort.  None of a peer (frames, closing), of the WAL reader, or
of a write that completes: a send task may hang on a stalled peer, and
`SessionTornDown` must hold nevertheless, by the abort.

`FairSpec` of `WalReader`: weak fairness of the reader as one task, of the
coordinator and of the client library's status update, which a timer of 10
seconds drives.  None of the database, of faults or of the slot poll, which
never happens when its SQL connection could not be made.  `RestartedSpec` adds
that a server whose reader has ended is restarted, which the code does not do
itself.  `EveryCommitReported` is stated for tables that keep their columns: a
row from before an `ALTER` and one from after may be redelivered together, and
the reader then ends at the second before its library has reported the first.
How soon the library reports is not this repository's to say, beyond the
`status_interval` of 10 seconds, and the model does not assume it is in time.

`FairSpec` of `Setup`: statements are answered and exited servers started again.
`FairSpec` of `LoadTest` has two parts.  `ClientFair`: tasks run when they can and
time passes; no connection has to end.  `ServerFair` is about the server and the
network, and the client does not enforce it: `connect_async` (327), `sink.send`
(358) and the last `fetch_metrics` (212) have no timeout, so that a server that
accepts a connection and then stalls keeps a started test from its end for ever.
The hazard is listed in `PROJECT.json`; `StartedTestEnds` says that nothing else
does so.  That this server takes frames is justified by its code: `recv_task` waits
for nothing but the next frame and, 250 ms at most, a join (`websocket.rs:170-204`).
It need take only what a producer still waits for (`Serving`).  A join is over
within its 5 seconds once its connection stands.

## 5. What is proved

TLAPS checks these for every set of clients, rooms, subscriptions, hints,
transactions, servers and subscribers, every capacity and every number of frames, commits,
crashes and lost streams.  The assumptions are named in the modules:
capacities are positive and `NoRoom` is no room (`Rooms`); the bounds are
naturals (`WebSocket`, `WalReader`, `Setup`, `LoadTest`); a load test has subscribers,
finitely many, and its connections hold a frame; a null and an unchanged value are no
texts (`Hints`, `PgOutput`); a transaction is a sequence of changes whose tuples
have the key column, an old row where there was one and a new one where there
is one (`WalReader`, and the same again in `MiniGraph`); names and texts are
bytes without a zero and fit an `i32`'s length, a table has at most 65535 columns
and a relation id is four bytes (`WalPayloads`; Postgres' own limits are 1 GB and
1600); every server has a slot name (`Setup`).

| Theorem | Statement |
|---|---|
| `TypeCorrect` | `Spec => []TypeOK` of `WebSocket`, the bounds on the channels included |
| `MembershipCorrect` | `Spec => []MembershipInv`, the inductive invariant |
| `JoinedCorrect`, `HearCorrect` | the two parts of it that matter to a peer |
| `MembershipRefined` | coordinator and sessions implement `RoomMembership` |
| `OrderCorrect`, `SenderOrderCorrect`, `AgreementCorrect` | `OrderInv`, and its two parts that matter to a peer |
| `LossesCorrect`, `DisconnectCorrect`, `NoEmptyRoomsCorrect` | losses are counted; a clean disconnect leaves its room; the map keeps no empty room |
| `ReaderCorrect`, `ReaderTypeCorrect` | `Spec => []ReaderInv` of `WalReader`, the inductive invariant, and its types |
| `ExactInvalidations`, `SentOncePerCommit`, `NothingLostSilently` | the three properties of the reader |
| `InvalidatorImplemented` | the reader, with all its failures, implements `Invalidator` |
| `PayloadsDecoded` | every payload of the stream is parsed into its message, and refused when cut, whatever its columns, texts and lengths |
| `SystemCorrect`, `PathCorrect` | all of these invariants hold of `MiniGraph`, where the parts share a channel and disconnects are allowed |
| `PeersHearCorrect`, `CommitsReachCorrect`, `CommitOrderCorrect` | the properties that relate the two parts |
| `ReaderImplemented` | the whole server implements `WalReader`: it is the environment that module assumes |
| `NotificationsImplemented` | the whole server implements `Notifications` |
| `IndexCorrect`, `IndexStaysSmall` | the two indexes are converse and hold no empty entry |
| `MapRefined` | the two indexes implement `SubscriptionMap` |
| `SetupInvCorrect`, `SlotLast`, `ReadyComplete` | the inductive invariant of `Setup` and its two safety properties |
| `SafeToRepeat` | nothing that existed when an attempt at setup connected ends it |
| `LoadCorrect`, `LoadTypeCorrect` | the inductive invariant of `LoadTest`, and its types |
| `ExplainedCorrect`, `GapsCorrect` | a subscriber's losses are among the server's drops, which exceed them by a Join or Leave each at most; its gaps are no more than the drops |

*Membership.*  `JoinedIsMember` is not inductive: whether an ack makes it false
depends on what the coordinator did before.  `MembershipInv` adds what may be in
flight.  A pending `Leave` is of a session being torn down (`LeaveOrigin`); a
broadcast's message names the room it goes to (`BroadcastOrigin`); a pending
`Join` is of a frame already read and, when it is the frame `recv_task` awaits,
of the room it awaits (`JoinOrigin`); a fired oneshot that a live session still
awaits means that the client is in that room (`AckOrigin`).  The frame number in
the oneshot is what keeps a late ack from answering a later join.  The proof has
one lemma per way a step changes a piece of state (commands, acks, current
rooms, streams), and one central fact, `MembersStay`: no step takes a live
client out of a room.

*Refinement.*  `RoomMembership` allows a join by a session, the end of a session
and the eviction of ended ones.  `HandleLeave` maps to an eviction because of
`LeaveOrigin`, `HandleBroadcast` because only clients without a receiver are
swept.

*Order.*  That two peers agree is not inductive either: it rests on where the
payloads came from.  `OrderInv` adds that every payload on the way has a number
its source has already given out (`IssuedInv`), that the channel has the payloads
of one source in the order of their numbers (`ChannelOrder`), and that what is
still on the channel is later than anything of its source that a peer has
(`PendingIsNew`).  Hence a payload is fanned out once, to all outboxes at the
same moment, after all that they have (`FannedIsNew`), and a pair of payloads that
is new in one stream cannot be in any other.  The lemmas on pairs of positions
(`PairsExtended`, `PairsDelivered`) say how appending to an outbox and moving its
head to the wire change the pairs of a stream.

*Losses.*  `LossInv` has the counting itself, with the finiteness of what is
missing, and `OwedInv`: a live session is owed only what goes to rooms it is a
member of.  A fan-out that does not put an owed payload into a stream therefore
finds an entry of that client and a full outbox, and counts (`FanoutCounts`).

*Disconnect.*  `DisconnectInv` follows the `Leave`: when the reading task ended
first, it can send no further `Join`, so the one `Leave` of the main task is
behind every `Join` of that client (`NoJoinAfter`), and the client is out of its
current room once it has been handled (`LeaveGoesThrough`).

*Reader.*  `ReaderInv` follows one transaction: up to its COMMIT the buffer holds
what the rows read so far owe (`BufferInv`, which needs that the reader's
relations are those Postgres has announced), during the COMMIT each room it
owes is still to come or settled (`SendingInv`), all before it is settled and no
later LSN is reported (`SettledInv`), and this process has sent nothing twice
(`SentInv`).  `Invalidator` is then implemented because a COMMIT settles its rooms
after those of all before it, and only what is below `tx` is reported.  The
lemmas on hints (`RouteOwed` and those before it) show that grouping what the rows
gave by room is what the rows owe, read off the changes.

*Whole server.*  A step of `MiniGraph` is one of `WebSocket` and one of `WalReader`,
each with the other's variables as its environment (`SessionSteps`,
`ReaderSteps`): what a session or the coordinator does to the channel is
`SessionsSend` or `RoomsTake` to the reader (`ChannelStep`).  Only a new process
is not a step of `WebSocket`; it is its initial state.  So all invariants carry
over.  On top, `BackedInv` says that each invalidation on the channel, in a stream
or owed to a session is a send of this reader that fitted the channel, and
`AnsweredInv` of `WalReaderProofs` that all of the log above the confirmed LSN and
below the transaction at hand was answered by this process: after a crash the
reader starts where the database stands, not where the last process was.  `OwedSince`
says that what the channel accepted for a room is owed to every served session
that had joined it; the sends its peer has not heard of are then among what
`LossesAreCounted` bounds (`UnheardIsMissing`), and the refused ones are counted
(`RefusedIsCounted`).  That the sink's n-th call is the reader's n-th send
(`CallsAgree`) makes the numbers of the two modules the same.  With
`SenderOrder` and the order of the reader's own sends (`SentInOrder`) a peer then
hears of transactions in commit order.

*Promise to the peers.*  For `Notifications` only two kinds of step matter to a
peer: a delivery (`WireChange`) and a new process.  What is delivered was the
head of an outbox, so it is backed by a send, which is settled (`SentIsSettled`:
its transaction is before the one at hand, or is that one and its room no longer
to come), and by `CommitOrder` of no earlier transaction than what is on the
wire (`WireReceived`).  In every other step the sends of the process stay what
they are, and so does what the peers have heard (`HeardKept`); the database's
part is `StepImplements` of the reader.

*Payloads.*  The loops of the parsers are functions on the number of turns, and
what they compute is found by induction over the turns, in the form of the least
turn that goes wrong (`LeastNumber`, from the library's well-founded orderings,
since its induction theorems take an operator).  `Reads` says of a parser, an encoding
and a value that the parser gives the value where the encoding lies in
any data at any position, and `Truncated` where the data end inside it.  Parsers
compose like their encodings (`ThenReads`, `ThenGives`), so `Reads` goes from bytes
to integers and texts, by the loop lemma (`LoopReads`) to tuples and columns, and on
to messages.  A function with the equations of a loop is shown to exist before it
may stand for the loop's recursive definition (`SameTurns`); the turns that are left
after the last one change nothing (`TurnsEnd`).  That the messages of the stream are within the limits of their length fields comes from the
assumptions on transactions, through `AtChange` and the reader's `TypeOK`.

*Index.*  Neither index can be shown right alone, since `update_hints` diffs one
to change the other: the invariant is their agreement with the absence of
empty entries, which `is_empty` needs.  A lookup then equals the map's.

*Setup.*  `Missing` says what `SafeToRepeat` needs: a server between `LookUp` and
`Create` is making what was not there when it connected, and nothing is ever
dropped.  `SlotComesLast` is a fact about the database and needs one about the
servers: none is at a statement whose predecessors have not been carried out by
somebody (`Before`).  Nothing is ever dropped, so one server's step keeps that
for the others (`ServerMoves`).

*Load test.*  That gaps are drops is a fact about the past: when a number is read
after a gap, what is missing was dropped while the number was still on its way.
`Accounted` therefore counts ahead, for every number under way, with `InOrder`
for which numbers those are.  It starts right because of the barrier: there are
no more turns of main's loop than subscribers past their join (`Barrier`), so
that after the last turn all are in the room and nothing has been sent (`Quiet`).

Only model-checked: everything temporal (`SessionTornDown`, `BroadcastSweeps`,
`EveryCommitReported`, `SetupSucceeds`, `StartedTestEnds`), since liveness under
fairness is beyond the prover; and `Metrics`, whose one property the code
violates.  Every safety property of a passing run is proved.

## 6. Where code and documents disagree

| Run | The document | The code |
|---|---|---|
| `rejoin` | `docs/WEBSOCKET_DEMO_PLAN.md:186,219`: documents are isolated | a second join does not leave the first room, neither then nor at the disconnect |
| `metrics_average` | `src/loadtest.md:118`: avg is "based on the samples collected so far" | a snapshot across a record divides the new sum by the old count: an average of 6 when every sample was 3 |
| `wal_reader_schema` | `src/wal/pgoutput.rs:210`, `design.md:351`: restart required after a schema change | when the change is inside a transaction with rows on both sides, each restart meets it again |
| `load_test_hang` | `src/bin/loadtest.rs:88`: "Subscriber tasks dropped before joining" | main notices only if no subscriber joins; one that joined keeps the channel open and both wait for ever |

Five more need no run, the code being short: `docs/architecture.md:48` has a join
succeed "only" after an ack within 250 ms, but a `Join` that `TimeoutJoin` gave up
on stays on the channel, is carried out, and makes a member of a session that
does not know it (`JoinedIsMember` is therefore one direction only, and
`HandleBroadcast` must sweep); `design.md:345` promises to
reconnect with backoff, and `replication.rs:288-295` ends the reader for good,
which is why `EveryCommitReported` needs `Restart`; `design.md:352` has a malformed pgoutput message,
and `design.md:353` an event without its `document_id` column, counted in
`wal_events_dropped_total`, and `replication.rs:244` and `238` only log them (a
`TRUNCATE` is such a message to this parser: `WalReader` has it fail to parse, and
`dropped` stays as it is); `design.md:454` expects `wal_slot_active` to be
false after a stop, and nothing writes the gauge once the reader's loop
(`replication.rs:160-209`) has been left.

## 7. Abstractions and what is not modelled

- A payload is its sender and number; texts, timestamps and hint lists in
  messages are not.  Counters do not wrap.  `ChannelClosed` cannot happen to the
  coordinator's channel while the server runs: `AppState` keeps a sender and the
  coordinator never ends.
- The oneshot of a join is identified by the number of its frame.
- A frame that is neither text nor an end (ping, binary) is ignored by the code
  and is not a frame of the model.
- An LSN is the number of a transaction; a relation's id and name are one.
- The 8192 events the replication library buffers are not kept apart from the
  stream: an event counts as arrived when the reader takes it, and those lost
  with a connection are as if never sent.
- The slot poll writes only `slot_active`; its errors and timeouts change
  nothing, the missing slot cannot happen while it is in use, and the two other
  gauges copy numbers from a query.
- `TRUNCATE` reaches the reader as a message it cannot parse and so invalidates
  nothing; `Owed` follows the code there.  `design.md:352` allows the loss, but
  would have it counted (section 6).
- UTF-8 is abstracted to one byte that no text has; a payload's texts are of one
  or two bytes, which the length fields treat like any other length.
- `Metrics` interleaves the relaxed atomics in program order, which the language
  does not promise: what it shows wrong is wrong in any build.
- Of the bootstrap, the HTTP routes, the static files and the listener are not
  modelled.  The configuration is string handling whose result is `SlotName` of
  `Setup` and its error an `ended` reader; logging and the capture tool have no
  behaviour of their own to check; the browser client is the peer of `WebSocket`.

## 8. Plan

Done: everything planned so far (`Rooms`, `WebSocket`, `SubscriptionIndex`,
`WalReader`, `Invalidator`, `Setup`, `LoadTest`, `Metrics`, the parsers, `MiniGraph`,
`Notifications`), and proofs of all their safety properties and refinements.

Left:

1. `LoadTest` over `WebSocket` instead of the server as it looks from outside, once
   the state space of two subscribers' sessions is small enough to check.
2. The subscription index between the reader and the coordinator, when the
   server comes to use it.
