------------------------------- MODULE WalReader -------------------------------
(***************************************************************************)
(* The WAL reader actor of src/wal/replication.rs, from a transaction that *)
(* commits in Postgres to the Broadcast commands RoomsInvalidationSink     *)
(* (src/wal/sink.rs) puts on the coordinator's channel, with the losses of *)
(* the stream, the crashes and the restarts of the server around it.       *)
(*                                                                         *)
(* Postgres, its walsender and the replication client library are          *)
(* external: the slot redelivers every transaction after the confirmed     *)
(* one, whole and in commit order, and announces a relation before its     *)
(* first row of a session and again whenever its columns have changed.  An *)
(* LSN is the number of the transaction that ends there.                   *)
(***************************************************************************)
EXTENDS PgOutput, FiniteSets

CONSTANTS
  Transactions,      \* what a transaction may do: sequences of changes
  RoomsCapacity,     \* slots of the coordinator's command channel
  MaxTransactions,   \* bound: transactions the database commits
  MaxFaults          \* bound: crashes, lost streams, refused connections, stops

Key(table) == IF table = "comments" THEN "document_id" ELSE "id"

\* A change names its table, the table's columns at that time and the document
\* of the row before and after, Null where there is no such row.
IsChange(c) ==
  /\ c.op \in {"insert", "update", "delete", "truncate"}
  /\ c.columns \in Seq(STRING)
  /\ \E i \in DOMAIN c.columns : c.columns[i] = Key(c.table)
  /\ IF c.op \in {"update", "delete"} THEN c.old \in DocumentId ELSE c.old = Null
  /\ IF c.op \in {"insert", "update"} THEN c.new \in DocumentId ELSE c.new = Null

ASSUME WalReaderAssumption ==
  /\ \A changes \in Transactions :
       /\ changes \in Seq({changes[i] : i \in DOMAIN changes})
       /\ \A i \in DOMAIN changes : IsChange(changes[i])
  /\ RoomsCapacity \in Nat \ {0}
  /\ MaxTransactions \in Nat
  /\ MaxFaults \in Nat

VARIABLES
  \* Postgres and the replication client (external)
  log,           \* the committed transactions of the slot
  confirmed,     \* confirmed_flush_lsn of the slot
  tx, pos,       \* next of the stream: transaction tx, its BEGIN if pos = 0
  announced,     \* relation -> the columns announced in this session
  connected,     \* whether a walsender serves the reader: the slot is active
  faults,        \* crashes, lost streams, refused connections and stops so far
  \* wal_reader_actor
  reader,        \* where it is, or how it ended
  relations,     \* relation -> its columns, as the reader was told
  transaction,   \* Option<TransactionBuffer>: <<>>, or <<hints>>
  routed,        \* room -> hints: what the COMMIT at hand has still to send
  appliedLsn,    \* update_applied_lsn's value, and the metric wal_lsn
  stopSent,      \* whether a Stop command is in the reader's channel
  \* shared with other tasks
  cmds,          \* the coordinator's command channel: the room of each command
  consumed,      \* metric wal_events_consumed_total
  dropped,       \* metric wal_events_dropped_total
  slotActive,    \* metric wal_slot_active
  \* history
  sent,          \* the send_invalidation calls of this server process
  settled        \* <<tx, room>> some process has sent or counted as dropped

pgVars == <<log, confirmed, tx, pos, announced, connected, faults>>
actorVars == <<reader, relations, transaction, routed, appliedLsn, stopSent>>
sharedVars == <<cmds, consumed, dropped, slotActive>>
history == <<sent, settled>>
vars == <<pgVars, actorVars, sharedVars, history>>

-----------------------------------------------------------------------------
(* What Postgres sends for a change (external).  comments has REPLICA      *)
(* IDENTITY FULL; documents has the default one, which sends the key of a  *)
(* deleted row and no old tuple for an update that keeps it.               *)

Tuple(change, document, other) ==
  [i \in DOMAIN change.columns |->
     IF change.columns[i] = Key(change.table) THEN document ELSE other]

RowMessage(change) ==
  LET old == Tuple(change, change.old, OtherText)
      new == Tuple(change, change.new, OtherText)
      absent == <<>>
  IN CASE change.op = "insert" ->
            [tag |-> "I", relation |-> change.table, old |-> absent, new |-> new]
       [] change.op = "update" ->
            [tag |-> "U", relation |-> change.table,
             old |-> IF change.table = "comments" THEN old ELSE absent,
             new |-> Tuple(change, change.new,
                           IF change.table = "comments" THEN Unchanged ELSE OtherText)]
       [] change.op = "delete" ->
            [tag |-> "D", relation |-> change.table, old |-> old, new |-> absent]
       [] change.op = "truncate" ->
            [tag |-> "T", relation |-> change.table, old |-> absent, new |-> absent]

RelationMessage(change) ==
  [tag |-> "R", relation |-> change.table, columns |-> change.columns]

NextChange == log[tx][pos]

Announced ==
  /\ NextChange.table \in DOMAIN announced
  /\ announced[NextChange.table] = NextChange.columns

-----------------------------------------------------------------------------
Boot ==
  /\ reader' = "starting"
  /\ relations' = [r \in {} |-> <<>>]
  /\ transaction' = <<>>
  /\ routed' = [room \in {} |-> {}]
  /\ appliedLsn' = 0
  /\ stopSent' = FALSE
  /\ cmds' = <<>>
  /\ consumed' = 0
  /\ dropped' = 0
  /\ slotActive' = FALSE
  /\ sent' = <<>>
  /\ tx' = confirmed + 1
  /\ pos' = 0
  /\ announced' = [r \in {} |-> <<>>]
  /\ connected' = FALSE
  /\ UNCHANGED <<log, confirmed, settled>>

Init ==
  /\ log = <<>>
  /\ confirmed = 0
  /\ tx = 1
  /\ pos = 0
  /\ announced = [r \in {} |-> <<>>]
  /\ connected = FALSE
  /\ faults = 0
  /\ reader = "starting"
  /\ relations = [r \in {} |-> <<>>]
  /\ transaction = <<>>
  /\ routed = [room \in {} |-> {}]
  /\ appliedLsn = 0
  /\ stopSent = FALSE
  /\ cmds = <<>>
  /\ consumed = 0
  /\ dropped = 0
  /\ slotActive = FALSE
  /\ sent = <<>>
  /\ settled = {}

-----------------------------------------------------------------------------
(* The environment.                                                        *)

Commit(changes) ==
  /\ Len(log) < MaxTransactions
  /\ log' = Append(log, changes)
  /\ UNCHANGED <<confirmed, tx, pos, announced, connected, faults, actorVars,
                 sharedVars, history>>

\* the client library's periodic status update
ConfirmApplied ==
  /\ connected
  /\ confirmed < appliedLsn
  /\ confirmed' = appliedLsn
  /\ UNCHANGED <<log, tx, pos, announced, connected, faults, actorVars, sharedVars,
                 history>>

\* a session's Join, Leave or Broadcast is put on the same channel
SessionsSend(room) ==
  /\ Len(cmds) < RoomsCapacity
  /\ cmds' = Append(cmds, room)
  /\ UNCHANGED <<pgVars, actorVars, consumed, dropped, slotActive, history>>

\* rooms_coordinator takes a command; Rooms has what it does with it
RoomsTake ==
  /\ cmds # <<>>
  /\ cmds' = Tail(cmds)
  /\ UNCHANGED <<pgVars, actorVars, consumed, dropped, slotActive, history>>

Fault == faults < MaxFaults /\ faults' = faults + 1

\* the walsender or its connection dies; the reader has still to notice
LoseStream ==
  /\ connected
  /\ Fault
  /\ connected' = FALSE
  /\ UNCHANGED <<log, confirmed, tx, pos, announced, actorVars, sharedVars, history>>

\* the server process dies, at any step, and is started again
Crash == Fault /\ Boot

\* the operator restarts a server whose reader has ended
Restart ==
  /\ reader \in {"stopped", "ended", "schemaChanged"}
  /\ Boot
  /\ UNCHANGED faults

\* WalReaderHandle::stop
StopCommand ==
  /\ ~ stopSent
  /\ reader \in {"starting", "selecting", "sending"}
  /\ Fault
  /\ stopSent' = TRUE
  /\ UNCHANGED <<log, confirmed, tx, pos, announced, connected, reader, relations,
                 transaction, routed, appliedLsn, sharedVars, history>>

-----------------------------------------------------------------------------
(* wal_reader_actor before its loop, and the branches of its select!.      *)

Connect ==
  /\ reader = "starting"
  /\ \/ reader' = "selecting" /\ connected' = TRUE /\ UNCHANGED faults
     \/ reader' = "ended" /\ Fault /\ UNCHANGED connected
  /\ UNCHANGED <<log, confirmed, tx, pos, announced, relations, transaction, routed,
                 appliedLsn, stopSent, sharedVars, history>>

RecvStop ==
  /\ reader = "selecting"
  /\ stopSent
  /\ stopSent' = FALSE
  /\ reader' = "stopped"
  /\ connected' = FALSE
  /\ UNCHANGED <<log, confirmed, tx, pos, announced, faults, relations, transaction, routed, appliedLsn, sharedVars, history>>

\* a tick whose query answers in time
SlotPoll ==
  /\ reader = "selecting"
  /\ slotActive' = connected
  /\ UNCHANGED <<pgVars, actorVars, cmds, consumed, dropped, history>>

\* recv() fails or reports the end of the stream
RecvEnd ==
  /\ reader = "selecting"
  /\ ~ connected
  /\ reader' = "ended"
  /\ UNCHANGED <<pgVars, relations, transaction, routed, appliedLsn, stopSent,
                 sharedVars, history>>

Streaming == reader = "selecting" /\ connected /\ tx <= Len(log)

RecvBegin ==
  /\ Streaming
  /\ pos = 0
  /\ pos' = 1
  /\ transaction' = <<{}>>
  /\ UNCHANGED <<log, confirmed, tx, announced, connected, faults, reader, relations, routed,
                 appliedLsn, stopSent, sharedVars, history>>

AtChange == Streaming /\ pos \in 1..Len(log[tx])

\* XLogData with a Relation message
RecvRelation ==
  /\ AtChange
  /\ ~ Announced
  /\ LET message == RelationMessage(NextChange) IN
       /\ announced' = Learn(announced, message)
       /\ IF SchemaChange(relations, message)
          THEN /\ reader' = "schemaChanged"
               /\ connected' = FALSE
               /\ UNCHANGED relations
          ELSE /\ relations' = Learn(relations, message)
               /\ UNCHANGED <<reader, connected>>
  /\ UNCHANGED <<log, confirmed, tx, pos, faults, transaction, routed, appliedLsn,
                 stopSent, sharedVars, history>>

RecvRow_LastRow ==
  /\ AtChange
  /\ Announced
  /\ pos' = pos + 1
  /\ LET message == RowMessage(NextChange)
         events == IF Parses(message) THEN Events(relations, message) ELSE {}
     IN /\ consumed' = consumed + Cardinality(events)
        /\ transaction' = IF transaction = <<>> \/ events = {} THEN transaction
                          ELSE <<UNION {GenerateHints(e) : e \in events}>>
  /\ UNCHANGED <<log, confirmed, tx, announced, connected, faults, reader, relations, routed,
                 appliedLsn, stopSent, cmds, dropped, slotActive, history>>

\* XLogData with a row message, or with one that does not parse
RecvRow ==
  /\ AtChange
  /\ Announced
  /\ pos' = pos + 1
  /\ LET message == RowMessage(NextChange)
         events == IF Parses(message) THEN Events(relations, message) ELSE {}
     IN /\ consumed' = consumed + Cardinality(events)
        /\ transaction' = IF transaction = <<>> THEN transaction
                          ELSE <<transaction[1] \cup UNION {GenerateHints(e) : e \in events}>>
  /\ UNCHANGED <<log, confirmed, tx, announced, connected, faults, reader, relations, routed,
                 appliedLsn, stopSent, cmds, dropped, slotActive, history>>

AtCommit == Streaming /\ pos = Len(log[tx]) + 1

RecvCommit_AckFirst ==
  /\ AtCommit
  /\ reader' = "sending"
  /\ routed' = IF transaction = <<>> THEN [room \in {} |-> {}]
               ELSE Route(transaction[1])
  /\ transaction' = <<>>
  /\ appliedLsn' = tx
  /\ UNCHANGED <<pgVars, relations, stopSent, sharedVars, history>>

\* COMMIT up to the loop over the routed hints
RecvCommit ==
  /\ AtCommit
  /\ reader' = "sending"
  /\ routed' = IF transaction = <<>> THEN [room \in {} |-> {}]
               ELSE Route(transaction[1])
  /\ transaction' = <<>>
  /\ UNCHANGED <<pgVars, relations, appliedLsn, stopSent, sharedVars, history>>

Full_OffByOne == Len(cmds) > RoomsCapacity

Full == Len(cmds) >= RoomsCapacity

SendInvalidation_Retry(room) ==
  /\ reader = "sending"
  /\ routed' = IF Full THEN routed
               ELSE [r \in DOMAIN routed \ {room} |-> routed[r]]
  /\ cmds' = IF Full THEN cmds ELSE Append(cmds, room)
  /\ dropped' = IF Full THEN dropped + 1 ELSE dropped
  /\ sent' = Append(sent, [tx |-> tx, room |-> room, hints |-> routed[room], ok |-> ~ Full])
  /\ settled' = settled \cup {<<tx, room>>}
  /\ UNCHANGED <<pgVars, reader, relations, transaction, appliedLsn, stopSent,
                 consumed, slotActive>>

\* one turn of that loop; a HashMap gives the rooms in any order, and the
\* coordinator runs meanwhile
SendInvalidation(room) ==
  /\ reader = "sending"
  /\ routed' = [r \in DOMAIN routed \ {room} |-> routed[r]]
  /\ cmds' = IF Full THEN cmds ELSE Append(cmds, room)
  /\ dropped' = IF Full THEN dropped + 1 ELSE dropped
  /\ sent' = Append(sent, [tx |-> tx, room |-> room, hints |-> routed[room], ok |-> ~ Full])
  /\ settled' = settled \cup {<<tx, room>>}
  /\ UNCHANGED <<pgVars, reader, relations, transaction, appliedLsn, stopSent,
                 consumed, slotActive>>

EndCommit_OnlyIfSent ==
  /\ reader = "sending"
  /\ DOMAIN routed = {}
  /\ appliedLsn' = IF \E i \in DOMAIN sent : sent[i].tx = tx /\ sent[i].ok
                   THEN tx ELSE appliedLsn
  /\ tx' = tx + 1
  /\ pos' = 0
  /\ reader' = "selecting"
  /\ UNCHANGED <<log, confirmed, announced, connected, faults, relations, transaction,
                 routed, stopSent, sharedVars, history>>

EndCommit_Early ==
  /\ reader = "sending"
  /\ routed' = [room \in {} |-> {}]
  /\ appliedLsn' = tx
  /\ tx' = tx + 1
  /\ pos' = 0
  /\ reader' = "selecting"
  /\ UNCHANGED <<log, confirmed, announced, connected, faults, relations, transaction,
                 stopSent, sharedVars, history>>

\* COMMIT after the loop
EndCommit ==
  /\ reader = "sending"
  /\ DOMAIN routed = {}
  /\ appliedLsn' = tx
  /\ tx' = tx + 1
  /\ pos' = 0
  /\ reader' = "selecting"
  /\ UNCHANGED <<log, confirmed, announced, connected, faults, relations, transaction,
                 routed, stopSent, sharedVars, history>>

ReaderStep ==
  \/ Connect \/ RecvStop \/ RecvEnd \/ RecvBegin \/ RecvRelation \/ RecvRow \/ RecvCommit
  \/ (\E room \in DOMAIN routed : SendInvalidation(room))
  \/ EndCommit

Next ==
  \/ \E changes \in Transactions : Commit(changes)
  \/ \E room \in DocumentId : SessionsSend(room)
  \/ ConfirmApplied \/ RoomsTake \/ LoseStream \/ Crash \/ Restart \/ StopCommand
  \/ Connect \/ RecvStop \/ SlotPoll \/ RecvEnd
  \/ RecvBegin \/ RecvRelation \/ RecvRow \/ RecvCommit
  \/ \E room \in DOMAIN routed : SendInvalidation(room)
  \/ EndCommit

Spec == Init /\ [][Next]_vars

\* The actor runs whenever its select! has a ready branch, and the client
\* library goes on reporting the applied LSN (every 10 seconds).
Fairness ==
  /\ WF_vars(ReaderStep)
  /\ WF_vars(RoomsTake)
  /\ WF_vars(ConfirmApplied)

FairSpec == Spec /\ Fairness

\* ... and someone restarts a server whose reader has ended.
RestartedSpec == FairSpec /\ WF_vars(Restart)

-----------------------------------------------------------------------------
DocumentHint ==
  [table : {"comments", "documents"}, column : {"document_id", "id"}, value : DocumentId]

SendCall == [tx : Nat, room : DocumentId, hints : SUBSET DocumentHint, ok : BOOLEAN]

TypeOK ==
  /\ log \in Seq(Transactions)
  /\ confirmed \in 0..Len(log) /\ appliedLsn \in 0..Len(log)
  /\ tx \in 1..Len(log) + 1
  /\ pos \in Nat /\ (pos > 0 => tx <= Len(log) /\ pos <= Len(log[tx]) + 1)
  /\ connected \in BOOLEAN /\ stopSent \in BOOLEAN /\ slotActive \in BOOLEAN
  /\ reader \in {"starting", "selecting", "sending", "stopped", "ended", "schemaChanged"}
  /\ cmds \in Seq(DocumentId) /\ Len(cmds) <= RoomsCapacity
  /\ faults \in 0..MaxFaults
  /\ consumed \in Nat /\ dropped \in Nat
  /\ sent \in Seq(SendCall)

\* The hints a change owes, read off its rows: the documents a comment was in
\* before and after, and a document that is deleted.
OwedBy(c) ==
  CASE c.table = "comments" -> {Hint("comments", "document_id", d) : d \in {c.old, c.new} \ {Null}}
    [] c.table = "documents" /\ c.op = "delete" -> {Hint("documents", "id", c.old)}
    [] OTHER -> {}

OwedUpTo(changes, n) == UNION {OwedBy(changes[i]) : i \in 1..n}

Owed(changes) == OwedUpTo(changes, Len(changes))

OwedTo(changes, room) == {h \in Owed(changes) : h.value = room}

OwedRooms(changes) == {h.value : h \in Owed(changes)}

\* What a room is told at a COMMIT is what the transaction did to its
\* document, all of it and nothing of an earlier, an interrupted or a
\* redelivered transaction (replication.rs:249-274).
InvalidationsAreExact ==
  \A i \in DOMAIN sent :
    sent[i].hints = OwedTo(log[sent[i].tx], sent[i].room) /\ sent[i].hints # {}

\* A room is broadcast to at most once per COMMIT, however many rows of its
\* document changed and whether or not the channel took it
\* (specs/postgres-wal-integration/design.md:359).
OncePerCommit ==
  \A i, j \in DOMAIN sent :
    sent[i].tx = sent[j].tx /\ sent[i].room = sent[j].room => i = j

\* Postgres never forgets a transaction before some server process has sent
\* or counted every invalidation it owes: the LSN is reported last, so a
\* crash, a lost stream or a schema change repeats work and loses none.
NoSilentLoss ==
  \A t \in 1..confirmed : \A room \in OwedRooms(log[t]) : <<t, room>> \in settled

\* What the database and the rooms are promised: see Invalidator.
Promise == INSTANCE Invalidator

\* Seen from outside, the reader with all its crashes, lost streams and restarts
\* settles the transactions in commit order, and only what is settled is
\* forgotten (replication.rs:249-281).
ImplementsInvalidator == Promise!Spec

\* What the reader adds to wal_events_dropped_total (replication.rs:265-267).  Payloads
\* that do not parse or lack a column are logged and not counted.
DropsAreCounted == dropped = Cardinality({i \in DOMAIN sent : ~ sent[i].ok})

\* The inductive invariant: between BEGIN and COMMIT the buffer holds what the
\* rows read so far owe, decoded with the columns they were sent with; during a
\* COMMIT each room it owes is still to come or settled; everything before the
\* transaction at hand is settled and nothing from it on is reported; this
\* process has sent nothing of a later transaction, and of this one only to
\* rooms that are not to come (replication.rs:147-281).
BufferInv ==
  /\ reader = "starting" => pos = 0
  /\ reader # "schemaChanged" => relations = announced
  /\ reader = "selecting" /\ pos > 0 => transaction = <<OwedUpTo(log[tx], pos - 1)>>

SendingInv ==
  reader = "sending" =>
    /\ pos > 0
    /\ DOMAIN routed \subseteq OwedRooms(log[tx])
    /\ \A room \in DOMAIN routed : routed[room] = OwedTo(log[tx], room)
    /\ \A room \in OwedRooms(log[tx]) : room \in DOMAIN routed \/ <<tx, room>> \in settled

SettledInv ==
  /\ confirmed < tx
  /\ appliedLsn < tx
  /\ \A t \in 1..tx - 1 : \A room \in OwedRooms(log[t]) : <<t, room>> \in settled

SentInv ==
  \A i \in DOMAIN sent :
    /\ sent[i].tx \in 1..tx /\ sent[i].tx <= Len(log)
    /\ sent[i].tx = tx => reader = "sending" /\ sent[i].room \notin DOMAIN routed

ReaderInv ==
  TypeOK /\ BufferInv /\ SendingInv /\ SettledInv /\ SentInv /\ InvalidationsAreExact
         /\ OncePerCommit /\ DropsAreCounted

\* no table had two shapes in the transactions of the log
SchemaStable ==
  \A t, u \in DOMAIN log : \A i \in DOMAIN log[t], j \in DOMAIN log[u] :
    log[t][i].table = log[u][j].table => log[t][i].columns = log[u][j].columns

\* Every committed transaction is processed and reported in the end, provided
\* a server whose reader has ended is restarted and no table is altered:
\* rows from before and after an ALTER may be redelivered together, and then
\* a reader stops before the first of them is reported (replication.rs:220).
EveryCommitReported ==
  \A t \in 1..MaxTransactions :
    (Len(log) >= t) ~> (confirmed >= t \/ ~ SchemaStable)

\* A reader that stopped at a schema change gets past that transaction once
\* the server is restarted, as its log line asks (pgoutput.rs:210).
RestartRecovers ==
  \A t \in 1..MaxTransactions :
    (reader = "schemaChanged" /\ tx = t) ~> (confirmed >= t)
================================================================================
