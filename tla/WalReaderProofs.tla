---------------------------- MODULE WalReaderProofs ----------------------------
(***************************************************************************)
(* Proofs about WalReader.tla for every set of documents and transactions, *)
(* every channel capacity and every number of transactions and faults.     *)
(***************************************************************************)
EXTENDS WalReader, SequenceTheorems, FiniteSetTheorems, TLAPS

-----------------------------------------------------------------------------
(* The data: rows, hints and rooms.                                        *)

\* A change of a transaction is a change.
LEMMA ChangesOf ==
  ASSUME NEW changes \in Transactions
  PROVE  /\ Len(changes) \in Nat
         /\ DOMAIN changes = 1..Len(changes)
         /\ \A i \in 1..Len(changes) : IsChange(changes[i])
<1>1. changes \in Seq({changes[i] : i \in DOMAIN changes})
  BY WalReaderAssumption
<1>2. Len(changes) \in Nat /\ DOMAIN changes = 1..Len(changes)
  BY <1>1, LenProperties
<1> QED BY <1>2, WalReaderAssumption

\* A column of a tuple that Postgres sent whole is read back under the columns
\* the tuple was sent with.
LEMMA KeyIsRead ==
  ASSUME NEW c, IsChange(c), NEW d \in DocumentId, NEW other
  PROVE  TextColumn(FromValues(c.columns, ParseTuple(Tuple(c, d, other))), Key(c.table)) = {d}
<1> DEFINE key == Key(c.table)
           values == ParseTuple(Tuple(c, d, other))
           found == CHOOSE i \in DOMAIN c.columns : c.columns[i] = key
<1>1. DOMAIN c.columns = 1..Len(c.columns) /\ Len(c.columns) \in Nat
  BY LenProperties DEF IsChange
<1>2. found \in DOMAIN c.columns /\ c.columns[found] = key
  BY DEF IsChange
<1>3. /\ DOMAIN values = DOMAIN c.columns
      /\ values[found] = d
  BY <1>2, PgOutputAssumption DEF ParseTuple, Tuple, Text
<1>4. Len(values) = Len(c.columns)
  <2>1. values \in Seq({values[i] : i \in 1..Len(c.columns)})
    BY <1>1, <1>3, SeqDef DEF ParseTuple, Tuple
  <2> QED BY <2>1, <1>1, <1>3, LenProperties
<1> HIDE DEF values
<1>5. key \in {c.columns[i] : i \in DOMAIN c.columns}
  BY <1>2
<1>6. FromValues(c.columns, values)[key] = d
  <2>1. FromValues(c.columns, values)[key] =
          IF found <= Len(values) THEN values[found] ELSE Null
    BY <1>5, Zenon DEF FromValues
  <2> QED BY <1>1, <1>2, <1>3, <1>4, <2>1
<1>7. key \in DOMAIN FromValues(c.columns, values)
  BY <1>5 DEF FromValues
<1> QED BY <1>6, <1>7 DEF TextColumn, Text, values

\* What the reader makes of a row message, with the relation it was announced
\* under, is what the row owes.
LEMMA RowHints ==
  ASSUME NEW c, IsChange(c), NEW known, c.table \in DOMAIN known,
         known[c.table] = c.columns, NEW events,
         events = IF Parses(RowMessage(c)) THEN Events(known, RowMessage(c)) ELSE {}
  PROVE  UNION {GenerateHints(e) : e \in events} = OwedBy(c)
<1> DEFINE message == RowMessage(c)
           read(values) == FromValues(c.columns, ParseTuple(values))
           event(op) == [table |-> c.table, op |-> op,
                         old |-> read(message.old), new |-> read(message.new)]
<1>1. Null \notin DocumentId
  BY HintsAssumption DEF Text
<1>2. ASSUME NEW op, events = {event(op)}, GenerateHints(event(op)) = OwedBy(c)
      PROVE  UNION {GenerateHints(e) : e \in events} = OwedBy(c)
  BY <1>2
<1>3. CASE c.op = "insert"
  <2>1. message.tag = "I" /\ message.relation = c.table
        /\ message.new = Tuple(c, c.new, OtherText)
    BY <1>3 DEF RowMessage
  <2>2. events = {event("insert")}
    BY <2>1 DEF Events, Parses
  <2>3. c.new \in DocumentId /\ c.old = Null
    BY <1>3 DEF IsChange
  <2>4. TextColumn(read(message.new), Key(c.table)) = {c.new}
    BY <2>1, <2>3, KeyIsRead
  <2> HIDE DEF read, message
  <2>5. GenerateHints(event("insert")) = OwedBy(c)
    BY <2>3, <2>4, <1>1, <1>3
       DEF GenerateHints, NeedsColumn, MissingColumn, Required, Previous, OwedBy, Key
  <2> QED BY <2>2, <2>5, <1>2
<1>4. CASE c.op = "update"
  <2>1. /\ message.tag = "U" /\ message.relation = c.table
        /\ c.table = "comments" => /\ message.old = Tuple(c, c.old, OtherText)
                                   /\ message.new = Tuple(c, c.new, Unchanged)
    BY <1>4 DEF RowMessage
  <2>2. events = {event("update")}
    BY <2>1 DEF Events, Parses
  <2>3. c.new \in DocumentId /\ c.old \in DocumentId
    BY <1>4 DEF IsChange
  <2>4. c.table = "comments" =>
          /\ TextColumn(read(message.new), Key(c.table)) = {c.new}
          /\ TextColumn(read(message.old), Key(c.table)) = {c.old}
    <3> SUFFICES ASSUME c.table = "comments"
                 PROVE  /\ TextColumn(read(message.new), Key(c.table)) = {c.new}
                        /\ TextColumn(read(message.old), Key(c.table)) = {c.old}
      OBVIOUS
    <3>1. TextColumn(read(Tuple(c, c.new, Unchanged)), Key(c.table)) = {c.new}
      BY <2>3, KeyIsRead
    <3>2. TextColumn(read(Tuple(c, c.old, OtherText)), Key(c.table)) = {c.old}
      BY <2>3, KeyIsRead
    <3> HIDE DEF read, message
    <3> QED BY <2>1, <3>1, <3>2
  <2> HIDE DEF read, message
  <2>5. GenerateHints(event("update")) = OwedBy(c)
    BY <2>3, <2>4, <1>1, <1>4
       DEF GenerateHints, NeedsColumn, MissingColumn, Required, Previous, OwedBy, Key
  <2> QED BY <2>2, <2>5, <1>2
<1>5. CASE c.op = "delete"
  <2>1. message.tag = "D" /\ message.relation = c.table
        /\ message.old = Tuple(c, c.old, OtherText)
    BY <1>5 DEF RowMessage
  <2>2. events = {event("delete")}
    BY <2>1 DEF Events, Parses
  <2>3. c.old \in DocumentId /\ c.new = Null
    BY <1>5 DEF IsChange
  <2>4. TextColumn(read(message.old), Key(c.table)) = {c.old}
    BY <2>1, <2>3, KeyIsRead
  <2> HIDE DEF read, message
  <2>5. GenerateHints(event("delete")) = OwedBy(c)
    BY <2>3, <2>4, <1>1, <1>5
       DEF GenerateHints, NeedsColumn, MissingColumn, Required, Previous, OwedBy, Key
  <2> QED BY <2>2, <2>5, <1>2
<1>6. CASE c.op = "truncate"
  <2>1. events = {}
    BY <1>6 DEF RowMessage, Parses
  <2>2. c.old = Null /\ c.new = Null
    BY <1>6 DEF IsChange
  <2> QED BY <1>6, <2>1, <2>2 DEF OwedBy
<1> QED BY <1>3, <1>4, <1>5, <1>6 DEF IsChange

\* Each hint names a document, under the column of its table.
LEMMA OwedTyped ==
  ASSUME NEW changes \in Transactions, NEW n \in 0..Len(changes)
  PROVE  OwedUpTo(changes, n) \subseteq DocumentHint
<1> SUFFICES ASSUME NEW i \in 1..n PROVE OwedBy(changes[i]) \subseteq DocumentHint
  BY DEF OwedUpTo
<1>1. IsChange(changes[i])
  BY ChangesOf
<1>2. /\ changes[i].old \in DocumentId \cup {Null}
      /\ changes[i].new \in DocumentId \cup {Null}
      /\ changes[i].op = "delete" => changes[i].old \in DocumentId
  BY <1>1 DEF IsChange
<1> QED BY <1>2 DEF OwedBy, Hint, DocumentHint

\* What a transaction of a row fewer owes, and that row, is what it owes.
LEMMA OwedNext ==
  ASSUME NEW changes, NEW n \in Nat \ {0}
  PROVE  OwedUpTo(changes, n) = OwedUpTo(changes, n - 1) \cup OwedBy(changes[n])
<1>1. 1..n = 1..n - 1 \cup {n}
  OBVIOUS
<1> QED BY <1>1, Zenon DEF OwedUpTo

\* The router gives each room a transaction owes to, and no other, what it owes
\* to that room, which is never nothing.
LEMMA RouteOwed ==
  ASSUME NEW changes \in Transactions
  PROVE  /\ DOMAIN Route(Owed(changes)) = OwedRooms(changes)
         /\ \A room \in OwedRooms(changes) :
              /\ Route(Owed(changes))[room] = OwedTo(changes, room)
              /\ OwedTo(changes, room) # {}
              /\ room \in DocumentId
<1> DEFINE hints == Owed(changes)
<1>1. hints \subseteq DocumentHint
  BY OwedTyped, ChangesOf DEF Owed
<1>2. ASSUME NEW h \in hints
      PROVE  RouteKey(h) = {h.value}
  <2>1. PICK i \in 1..Len(changes) : h \in OwedBy(changes[i])
    BY DEF Owed, OwedUpTo
  <2> QED BY <2>1 DEF OwedBy, Hint, RouteKey
<1> HIDE DEF hints
<1>3. UNION {RouteKey(h) : h \in hints} = {h.value : h \in hints}
  BY <1>2
<1>4. \A room : {h \in hints : room \in RouteKey(h)} = {h \in hints : h.value = room}
  BY <1>2
<1>5. /\ DOMAIN Route(hints) = {h.value : h \in hints}
      /\ \A room \in {h.value : h \in hints} :
           Route(hints)[room] = {h \in hints : h.value = room}
  BY <1>3, <1>4 DEF Route
<1>6. ASSUME NEW room \in {h.value : h \in hints}
      PROVE  {h \in hints : h.value = room} # {} /\ room \in DocumentId
  BY <1>1 DEF DocumentHint
<1> QED BY <1>5, <1>6 DEF hints, OwedRooms, OwedTo

-----------------------------------------------------------------------------
(* The log and the steps of the reader.                                    *)

\* A transaction of the log is one; the log only grows.
LEMMA LogTyped ==
  ASSUME log \in Seq(Transactions), NEW t \in 1..Len(log)
  PROVE  log[t] \in Transactions
  BY ElementOfSeq

\* A commit leaves the transactions of the log where they are.
LEMMA LogGrows ==
  ASSUME log \in Seq(Transactions), NEW changes \in Transactions, Commit(changes)
  PROVE  /\ log' \in Seq(Transactions)
         /\ Len(log') = Len(log) + 1
         /\ \A t \in 1..Len(log) : log'[t] = log[t]
  BY DEF Commit

\* The empty sequence is one of anything.
LEMMA EmptySeqs ==
  ASSUME NEW S
  PROVE  <<>> \in Seq(S) /\ Len(<<>>) = 0
  BY EmptySeq

\* The bounds are numbers.
LEMMA BoundsTyped == RoomsCapacity \in Nat \ {0} /\ MaxTransactions \in Nat /\ MaxFaults \in Nat
  BY WalReaderAssumption

\* A fault is within its bound.
LEMMA FaultTyped ==
  ASSUME ReaderInv, Fault
  PROVE  faults' \in 0..MaxFaults
  BY BoundsTyped DEF ReaderInv, TypeOK, Fault

\* Everything before the transaction at hand is settled.
LEMMA SettledBefore ==
  ASSUME ReaderInv, NEW n \in Nat, n < tx
  PROVE  \A t \in 1..n : \A room \in OwedRooms(log[t]) : <<t, room>> \in settled
<1>1. \A t \in 1..n : t \in 1..tx - 1
  BY DEF ReaderInv, TypeOK
<1> QED BY <1>1 DEF ReaderInv, SettledInv

\* The rooms that a COMMIT has still to send to are rooms.
LEMMA RoutedTyped ==
  ASSUME ReaderInv, NEW room \in DOMAIN routed, reader = "sending"
  PROVE  room \in DocumentId /\ room \in OwedRooms(log[tx])
<1>1. log[tx] \in Transactions /\ room \in OwedRooms(log[tx])
  BY LogTyped DEF ReaderInv, TypeOK, SendingInv
<1> QED BY <1>1, RouteOwed

\* What was sent was owed.
LEMMA SentOwed ==
  ASSUME ReaderInv, NEW i \in DOMAIN sent
  PROVE  /\ sent[i].tx \in 1..Len(log) /\ sent[i].tx <= tx
         /\ sent[i].room \in OwedRooms(log[sent[i].tx])
<1>1. sent[i].tx \in 1..Len(log) /\ sent[i].tx <= tx
  BY DEF ReaderInv, TypeOK, SentInv
<1>2. OwedTo(log[sent[i].tx], sent[i].room) # {}
  BY DEF ReaderInv, InvalidationsAreExact
<1> QED BY <1>1, <1>2 DEF OwedTo, OwedRooms

\* What was sent is settled: its transaction is at hand, or was before.
LEMMA SentIsDone ==
  ASSUME ReaderInv, NEW i \in DOMAIN sent
  PROVE  /\ sent[i].tx \in DOMAIN log
         /\ sent[i].room \in OwedRooms(log[sent[i].tx])
         /\ <<sent[i].tx, sent[i].room>> \in settled
<1>1. /\ sent[i].tx \in 1..Len(log) /\ sent[i].tx <= tx /\ tx \in Nat
      /\ DOMAIN log = 1..Len(log)
      /\ sent[i].room \in OwedRooms(log[sent[i].tx])
  BY SentOwed DEF ReaderInv, TypeOK
<1>2. CASE sent[i].tx = tx
  BY <1>1, <1>2 DEF ReaderInv, SentInv, SendingInv
<1>3. CASE sent[i].tx # tx
  <2>1. sent[i].tx \in 1..tx - 1
    BY <1>1, <1>3
  <2> QED BY <1>1, <2>1 DEF ReaderInv, SettledInv
<1> QED BY <1>1, <1>2, <1>3

\* Restarting the server, by a crash or not, keeps the invariant.
LEMMA BootInv ==
  ASSUME ReaderInv, Boot, faults' \in 0..MaxFaults
  PROVE  ReaderInv'
<1> USE DEF Boot
<1>1. TypeOK'
  <2>1. <<>> \in Seq(DocumentId) /\ <<>> \in Seq(SendCall) /\ Len(<<>>) = 0
    BY EmptySeqs
  <2>2. /\ log' \in Seq(Transactions)
        /\ confirmed' \in 0..Len(log') /\ appliedLsn' \in 0..Len(log')
        /\ tx' \in 1..Len(log') + 1 /\ pos' = 0
    BY DEF ReaderInv, TypeOK
  <2>3. /\ cmds' \in Seq(DocumentId) /\ Len(cmds') <= RoomsCapacity
        /\ sent' \in Seq(SendCall)
    BY <2>1, BoundsTyped
  <2>4. /\ connected' \in BOOLEAN /\ stopSent' \in BOOLEAN /\ slotActive' \in BOOLEAN
        /\ reader' = "starting"
        /\ consumed' = 0 /\ dropped' = 0
    OBVIOUS
  <2> QED BY <2>2, <2>3, <2>4 DEF TypeOK
<1>2. BufferInv' /\ SendingInv'
  BY DEF BufferInv, SendingInv
<1>3. SettledInv'
  <2>1. confirmed \in Nat /\ confirmed < tx
    BY DEF ReaderInv, TypeOK, SettledInv
  <2>2. confirmed' < tx' /\ appliedLsn' < tx' /\ tx' - 1 = confirmed
    BY <2>1
  <2>3. \A t \in 1..confirmed : \A room \in OwedRooms(log[t]) : <<t, room>> \in settled
    BY <2>1, SettledBefore
  <2> QED BY <2>2, <2>3 DEF SettledInv
<1>4. SentInv' /\ InvalidationsAreExact' /\ OncePerCommit'
  BY DEF SentInv, InvalidationsAreExact, OncePerCommit
<1>5. DropsAreCounted'
  BY FS_EmptySet DEF DropsAreCounted
<1> QED BY <1>1, <1>2, <1>3, <1>4, <1>5 DEF ReaderInv

\* It holds at the beginning.
LEMMA InitInv == Init => ReaderInv
<1> SUFFICES ASSUME Init PROVE ReaderInv
  OBVIOUS
<1> USE DEF Init
<1>1. TypeOK
  <2>1. /\ <<>> \in Seq(DocumentId) /\ <<>> \in Seq(SendCall)
        /\ <<>> \in Seq(Transactions) /\ Len(<<>>) = 0
    BY EmptySeqs
  <2>2. /\ log \in Seq(Transactions)
        /\ confirmed \in 0..Len(log) /\ appliedLsn \in 0..Len(log)
        /\ tx \in 1..Len(log) + 1 /\ pos = 0
    BY <2>1
  <2>3. /\ cmds \in Seq(DocumentId) /\ Len(cmds) <= RoomsCapacity
        /\ sent \in Seq(SendCall) /\ faults \in 0..MaxFaults
    BY <2>1, BoundsTyped
  <2>4. /\ connected \in BOOLEAN /\ stopSent \in BOOLEAN /\ slotActive \in BOOLEAN
        /\ reader = "starting"
        /\ consumed = 0 /\ dropped = 0
    OBVIOUS
  <2> QED BY <2>2, <2>3, <2>4 DEF TypeOK
<1>2. BufferInv /\ SendingInv /\ SettledInv
  BY DEF BufferInv, SendingInv, SettledInv
<1>3. SentInv /\ InvalidationsAreExact /\ OncePerCommit
  BY DEF SentInv, InvalidationsAreExact, OncePerCommit
<1>4. DropsAreCounted
  BY FS_EmptySet DEF DropsAreCounted
<1> QED BY <1>1, <1>2, <1>3, <1>4 DEF ReaderInv

-----------------------------------------------------------------------------
(* One lemma per kind of step.                                             *)

\* A step that neither sends nor commits leaves the history of sends as it is.
LEMMA HistoryKept ==
  ASSUME InvalidationsAreExact, OncePerCommit, DropsAreCounted,
         UNCHANGED <<log, sent, dropped>>
  PROVE  InvalidationsAreExact' /\ OncePerCommit' /\ DropsAreCounted'
  BY DEF InvalidationsAreExact, OncePerCommit, DropsAreCounted

\* Steps that only start or end the reader, or happen outside it.
LEMMA QuietInv ==
  ASSUME ReaderInv,
         UNCHANGED <<log, confirmed, tx, pos, announced, relations, transaction, routed,
                     appliedLsn, dropped, sent, settled>>,
         \/ reader' = reader
         \/ reader = "starting" /\ reader' \in {"selecting", "ended"}
         \/ reader = "selecting" /\ reader' \in {"stopped", "ended"},
         TypeOK'
  PROVE  ReaderInv'
<1> USE DEF ReaderInv
<1>1. BufferInv'
  BY DEF BufferInv
<1>2. SendingInv'
  BY DEF SendingInv
<1>3. SettledInv'
  BY DEF SettledInv
<1>4. SentInv'
  BY DEF SentInv
<1> QED BY <1>1, <1>2, <1>3, <1>4, HistoryKept

\* A transaction that commits is not yet anybody's business.
LEMMA CommitInv ==
  ASSUME ReaderInv, NEW changes \in Transactions, Commit(changes)
  PROVE  ReaderInv'
<1>1. /\ log' \in Seq(Transactions)
      /\ Len(log') = Len(log) + 1
      /\ \A t \in 1..Len(log) : log'[t] = log[t]
      /\ Len(log) \in Nat
  BY LogGrows DEF ReaderInv, TypeOK
<1>2. /\ UNCHANGED <<confirmed, tx, pos, announced, connected, faults>>
      /\ UNCHANGED <<reader, relations, transaction, routed, appliedLsn, stopSent>>
      /\ UNCHANGED <<cmds, consumed, dropped, slotActive, sent, settled>>
  BY DEF Commit, actorVars, sharedVars, history
<1>3. TypeOK'
  <2>1. /\ confirmed \in 0..Len(log) + 1 /\ appliedLsn \in 0..Len(log) + 1
        /\ tx \in 1..Len(log) + 1 + 1
        /\ pos > 0 => tx <= Len(log) + 1 /\ pos <= Len(log'[tx]) + 1
    BY <1>1 DEF ReaderInv, TypeOK
  <2> QED BY <1>1, <1>2, <2>1 DEF ReaderInv, TypeOK
<1>4. pos > 0 => log'[tx] = log[tx]
  BY <1>1 DEF ReaderInv, TypeOK
<1>5. BufferInv' /\ SendingInv'
  BY <1>2, <1>4 DEF ReaderInv, BufferInv, SendingInv
<1>6. SettledInv'
  <2>1. ASSUME NEW t \in 1..tx - 1, NEW room \in OwedRooms(log'[t])
        PROVE  <<t, room>> \in settled
    <3>1. log'[t] = log[t]
      <4>1. tx \in 1..Len(log) + 1
        BY DEF ReaderInv, TypeOK
      <4>2. t \in 1..Len(log)
        BY <1>1, <4>1
      <4> QED BY <1>1, <4>2
    <3> QED BY <2>1, <3>1 DEF ReaderInv, SettledInv
  <2> QED BY <1>2, <2>1 DEF ReaderInv, SettledInv
<1>7. SentInv'
  BY <1>1, <1>2 DEF ReaderInv, SentInv
<1>8. InvalidationsAreExact'
  <2> SUFFICES ASSUME NEW i \in DOMAIN sent
               PROVE  sent[i].hints = OwedTo(log'[sent[i].tx], sent[i].room) /\ sent[i].hints # {}
    BY <1>2 DEF InvalidationsAreExact
  <2>1. log'[sent[i].tx] = log[sent[i].tx]
    BY <1>1 DEF ReaderInv, SentInv
  <2> QED BY <2>1 DEF ReaderInv, InvalidationsAreExact
<1>9. OncePerCommit' /\ DropsAreCounted'
  BY <1>2 DEF ReaderInv, OncePerCommit, DropsAreCounted
<1> QED BY <1>3, <1>5, <1>6, <1>7, <1>8, <1>9 DEF ReaderInv

\* What is reported is what the reader said was applied.
LEMMA ConfirmInv ==
  ASSUME ReaderInv, ConfirmApplied
  PROVE  ReaderInv'
<1>1. confirmed' = appliedLsn
      /\ UNCHANGED <<log, tx, pos, announced, connected, faults>>
      /\ UNCHANGED <<reader, relations, transaction, routed, appliedLsn, stopSent>>
      /\ UNCHANGED <<cmds, consumed, dropped, slotActive, sent, settled>>
  BY DEF ConfirmApplied, actorVars, sharedVars, history
<1>2. TypeOK'
  BY <1>1 DEF ReaderInv, TypeOK
<1>3. BufferInv' /\ SendingInv' /\ SettledInv' /\ SentInv'
  BY <1>1 DEF ReaderInv, BufferInv, SendingInv, SettledInv, SentInv
<1> QED BY <1>1, <1>2, <1>3, HistoryKept DEF ReaderInv

\* BEGIN opens an empty buffer.
LEMMA BeginInv ==
  ASSUME ReaderInv, RecvBegin
  PROVE  ReaderInv'
<1>1. /\ reader = "selecting" /\ tx <= Len(log)
      /\ pos' = 1 /\ transaction' = <<{}>>
      /\ UNCHANGED <<log, confirmed, tx, announced, connected, faults>>
      /\ UNCHANGED <<reader, relations, routed, appliedLsn, stopSent>>
      /\ UNCHANGED <<cmds, consumed, dropped, slotActive, sent, settled>>
  BY DEF RecvBegin, Streaming, sharedVars, history
<1>2. Len(log[tx]) \in Nat
  BY <1>1, LogTyped, ChangesOf DEF ReaderInv, TypeOK
<1>3. TypeOK'
  BY <1>1, <1>2 DEF ReaderInv, TypeOK
<1>4. OwedUpTo(log[tx], 0) = {}
  BY DEF OwedUpTo
<1>5. BufferInv'
  BY <1>1, <1>4 DEF ReaderInv, BufferInv
<1>6. SendingInv' /\ SettledInv' /\ SentInv'
  BY <1>1 DEF ReaderInv, SendingInv, SettledInv, SentInv
<1> QED BY <1>1, <1>3, <1>5, <1>6, HistoryKept DEF ReaderInv

\* A Relation message is learned as it was announced, or ends the reader.
LEMMA RelationInv ==
  ASSUME ReaderInv, RecvRelation
  PROVE  ReaderInv'
<1>1. /\ reader = "selecting"
      /\ UNCHANGED <<log, confirmed, tx, pos, faults, transaction, routed, appliedLsn>>
      /\ UNCHANGED <<stopSent, cmds, consumed, dropped, slotActive, sent, settled>>
  BY DEF RecvRelation, AtChange, Streaming, sharedVars, history
<1>2. \/ reader' = "schemaChanged" /\ connected' = FALSE
      \/ /\ UNCHANGED <<reader, connected>>
         /\ relations' = Learn(relations, RelationMessage(NextChange))
         /\ announced' = Learn(announced, RelationMessage(NextChange))
  BY DEF RecvRelation
<1>3. TypeOK'
  BY <1>1, <1>2 DEF ReaderInv, TypeOK
<1>4. BufferInv'
  BY <1>1, <1>2 DEF ReaderInv, BufferInv
<1>5. SendingInv' /\ SettledInv' /\ SentInv'
  BY <1>1, <1>2 DEF ReaderInv, SendingInv, SettledInv, SentInv
<1> QED BY <1>1, <1>3, <1>4, <1>5, HistoryKept DEF ReaderInv

\* A row adds to the buffer what it owes.
LEMMA RowInv ==
  ASSUME ReaderInv, RecvRow
  PROVE  ReaderInv'
<1> DEFINE c == log[tx][pos]
           events == IF Parses(RowMessage(c)) THEN Events(relations, RowMessage(c)) ELSE {}
<1>1. /\ reader = "selecting" /\ tx <= Len(log)
      /\ pos \in 1..Len(log[tx]) /\ pos' = pos + 1
      /\ c.table \in DOMAIN announced /\ announced[c.table] = c.columns
      /\ UNCHANGED <<log, confirmed, tx, announced, connected, faults>>
      /\ UNCHANGED <<reader, relations, routed, appliedLsn, stopSent>>
      /\ UNCHANGED <<cmds, dropped, slotActive, sent, settled>>
  BY DEF RecvRow, AtChange, Streaming, Announced, NextChange, history
<1>2. /\ consumed' = consumed + Cardinality(events)
      /\ transaction' = IF transaction = <<>> THEN transaction
                        ELSE <<transaction[1] \cup UNION {GenerateHints(e) : e \in events}>>
  BY DEF RecvRow, NextChange
<1>3. IsChange(c) /\ Len(log[tx]) \in Nat
  BY <1>1, LogTyped, ChangesOf DEF ReaderInv, TypeOK
<1>4. UNION {GenerateHints(e) : e \in events} = OwedBy(c)
  <2>1. relations = announced
    BY <1>1 DEF ReaderInv, BufferInv
  <2> HIDE DEF c
  <2> QED BY <1>1, <1>3, <2>1, RowHints
<1>5. Cardinality(events) \in Nat
  <2>1. events = {} \/ \E e : events = {e}
    BY DEF Events
  <2> HIDE DEF events
  <2>2. CASE events = {}
    BY <2>2, FS_EmptySet
  <2>3. CASE \E e : events = {e}
    <3>1. PICK e : events = {e}
      BY <2>3
    <3>2. Cardinality(events) = 1
      BY <3>1, FS_Singleton
    <3> QED BY <3>2
  <2> QED BY <2>1, <2>2, <2>3
<1> HIDE DEF events
<1>6. TypeOK'
  <2>1. consumed' \in Nat
    BY <1>2, <1>5 DEF ReaderInv, TypeOK
  <2> QED BY <1>1, <1>3, <2>1 DEF ReaderInv, TypeOK
<1>7. BufferInv'
  <2>1. transaction = <<OwedUpTo(log[tx], pos - 1)>>
    BY <1>1 DEF ReaderInv, BufferInv
  <2>2. transaction' = <<OwedUpTo(log[tx], pos)>>
    <3>1. pos \in Nat \ {0}
      BY <1>1, <1>3
    <3>2. OwedUpTo(log[tx], pos) = OwedUpTo(log[tx], pos - 1) \cup OwedBy(c)
      BY <3>1, OwedNext
    <3>3. transaction # <<>> /\ transaction[1] = OwedUpTo(log[tx], pos - 1)
      BY <2>1
    <3> HIDE DEF c
    <3>4. transaction' = <<transaction[1] \cup OwedBy(c)>>
      BY <1>2, <1>4, <3>3
    <3> QED BY <3>2, <3>3, <3>4
  <2>3. pos' - 1 = pos
    BY <1>1 DEF ReaderInv, TypeOK
  <2> QED BY <1>1, <2>2, <2>3 DEF ReaderInv, BufferInv
<1>8. SendingInv' /\ SettledInv' /\ SentInv'
  BY <1>1 DEF ReaderInv, SendingInv, SettledInv, SentInv
<1> QED BY <1>1, <1>6, <1>7, <1>8, HistoryKept DEF ReaderInv

\* COMMIT routes what the transaction owes, all of it.
LEMMA CommitEventInv ==
  ASSUME ReaderInv, RecvCommit
  PROVE  ReaderInv'
<1>1. /\ reader = "selecting" /\ reader' = "sending" /\ tx <= Len(log)
      /\ pos = Len(log[tx]) + 1
      /\ UNCHANGED <<log, confirmed, tx, pos, announced, connected, faults>>
      /\ UNCHANGED <<relations, appliedLsn, stopSent>>
      /\ UNCHANGED <<cmds, consumed, dropped, slotActive, sent, settled>>
  BY DEF RecvCommit, AtCommit, Streaming, pgVars, sharedVars, history
<1>2. log[tx] \in Transactions /\ Len(log[tx]) \in Nat
  BY <1>1, LogTyped, ChangesOf DEF ReaderInv, TypeOK
<1>3. transaction = <<Owed(log[tx])>>
  BY <1>1, <1>2 DEF ReaderInv, BufferInv, Owed
<1>4. routed' = Route(Owed(log[tx]))
  BY <1>3 DEF RecvCommit
<1>5. /\ DOMAIN routed' = OwedRooms(log[tx])
      /\ \A room \in OwedRooms(log[tx]) : routed'[room] = OwedTo(log[tx], room)
  BY <1>2, <1>4, RouteOwed
<1>6. TypeOK'
  BY <1>1 DEF ReaderInv, TypeOK
<1>7. BufferInv'
  BY <1>1 DEF ReaderInv, BufferInv
<1>8. SendingInv'
  BY <1>1, <1>2, <1>5 DEF SendingInv
<1>9. SettledInv'
  BY <1>1 DEF ReaderInv, SettledInv
<1>10. SentInv'
  BY <1>1 DEF ReaderInv, SentInv
<1> QED BY <1>1, <1>6, <1>7, <1>8, <1>9, <1>10, HistoryKept DEF ReaderInv

\* What a call leaves behind: one entry more in the history of sends.
LEMMA SendRecorded ==
  ASSUME ReaderInv, NEW room \in DOMAIN routed, SendInvalidation(room)
  PROVE  /\ sent' \in Seq(SendCall) /\ Len(sent') = Len(sent) + 1 /\ Len(sent) \in Nat
         /\ DOMAIN sent = 1..Len(sent) /\ DOMAIN sent' = 1..Len(sent) + 1
         /\ \A i \in 1..Len(sent) : sent'[i] = sent[i]
         /\ sent'[Len(sent) + 1].tx = tx /\ sent'[Len(sent) + 1].room = room
         /\ sent'[Len(sent) + 1].hints = routed[room] /\ sent'[Len(sent) + 1].ok = ~ Full
         /\ pos > 0 /\ tx \in 1..Len(log) /\ room \in OwedRooms(log[tx])
         /\ routed[room] = OwedTo(log[tx], room) /\ routed[room] # {}
         /\ room \in DocumentId
<1> DEFINE call == [tx |-> tx, room |-> room, hints |-> routed[room], ok |-> ~ Full]
<1>1. reader = "sending" /\ sent' = Append(sent, call)
  BY DEF SendInvalidation
<1>2. /\ pos > 0 /\ tx \in 1..Len(log) /\ log[tx] \in Transactions
      /\ room \in OwedRooms(log[tx])
      /\ routed[room] = OwedTo(log[tx], room)
  BY <1>1, LogTyped DEF ReaderInv, TypeOK, SendingInv
<1>3. room \in DocumentId /\ OwedTo(log[tx], room) # {}
  BY <1>2, RouteOwed
<1>4. call \in SendCall
  <2>1. Len(log[tx]) \in 0..Len(log[tx])
    BY <1>2, ChangesOf
  <2>2. OwedTo(log[tx], room) \subseteq DocumentHint
    BY <1>2, <2>1, OwedTyped DEF OwedTo, Owed
  <2>3. tx \in Nat /\ Full \in BOOLEAN
    BY DEF ReaderInv, TypeOK, Full
  <2> QED BY <1>2, <1>3, <2>2, <2>3 DEF SendCall
<1> HIDE DEF call
<1>5. /\ sent' \in Seq(SendCall) /\ Len(sent') = Len(sent) + 1 /\ Len(sent) \in Nat
      /\ DOMAIN sent = 1..Len(sent) /\ DOMAIN sent' = 1..Len(sent) + 1
      /\ \A i \in 1..Len(sent) : sent'[i] = sent[i]
      /\ sent'[Len(sent) + 1] = call
  BY <1>1, <1>4 DEF ReaderInv, TypeOK
<1>6. call.tx = tx /\ call.room = room /\ call.hints = routed[room] /\ call.ok = ~ Full
  BY DEF call
<1> QED BY <1>2, <1>3, <1>5, <1>6

\* The call that settles a room is the only one of this COMMIT for it, and is
\* counted if the channel refuses it.
LEMMA SendInv ==
  ASSUME ReaderInv, NEW room \in DOMAIN routed, SendInvalidation(room)
  PROVE  ReaderInv'
<1>1. /\ reader = "sending" /\ reader' = "sending"
      /\ routed' = [r \in DOMAIN routed \ {room} |-> routed[r]]
      /\ cmds' = IF Full THEN cmds ELSE Append(cmds, room)
      /\ dropped' = IF Full THEN dropped + 1 ELSE dropped
      /\ settled' = settled \cup {<<tx, room>>}
      /\ UNCHANGED <<log, confirmed, tx, pos, announced, connected, faults>>
      /\ UNCHANGED <<relations, transaction, appliedLsn, stopSent, consumed, slotActive>>
  BY DEF SendInvalidation, pgVars
<1>2. /\ pos > 0 /\ tx \in 1..Len(log)
      /\ room \in OwedRooms(log[tx])
      /\ routed[room] = OwedTo(log[tx], room)
  BY SendRecorded
<1>3. room \in DocumentId /\ OwedTo(log[tx], room) # {}
  BY SendRecorded
<1> DEFINE call == sent'[Len(sent) + 1]
<1>5. /\ sent' \in Seq(SendCall) /\ Len(sent') = Len(sent) + 1 /\ Len(sent) \in Nat
      /\ DOMAIN sent = 1..Len(sent) /\ DOMAIN sent' = 1..Len(sent) + 1
      /\ \A i \in 1..Len(sent) : sent'[i] = sent[i]
      /\ sent'[Len(sent) + 1] = call
  BY SendRecorded
<1>9. call.tx = tx /\ call.room = room /\ call.hints = routed[room] /\ call.ok = ~ Full
  BY SendRecorded
<1> HIDE DEF call
<1>6. TypeOK'
  <2>1. cmds' \in Seq(DocumentId) /\ Len(cmds') <= RoomsCapacity
    BY <1>1, <1>3, BoundsTyped DEF ReaderInv, TypeOK, Full
  <2>2. dropped' \in Nat
    BY <1>1 DEF ReaderInv, TypeOK
  <2> QED BY <1>1, <1>5, <2>1, <2>2 DEF ReaderInv, TypeOK
<1>7. BufferInv' /\ SettledInv'
  BY <1>1 DEF ReaderInv, BufferInv, SettledInv
<1>8. SendingInv'
  BY <1>1 DEF ReaderInv, SendingInv
<1>10. \A i \in 1..Len(sent) : ~ (sent[i].tx = tx /\ sent[i].room = room)
  BY <1>5 DEF ReaderInv, SentInv
<1>11. SentInv'
  <2> SUFFICES ASSUME NEW i \in 1..Len(sent) + 1
               PROVE  /\ sent'[i].tx \in 1..tx /\ sent'[i].tx <= Len(log)
                      /\ sent'[i].tx = tx => sent'[i].room \notin DOMAIN routed \ {room}
    BY <1>1, <1>5 DEF SentInv
  <2>1. CASE i \in 1..Len(sent)
    BY <1>5, <2>1 DEF ReaderInv, SentInv
  <2>2. CASE i = Len(sent) + 1
    BY <1>2, <1>5, <1>9, <2>2 DEF ReaderInv, TypeOK
  <2> QED BY <1>5, <2>1, <2>2
<1>12. InvalidationsAreExact'
  <2> SUFFICES ASSUME NEW i \in 1..Len(sent) + 1
               PROVE  /\ sent'[i].hints = OwedTo(log[sent'[i].tx], sent'[i].room)
                      /\ sent'[i].hints # {}
    BY <1>1, <1>5 DEF InvalidationsAreExact
  <2>1. CASE i \in 1..Len(sent)
    BY <1>5, <2>1 DEF ReaderInv, InvalidationsAreExact
  <2>2. CASE i = Len(sent) + 1
    BY <1>2, <1>3, <1>5, <1>9, <2>2
  <2> QED BY <1>5, <2>1, <2>2
<1>13. OncePerCommit'
  <2> SUFFICES ASSUME NEW i \in 1..Len(sent) + 1, NEW j \in 1..Len(sent) + 1,
                      sent'[i].tx = sent'[j].tx, sent'[i].room = sent'[j].room
               PROVE  i = j
    BY <1>5 DEF OncePerCommit
  <2>1. CASE i \in 1..Len(sent) /\ j \in 1..Len(sent)
    BY <1>5, <2>1 DEF ReaderInv, OncePerCommit
  <2>2. CASE i = Len(sent) + 1 /\ j \in 1..Len(sent)
    BY <1>5, <1>9, <1>10, <2>2
  <2>3. CASE i \in 1..Len(sent) /\ j = Len(sent) + 1
    BY <1>5, <1>9, <1>10, <2>3
  <2> QED BY <1>5, <2>1, <2>2, <2>3
<1>14. DropsAreCounted'
  <2> DEFINE refused == {i \in 1..Len(sent) : ~ sent[i].ok}
             last == Len(sent) + 1
  <2>1. IsFiniteSet(refused) /\ Cardinality(refused) \in Nat
    <3>1. IsFiniteSet(1..Len(sent))
      BY <1>5, FS_Interval
    <3> QED BY <3>1, FS_Subset, FS_CardinalityType
  <2>2. dropped = Cardinality(refused)
    BY <1>5 DEF ReaderInv, DropsAreCounted
  <2>3. {i \in 1..last : ~ sent'[i].ok} = IF Full THEN refused \cup {last} ELSE refused
    <3>1. \A i \in 1..last : i = last \/ i \in 1..Len(sent)
      BY <1>5
    <3>2. 1..Len(sent) \subseteq 1..last /\ last \in 1..last
      BY <1>5
    <3> QED BY <1>5, <1>9, <3>1, <3>2, Zenon
  <2>4. last \notin refused
    BY <1>5
  <2> HIDE DEF refused, last
  <2>5. Cardinality(refused \cup {last}) = Cardinality(refused) + 1
    BY <2>1, <2>4, FS_AddElement
  <2>6. DOMAIN sent' = 1..last
    BY <1>5 DEF last
  <2> QED BY <1>1, <2>2, <2>3, <2>5, <2>6 DEF DropsAreCounted
<1> QED BY <1>6, <1>7, <1>8, <1>11, <1>12, <1>13, <1>14 DEF ReaderInv

\* After the last room the transaction is settled, and only then reported.
LEMMA EndCommitInv ==
  ASSUME ReaderInv, EndCommit
  PROVE  ReaderInv'
<1>1. /\ reader = "sending" /\ reader' = "selecting" /\ DOMAIN routed = {}
      /\ appliedLsn' = tx /\ tx' = tx + 1 /\ pos' = 0
      /\ UNCHANGED <<log, confirmed, announced, connected, faults>>
      /\ UNCHANGED <<relations, transaction, routed, stopSent>>
      /\ UNCHANGED <<cmds, consumed, dropped, slotActive, sent, settled>>
  BY DEF EndCommit, sharedVars, history
<1>2. tx \in 1..Len(log) /\ \A room \in OwedRooms(log[tx]) : <<tx, room>> \in settled
  BY <1>1 DEF ReaderInv, TypeOK, SendingInv
<1>3. TypeOK'
  BY <1>1, <1>2 DEF ReaderInv, TypeOK
<1>4. BufferInv' /\ SendingInv'
  BY <1>1 DEF ReaderInv, BufferInv, SendingInv
<1>5. SettledInv'
  <2>1. confirmed < tx + 1 /\ tx < tx + 1 /\ \A t \in 1..tx : t = tx \/ t \in 1..tx - 1
    BY <1>2 DEF ReaderInv, TypeOK, SettledInv
  <2>2. tx' - 1 = tx
    BY <1>1, <1>2
  <2> QED BY <1>1, <1>2, <2>1, <2>2 DEF ReaderInv, SettledInv
<1>6. SentInv'
  BY <1>1, <1>2 DEF ReaderInv, SentInv
<1> QED BY <1>1, <1>3, <1>4, <1>5, <1>6, HistoryKept DEF ReaderInv

-----------------------------------------------------------------------------
(* The theorems.                                                           *)

\* Every step of the reader and of what is around it keeps the invariant.
LEMMA NextInv == ReaderInv /\ [Next]_vars => ReaderInv'
<1> SUFFICES ASSUME ReaderInv, [Next]_vars
             PROVE  ReaderInv'
  OBVIOUS
<1>1. ASSUME NEW changes \in Transactions, Commit(changes) PROVE ReaderInv'
  BY <1>1, CommitInv
<1>2. CASE ConfirmApplied
  BY <1>2, ConfirmInv
<1>3. CASE RoomsTake
  <2>1. TypeOK'
    <3>1. cmds \in Seq(DocumentId) /\ cmds # <<>> /\ cmds' = Tail(cmds)
          /\ Len(cmds) <= RoomsCapacity
      BY <1>3 DEF RoomsTake, ReaderInv, TypeOK
    <3>2. cmds' \in Seq(DocumentId) /\ Len(cmds') = Len(cmds) - 1 /\ Len(cmds) \in Nat
      BY <3>1, HeadTailProperties, LenProperties
    <3>3. Len(cmds') <= RoomsCapacity
      BY <3>1, <3>2, BoundsTyped
    <3> QED BY <1>3, <3>2, <3>3
            DEF RoomsTake, ReaderInv, TypeOK, pgVars, actorVars, history
  <2> QED BY <1>3, <2>1, QuietInv DEF RoomsTake, pgVars, actorVars, history
<1>4. CASE LoseStream
  <2>1. TypeOK'
    BY <1>4, FaultTyped DEF LoseStream, ReaderInv, TypeOK, actorVars, sharedVars, history
  <2> QED BY <1>4, <2>1, QuietInv DEF LoseStream, actorVars, sharedVars, history
<1>5. CASE Crash
  <2>1. faults' \in 0..MaxFaults
    BY <1>5, FaultTyped DEF Crash
  <2> QED BY <1>5, <2>1, BootInv DEF Crash
<1>6. CASE Restart
  <2>1. faults' \in 0..MaxFaults
    BY <1>6 DEF Restart, ReaderInv, TypeOK
  <2> QED BY <1>6, <2>1, BootInv DEF Restart
<1>7. CASE StopCommand
  <2>1. TypeOK'
    BY <1>7, FaultTyped DEF StopCommand, ReaderInv, TypeOK, sharedVars, history
  <2> QED BY <1>7, <2>1, QuietInv DEF StopCommand, sharedVars, history
<1>8. CASE Connect
  <2>1. TypeOK'
    <3>1. faults' \in 0..MaxFaults
      BY <1>8, FaultTyped DEF Connect, ReaderInv, TypeOK
    <3> QED BY <1>8, <3>1 DEF Connect, ReaderInv, TypeOK, sharedVars, history
  <2> QED BY <1>8, <2>1, QuietInv DEF Connect, sharedVars, history
<1>9. CASE RecvStop
  <2>1. TypeOK'
    BY <1>9 DEF RecvStop, ReaderInv, TypeOK, sharedVars, history
  <2> QED BY <1>9, <2>1, QuietInv DEF RecvStop, sharedVars, history
<1>10. CASE SlotPoll
  <2>1. TypeOK'
    BY <1>10 DEF SlotPoll, ReaderInv, TypeOK, pgVars, actorVars, history
  <2> QED BY <1>10, <2>1, QuietInv DEF SlotPoll, pgVars, actorVars, history
<1>11. CASE RecvEnd
  <2>1. TypeOK'
    BY <1>11 DEF RecvEnd, ReaderInv, TypeOK, pgVars, sharedVars, history
  <2> QED BY <1>11, <2>1, QuietInv DEF RecvEnd, pgVars, sharedVars, history
<1>12. CASE RecvBegin
  BY <1>12, BeginInv
<1>13. CASE RecvRelation
  BY <1>13, RelationInv
<1>14. CASE RecvRow
  BY <1>14, RowInv
<1>15. CASE RecvCommit
  BY <1>15, CommitEventInv
<1>16. ASSUME NEW room \in DOMAIN routed, SendInvalidation(room) PROVE ReaderInv'
  BY <1>16, SendInv
<1>17. CASE EndCommit
  BY <1>17, EndCommitInv
<1>18. ASSUME NEW room \in DocumentId, SessionsSend(room) PROVE ReaderInv'
  <2>1. TypeOK'
    <3>1. cmds' \in Seq(DocumentId) /\ Len(cmds') <= RoomsCapacity
      BY <1>18, BoundsTyped DEF SessionsSend, ReaderInv, TypeOK
    <3> QED BY <1>18, <3>1 DEF SessionsSend, ReaderInv, TypeOK, pgVars, actorVars, history
  <2> QED BY <1>18, <2>1, QuietInv DEF SessionsSend, pgVars, actorVars, history
<1>19. CASE UNCHANGED vars
  <2>1. TypeOK'
    BY <1>19 DEF vars, pgVars, actorVars, sharedVars, history, ReaderInv, TypeOK
  <2> QED BY <1>19, <2>1, QuietInv DEF vars, pgVars, actorVars, sharedVars, history
<1> QED
  BY <1>1, <1>2, <1>3, <1>4, <1>5, <1>6, <1>7, <1>8, <1>9, <1>10, <1>11, <1>12, <1>13,
     <1>14, <1>15, <1>16, <1>17, <1>18, <1>19 DEF Next

\* The buffer, the loop over the rooms, the slot and the history of sends agree
\* in every state (replication.rs:147-281).
THEOREM ReaderCorrect == Spec => []ReaderInv
<1>1. Init => ReaderInv
  BY InitInv
<1>2. ReaderInv /\ [Next]_vars => ReaderInv'
  BY NextInv
<1> QED BY <1>1, <1>2, PTL DEF Spec

\* Every local of the reader, the command channel and the counters keep to their
\* types and bounds, through every crash and restart (replication.rs:147-148,
\* rooms.rs:18).
THEOREM ReaderTypeCorrect == Spec => []TypeOK
<1>1. ReaderInv => TypeOK
  BY DEF ReaderInv
<1> QED BY <1>1, ReaderCorrect, PTL

\* A room is told exactly what a transaction did to its document
\* (replication.rs:249-274).
THEOREM ExactInvalidations == Spec => []InvalidationsAreExact
<1>1. ReaderInv => InvalidationsAreExact
  BY DEF ReaderInv
<1> QED BY <1>1, ReaderCorrect, PTL

\* ... and once per COMMIT (replication.rs:262).
THEOREM SentOncePerCommit == Spec => []OncePerCommit
<1>1. ReaderInv => OncePerCommit
  BY DEF ReaderInv
<1> QED BY <1>1, ReaderCorrect, PTL

\* Whatever crashes, is lost or is altered, Postgres forgets no transaction that
\* still owes somebody an invalidation (replication.rs:276-280).
THEOREM NothingLostSilently == Spec => []NoSilentLoss
<1>1. ReaderInv => NoSilentLoss
  <2> SUFFICES ASSUME ReaderInv PROVE NoSilentLoss
    OBVIOUS
  <2>1. confirmed \in Nat /\ confirmed < tx
    BY DEF ReaderInv, TypeOK, SettledInv
  <2> QED BY <2>1, SettledBefore DEF NoSilentLoss
<1> QED BY <1>1, ReaderCorrect, PTL

\* Every step of the detailed reader is a step of the promise, or none that can
\* be seen: a COMMIT settles its rooms after those of all transactions before
\* it, and a report forgets settled ones.
LEMMA StepImplements ==
  ASSUME ReaderInv, [Next]_vars
  PROVE  [Promise!Next]_(Promise!vars)
<1> USE DEF Promise!vars
<1>1. ASSUME NEW changes \in Transactions, Commit(changes) PROVE Promise!Next
  BY <1>1 DEF Commit, history, Promise!Next, Promise!Commit
<1>2. CASE ConfirmApplied
  <2>1. appliedLsn \in DOMAIN log /\ appliedLsn > confirmed /\ confirmed' = appliedLsn
        /\ UNCHANGED <<log, settled>>
    BY <1>2 DEF ConfirmApplied, ReaderInv, TypeOK, history
  <2>2. Promise!SettledUpTo(appliedLsn)
    <3>1. appliedLsn \in Nat /\ appliedLsn < tx
      BY DEF ReaderInv, TypeOK, SettledInv
    <3> QED BY <3>1, SettledBefore DEF Promise!SettledUpTo
  <2> QED BY <2>1, <2>2 DEF Promise!Next, Promise!Forget
<1>3. ASSUME NEW room \in DOMAIN routed, SendInvalidation(room) PROVE Promise!Next
  <2>1. reader = "sending" /\ settled' = settled \cup {<<tx, room>>}
        /\ UNCHANGED <<log, confirmed>>
    BY <1>3 DEF SendInvalidation, pgVars
  <2>2. tx \in DOMAIN log /\ room \in OwedRooms(log[tx])
    BY <2>1 DEF ReaderInv, TypeOK, SendingInv
  <2>3. Promise!SettledUpTo(tx - 1)
    BY DEF ReaderInv, TypeOK, SettledInv, Promise!SettledUpTo
  <2> QED BY <2>1, <2>2, <2>3 DEF Promise!Next, Promise!Settle
<1>4. CASE \/ RoomsTake \/ LoseStream \/ Crash \/ Restart \/ StopCommand \/ Connect
           \/ RecvStop \/ SlotPoll \/ RecvEnd \/ RecvBegin \/ RecvRelation \/ RecvRow
           \/ RecvCommit \/ EndCommit \/ UNCHANGED vars
           \/ (\E room \in DocumentId : SessionsSend(room))
  <2>1. UNCHANGED <<log, confirmed, settled>>
    BY <1>4 DEF SessionsSend, RoomsTake, LoseStream, Crash, Restart, StopCommand, Connect, RecvStop, SlotPoll,
                RecvEnd, RecvBegin, RecvRelation, RecvRow, RecvCommit, EndCommit, Boot, vars,
                pgVars, actorVars, sharedVars, history
  <2> QED BY <2>1
<1> QED BY <1>1, <1>2, <1>3, <1>4 DEF Next

\* Seen from the database and the rooms, the reader keeps its promise through
\* every crash, loss and restart (replication.rs:249-281).
THEOREM InvalidatorImplemented == Spec => ImplementsInvalidator
<1>1. Init => Promise!Init
  BY DEF Init, Promise!Init
<1>2. ReaderInv /\ [Next]_vars => [Promise!Next]_(Promise!vars)
  BY StepImplements
<1> QED BY <1>1, <1>2, ReaderCorrect, PTL DEF Spec, ImplementsInvalidator, Promise!Spec

-----------------------------------------------------------------------------
(* What this very process has sent.                                        *)

\* room has been told of transaction t
Told(t, room) == \E i \in DOMAIN sent : sent[i].tx = t /\ sent[i].room = room

\* Every transaction that Postgres may still redeliver and that the reader has
\* dealt with was answered by the process that runs now; of the one at hand, the
\* rooms that are not to come.
AnsweredInv ==
  /\ \A t \in confirmed + 1 .. tx - 1 : \A room \in OwedRooms(log[t]) : Told(t, room)
  /\ reader = "sending" =>
       \A room \in OwedRooms(log[tx]) : room \in DOMAIN routed \/ Told(tx, room)

\* The process sends in the order in which the transactions committed.
SentInOrder ==
  \A i, j \in DOMAIN sent : i <= j => sent[i].tx <= sent[j].tx

\* Nothing was sent, and nothing reported, when the reader starts.
LEMMA AnsweredInit == Init => AnsweredInv /\ SentInOrder
BY EmptySeq DEF Init, AnsweredInv, SentInOrder

\* What a COMMIT has to send to is what the transaction owes.
LEMMA CommitRoutes ==
  ASSUME ReaderInv, RecvCommit
  PROVE  DOMAIN routed' = OwedRooms(log[tx])
<1>1. reader = "selecting" /\ tx <= Len(log) /\ pos = Len(log[tx]) + 1
  BY DEF RecvCommit, AtCommit, Streaming
<1>2. log[tx] \in Transactions /\ Len(log[tx]) \in Nat
  BY <1>1, LogTyped, ChangesOf DEF ReaderInv, TypeOK
<1>3. transaction = <<Owed(log[tx])>>
  BY <1>1, <1>2 DEF ReaderInv, BufferInv, Owed
<1>4. routed' = Route(Owed(log[tx]))
  BY <1>3 DEF RecvCommit
<1> QED BY <1>2, <1>4, RouteOwed

\* No step forgets an answer, and the loop of a COMMIT ends with all of them.
LEMMA AnsweredNext == ReaderInv /\ AnsweredInv /\ [Next]_vars => AnsweredInv'
<1> SUFFICES ASSUME ReaderInv, AnsweredInv, [Next]_vars PROVE AnsweredInv'
  OBVIOUS
<1>0. confirmed \in Nat /\ tx \in Nat /\ confirmed < tx
  BY DEF ReaderInv, TypeOK, SettledInv
<1>1. ASSUME UNCHANGED <<log, confirmed, tx, sent>>,
             reader' = "sending" => UNCHANGED <<reader, routed>>
      PROVE  AnsweredInv'
  BY <1>1 DEF AnsweredInv, Told
<1>2. ASSUME NEW changes \in Transactions, Commit(changes) PROVE AnsweredInv'
  <2>1. /\ \A t \in 1..Len(log) : log'[t] = log[t]
        /\ UNCHANGED <<confirmed, tx, sent, reader, routed>>
    BY <1>2, LogGrows DEF Commit, actorVars, history, ReaderInv, TypeOK
  <2>2. \A t \in confirmed + 1 .. tx - 1 : t \in 1..Len(log)
    BY <1>0 DEF ReaderInv, TypeOK
  <2>3. reader = "sending" => tx \in 1..Len(log)
    BY DEF ReaderInv, TypeOK, SendingInv
  <2>4. \A t, r : Told(t, r) => Told(t, r)'
    BY <2>1 DEF Told
  <2>5. ASSUME NEW t \in confirmed' + 1 .. tx' - 1, NEW room \in OwedRooms(log'[t])
        PROVE  Told(t, room)'
    <3>1. t \in confirmed + 1 .. tx - 1
      BY <2>1
    <3>2. log'[t] = log[t]
      BY <2>1, <2>2, <3>1
    <3> QED BY <2>4, <2>5, <3>1, <3>2 DEF AnsweredInv
  <2>6. ASSUME reader' = "sending", NEW room \in OwedRooms(log'[tx'])
        PROVE  room \in DOMAIN routed' \/ Told(tx, room)'
    <3>1. reader = "sending" /\ log'[tx'] = log[tx]
      BY <2>1, <2>3, <2>6
    <3> QED BY <2>1, <2>4, <2>6, <3>1 DEF AnsweredInv
  <2> QED BY <2>5, <2>6 DEF AnsweredInv
<1>3. CASE ConfirmApplied
  <2>1. /\ confirmed' \in Nat /\ confirmed < confirmed'
        /\ UNCHANGED <<log, tx, sent, reader, routed>>
    BY <1>3 DEF ConfirmApplied, actorVars, history, ReaderInv, TypeOK
  <2>2. confirmed' + 1 .. tx - 1 \subseteq confirmed + 1 .. tx - 1
    <3>1. \A c, d, u \in Nat : c < d => d + 1 .. u - 1 \subseteq c + 1 .. u - 1
      OBVIOUS
    <3> QED BY <1>0, <2>1, <3>1
  <2>3. \A t, r : Told(t, r) => Told(t, r)'
    BY <2>1 DEF Told
  <2>4. ASSUME NEW t \in confirmed' + 1 .. tx' - 1, NEW room \in OwedRooms(log'[t])
        PROVE  Told(t, room)'
    BY <2>1, <2>2, <2>3, <2>4 DEF AnsweredInv
  <2>5. ASSUME reader' = "sending", NEW room \in OwedRooms(log'[tx'])
        PROVE  room \in DOMAIN routed' \/ Told(tx, room)'
    BY <2>1, <2>5 DEF AnsweredInv, Told
  <2> QED BY <2>4, <2>5 DEF AnsweredInv
<1>4. CASE Crash \/ Restart
  <2>1. tx' = confirmed' + 1 /\ confirmed' \in Nat /\ reader' = "starting"
    BY <1>0, <1>4 DEF Crash, Restart, Boot
  <2>2. \A t : t \notin confirmed' + 1 .. tx' - 1
    BY <2>1
  <2> QED BY <2>1, <2>2 DEF AnsweredInv
<1>5. CASE RecvCommit
  <2>1. reader' = "sending" /\ UNCHANGED <<log, confirmed, tx, sent>>
    BY <1>5 DEF RecvCommit, pgVars, history
  <2>2. DOMAIN routed' = OwedRooms(log[tx])
    BY <1>5, CommitRoutes
  <2> QED BY <2>1, <2>2 DEF AnsweredInv, Told
<1>6. ASSUME NEW room \in DOMAIN routed, SendInvalidation(room) PROVE AnsweredInv'
  <2>1. /\ reader = "sending" /\ DOMAIN routed' = DOMAIN routed \ {room}
        /\ UNCHANGED <<log, confirmed, tx, reader>>
    BY <1>6 DEF SendInvalidation, pgVars
  <2>2. \A t, r : Told(t, r) => Told(t, r)'
    BY <1>6, SendRecorded DEF Told
  <2>3. Told(tx, room)'
    BY <1>6, <2>1, SendRecorded DEF Told
  <2> QED BY <2>1, <2>2, <2>3 DEF AnsweredInv
<1>7. CASE EndCommit
  <2>1. /\ reader = "sending" /\ DOMAIN routed = {} /\ reader' = "selecting"
        /\ tx' = tx + 1 /\ UNCHANGED <<log, confirmed, sent>>
    BY <1>7 DEF EndCommit, history
  <2>2. \A t \in confirmed' + 1 .. tx' - 1 : t = tx \/ t \in confirmed + 1 .. tx - 1
    BY <1>0, <2>1
  <2>3. \A t, r : Told(t, r) => Told(t, r)'
    BY <2>1 DEF Told
  <2>4. ASSUME NEW t \in confirmed' + 1 .. tx' - 1, NEW room \in OwedRooms(log'[t])
        PROVE  Told(t, room)'
    <3>1. room \in OwedRooms(log[t])
      BY <2>1, <2>4
    <3>2. CASE t = tx
      BY <2>1, <2>3, <3>1, <3>2 DEF AnsweredInv
    <3>3. CASE t # tx
      BY <2>2, <2>3, <3>1, <3>3 DEF AnsweredInv
    <3> QED BY <3>2, <3>3
  <2>5. reader' # "sending"
    BY <2>1
  <2> QED BY <2>4, <2>5 DEF AnsweredInv
<1>8. ASSUME NEW room \in DocumentId, SessionsSend(room) PROVE AnsweredInv'
  BY <1>1, <1>8 DEF SessionsSend, pgVars, actorVars, history
<1>9. CASE \/ RoomsTake \/ LoseStream \/ StopCommand \/ Connect \/ RecvStop \/ SlotPoll
           \/ RecvEnd \/ RecvBegin \/ RecvRelation \/ RecvRow
  <2>1. UNCHANGED <<log, confirmed, tx, sent, routed>>
    BY <1>9 DEF RoomsTake, LoseStream, StopCommand, Connect, RecvStop, SlotPoll, RecvEnd,
                RecvBegin, RecvRelation, RecvRow, pgVars, actorVars, sharedVars, history
  <2>2. reader' = "sending" => reader' = reader
    BY <1>9 DEF RoomsTake, LoseStream, StopCommand, Connect, RecvStop, SlotPoll, RecvEnd,
                RecvBegin, RecvRelation, RecvRow, pgVars, actorVars, sharedVars, history
  <2> QED BY <1>1, <2>1, <2>2
<1>10. CASE UNCHANGED vars
  BY <1>1, <1>10 DEF vars, pgVars, actorVars, history
<1> QED
  BY <1>2, <1>3, <1>4, <1>5, <1>6, <1>7, <1>8, <1>9, <1>10 DEF Next

\* No step sends of an earlier transaction.
LEMMA SentInOrderNext == ReaderInv /\ SentInOrder /\ [Next]_vars => SentInOrder'
<1> SUFFICES ASSUME ReaderInv, SentInOrder, [Next]_vars PROVE SentInOrder'
  OBVIOUS
<1>1. CASE sent' = sent
  BY <1>1 DEF SentInOrder
<1>2. ASSUME NEW room \in DOMAIN routed, SendInvalidation(room) PROVE SentInOrder'
  <2> DEFINE n == Len(sent) + 1
  <2>1. /\ Len(sent) \in Nat /\ DOMAIN sent = 1..Len(sent) /\ DOMAIN sent' = 1..n
        /\ \A i \in 1..Len(sent) : sent'[i] = sent[i]
        /\ sent'[n].tx = tx
    BY <1>2, SendRecorded
  <2>2. \A i \in 1..Len(sent) : sent[i].tx <= tx
    BY <2>1, SentOwed
  <2>3. tx \in Nat
    BY DEF ReaderInv, TypeOK
  <2>4. ASSUME NEW i \in 1..n, NEW j \in 1..n, i <= j
        PROVE  sent'[i].tx <= sent'[j].tx
    <3>1. CASE j = n
      <4>1. CASE i = n
        BY <2>1, <2>3, <3>1, <4>1
      <4>2. CASE i # n
        <5>1. i \in 1..Len(sent)
          BY <2>1, <4>2
        <5> QED BY <2>1, <2>2, <3>1, <5>1
      <4> QED BY <4>1, <4>2
    <3>2. CASE j # n
      <4>1. i \in 1..Len(sent) /\ j \in 1..Len(sent)
        BY <2>1, <2>4, <3>2
      <4> QED BY <2>1, <2>4, <4>1 DEF SentInOrder
    <3> QED BY <3>1, <3>2
  <2> QED BY <2>1, <2>4 DEF SentInOrder
<1>3. CASE Crash \/ Restart
  <2>1. sent' = <<>>
    BY <1>3 DEF Crash, Restart, Boot
  <2> QED BY <2>1 DEF SentInOrder
<1>4. (\A room \in DOMAIN routed : ~ SendInvalidation(room)) /\ ~ Crash /\ ~ Restart
        => sent' = sent
  BY DEF Next, Commit, SessionsSend, ConfirmApplied, RoomsTake, LoseStream, StopCommand,
         Connect, RecvStop, SlotPoll, RecvEnd, RecvBegin, RecvRelation, RecvRow, RecvCommit,
         EndCommit, history, vars
<1> QED BY <1>1, <1>2, <1>3, <1>4
================================================================================
