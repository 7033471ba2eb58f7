---------------------------- MODULE MiniGraphProofs ----------------------------
(***************************************************************************)
(* The whole server, for every number of peers, documents, slots, commits  *)
(* and failures.  Its steps are those of its two parts, so what is proved  *)
(* of WebSocket and of WalReader carries over; on top of that come the     *)
(* properties that relate the two.                                         *)
(***************************************************************************)
EXTENDS MiniGraph, WebSocketDeliveryProofs

\* the channel as the WAL reader sees it
Channel == [i \in DOMAIN cmds |-> cmds[i].room]

\* WalReader once more, with what is proved of it
Reader == INSTANCE WalReaderProofs WITH cmds <- [i \in DOMAIN cmds |-> cmds[i].room]

\* The assumptions of WalReader hold of this instance.
LEMMA ReaderAssumptions ==
  Reader!HintsAssumption /\ Reader!PgOutputAssumption /\ Reader!WalReaderAssumption
<1>1. Wal!Text = Reader!Text
  BY Zenon DEF Wal!Text, Reader!Text
<1>2. \A change : Wal!IsChange(change) = Reader!IsChange(change)
  BY Zenon DEF Wal!IsChange, Reader!IsChange, Wal!Key, Reader!Key
<1> QED BY <1>1, <1>2, MiniGraphAssumption, RoomsAssumption
        DEF Reader!HintsAssumption, Reader!PgOutputAssumption, Reader!WalReaderAssumption

-----------------------------------------------------------------------------
(* A step of the database or of the reader is one of WalReader.            *)

\* The database's steps.
LEMMA DatabaseSteps ==
  /\ \A changes : Wal!Commit(changes) => Reader!Commit(changes)
  /\ Wal!ConfirmApplied => Reader!ConfirmApplied
  /\ Wal!LoseStream => Reader!LoseStream
BY Zenon
   DEF Wal!Commit, Wal!ConfirmApplied, Wal!LoseStream, Wal!Fault, Wal!actorVars,
       Wal!sharedVars, Wal!history, Reader!Commit, Reader!ConfirmApplied,
       Reader!LoseStream, Reader!Fault, Reader!actorVars, Reader!sharedVars, Reader!history

\* The reader's steps outside of transactions.
LEMMA LoopSteps ==
  /\ Wal!StopCommand => Reader!StopCommand
  /\ Wal!Connect => Reader!Connect
  /\ Wal!RecvStop => Reader!RecvStop
  /\ Wal!SlotPoll => Reader!SlotPoll
  /\ Wal!RecvEnd => Reader!RecvEnd
BY Zenon
   DEF Wal!StopCommand, Wal!Connect, Wal!RecvStop, Wal!SlotPoll, Wal!RecvEnd, Wal!Fault,
       Wal!pgVars, Wal!actorVars, Wal!sharedVars, Wal!history, Reader!StopCommand,
       Reader!Connect, Reader!RecvStop, Reader!SlotPoll, Reader!RecvEnd, Reader!Fault,
       Reader!pgVars, Reader!actorVars, Reader!sharedVars, Reader!history

\* The reader's steps in a transaction.
LEMMA TransactionSteps ==
  /\ Wal!RecvBegin => Reader!RecvBegin
  /\ Wal!RecvRelation => Reader!RecvRelation
  /\ Wal!RecvRow => Reader!RecvRow
  /\ Wal!RecvCommit => Reader!RecvCommit
  /\ \A room : Wal!SendInvalidation(room) => Reader!SendInvalidation(room)
  /\ Wal!EndCommit => Reader!EndCommit
<1> USE DEF Wal!Streaming, Wal!AtChange, Wal!Announced, Wal!NextChange, Wal!pgVars,
            Wal!sharedVars, Wal!history, Reader!Streaming, Reader!AtChange,
            Reader!Announced, Reader!NextChange, Reader!pgVars, Reader!sharedVars,
            Reader!history
<1>1. Wal!RecvBegin => Reader!RecvBegin
  BY Zenon DEF Wal!RecvBegin, Reader!RecvBegin
<1>2. Wal!RecvRelation => Reader!RecvRelation
  BY Zenon DEF Wal!RecvRelation, Wal!RelationMessage, Wal!SchemaChange, Wal!Learn,
               Reader!RecvRelation, Reader!RelationMessage, Reader!SchemaChange, Reader!Learn
<1>3. Wal!RecvRow => Reader!RecvRow
  <2>1. \A change : Wal!RowMessage(change) = Reader!RowMessage(change)
    BY Zenon DEF Wal!RowMessage, Wal!Tuple, Wal!Key, Reader!RowMessage, Reader!Tuple,
                 Reader!Key
  <2>2. \A message : /\ Wal!Parses(message) = Reader!Parses(message)
                     /\ Wal!Events(relations, message) = Reader!Events(relations, message)
    BY Zenon DEF Wal!Parses, Wal!Events, Wal!FromValues, Wal!ParseTuple, Reader!Parses,
                 Reader!Events, Reader!FromValues, Reader!ParseTuple
  <2>3. \A event : Wal!GenerateHints(event) = Reader!GenerateHints(event)
    BY Zenon DEF Wal!GenerateHints, Wal!NeedsColumn, Wal!MissingColumn, Wal!Required,
                 Wal!Previous, Wal!TextColumn, Wal!Text, Wal!Hint, Reader!GenerateHints,
                 Reader!NeedsColumn, Reader!MissingColumn, Reader!Required,
                 Reader!Previous, Reader!TextColumn, Reader!Text, Reader!Hint
  <2>4. \A events : {Wal!GenerateHints(e) : e \in events} = {Reader!GenerateHints(e) : e \in events}
    BY <2>3
  <2>5. \A S : Wal!Cardinality(S) = Reader!Cardinality(S)
    BY Zenon DEF Wal!Cardinality, Reader!Cardinality
  <2> QED BY <2>1, <2>2, <2>4, <2>5 DEF Wal!RecvRow, Reader!RecvRow
<1>4. Wal!RecvCommit => Reader!RecvCommit
  BY Zenon DEF Wal!RecvCommit, Wal!AtCommit, Wal!Route, Wal!RouteKey,
               Reader!RecvCommit, Reader!AtCommit, Reader!Route, Reader!RouteKey
<1>5. \A room : Wal!SendInvalidation(room) => Reader!SendInvalidation(room)
  BY Zenon DEF Wal!SendInvalidation, Wal!Full, Reader!SendInvalidation, Reader!Full
<1>6. Wal!EndCommit => Reader!EndCommit
  BY Zenon DEF Wal!EndCommit, Reader!EndCommit
<1> QED BY <1>1, <1>2, <1>3, <1>4, <1>5, <1>6

\* A new process, for either reason.
LEMMA ProcessSteps ==
  /\ Wal!Crash => Reader!Crash
  /\ Wal!Restart => Reader!Restart
BY Zenon
   DEF Wal!Crash, Wal!Restart, Wal!Boot, Wal!Fault, Reader!Crash, Reader!Restart,
       Reader!Boot, Reader!Fault

\* Both start in the same state.
LEMMA SystemInitParts == SystemInit => Init /\ Reader!Init
BY Zenon DEF SystemInit, Wal!Init, Reader!Init

-----------------------------------------------------------------------------
(* A step of the sessions or the coordinator is one of WalReader too.      *)

\* The reader's view of the channel.
LEMMA ChannelView ==
  RoomsTypeOK => /\ Channel \in Seq(DocumentId)
                 /\ Len(Channel) = Len(cmds)
                 /\ Len(cmds) \in Nat
                 /\ \A i \in 1..Len(cmds) : Channel[i] = cmds[i].room
<1> SUFFICES ASSUME RoomsTypeOK
             PROVE  /\ Channel \in Seq(DocumentId)
                    /\ Len(Channel) = Len(cmds)
                    /\ Len(cmds) \in Nat
                    /\ \A i \in 1..Len(cmds) : Channel[i] = cmds[i].room
  OBVIOUS
<1>1. /\ Len(cmds) \in Nat /\ DOMAIN cmds = 1..Len(cmds)
      /\ \A i \in 1..Len(cmds) : cmds[i] \in RoomCommand
  BY LenProperties, ElementOfSeq DEF RoomsTypeOK
<1>2. \A i \in 1..Len(cmds) : cmds[i].room \in DocumentId
  BY <1>1, CommandFields
<1> QED BY <1>1, <1>2 DEF Channel

\* What the coordinator takes, and what a session sends, it sees as well.
LEMMA ChannelStep ==
  ASSUME TypeOK, TypeOK', [Next]_vars
  PROVE  \/ Channel' = Channel
         \/ Channel # <<>> /\ Channel' = Tail(Channel)
         \/ \E room \in DocumentId : /\ Len(Channel) < RoomsCapacity
                                     /\ Channel' = Append(Channel, room)
<1> RoomsTypeOK /\ RoomsTypeOK'
  BY DEF TypeOK
<1>1. /\ Channel \in Seq(DocumentId) /\ Len(Channel) = Len(cmds) /\ Len(cmds) \in Nat
      /\ \A i \in 1..Len(cmds) : Channel[i] = cmds[i].room
  BY ChannelView
<1>2. /\ Channel' \in Seq(DocumentId) /\ Len(Channel') = Len(cmds')
      /\ Len(cmds') \in Nat
      /\ \A i \in 1..Len(cmds') : Channel'[i] = cmds'[i].room
  <2>1. (RoomsTypeOK => /\ Channel \in Seq(DocumentId) /\ Len(Channel) = Len(cmds)
                        /\ Len(cmds) \in Nat
                        /\ \A i \in 1..Len(cmds) : Channel[i] = cmds[i].room)'
    BY ChannelView, PTL
  <2> QED BY <2>1
<1>3. CASE cmds' = cmds
  BY <1>3 DEF Channel
<1>4. ASSUME NEW op, Receive(op) PROVE Channel # <<>> /\ Channel' = Tail(Channel)
  <2>1. /\ Len(cmds) = Len(cmds') + 1
        /\ \A i \in 1..Len(cmds') : i + 1 \in 1..Len(cmds) /\ cmds'[i] = cmds[i + 1]
    BY <1>4, CommandTaken
  <2>2. Channel # <<>>
    BY <1>1, <1>2, <2>1, EmptySeq
  <2>3. /\ Tail(Channel) \in Seq(DocumentId)
        /\ Len(Tail(Channel)) = Len(Channel) - 1
        /\ \A i \in 1..Len(Tail(Channel)) : Tail(Channel)[i] = Channel[i + 1]
    BY <1>1, <2>2, HeadTailProperties
  <2>4. Len(Channel') = Len(Tail(Channel))
    BY <1>1, <1>2, <2>1, <2>3
  <2>5. \A i \in 1..Len(Channel') : Channel'[i] = Tail(Channel)[i]
    BY <1>1, <1>2, <2>1, <2>3, <2>4
  <2>6. Channel' = Tail(Channel)
    BY <1>2, <2>3, <2>4, <2>5, SeqEqual
  <2> QED BY <2>2, <2>6
<1>5. ASSUME NEW cmd \in RoomCommand, TrySendCommand(cmd)
      PROVE  /\ cmd.room \in DocumentId
             /\ Len(Channel) < RoomsCapacity
             /\ Channel' = Append(Channel, cmd.room)
  <2>1. cmd.room \in DocumentId
    BY CommandFields
  <2>2. /\ Len(cmds') = Len(cmds) + 1
        /\ \A i \in 1..Len(cmds') :
             IF i <= Len(cmds) THEN cmds'[i] = cmds[i] ELSE cmds'[i] = cmd
    BY <1>5, CommandAppended
  <2>3. Len(Channel) < RoomsCapacity
    BY <1>1, <1>5, RoomsAssumption DEF TrySendCommand, ChannelFull
  <2> DEFINE longer == Append(Channel, cmd.room)
  <2>4. /\ longer \in Seq(DocumentId)
        /\ Len(longer) = Len(Channel) + 1
        /\ \A i \in 1..Len(longer) :
             longer[i] = IF i <= Len(Channel) THEN Channel[i] ELSE cmd.room
    BY <1>1, <2>1
  <2> HIDE DEF longer
  <2>5. Len(Channel') = Len(longer)
    BY <1>1, <1>2, <2>2, <2>4
  <2>6. \A i \in 1..Len(Channel') : Channel'[i] = longer[i]
    BY <1>1, <1>2, <2>2, <2>4, <2>5
  <2>7. Channel' = longer
    BY <1>2, <2>4, <2>5, <2>6, SeqEqual
  <2> QED BY <2>1, <2>3, <2>7 DEF longer
<1>6. \/ cmds' = cmds
      \/ \E op : Receive(op)
      \/ \E cmd \in RoomCommand : TrySendCommand(cmd) /\ Fresh(cmd)
  BY CommandsChange
<1> QED BY <1>3, <1>4, <1>5, <1>6

-----------------------------------------------------------------------------
(* The parts' invariants hold of the whole.                                *)

\* The sink's n-th call is the reader's n-th send of this process.
CallsAgree == invalidations = Len(sent)

SystemInv == TypeOK /\ MembershipInv /\ Reader!ReaderInv /\ CallsAgree

\* The reader sees a step of the sessions or the coordinator as one of what is
\* around it.
LEMMA RoomsStepSeen ==
  ASSUME TypeOK, RoomsStep
  PROVE  [Next]_vars /\ [Reader!Next]_(Reader!vars)
<1>1. [Next]_vars /\ UNCHANGED readerVars
  BY DEF RoomsStep, Next
<1>2. TypeOK'
  BY <1>1, TypeNext
<1>3. UNCHANGED <<Reader!pgVars, Reader!actorVars, consumed, dropped, slotActive, Reader!history>>
  BY <1>1 DEF readerVars, Reader!pgVars, Reader!actorVars, Reader!history
<1>4. CASE Channel' = Channel
  <2>1. UNCHANGED Reader!vars
    BY <1>3, <1>4, Zenon
       DEF Channel, Reader!vars, Reader!sharedVars, Reader!pgVars, Reader!actorVars,
           Reader!history
  <2> QED BY <1>1, <2>1
<1>5. CASE Channel # <<>> /\ Channel' = Tail(Channel)
  <2>1. Reader!RoomsTake
    BY <1>3, <1>5, Zenon DEF Channel, Reader!RoomsTake
  <2> QED BY <1>1, <2>1 DEF Reader!Next
<1>6. ASSUME NEW room \in DocumentId, Len(Channel) < RoomsCapacity,
             Channel' = Append(Channel, room)
      PROVE  Reader!SessionsSend(room)
  BY <1>3, <1>6, Zenon DEF Channel, Reader!SessionsSend
<1> QED BY <1>1, <1>2, <1>4, <1>5, <1>6, ChannelStep DEF Reader!Next

\* Every step of the server is one of either part, unless it starts it anew.
LEMMA StepsOfParts ==
  ASSUME SystemInv, SystemNext, ~ NewProcess
  PROVE  [Next]_vars /\ [Reader!Next]_(Reader!vars)
<1> USE DEF SystemInv
<1>1. CASE RoomsStep
  BY <1>1, RoomsStepSeen
<1>2. CASE DatabaseStep
  <2>1. UNCHANGED vars
    BY <1>2 DEF DatabaseStep
  <2>2. Reader!Next
    BY <1>2, DatabaseSteps, Zenon DEF DatabaseStep, Reader!Next
  <2> QED BY <2>1, <2>2
<1>3. CASE ReaderStep
  <2>1. UNCHANGED vars
    BY <1>3 DEF ReaderStep
  <2>2. Reader!Next
    BY <1>3, LoopSteps, TransactionSteps, Zenon DEF ReaderStep, Reader!Next
  <2> QED BY <2>1, <2>2
<1>4. ASSUME NEW room \in DOMAIN routed, Invalidate(room)
      PROVE  Next /\ Reader!Next
  <2>1. SendInvalidation(room) /\ Reader!SendInvalidation(room)
    BY <1>4, TransactionSteps, Zenon DEF Invalidate
  <2>2. reader = "sending"
    BY <2>1 DEF Reader!SendInvalidation
  <2>3. room \in DocumentId
    BY <2>2, Reader!RoutedTyped, ReaderAssumptions
  <2> QED BY <2>1, <2>3 DEF Next, Reader!Next
<1> QED BY <1>1, <1>2, <1>3, <1>4 DEF SystemNext

\* A new process starts in the initial state, and keeps what the database has.
LEMMA ProcessStarts == NewProcess => Init' /\ (Reader!Crash \/ Reader!Restart)
<1> SUFFICES ASSUME NewProcess PROVE Init' /\ (Reader!Crash \/ Reader!Restart)
  OBVIOUS
<1>1. Init'
  BY Zenon DEF NewProcess, Init, RoomsInit
<1>2. Reader!Crash \/ Reader!Restart
  BY ProcessSteps, Zenon DEF NewProcess
<1> QED BY <1>1, <1>2

\* A step of the server is one of the reader, or of what is around it.
LEMMA ReaderSteps ==
  ASSUME SystemInv, [SystemNext]_systemVars
  PROVE  [Reader!Next]_(Reader!vars)
<1>1. CASE SystemNext /\ ~ NewProcess
  BY <1>1, StepsOfParts
<1>2. CASE NewProcess
  <2>1. Reader!Next
    BY <1>2, ProcessStarts, Zenon DEF Reader!Next
  <2> QED BY <2>1
<1>3. CASE UNCHANGED systemVars
  BY <1>3 DEF systemVars, readerVars, vars, roomsVars, Reader!vars, Reader!pgVars,
              Reader!actorVars, Reader!sharedVars, Reader!history
<1> QED BY <1>1, <1>2, <1>3

\* ... and one of the sessions and the coordinator, unless it starts them anew.
LEMMA SessionSteps ==
  ASSUME SystemInv, [SystemNext]_systemVars
  PROVE  [Next]_vars \/ (NewProcess /\ Init')
<1>1. CASE SystemNext /\ ~ NewProcess
  BY <1>1, StepsOfParts
<1>2. CASE NewProcess
  BY <1>2, ProcessStarts
<1>3. CASE UNCHANGED systemVars
  BY <1>3 DEF systemVars
<1> QED BY <1>1, <1>2, <1>3

\* No session calls the sink.
LEMMA SinkIdle == RoomsStep => UNCHANGED sinkVars
BY DEF RoomsStep, CoordinatorStep, SessionsNext, RecvJoin, RecvSendMessageTo, AckJoin,
       TimeoutJoin, EndJoin, RecvSendMessage, RecvInvalid, RecvEnd, RecvAborted,
       SendDeliver, SendFail, SendAborted, EndSendTask, MainSelect, MainLeave, PeerClose

\* Every call of the sink is a send of the reader.
LEMMA CallsNext ==
  ASSUME SystemInv, [SystemNext]_systemVars
  PROVE  CallsAgree'
<1> USE DEF CallsAgree, SystemInv
<1>1. CASE RoomsStep
  <2>1. UNCHANGED sinkVars
    BY <1>1, SinkIdle
  <2>2. UNCHANGED readerVars
    BY <1>1 DEF RoomsStep
  <2> QED BY <2>1, <2>2 DEF sinkVars, readerVars
<1>2. CASE DatabaseStep
  <2>1. UNCHANGED <<vars, sent>>
    BY <1>2 DEF DatabaseStep, Wal!Commit, Wal!ConfirmApplied, Wal!LoseStream,
                Wal!sharedVars, Wal!history
  <2> QED BY <2>1 DEF vars, sinkVars
<1>3. CASE ReaderStep
  <2>1. UNCHANGED <<vars, sent>>
    BY <1>3 DEF ReaderStep, Wal!StopCommand, Wal!Connect, Wal!RecvStop, Wal!SlotPoll,
                Wal!RecvEnd, Wal!RecvBegin, Wal!RecvRelation, Wal!RecvRow, Wal!RecvCommit,
                Wal!EndCommit, Wal!sharedVars, Wal!history
  <2> QED BY <2>1 DEF vars, sinkVars
<1>4. ASSUME NEW room \in DOMAIN routed, Invalidate(room)
      PROVE  CallsAgree'
  <2>1. SendInvalidation(room) /\ Reader!SendInvalidation(room)
    BY <1>4, TransactionSteps, Zenon DEF Invalidate
  <2>2. Len(sent') = Len(sent) + 1
    BY <2>1, Reader!SendRecorded, ReaderAssumptions
  <2>3. invalidations' = invalidations + 1
    BY <2>1 DEF SendInvalidation
  <2> QED BY <2>2, <2>3
<1>5. CASE NewProcess
  <2>1. sent' = <<>> /\ invalidations' = 0
    BY <1>5 DEF NewProcess, Wal!Crash, Wal!Restart, Wal!Boot
  <2> QED BY <2>1, EmptySeq
<1>6. CASE UNCHANGED systemVars
  BY <1>6 DEF systemVars, vars, sinkVars, readerVars
<1> QED BY <1>1, <1>2, <1>3, <1>4, <1>5, <1>6 DEF SystemNext

\* The invariants of the parts hold when the server starts.
LEMMA SystemInvInit == SystemInit => SystemInv
<1> SUFFICES ASSUME SystemInit PROVE SystemInv
  OBVIOUS
<1>1. TypeOK /\ MembershipInv
  BY SystemInitParts, TypeInit, MembershipInit
<1>2. Reader!ReaderInv
  BY SystemInitParts, Reader!InitInv, ReaderAssumptions
<1>3. CallsAgree
  BY SystemInitParts, EmptySeq DEF CallsAgree, Init, Reader!Init
<1> QED BY <1>1, <1>2, <1>3 DEF SystemInv

\* Every step of the server keeps them.
LEMMA SystemInvNext == SystemInv /\ [SystemNext]_systemVars => SystemInv'
<1> SUFFICES ASSUME SystemInv, [SystemNext]_systemVars PROVE SystemInv'
  OBVIOUS
<1>1. TypeOK' /\ MembershipInv'
  <2>1. (Init => TypeOK)' /\ (Init => MembershipInv)'
    BY TypeInit, MembershipInit, PTL
  <2> QED BY <2>1, SessionSteps, TypeNext, MembershipNext DEF SystemInv
<1>2. Reader!ReaderInv'
  BY ReaderSteps, Reader!NextInv, ReaderAssumptions DEF SystemInv
<1> QED BY <1>1, <1>2, CallsNext DEF SystemInv

\* The sessions, the coordinator and the reader keep their invariants in one
\* process, over one channel, through every crash (lib.rs:15-47).
THEOREM SystemCorrect == SystemSpec => []SystemInv
BY SystemInvInit, SystemInvNext, PTL DEF SystemSpec

-----------------------------------------------------------------------------
(* From the database to the peers.                                         *)

\* an invalidation is a send of the reader, one that fitted the channel
Backed(m) ==
  m.type = "invalidation" =>
    m.seq \in DOMAIN sent /\ sent[m.seq].ok /\ sent[m.seq].room = m.room

\* The inductive invariant: every invalidation on the channel, in a stream or
\* owed to a session is backed.
BackedInv ==
  /\ \A i : IsBroadcast(i) => Backed(cmds[i].message)
  /\ \A c \in ClientId :
       /\ \A m \in Received(c) \cap Payload : Backed(m)
       /\ \A m \in expected[c] : Backed(m)

\* m is what this step puts on the channel
Publishes(m) ==
  \E room \in DocumentId : Enqueue(room, m) /\ m.room = room /\ Numbered(m)

\* A broadcast of the channel was there before or is published now.
LEMMA BroadcastOrigins ==
  ASSUME TypeOK, [Next]_vars, NEW i, IsBroadcast(i)'
  PROVE  \/ \E j : IsBroadcast(j) /\ cmds'[i] = cmds[j]
         \/ cmds'[i].message \in Payload /\ Publishes(cmds'[i].message)
<1>1. i \in 1..Len(cmds') /\ cmds'[i].op = "broadcast"
  BY DEF IsBroadcast
<1>2. RoomsTypeOK /\ Len(cmds) \in Nat
  BY LenProperties DEF TypeOK, RoomsTypeOK
<1>3. CASE cmds' = cmds
  BY <1>1, <1>3 DEF IsBroadcast
<1>4. ASSUME NEW op, Receive(op) PROVE \E j : IsBroadcast(j) /\ cmds'[i] = cmds[j]
  <2>1. i + 1 \in 1..Len(cmds) /\ cmds'[i] = cmds[i + 1]
    BY <1>1, <1>2, <1>4, CommandTaken
  <2> QED BY <1>1, <2>1 DEF IsBroadcast
<1>5. ASSUME NEW cmd \in RoomCommand, TrySendCommand(cmd)
      PROVE  cmds'[i] = cmd \/ \E j : IsBroadcast(j) /\ cmds'[i] = cmds[j]
  <2>1. /\ Len(cmds') = Len(cmds) + 1
        /\ IF i <= Len(cmds) THEN cmds'[i] = cmds[i] ELSE cmds'[i] = cmd
    BY <1>1, <1>2, <1>5, CommandAppended
  <2>2. i <= Len(cmds) => i \in 1..Len(cmds)
    BY <1>1, <1>2
  <2> QED BY <1>1, <2>1, <2>2 DEF IsBroadcast
<1>6. ASSUME NEW room \in DocumentId, NEW m \in Payload,
             Enqueue(room, m), m.room = room, Numbered(m)
      PROVE  \/ \E j : IsBroadcast(j) /\ cmds'[i] = cmds[j]
             \/ cmds'[i].message \in Payload /\ Publishes(cmds'[i].message)
  <2>1. /\ Broadcast(room, m) \in RoomCommand /\ Broadcast(room, m).message = m
        /\ TrySendCommand(Broadcast(room, m))
    BY <1>6 DEF Enqueue, Broadcast, RoomCommand, BroadcastCommand
  <2>2. CASE cmds'[i] = Broadcast(room, m)
    BY <1>6, <2>1, <2>2 DEF Publishes
  <2> QED BY <1>5, <2>1, <2>2
<1>7. ASSUME NEW cmd \in RoomCommand, TrySendCommand(cmd), cmd.op # "broadcast"
      PROVE  \E j : IsBroadcast(j) /\ cmds'[i] = cmds[j]
  BY <1>1, <1>5, <1>7
<1> QED BY <1>3, <1>4, <1>6, <1>7, Published

\* What a session is owed it was owed before, or it is published now.
LEMMA ExpectedOrigins ==
  ASSUME TypeOK, [Next]_vars, NEW c \in ClientId, NEW m \in expected'[c]
  PROVE  m \in expected[c] \/ (m \in Payload /\ Publishes(m))
<1>1. ASSUME NEW room \in DocumentId, NEW p \in Payload,
             Enqueue(room, p), p.room = room, Numbered(p)
      PROVE  m \in expected[c] \/ (m \in Payload /\ Publishes(m))
  <2>1. m \in expected[c] \/ m = p
    BY <1>1 DEF Enqueue
  <2> QED BY <1>1, <2>1 DEF Publishes
<1> QED BY <1>1, Published

\* An invalidation that is published is the send that the reader makes.
LEMMA PublishedIsBacked ==
  ASSUME SystemInv, SystemNext, ~ NewProcess, NEW m \in Payload, Publishes(m),
         m.type = "invalidation"
  PROVE  m.seq \in DOMAIN sent' /\ sent'[m.seq].ok /\ sent'[m.seq].room = m.room
<1>1. PICK r \in DocumentId : Enqueue(r, m) /\ m.room = r /\ Numbered(m)
  BY DEF Publishes
<1>2. /\ m.seq = invalidations + 1 /\ invalidations' = m.seq
      /\ invalidations \in Nat /\ invalidations' # invalidations
  BY <1>1 DEF Numbered, SystemInv, TypeOK
<1>3. ~ RoomsStep
  BY <1>2, SinkIdle DEF sinkVars
<1>4. ~ DatabaseStep /\ ~ ReaderStep
  BY <1>2 DEF DatabaseStep, ReaderStep, vars, sinkVars
<1>5. PICK room \in DOMAIN routed : Invalidate(room)
  BY <1>3, <1>4 DEF SystemNext
<1>6. SendInvalidation(room) /\ Reader!SendInvalidation(room)
  BY <1>5, TransactionSteps, Zenon DEF Invalidate
<1>7. /\ DOMAIN sent' = 1..Len(sent) + 1 /\ Len(sent) \in Nat
      /\ sent'[Len(sent) + 1].room = room /\ sent'[Len(sent) + 1].ok = ~ Reader!Full
  BY <1>6, Reader!SendRecorded, ReaderAssumptions DEF SystemInv
<1>8. m.seq = Len(sent) + 1
  BY <1>2 DEF SystemInv, CallsAgree
<1>9. TrySendCommand(Broadcast(r, m)) /\ ~ ChannelFull
  BY <1>1 DEF Enqueue, TrySendCommand
<1>10. ~ Reader!Full
  BY <1>9, ChannelView DEF SystemInv, TypeOK, Reader!Full, ChannelFull, Channel
<1>11. m.room = room
  <2>1. Enqueue(room, Invalidation(room, invalidations + 1))
    BY <1>6, <1>9 DEF SendInvalidation
  <2>2. cmds' = Append(cmds, Broadcast(r, m))
        /\ cmds' = Append(cmds, Broadcast(room, Invalidation(room, invalidations + 1)))
    BY <1>9, <2>1 DEF Enqueue, TrySendCommand
  <2>3. \A x, y : Append(cmds, x) = Append(cmds, y) => x = y
    <3>1. cmds \in Seq(RoomCommand) /\ Len(cmds) \in Nat
      BY LenProperties DEF SystemInv, TypeOK, RoomsTypeOK
    <3>2. \A x : Append(cmds, x)[Len(cmds) + 1] = x
      BY <3>1, AppendProperties
    <3> QED BY <3>2
  <2>4. Broadcast(r, m) = Broadcast(room, Invalidation(room, invalidations + 1))
    BY <2>2, <2>3
  <2> QED BY <1>1, <2>4 DEF Broadcast
<1>12. m.seq \in DOMAIN sent'
  BY <1>7, <1>8
<1> QED BY <1>7, <1>8, <1>10, <1>11, <1>12, Zenon

\* The sends of a process stay what they are.
LEMMA SendsStay ==
  ASSUME SystemInv, [SystemNext]_systemVars, ~ NewProcess
  PROVE  \A n \in DOMAIN sent : n \in DOMAIN sent' /\ sent'[n] = sent[n]
<1>1. ASSUME NEW room \in DOMAIN routed, Invalidate(room)
      PROVE  \A n \in DOMAIN sent : n \in DOMAIN sent' /\ sent'[n] = sent[n]
  <2>1. Reader!SendInvalidation(room)
    BY <1>1, TransactionSteps, Zenon DEF Invalidate
  <2>2. /\ DOMAIN sent = 1..Len(sent) /\ DOMAIN sent' = 1..Len(sent) + 1
        /\ Len(sent) \in Nat /\ \A n \in 1..Len(sent) : sent'[n] = sent[n]
    BY <2>1, Reader!SendRecorded, ReaderAssumptions DEF SystemInv
  <2> QED BY <2>2
<1>2. CASE RoomsStep \/ UNCHANGED systemVars
  BY <1>2 DEF RoomsStep, systemVars, readerVars
<1>3. CASE DatabaseStep \/ ReaderStep
  <2>1. sent' = sent
    BY <1>3 DEF DatabaseStep, ReaderStep, Wal!Commit, Wal!ConfirmApplied, Wal!LoseStream,
                Wal!StopCommand, Wal!Connect, Wal!RecvStop, Wal!SlotPoll, Wal!RecvEnd,
                Wal!RecvBegin, Wal!RecvRelation, Wal!RecvRow, Wal!RecvCommit,
                Wal!EndCommit, Wal!history
  <2> QED BY <2>1
<1> QED BY <1>1, <1>2, <1>3 DEF SystemNext

\* Nothing is on its way when the sessions start.
LEMMA BackedInit == Init => BackedInv
<1> SUFFICES ASSUME Init PROVE BackedInv
  OBVIOUS
<1>1. \A i : ~ IsBroadcast(i)
  BY EmptySeq DEF Init, RoomsInit, IsBroadcast
<1>2. ASSUME NEW c \in ClientId PROVE Received(c) = {} /\ expected[c] = {}
  <2>1. wire[c] = <<>> /\ outbox[c] = <<>> /\ expected[c] = {}
    BY DEF Init, RoomsInit
  <2>2. Received(c) = Heard(c)
    BY TypeInit, ReceivedIsHeard
  <2> QED BY <2>1, <2>2, EmptySeq DEF Heard, Elems
<1> QED BY <1>1, <1>2 DEF BackedInv

\* Every step of the server keeps them backed.
LEMMA BackedNext == SystemInv /\ BackedInv /\ [SystemNext]_systemVars => BackedInv'
<1> SUFFICES ASSUME SystemInv, BackedInv, [SystemNext]_systemVars PROVE BackedInv'
  OBVIOUS
<1>1. CASE NewProcess
  <2>1. (Init => BackedInv)'
    BY BackedInit, PTL
  <2> QED BY <1>1, <2>1, ProcessStarts
<1>2. CASE UNCHANGED systemVars
  <2>1. UNCHANGED <<cmds, outbox, wire, expected, sent>>
    BY <1>2 DEF systemVars, vars, roomsVars, history, readerVars
  <2>2. \A i : /\ IsBroadcast(i)' => IsBroadcast(i)
               /\ Backed(cmds[i].message) => Backed(cmds[i].message)'
    BY <2>1 DEF IsBroadcast, Backed
  <2>3. \A c \in ClientId : Received(c)' = Received(c)
    BY <2>1, Zenon DEF Received, Stream
  <2>4. \A m : Backed(m) => Backed(m)'
    BY <2>1 DEF Backed
  <2> QED BY <2>1, <2>2, <2>3, <2>4 DEF BackedInv
<1>3. ASSUME SystemNext, ~ NewProcess PROVE BackedInv'
  <2>1. TypeOK /\ TypeOK' /\ [Next]_vars
    BY <1>3, StepsOfParts, TypeNext DEF SystemInv
  <2>2. \A m : Backed(m) => Backed(m)'
    BY <1>3, SendsStay DEF Backed
  <2>3. \A m \in Payload : Publishes(m) => Backed(m)'
    BY <1>3, PublishedIsBacked DEF Backed
  <2>4. ASSUME NEW i, IsBroadcast(i)', NEW m, m = cmds'[i].message
        PROVE  Backed(m)'
    <3>1. \/ \E j : IsBroadcast(j) /\ cmds'[i] = cmds[j]
          \/ m \in Payload /\ Publishes(m)
      BY <2>1, <2>4, BroadcastOrigins
    <3> QED BY <2>2, <2>3, <2>4, <3>1 DEF BackedInv
  <2>5. ASSUME NEW c \in ClientId, NEW m \in expected'[c]
        PROVE  Backed(m)'
    <3>1. m \in expected[c] \/ (m \in Payload /\ Publishes(m))
      BY <2>1, ExpectedOrigins
    <3> QED BY <2>2, <2>3, <3>1 DEF BackedInv
  <2>6. ASSUME NEW c \in ClientId, NEW m \in Received(c)' \cap Payload
        PROVE  Backed(m)'
    <3>1. m \in Received(c) \cap Payload \/ (HandleBroadcast /\ m = Head(cmds).message)
      BY <2>1, ReceivedChange
    <3>2. HandleBroadcast => IsBroadcast(1) /\ Head(cmds) = cmds[1]
      BY <2>1, BroadcastChange
    <3>3. Backed(m)
      BY <3>1, <3>2 DEF BackedInv
    <3> QED BY <2>2, <3>3
  <2> QED BY <2>4, <2>5, <2>6 DEF BackedInv, Backed
<1> QED BY <1>1, <1>2, <1>3

\* The inductive invariant: what the channel accepted for the room of a session
\* that is served, after it had joined, is owed to it.
OwedSince ==
  /\ since \in [ClientId -> Nat]
  /\ \A c \in ClientId, i \in DOMAIN sent :
       Live(c) /\ sent[i].ok /\ sent[i].room = currentRoom[c] /\ since[c] < i
         => Invalidation(sent[i].room, i) \in expected[c]

\* What is owed stays owed while the process lives.
LEMMA OwedStays ==
  ASSUME TypeOK, [Next]_vars, NEW c \in ClientId
  PROVE  expected[c] \subseteq expected'[c]
<1>1. ASSUME NEW room \in DocumentId, NEW m \in Payload, Enqueue(room, m)
      PROVE  expected[c] \subseteq expected'[c]
  BY <1>1 DEF Enqueue
<1> QED BY <1>1, Published

\* Nothing is sent when the server starts.
LEMMA OwedSinceInit == SystemInit => OwedSince
<1> SUFFICES ASSUME SystemInit PROVE OwedSince
  OBVIOUS
<1>1. since = [c \in ClientId |-> 0]
  BY DEF SystemInit
<1>2. DOMAIN sent = {}
  BY SystemInitParts, EmptySeq DEF Reader!Init
<1> QED BY <1>1, <1>2 DEF OwedSince

\* Every step of the server keeps it.
LEMMA OwedSinceNext ==
  ASSUME SystemInv, OwedSince, [SystemNext]_systemVars
  PROVE  OwedSince'
<1>1. CASE NewProcess
  <2>1. sent' = <<>> /\ since' = [c \in ClientId |-> 0]
    BY <1>1 DEF NewProcess, Wal!Crash, Wal!Restart, Wal!Boot
  <2>2. DOMAIN sent' = {}
    BY <2>1, EmptySeq
  <2> QED BY <2>1, <2>2 DEF OwedSince
<1>2. CASE UNCHANGED <<vars, since, sent>>
  <2>1. \A c : Live(c)' <=> Live(c)
    BY <1>2 DEF Live, vars, roomsVars, sessionVars
  <2> QED BY <1>2, <2>1 DEF OwedSince, vars, sessionVars, history
<1>3. CASE DatabaseStep \/ ReaderStep
  <2>1. UNCHANGED <<vars, since, sent>>
    BY <1>3 DEF DatabaseStep, ReaderStep, Wal!Commit, Wal!ConfirmApplied, Wal!LoseStream,
                Wal!StopCommand, Wal!Connect, Wal!RecvStop, Wal!SlotPoll, Wal!RecvEnd,
                Wal!RecvBegin, Wal!RecvRelation, Wal!RecvRow, Wal!RecvCommit,
                Wal!EndCommit, Wal!history
  <2> QED BY <1>2, <2>1
<1>4. CASE RoomsStep
  <2>1. TypeOK /\ [Next]_vars /\ sent' = sent /\ CallsAgree /\ invalidations \in Nat
    BY <1>4, RoomsStepSeen DEF SystemInv, TypeOK, RoomsStep, readerVars
  <2>2. \A c \in ClientId :
          since'[c] = IF currentRoom'[c] # currentRoom[c] THEN invalidations ELSE since[c]
    BY <1>4 DEF RoomsStep
  <2>3. since' \in [ClientId -> Nat]
    BY <1>4, <2>1 DEF RoomsStep, OwedSince
  <2>4. ASSUME NEW c \in ClientId, NEW i \in DOMAIN sent,
               Live(c)', sent[i].ok, sent[i].room = currentRoom'[c], since'[c] < i
        PROVE  Invalidation(sent[i].room, i) \in expected'[c]
    <3>1. Live(c)
      BY <2>1, <2>4, LiveStays
    <3>2. i \in 1..Len(sent) /\ Len(sent) \in Nat
      BY LenProperties DEF SystemInv, Reader!ReaderInv, Reader!TypeOK
    <3>3. currentRoom'[c] = currentRoom[c]
      BY <2>1, <2>2, <2>4, <3>2 DEF CallsAgree
    <3>4. Invalidation(sent[i].room, i) \in expected[c]
      BY <2>2, <2>4, <3>1, <3>3 DEF OwedSince
    <3> QED BY <2>1, <3>4, OwedStays
  <2> QED BY <2>1, <2>3, <2>4 DEF OwedSince, Invalidation
<1>5. ASSUME NEW room \in DOMAIN routed, Invalidate(room)
      PROVE  OwedSince'
  <2>1. SendInvalidation(room) /\ Reader!SendInvalidation(room) /\ since' = since
    BY <1>5, TransactionSteps, Zenon DEF Invalidate
  <2>2. TypeOK /\ [Next]_vars /\ CallsAgree
    <3>1. reader = "sending"
      BY <2>1 DEF Reader!SendInvalidation
    <3>2. room \in DocumentId
      BY <3>1, Reader!RoutedTyped, ReaderAssumptions DEF SystemInv
    <3> QED BY <2>1, <3>2 DEF SystemInv, Next
  <2>3. UNCHANGED <<currentRoom, mainTask, rxOpen>>
    BY <2>1 DEF SendInvalidation, sessionVars
  <2>4. /\ DOMAIN sent = 1..Len(sent) /\ DOMAIN sent' = 1..Len(sent) + 1
        /\ Len(sent) \in Nat /\ \A n \in 1..Len(sent) : sent'[n] = sent[n]
        /\ sent'[Len(sent) + 1].room = room /\ sent'[Len(sent) + 1].ok = ~ Reader!Full
    BY <2>1, Reader!SendRecorded, ReaderAssumptions DEF SystemInv
  <2>5. ASSUME NEW c \in ClientId, NEW i \in DOMAIN sent',
               Live(c), sent'[i].ok, sent'[i].room = currentRoom[c], since[c] < i
        PROVE  Invalidation(sent'[i].room, i) \in expected'[c]
    <3>1. CASE i \in 1..Len(sent)
      <4>1. Invalidation(sent[i].room, i) \in expected[c]
        BY <2>4, <2>5, <3>1 DEF OwedSince
      <4> QED BY <2>2, <2>4, <3>1, <4>1, OwedStays
    <3>2. CASE i = Len(sent) + 1
      <4>1. ~ Reader!Full
        BY <2>4, <2>5, <3>2
      <4>2. ~ ChannelFull
        BY <2>2, <4>1, ChannelView DEF TypeOK, Reader!Full, ChannelFull, Channel
      <4>3. Enqueue(room, Invalidation(room, i))
        BY <2>1, <2>2, <3>2, <4>2 DEF SendInvalidation, CallsAgree
      <4>4. Invalidation(room, i) \in expected'[c]
        BY <2>4, <2>5, <3>2, <4>3 DEF Enqueue
      <4> QED BY <2>4, <3>2, <4>4
    <3> QED BY <2>4, <3>1, <3>2
  <2>6. \A c \in ClientId : Live(c)' <=> Live(c)
    BY <2>3 DEF Live
  <2> QED BY <2>1, <2>3, <2>5, <2>6 DEF OwedSince, Invalidation
<1>6. CASE UNCHANGED systemVars
  BY <1>2, <1>6 DEF systemVars, readerVars
<1> QED BY <1>1, <1>3, <1>4, <1>5, <1>6 DEF SystemNext

\* All that is kept by the whole server.
PathInv ==
  SystemInv /\ OrderInv /\ LossInv /\ BackedInv /\ OwedSince
            /\ Reader!AnsweredInv /\ Reader!SentInOrder

\* It holds when the server starts.
LEMMA PathInit == SystemInit => PathInv
<1> SUFFICES ASSUME SystemInit PROVE PathInv
  OBVIOUS
<1>1. OrderInv /\ LossInv /\ BackedInv
  BY SystemInitParts, OrderInit, LossInit, BackedInit
<1>2. Reader!AnsweredInv /\ Reader!SentInOrder
  BY SystemInitParts, Reader!AnsweredInit, ReaderAssumptions
<1> QED BY <1>1, <1>2, SystemInvInit, OwedSinceInit DEF PathInv

\* Every step of the server keeps it.
LEMMA PathNext == PathInv /\ [SystemNext]_systemVars => PathInv'
<1> SUFFICES ASSUME PathInv, [SystemNext]_systemVars PROVE PathInv'
  OBVIOUS
<1>1. SystemInv /\ SystemInv' /\ BackedInv' /\ OwedSince'
  BY SystemInvNext, BackedNext, OwedSinceNext DEF PathInv
<1>2. OrderInv' /\ LossInv'
  <2>1. (Init => OrderInv)' /\ (Init => LossInv)'
    BY OrderInit, LossInit, PTL
  <2> QED BY <1>1, <2>1, SessionSteps, OrderNext, LossNext DEF PathInv, SystemInv
<1>3. Reader!AnsweredInv' /\ Reader!SentInOrder'
  BY <1>1, ReaderSteps, Reader!AnsweredNext, Reader!SentInOrderNext, ReaderAssumptions
     DEF PathInv, SystemInv
<1> QED BY <1>1, <1>2, <1>3 DEF PathInv

\* What the sessions promise their peers holds in the server that runs the
\* reader beside them, through every crash.
THEOREM PathCorrect == SystemSpec => []PathInv
BY PathInit, PathNext, PTL DEF SystemSpec

\* The operators of the two instances are the same.
LEMMA SameOwed == \A changes : Wal!OwedRooms(changes) = Reader!OwedRooms(changes)
BY Zenon DEF Wal!OwedRooms, Wal!Owed, Wal!OwedUpTo, Wal!OwedBy, Wal!Hint,
             Reader!OwedRooms, Reader!Owed, Reader!OwedUpTo, Reader!OwedBy, Reader!Hint

\* An invalidation in a stream is a payload that is backed.
LEMMA HeardIsBacked ==
  ASSUME PathInv, NEW c \in ClientId, NEW m \in Received(c), m.type = "invalidation"
  PROVE  /\ m \in Payload
         /\ m.seq \in DOMAIN sent /\ sent[m.seq].ok /\ sent[m.seq].room = m.room
<1>1. m \in ServerMessage
  BY StreamTyped DEF PathInv, SystemInv, Received
<1>2. m \in Payload
  BY <1>1 DEF ServerMessage
<1>3. Backed(m)
  BY <1>2 DEF PathInv, BackedInv
<1> QED BY <1>2, <1>3 DEF Backed

\* An invalidation that a served peer has is of a room it is a member of and of a
\* transaction that committed a change to that room's document, whatever was
\* lost, redelivered or restarted (replication.rs:262, rooms.rs:141).
THEOREM PeersHearCorrect == SystemSpec => []PeersHearCommits
<1>1. PathInv => PeersHearCommits
  <2> SUFFICES ASSUME PathInv, NEW c \in ClientId, Live(c), NEW m \in Received(c),
                      m.type = "invalidation"
               PROVE  /\ c \in Members(m.room)
                      /\ m.seq \in DOMAIN sent /\ sent[m.seq].ok
                      /\ sent[m.seq].room = m.room
                      /\ m.room \in Wal!OwedRooms(log[sent[m.seq].tx])
    BY DEF PeersHearCommits
  <2>1. /\ m \in Payload
        /\ m.seq \in DOMAIN sent /\ sent[m.seq].ok /\ sent[m.seq].room = m.room
    BY HeardIsBacked
  <2>2. c \in Members(m.room)
    BY <2>1 DEF PathInv, SystemInv, MembershipInv, OnlyMembersHear
  <2>3. sent[m.seq].room \in Reader!OwedRooms(log[sent[m.seq].tx])
    BY <2>1, Reader!SentOwed, ReaderAssumptions DEF PathInv, SystemInv
  <2> QED BY <2>1, <2>2, <2>3, SameOwed
<1> QED BY <1>1, PathCorrect, PTL

\* The streams of the peers have the reader's sends in order.
LEMMA PathOrdered == PathInv => CommitOrder
<1> SUFFICES ASSUME PathInv, NEW c \in ClientId,
                    NEW i \in 1..Len(Stream(c)), NEW j \in 1..Len(Stream(c)), i < j,
                    NEW m, m = Stream(c)[i], NEW n, n = Stream(c)[j],
                    m.type = "invalidation", n.type = "invalidation"
             PROVE  sent[m.seq].tx <= sent[n.seq].tx
  BY DEF CommitOrder
<1>1. m \in Received(c) /\ n \in Received(c)
  BY DEF Received
<1>2. m.seq \in DOMAIN sent /\ n.seq \in DOMAIN sent
  BY <1>1, HeardIsBacked
<1>3. m.seq <= n.seq
  BY DEF PathInv, OrderInv, SenderOrder, SameSource
<1> QED BY <1>2, <1>3 DEF PathInv, Reader!SentInOrder

\* Each peer hears of transactions in the order in which they committed: neither
\* the loop over the rooms, nor the channel, nor a fan-out reorders them.
THEOREM CommitOrderCorrect == SystemSpec => []CommitOrder
BY PathOrdered, PathCorrect, PTL

\* What the peer of a served session has not heard of is missing in the sense of
\* WebSocket.
LEMMA UnheardIsMissing ==
  ASSUME PathInv, NEW c \in ClientId, Live(c), socket[c] = "open"
  PROVE  Cardinality(Unheard(c)) <= fanoutDrops[c]
<1> DEFINE message(i) == Invalidation(currentRoom[c], i)
           send == [i \in Unheard(c) |-> message(i)]
<1>1. \A i \in Unheard(c) : message(i) \in Missing(c)
  BY DEF Unheard, Missing, PathInv, OwedSince
<1>2. \A i, j \in Unheard(c) : message(i) = message(j) => i = j
  BY DEF Invalidation
<1> HIDE DEF message
<1>3. send \in Injection(Unheard(c), Missing(c))
  BY <1>1, <1>2 DEF Injection, IsInjective
<1>4. /\ IsFiniteSet(Missing(c)) /\ Cardinality(Missing(c)) <= fanoutDrops[c]
      /\ fanoutDrops[c] \in Nat
  BY DEF PathInv, LossInv, CountedInv, SystemInv, TypeOK, RoomsTypeOK
<1> HIDE DEF send
<1>5. IsFiniteSet(Unheard(c)) /\ Cardinality(Unheard(c)) <= Cardinality(Missing(c))
  BY <1>3, <1>4, FS_Injection
<1>6. Cardinality(Unheard(c)) \in Nat /\ Cardinality(Missing(c)) \in Nat
  BY <1>4, <1>5, FS_CardinalityType
<1> QED BY <1>4, <1>5, <1>6

\* Every send that the channel refused was counted.
LEMMA RefusedIsCounted ==
  ASSUME PathInv, NEW i \in DOMAIN sent, ~ sent[i].ok
  PROVE  dropped > 0
<1> DEFINE refused == {n \in DOMAIN sent : ~ sent[n].ok}
<1>1. /\ dropped = Reader!Cardinality(refused) /\ DOMAIN sent = 1..Len(sent)
      /\ Len(sent) \in Nat /\ dropped \in Nat
  BY LenProperties
     DEF PathInv, SystemInv, Reader!ReaderInv, Reader!DropsAreCounted, Reader!TypeOK
<1>2. Reader!Cardinality(refused) = Cardinality(refused)
  BY Zenon DEF Reader!Cardinality, Cardinality
<1>3. IsFiniteSet(refused)
  <2>1. IsFiniteSet(1..Len(sent))
    BY <1>1, FS_Interval
  <2> QED BY <1>1, <2>1, FS_Subset
<1>4. Cardinality(refused) # 0
  BY <1>3, FS_EmptySet
<1> QED BY <1>1, <1>2, <1>4

\* A transaction that the reader has dealt with and Postgres still keeps was
\* answered by this process, in every room it owes; a refused answer is counted,
\* and an accepted one has reached, or is on its way to, the sessions that were in
\* the room, but for their counted fan-out drops (replication.rs:249-281,
\* rooms.rs:141).
THEOREM CommitsReachCorrect == SystemSpec => []CommitsReachPeers
<1>1. PathInv => CommitsReachPeers
  <2> SUFFICES ASSUME PathInv PROVE CommitsReachPeers
    OBVIOUS
  <2>1. ASSUME NEW t \in confirmed + 1 .. tx - 1, NEW room \in Wal!OwedRooms(log[t])
        PROVE  \E i \in DOMAIN sent :
                 sent[i].tx = t /\ sent[i].room = room /\ (sent[i].ok \/ dropped > 0)
    <3>1. PICK i \in DOMAIN sent : sent[i].tx = t /\ sent[i].room = room
      BY SameOwed DEF PathInv, Reader!AnsweredInv, Reader!Told
    <3> QED BY <3>1, RefusedIsCounted
  <2> QED BY <2>1, UnheardIsMissing DEF CommitsReachPeers
<1> QED BY <1>1, PathCorrect, PTL

-----------------------------------------------------------------------------
(* The server keeps to WalReader, and implements Notifications.            *)

\* A step of the sessions or the coordinator is to the reader one of what its
\* module has around it.
LEMMA RoomsAllowed ==
  ASSUME TypeOK, RoomsStep
  PROVE  [Wal!Next]_(Wal!vars)
<1>1. [Next]_vars /\ UNCHANGED readerVars
  BY DEF RoomsStep, Next
<1>2. TypeOK'
  BY <1>1, TypeNext
<1>3. UNCHANGED <<Wal!pgVars, Wal!actorVars, consumed, dropped, slotActive, Wal!history>>
  BY <1>1 DEF readerVars, Wal!pgVars, Wal!actorVars, Wal!history
<1>4. CASE Channel' = Channel
  <2>1. UNCHANGED Wal!vars
    BY <1>3, <1>4, Zenon
       DEF Channel, Wal!vars, Wal!sharedVars, Wal!pgVars, Wal!actorVars, Wal!history
  <2> QED BY <2>1
<1>5. CASE Channel # <<>> /\ Channel' = Tail(Channel)
  <2>1. Wal!RoomsTake
    BY <1>3, <1>5, Zenon DEF Channel, Wal!RoomsTake
  <2> QED BY <2>1 DEF Wal!Next
<1>6. ASSUME NEW room \in DocumentId, Len(Channel) < RoomsCapacity,
             Channel' = Append(Channel, room)
      PROVE  Wal!SessionsSend(room)
  BY <1>3, <1>6, Zenon DEF Channel, Wal!SessionsSend
<1> QED BY <1>1, <1>2, <1>4, <1>5, <1>6, ChannelStep DEF Wal!Next

\* The whole server is an implementation of WalReader: sessions and coordinator
\* use the channel as that module assumes, and so what it was checked for alone
\* holds of it beside them (rooms.rs:27-67, lib.rs:24-26).
THEOREM ReaderImplemented == SystemSpec => ImplementsReader
<1>1. SystemInit => Wal!Init
  BY DEF SystemInit
<1>2. SystemInv /\ [SystemNext]_systemVars => [Wal!Next]_(Wal!vars)
  <2> SUFFICES ASSUME SystemInv, [SystemNext]_systemVars PROVE [Wal!Next]_(Wal!vars)
    OBVIOUS
  <2>1. CASE RoomsStep
    BY <2>1, RoomsAllowed DEF SystemInv
  <2>2. CASE DatabaseStep \/ ReaderStep
    <3>1. Wal!Next
      BY <2>2, Zenon DEF DatabaseStep, ReaderStep, Wal!Next
    <3> QED BY <3>1
  <2>3. ASSUME NEW room \in DOMAIN routed, Invalidate(room) PROVE Wal!Next
    BY <2>3, Zenon DEF Invalidate, Wal!Next
  <2>4. CASE NewProcess
    <3>1. Wal!Next
      BY <2>4, Zenon DEF NewProcess, Wal!Next
    <3> QED BY <3>1
  <2>5. CASE UNCHANGED systemVars
    BY <2>5 DEF systemVars, readerVars, vars, roomsVars, Wal!vars, Wal!pgVars,
                Wal!actorVars, Wal!sharedVars, Wal!history
  <2> QED BY <2>1, <2>2, <2>3, <2>4, <2>5 DEF SystemNext
<1> QED BY <1>1, <1>2, SystemCorrect, PTL DEF SystemSpec, ImplementsReader, Wal!Spec

\* Only a send task that writes to an open socket changes what a peer has.
LEMMA WireChange ==
  ASSUME [SystemNext]_systemVars, ~ NewProcess
  PROVE  \/ wire' = wire
         \/ RoomsStep /\ \E c \in ClientId :
              /\ outbox[c] # <<>>
              /\ wire' = [wire EXCEPT ![c] = Append(@, Head(outbox[c]))]
<1>1. CASE RoomsStep
  BY <1>1 DEF RoomsStep, CoordinatorStep, SessionsNext, RecvJoin, RecvSendMessageTo, AckJoin,
              TimeoutJoin, EndJoin, RecvSendMessage, RecvInvalid, RecvEnd, RecvAborted,
              CommandDropped, PublishFrame, SendDeliver, SendFail, SendAborted, EndSendTask,
              MainSelect, MainLeave, PeerClose, history
<1>2. ASSUME NEW room \in DOMAIN routed, Invalidate(room) PROVE wire' = wire
  BY <1>2 DEF Invalidate, SendInvalidation
<1>3. CASE DatabaseStep \/ ReaderStep \/ UNCHANGED systemVars
  BY <1>3 DEF DatabaseStep, ReaderStep, systemVars, vars, history
<1> QED BY <1>1, <1>2, <1>3 DEF SystemNext

\* What is in the wire was received, and what is next in the outbox will be, and is
\* not of an earlier transaction.
LEMMA WireReceived ==
  ASSUME PathInv, NEW c \in ClientId
  PROVE  /\ \A i \in DOMAIN wire[c] : wire[c][i] \in Received(c)
         /\ outbox[c] # <<>> =>
              LET n == Head(outbox[c])
              IN /\ n \in Received(c)
                 /\ n.type = "invalidation" => \A i \in Invalidations(c) :
                      sent[wire[c][i].seq].tx <= sent[n.seq].tx
<1> DEFINE w == wire[c]
           o == outbox[c]
<1>1. w \in Seq(ServerMessage) /\ o \in Seq(ServerMessage)
  BY DEF PathInv, SystemInv, TypeOK, RoomsTypeOK
<1>2. /\ Len(w) \in Nat /\ Len(o) \in Nat /\ DOMAIN w = 1..Len(w)
      /\ Len(Stream(c)) = Len(w) + Len(o)
      /\ \A i \in 1..Len(Stream(c)) :
           Stream(c)[i] = IF i <= Len(w) THEN w[i] ELSE o[i - Len(w)]
  <2>1. Stream(c) = w \o o
    BY DEF Stream
  <2> HIDE DEF w, o
  <2>2. /\ Len(w) \in Nat /\ Len(o) \in Nat /\ DOMAIN w = 1..Len(w)
        /\ Len(w \o o) = Len(w) + Len(o)
        /\ \A i \in 1..Len(w) + Len(o) :
             (w \o o)[i] = IF i <= Len(w) THEN w[i] ELSE o[i - Len(w)]
    BY <1>1, ConcatProperties, LenProperties
  <2> QED BY <2>1, <2>2
<1> HIDE DEF w, o
<1>3. \A i \in DOMAIN w : i \in 1..Len(Stream(c)) /\ Stream(c)[i] = w[i]
  BY <1>2
<1>4. ASSUME o # <<>>
      PROVE  /\ Len(w) + 1 \in 1..Len(Stream(c)) /\ Stream(c)[Len(w) + 1] = Head(o)
             /\ \A i \in DOMAIN w : i < Len(w) + 1
  <2>1. Len(o) > 0 /\ Head(o) = o[1]
    BY <1>1, <1>2, <1>4, EmptySeq, HeadTailProperties
  <2>2. Len(w) + 1 \in 1..Len(Stream(c)) /\ ~ (Len(w) + 1 <= Len(w)) /\ Len(w) + 1 - Len(w) = 1
    BY <1>2, <2>1
  <2> QED BY <1>2, <2>1, <2>2
<1>5. CommitOrder
  BY PathOrdered
<1>6. ASSUME o # <<>>, Head(o).type = "invalidation", NEW i \in Invalidations(c)
      PROVE  sent[w[i].seq].tx <= sent[Head(o).seq].tx
  <2>1. i \in DOMAIN w /\ w[i].type = "invalidation"
    BY <1>6 DEF Invalidations, w
  <2> QED BY <1>3, <1>4, <1>5, <1>6, <2>1 DEF CommitOrder
<1> QED BY <1>3, <1>4, <1>6 DEF Received, w, o

\* What a process has sent is settled.
LEMMA SentIsSettled ==
  ASSUME PathInv, NEW i \in DOMAIN sent
  PROVE  /\ sent[i].tx \in DOMAIN log
         /\ sent[i].room \in Wal!OwedRooms(log[sent[i].tx])
         /\ <<sent[i].tx, sent[i].room>> \in settled
BY SameOwed, Reader!SentIsDone, ReaderAssumptions DEF PathInv, SystemInv

\* As long as the process lives, its sends being what they are, peers have heard
\* what they had.
LEMMA HeardKept ==
  ASSUME PathInv, [SystemNext]_systemVars, ~ NewProcess,
         NEW c \in ClientId, wire'[c] = wire[c]
  PROVE  HeardOf(c)' = HeardOf(c)
<1>1. Invalidations(c)' = Invalidations(c)
  BY DEF Invalidations
<1>2. ASSUME NEW i \in Invalidations(c)
      PROVE  sent'[wire[c][i].seq] = sent[wire[c][i].seq]
  <2>1. wire[c][i] \in Received(c) /\ wire[c][i].type = "invalidation"
    BY <1>2, WireReceived DEF Invalidations
  <2>2. wire[c][i].seq \in DOMAIN sent
    BY <2>1, HeardIsBacked
  <2> QED BY <2>2, SendsStay DEF PathInv
<1> QED BY <1>1, <1>2 DEF HeardOf

\* A delivery adds the transaction of the message, if it is an invalidation.
LEMMA HeardGrows ==
  ASSUME PathInv, NEW c \in ClientId, outbox[c] # <<>>, UNCHANGED sent,
         wire'[c] = Append(wire[c], Head(outbox[c]))
  PROVE  LET n == Head(outbox[c])
         IN HeardOf(c)' = IF n.type = "invalidation"
                          THEN HeardOf(c) \cup {<<sent[n.seq].tx, n.room>>} ELSE HeardOf(c)
<1> DEFINE n == Head(outbox[c])
           w == wire[c]
           w2 == wire'[c]
           Of(m) == <<sent[m.seq].tx, m.room>>
<1>1. /\ w \in Seq(ServerMessage) /\ Len(w) \in Nat /\ DOMAIN w = 1..Len(w)
      /\ n \in ServerMessage
  BY HeadTailProperties, LenProperties DEF PathInv, SystemInv, TypeOK, RoomsTypeOK
<1>2. w2 = Append(w, n)
  OBVIOUS
<1> HIDE DEF w, w2, n
<1>3. /\ DOMAIN w2 = 1..Len(w) + 1
      /\ \A i \in 1..Len(w) : w2[i] = w[i]
      /\ w2[Len(w) + 1] = n
  BY <1>1, <1>2
<1>4. /\ HeardOf(c) = {Of(w[i]) : i \in {j \in DOMAIN w : w[j].type = "invalidation"}}
      /\ HeardOf(c)' = {Of(w2[i]) : i \in {j \in DOMAIN w2 : w2[j].type = "invalidation"}}
  BY DEF HeardOf, Invalidations, w, w2
<1> HIDE DEF Of
<1>5. CASE n.type = "invalidation"
  <2>1. {j \in DOMAIN w2 : w2[j].type = "invalidation"}
          = {j \in DOMAIN w : w[j].type = "invalidation"} \cup {Len(w) + 1}
    BY <1>1, <1>3, <1>5
  <2>2. Of(n) = <<sent[n.seq].tx, n.room>>
    BY DEF Of
  <2>3. HeardOf(c)' = HeardOf(c) \cup {Of(n)}
    BY <1>1, <1>3, <1>4, <2>1
  <2> QED BY <1>5, <2>2, <2>3 DEF n
<1>6. CASE n.type # "invalidation"
  <2>1. {j \in DOMAIN w2 : w2[j].type = "invalidation"}
          = {j \in DOMAIN w : w[j].type = "invalidation"}
    BY <1>1, <1>3, <1>6
  <2> QED BY <1>1, <1>3, <1>4, <1>6, <2>1 DEF n
<1> QED BY <1>5, <1>6 DEF n

HeardNow == [c \in ClientId |-> HeardOf(c)]

\* The database's part of the promise is Invalidator's, which the reader keeps.
LEMMA DatabasePromise ==
  ASSUME SystemInv, [SystemNext]_systemVars
  PROVE  Promised!Database!Next \/ UNCHANGED <<log, confirmed, settled>>
<1>1. [Reader!Promise!Next]_(Reader!Promise!vars)
  BY ReaderSteps, Reader!StepImplements, ReaderAssumptions DEF SystemInv
<1>2. Reader!Promise!Next => Promised!Database!Next
  BY SameOwed
     DEF Reader!Promise!Next, Reader!Promise!Commit, Reader!Promise!Settle,
         Reader!Promise!Forget, Reader!Promise!SettledUpTo, Promised!Database!Next,
         Promised!Database!Commit, Promised!Database!Settle, Promised!Database!Forget,
         Promised!Database!SettledUpTo
<1> QED BY <1>1, <1>2 DEF Reader!Promise!vars

\* Every step of the server is one of the promise, or none that can be seen.
LEMMA NotificationStep ==
  ASSUME PathInv, [SystemNext]_systemVars
  PROVE  [Promised!Next]_(Promised!vars)
<1>1. CASE NewProcess
  <2>1. UNCHANGED <<log, confirmed, settled>>
    BY <1>1 DEF NewProcess, Wal!Crash, Wal!Restart, Wal!Boot
  <2>2. \A c \in ClientId : HeardOf(c)' = {}
    BY <1>1, EmptySeq DEF NewProcess, HeardOf, Invalidations
  <2>3. Promised!Renew
    BY <2>1, <2>2 DEF Promised!Renew, Promised!Nothing
  <2> QED BY <2>3 DEF Promised!Next
<1>2. CASE ~ NewProcess /\ wire' = wire
  <2>1. HeardNow' = HeardNow
    BY <1>2, HeardKept DEF HeardNow
  <2>2. Promised!Database!Next \/ UNCHANGED <<log, confirmed, settled>>
    BY DatabasePromise DEF PathInv
  <2> QED BY <2>1, <2>2 DEF HeardNow, Promised!Next, Promised!vars
<1>3. ASSUME ~ NewProcess, RoomsStep, NEW c \in ClientId, outbox[c] # <<>>,
             wire' = [wire EXCEPT ![c] = Append(@, Head(outbox[c]))]
      PROVE  [Promised!Next]_(Promised!vars)
  <2> DEFINE n == Head(outbox[c])
             new == <<sent[n.seq].tx, n.room>>
  <2>1. UNCHANGED <<log, confirmed, settled, sent>>
    BY <1>3 DEF RoomsStep, readerVars
  <2>2. wire'[c] = Append(wire[c], n) /\ \A d \in ClientId \ {c} : wire'[d] = wire[d]
    BY <1>3 DEF PathInv, SystemInv, TypeOK
  <2>3. \A d \in ClientId \ {c} : HeardOf(d)' = HeardOf(d)
    BY <1>3, <2>2, HeardKept
  <2>4. HeardOf(c)' = IF n.type = "invalidation" THEN HeardOf(c) \cup {new} ELSE HeardOf(c)
    BY <1>3, <2>1, <2>2, HeardGrows
  <2>5. CASE n.type # "invalidation"
    <3>1. HeardNow' = HeardNow
      BY <2>3, <2>4, <2>5 DEF HeardNow
    <3> QED BY <2>1, <3>1 DEF HeardNow, Promised!vars
  <2>6. CASE n.type = "invalidation"
    <3>1. n \in Received(c)
      BY <1>3, WireReceived
    <3>2. n.seq \in DOMAIN sent /\ sent[n.seq].room = n.room
      BY <2>6, <3>1, HeardIsBacked
    <3>3. /\ new[1] \in DOMAIN log /\ new[2] \in Wal!OwedRooms(log[new[1]])
          /\ new \in settled
      BY <3>2, SentIsSettled
    <3>4. \A earlier \in HeardOf(c) : earlier[1] <= new[1]
      BY <1>3, <2>6, WireReceived DEF HeardOf
    <3>5. HeardNow' = [HeardNow EXCEPT ![c] = @ \cup {new}]
      BY <2>3, <2>4, <2>6 DEF HeardNow
    <3>6. Promised!Hear(c, new[1], new[2])
      BY <2>1, <3>3, <3>4, <3>5 DEF Promised!Hear, HeardNow
    <3> QED BY <3>3, <3>6 DEF Promised!Next
  <2> QED BY <2>5, <2>6
<1> QED BY <1>1, <1>2, <1>3, WireChange

\* Seen from the database and from the sockets, the whole server keeps its promise:
\* transactions are settled in commit order and forgotten when settled, and a peer
\* hears of settled ones in that order, whatever is dropped, lost, redelivered or
\* restarted on the way (replication.rs:249-281, rooms.rs:91, websocket.rs:152).
THEOREM NotificationsImplemented == SystemSpec => ImplementsNotifications
<1>1. SystemInit => Promised!Init
  <2> SUFFICES ASSUME SystemInit PROVE Promised!Init
    OBVIOUS
  <2>1. ASSUME NEW c \in ClientId PROVE HeardOf(c) = {}
    <3>1. wire[c] = <<>>
      BY SystemInitParts DEF Init
    <3> QED BY <3>1, EmptySeq DEF HeardOf, Invalidations
  <2>2. log = <<>> /\ confirmed = 0 /\ settled = {}
    BY DEF SystemInit, Wal!Init
  <2> QED BY <2>1, <2>2 DEF Promised!Init, Promised!Nothing, Promised!Database!Init
<1>2. PathInv /\ [SystemNext]_systemVars => [Promised!Next]_(Promised!vars)
  BY NotificationStep
<1> QED BY <1>1, <1>2, PathCorrect, PTL DEF SystemSpec, ImplementsNotifications, Promised!Spec
================================================================================
