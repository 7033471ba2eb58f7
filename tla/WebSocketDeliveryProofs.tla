------------------------ MODULE WebSocketDeliveryProofs ------------------------
(***************************************************************************)
(* The order of what the peers receive, what is lost and what is left      *)
(* behind, for every value of the constants of WebSocket.tla: SenderOrder, *)
(* RoomsAgreeOnOrder, LossesAreCounted, CleanDisconnectLeavesRoom and      *)
(* NoEmptyRooms are invariants.                                            *)
(***************************************************************************)
EXTENDS WebSocketProofs, FiniteSetTheorems

-----------------------------------------------------------------------------
(* What is put on the command channel.                                     *)

\* The number of a payload is the next one of its source.
Numbered(m) ==
  \/ /\ m.type = "message" /\ m.from \in ClientId
     /\ m.seq = frames[m.from] + 1 /\ frames'[m.from] = m.seq
  \/ m.type = "invalidation" /\ m.seq = invalidations + 1 /\ invalidations' = m.seq

\* A step owes nobody anything new, and puts at most a Join or a Leave on the
\* channel, or it publishes one new payload.
LEMMA Published ==
  ASSUME TypeOK, [Next]_vars
  PROVE  \/ /\ expected' = expected
            /\ \/ cmds' = cmds
               \/ \E op : Receive(op)
               \/ \E cmd \in RoomCommand : TrySendCommand(cmd) /\ cmd.op # "broadcast"
         \/ \E room \in DocumentId, m \in Payload :
              Enqueue(room, m) /\ m.room = room /\ Numbered(m)
<1> DEFINE Quiet == /\ expected' = expected
                    /\ \/ cmds' = cmds
                       \/ \E op : Receive(op)
                       \/ \E cmd \in RoomCommand : TrySendCommand(cmd) /\ cmd.op # "broadcast"
           Publishes == \E room \in DocumentId, m \in Payload :
                          Enqueue(room, m) /\ m.room = room /\ Numbered(m)
<1>1. CASE CoordinatorStep
  BY <1>1 DEF CoordinatorStep, Coordinator, HandleJoin, HandleLeave, HandleBroadcast, history
<1>2. ASSUME NEW d \in ClientId, NEW room \in DocumentId, RecvJoin(d, room)
      PROVE  Quiet
  <2>1. Join(room, d, frames[d] + 1) \in RoomCommand
    BY MessagesTyped DEF TypeOK
  <2>2. Join(room, d, frames[d] + 1).op # "broadcast"
    BY DEF Join
  <2>3. /\ expected' = expected
        /\ cmds' = cmds \/ TrySendCommand(Join(room, d, frames[d] + 1))
    BY <1>2 DEF RecvJoin, history
  <2> QED BY <2>1, <2>2, <2>3, Zenon
<1>3. ASSUME NEW d \in ClientId, NEW room \in DocumentId, TakeFrame(d), PublishFrame(d, room)
      PROVE  Quiet \/ Publishes
  <2> DEFINE m == Message(room, d, frames[d] + 1)
  <2>1. /\ m \in Payload /\ m.room = room /\ m.type = "message" /\ m.from = d
        /\ m.seq = frames[d] + 1
    BY DEF TypeOK, Message, Payload, MessageType
  <2>2. frames'[d] = frames[d] + 1
    BY <1>3 DEF TakeFrame, TypeOK
  <2> HIDE DEF m
  <2>3. Numbered(m)
    BY <2>1, <2>2 DEF Numbered
  <2>4. CASE Enqueue(room, m)
    BY <2>1, <2>3, <2>4
  <2>5. CASE UNCHANGED <<cmds, expected>>
    BY <2>5
  <2> QED BY <1>3, <2>4, <2>5 DEF PublishFrame, m
<1>4. ASSUME NEW d \in ClientId, NEW room \in DocumentId, RecvSendMessageTo(d, room)
      PROVE  Quiet \/ Publishes
  <2>1. TakeFrame(d) /\ PublishFrame(d, room)
    BY <1>4 DEF RecvSendMessageTo
  <2> HIDE DEF Quiet, Publishes
  <2> QED BY <1>3, <2>1
<1>5. ASSUME NEW d \in ClientId, RecvSendMessage(d)
      PROVE  Quiet \/ Publishes
  <2>1. currentRoom[d] # NoRoom => currentRoom[d] \in DocumentId
    BY DEF TypeOK
  <2>2. /\ TakeFrame(d)
        /\ \/ PublishFrame(d, currentRoom[d]) /\ currentRoom[d] # NoRoom
           \/ UNCHANGED <<cmds, expected>>
    BY <1>5 DEF RecvSendMessage
  <2>3. CASE UNCHANGED <<cmds, expected>>
    BY <2>3
  <2> HIDE DEF Quiet, Publishes
  <2> QED BY <1>3, <2>1, <2>2, <2>3
<1>6. ASSUME NEW room \in DocumentId, SendInvalidation(room)
      PROVE  Quiet \/ Publishes
  <2> DEFINE m == Invalidation(room, invalidations + 1)
  <2>1. /\ m \in Payload /\ m.room = room /\ m.type = "invalidation"
        /\ m.seq = invalidations + 1
    BY DEF TypeOK, Invalidation, Payload, InvalidationType
  <2> HIDE DEF m
  <2>2. invalidations' = invalidations + 1
        /\ (Enqueue(room, m) \/ UNCHANGED <<cmds, expected>>)
    BY <1>6 DEF SendInvalidation, m
  <2>3. Numbered(m)
    BY <2>1, <2>2 DEF Numbered
  <2> QED BY <2>1, <2>2, <2>3
<1>7. ASSUME NEW d \in ClientId, MainLeave(d)
      PROVE  Quiet
  <2>1. currentRoom[d] # NoRoom =>
          /\ Leave(currentRoom[d], d) \in RoomCommand
          /\ Leave(currentRoom[d], d).op = "leave"
    BY DEF TypeOK, Leave, RoomCommand, LeaveCommand
  <2> QED BY <1>7, <2>1 DEF MainLeave, history
<1>8. ASSUME NEW d \in ClientId,
             \/ AckJoin(d) \/ TimeoutJoin(d) \/ RecvInvalid(d) \/ RecvEnd(d)
             \/ RecvAborted(d) \/ SendDeliver(d) \/ SendFail(d) \/ SendAborted(d)
             \/ MainSelect(d) \/ PeerClose(d)
      PROVE  UNCHANGED <<cmds, expected>>
  BY <1>8 DEF AckJoin, TimeoutJoin, EndJoin, RecvInvalid, RecvEnd, RecvAborted,
              SendDeliver, SendFail, SendAborted, EndSendTask, MainSelect, PeerClose,
              roomsVars, history
<1>9. CASE UNCHANGED vars
  BY <1>9 DEF vars, roomsVars, history
<1>10. ASSUME NEW c \in ClientId, NEW room \in DocumentId,
              RecvJoin(c, room) \/ RecvSendMessageTo(c, room)
       PROVE  Quiet \/ Publishes
  BY <1>2, <1>4, <1>10
<1> QED BY <1>1, <1>2, <1>4, <1>5, <1>6, <1>7, <1>8, <1>9 DEF Next, SessionsNext

\* The numbers only grow.
LEMMA NumbersGrow ==
  ASSUME TypeOK, [Next]_vars
  PROVE  /\ \A c \in ClientId : frames[c] \in Nat /\ frames'[c] \in Nat
                                /\ frames[c] <= frames'[c]
         /\ invalidations \in Nat /\ invalidations' \in Nat
         /\ invalidations <= invalidations'
<1>1. \A c \in ClientId : frames[c] \in Nat /\ frames'[c] \in {frames[c], frames[c] + 1}
  BY SessionChange DEF TypeOK
<1>2. invalidations' \in {invalidations, invalidations + 1}
  BY DEF Next, SessionsNext, CoordinatorStep, RecvJoin, RecvSendMessageTo, AckJoin,
         TimeoutJoin, EndJoin, RecvSendMessage, RecvInvalid, RecvEnd, RecvAborted,
         SendDeliver, SendFail, SendAborted, EndSendTask, MainSelect, MainLeave, PeerClose,
         SendInvalidation, sinkVars, vars
<1>3. invalidations \in Nat
  BY DEF TypeOK
<1>4. invalidations' \in Nat /\ invalidations <= invalidations'
  BY <1>2, <1>3
<1>5. ASSUME NEW c \in ClientId
      PROVE  frames[c] \in Nat /\ frames'[c] \in Nat /\ frames[c] <= frames'[c]
  BY <1>1
<1> QED BY <1>3, <1>4, <1>5

-----------------------------------------------------------------------------
(* What a step does to a stream.                                           *)

\* s is w and b after it
IsConcat(s, w, b) ==
  /\ Len(w) \in Nat /\ Len(b) \in Nat /\ Len(s) = Len(w) + Len(b)
  /\ \A i \in 1..Len(w) : s[i] = w[i]
  /\ \A i \in 1..Len(b) : s[Len(w) + i] = b[i]

\* The elements of a stream, by their place.
LEMMA StreamElements ==
  ASSUME NEW S, NEW w \in Seq(S), NEW b \in Seq(S), NEW s, s = w \o b
  PROVE  IsConcat(s, w, b)
<1>1. /\ Len(w) \in Nat /\ Len(b) \in Nat
      /\ Len(s) = Len(w) + Len(b)
      /\ \A i \in 1..Len(w) + Len(b) : s[i] =
           IF i <= Len(w) THEN w[i] ELSE b[i - Len(w)]
  BY ConcatProperties, LenProperties
<1>2. ASSUME NEW i \in 1..Len(b) PROVE s[Len(w) + i] = b[i]
  <2>1. /\ Len(w) + i \in 1..Len(w) + Len(b) /\ ~ (Len(w) + i <= Len(w))
        /\ (Len(w) + i) - Len(w) = i
    BY <1>1
  <2> QED BY <1>1, <2>1
<1>3. ASSUME NEW i \in 1..Len(w) PROVE s[i] = w[i]
  BY <1>1
<1> QED BY <1>1, <1>2, <1>3 DEF IsConcat

\* b2 is b with copies of m after it
Extended(b, b2, m) ==
  /\ Len(b2) >= Len(b)
  /\ \A i \in 1..Len(b2) : IF i <= Len(b) THEN b2[i] = b[i] ELSE b2[i] = m

\* new[i] and new[j] were in old before, in that order
WerePair(old, new, i, j) ==
  \E p, q \in 1..Len(old) : p < q /\ old[p] = new[i] /\ old[q] = new[j]

\* new has what old has, in that order, then m
PairsKept(old, new, m) ==
  \A i, j \in 1..Len(new) : i < j =>
    \/ WerePair(old, new, i, j)
    \/ new[j] = m /\ (new[i] = m \/ \E p \in 1..Len(old) : old[p] = new[i])

\* A fan-out or a reply comes after all there is.
LEMMA PairsExtended ==
  ASSUME NEW S, NEW w \in Seq(S), NEW b \in Seq(S), NEW b2 \in Seq(S), NEW m,
         Extended(b, b2, m)
  PROVE  PairsKept(w \o b, w \o b2, m)
<1>a. PICK old, new : old = w \o b /\ new = w \o b2
  OBVIOUS
<1>b. SUFFICES PairsKept(old, new, m)
  BY <1>a, Zenon
<1>0. SUFFICES ASSUME NEW i \in 1..Len(new), NEW j \in 1..Len(new), i < j
               PROVE  \/ WerePair(old, new, i, j)
                      \/ /\ new[j] = m
                         /\ new[i] = m \/ \E p \in 1..Len(old) : old[p] = new[i]
  BY Zenon DEF PairsKept
<1>1. /\ Len(w) \in Nat /\ Len(b) \in Nat /\ Len(b2) \in Nat /\ Len(b2) >= Len(b)
      /\ Len(old) = Len(w) + Len(b) /\ Len(new) = Len(w) + Len(b2)
      /\ \A k \in 1..Len(w) : old[k] = w[k] /\ new[k] = w[k]
      /\ \A k \in 1..Len(b) : old[Len(w) + k] = b[k]
      /\ \A k \in 1..Len(b2) : new[Len(w) + k] = b2[k]
  BY <1>a, LenProperties, StreamElements DEF Extended, IsConcat
<1>2. ASSUME NEW k \in 1..Len(new)
      PROVE  (k \in 1..Len(old) /\ new[k] = old[k]) \/ (k > Len(old) /\ new[k] = m)
  <2>1. CASE k <= Len(w)
    BY <1>1, <2>1
  <2>2. CASE k > Len(w)
    <3>1. PICK n \in 1..Len(b2) : k = Len(w) + n
      <4>1. k - Len(w) \in 1..Len(b2) /\ k = Len(w) + (k - Len(w))
        BY <1>1, <2>2
      <4> QED BY <4>1
    <3>2. new[k] = b2[n]
      BY <1>1, <3>1
    <3>3. CASE n <= Len(b)
      <4>1. b2[n] = b[n] /\ old[Len(w) + n] = b[n] /\ k \in 1..Len(old)
        BY <1>1, <3>1, <3>3 DEF Extended
      <4> QED BY <3>1, <3>2, <4>1
    <3>4. CASE ~ (n <= Len(b))
      <4>1. b2[n] = m /\ k > Len(old)
        BY <1>1, <3>1, <3>4 DEF Extended
      <4> QED BY <3>2, <4>1
    <3> QED BY <3>3, <3>4
  <2> QED BY <1>1, <2>1, <2>2
<1>3. CASE j \in 1..Len(old) /\ new[j] = old[j]
  <2>1. ~ (i > Len(old))
    BY <1>0, <1>1, <1>3
  <2>2. i \in 1..Len(old) /\ new[i] = old[i]
    BY <1>2, <2>1
  <2> QED BY <1>0, <1>3, <2>2, Zenon DEF WerePair
<1>4. CASE new[j] = m
  BY <1>2, <1>4
<1> QED BY <1>2, <1>3, <1>4

\* Writing the oldest message to the socket keeps the order, whether or not the
\* peer is there to see it.
LEMMA PairsDelivered ==
  ASSUME NEW S, NEW w \in Seq(S), NEW b \in Seq(S), b # <<>>, NEW w2,
         w2 = w \/ w2 = Append(w, Head(b)),
         NEW old, old = w \o b, NEW new, new = w2 \o Tail(b),
         NEW i \in 1..Len(new), NEW j \in 1..Len(new), i < j
  PROVE  WerePair(old, new, i, j)
<1>1. /\ Head(b) \in S /\ Head(b) = b[1] /\ Tail(b) \in Seq(S)
      /\ Len(Tail(b)) = Len(b) - 1 /\ Len(b) \in Nat /\ Len(b) > 0
      /\ \A k \in 1..Len(Tail(b)) : Tail(b)[k] = b[k + 1]
  BY HeadTailProperties, LenProperties, EmptySeq
<1>2. /\ Len(w) \in Nat /\ Len(old) = Len(w) + Len(b)
      /\ \A k \in 1..Len(w) : old[k] = w[k]
      /\ \A k \in 1..Len(b) : old[Len(w) + k] = b[k]
  BY StreamElements DEF IsConcat
<1> DEFINE t == Tail(b)
<1>5. /\ t \in Seq(S) /\ Len(t) \in Nat /\ Len(b) = Len(t) + 1
      /\ Len(old) = Len(w) + Len(t) + 1
      /\ \A k \in 1..Len(t) : t[k] = b[k + 1]
  BY <1>1, <1>2, LenProperties
<1> HIDE DEF t
<1>3. CASE w2 = w
  <2>1. /\ Len(new) = Len(w) + Len(t)
        /\ \A k \in 1..Len(w) : new[k] = w[k]
        /\ \A k \in 1..Len(t) : new[Len(w) + k] = t[k]
    BY <1>3, <1>5, StreamElements DEF t, IsConcat
  <2>2. Len(t) = Len(b) - 1 /\ \A k \in 1..Len(t) : t[k] = b[k + 1]
    BY <1>5
  <2>3. ASSUME NEW k \in 1..Len(new)
        PROVE  \/ k \in 1..Len(w) /\ k \in 1..Len(old) /\ new[k] = old[k]
               \/ k > Len(w) /\ k + 1 \in 1..Len(old) /\ new[k] = old[k + 1]
    <3>1. CASE k <= Len(w)
      <4>1. k \in 1..Len(w) /\ k \in 1..Len(old)
        BY <1>2, <1>5, <3>1
      <4> QED BY <1>2, <2>1, <4>1
    <3>2. CASE k > Len(w)
      <4>1. PICK n \in 1..Len(t) : k = Len(w) + n
        <5>1. k - Len(w) \in 1..Len(t) /\ k = Len(w) + (k - Len(w))
          BY <1>2, <1>5, <2>1, <3>2
        <5> QED BY <5>1
      <4>2. new[k] = b[n + 1]
        BY <2>1, <2>2, <4>1
      <4>3. n + 1 \in 1..Len(b) /\ k + 1 = Len(w) + (n + 1) /\ k + 1 \in 1..Len(old)
        BY <1>2, <1>5, <4>1
      <4>4. old[k + 1] = b[n + 1]
        BY <1>2, <4>3
      <4> QED BY <3>2, <4>2, <4>3, <4>4
    <3> QED BY <1>2, <3>1, <3>2
  <2>4. \/ i \in 1..Len(w) /\ i \in 1..Len(old) /\ new[i] = old[i]
        \/ i > Len(w) /\ i + 1 \in 1..Len(old) /\ new[i] = old[i + 1]
    BY <2>3
  <2>5. \/ j \in 1..Len(w) /\ j \in 1..Len(old) /\ new[j] = old[j]
        \/ j > Len(w) /\ j + 1 \in 1..Len(old) /\ new[j] = old[j + 1]
    BY <2>3
  <2>6. i < j + 1 /\ i + 1 < j + 1 /\ ~ (i > Len(w) /\ j \in 1..Len(w))
    BY <1>2
  <2> QED BY <2>4, <2>5, <2>6 DEF WerePair
<1>4. CASE w2 = Append(w, Head(b))
  <2>1. /\ w2 \in Seq(S) /\ Len(w2) = Len(w) + 1
        /\ \A k \in 1..Len(w) : w2[k] = w[k]
        /\ w2[Len(w) + 1] = b[1]
    BY <1>1, <1>2, <1>4
  <2>2. /\ Len(new) = Len(w2) + Len(t)
        /\ \A k \in 1..Len(w2) : new[k] = w2[k]
        /\ \A k \in 1..Len(t) : new[Len(w2) + k] = t[k]
    <3>1. new = w2 \o t
      BY DEF t
    <3>2. w2 \in Seq(S) /\ t \in Seq(S)
      BY <1>5, <2>1
    <3>3. IsConcat(new, w2, t)
      BY <3>1, <3>2, StreamElements, Zenon
    <3> QED BY <3>3 DEF IsConcat
  <2>3. Len(t) = Len(b) - 1 /\ \A k \in 1..Len(t) : t[k] = b[k + 1]
    BY <1>5
  <2>4. ASSUME NEW k \in 1..Len(new)
        PROVE  k \in 1..Len(old) /\ new[k] = old[k]
    <3>1. CASE k <= Len(w)
      BY <1>1, <1>2, <2>1, <2>2, <3>1
    <3>2. CASE k = Len(w) + 1
      BY <1>1, <1>2, <2>1, <2>2, <3>2
    <3>3. CASE k > Len(w) + 1
      <4>1. PICK n \in 1..Len(t) : k = Len(w2) + n
        <5>1. k - Len(w2) \in 1..Len(t) /\ k = Len(w2) + (k - Len(w2))
          BY <1>2, <1>5, <2>1, <2>2, <3>3
        <5> QED BY <5>1
      <4>2. new[k] = b[n + 1]
        BY <2>2, <2>3, <4>1
      <4>3. n + 1 \in 1..Len(b) /\ k = Len(w) + (n + 1) /\ k \in 1..Len(old)
        BY <1>2, <1>5, <2>1, <4>1
      <4>4. old[k] = b[n + 1]
        BY <1>2, <4>3
      <4> QED BY <4>2, <4>3, <4>4
    <3> QED BY <1>2, <3>1, <3>2, <3>3
  <2> QED BY <2>4 DEF WerePair
<1> QED BY <1>3, <1>4

\* A step that gives a session a reply appends it, unless it does not fit.
LEMMA ReplyAppends ==
  ASSUME RoomsTypeOK, NEW c \in ClientId, NEW d \in ClientId, NEW m, Reply(d, m)
  PROVE  outbox'[c] = outbox[c] \/ outbox'[c] = Append(outbox[c], m)
BY DEF Reply, RoomsTypeOK

\* the messages of a stream that are not payloads
IsReply(m) == m \notin Payload

\* What a step does to the two sequences of a stream.
LEMMA StreamCases ==
  ASSUME TypeOK, [Next]_vars, NEW c \in ClientId
  PROVE  \/ UNCHANGED <<wire[c], outbox[c]>>
         \/ \E m : IsReply(m) /\ UNCHANGED wire[c] /\ outbox'[c] = Append(outbox[c], m)
         \/ /\ HandleBroadcast
            /\ UNCHANGED wire[c]
            /\ outbox'[c] = Fanout(Head(cmds).room, c, Head(cmds).message)
         \/ /\ outbox[c] # <<>> /\ outbox'[c] = Tail(outbox[c])
            /\ \/ wire'[c] = Append(wire[c], Head(outbox[c]))
               \/ UNCHANGED wire[c] /\ socket[c] # "open"
         \/ UNCHANGED wire[c] /\ outbox'[c] = <<>> /\ ~ rxOpen'[c]
<1> RoomsTypeOK
  BY DEF TypeOK
<1> DEFINE Same == UNCHANGED <<wire[c], outbox[c]>>
           Replied == \E m : /\ IsReply(m) /\ UNCHANGED wire[c]
                             /\ outbox'[c] = Append(outbox[c], m)
           Fanned == /\ HandleBroadcast
                     /\ UNCHANGED wire[c]
                     /\ outbox'[c] = Fanout(Head(cmds).room, c, Head(cmds).message)
           Delivered == /\ outbox[c] # <<>> /\ outbox'[c] = Tail(outbox[c])
                        /\ \/ wire'[c] = Append(wire[c], Head(outbox[c]))
                           \/ UNCHANGED wire[c] /\ socket[c] # "open"
           Cut == UNCHANGED wire[c] /\ outbox'[c] = <<>> /\ ~ rxOpen'[c]
<1>1. ASSUME UNCHANGED <<wire, outbox>> PROVE Same
  BY <1>1
<1>2. ASSUME NEW d \in ClientId, NEW m, IsReply(m), Reply(d, m), UNCHANGED wire
      PROVE  Same \/ Replied
  <2>1. UNCHANGED wire[c]
    BY <1>2
  <2>2. outbox'[c] = outbox[c] \/ outbox'[c] = Append(outbox[c], m)
    BY <1>2, ReplyAppends
  <2> QED BY <1>2, <2>1, <2>2, Zenon
<1>3. IsReply(Error) /\ \A room : IsReply(Joined(room))
  BY DEF IsReply, Error, Joined, Payload, MessageType, InvalidationType
<1>4. CASE CoordinatorStep
  <2>1. UNCHANGED wire
    BY <1>4 DEF CoordinatorStep, history
  <2>2. CASE HandleBroadcast
    BY <2>1, <2>2 DEF HandleBroadcast
  <2>3. CASE HandleJoin \/ HandleLeave
    BY <2>1, <2>3 DEF HandleJoin, HandleLeave
  <2> QED BY <1>4, <2>2, <2>3 DEF CoordinatorStep, Coordinator
<1>5. ASSUME NEW d \in ClientId,
             \/ TimeoutJoin(d) \/ RecvInvalid(d) \/ RecvSendMessage(d)
             \/ \E room \in DocumentId : RecvJoin(d, room) \/ RecvSendMessageTo(d, room)
      PROVE  Same \/ Replied
  <2>1. UNCHANGED wire /\ (UNCHANGED outbox \/ Reply(d, Error))
    BY <1>5 DEF TimeoutJoin, EndJoin, RecvInvalid, RecvSendMessage, RecvJoin,
                RecvSendMessageTo, PublishFrame, CommandDropped, history
  <2> HIDE DEF Same, Replied
  <2> QED BY <1>1, <1>2, <1>3, <2>1
<1>6. ASSUME NEW d \in ClientId, AckJoin(d)
      PROVE  Same \/ Replied
  <2>1. UNCHANGED wire /\ Reply(d, Joined(joining[d]))
    BY <1>6 DEF AckJoin, EndJoin, history
  <2> HIDE DEF Same, Replied
  <2> QED BY <1>2, <1>3, <2>1
<1>7. ASSUME NEW d \in ClientId, SendDeliver(d)
      PROVE  Same \/ Delivered
  <2>1. CASE d # c
    BY <1>7, <2>1 DEF SendDeliver, TypeOK, RoomsTypeOK
  <2>2. CASE d = c
    BY <1>7, <2>2 DEF SendDeliver, TypeOK, RoomsTypeOK
  <2> QED BY <2>1, <2>2
<1>8. ASSUME NEW d \in ClientId, SendFail(d) \/ SendAborted(d)
      PROVE  Same \/ Cut
  <2>1. /\ wire' = wire /\ outbox' = [outbox EXCEPT ![d] = <<>>]
        /\ rxOpen' = [rxOpen EXCEPT ![d] = FALSE]
    BY <1>8 DEF SendFail, SendAborted, EndSendTask, history
  <2> QED BY <2>1 DEF RoomsTypeOK
<1>9. ASSUME NEW d \in ClientId,
             RecvEnd(d) \/ RecvAborted(d) \/ MainSelect(d) \/ MainLeave(d) \/ PeerClose(d)
      PROVE  UNCHANGED <<wire, outbox>>
  BY <1>9 DEF RecvEnd, RecvAborted, MainSelect, MainLeave, PeerClose, roomsVars, history
<1>10. ASSUME NEW room \in DocumentId, SendInvalidation(room)
       PROVE  UNCHANGED <<wire, outbox>>
  BY <1>10 DEF SendInvalidation
<1>11. CASE UNCHANGED vars
  BY <1>11 DEF vars, roomsVars, history
<1>12. CASE SessionsNext
  <2> HIDE DEF Same, Replied, Fanned, Delivered, Cut
  <2>1. Same \/ Replied \/ Fanned \/ Delivered \/ Cut
    BY <1>1, <1>5, <1>6, <1>7, <1>8, <1>9, <1>12 DEF SessionsNext
  <2> QED BY <2>1 DEF Same, Replied, Fanned, Delivered, Cut
<1> QED BY <1>1, <1>4, <1>10, <1>11, <1>12 DEF Next

\* Two payloads of a stream were in it before, in the same order, or the second
\* is the payload that the coordinator has just fanned out.
LEMMA StreamPairs ==
  ASSUME TypeOK, TypeOK', [Next]_vars, NEW c \in ClientId, NEW new, new = Stream(c)',
         NEW i \in 1..Len(new), NEW j \in 1..Len(new), i < j, new[j] \in Payload
  PROVE  \/ WerePair(Stream(c), new, i, j)
         \/ /\ HandleBroadcast /\ new[j] = Head(cmds).message
            /\ new[i] = Head(cmds).message \/ new[i] \in Received(c)
<1> DEFINE w == wire[c]
           b == outbox[c]
           w2 == wire'[c]
           b2 == outbox'[c]
           old == Stream(c)
<1>1. /\ w \in Seq(ServerMessage) /\ b \in Seq(ServerMessage)
      /\ w2 \in Seq(ServerMessage) /\ b2 \in Seq(ServerMessage)
  BY DEF TypeOK, RoomsTypeOK
<1>2. old = w \o b /\ new = w2 \o b2 /\ Received(c) = {old[p] : p \in 1..Len(old)}
  BY Zenon DEF Stream, Received
<1>3. Len(b) \in Nat /\ Len(b2) \in Nat
  BY <1>1, LenProperties
<1> HIDE DEF old
<1>4. ASSUME NEW m, w2 = w, Extended(b, b2, m)
      PROVE  \/ WerePair(old, new, i, j)
             \/ new[j] = m /\ (new[i] = m \/ new[i] \in Received(c))
  <2>1. \/ WerePair(old, new, i, j)
        \/ new[j] = m /\ (new[i] = m \/ \E p \in 1..Len(old) : old[p] = new[i])
    <3>1. PairsKept(w \o b, w \o b2, m)
      <4> HIDE DEF w, b, b2
      <4> QED BY <1>1, <1>4, PairsExtended, Zenon
    <3>2. PairsKept(old, new, m)
      BY <1>2, <1>4, <3>1, Zenon
    <3> QED BY <3>2, Zenon DEF PairsKept
  <2>2. \A p \in 1..Len(old) : old[p] \in Received(c)
    BY <1>2, Zenon
  <2> QED BY <2>1, <2>2, Zenon
<1>5. CASE w2 = w /\ b2 = b
  <2>1. Extended(b, b2, Error)
    BY <1>3, <1>5 DEF Extended
  <2>2. Error \notin Payload
    BY DEF Error, Payload, MessageType, InvalidationType
  <2> QED BY <1>4, <1>5, <2>1, <2>2 DEF old
<1>6. ASSUME NEW m, IsReply(m), w2 = w, b2 = Append(b, m)
      PROVE  WerePair(old, new, i, j)
  <2>1. Extended(b, b2, m)
    BY <1>1, <1>3, <1>6 DEF Extended
  <2> QED BY <1>4, <1>6, <2>1 DEF IsReply
<1>7. CASE HandleBroadcast /\ w2 = w /\ b2 = Fanout(Head(cmds).room, c, Head(cmds).message)
  <2>1. PICK cmd : cmd = Head(cmds)
    OBVIOUS
  <2>2. cmd.room \in DocumentId /\ cmd.message \in Payload /\ RoomsTypeOK
    BY <1>7, <2>1, BroadcastRemoves DEF TypeOK
  <2>3. Extended(b, b2, cmd.message)
    BY <1>3, <1>7, <2>1, <2>2, FanoutType DEF Extended
  <2> QED BY <1>4, <1>7, <2>1, <2>3 DEF old
<1>8. CASE b # <<>> /\ b2 = Tail(b) /\ (w2 = Append(w, Head(b)) \/ w2 = w)
  <2>1. WerePair(old, new, i, j)
    <3> HIDE DEF w, b, w2, b2
    <3> QED BY <1>1, <1>2, <1>8, PairsDelivered
  <2> QED BY <2>1 DEF old
<1>9. CASE w2 = w /\ b2 = <<>>
  <2>1. Len(new) = Len(w) /\ \A k \in 1..Len(w) : new[k] = w[k]
    <3>1. <<>> \in Seq(ServerMessage) /\ Len(<<>>) = 0 /\ new = w \o <<>>
      BY <1>2, <1>9, EmptySeq
    <3>2. IsConcat(new, w, <<>>)
      BY <1>1, <3>1, StreamElements, Zenon
    <3> QED BY <3>1, <3>2 DEF IsConcat
  <2>2. /\ Len(w) \in Nat /\ Len(old) = Len(w) + Len(b)
        /\ \A k \in 1..Len(w) : old[k] = w[k]
    <3>1. IsConcat(old, w, b)
      BY <1>1, <1>2, StreamElements, Zenon
    <3> QED BY <3>1 DEF IsConcat
  <2>3. i \in 1..Len(old) /\ j \in 1..Len(old) /\ old[i] = new[i] /\ old[j] = new[j]
    <3> HIDE DEF w, b
    <3>1. i \in 1..Len(w) /\ j \in 1..Len(w)
      BY <2>1
    <3> QED BY <1>3, <2>1, <2>2, <3>1
  <2> QED BY <2>3 DEF WerePair, old
<1> QED BY <1>5, <1>6, <1>7, <1>8, <1>9, StreamCases DEF old

-----------------------------------------------------------------------------
(* The order of payloads.                                                  *)

IsBroadcast(i) == i \in 1..Len(cmds) /\ cmds[i].op = "broadcast"

\* m has been numbered by its source
Issued(m) ==
  /\ m.type = "message" => m.seq <= frames[m.from]
  /\ m.type = "invalidation" => m.seq <= invalidations

\* The inductive invariant: the channel has each source's payloads in the order
\* of their numbers, all later than what any peer has of that source.
IssuedInv ==
  /\ \A i : IsBroadcast(i) => Issued(cmds[i].message)
  /\ \A c \in ClientId : \A m \in Received(c) \cap Payload : Issued(m)

ChannelOrder ==
  \A i, j : IsBroadcast(i) /\ IsBroadcast(j) /\ i < j
              /\ SameSource(cmds[i].message, cmds[j].message)
    => cmds[i].message.seq < cmds[j].message.seq

PendingIsNew ==
  \A c \in ClientId : \A m \in Received(c) \cap Payload : \A i :
    IsBroadcast(i) /\ SameSource(m, cmds[i].message) => m.seq < cmds[i].message.seq

OrderInv == IssuedInv /\ ChannelOrder /\ PendingIsNew /\ SenderOrder /\ RoomsAgreeOnOrder

\* The fields of a payload; each is of its own source.
LEMMA PayloadFields ==
  ASSUME NEW m \in Payload
  PROVE  /\ m.seq \in Nat /\ SameSource(m, m)
         /\ m.type = "message" \/ m.type = "invalidation"
         /\ m.type = "message" => m.from \in ClientId
BY DEF Payload, MessageType, InvalidationType, SameSource

\* A pending broadcast is of a payload.
LEMMA BroadcastPayload ==
  ASSUME RoomsTypeOK, NEW i, IsBroadcast(i)
  PROVE  cmds[i] \in RoomCommand /\ cmds[i].message \in Payload /\ i \in 1..Len(cmds)
<1>1. i \in 1..Len(cmds) /\ cmds[i].op = "broadcast"
  BY DEF IsBroadcast
<1>2. cmds[i] \in RoomCommand
  BY <1>1, ElementOfSeq DEF RoomsTypeOK
<1> QED BY <1>1, <1>2, CommandFields

\* A broadcast of the channel was there before, at the same place or the next,
\* or has just been published.
LEMMA BroadcastChange ==
  ASSUME TypeOK, [Next]_vars
  PROVE  \/ /\ \A i : IsBroadcast(i)' => IsBroadcast(i) /\ cmds'[i] = cmds[i]
            /\ ~ HandleBroadcast
         \/ /\ \A i : IsBroadcast(i)' =>
                  IsBroadcast(i + 1) /\ cmds'[i] = cmds[i + 1] /\ i >= 1 /\ i \in Nat
            /\ HandleBroadcast => IsBroadcast(1) /\ Head(cmds) = cmds[1]
         \/ \E m \in Payload :
              /\ Numbered(m) /\ ~ HandleBroadcast
              /\ \A i : IsBroadcast(i)' =>
                   \/ IsBroadcast(i) /\ cmds'[i] = cmds[i]
                   \/ /\ cmds'[i].message = m
                      /\ \A j : IsBroadcast(j) => j < i
                      /\ \A j : IsBroadcast(j)' => j <= i
<1> RoomsTypeOK
  BY DEF TypeOK
<1>0. Len(cmds) \in Nat /\ cmds \in Seq(RoomCommand)
  BY LenProperties DEF RoomsTypeOK
<1>1. ASSUME cmds' = cmds
      PROVE  (\A i : IsBroadcast(i)' => IsBroadcast(i) /\ cmds'[i] = cmds[i]) /\ ~ HandleBroadcast
  <2>1. ~ HandleBroadcast
    BY <1>0, <1>1, CommandTaken DEF HandleBroadcast
  <2> QED BY <1>1, <2>1 DEF IsBroadcast
<1>2. ASSUME NEW op, Receive(op)
      PROVE  /\ \A i : IsBroadcast(i)' =>
                  IsBroadcast(i + 1) /\ cmds'[i] = cmds[i + 1] /\ i >= 1 /\ i \in Nat
             /\ HandleBroadcast => IsBroadcast(1) /\ Head(cmds) = cmds[1]
  <2>1. /\ \A i \in 1..Len(cmds') : i + 1 \in 1..Len(cmds) /\ cmds'[i] = cmds[i + 1]
        /\ Head(cmds) = cmds[1] /\ 1 \in 1..Len(cmds)
    BY <1>2, CommandTaken
  <2>2. HandleBroadcast => Head(cmds).op = "broadcast"
    BY DEF HandleBroadcast, Receive
  <2> QED BY <2>1, <2>2 DEF IsBroadcast
<1>3. ASSUME NEW cmd \in RoomCommand, TrySendCommand(cmd)
      PROVE  /\ ~ HandleBroadcast
             /\ \A i : IsBroadcast(i)' =>
                  \/ IsBroadcast(i) /\ cmds'[i] = cmds[i]
                  \/ /\ cmds'[i] = cmd /\ cmd.op = "broadcast"
                     /\ \A j : IsBroadcast(j) => j < i
                     /\ \A j : IsBroadcast(j)' => j <= i
  <2>1. /\ Len(cmds') = Len(cmds) + 1
        /\ \A i \in 1..Len(cmds') :
             IF i <= Len(cmds) THEN cmds'[i] = cmds[i] ELSE cmds'[i] = cmd
    BY <1>3, CommandAppended
  <2>2. ~ HandleBroadcast
    <3>1. HandleBroadcast => Len(cmds) = Len(cmds') + 1
      BY CommandTaken DEF HandleBroadcast
    <3> QED BY <1>0, <2>1, <3>1
  <2>3. ASSUME NEW i, IsBroadcast(i)', i <= Len(cmds)
        PROVE  IsBroadcast(i) /\ cmds'[i] = cmds[i]
    BY <1>0, <2>1, <2>3 DEF IsBroadcast
  <2>4. ASSUME NEW i, IsBroadcast(i)', ~ (i <= Len(cmds))
        PROVE  /\ cmds'[i] = cmd /\ cmd.op = "broadcast"
               /\ \A j : IsBroadcast(j) => j < i
               /\ \A j : IsBroadcast(j)' => j <= i
    BY <1>0, <2>1, <2>4 DEF IsBroadcast
  <2> QED BY <2>2, <2>3, <2>4
<1>4. ASSUME NEW room \in DocumentId, NEW m \in Payload, Enqueue(room, m), Numbered(m)
      PROVE  \E n \in Payload :
              /\ Numbered(n) /\ ~ HandleBroadcast
              /\ \A i : IsBroadcast(i)' =>
                   \/ IsBroadcast(i) /\ cmds'[i] = cmds[i]
                   \/ /\ cmds'[i].message = n
                      /\ \A j : IsBroadcast(j) => j < i
                      /\ \A j : IsBroadcast(j)' => j <= i
  <2>1. /\ Broadcast(room, m) \in RoomCommand /\ TrySendCommand(Broadcast(room, m))
        /\ Broadcast(room, m).message = m
    BY <1>4 DEF Enqueue, Broadcast, RoomCommand, BroadcastCommand
  <2> QED BY <1>3, <1>4, <2>1
<1>5. ASSUME NEW cmd \in RoomCommand, TrySendCommand(cmd), cmd.op # "broadcast"
      PROVE  (\A i : IsBroadcast(i)' => IsBroadcast(i) /\ cmds'[i] = cmds[i]) /\ ~ HandleBroadcast
  BY <1>3, <1>5
<1> QED BY <1>1, <1>2, <1>4, <1>5, Published

\* ReceivedIsHeard after a step.
LEMMA ReceivedIsHeardNext ==
  ASSUME TypeOK'
  PROVE  \A c \in ClientId : Received(c)' = Heard(c)'
<1>1. (TypeOK => \A c \in ClientId : Received(c) = Heard(c))'
  BY ReceivedIsHeard, PTL
<1> QED BY <1>1

\* What a session's peer gets was in its stream or is the payload fanned out.
LEMMA ReceivedChange ==
  ASSUME TypeOK, TypeOK', [Next]_vars, NEW c \in ClientId,
         NEW m \in Received(c)' \cap Payload
  PROVE  m \in Received(c) \cap Payload \/ (HandleBroadcast /\ m = Head(cmds).message)
<1>1. Received(c)' = Heard(c)'
  BY ReceivedIsHeardNext
<1>2. Received(c) = Heard(c)
  BY ReceivedIsHeard
<1>3. m # Error /\ \A room : m # Joined(room)
  BY DEF Error, Joined, Payload, MessageType, InvalidationType
<1> QED BY <1>1, <1>2, <1>3, HeardChange DEF Gained

\* Numbers given once stay given, and the next one of a source is new.
LEMMA IssuedStays ==
  ASSUME TypeOK, [Next]_vars, NEW m \in Payload
  PROVE  /\ Issued(m) => Issued(m)'
         /\ Numbered(m) => Issued(m)'
         /\ \A n \in Payload : Issued(n) /\ Numbered(m) /\ SameSource(n, m) => n.seq < m.seq
<1>1. /\ m.seq \in Nat
      /\ m.type = "message" => m.from \in ClientId
  BY PayloadFields
<1>2. Issued(m) => Issued(m)'
  BY <1>1, NumbersGrow DEF Issued
<1>3. Numbered(m) => Issued(m)'
  BY <1>1 DEF Issued, Numbered
<1>4. ASSUME NEW n \in Payload, Issued(n), Numbered(m), SameSource(n, m)
      PROVE  n.seq < m.seq
  <2>1. n.seq \in Nat /\ (n.type = "message" => n.from \in ClientId)
    BY PayloadFields
  <2>2. invalidations \in Nat /\ \A c \in ClientId : frames[c] \in Nat
    BY DEF TypeOK
  <2>3. CASE m.type = "message"
    BY <1>1, <1>4, <2>1, <2>2, <2>3 DEF Issued, Numbered, SameSource
  <2>4. CASE m.type = "invalidation"
    BY <1>1, <1>4, <2>1, <2>2, <2>4 DEF Issued, Numbered, SameSource
  <2> QED BY <2>3, <2>4, PayloadFields
<1> QED BY <1>2, <1>3, <1>4

\* Nothing is numbered, sent or received when the server starts.
LEMMA OrderInit == Init => OrderInv
<1> SUFFICES ASSUME Init PROVE OrderInv
  OBVIOUS
<1>1. \A i : ~ IsBroadcast(i)
  BY EmptySeq DEF Init, RoomsInit, IsBroadcast
<1>2. \A c \in ClientId : Received(c) = {} /\ Len(Stream(c)) = 0
  <2> SUFFICES ASSUME NEW c \in ClientId PROVE Received(c) = {} /\ Len(Stream(c)) = 0
    OBVIOUS
  <2>1. wire[c] = <<>> /\ outbox[c] = <<>>
    BY DEF Init, RoomsInit
  <2>2. Heard(c) = {}
    BY <2>1 DEF Heard, Elems
  <2> QED BY <2>1, <2>2, TypeInit, ReceivedIsHeard, EmptySeq DEF Stream
<1>3. SenderOrder
  BY <1>2 DEF SenderOrder
<1> QED BY <1>1, <1>2, <1>3
        DEF OrderInv, IssuedInv, ChannelOrder, PendingIsNew, RoomsAgreeOnOrder

\* The channel keeps the order of each source.
LEMMA ChannelOrderNext ==
  ASSUME TypeOK, OrderInv, [Next]_vars
  PROVE  /\ ChannelOrder'
         /\ \A i, m : IsBroadcast(i)' /\ m = cmds'[i].message => Issued(m)'
<1> RoomsTypeOK
  BY DEF TypeOK
<1> USE DEF OrderInv
<1>1. ASSUME NEW i, NEW m, IsBroadcast(i)', m = cmds'[i].message
      PROVE  Issued(m)'
  <2>1. ASSUME NEW j, IsBroadcast(j), cmds'[i] = cmds[j]
        PROVE  Issued(m)'
    <3>1. m \in Payload /\ Issued(m)
      BY <1>1, <2>1, BroadcastPayload DEF IssuedInv
    <3> QED BY <3>1, IssuedStays
  <2>2. ASSUME m \in Payload, Numbered(m)
        PROVE  Issued(m)'
    BY <2>2, IssuedStays
  <2> QED BY <1>1, <2>1, <2>2, BroadcastChange
<1>2. ASSUME NEW i, NEW j, IsBroadcast(i)', IsBroadcast(j)', i < j,
             NEW m, NEW n, m = cmds'[i].message, n = cmds'[j].message, SameSource(m, n)
      PROVE  m.seq < n.seq
  <2>1. CASE /\ IsBroadcast(i) /\ cmds'[i] = cmds[i]
             /\ IsBroadcast(j) /\ cmds'[j] = cmds[j]
    BY <1>2, <2>1 DEF ChannelOrder
  <2>2. CASE /\ IsBroadcast(i + 1) /\ cmds'[i] = cmds[i + 1] /\ i \in Nat
             /\ IsBroadcast(j + 1) /\ cmds'[j] = cmds[j + 1] /\ j \in Nat
    <3>1. i + 1 < j + 1
      BY <1>2, <2>2
    <3> QED BY <1>2, <2>2, <3>1 DEF ChannelOrder
  <2>3. CASE /\ IsBroadcast(i) /\ cmds'[i] = cmds[i]
             /\ n \in Payload /\ Numbered(n)
    <3>1. m \in Payload /\ Issued(m)
      BY <1>2, <2>3, BroadcastPayload DEF IssuedInv
    <3> QED BY <1>2, <2>3, <3>1, IssuedStays
  <2>4. CASE \E p \in Payload :
               /\ Numbered(p)
               /\ \A k : IsBroadcast(k)' =>
                   \/ IsBroadcast(k) /\ cmds'[k] = cmds[k]
                   \/ /\ cmds'[k].message = p
                      /\ \A l : IsBroadcast(l) => l < k
                      /\ \A l : IsBroadcast(l)' => l <= k
    <3>1. i \in Nat /\ j \in Nat
      BY <1>2 DEF IsBroadcast
    <3>2. IsBroadcast(i) /\ cmds'[i] = cmds[i]
      BY <1>2, <2>4, <3>1
    <3>3. \/ IsBroadcast(j) /\ cmds'[j] = cmds[j]
          \/ n \in Payload /\ Numbered(n)
      BY <1>2, <2>4
    <3> QED BY <2>1, <2>3, <3>2, <3>3
  <2> QED BY <1>2, <2>1, <2>2, <2>4, BroadcastChange
<1> QED BY <1>1, <1>2 DEF ChannelOrder

\* A payload that waits in the channel has reached nobody.
LEMMA PendingNext ==
  ASSUME TypeOK, OrderInv, [Next]_vars
  PROVE  PendingIsNew' /\ IssuedInv'
<1> RoomsTypeOK /\ TypeOK'
  BY TypeNext DEF TypeOK
<1> USE DEF OrderInv
<1>1. ASSUME NEW c \in ClientId, NEW m \in Received(c)' \cap Payload
      PROVE  Issued(m)'
  <2>1. CASE m \in Received(c) \cap Payload
    BY <2>1, IssuedStays DEF IssuedInv
  <2>2. CASE HandleBroadcast /\ m = Head(cmds).message
    <3>1. IsBroadcast(1) /\ Head(cmds) = cmds[1]
      BY <2>2, BroadcastChange
    <3>2. m \in Payload /\ Issued(m)
      BY <2>2, <3>1, BroadcastPayload DEF IssuedInv
    <3> QED BY <3>2, IssuedStays
  <2> QED BY <2>1, <2>2, ReceivedChange
<1>2. ASSUME NEW c \in ClientId, NEW m \in Received(c)' \cap Payload,
             NEW i, IsBroadcast(i)', NEW n, n = cmds'[i].message, SameSource(m, n)
      PROVE  m.seq < n.seq
  <2>1. CASE m \in Received(c) \cap Payload
    <3>1. ASSUME NEW j, IsBroadcast(j), cmds'[i] = cmds[j]
          PROVE  m.seq < n.seq
      BY <1>2, <2>1, <3>1 DEF PendingIsNew
    <3>2. ASSUME n \in Payload, Numbered(n)
          PROVE  m.seq < n.seq
      BY <1>2, <2>1, <3>2, IssuedStays DEF IssuedInv
    <3> QED BY <1>2, <3>1, <3>2, BroadcastChange
  <2>2. CASE HandleBroadcast /\ m = Head(cmds).message
    <3>1. /\ IsBroadcast(1) /\ m = cmds[1].message
          /\ IsBroadcast(i + 1) /\ n = cmds[i + 1].message /\ i >= 1 /\ i \in Nat
      BY <1>2, <2>2, BroadcastChange
    <3>2. 1 < i + 1
      BY <3>1
    <3> QED BY <1>2, <3>1, <3>2 DEF ChannelOrder
  <2> QED BY <1>2, <2>1, <2>2, ReceivedChange
<1>3. PendingIsNew'
  BY <1>2 DEF PendingIsNew
<1>4. ASSUME NEW i, IsBroadcast(i)' PROVE Issued(cmds[i].message)'
  <2>1. PICK m : m = cmds'[i].message
    OBVIOUS
  <2>2. Issued(m)'
    BY <1>4, <2>1, ChannelOrderNext
  <2> QED BY <2>1, <2>2 DEF Issued
<1>5. IssuedInv'
  BY <1>1, <1>4 DEF IssuedInv
<1> QED BY <1>3, <1>5

\* A server message has one source at most, and a source is of payloads.
LEMMA SourceIsPayload ==
  ASSUME NEW m \in ServerMessage, NEW n \in ServerMessage, SameSource(m, n)
  PROVE  m \in Payload /\ n \in Payload
BY DEF ServerMessage, Payload, MessageType, InvalidationType, SameSource

\* The stream of a session is of server messages.
LEMMA StreamTyped ==
  ASSUME TypeOK, NEW c \in ClientId
  PROVE  /\ Stream(c) \in Seq(ServerMessage)
         /\ Len(Stream(c)) \in Nat
         /\ \A i \in 1..Len(Stream(c)) : Stream(c)[i] \in ServerMessage /\ Stream(c)[i] \in Received(c)
<1>1. wire[c] \in Seq(ServerMessage) /\ outbox[c] \in Seq(ServerMessage)
  BY DEF TypeOK, RoomsTypeOK
<1>2. Stream(c) \in Seq(ServerMessage)
  BY <1>1, ConcatProperties DEF Stream
<1>3. \A i \in 1..Len(Stream(c)) : Stream(c)[i] \in Received(c)
  BY Zenon DEF Received
<1> QED BY <1>2, <1>3, ElementOfSeq, LenProperties

\* A step keeps the order of what one source sent.
LEMMA SenderOrderNext ==
  ASSUME TypeOK, OrderInv, [Next]_vars
  PROVE  SenderOrder'
<1> RoomsTypeOK /\ TypeOK'
  BY TypeNext DEF TypeOK
<1> USE DEF OrderInv
<1>1. ASSUME NEW c \in ClientId, NEW new, new = Stream(c)',
             NEW i \in 1..Len(new), NEW j \in 1..Len(new), i < j,
             NEW m, NEW n, m = new[i], n = new[j], SameSource(m, n)
      PROVE  m.seq <= n.seq
  <2>1. m \in Payload /\ n \in Payload
    <3>1. m \in ServerMessage /\ n \in ServerMessage
      <4>1. new \in Seq(ServerMessage)
        <5>1. wire'[c] \in Seq(ServerMessage) /\ outbox'[c] \in Seq(ServerMessage)
          BY DEF TypeOK, RoomsTypeOK
        <5> QED BY <1>1, <5>1, ConcatProperties DEF Stream
      <4> QED BY <1>1, <4>1, ElementOfSeq
    <3> QED BY <1>1, <3>1, SourceIsPayload
  <2>2. m.seq \in Nat /\ n.seq \in Nat
    BY <2>1, PayloadFields
  <2>3. CASE WerePair(Stream(c), new, i, j)
    <3>1. PICK old : old = Stream(c)
      OBVIOUS
    <3>2. PICK p \in 1..Len(old), q \in 1..Len(old) : p < q /\ old[p] = m /\ old[q] = n
      BY <1>1, <2>3, <3>1 DEF WerePair
    <3> QED BY <1>1, <3>1, <3>2 DEF SenderOrder
  <2>4. CASE /\ HandleBroadcast /\ n = Head(cmds).message
             /\ m = Head(cmds).message \/ m \in Received(c)
    <3>1. IsBroadcast(1) /\ n = cmds[1].message
      BY <2>4, BroadcastChange
    <3>2. CASE m = n
      BY <2>2, <3>2
    <3>3. CASE m \in Received(c)
      <4>1. m.seq < n.seq
        BY <1>1, <2>1, <3>1, <3>3 DEF PendingIsNew
      <4> QED BY <2>2, <4>1
    <3> QED BY <2>4, <3>2, <3>3
  <2> QED BY <1>1, <2>1, <2>3, <2>4, StreamPairs
<1> QED BY <1>1 DEF SenderOrder

\* A payload that the coordinator fans out has reached nobody yet.
LEMMA FannedIsNew ==
  ASSUME TypeOK, OrderInv, [Next]_vars, HandleBroadcast,
         NEW c \in ClientId, NEW m, m = Head(cmds).message
  PROVE  m \notin Received(c)
<1> RoomsTypeOK
  BY DEF TypeOK
<1>1. IsBroadcast(1) /\ m = cmds[1].message
  BY BroadcastChange
<1>2. m \in Payload
  BY <1>1, BroadcastPayload
<1>3. m.seq \in Nat /\ SameSource(m, m)
  BY <1>2, PayloadFields
<1>4. ASSUME m \in Received(c) PROVE FALSE
  <2>1. m.seq < m.seq
    BY <1>1, <1>2, <1>3, <1>4 DEF OrderInv, PendingIsNew
  <2> QED BY <1>3, <2>1
<1> QED BY <1>4

\* Two payloads in one order in a stream were so before, or the later one has
\* just been fanned out.
LEMMA BeforeChange ==
  ASSUME TypeOK, [Next]_vars, NEW c \in ClientId,
         NEW m, NEW n \in Payload, m # n, Before(c, m, n)'
  PROVE  \/ Before(c, m, n) /\ m \in Received(c) /\ n \in Received(c)
         \/ HandleBroadcast /\ n = Head(cmds).message
<1> TypeOK'
  BY TypeNext
<1>1. PICK new : new = Stream(c)'
  OBVIOUS
<1>2. PICK i \in 1..Len(new), j \in 1..Len(new) : i < j /\ new[i] = m /\ new[j] = n
  BY <1>1 DEF Before
<1>3. CASE WerePair(Stream(c), new, i, j)
  <2>1. PICK old : old = Stream(c)
    OBVIOUS
  <2>2. PICK p \in 1..Len(old), q \in 1..Len(old) : p < q /\ old[p] = m /\ old[q] = n
    BY <1>2, <1>3, <2>1 DEF WerePair
  <2>3. m \in Received(c) /\ n \in Received(c)
    BY <2>1, <2>2, StreamTyped
  <2> QED BY <2>1, <2>2, <2>3 DEF Before
<1> QED BY <1>1, <1>2, <1>3, StreamPairs

\* No step makes two peers see two payloads in opposite orders.
LEMMA AgreementNext ==
  ASSUME TypeOK, OrderInv, [Next]_vars
  PROVE  RoomsAgreeOnOrder'
<1>1. ASSUME NEW c \in ClientId, NEW d \in ClientId, NEW m \in Payload, NEW n \in Payload,
             m # n, Before(c, m, n)', Before(d, n, m)'
      PROVE  FALSE
  <2>1. \/ Before(c, m, n) /\ m \in Received(c) /\ n \in Received(c)
        \/ HandleBroadcast /\ n = Head(cmds).message
    BY <1>1, BeforeChange
  <2>2. \/ Before(d, n, m) /\ m \in Received(d) /\ n \in Received(d)
        \/ HandleBroadcast /\ m = Head(cmds).message
    BY <1>1, BeforeChange
  <2>3. CASE /\ Before(c, m, n) /\ m \in Received(c) /\ n \in Received(c)
             /\ Before(d, n, m) /\ m \in Received(d) /\ n \in Received(d)
    BY <1>1, <2>3 DEF OrderInv, RoomsAgreeOnOrder
  <2> QED BY <1>1, <2>1, <2>2, <2>3, FannedIsNew
<1> QED BY <1>1 DEF RoomsAgreeOnOrder

\* Every step keeps the whole invariant.
LEMMA OrderNext == TypeOK /\ OrderInv /\ [Next]_vars => OrderInv'
BY PendingNext, ChannelOrderNext, SenderOrderNext, AgreementNext DEF OrderInv

\* The channel and the streams never disagree about the order of payloads.
THEOREM OrderCorrect == Spec => []OrderInv
BY TypeInit, TypeNext, OrderInit, OrderNext, PTL DEF Spec

\* A peer sees what one session or the WAL reader sent in the order in which it
\* was sent, whatever is dropped in between.
THEOREM SenderOrderCorrect == Spec => []SenderOrder
<1>1. OrderInv => SenderOrder
  BY DEF OrderInv
<1> QED BY <1>1, OrderCorrect, PTL

\* No two peers ever see two payloads in opposite orders, also when they joined
\* their rooms more than once.
THEOREM AgreementCorrect == Spec => []RoomsAgreeOnOrder
<1>1. OrderInv => RoomsAgreeOnOrder
  BY DEF OrderInv
<1> QED BY <1>1, OrderCorrect, PTL

-----------------------------------------------------------------------------
(* No room without clients.                                                *)

\* retain() removes the room when it takes out its last client.
LEMMA RetainLeavesNone ==
  ASSUME RoomsTypeOK, NoEmptyRooms, NEW room \in DOMAIN rooms, NEW gone,
         rooms' = WithoutClients(room, gone)
  PROVE  NoEmptyRooms'
<1>1. CASE Members(room) \subseteq gone
  BY <1>1 DEF WithoutClients, NoEmptyRooms, Members, Entries
<1>2. CASE ~ (Members(room) \subseteq gone)
  <2>1. rooms' = [r \in DOMAIN rooms |-> IF r = room
                    THEN [c \in ClientId |-> IF c \in gone THEN 0 ELSE rooms[room][c]]
                    ELSE rooms[r]]
    BY <1>2 DEF WithoutClients, SetRoom
  <2>2. PICK c \in Members(room) : c \notin gone
    BY <1>2
  <2>3. c \in Members(room)'
    BY <2>1, <2>2 DEF Members, Entries
  <2>4. ASSUME NEW r \in DOMAIN rooms, r # room PROVE Members(r)' = Members(r)
    BY <2>1, <2>4 DEF Members, Entries
  <2> QED BY <2>1, <2>3, <2>4 DEF NoEmptyRooms
<1> QED BY <1>1, <1>2

\* No step leaves an empty room behind.
LEMMA NoEmptyNext == TypeOK /\ NoEmptyRooms /\ [Next]_vars => NoEmptyRooms'
<1> SUFFICES ASSUME TypeOK, NoEmptyRooms, [Next]_vars PROVE NoEmptyRooms'
  OBVIOUS
<1> RoomsTypeOK
  BY DEF TypeOK
<1>1. CASE rooms' = rooms
  BY <1>1 DEF NoEmptyRooms, Members, Entries
<1>2. PICK cmd : cmd = Head(cmds)
  OBVIOUS
<1>3. CASE HandleJoin
  <2>1. \A room : Members(room)' = IF room = cmd.room THEN Members(room) \cup {cmd.client}
                                                      ELSE Members(room)
    BY <1>2, <1>3, JoinAdds
  <2>2. DOMAIN rooms' = DOMAIN rooms \cup {cmd.room}
    BY <1>2, <1>3 DEF HandleJoin, SetRoom
  <2> QED BY <2>1, <2>2 DEF NoEmptyRooms
<1>4. CASE HandleLeave
  <2>1. rooms' = rooms \/ (cmd.room \in DOMAIN rooms
                           /\ rooms' = WithoutClients(cmd.room, {cmd.client}))
    BY <1>2, <1>4 DEF HandleLeave
  <2> QED BY <1>1, <2>1, RetainLeavesNone
<1>5. CASE HandleBroadcast
  <2>1. rooms' = rooms \/ (Failed(cmd.room) # {}
                           /\ rooms' = WithoutClients(cmd.room, Failed(cmd.room)))
    BY <1>2, <1>5 DEF HandleBroadcast
  <2>2. Failed(cmd.room) # {} => cmd.room \in DOMAIN rooms
    BY DEF Failed, Members, Entries
  <2> QED BY <1>1, <2>1, <2>2, RetainLeavesNone
<1> QED BY <1>1, <1>3, <1>4, <1>5, OnlyCoordinatorOwnsRooms DEF CoordinatorStep, Coordinator

\* The map keeps no key without clients, whoever leaves or is swept out.
THEOREM NoEmptyRoomsCorrect == Spec => []NoEmptyRooms
<1>1. Init => NoEmptyRooms
  BY DEF Init, RoomsInit, NoEmptyRooms
<1> QED BY <1>1, TypeInit, TypeNext, NoEmptyNext, PTL DEF Spec

-----------------------------------------------------------------------------
(* Losses.                                                                 *)

\* The counter of drops only grows, in a fan-out by what found no room.
LEMMA DropsChange ==
  ASSUME TypeOK, [Next]_vars, NEW c \in ClientId
  PROVE  /\ fanoutDrops[c] \in Nat /\ fanoutDrops'[c] \in Nat
         /\ fanoutDrops[c] <= fanoutDrops'[c]
         /\ HandleBroadcast => fanoutDrops'[c] = fanoutDrops[c] + Dropped(Head(cmds).room, c)
<1> RoomsTypeOK
  BY DEF TypeOK
<1>1. fanoutDrops[c] \in Nat
  BY DEF RoomsTypeOK
<1>2. CASE HandleBroadcast
  <2>1. fanoutDrops'[c] = fanoutDrops[c] + Dropped(Head(cmds).room, c)
    BY <1>2 DEF HandleBroadcast
  <2>2. PICK room : room = Head(cmds).room
    OBVIOUS
  <2>3. PICK m \in Payload : m = Head(cmds).message
    BY <1>2, BroadcastRemoves
  <2>4. room \in DocumentId
    BY <1>2, <2>2, BroadcastRemoves
  <2>5. Dropped(room, c) \in Nat
    BY <2>4, FanoutType
  <2> QED BY <1>1, <2>1, <2>2, <2>5
<1>3. CASE ~ HandleBroadcast
  <2>1. fanoutDrops' = fanoutDrops
    BY <1>3 DEF Next, SessionsNext, CoordinatorStep, Coordinator, HandleJoin, HandleLeave,
       RecvJoin, RecvSendMessageTo, AckJoin, TimeoutJoin, EndJoin, RecvSendMessage,
       RecvInvalid, RecvEnd, RecvAborted, SendDeliver, SendFail, SendAborted, EndSendTask,
       MainSelect, MainLeave, PeerClose, SendInvalidation, roomsVars, vars
  <2> QED BY <1>1, <1>3, <2>1
<1> QED BY <1>2, <1>3

\* A socket that is open was so before.
LEMMA SocketStays ==
  ASSUME TypeOK, [Next]_vars, NEW c \in ClientId, socket'[c] = "open"
  PROVE  socket[c] = "open"
<1>1. ASSUME NEW d \in ClientId, PeerClose(d)
      PROVE  socket' = [socket EXCEPT ![d] = "closed"]
  BY <1>1 DEF PeerClose
<1>2. ASSUME ~ \E d \in ClientId : PeerClose(d)
      PROVE  socket' = socket
  BY <1>2 DEF Next, SessionsNext, CoordinatorStep, RecvJoin, RecvSendMessageTo, AckJoin,
       TimeoutJoin, EndJoin, RecvSendMessage, RecvInvalid, RecvEnd, RecvAborted,
       SendDeliver, SendFail, SendAborted, EndSendTask, MainSelect, MainLeave,
       SendInvalidation, sessionVars, vars
<1> QED BY <1>1, <1>2 DEF TypeOK

\* What a live session's peer has, or is about to get, it keeps while its
\* connection lasts.
LEMMA ReceivedStays ==
  ASSUME TypeOK, [Next]_vars, NEW c \in ClientId, Live(c)', socket'[c] = "open",
         NEW m \in Received(c)
  PROVE  m \in Received(c)'
<1> RoomsTypeOK /\ TypeOK'
  BY TypeNext DEF TypeOK
<1> DEFINE w == wire[c]
           b == outbox[c]
           w2 == wire'[c]
           b2 == outbox'[c]
<1>1. /\ w \in Seq(ServerMessage) /\ b \in Seq(ServerMessage)
      /\ Len(w) \in Nat /\ Len(b) \in Nat
  BY LenProperties DEF RoomsTypeOK, TypeOK
<1>2. m \in Elems(w) \/ m \in Elems(b)
  BY ReceivedIsHeard DEF Heard
<1>3. SUFFICES m \in Elems(w2) \/ m \in Elems(b2)
  BY ReceivedIsHeardNext DEF Heard, Elems
<1>4. socket[c] = "open" /\ rxOpen'[c]
  BY SocketStays DEF Live
<1> HIDE DEF w, b, w2, b2
<1>5. CASE w2 = w /\ b2 = b
  BY <1>2, <1>5
<1>6. ASSUME w2 = w, Len(b2) >= Len(b), Len(b2) \in Nat, \A i \in 1..Len(b) : b2[i] = b[i]
      PROVE  m \in Elems(w2) \/ m \in Elems(b2)
  <2>1. CASE m \in Elems(w)
    BY <1>6, <2>1
  <2>2. CASE m \in Elems(b)
    <3>1. PICK i \in 1..Len(b) : m = b[i]
      BY <2>2 DEF Elems
    <3>2. i \in 1..Len(b2) /\ b2[i] = m
      BY <1>1, <1>6, <3>1
    <3> QED BY <3>2, Zenon DEF Elems
  <2> QED BY <1>2, <2>1, <2>2
<1>7. ASSUME NEW e, w2 = w, b2 = Append(b, e)
      PROVE  m \in Elems(w2) \/ m \in Elems(b2)
  <2>1. Len(b2) = Len(b) + 1 /\ \A i \in 1..Len(b) : b2[i] = b[i]
    BY <1>1, <1>7
  <2> QED BY <1>1, <1>6, <1>7, <2>1
<1>8. CASE HandleBroadcast /\ w2 = w /\ b2 = Fanout(Head(cmds).room, c, Head(cmds).message)
  <2>1. PICK room \in DocumentId, p \in Payload :
          room = Head(cmds).room /\ p = Head(cmds).message
    BY <1>8, BroadcastRemoves
  <2>2. /\ Accepted(room, c) \in Nat /\ Len(b2) = Len(b) + Accepted(room, c)
        /\ \A i \in 1..Len(b2) : i <= Len(b) => b2[i] = b[i]
    BY <1>8, <2>1, FanoutType DEF b
  <2> QED BY <1>1, <1>6, <1>8, <2>2
<1>9. CASE b # <<>> /\ b2 = Tail(b) /\ w2 = Append(w, Head(b))
  <2>1. /\ Len(b2) = Len(b) - 1 /\ Head(b) = b[1]
        /\ \A i \in 1..Len(b2) : b2[i] = b[i + 1]
    BY <1>1, <1>9, HeadTailProperties
  <2>2. Len(w2) = Len(w) + 1 /\ w2[Len(w) + 1] = b[1] /\ \A i \in 1..Len(w) : w2[i] = w[i]
    <3>1. Head(b) = b[1]
      BY <2>1
    <3> QED BY <1>1, <1>9, <3>1
  <2>3. CASE m \in Elems(w)
    <3>1. PICK i \in 1..Len(w) : m = w[i]
      BY <2>3 DEF Elems
    <3>2. i \in 1..Len(w2) /\ w2[i] = m
      BY <1>1, <2>2, <3>1
    <3> QED BY <3>2, Zenon DEF Elems
  <2>4. CASE m \in Elems(b)
    <3>1. PICK i \in 1..Len(b) : m = b[i]
      BY <2>4 DEF Elems
    <3>2. CASE i = 1
      <4>1. Len(w) + 1 \in 1..Len(w2) /\ w2[Len(w) + 1] = m
        BY <1>1, <2>2, <3>1, <3>2
      <4> QED BY <4>1, Zenon DEF Elems
    <3>3. CASE i # 1
      <4>1. i - 1 \in 1..Len(b2) /\ (i - 1) + 1 = i
        BY <1>1, <2>1, <3>1, <3>3
      <4>2. b2[i - 1] = m
        BY <2>1, <3>1, <4>1
      <4> QED BY <4>1, <4>2, Zenon DEF Elems
    <3> QED BY <3>2, <3>3
  <2> QED BY <1>2, <2>3, <2>4
<1> QED BY <1>4, <1>5, <1>7, <1>8, <1>9, StreamCases DEF w, b, w2, b2

\* A payload leaves the channel only by its fan-out.
LEMMA PendingStays ==
  ASSUME TypeOK, [Next]_vars, NEW m, Pending(m)
  PROVE  Pending(m)' \/ (HandleBroadcast /\ m = Head(cmds).message)
<1> RoomsTypeOK
  BY DEF TypeOK
<1>0. cmds \in Seq(RoomCommand) /\ Len(cmds) \in Nat
  BY LenProperties DEF RoomsTypeOK
<1>1. PICK i \in 1..Len(cmds) : cmds[i].op = "broadcast" /\ cmds[i].message = m
  BY DEF Pending
<1>2. CASE cmds' = cmds
  BY <1>1, <1>2 DEF Pending
<1>3. ASSUME NEW cmd \in RoomCommand, TrySendCommand(cmd)
      PROVE  Pending(m)'
  <2>1. i \in 1..Len(cmds') /\ cmds'[i] = cmds[i]
    BY <1>0, <1>3, CommandAppended
  <2> QED BY <1>1, <2>1 DEF Pending
<1>4. ASSUME NEW op, Receive(op), i # 1
      PROVE  Pending(m)'
  <2>1. /\ Len(cmds) = Len(cmds') + 1
        /\ \A k \in 1..Len(cmds') : cmds'[k] = cmds[k + 1]
        /\ Len(cmds') \in Nat
    BY <1>4, CommandTaken, LenProperties
  <2>2. i - 1 \in 1..Len(cmds') /\ (i - 1) + 1 = i
    BY <1>0, <1>4, <2>1
  <2>3. cmds'[i - 1] = cmds[i]
    BY <2>1, <2>2
  <2> QED BY <1>1, <2>2, <2>3 DEF Pending
<1>5. CASE CoordinatorStep /\ (\E op : Receive(op)) /\ i = 1
  <2>1. cmds # <<>> /\ Head(cmds) = cmds[1] /\ Head(cmds).op = "broadcast"
    BY <1>1, <1>5, CommandTaken DEF Receive
  <2> QED BY <1>1, <1>5, <2>1
          DEF CoordinatorStep, Coordinator, HandleJoin, HandleLeave, Receive
<1> QED BY <1>2, <1>3, <1>4, <1>5, CommandsChange

\* The inductive invariant: what a live session is owed is of its rooms, so the
\* coordinator tries to push it, and counts it when it cannot.
OwedInv ==
  \A c \in ClientId : Live(c) => \A m \in expected[c] : c \in Members(m.room)

CountedInv ==
  \A c \in ClientId : Live(c) /\ socket[c] = "open" =>
    IsFiniteSet(Missing(c)) /\ Cardinality(Missing(c)) <= fanoutDrops[c]

LossInv == OwedInv /\ CountedInv

\* A session newly owes its peer only what has just been put on the channel.
LEMMA ExpectedChange ==
  ASSUME TypeOK, [Next]_vars, NEW c \in ClientId, NEW m \in expected'[c]
  PROVE  \/ m \in expected[c]
         \/ Live(c) /\ currentRoom[c] = m.room /\ currentRoom[c] # NoRoom /\ Pending(m)'
<1> RoomsTypeOK
  BY DEF TypeOK
<1>1. ASSUME NEW room \in DocumentId, NEW p \in Payload, Enqueue(room, p), p.room = room
      PROVE  \/ m \in expected[c]
             \/ Live(c) /\ currentRoom[c] = m.room /\ currentRoom[c] # NoRoom /\ Pending(m)'
  <2>1. expected'[c] = IF Live(c) /\ currentRoom[c] = room THEN expected[c] \cup {p}
                                                           ELSE expected[c]
    BY <1>1 DEF Enqueue
  <2>2. /\ Broadcast(room, p) \in RoomCommand /\ TrySendCommand(Broadcast(room, p))
        /\ Broadcast(room, p).message = p /\ Broadcast(room, p).op = "broadcast"
    BY <1>1 DEF Enqueue, Broadcast, RoomCommand, BroadcastCommand
  <2>3. /\ Len(cmds') = Len(cmds) + 1 /\ Len(cmds) \in Nat
        /\ \A i \in 1..Len(cmds') :
             IF i <= Len(cmds) THEN cmds'[i] = cmds[i] ELSE cmds'[i] = Broadcast(room, p)
    BY <2>2, CommandAppended, LenProperties DEF RoomsTypeOK
  <2>4. Len(cmds') \in 1..Len(cmds') /\ cmds'[Len(cmds')] = Broadcast(room, p)
    BY <2>3
  <2>5. Pending(p)'
    BY <2>2, <2>4 DEF Pending
  <2>6. room # NoRoom
    BY RoomsAssumption
  <2> QED BY <1>1, <2>1, <2>5, <2>6
<1> QED BY <1>1, Published

\* What is owed stays within the rooms of the session.
LEMMA OwedNext ==
  ASSUME TypeOK, MembershipInv, OwedInv, [Next]_vars
  PROVE  OwedInv'
<1>1. ASSUME NEW c \in ClientId, Live(c)', NEW m \in expected'[c]
      PROVE  c \in Members(m.room)'
  <2>1. Live(c)
    BY <1>1, LiveStays
  <2>2. c \in Members(m.room)
    BY <1>1, <2>1, ExpectedChange DEF OwedInv, MembershipInv, JoinedIsMember
  <2> QED BY <2>1, <2>2, MembersStay DEF MembershipInv
<1> QED BY <1>1 DEF OwedInv

\* In a step a session misses at most the payload that is being fanned out.
LEMMA MissingChange ==
  ASSUME TypeOK, [Next]_vars, NEW c \in ClientId, Live(c)', socket'[c] = "open",
         NEW m \in Missing(c)'
  PROVE  m \in Missing(c) \/ (HandleBroadcast /\ m = Head(cmds).message /\ m \in expected[c])
<1>1. m \in expected'[c] /\ m \notin Received(c)' /\ ~ Pending(m)'
  BY DEF Missing
<1>2. m \in expected[c]
  BY <1>1, ExpectedChange
<1>3. m \notin Received(c)
  BY <1>1, ReceivedStays
<1> QED BY <1>1, <1>2, <1>3, PendingStays DEF Missing

\* A fan-out that leaves a live member without the payload counts it.
LEMMA FanoutCounts ==
  ASSUME TypeOK, MembershipInv, OwedInv, [Next]_vars, HandleBroadcast,
         NEW c \in ClientId, Live(c), NEW m, m = Head(cmds).message, m \in expected[c],
         m \notin Received(c)'
  PROVE  fanoutDrops'[c] >= fanoutDrops[c] + 1
<1> RoomsTypeOK /\ TypeOK'
  BY TypeNext DEF TypeOK
<1>1. PICK room \in DocumentId : room = Head(cmds).room
  BY BroadcastRemoves
<1>2. m \in Payload /\ IsBroadcast(1) /\ Head(cmds) = cmds[1]
  BY BroadcastRemoves, BroadcastChange
<1>3. m.room = room
  BY <1>1, <1>2 DEF IsBroadcast, MembershipInv, BroadcastOrigin
<1>4. Entries(room, c) \in Nat /\ Entries(room, c) > 0 /\ rxOpen[c]
  BY <1>3 DEF OwedInv, Members, Live, RoomsTypeOK, Entries
<1>5. /\ outbox'[c] = Fanout(room, c, m)
      /\ outbox[c] \in Seq(ServerMessage) /\ Len(outbox[c]) \in Nat
  BY <1>1, LenProperties DEF HandleBroadcast, RoomsTypeOK
<1>6. /\ Accepted(room, c) \in Nat
      /\ Len(outbox'[c]) = Len(outbox[c]) + Accepted(room, c)
      /\ \A i \in 1..Len(outbox'[c]) :
           IF i <= Len(outbox[c]) THEN outbox'[c][i] = outbox[c][i] ELSE outbox'[c][i] = m
  BY <1>2, <1>5, FanoutType
<1>7. Accepted(room, c) = 0
  <2>1. SUFFICES ASSUME Accepted(room, c) > 0 PROVE FALSE
    BY <1>6
  <2>2. Len(outbox'[c]) \in 1..Len(outbox'[c]) /\ ~ (Len(outbox'[c]) <= Len(outbox[c]))
    BY <1>5, <1>6, <2>1
  <2>3. outbox'[c][Len(outbox'[c])] = m
    BY <1>6, <2>2
  <2>4. m \in Heard(c)'
    BY <2>2, <2>3, Zenon DEF Heard, Elems
  <2> QED BY <2>4, ReceivedIsHeardNext
<1>8. Dropped(room, c) = Entries(room, c)
  BY <1>4, <1>7 DEF Dropped
<1>9. fanoutDrops[c] \in Nat /\ fanoutDrops'[c] = fanoutDrops[c] + Dropped(room, c)
  BY <1>1, DropsChange
<1> QED BY <1>4, <1>8, <1>9

\* The counter keeps up with what is missing.
LEMMA CountedNext ==
  ASSUME TypeOK, MembershipInv, LossInv, [Next]_vars
  PROVE  CountedInv'
<1> USE DEF LossInv
<1>1. ASSUME NEW c \in ClientId, Live(c)', socket'[c] = "open"
      PROVE  IsFiniteSet(Missing(c)') /\ Cardinality(Missing(c)') <= fanoutDrops'[c]
  <2>1. PICK old, new : old = Missing(c) /\ new = Missing(c)'
    OBVIOUS
  <2>2. Live(c) /\ IsFiniteSet(old) /\ Cardinality(old) <= fanoutDrops[c]
    BY <1>1, <2>1, LiveStays, SocketStays DEF CountedInv
  <2>3. Cardinality(old) \in Nat
    BY <2>2, FS_CardinalityType
  <2>4. /\ fanoutDrops[c] \in Nat /\ fanoutDrops'[c] \in Nat
        /\ fanoutDrops[c] <= fanoutDrops'[c]
    BY DropsChange
  <2>5. CASE new \subseteq old
    <3>1. IsFiniteSet(new) /\ Cardinality(new) <= Cardinality(old)
      BY <2>2, <2>5, FS_Subset
    <3>2. Cardinality(new) \in Nat
      BY <3>1, FS_CardinalityType
    <3> QED BY <2>1, <2>2, <2>3, <2>4, <3>1, <3>2
  <2>6. CASE ~ (new \subseteq old)
    <3>1. PICK m \in new : m \notin old
      BY <2>6
    <3>2. HandleBroadcast /\ m = Head(cmds).message /\ m \in expected[c]
      BY <1>1, <2>1, <3>1, MissingChange
    <3>3. m \notin Received(c)'
      BY <2>1, <3>1 DEF Missing
    <3>4. fanoutDrops'[c] >= fanoutDrops[c] + 1
      BY <2>2, <3>2, <3>3, FanoutCounts
    <3>5. new \subseteq old \cup {m}
      BY <1>1, <2>1, <3>2, MissingChange
    <3>6. IsFiniteSet(old \cup {m}) /\ Cardinality(old \cup {m}) = Cardinality(old) + 1
      BY <2>2, <3>1, FS_AddElement
    <3>7. IsFiniteSet(new) /\ Cardinality(new) <= Cardinality(old \cup {m})
      BY <3>5, <3>6, FS_Subset
    <3>8. Cardinality(new) \in Nat
      BY <3>7, FS_CardinalityType
    <3> QED BY <2>1, <2>2, <2>3, <2>4, <3>4, <3>6, <3>7, <3>8
  <2> QED BY <2>5, <2>6
<1> QED BY <1>1 DEF CountedInv

\* Nothing is owed when the server starts.
LEMMA LossInit == Init => LossInv
<1> SUFFICES ASSUME Init PROVE LossInv
  OBVIOUS
<1>1. ASSUME NEW c \in ClientId PROVE expected[c] = {} /\ fanoutDrops[c] = 0
  BY DEF Init, RoomsInit
<1>2. ASSUME NEW c \in ClientId PROVE Missing(c) = {}
  BY <1>1 DEF Missing
<1> QED BY <1>1, <1>2, FS_EmptySet DEF LossInv, OwedInv, CountedInv

\* Every step keeps the whole invariant.
LEMMA LossNext == TypeOK /\ MembershipInv /\ LossInv /\ [Next]_vars => LossInv'
BY OwedNext, CountedNext DEF LossInv

\* No message or invalidation is lost between a successful broadcast_to_room and
\* an open socket but those the coordinator counted as drops of that session.
THEOREM LossesCorrect == Spec => []LossesAreCounted
<1>1. LossInv => LossesAreCounted
  BY DEF LossInv, CountedInv, LossesAreCounted
<1>2. Spec => []LossInv
  BY TypeInit, TypeNext, MembershipInit, MembershipNext, LossInit, LossNext, PTL DEF Spec
<1> QED BY <1>1, <1>2, PTL

-----------------------------------------------------------------------------
(* A clean disconnect.                                                     *)

\* The main task went by the branch of recv_task: that task had ended.
ByRecvTask(c) == mainTask[c] # "select" /\ sendTask[c] # "done"

\* no join of c is pending after the place i
NoJoinAfter(c, i) ==
  \A j \in 1..Len(cmds) : j > i => ~ (cmds[j].op = "join" /\ cmds[j].client = c)

\* the leave of c is on its way, later than every join of c, or has been handled
LeavePending(c, i) ==
  /\ i \in 1..Len(cmds)
  /\ cmds[i].op = "leave" /\ cmds[i].client = c /\ cmds[i].room = currentRoom[c]
  /\ NoJoinAfter(c, i)

HasLeft(c) == c \notin Members(currentRoom[c]) /\ NoJoinAfter(c, 0)

\* The inductive invariant.
DisconnectInv ==
  \A c \in ClientId :
    /\ mainTask[c] = "select" => sendTask[c] # "aborted"
    /\ ByRecvTask(c) => recvTask[c] = "done"
    /\ ByRecvTask(c) /\ mainTask[c] = "done" /\ cmdDrops[c] = 0 /\ currentRoom[c] # NoRoom
         => HasLeft(c) \/ \E i : LeavePending(c, i)

\* What a step may do to the tasks of a session.
LEMMA TasksChange ==
  ASSUME TypeOK, [Next]_vars, NEW c \in ClientId
  PROVE  /\ recvTask[c] = "done" => recvTask'[c] = "done"
         /\ sendTask[c] = "done" => sendTask'[c] = "done"
         /\ sendTask'[c] = "aborted" => sendTask[c] = "aborted" \/ mainTask'[c] # "select"
         /\ mainTask[c] # "select" => mainTask'[c] # "select"
         /\ cmdDrops[c] \in Nat /\ cmdDrops'[c] \in Nat /\ cmdDrops[c] <= cmdDrops'[c]
         /\ \/ UNCHANGED mainTask[c]
            \/ MainSelect(c) /\ mainTask'[c] = "leaving"
            \/ MainLeave(c) /\ mainTask'[c] = "done"
<1> DEFINE Tasks(d) == /\ recvTask[d] = "done" => recvTask'[d] = "done"
                       /\ sendTask[d] = "done" => sendTask'[d] = "done"
                       /\ sendTask'[d] = "aborted"
                            => sendTask[d] = "aborted" \/ mainTask[d] # "select"
           Drops(d) == cmdDrops'[d] \in {cmdDrops[d], cmdDrops[d] + 1}
           Main(d) == \/ UNCHANGED mainTask[d]
                      \/ MainSelect(d) /\ mainTask'[d] = "leaving"
                      \/ MainLeave(d) /\ mainTask'[d] = "done"
<1>0. /\ recvTask \in [ClientId -> {"next", "awaitAck", "done", "aborted"}]
      /\ sendTask \in [ClientId -> {"running", "done", "aborted"}]
      /\ mainTask \in [ClientId -> {"select", "leaving", "done"}]
      /\ cmdDrops \in [ClientId -> Nat]
  BY DEF TypeOK
<1>1. ASSUME UNCHANGED sessionVars PROVE Tasks(c) /\ Drops(c) /\ Main(c)
  BY <1>1 DEF sessionVars
<1>2. ASSUME CoordinatorStep PROVE Tasks(c) /\ Drops(c) /\ Main(c)
  BY <1>1, <1>2 DEF CoordinatorStep
<1>3. ASSUME NEW d \in ClientId, NEW room \in DocumentId,
             RecvJoin(d, room) \/ RecvSendMessageTo(d, room)
      PROVE  Tasks(c) /\ Drops(c) /\ Main(c)
  BY <1>0, <1>3 DEF RecvJoin, RecvSendMessageTo, PublishFrame, TakeFrame, CommandDropped
<1>4. ASSUME NEW d \in ClientId,
             AckJoin(d) \/ TimeoutJoin(d) \/ RecvSendMessage(d) \/ RecvInvalid(d)
      PROVE  Tasks(c) /\ Drops(c) /\ Main(c)
  BY <1>0, <1>4 DEF AckJoin, TimeoutJoin, EndJoin, RecvSendMessage, PublishFrame, RecvInvalid,
              TakeFrame, CommandDropped
<1>5. ASSUME NEW d \in ClientId, RecvEnd(d) \/ RecvAborted(d) \/ PeerClose(d)
      PROVE  Tasks(c) /\ Drops(c) /\ Main(c)
  BY <1>0, <1>5 DEF RecvEnd, RecvAborted, PeerClose
<1>6. ASSUME NEW d \in ClientId, SendDeliver(d) \/ SendFail(d) \/ SendAborted(d)
      PROVE  Tasks(c) /\ Drops(c) /\ Main(c)
  BY <1>0, <1>1, <1>6 DEF SendDeliver, SendFail, SendAborted, EndSendTask
<1>7. ASSUME NEW d \in ClientId, MainSelect(d)
      PROVE  Tasks(c) /\ Drops(c) /\ Main(c)
  BY <1>0, <1>7 DEF MainSelect
<1>8. ASSUME NEW d \in ClientId, MainLeave(d)
      PROVE  Tasks(c) /\ Drops(c) /\ Main(c)
  <2>1. Tasks(c)
    BY <1>0, <1>8 DEF MainLeave
  <2>2. UNCHANGED cmdDrops \/ cmdDrops' = [cmdDrops EXCEPT ![d] = @ + 1]
    BY <1>0, <1>8 DEF MainLeave
  <2>3. mainTask' = [mainTask EXCEPT ![d] = "done"]
    BY <1>0, <1>8 DEF MainLeave
  <2> QED BY <1>0, <1>8, <2>1, <2>2, <2>3
<1>9. ASSUME NEW room \in DocumentId, SendInvalidation(room)
      PROVE  Tasks(c) /\ Drops(c) /\ Main(c)
  BY <1>1, <1>9 DEF SendInvalidation
<1>10. ASSUME UNCHANGED vars PROVE Tasks(c) /\ Drops(c) /\ Main(c)
  BY <1>1, <1>10 DEF vars
<1> HIDE DEF Tasks, Drops, Main
<1>11. Tasks(c) /\ Drops(c) /\ Main(c)
  <2>1. CASE SessionsNext
    <3>1. CASE \E d \in ClientId, room \in DocumentId : RecvJoin(d, room) \/ RecvSendMessageTo(d, room)
      BY <1>3, <3>1, Zenon
    <3>2. CASE \E d \in ClientId :
                 \/ AckJoin(d) \/ TimeoutJoin(d) \/ RecvSendMessage(d) \/ RecvInvalid(d)
                 \/ RecvEnd(d) \/ RecvAborted(d)
                 \/ SendDeliver(d) \/ SendFail(d) \/ SendAborted(d)
                 \/ MainSelect(d) \/ MainLeave(d) \/ PeerClose(d)
      BY <1>4, <1>5, <1>6, <1>7, <1>8, <3>2
    <3> QED BY <2>1, <3>1, <3>2 DEF SessionsNext
  <2> QED BY <1>2, <1>9, <1>10, <2>1 DEF Next
<1>12. cmdDrops[c] \in Nat
  BY <1>0
<1>13. mainTask[c] # "select" => mainTask'[c] # "select"
  BY <1>11 DEF Main
<1> QED BY <1>11, <1>12, <1>13 DEF Tasks, Drops, Main

\* Once the recv_task has ended, the leave of its session goes through the
\* channel behind all its joins, and takes the client out of its last room.
LEMMA LeaveGoesThrough ==
  ASSUME TypeOK, [Next]_vars, NEW c \in ClientId,
         recvTask'[c] = "done", currentRoom'[c] = currentRoom[c],
         HasLeft(c) \/ \E i : LeavePending(c, i)
  PROVE  HasLeft(c)' \/ \E i : LeavePending(c, i)'
<1> RoomsTypeOK /\ TypeOK'
  BY TypeNext DEF TypeOK
<1>0. cmds \in Seq(RoomCommand) /\ Len(cmds) \in Nat
  BY LenProperties DEF RoomsTypeOK
<1>1. PICK room : room = currentRoom[c]
  OBVIOUS
<1>2. CASE rooms' = rooms /\ cmds' = cmds
  <2>1. Members(room)' = Members(room)
    BY <1>2 DEF Members, Entries
  <2> QED BY <1>1, <1>2, <2>1 DEF HasLeft, LeavePending, NoJoinAfter
<1>3. ASSUME rooms' = rooms, NEW cmd \in RoomCommand, TrySendCommand(cmd), Fresh(cmd)
      PROVE  HasLeft(c)' \/ \E i : LeavePending(c, i)'
  <2>1. Members(room)' = Members(room)
    BY <1>3 DEF Members, Entries
  <2>2. /\ Len(cmds') = Len(cmds) + 1
        /\ \A i \in 1..Len(cmds') :
             IF i <= Len(cmds) THEN cmds'[i] = cmds[i] ELSE cmds'[i] = cmd
    BY <1>3, CommandAppended
  <2>3. ~ (cmd.op = "join" /\ cmd.client = c)
    <3>1. joining'[c] # NoRoom <=> recvTask'[c] = "awaitAck"
      BY DEF TypeOK
    <3>2. cmd.room \in DocumentId
      BY <1>3, CommandFields
    <3>3. cmd.op = "join" => joining'[cmd.client] = cmd.room
      BY <1>3 DEF Fresh
    <3>4. NoRoom \notin DocumentId
      BY RoomsAssumption
    <3> QED BY <3>1, <3>2, <3>3, <3>4
  <2>4. ASSUME NEW i, NoJoinAfter(c, i) PROVE NoJoinAfter(c, i)'
    BY <1>0, <2>2, <2>3, <2>4 DEF NoJoinAfter
  <2>5. ASSUME NEW i, LeavePending(c, i) PROVE LeavePending(c, i)'
    <3>1. i \in 1..Len(cmds') /\ cmds'[i] = cmds[i]
      BY <1>0, <2>2, <2>5 DEF LeavePending
    <3> QED BY <2>4, <2>5, <3>1 DEF LeavePending
  <2>6. HasLeft(c) => HasLeft(c)'
    BY <1>1, <2>1, <2>4 DEF HasLeft
  <2> QED BY <2>5, <2>6
<1>4. CASE Coordinator
  <2>1. PICK cmd : cmd = Head(cmds)
    OBVIOUS
  <2>2. /\ cmd = cmds[1] /\ 1 \in 1..Len(cmds) /\ Len(cmds) = Len(cmds') + 1
        /\ Len(cmds') \in Nat
        /\ \A i \in 1..Len(cmds') : cmds'[i] = cmds[i + 1]
    BY <1>4, <2>1, CommandTaken, LenProperties
       DEF Coordinator, HandleJoin, HandleLeave, HandleBroadcast
  <2>3. ASSUME NEW i, i \in Nat, NoJoinAfter(c, i + 1) \/ NoJoinAfter(c, i)
        PROVE  NoJoinAfter(c, i)'
    <3>1. ASSUME NEW j \in 1..Len(cmds'), j > i
          PROVE  ~ (cmds'[j].op = "join" /\ cmds'[j].client = c)
      <4>1. /\ j + 1 \in 1..Len(cmds) /\ j + 1 > i /\ j + 1 > i + 1
            /\ cmds'[j] = cmds[j + 1]
        BY <1>0, <2>2, <2>3, <3>1
      <4> QED BY <2>3, <4>1 DEF NoJoinAfter
    <3> QED BY <3>1 DEF NoJoinAfter
  <2>4. /\ HandleJoin => cmd.op = "join" /\ \A r : Members(r)' =
             IF r = cmd.room THEN Members(r) \cup {cmd.client} ELSE Members(r)
        /\ HandleLeave => cmd.op = "leave" /\ \A r : Members(r)' =
             IF r = cmd.room THEN Members(r) \ {cmd.client} ELSE Members(r)
        /\ HandleBroadcast => cmd.op = "broadcast" /\ \A r : Members(r)' \subseteq Members(r)
    BY <2>1, JoinAdds, LeaveRemoves, BroadcastRemoves
  <2>5. ASSUME HasLeft(c) PROVE HasLeft(c)'
    <3>1. ~ (cmd.op = "join" /\ cmd.client = c)
      BY <2>2, <2>5 DEF HasLeft, NoJoinAfter
    <3>2. c \notin Members(room)'
      BY <1>1, <1>4, <2>4, <2>5, <3>1 DEF HasLeft, Coordinator
    <3>3. NoJoinAfter(c, 0)'
      BY <2>3, <2>5 DEF HasLeft
    <3> QED BY <1>1, <3>2, <3>3 DEF HasLeft
  <2>6. ASSUME LeavePending(c, 1) PROVE HasLeft(c)'
    <3>1. cmd.op = "leave" /\ cmd.client = c /\ cmd.room = room
      BY <1>1, <2>2, <2>6 DEF LeavePending
    <3>2. c \notin Members(room)'
      BY <1>4, <2>4, <3>1 DEF Coordinator
    <3>3. NoJoinAfter(c, 0)'
      BY <2>3, <2>6 DEF LeavePending
    <3> QED BY <1>1, <3>2, <3>3 DEF HasLeft
  <2>7. ASSUME NEW i, LeavePending(c, i), i # 1 PROVE \E k : LeavePending(c, k)'
    <3>1. PICK k : k = i - 1
      OBVIOUS
    <3>2. k \in 1..Len(cmds') /\ k \in Nat /\ k + 1 = i /\ cmds'[k] = cmds[i]
      BY <1>0, <2>2, <2>7, <3>1 DEF LeavePending
    <3>3. NoJoinAfter(c, k)'
      BY <2>3, <2>7, <3>2 DEF LeavePending
    <3>4. LeavePending(c, k)'
      BY <2>7, <3>2, <3>3 DEF LeavePending
    <3> QED BY <3>4
  <2> QED BY <2>5, <2>6, <2>7
<1> QED BY <1>2, <1>3, <1>4, CommandsChange, OnlyCoordinatorOwnsRooms DEF CoordinatorStep

\* Every step keeps the invariant.
LEMMA DisconnectNext ==
  ASSUME TypeOK, DisconnectInv, [Next]_vars
  PROVE  DisconnectInv'
<1> RoomsTypeOK
  BY DEF TypeOK
<1>1. ASSUME NEW c \in ClientId, mainTask'[c] = "select"
      PROVE  sendTask'[c] # "aborted"
  BY <1>1, TasksChange DEF DisconnectInv
<1>2. ASSUME NEW c \in ClientId, ByRecvTask(c)'
      PROVE  recvTask'[c] = "done" /\ (ByRecvTask(c) => recvTask[c] = "done")
  <2>1. sendTask[c] # "done" /\ mainTask'[c] # "select"
    BY <1>2, TasksChange DEF ByRecvTask
  <2>2. CASE ByRecvTask(c)
    BY <2>2, TasksChange DEF DisconnectInv
  <2>3. CASE mainTask[c] = "select"
    <3>1. MainSelect(c)
      BY <2>1, <2>3, TasksChange DEF MainLeave
    <3>2. recvTask[c] = "done"
      BY <2>1, <3>1 DEF MainSelect
    <3> QED BY <2>3, <3>2, TasksChange DEF ByRecvTask
  <2> QED BY <2>1, <2>2, <2>3 DEF ByRecvTask
<1>3. ASSUME NEW c \in ClientId, ByRecvTask(c)', mainTask'[c] = "done",
             cmdDrops'[c] = 0, currentRoom'[c] # NoRoom
      PROVE  HasLeft(c)' \/ \E i : LeavePending(c, i)'
  <2>1. cmdDrops[c] = 0 /\ sendTask[c] # "done" /\ recvTask'[c] = "done"
    <3>1. /\ cmdDrops[c] \in Nat /\ cmdDrops'[c] \in Nat /\ cmdDrops[c] <= cmdDrops'[c]
          /\ sendTask[c] = "done" => sendTask'[c] = "done"
      BY TasksChange
    <3>2. cmdDrops[c] = 0
      BY <1>3, <3>1
    <3> QED BY <1>2, <1>3, <3>1, <3>2 DEF ByRecvTask
  <2>2. CASE mainTask[c] = "done"
    <3>1. ByRecvTask(c) /\ recvTask[c] = "done"
      BY <1>2, <1>3, <2>1, <2>2 DEF ByRecvTask
    <3>2. currentRoom'[c] = currentRoom[c]
      BY <3>1, CurrentRoomChange DEF AckJoin
    <3>3. HasLeft(c) \/ \E i : LeavePending(c, i)
      BY <1>3, <2>1, <2>2, <3>1, <3>2 DEF DisconnectInv
    <3> QED BY <2>1, <3>2, <3>3, LeaveGoesThrough
  <2>3. CASE MainLeave(c)
    <3>1. currentRoom' = currentRoom /\ currentRoom[c] \in DocumentId
      BY <1>3, <2>3 DEF MainLeave, TypeOK
    <3>2. TrySendCommand(Leave(currentRoom[c], c))
      <4>1. cmdDrops' # [cmdDrops EXCEPT ![c] = @ + 1]
        BY <1>3, <2>1 DEF TypeOK
      <4> QED BY <1>3, <2>3, <3>1, <4>1 DEF MainLeave
    <3>3. PICK cmd \in RoomCommand :
            /\ cmd = Leave(currentRoom[c], c) /\ cmd.op = "leave" /\ cmd.client = c
            /\ cmd.room = currentRoom[c]
      <4>1. Leave(currentRoom[c], c) \in RoomCommand
        BY <3>1, MessagesTyped
      <4>2. /\ Leave(currentRoom[c], c).op = "leave" /\ Leave(currentRoom[c], c).client = c
            /\ Leave(currentRoom[c], c).room = currentRoom[c]
        BY DEF Leave
      <4> QED BY <4>1, <4>2, Zenon
    <3>4. /\ Len(cmds') = Len(cmds) + 1 /\ Len(cmds) \in Nat
          /\ \A i \in 1..Len(cmds') :
               IF i <= Len(cmds) THEN cmds'[i] = cmds[i] ELSE cmds'[i] = cmd
      BY <3>2, <3>3, CommandAppended, LenProperties DEF RoomsTypeOK
    <3>5. PICK k : k = Len(cmds')
      OBVIOUS
    <3>6. k \in 1..Len(cmds') /\ cmds'[k] = cmd
      BY <3>4, <3>5
    <3>7. NoJoinAfter(c, k)'
      BY <3>4, <3>5 DEF NoJoinAfter
    <3>8. LeavePending(c, k)'
      BY <3>1, <3>3, <3>6, <3>7 DEF LeavePending
    <3> QED BY <3>8
  <2> QED BY <1>3, <2>2, <2>3, TasksChange
<1> QED BY <1>1, <1>2, <1>3 DEF DisconnectInv

\* A session whose recv_task ended, that dropped no command and has nothing
\* pending is out of its last room, however often it had joined it.
THEOREM DisconnectCorrect == Spec => []CleanDisconnectLeavesRoom
<1>1. Init => DisconnectInv
  BY DEF Init, DisconnectInv, ByRecvTask
<1>2. TypeOK /\ DisconnectInv => CleanDisconnectLeavesRoom
  <2> SUFFICES ASSUME TypeOK, DisconnectInv, NEW c \in ClientId, mainTask[c] = "done",
                      sendTask[c] = "aborted", cmdDrops[c] = 0, ~ PendingOf(c),
                      currentRoom[c] # NoRoom
               PROVE  c \notin Members(currentRoom[c])
    BY DEF CleanDisconnectLeavesRoom
  <2>1. HasLeft(c) \/ \E i : LeavePending(c, i)
    BY DEF DisconnectInv, ByRecvTask
  <2>2. ASSUME NEW i, LeavePending(c, i) PROVE FALSE
    BY <2>2 DEF LeavePending, PendingOf
  <2> QED BY <2>1, <2>2 DEF HasLeft
<1> QED BY <1>1, <1>2, TypeInit, TypeNext, DisconnectNext, PTL DEF Spec

=============================================================================
