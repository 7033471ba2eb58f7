---------------------------- MODULE LoadTestProofs ----------------------------
(***************************************************************************)
(* The load test client, for every number of subscribers and messages: the *)
(* server is blamed for no loss that it did not count.                     *)
(***************************************************************************)
EXTENDS LoadTest, SequenceTheorems, FiniteSetTheorems, TLAPS

\* the subscribers past their join
Past == {s \in Subscriber : sub[s] # "joining"}

flow == <<sent, measured, toServer, toSub, fanDrops>>

\* There are no more of them than subscribers, and as many only if all are.
LEMMA SubsetBound ==
  ASSUME NEW S \in SUBSET Subscriber
  PROVE  /\ IsFiniteSet(S) /\ Cardinality(S) \in Nat
         /\ Cardinality(Subscriber) \in Nat
         /\ Cardinality(S) <= Cardinality(Subscriber)
         /\ Cardinality(S) = Cardinality(Subscriber) => S = Subscriber
  BY LoadTestAssumption, FS_Subset, FS_CardinalityType

LEMMA PastBound ==
  /\ IsFiniteSet(Past) /\ Cardinality(Past) \in Nat
  /\ Cardinality(Subscriber) \in Nat
  /\ Cardinality(Past) <= Cardinality(Subscriber)
  /\ Cardinality(Past) = Cardinality(Subscriber) => Past = Subscriber
<1>1. Past \in SUBSET Subscriber
  BY DEF Past
<1> HIDE DEF Past
<1> QED BY <1>1, SubsetBound

\* One subscriber more is one more of them.
LEMMA OneMore ==
  ASSUME NEW S \in SUBSET Subscriber, NEW s \in Subscriber, s \notin S
  PROVE  Cardinality(S \cup {s}) = Cardinality(S) + 1
  BY SubsetBound, FS_AddElement

\* One task that is past its join is one more of them.
LEMMA PastGrows ==
  ASSUME NEW s \in Subscriber, sub[s] = "joining", NEW p, p # "joining",
         sub \in [Subscriber -> {"joining", "waiting", "measuring", "done", "failed"}],
         sub' = [sub EXCEPT ![s] = p]
  PROVE  Cardinality(Past') = Cardinality(Past) + 1
<1>1. Past' = Past \cup {s} /\ s \notin Past /\ Past \in SUBSET Subscriber
  BY DEF Past
<1> QED BY <1>1, OneMore

\* The sessions the server is done with are finitely many.
LEMMA EndedBound == Cardinality(Ended) \in Nat /\ Cardinality(Ended') \in Nat
<1>1. Ended \in SUBSET Subscriber /\ Ended' \in SUBSET Subscriber
  BY DEF Ended
<1> HIDE DEF Ended
<1> QED BY <1>1, SubsetBound

\* A number that is accounted for stays so when more is dropped.
LEMMA StillCounted ==
  ASSUME NEW n \in Int, NEW got \in Int, NEW i \in Int, NEW cmd \in Int, NEW fan \in Int,
         n + 1 <= got + i + cmd + fan
  PROVE  /\ n + 1 <= got + i + (cmd + 1) + fan
         /\ \A more \in Int : fan <= more => n + 1 <= got + i + cmd + more
  OBVIOUS

\* The numbers and the counts are about what flows, whoever moves and whatever
\* else is dropped.
LEMMA FlowStays ==
  ASSUME TypeOK, InOrder, Accounted, UNCHANGED flow, cmdDrops' \in {cmdDrops, cmdDrops + 1}
  PROVE  InOrder' /\ Accounted'
<1>1. InOrder'
  BY DEF InOrder, Taken, flow, measured
<1>2. ASSUME NEW s \in Subscriber
      PROVE  /\ lastSeq[s] \in Int /\ received[s] \in Int /\ fanDrops[s] \in Int
             /\ cmdDrops \in Int
             /\ \A i \in 1..Len(toSub[s]) : i \in Int /\ toSub[s][i] \in Int
  BY DEF TypeOK, None
<1>3. ASSUME NEW s \in Subscriber
      PROVE  /\ lastSeq[s] + 1 <= received[s] + cmdDrops' + fanDrops[s]
             /\ seqGaps[s] + received[s] <= lastSeq[s] + 1
  BY <1>2 DEF Accounted
<1>4. ASSUME NEW s \in Subscriber, NEW i \in 1..Len(toSub[s])
      PROVE  toSub[s][i] + 1 <= received[s] + i + cmdDrops' + fanDrops[s]
  <2>1. toSub[s][i] + 1 <= received[s] + i + cmdDrops + fanDrops[s]
    BY DEF Accounted
  <2>2. /\ toSub[s][i] \in Int /\ received[s] \in Int /\ cmdDrops \in Int
        /\ fanDrops[s] \in Int /\ i \in Int
    BY <1>2
  <2> QED BY <2>1, <2>2, StillCounted
<1>5. Accounted'
  BY <1>3, <1>4 DEF Accounted, flow, measured
<1> QED BY <1>1, <1>5

\* Of the rest, as long as nothing flows: a Join or a Leave dropped is paid for
\* by a session the server is done with.
LEMMA SessionsMove ==
  ASSUME LoadInv, UNCHANGED flow, NoProducer' = NoProducer,
         producer' = "ticking" => producer = "ticking",
         connected' \subseteq connected \/ NoProducer,
         \/ cmdDrops' = cmdDrops /\ Cardinality(Ended) <= Cardinality(Ended')
         \/ cmdDrops' = cmdDrops + 1 /\ Cardinality(Ended) + 1 <= Cardinality(Ended')
  PROVE  Quiet' /\ InOrder' /\ Accounted' /\ LossesExplained'
<1>1. TypeOK /\ InOrder /\ Accounted /\ cmdDrops' \in {cmdDrops, cmdDrops + 1}
  BY DEF LoadInv
<1>2. InOrder' /\ Accounted'
  BY <1>1, FlowStays
<1>3. Cardinality(Ended) \in Nat /\ Cardinality(Ended') \in Nat /\ cmdDrops \in Nat
  BY <1>1, EndedBound DEF TypeOK
<1> HIDE DEF Ended
<1>4. Quiet'
  <2>1. NoProducer => cmdDrops' <= Cardinality(Ended')
    BY <1>3 DEF LoadInv, Quiet
  <2> QED BY <2>1 DEF LoadInv, Quiet, flow, measured
<1>5. LossesExplained'
  <2>1. ASSUME NEW s \in connected', ~ NoProducer
        PROVE  /\ Missed(s)' <= Counted(s)'
               /\ Counted(s)' <= Missed(s)' + Cardinality(Ended')
    <3>1. s \in connected /\ s \in Subscriber
      BY <1>1, <2>1 DEF TypeOK
    <3>2. Missed(s)' = Missed(s) /\ Missed(s) \in Int
      <4>1. sent \in Int /\ Len(toServer) \in Int /\ received[s] \in Int /\ Len(toSub[s]) \in Int
        BY <1>1, <3>1 DEF TypeOK
      <4> QED BY <4>1 DEF Missed, Reached, Taken, flow, measured
    <3>3. /\ Counted(s)' - Counted(s) = cmdDrops' - cmdDrops
          /\ Counted(s) \in Int /\ Counted(s)' \in Int
      <4>1. fanDrops[s] \in Nat /\ fanDrops'[s] = fanDrops[s]
        BY <1>1, <3>1 DEF TypeOK, flow
      <4> QED BY <1>1, <1>3, <4>1 DEF Counted
    <3>4. Missed(s) <= Counted(s) /\ Counted(s) <= Missed(s) + Cardinality(Ended)
      BY <2>1, <3>1 DEF LoadInv, LossesExplained
    <3> QED BY <1>3, <3>2, <3>3, <3>4
  <2> QED BY <2>1 DEF LossesExplained
<1> QED BY <1>2, <1>4, <1>5

\* Before there is a producer nothing flows.
LEMMA NothingFlows ==
  ASSUME LoadInv, NoProducer
  PROVE  /\ sent = 0 /\ Len(toServer) = 0 /\ Taken = 0
         /\ cmdDrops \in Nat /\ cmdDrops <= Cardinality(Ended)
         /\ \A s \in Subscriber : /\ received[s] = 0 /\ fanDrops[s] = 0
                                  /\ toSub[s] = <<>> /\ Len(toSub[s]) = 0
<1>1. sent = 0 /\ cmdDrops \in Nat /\ cmdDrops <= Cardinality(Ended)
  BY DEF LoadInv, Quiet, TypeOK
<1>2. Len(toServer) = 0
  BY <1>1 DEF LoadInv, InOrder, TypeOK
<1>3. ASSUME NEW s \in Subscriber
      PROVE  received[s] = 0 /\ fanDrops[s] = 0 /\ toSub[s] = <<>> /\ Len(toSub[s]) = 0
  BY DEF LoadInv, Quiet
<1> QED BY <1>1, <1>2, <1>3 DEF Taken

-----------------------------------------------------------------------------
(* The subscribers.                                                        *)

LEMMA InitInv == Init => LoadInv
<1> SUFFICES ASSUME Init PROVE LoadInv
  OBVIOUS
<1>1. TypeOK
  BY PastBound, LoadTestAssumption DEF Init, TypeOK, None
<1>2. Cardinality(Past) \in Nat /\ Past = {s \in Subscriber : sub[s] # "joining"}
  BY PastBound DEF Past
<1>3. Barrier
  BY <1>2 DEF Init, Barrier
<1>4. Quiet
  <2>1. Cardinality(Ended) \in Nat
    BY EndedBound
  <2> HIDE DEF Ended
  <2> QED BY <2>1 DEF Init, Quiet, NoProducer
<1>5. InOrder
  BY DEF Init, InOrder, Taken, None
<1>6. Accounted /\ LossesExplained
  BY DEF Init, Accounted, LossesExplained, None
<1> QED BY <1>1, <1>3, <1>4, <1>5, <1>6 DEF LoadInv

\* A join, answered or not, comes before the start.
LEMMA JoinInv ==
  ASSUME LoadInv, NEW s \in Subscriber, JoinStep(s)
  PROVE  LoadInv'
<1>1. /\ TypeOK /\ sub[s] = "joining" /\ clock = "before" /\ producer = "idle"
      /\ s \notin served /\ UNCHANGED flow
  BY DEF LoadInv, Barrier, JoinStep, AckJoin, FailJoin, flow, measured
<1>2. UNCHANGED <<main, arrived, clock, producer, sent, received, seqGaps, lastSeq, toServer,
                  toSub, fanDrops>>
  BY DEF JoinStep, AckJoin, FailJoin, barrierVars, measured
<1>3. PICK p \in {"waiting", "done", "failed"} : sub' = [sub EXCEPT ![s] = p]
  BY DEF JoinStep, AckJoin, FailJoin
<1>4. /\ joinedMsgs' \in {joinedMsgs, joinedMsgs + 1}
      /\ connected' \subseteq served' /\ served' \in {served, served \cup {s}}
      /\ cmdDrops' = cmdDrops \/ (cmdDrops' = cmdDrops + 1 /\ served' = served)
  BY <1>1 DEF JoinStep, AckJoin, FailJoin, barrierVars, TypeOK
<1>5. Cardinality(Past') = Cardinality(Past) + 1
  BY <1>1, <1>3, PastGrows DEF TypeOK
<1>6. /\ IsFiniteSet(Past') /\ Cardinality(Past') <= Cardinality(Subscriber)
  <2>1. Past' \subseteq Subscriber
    BY DEF Past
  <2> HIDE DEF Past
  <2> QED BY <2>1, LoadTestAssumption, FS_Subset
<1>7. arrived' + joinedMsgs' <= Cardinality(Past')
  BY <1>1, <1>2, <1>4, <1>5, PastBound DEF LoadInv, Barrier, Past, TypeOK
<1>8. TypeOK'
  <2>1. joinedMsgs' \in 0..Cardinality(Subscriber)
    BY <1>1, <1>2, <1>4, <1>6, <1>7, PastBound, <1>5 DEF TypeOK
  <2>2. cmdDrops' \in Nat
    BY <1>1, <1>4 DEF TypeOK
  <2> QED BY <1>1, <1>2, <1>3, <1>4, <2>1, <2>2 DEF TypeOK
<1>9. Barrier'
  BY <1>1, <1>2, <1>3, <1>4, <1>7 DEF LoadInv, Barrier, Past, TypeOK
<1>10. \/ cmdDrops' = cmdDrops /\ Cardinality(Ended) <= Cardinality(Ended')
       \/ cmdDrops' = cmdDrops + 1 /\ Cardinality(Ended) + 1 <= Cardinality(Ended')
  <2>1. s \notin Ended /\ Ended \in SUBSET Subscriber /\ Ended' \in {Ended, Ended \cup {s}}
    BY <1>1, <1>3, <1>4 DEF Ended, TypeOK
  <2>2. served' = served => Ended' = Ended \cup {s}
    BY <1>1, <1>3 DEF Ended, TypeOK
  <2>3. Cardinality(Ended \cup {s}) = Cardinality(Ended) + 1 /\ Cardinality(Ended) \in Nat
    BY <2>1, OneMore, EndedBound
  <2> HIDE DEF Ended
  <2>4. CASE Ended' = Ended \cup {s}
    <3>1. Cardinality(Ended') = Cardinality(Ended) + 1
      BY <2>3, <2>4
    <3> QED BY <1>4, <2>3, <3>1
  <2>5. CASE Ended' # Ended \cup {s}
    <3>1. Ended' = Ended /\ cmdDrops' = cmdDrops
      BY <1>4, <2>1, <2>2, <2>5
    <3> QED BY <2>3, <3>1
  <2> QED BY <2>4, <2>5
<1>11. NoProducer /\ NoProducer' /\ producer' # "ticking"
  BY <1>1, <1>2 DEF NoProducer
<1>12. Quiet' /\ InOrder' /\ Accounted' /\ LossesExplained'
  BY <1>1, <1>10, <1>11, SessionsMove
<1> QED BY <1>8, <1>9, <1>12 DEF LoadInv

\* A task that begins or ends its measurement takes nothing with it.
LEMMA TaskInv ==
  ASSUME LoadInv, NEW s \in Subscriber, Begin(s) \/ DrainEnd(s) \/ StreamEnd(s)
  PROVE  LoadInv'
<1>1. PICK p \in {"measuring", "done"} : sub' = [sub EXCEPT ![s] = p]
  BY DEF Begin, DrainEnd, StreamEnd
<1>2. /\ sub[s] # "joining"
      /\ UNCHANGED <<main, arrived, joinedMsgs, clock, producer, sent, connected, served,
                     cmdDrops>>
      /\ UNCHANGED flow
  BY DEF Begin, DrainEnd, StreamEnd, barrierVars, measured, serverVars, flow
<1>3. Past' = Past /\ Ended' = Ended
  BY <1>1, <1>2 DEF Past, Ended, LoadInv, TypeOK
<1>4. TypeOK'
  BY <1>1, <1>2 DEF LoadInv, TypeOK, flow, measured
<1>5. Barrier'
  BY <1>1, <1>2, <1>3 DEF LoadInv, Barrier, TypeOK, Past
<1>6. NoProducer' = NoProducer /\ Cardinality(Ended) <= Cardinality(Ended')
  BY <1>2, <1>3, EndedBound DEF NoProducer
<1>7. Quiet' /\ InOrder' /\ Accounted' /\ LossesExplained'
  BY <1>2, <1>6, SessionsMove
<1> QED BY <1>4, <1>5, <1>7 DEF LoadInv

\* A connection that is gone is nothing to explain any more, and the session
\* the server is done with pays for its Leave.
LEMMA SessionEndInv ==
  ASSUME LoadInv, NEW s \in Subscriber, Disconnect(s) \/ EndSession(s)
  PROVE  LoadInv'
<1>1. /\ UNCHANGED <<main, arrived, joinedMsgs, clock, producer, sub>> /\ UNCHANGED flow
      /\ connected' \subseteq connected /\ served' \subseteq served
      /\ connected' \subseteq served' /\ cmdDrops' \in Nat
  BY DEF Disconnect, EndSession, barrierVars, flow, measured, LoadInv, TypeOK
<1>2. TypeOK'
  BY <1>1 DEF LoadInv, TypeOK, flow, measured
<1>3. Barrier'
  BY <1>1 DEF LoadInv, Barrier
<1>4. NoProducer' = NoProducer
  BY <1>1 DEF NoProducer
<1>5. CASE Disconnect(s)
  <2>1. Ended' = Ended /\ cmdDrops' = cmdDrops
    BY <1>1, <1>5 DEF Disconnect, Ended
  <2>2. Cardinality(Ended) <= Cardinality(Ended')
    BY <2>1, EndedBound
  <2>3. Quiet' /\ InOrder' /\ Accounted' /\ LossesExplained'
    BY <1>1, <1>4, <2>1, <2>2, SessionsMove
  <2> QED BY <1>2, <1>3, <2>3 DEF LoadInv
<1>6. CASE EndSession(s)
  <2>1. /\ Ended' = Ended \cup {s} /\ s \notin Ended /\ Ended \in SUBSET Subscriber
    BY <1>1, <1>6 DEF EndSession, Ended, LoadInv, Barrier
  <2>2. Cardinality(Ended') = Cardinality(Ended) + 1 /\ Cardinality(Ended) \in Nat
    BY <2>1, OneMore, EndedBound
  <2>3. cmdDrops' \in {cmdDrops, cmdDrops + 1}
    BY <1>6 DEF EndSession
  <2>4. \/ cmdDrops' = cmdDrops /\ Cardinality(Ended) <= Cardinality(Ended')
        \/ cmdDrops' = cmdDrops + 1 /\ Cardinality(Ended) + 1 <= Cardinality(Ended')
    <3> HIDE DEF Ended
    <3> QED BY <2>2, <2>3
  <2>5. Quiet' /\ InOrder' /\ Accounted' /\ LossesExplained'
    BY <1>1, <1>4, <2>4, SessionsMove
  <2> QED BY <1>2, <1>3, <2>5 DEF LoadInv
<1> QED BY <1>5, <1>6

\* A gap is what is between the two numbers, and the messages received so far
\* are none of it.
LEMMA GapBound ==
  ASSUME NEW gaps \in Nat, NEW got \in Nat, NEW prev \in Int, NEW seq \in Nat,
         prev = None \/ prev \in Nat, prev < seq, gaps + got <= prev + 1
  PROVE  LET g == IF prev # None /\ seq > prev + 1 THEN gaps + seq - prev - 1 ELSE gaps
         IN  g \in Nat /\ g + got + 1 <= seq + 1
  BY DEF None

\* The next number is larger than the last one, and what is between the two
\* was dropped and counted before the number was sent on.
LEMMA ReceiveInv ==
  ASSUME LoadInv, NEW s \in Subscriber, Receive(s)
  PROVE  LoadInv'
<1> DEFINE seq == Head(toSub[s])
           prev == lastSeq[s]
           g == IF prev # None /\ seq > prev + 1 THEN seqGaps[s] + seq - prev - 1
                ELSE seqGaps[s]
<1>1. TypeOK
  BY DEF LoadInv
<1>2. /\ toSub[s] \in Seq(Nat) /\ toSub[s] # <<>> /\ Len(toSub[s]) \in Nat
      /\ Len(toSub[s]) > 0 /\ seq = toSub[s][1] /\ seq \in Nat
  <2>1. toSub[s] \in Seq(Nat) /\ toSub[s] # <<>>
    BY <1>1 DEF Receive, TypeOK
  <2> QED BY <2>1, HeadTailProperties
<1>3. /\ toSub' = [toSub EXCEPT ![s] = Tail(@)]
      /\ Tail(toSub[s]) \in Seq(Nat) /\ Len(Tail(toSub[s])) = Len(toSub[s]) - 1
      /\ \A i \in 1..Len(toSub[s]) - 1 : Tail(toSub[s])[i] = toSub[s][i + 1]
  BY <1>2, HeadTailProperties DEF Receive
<1>4. /\ received' = [received EXCEPT ![s] = @ + 1]
      /\ lastSeq' = [lastSeq EXCEPT ![s] = seq]
      /\ UNCHANGED <<main, arrived, joinedMsgs, clock, producer, sent, sub, toServer,
                     connected, served, cmdDrops, fanDrops>>
  BY DEF Receive, barrierVars
<1>5. seqGaps' = [seqGaps EXCEPT ![s] = g]
  <2>1. CASE prev # None /\ seq > prev + 1
    BY <2>1 DEF Receive
  <2>2. CASE ~ (prev # None /\ seq > prev + 1)
    BY <1>1, <2>2 DEF Receive, TypeOK
  <2> QED BY <2>1, <2>2
<1>6. /\ prev < seq /\ seq < Taken /\ Taken \in Int /\ Taken <= sent
      /\ seq + 1 <= received[s] + 1 + cmdDrops + fanDrops[s]
      /\ seqGaps[s] + received[s] <= prev + 1
  <2>1. 1 \in 1..Len(toSub[s])
    BY <1>2
  <2>2. /\ prev < seq /\ seq < Taken /\ Len(toServer) <= sent
    BY <1>2, <2>1 DEF LoadInv, InOrder
  <2>3. Len(toServer) \in Nat /\ sent \in Nat
    BY <1>1, LoadTestAssumption DEF TypeOK
  <2>4. Taken \in Int /\ Taken <= sent
    BY <2>2, <2>3 DEF Taken
  <2> QED BY <1>2, <2>1, <2>2, <2>4 DEF LoadInv, Accounted
<1>7. g \in Nat /\ g + received[s] + 1 <= seq + 1
  <2>1. /\ seqGaps[s] \in Nat /\ received[s] \in Nat /\ prev \in Int
        /\ prev = None \/ prev \in Nat
    BY <1>1, LoadTestAssumption DEF TypeOK, None
  <2>2. seq \in Nat /\ prev < seq /\ seqGaps[s] + received[s] <= prev + 1
    BY <1>2, <1>6
  <2> HIDE DEF seq, prev
  <2> QED BY <2>1, <2>2, GapBound
<1>8. TypeOK'
  <2>1. /\ received[s] \in Nat /\ sent <= MaxSent /\ sent \in Nat
    BY <1>1, LoadTestAssumption DEF TypeOK
  <2>2. /\ g \in 0..MaxSent /\ received[s] + 1 \in 0..MaxSent /\ seq \in None..MaxSent
    <3>1. seq \in Nat /\ seq < sent
      BY <1>2, <1>6, <2>1
    <3>2. g + received[s] + 1 <= sent
      <4> HIDE DEF g, seq
      <4> QED BY <1>7, <2>1, <3>1
    <3> HIDE DEF g, seq
    <3> QED BY <1>7, <2>1, <3>1, <3>2, LoadTestAssumption DEF None
  <2> HIDE DEF g, seq
  <2> QED BY <1>1, <1>3, <1>4, <1>5, <2>2 DEF TypeOK
<1>9. Barrier'
  BY <1>4 DEF LoadInv, Barrier
<1>10. Quiet'
  BY <1>2, <1>4 DEF LoadInv, Quiet, NoProducer
<1>11. InOrder'
  <2>1. Taken' = Taken /\ UNCHANGED <<sent, toServer>>
    BY <1>4 DEF Taken
  <2>2. ASSUME NEW t \in Subscriber
        PROVE  /\ lastSeq'[t] < Taken
               /\ \A i \in 1..Len(toSub'[t]) :
                    /\ lastSeq'[t] < toSub'[t][i] /\ toSub'[t][i] < Taken
                    /\ \A j \in 1..i - 1 : toSub'[t][j] < toSub'[t][i]
    <3>1. CASE t # s
      BY <3>1, <1>1, <1>3, <1>4 DEF LoadInv, InOrder, TypeOK
    <3>2. CASE t = s
      <4>1. lastSeq'[s] = toSub[s][1] /\ toSub'[s] = Tail(toSub[s])
        BY <1>1, <1>2, <1>3, <1>4 DEF TypeOK
      <4>2. ASSUME NEW i \in 1..Len(toSub'[s])
            PROVE  /\ lastSeq'[s] < toSub'[s][i] /\ toSub'[s][i] < Taken
                   /\ \A j \in 1..i - 1 : toSub'[s][j] < toSub'[s][i]
        <5>1. i + 1 \in 1..Len(toSub[s]) /\ toSub'[s][i] = toSub[s][i + 1]
          BY <4>1, <1>2, <1>3
        <5>2. toSub[s][i + 1] < Taken
              /\ \A j \in 1..(i + 1) - 1 : toSub[s][j] < toSub[s][i + 1]
          BY <5>1 DEF LoadInv, InOrder
        <5>3. ASSUME NEW j \in 1..i - 1 PROVE toSub'[s][j] < toSub'[s][i]
          <6>1. j + 1 \in 1..(i + 1) - 1 /\ toSub'[s][j] = toSub[s][j + 1]
            BY <4>1, <1>2, <1>3, <5>1
          <6> QED BY <5>1, <5>2, <6>1
        <5>4. 1 \in 1..(i + 1) - 1
          OBVIOUS
        <5> QED BY <4>1, <5>1, <5>2, <5>3, <5>4
      <4> QED BY <3>2, <4>1, <4>2, <1>2, <1>6
    <3> QED BY <3>1, <3>2
  <2> QED BY <2>1, <2>2 DEF LoadInv, InOrder
<1>12. Accounted'
  <2>1. ASSUME NEW t \in Subscriber
        PROVE  /\ lastSeq'[t] + 1 <= received'[t] + cmdDrops + fanDrops[t]
               /\ \A i \in 1..Len(toSub'[t]) :
                    toSub'[t][i] + 1 <= received'[t] + i + cmdDrops + fanDrops[t]
               /\ seqGaps'[t] + received'[t] <= lastSeq'[t] + 1
    <3>1. CASE t # s
      BY <3>1, <1>1, <1>3, <1>4, <1>5 DEF LoadInv, Accounted, TypeOK
    <3>2. CASE t = s
      <4>1. /\ lastSeq'[s] = seq /\ received'[s] = received[s] + 1 /\ seqGaps'[s] = g
            /\ toSub'[s] = Tail(toSub[s])
        BY <1>1, <1>2, <1>3, <1>4, <1>5 DEF TypeOK
      <4>2. ASSUME NEW i \in 1..Len(toSub'[s])
            PROVE  toSub'[s][i] + 1 <= received'[s] + i + cmdDrops + fanDrops[s]
        <5>1. i + 1 \in 1..Len(toSub[s]) /\ toSub'[s][i] = toSub[s][i + 1]
          BY <4>1, <1>2, <1>3
        <5>2. toSub[s][i + 1] + 1 <= received[s] + (i + 1) + cmdDrops + fanDrops[s]
          BY <5>1 DEF LoadInv, Accounted
        <5> QED BY <4>1, <5>1, <5>2, <1>1 DEF TypeOK
      <4>3. /\ received[s] \in Nat /\ cmdDrops \in Nat /\ fanDrops[s] \in Nat
        BY <1>1 DEF TypeOK
      <4>4. /\ lastSeq'[s] + 1 <= received'[s] + cmdDrops + fanDrops[s]
            /\ seqGaps'[s] + received'[s] <= lastSeq'[s] + 1
        <5> HIDE DEF g, seq
        <5> QED BY <4>1, <4>3, <1>2, <1>6, <1>7
      <4> QED BY <3>2, <4>2, <4>4
    <3> QED BY <3>1, <3>2
  <2> QED BY <2>1, <1>4 DEF Accounted
<1>13. LossesExplained'
  <2>1. ASSUME NEW r \in connected PROVE Missed(r)' = Missed(r) /\ Counted(r)' = Counted(r)
    <3>1. r \in Subscriber
      BY <1>1 DEF TypeOK
    <3>2. Reached(r)' = Reached(r)
      BY <1>1, <1>2, <1>3, <1>4, <3>1 DEF TypeOK, Reached
    <3>3. Taken' = Taken
      BY <1>4 DEF Taken
    <3> QED BY <1>4, <3>2, <3>3 DEF Missed, Counted
  <2>2. Ended' = Ended /\ NoProducer' = NoProducer
    BY <1>4 DEF Ended, NoProducer
  <2> HIDE DEF seq, prev, g
  <2> QED BY <1>4, <2>1, <2>2 DEF LoadInv, LossesExplained
<1> QED BY <1>8, <1>9, <1>10, <1>11, <1>12, <1>13 DEF LoadInv

-----------------------------------------------------------------------------
(* The producer, main, the clock and the server.                           *)

\* The producer's next number is the next one to the server.
LEMMA ProduceInv ==
  ASSUME LoadInv, Produce \/ ProducerConnect \/ ProducerBreak
  PROVE  LoadInv'
<1>1. /\ TypeOK /\ Len(toServer) \in Nat /\ sent \in Nat
      /\ clock \in {"before", "running", "ended", "drained"}
  BY LoadTestAssumption DEF LoadInv, TypeOK
<1>2. UNCHANGED <<main, arrived, joinedMsgs, clock, sub, received, seqGaps, lastSeq, toSub,
                  connected, served, cmdDrops, fanDrops>>
  BY DEF Produce, ProducerLoop, ProducerSend, ProducerConnect, ProducerBreak, barrierVars,
         measured, serverVars
<1>3. /\ producer \in {"connecting", "looping", "ticking"}
      /\ producer' \in {"looping", "ticking", "finished", "failed"}
      /\ clock # "before"
  BY DEF Produce, ProducerLoop, ProducerSend, ProducerConnect, ProducerBreak, LoadInv, Barrier
<1>4. Barrier'
  BY <1>2, <1>3 DEF LoadInv, Barrier
<1>0. Ended' = Ended /\ Cardinality(Ended) \in Nat
  BY <1>2, EndedBound DEF Ended
<1>5. CASE UNCHANGED <<sent, toServer>>
  <2>1. producer' = "ticking" => sent < MaxSent
    BY <1>1, <1>5 DEF Produce, ProducerLoop, ProducerSend, ProducerConnect, ProducerBreak
  <2>2. TypeOK'
    BY <1>1, <1>2, <1>3, <1>5 DEF TypeOK
  <2>3. InOrder' /\ Accounted'
    BY <1>1, <1>2, <1>5, FlowStays DEF LoadInv, flow, measured
  <2>4. Quiet'
    <3>1. NoProducer' => NoProducer
      BY <1>3 DEF Produce, ProducerLoop, ProducerSend, ProducerConnect, ProducerBreak,
                  NoProducer
    <3> QED BY <1>0, <1>2, <1>5, <2>1, <3>1 DEF LoadInv, Quiet
  <2>5. LossesExplained'
    <3> SUFFICES ASSUME NEW s \in connected, ~ NoProducer'
                 PROVE  /\ Missed(s)' <= Counted(s)'
                        /\ Counted(s)' <= Missed(s)' + Cardinality(Ended')
      BY <1>2 DEF LossesExplained
    <3>1. Missed(s)' = Missed(s) /\ Counted(s)' = Counted(s)
      BY <1>2, <1>5 DEF Missed, Reached, Taken, Counted
    <3>2. CASE NoProducer
      <4>1. s \in Subscriber
        BY <1>1 DEF TypeOK
      <4>2. Missed(s) = 0 /\ Counted(s) = cmdDrops /\ cmdDrops \in Nat
            /\ cmdDrops <= Cardinality(Ended)
        BY <3>2, <4>1, NothingFlows DEF Missed, Reached, Counted
      <4> QED BY <1>0, <3>1, <4>2
    <3>3. CASE ~ NoProducer
      BY <1>0, <3>1, <3>3 DEF LoadInv, LossesExplained
    <3> QED BY <3>2, <3>3
  <2> QED BY <1>4, <2>2, <2>3, <2>4, <2>5 DEF LoadInv
<1>6. CASE ~ UNCHANGED <<sent, toServer>>
  <2>1. /\ producer = "ticking" /\ producer' = "looping" /\ Len(toServer) < Window
        /\ sent' = sent + 1 /\ toServer' = Append(toServer, sent)
    BY <1>6 DEF Produce, ProducerLoop, ProducerSend, ProducerConnect, ProducerBreak, serverVars
  <2>2. /\ toServer' \in Seq(Nat) /\ Len(toServer') = Len(toServer) + 1
        /\ \A i \in 1..Len(toServer) : toServer'[i] = toServer[i]
        /\ toServer'[Len(toServer) + 1] = sent
    BY <1>1, <2>1, AppendProperties DEF TypeOK
  <2>3. Taken' = Taken /\ Taken \in Int
    BY <1>1, <2>1, <2>2 DEF Taken
  <2>4. TypeOK'
    BY <1>1, <1>2, <1>3, <2>1, <2>2, LoadTestAssumption DEF LoadInv, Quiet, TypeOK
  <2>5. Quiet'
    BY <2>1 DEF Quiet, NoProducer
  <2>6. InOrder'
    <3>1. \A i \in 1..Len(toServer') : toServer'[i] = Taken + i - 1
      <4>1. ASSUME NEW i \in 1..Len(toServer) PROVE toServer'[i] = Taken + i - 1
        BY <2>2 DEF LoadInv, InOrder
      <4>2. toServer'[Len(toServer) + 1] = Taken + (Len(toServer) + 1) - 1
        BY <1>1, <2>2 DEF Taken
      <4>3. ASSUME NEW i \in 1..Len(toServer')
            PROVE  i \in 1..Len(toServer) \/ i = Len(toServer) + 1
        BY <1>1, <2>2
      <4> QED BY <4>1, <4>2, <4>3
    <3> QED BY <1>1, <1>2, <2>1, <2>2, <2>3, <3>1 DEF LoadInv, InOrder
  <2>7. Accounted'
    BY <1>2 DEF LoadInv, Accounted
  <2>8. LossesExplained'
    <3>1. ~ NoProducer
      BY <2>1 DEF NoProducer
    <3>2. ASSUME NEW s \in connected PROVE Missed(s)' = Missed(s) /\ Counted(s)' = Counted(s)
      BY <1>2, <2>3 DEF Missed, Reached, Counted
    <3> QED BY <1>0, <1>2, <3>1, <3>2 DEF LoadInv, LossesExplained
  <2> QED BY <1>4, <2>4, <2>5, <2>6, <2>7, <2>8 DEF LoadInv
<1> QED BY <1>5, <1>6

\* The turn that gives the start has counted every subscriber.
LEMMA MainInv ==
  ASSUME LoadInv, MainStep \/ Report
  PROVE  LoadInv'
<1>1. TypeOK /\ UNCHANGED <<sub, connected, served, cmdDrops>> /\ UNCHANGED flow
  BY DEF LoadInv, MainStep, CollectJoined, JoinsEnd, ProducerEnd, Collect, Report, serverVars,
         measured, flow
<1>2. Ended' = Ended /\ Cardinality(Ended) <= Cardinality(Ended')
  BY <1>1, EndedBound DEF Ended
<1>3. CASE CollectJoined /\ arrived' = Cardinality(Subscriber)
  <2>1. /\ arrived' = arrived + 1 /\ joinedMsgs' = joinedMsgs - 1 /\ joinedMsgs > 0
        /\ main = "joining" /\ main' = "producing"
        /\ clock = "before" /\ clock' = "running"
        /\ producer = "idle" /\ producer' = "connecting"
    BY <1>3 DEF CollectJoined, LoadInv, Barrier
  <2>2. /\ joinedMsgs \in Nat /\ arrived \in Nat
        /\ arrived + joinedMsgs <= Cardinality(Past)
    BY <1>1, PastBound DEF TypeOK, LoadInv, Barrier, Past
  <2>3. joinedMsgs' = 0 /\ Past = Subscriber
    BY <1>3, <2>1, <2>2, PastBound
  <2>4. TypeOK'
    BY <1>1, <1>3, <2>1, <2>3, PastBound DEF TypeOK, flow, measured
  <2>5. Barrier'
    <3>1. Past' = Past
      BY <1>1 DEF Past
    <3>2. \A s \in Subscriber : sub[s] # "joining"
      BY <2>3 DEF Past
    <3>3. arrived' + joinedMsgs' <= Cardinality(Past)
      BY <1>3, <2>3, PastBound
    <3> QED BY <1>1, <2>1, <3>1, <3>2, <3>3 DEF LoadInv, Barrier, Past
  <2>6. NoProducer /\ NoProducer' /\ producer' # "ticking"
    BY <2>1 DEF NoProducer
  <2>7. Quiet' /\ InOrder' /\ Accounted' /\ LossesExplained'
    BY <1>1, <1>2, <2>6, SessionsMove
  <2> QED BY <2>4, <2>5, <2>7 DEF LoadInv
<1>4. CASE CollectJoined /\ arrived' # Cardinality(Subscriber)
  <2>1. /\ arrived' = arrived + 1 /\ joinedMsgs' = joinedMsgs - 1 /\ joinedMsgs > 0
        /\ UNCHANGED <<main, clock, producer>>
    BY <1>4 DEF CollectJoined
  <2>2. /\ joinedMsgs \in Nat /\ arrived \in Nat
        /\ arrived + joinedMsgs <= Cardinality(Past)
    BY <1>1, PastBound DEF TypeOK, LoadInv, Barrier, Past
  <2>3. TypeOK'
    BY <1>1, <2>1, <2>2, PastBound DEF TypeOK, flow, measured
  <2>4. Barrier'
    BY <1>1, <2>1, <2>2 DEF LoadInv, Barrier
  <2>5. NoProducer' = NoProducer
    BY <2>1 DEF NoProducer
  <2>6. Quiet' /\ InOrder' /\ Accounted' /\ LossesExplained'
    BY <1>1, <1>2, <2>1, <2>5, SessionsMove
  <2> QED BY <2>3, <2>4, <2>6 DEF LoadInv
<1>5. CASE JoinsEnd \/ ProducerEnd \/ Collect \/ Report
  <2>1. /\ UNCHANGED <<arrived, joinedMsgs, clock, producer>>
        /\ main' \in {"collecting", "fetching", "reported", "panicked"}
    BY <1>5 DEF JoinsEnd, ProducerEnd, Collect, Report
  <2>2. TypeOK' /\ Barrier'
    BY <1>1, <2>1 DEF LoadInv, TypeOK, Barrier, flow, measured
  <2>3. NoProducer' = NoProducer
    BY <2>1 DEF NoProducer
  <2>4. Quiet' /\ InOrder' /\ Accounted' /\ LossesExplained'
    BY <1>1, <1>2, <2>1, <2>3, SessionsMove
  <2> QED BY <2>2, <2>4 DEF LoadInv
<1> QED BY <1>3, <1>4, <1>5 DEF MainStep

\* Time only passes once the start has been given, and a stutter changes nothing.
LEMMA TimeInv ==
  ASSUME LoadInv, TimePasses \/ UNCHANGED vars
  PROVE  LoadInv'
<1>1. /\ UNCHANGED <<main, arrived, joinedMsgs, producer, sub, connected, served, cmdDrops>>
      /\ UNCHANGED flow
      /\ \/ clock # "before" /\ clock' \in {"ended", "drained"} /\ main # "joining"
         \/ clock' = clock
  BY DEF TimePasses, vars, barrierVars, serverVars, flow, measured, LoadInv, Barrier
<1>2. TypeOK' /\ Barrier'
  BY <1>1 DEF LoadInv, TypeOK, Barrier, flow, measured
<1>3. /\ NoProducer' = NoProducer /\ Ended' = Ended
      /\ Cardinality(Ended) <= Cardinality(Ended')
  BY <1>1, EndedBound DEF NoProducer, Ended
<1>4. Quiet' /\ InOrder' /\ Accounted' /\ LossesExplained'
  BY <1>1, <1>3, SessionsMove
<1> QED BY <1>2, <1>4 DEF LoadInv

\* What the server takes is received, dropped and counted, or on its way to
\* each subscriber it still has.
LEMMA ServerInv ==
  ASSUME LoadInv, ServerTakes
  PROVE  LoadInv'
<1>1. TypeOK
  BY DEF LoadInv
<1>2. /\ UNCHANGED <<main, arrived, joinedMsgs, clock, producer, sent, sub, received,
                     seqGaps, lastSeq, connected, served>>
      /\ toServer # <<>> /\ toServer' = Tail(toServer)
  BY DEF ServerTakes, barrierVars, measured
<1>3. /\ Len(toServer) \in Nat /\ Len(toServer) > 0 /\ sent \in Nat
      /\ toServer' \in Seq(Nat) /\ Len(toServer') = Len(toServer) - 1
      /\ \A i \in 1..Len(toServer) - 1 : toServer'[i] = toServer[i + 1]
      /\ Head(toServer) = toServer[1] /\ Head(toServer) \in Nat
  BY <1>1, <1>2, HeadTailProperties DEF TypeOK
<1>4. /\ Taken' = Taken + 1 /\ Taken \in Int /\ Head(toServer) = Taken
  BY <1>2, <1>3 DEF Taken, LoadInv, InOrder
<1>5. /\ Barrier' /\ Quiet' /\ ~ NoProducer /\ ~ NoProducer'
      /\ Ended' = Ended /\ Cardinality(Ended) \in Nat
  <2>1. ~ NoProducer
    BY <1>2, <1>3 DEF LoadInv, Quiet, InOrder
  <2>2. ~ NoProducer' /\ Ended' = Ended /\ Cardinality(Ended) \in Nat
    BY <1>2, <2>1, EndedBound DEF NoProducer, Ended
  <2>3. Quiet'
    BY <1>2, <2>2 DEF LoadInv, Quiet
  <2> QED BY <1>2, <2>1, <2>2, <2>3 DEF LoadInv, Barrier
<1>6. /\ Len(toServer') <= sent'
      /\ \A i \in 1..Len(toServer') : toServer'[i] = Taken' + i - 1
  BY <1>2, <1>3, <1>4 DEF LoadInv, InOrder
<1>7. CASE cmdDrops' = cmdDrops + 1 /\ UNCHANGED <<toSub, fanDrops>>
  <2>1. TypeOK'
    BY <1>1, <1>2, <1>3, <1>7, LoadTestAssumption DEF TypeOK
  <2>2. InOrder'
    <3>1. ASSUME NEW s \in Subscriber
          PROVE  /\ lastSeq[s] \in Int
                 /\ \A i \in 1..Len(toSub[s]) : toSub[s][i] \in Int
      BY <1>1 DEF TypeOK, None
    <3> QED BY <1>2, <1>4, <1>6, <1>7, <3>1 DEF LoadInv, InOrder
  <2>3. Accounted' /\ LossesExplained'
    <3>1. ASSUME NEW s \in Subscriber
          PROVE  /\ lastSeq[s] \in Int /\ received[s] \in Int /\ fanDrops[s] \in Int
                 /\ cmdDrops \in Int /\ Len(toSub[s]) \in Int
                 /\ \A i \in 1..Len(toSub[s]) : toSub[s][i] \in Int
      BY <1>1 DEF TypeOK, None
    <3>2. Accounted'
      <4>1. ASSUME NEW s \in Subscriber
            PROVE  /\ lastSeq[s] + 1 <= received[s] + (cmdDrops + 1) + fanDrops[s]
                   /\ seqGaps[s] + received[s] <= lastSeq[s] + 1
        BY <3>1 DEF LoadInv, Accounted
      <4>2. ASSUME NEW s \in Subscriber, NEW i \in 1..Len(toSub[s])
            PROVE  toSub[s][i] + 1 <= received[s] + i + (cmdDrops + 1) + fanDrops[s]
        <5>1. toSub[s][i] + 1 <= received[s] + i + cmdDrops + fanDrops[s]
          BY DEF LoadInv, Accounted
        <5>2. /\ toSub[s][i] \in Int /\ received[s] \in Int /\ cmdDrops \in Int
              /\ fanDrops[s] \in Int /\ i \in Int
          BY <3>1
        <5> QED BY <5>1, <5>2, StillCounted
      <4> QED BY <1>2, <1>7, <4>1, <4>2 DEF Accounted
    <3>3. LossesExplained'
      <4>1. ASSUME NEW s \in connected
            PROVE  Missed(s)' = Missed(s) + 1 /\ Counted(s)' = Counted(s) + 1
                   /\ Missed(s) \in Int /\ Counted(s) \in Int
        <5>1. s \in Subscriber
          BY <1>1 DEF TypeOK
        <5>2. /\ Reached(s)' = Reached(s) /\ Counted(s)' = cmdDrops + 1 + fanDrops[s]
          BY <1>2, <1>7 DEF Reached, Counted
        <5>3. cmdDrops \in Int /\ fanDrops[s] \in Int /\ Reached(s) \in Int
          BY <3>1, <5>1 DEF Reached
        <5>4. Counted(s)' = Counted(s) + 1 /\ Counted(s) \in Int
          BY <5>2, <5>3 DEF Counted
        <5>5. Missed(s)' = Missed(s) + 1 /\ Missed(s) \in Int
          BY <1>4, <5>2, <5>3 DEF Missed
        <5> QED BY <5>4, <5>5
      <4>2. ASSUME NEW s \in connected
            PROVE  /\ Missed(s)' <= Counted(s)'
                   /\ Counted(s)' <= Missed(s)' + Cardinality(Ended')
        <5>1. Missed(s) <= Counted(s) /\ Counted(s) <= Missed(s) + Cardinality(Ended)
          BY <1>5 DEF LoadInv, LossesExplained
        <5> QED BY <1>5, <4>1, <5>1
      <4> QED BY <1>2, <4>2 DEF LossesExplained
    <3> QED BY <3>2, <3>3
  <2> QED BY <1>5, <2>1, <2>2, <2>3 DEF LoadInv
<1>8. ASSUME NEW lost \in SUBSET served,
             toSub' = [s \in Subscriber |->
                         IF s \in connected \ lost THEN Append(toSub[s], Head(toServer))
                         ELSE toSub[s]],
             fanDrops' = [s \in Subscriber |-> fanDrops[s] + (IF s \in lost THEN 1 ELSE 0)],
             UNCHANGED cmdDrops
      PROVE  LoadInv'
  <2>1. ASSUME NEW s \in Subscriber
        PROVE  /\ lastSeq[s] \in Int /\ received[s] \in Int /\ fanDrops[s] \in Nat
               /\ cmdDrops \in Nat /\ toSub[s] \in Seq(Nat) /\ Len(toSub[s]) \in Nat
               /\ \A i \in 1..Len(toSub[s]) : toSub[s][i] \in Int
    BY <1>1 DEF TypeOK, None
  <2>2. ASSUME NEW s \in connected \ lost
        PROVE  /\ toSub'[s] \in Seq(Nat) /\ Len(toSub'[s]) = Len(toSub[s]) + 1
               /\ \A i \in 1..Len(toSub[s]) : toSub'[s][i] = toSub[s][i]
               /\ toSub'[s][Len(toSub[s]) + 1] = Taken
               /\ fanDrops'[s] = fanDrops[s] /\ s \in Subscriber
    <3>1. s \in Subscriber /\ toSub'[s] = Append(toSub[s], Head(toServer))
      BY <1>1, <1>8 DEF TypeOK
    <3> QED BY <1>3, <1>4, <1>8, <2>1, <3>1, AppendProperties
  <2>3. ASSUME NEW s \in Subscriber, s \notin connected \ lost
        PROVE  toSub'[s] = toSub[s] /\ fanDrops'[s] \in {fanDrops[s], fanDrops[s] + 1}
    BY <1>8, <2>1, <2>3
  <2>4. TypeOK'
    <3>1. toSub' \in [Subscriber -> Seq(Nat)]
      BY <1>8, <2>1, <2>2, <2>3
    <3>2. fanDrops' \in [Subscriber -> Nat]
      BY <1>8, <2>1
    <3>3. toServer' \in Seq(Nat) /\ Len(toServer') <= Window
      BY <1>1, <1>3, LoadTestAssumption DEF TypeOK
    <3> QED BY <1>1, <1>2, <1>8, <3>1, <3>2, <3>3 DEF TypeOK
  <2>5. ASSUME NEW s \in Subscriber
        PROVE  /\ lastSeq[s] < Taken'
               /\ \A i \in 1..Len(toSub'[s]) :
                    /\ lastSeq[s] < toSub'[s][i] /\ toSub'[s][i] < Taken'
                    /\ \A j \in 1..i - 1 : toSub'[s][j] < toSub'[s][i]
    <3>1. /\ lastSeq[s] < Taken
          /\ \A i \in 1..Len(toSub[s]) :
               /\ lastSeq[s] < toSub[s][i] /\ toSub[s][i] < Taken
               /\ \A j \in 1..i - 1 : toSub[s][j] < toSub[s][i]
      BY DEF LoadInv, InOrder
    <3>2. CASE s \in connected \ lost
      <4>1. ASSUME NEW i \in 1..Len(toSub'[s])
            PROVE  /\ lastSeq[s] < toSub'[s][i] /\ toSub'[s][i] < Taken'
                   /\ \A j \in 1..i - 1 : toSub'[s][j] < toSub'[s][i]
        <5>1. CASE i <= Len(toSub[s])
          <6>1. i \in 1..Len(toSub[s]) /\ toSub'[s][i] = toSub[s][i]
            BY <2>1, <2>2, <3>2, <5>1
          <6>2. \A j \in 1..i - 1 : toSub'[s][j] = toSub[s][j]
            BY <2>1, <2>2, <3>2, <6>1
          <6> QED BY <1>4, <2>1, <3>1, <6>1, <6>2
        <5>2. CASE i = Len(toSub[s]) + 1
          <6>1. toSub'[s][i] = Taken
            BY <2>2, <3>2, <5>2
          <6>2. \A j \in 1..i - 1 : toSub'[s][j] = toSub[s][j] /\ toSub[s][j] < Taken
            BY <2>1, <2>2, <3>1, <3>2, <5>2
          <6> QED BY <1>4, <3>1, <6>1, <6>2
        <5> QED BY <2>1, <2>2, <3>2, <5>1, <5>2
      <4> QED BY <1>4, <2>1, <3>1, <4>1
    <3>3. CASE s \notin connected \ lost
      <4>1. toSub'[s] = toSub[s] /\ lastSeq[s] \in Int
        BY <2>1, <2>3, <3>3
      <4>2. lastSeq[s] < Taken'
        BY <1>4, <3>1, <4>1
      <4>3. ASSUME NEW i \in 1..Len(toSub[s]) PROVE toSub[s][i] < Taken'
        <5>1. toSub[s][i] \in Int /\ toSub[s][i] < Taken
          BY <2>1, <3>1
        <5> QED BY <1>4, <5>1
      <4> QED BY <3>1, <4>1, <4>2, <4>3
    <3> QED BY <3>2, <3>3
  <2>6. InOrder'
    BY <1>2, <1>6, <2>5 DEF InOrder
  <2>7. ASSUME NEW s \in connected
        PROVE  Taken <= received[s] + Len(toSub[s]) + cmdDrops + fanDrops[s]
    <3>1. Missed(s) <= Counted(s) /\ s \in Subscriber
      BY <1>1, <1>5 DEF LoadInv, LossesExplained, TypeOK
    <3> QED BY <1>4, <2>1, <3>1 DEF Missed, Reached, Counted
  <2>8. LossesExplained'
    <3>1. ASSUME NEW s \in connected
          PROVE  /\ Missed(s) \in Int /\ Counted(s) \in Int
                 /\ \/ Missed(s)' = Missed(s) + 1 /\ Counted(s)' = Counted(s) + 1
                    \/ Missed(s)' = Missed(s) /\ Counted(s)' = Counted(s)
      <4>1. s \in Subscriber
        BY <1>1 DEF TypeOK
      <4>2. /\ Len(toSub[s]) \in Int /\ received[s] \in Int /\ cmdDrops \in Int
            /\ fanDrops[s] \in Int /\ Reached(s) \in Int
        BY <2>1, <4>1 DEF Reached
      <4>3. Missed(s) \in Int /\ Counted(s) \in Int
        BY <1>4, <4>2 DEF Missed, Counted
      <4>4. Taken' = Taken + 1 /\ Taken \in Int /\ cmdDrops' = cmdDrops
        BY <1>4, <1>8
      <4>5. CASE s \in lost
        <5>1. toSub'[s] = toSub[s] /\ fanDrops'[s] = fanDrops[s] + 1
          BY <1>8, <4>1, <4>5
        <5>2. Reached(s)' = Reached(s)
          BY <1>2, <5>1 DEF Reached
        <5>3. Missed(s)' = Missed(s) + 1
          BY <4>2, <4>4, <5>2 DEF Missed
        <5>4. Counted(s)' = Counted(s) + 1
          BY <4>2, <4>4, <5>1 DEF Counted
        <5> QED BY <4>3, <5>3, <5>4
      <4>6. CASE s \notin lost
        <5>1. Len(toSub'[s]) = Len(toSub[s]) + 1 /\ fanDrops'[s] = fanDrops[s]
          BY <2>2, <4>6
        <5>2. Reached(s)' = Reached(s) + 1
          BY <1>2, <4>2, <5>1 DEF Reached
        <5>3. Missed(s)' = Missed(s)
          BY <4>2, <4>4, <5>2 DEF Missed
        <5>4. Counted(s)' = Counted(s)
          BY <4>4, <5>1 DEF Counted
        <5> QED BY <4>3, <5>3, <5>4
      <4> QED BY <4>5, <4>6
    <3>2. ASSUME NEW s \in connected
          PROVE  /\ Missed(s)' <= Counted(s)'
                 /\ Counted(s)' <= Missed(s)' + Cardinality(Ended')
      <4>1. Missed(s) <= Counted(s) /\ Counted(s) <= Missed(s) + Cardinality(Ended)
        BY <1>5 DEF LoadInv, LossesExplained
      <4> QED BY <1>5, <3>1, <4>1
    <3> QED BY <1>2, <3>2 DEF LossesExplained
  <2>9. Accounted'
    <3>1. ASSUME NEW s \in Subscriber
          PROVE  /\ lastSeq[s] + 1 <= received[s] + cmdDrops + fanDrops'[s]
                 /\ \A i \in 1..Len(toSub'[s]) :
                      toSub'[s][i] + 1 <= received[s] + i + cmdDrops + fanDrops'[s]
      <4>1. /\ lastSeq[s] + 1 <= received[s] + cmdDrops + fanDrops[s]
            /\ \A i \in 1..Len(toSub[s]) :
                 toSub[s][i] + 1 <= received[s] + i + cmdDrops + fanDrops[s]
        BY DEF LoadInv, Accounted
      <4>2. CASE s \in connected \ lost
        <5>1. ASSUME NEW i \in 1..Len(toSub'[s])
              PROVE  toSub'[s][i] + 1 <= received[s] + i + cmdDrops + fanDrops'[s]
          <6>1. CASE i <= Len(toSub[s])
            <7>1. i \in 1..Len(toSub[s]) /\ toSub'[s][i] = toSub[s][i]
              BY <2>1, <2>2, <4>2, <6>1
            <7>2. fanDrops'[s] = fanDrops[s]
              BY <2>2, <4>2
            <7> QED BY <4>1, <7>1, <7>2
          <6>2. CASE i = Len(toSub[s]) + 1
            <7>1. toSub'[s][i] = Taken /\ fanDrops'[s] = fanDrops[s]
              BY <2>2, <4>2, <6>2
            <7>2. Taken <= received[s] + Len(toSub[s]) + cmdDrops + fanDrops[s]
              BY <2>7, <4>2
            <7>3. /\ Len(toSub[s]) \in Int /\ received[s] \in Int /\ cmdDrops \in Int
                  /\ fanDrops[s] \in Int
              BY <2>1
            <7>4. Taken + 1 <= received[s] + (Len(toSub[s]) + 1) + cmdDrops + fanDrops[s]
              BY <1>4, <7>2, <7>3
            <7> QED BY <6>2, <7>1, <7>4, Zenon
          <6> QED BY <2>1, <2>2, <4>2, <6>1, <6>2
        <5> QED BY <2>2, <4>1, <4>2, <5>1
      <4>3. CASE s \notin connected \ lost
        <5>1. /\ toSub'[s] = toSub[s] /\ fanDrops'[s] \in Nat /\ fanDrops[s] <= fanDrops'[s]
          BY <2>1, <2>3, <4>3
        <5>2. ASSUME NEW i \in 1..Len(toSub[s])
              PROVE  toSub[s][i] + 1 <= received[s] + i + cmdDrops + fanDrops'[s]
          <6>1. toSub[s][i] + 1 <= received[s] + i + cmdDrops + fanDrops[s]
            BY <4>1
          <6>2. /\ toSub[s][i] \in Int /\ received[s] \in Int /\ cmdDrops \in Int
                /\ fanDrops[s] \in Int /\ fanDrops'[s] \in Int /\ i \in Int
            BY <2>1, <5>1
          <6> QED BY <5>1, <6>1, <6>2, StillCounted
        <5> QED BY <2>1, <4>1, <5>1, <5>2
      <4> QED BY <4>2, <4>3
    <3> QED BY <1>2, <1>8, <3>1 DEF LoadInv, Accounted
  <2> QED BY <1>5, <2>4, <2>6, <2>8, <2>9 DEF LoadInv
<1> QED BY <1>7, <1>8 DEF ServerTakes

-----------------------------------------------------------------------------
\* One lemma for each part of the system.
LEMMA NextInv == LoadInv /\ [Next]_vars => LoadInv'
<1> SUFFICES ASSUME LoadInv, [Next]_vars PROVE LoadInv'
  OBVIOUS
<1>1. ASSUME NEW s \in Subscriber,
             AckJoin(s) \/ FailJoin(s) \/ Begin(s) \/ Receive(s) \/ DrainEnd(s)
             \/ StreamEnd(s) \/ Disconnect(s) \/ EndSession(s)
      PROVE  LoadInv'
  BY <1>1, JoinInv, TaskInv, ReceiveInv, SessionEndInv DEF JoinStep
<1>2. CASE ProducerConnect \/ ProducerLoop \/ ProducerSend \/ ProducerBreak
  BY <1>2, ProduceInv DEF Produce
<1>3. CASE CollectJoined \/ JoinsEnd \/ ProducerEnd \/ Collect \/ Report
  BY <1>3, MainInv DEF MainStep
<1>4. CASE TimePasses \/ ServerTakes \/ UNCHANGED vars
  BY <1>4, TimeInv, ServerInv
<1> QED BY <1>1, <1>2, <1>3, <1>4 DEF Next

\* The inductive invariant.
THEOREM LoadCorrect == Spec => []LoadInv
BY InitInv, NextInv, PTL DEF Spec

\* Every variable keeps its type, and no subscriber's counters exceed what the
\* producer sent (loadtest.rs:270-272).
THEOREM LoadTypeCorrect == Spec => []TypeOK
<1>1. LoadInv => TypeOK
  BY DEF LoadInv
<1> QED BY <1>1, LoadCorrect, PTL

\* What a connected subscriber misses is in the metrics main subtracts
\* (loadtest.rs:128-133), and they are no more than that and one Join or Leave
\* for each subscriber the server is done with (websocket.rs:62-64, 223-226).
THEOREM ExplainedCorrect == Spec => []LossesExplained
<1>1. LoadInv => LossesExplained
  BY DEF LoadInv
<1> QED BY <1>1, LoadCorrect, PTL

\* subscriber_seq_gaps_total blames the server for no loss it did not count
\* (loadtest.rs:296-303).
THEOREM GapsCorrect == Spec => []GapsAreDrops
<1>1. LoadInv => GapsAreDrops
  <2> SUFFICES ASSUME LoadInv, NEW s \in Subscriber
               PROVE  /\ seqGaps[s] <= cmdDrops + fanDrops[s]
                      /\ seqGaps[s] + received[s] <= lastSeq[s] + 1
    BY DEF GapsAreDrops
  <2>1. /\ seqGaps[s] \in Int /\ received[s] \in Int /\ lastSeq[s] \in Int
        /\ cmdDrops \in Int /\ fanDrops[s] \in Int
    BY DEF LoadInv, TypeOK, None
  <2>2. /\ lastSeq[s] + 1 <= received[s] + cmdDrops + fanDrops[s]
        /\ seqGaps[s] + received[s] <= lastSeq[s] + 1
    BY DEF LoadInv, Accounted
  <2> QED BY <2>1, <2>2
<1> QED BY <1>1, LoadCorrect, PTL
=============================================================================
