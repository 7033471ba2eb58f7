-------------------------------- MODULE LoadTest --------------------------------
(***************************************************************************)
(* The load test client (src/bin/loadtest.rs): main, one producer and the  *)
(* subscribers, which wait for one another at the join and are timed by    *)
(* main's clock.  The server is what Rooms and WebSocket say of it, seen   *)
(* from outside: it answers a join or does not, keeps the order of the     *)
(* producer's messages, drops and counts some of them, and counts with     *)
(* them the Joins and Leaves it drops.  Nobody else uses it meanwhile.     *)
(***************************************************************************)
EXTENDS Integers, Sequences, FiniteSets

CONSTANTS
  Subscriber,   \* args.subscribers tasks
  Window,       \* frames the producer's connection holds before a send waits
  MaxSent       \* bound: messages the producer's rate allows in the duration

ASSUME LoadTestAssumption ==
  /\ IsFiniteSet(Subscriber) /\ Subscriber # {}
  /\ Window \in Nat \ {0}
  /\ MaxSent \in Nat

VARIABLES
  \* the client
  main,       \* where main is, or how it ended
  arrived,    \* turns of the loop over joined_rx
  joinedMsgs, \* messages in the joined channel
  clock,      \* against start, test_end and the subscribers' drain_end
  producer,   \* where run_producer is, or how it ended
  sent,       \* its counter, the seq of the next message
  sub,        \* subscriber -> where its task is, or how it ended
  received, seqGaps, lastSeq,   \* the locals of each run_subscriber
  \* the server
  toServer,   \* messages the server has not taken
  toSub,      \* subscriber -> messages it has not read
  connected,  \* subscribers that have joined and whose connection is up
  served,     \* those with a session in the room, which notices later
  cmdDrops,   \* actor_cmd_drops_total since the start
  fanDrops    \* fanout_drops_total since the start, by subscriber

barrierVars == <<main, arrived, joinedMsgs>>
measured == <<received, seqGaps, lastSeq>>
serverVars == <<toServer, toSub, connected, served, cmdDrops, fanDrops>>
vars == <<barrierVars, clock, producer, sent, sub, measured, serverVars>>

None == -1
Returned(s) == sub[s] \in {"done", "failed"}

Init ==
  /\ main = "joining"
  /\ arrived = 0
  /\ joinedMsgs = 0
  /\ clock = "before"
  /\ producer = "idle"
  /\ sent = 0
  /\ sub = [s \in Subscriber |-> "joining"]
  /\ received = [s \in Subscriber |-> 0]
  /\ seqGaps = [s \in Subscriber |-> 0]
  /\ lastSeq = [s \in Subscriber |-> None]
  /\ toServer = <<>>
  /\ toSub = [s \in Subscriber |-> <<>>]
  /\ connected = {}
  /\ served = {}
  /\ cmdDrops = 0
  /\ fanDrops = [s \in Subscriber |-> 0]

-----------------------------------------------------------------------------
(* The subscribers.                                                        *)

AckJoin_GoesOn(s) ==
  /\ sub[s] = "joining"
  /\ sub' \in {sub, [sub EXCEPT ![s] = "waiting"]}
  /\ joinedMsgs' = joinedMsgs + 1
  /\ connected' = connected \cup {s}
  /\ served' = served \cup {s}
  /\ UNCHANGED <<main, arrived, clock, producer, sent, measured, toServer, toSub,
                 cmdDrops, fanDrops>>

\* Joined arrives before the 5 seconds are over
AckJoin(s) ==
  /\ sub[s] = "joining"
  /\ sub' = [sub EXCEPT ![s] = "waiting"]
  /\ joinedMsgs' = joinedMsgs + 1
  /\ connected' = connected \cup {s}
  /\ served' = served \cup {s}
  /\ UNCHANGED <<main, arrived, clock, producer, sent, measured, toServer, toSub,
                 cmdDrops, fanDrops>>

\* It does not, the stream ends (both return Ok), or there is no connection.
\* The server may have refused the Join and counted it, or have taken it all
\* the same.
FailJoin(s) ==
  /\ sub[s] = "joining"
  /\ sub' \in {[sub EXCEPT ![s] = "done"], [sub EXCEPT ![s] = "failed"]}
  /\ \/ cmdDrops' = cmdDrops + 1 /\ UNCHANGED served
     \/ served' \in {served, served \cup {s}} /\ UNCHANGED cmdDrops
  /\ UNCHANGED <<barrierVars, clock, producer, sent, measured, toServer, toSub,
                 connected, fanDrops>>

\* start_rx.changed()
Begin(s) ==
  /\ sub[s] = "waiting"
  /\ clock # "before"
  /\ sub' = [sub EXCEPT ![s] = "measuring"]
  /\ UNCHANGED <<barrierVars, clock, producer, sent, measured, serverVars>>

Receive_OffByOne(s) ==
  /\ sub[s] = "measuring"
  /\ toSub[s] # <<>>
  /\ LET seq == Head(toSub[s]) prev == lastSeq[s] IN
       /\ received' = [received EXCEPT ![s] = @ + 1]
       /\ seqGaps' = IF prev # None /\ seq > prev + 1
                     THEN [seqGaps EXCEPT ![s] = @ + seq - prev] ELSE seqGaps
       /\ lastSeq' = [lastSeq EXCEPT ![s] = seq]
  /\ toSub' = [toSub EXCEPT ![s] = Tail(@)]
  /\ UNCHANGED <<barrierVars, clock, producer, sent, sub, toServer, connected, served,
                 cmdDrops, fanDrops>>

Receive(s) ==
  /\ sub[s] = "measuring"
  /\ toSub[s] # <<>>
  /\ LET seq == Head(toSub[s]) prev == lastSeq[s] IN
       /\ received' = [received EXCEPT ![s] = @ + 1]
       /\ seqGaps' = IF prev # None /\ seq > prev + 1
                     THEN [seqGaps EXCEPT ![s] = @ + seq - prev - 1] ELSE seqGaps
       /\ lastSeq' = [lastSeq EXCEPT ![s] = seq]
  /\ toSub' = [toSub EXCEPT ![s] = Tail(@)]
  /\ UNCHANGED <<barrierVars, clock, producer, sent, sub, toServer, connected, served,
                 cmdDrops, fanDrops>>

DrainEnd_Never(s) ==
  /\ sub[s] = "measuring"
  /\ clock = "drained" /\ s \notin connected
  /\ sub' = [sub EXCEPT ![s] = "done"]
  /\ UNCHANGED <<barrierVars, clock, producer, sent, measured, serverVars>>

DrainEnd(s) ==
  /\ sub[s] = "measuring"
  /\ clock = "drained"
  /\ sub' = [sub EXCEPT ![s] = "done"]
  /\ UNCHANGED <<barrierVars, clock, producer, sent, measured, serverVars>>

\* stream.next() is an error or None, read to the end or not
StreamEnd(s) ==
  /\ sub[s] = "measuring"
  /\ s \notin connected
  /\ sub' = [sub EXCEPT ![s] = "done"]
  /\ UNCHANGED <<barrierVars, clock, producer, sent, measured, serverVars>>

-----------------------------------------------------------------------------
(* The producer, which looks at the clock before it waits for its tick.    *)

\* connect_async, which has no timeout
ProducerConnect ==
  /\ producer = "connecting"
  /\ producer' \in {"looping", "failed"}
  /\ UNCHANGED <<barrierVars, clock, sent, sub, measured, serverVars>>

ProducerLoop ==
  /\ producer = "looping"
  /\ producer' = IF clock = "running" THEN "ticking" ELSE "finished"
  /\ clock = "running" => sent < MaxSent
  /\ UNCHANGED <<barrierVars, clock, sent, sub, measured, serverVars>>

ProducerSend_CountsFirst ==
  /\ producer = "ticking"
  /\ Len(toServer) < Window
  /\ producer' = "looping"
  /\ sent' = sent + 1
  /\ toServer' = Append(toServer, sent + 1)
  /\ UNCHANGED <<barrierVars, clock, sub, measured, toSub, connected, served, cmdDrops,
                 fanDrops>>

\* sink.send waits while the connection takes no more, without a timeout
ProducerSend ==
  /\ producer = "ticking"
  /\ Len(toServer) < Window
  /\ producer' = "looping"
  /\ sent' = sent + 1
  /\ toServer' = Append(toServer, sent)
  /\ UNCHANGED <<barrierVars, clock, sub, measured, toSub, connected, served, cmdDrops,
                 fanDrops>>

\* the connection is gone
ProducerBreak ==
  /\ producer = "ticking"
  /\ producer' = "finished"
  /\ UNCHANGED <<barrierVars, clock, sent, sub, measured, serverVars>>

-----------------------------------------------------------------------------
(* main                                                                    *)

CollectJoined_First ==
  /\ main = "joining"
  /\ joinedMsgs > 0
  /\ joinedMsgs' = joinedMsgs - 1
  /\ arrived' = arrived + 1
  /\ main' = "producing" /\ clock' = "running" /\ producer' = "connecting"
  /\ UNCHANGED <<sent, sub, measured, serverVars>>

\* A turn of the loop over joined_rx; after the last one start_tx.send, and
\* the producer is spawned.
CollectJoined ==
  /\ main = "joining"
  /\ joinedMsgs > 0
  /\ joinedMsgs' = joinedMsgs - 1
  /\ arrived' = arrived + 1
  /\ IF arrived' = Cardinality(Subscriber)
     THEN main' = "producing" /\ clock' = "running" /\ producer' = "connecting"
     ELSE UNCHANGED <<main, clock, producer>>
  /\ UNCHANGED <<sent, sub, measured, serverVars>>

\* joined_rx.recv() is None when the channel is empty and no sender is left:
\* a subscriber's is dropped when run_subscriber returns
JoinsEnd ==
  /\ main = "joining"
  /\ joinedMsgs = 0
  /\ \A s \in Subscriber : Returned(s)
  /\ main' = "panicked"
  /\ UNCHANGED <<arrived, joinedMsgs, clock, producer, sent, sub, measured, serverVars>>

ProducerEnd ==
  /\ main = "producing"
  /\ producer \in {"finished", "failed"}
  /\ main' = IF producer = "finished" THEN "collecting" ELSE "panicked"
  /\ UNCHANGED <<arrived, joinedMsgs, clock, producer, sent, sub, measured, serverVars>>

\* every handle awaited
Collect ==
  /\ main = "collecting"
  /\ \A s \in Subscriber : Returned(s)
  /\ main' = IF \E s \in Subscriber : sub[s] = "failed" THEN "panicked" ELSE "fetching"
  /\ UNCHANGED <<arrived, joinedMsgs, clock, producer, sent, sub, measured, serverVars>>

\* fetch_metrics, which has no timeout, and the report if that worked
Report ==
  /\ main = "fetching"
  /\ main' \in {"reported", "panicked"}
  /\ UNCHANGED <<arrived, joinedMsgs, clock, producer, sent, sub, measured, serverVars>>

\* test_end, then drain_end, which is later
TimePasses ==
  /\ clock \in {"running", "ended"}
  /\ clock' = IF clock = "running" THEN "ended" ELSE "drained"
  /\ UNCHANGED <<barrierVars, producer, sent, sub, measured, serverVars>>

-----------------------------------------------------------------------------
\* The server takes a SendMessageTo: its command is dropped and counted, or
\* the fan-out drops and counts it for some of the room.  What is sent to a
\* session whose connection is gone reaches nobody.
ServerTakes ==
  /\ toServer # <<>>
  /\ toServer' = Tail(toServer)
  /\ \/ cmdDrops' = cmdDrops + 1 /\ UNCHANGED <<toSub, fanDrops>>
     \/ \E lost \in SUBSET served :
          /\ toSub' = [s \in Subscriber |->
                         IF s \in connected \ lost THEN Append(toSub[s], Head(toServer))
                         ELSE toSub[s]]
          /\ fanDrops' = [s \in Subscriber |-> fanDrops[s] + (IF s \in lost THEN 1 ELSE 0)]
          /\ UNCHANGED cmdDrops
  /\ UNCHANGED <<barrierVars, clock, producer, sent, sub, measured, connected, served>>

\* A subscriber's connection ends, by a failure or because its task has
\* returned.
Disconnect(s) ==
  /\ s \in connected
  /\ connected' = connected \ {s}
  /\ UNCHANGED <<barrierVars, clock, producer, sent, sub, measured, toServer, toSub,
                 served, cmdDrops, fanDrops>>

\* The server's tasks for it end, and its Leave, the one it sends if any, is
\* taken or is refused and counted: its closed entry then stays for the next
\* fan-out to sweep, which drops nothing for it.
EndSession(s) ==
  /\ s \in served \ connected
  /\ served' = served \ {s}
  /\ cmdDrops' \in {cmdDrops, cmdDrops + 1}
  /\ UNCHANGED <<barrierVars, clock, producer, sent, sub, measured, toServer, toSub,
                 connected, fanDrops>>

-----------------------------------------------------------------------------
JoinStep(s) == AckJoin(s) \/ FailJoin(s)
Measure(s) == Begin(s) \/ Receive(s) \/ DrainEnd(s) \/ StreamEnd(s)
Produce == ProducerLoop \/ ProducerSend
MainStep == CollectJoined \/ JoinsEnd \/ ProducerEnd \/ Collect

Next ==
  \/ \E s \in Subscriber : AckJoin(s) \/ FailJoin(s) \/ Begin(s) \/ Receive(s)
                           \/ DrainEnd(s) \/ StreamEnd(s) \/ Disconnect(s)
                           \/ EndSession(s)
  \/ ProducerConnect \/ ProducerLoop \/ ProducerSend \/ ProducerBreak
  \/ CollectJoined \/ JoinsEnd \/ ProducerEnd \/ Collect \/ Report
  \/ TimePasses \/ ServerTakes

Spec == Init /\ [][Next]_vars

\* The client's part: every task runs when it can, and time passes.
ClientFair ==
  /\ \A s \in Subscriber : WF_vars(Measure(s))
  /\ WF_vars(Produce) /\ WF_vars(MainStep) /\ WF_vars(TimePasses)

\* The server's part, without which three calls of the client that have no
\* timeout (loadtest.rs:212, 327, 358) may wait for ever: it accepts
\* connections, answers what it is asked, and takes frames as long as there is
\* a producer, which no slow client keeps recv_task from (websocket.rs:170-204).
\* The frames a producer leaves behind it need not take.
Serving == ServerTakes /\ producer \notin {"finished", "failed"}
ServerFair ==
  /\ \A s \in Subscriber : WF_vars(JoinStep(s))
  /\ WF_vars(ProducerConnect) /\ WF_vars(Serving) /\ WF_vars(Report)

FairSpec == Spec /\ ClientFair /\ ServerFair

-----------------------------------------------------------------------------
TypeOK ==
  /\ main \in {"joining", "producing", "collecting", "fetching", "reported", "panicked"}
  /\ arrived \in 0..Cardinality(Subscriber)
  /\ joinedMsgs \in 0..Cardinality(Subscriber)
  /\ clock \in {"before", "running", "ended", "drained"}
  /\ producer \in {"idle", "connecting", "looping", "ticking", "finished", "failed"}
  /\ sent \in 0..MaxSent
  /\ sub \in [Subscriber -> {"joining", "waiting", "measuring", "done", "failed"}]
  /\ received \in [Subscriber -> 0..MaxSent] /\ seqGaps \in [Subscriber -> 0..MaxSent]
  /\ lastSeq \in [Subscriber -> None..MaxSent]
  /\ toServer \in Seq(Nat) /\ Len(toServer) <= Window
  /\ toSub \in [Subscriber -> Seq(Nat)]
  /\ connected \subseteq served /\ served \subseteq Subscriber
  /\ cmdDrops \in Nat /\ fanDrops \in [Subscriber -> Nat]

Taken == sent - Len(toServer)
Reached(s) == received[s] + Len(toSub[s])
Missed(s) == Taken - Reached(s)
Counted(s) == cmdDrops + fanDrops[s]
NoProducer == producer \in {"idle", "connecting", "failed"}

\* subscribers the server is done with, each of which had one Join or one
\* Leave refused at the most
Ended == {s \in Subscriber : sub[s] # "joining" /\ s \notin served}

\* What a connected subscriber missed is in the two metrics main subtracts
\* (loadtest.rs:128-133), since nothing is produced before everyone is in the
\* room (84-101), and they hold no more than that and one Join or Leave for
\* each subscriber the server is done with: actor_cmd_drops_total does not say
\* what kind of command it counts (websocket.rs:62-64, 223-226).
LossesExplained ==
  \A s \in connected : ~ NoProducer =>
    Missed(s) <= Counted(s) /\ Counted(s) <= Missed(s) + Cardinality(Ended)

\* subscriber_seq_gaps_total never claims more loss than there was, nor a
\* message both received and missing (loadtest.rs:296-302).
GapsAreDrops ==
  \A s \in Subscriber :
    /\ seqGaps[s] <= cmdDrops + fanDrops[s]
    /\ seqGaps[s] + received[s] <= lastSeq[s] + 1

-----------------------------------------------------------------------------
(* Why the three hold.                                                     *)

\* The start is given after the last join, and there are no more turns of the
\* loop than subscribers.
Barrier ==
  /\ arrived + joinedMsgs <= Cardinality({s \in Subscriber : sub[s] # "joining"})
  /\ main = "joining" => clock = "before"
  /\ clock = "before" => producer = "idle"
  /\ clock # "before" => \A s \in Subscriber : sub[s] # "joining"
  /\ \A s \in served : sub[s] # "joining"

\* Without a producer nothing is sent and only Joins and Leaves are dropped; it
\* sends no more than its rate allows.
Quiet ==
  /\ NoProducer =>
       /\ sent = 0 /\ cmdDrops <= Cardinality(Ended)
       /\ \A s \in Subscriber : /\ toSub[s] = <<>> /\ lastSeq[s] = None
                                /\ received[s] = 0 /\ seqGaps[s] = 0 /\ fanDrops[s] = 0
  /\ producer = "ticking" => sent < MaxSent

\* The numbers on the way are consecutive to the server and increase from it.
InOrder ==
  /\ Len(toServer) <= sent
  /\ \A i \in 1..Len(toServer) : toServer[i] = Taken + i - 1
  /\ \A s \in Subscriber :
       /\ lastSeq[s] < Taken
       /\ \A i \in 1..Len(toSub[s]) :
            /\ lastSeq[s] < toSub[s][i] /\ toSub[s][i] < Taken
            /\ \A j \in 1..i - 1 : toSub[s][j] < toSub[s][i]

\* What is missing before a number was dropped and counted, by the time the
\* number is read or even while it is under way.
Accounted ==
  \A s \in Subscriber :
    /\ lastSeq[s] + 1 <= received[s] + cmdDrops + fanDrops[s]
    /\ \A i \in 1..Len(toSub[s]) :
         toSub[s][i] + 1 <= received[s] + i + cmdDrops + fanDrops[s]
    /\ seqGaps[s] + received[s] <= lastSeq[s] + 1

\* The barrier, the order on the way and the server's counts together: no
\* number is skipped, before or after a subscriber reads it, that the metrics
\* main subtracts (loadtest.rs:128-133) do not have.
LoadInv == TypeOK /\ Barrier /\ Quiet /\ InOrder /\ Accounted /\ LossesExplained

\* Once the start has been given the test comes to its report, or gives up,
\* whatever becomes of the connections: given that the server goes on serving
\* (ServerFair), nothing in the client makes it wait for ever.
StartedTestEnds == (clock # "before") ~> (main \in {"reported", "panicked"})

\* A subscriber that did not join ends the test with the message of the
\* expect of loadtest.rs:88.
FailedJoinEndsTest ==
  (main = "joining" /\ \E s \in Subscriber : Returned(s)) ~> (main = "panicked")
================================================================================
