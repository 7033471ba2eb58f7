----------------------------- MODULE MCMiniGraph -----------------------------
(* A small server: two peers, and transactions that insert a comment.         *)
EXTENDS MiniGraph

CONSTANTS alice, bob, doc1, doc2

MCClientId == {alice, bob}
OneClient == {alice}
OneFrame == [c \in OneClient |-> 1]
OneDocument == {doc1}
TwoDocuments == {doc1, doc2}
TwoAndOne == [c \in MCClientId |-> IF c = alice THEN 2 ELSE 1]

Insert ==
  <<[table |-> "comments", op |-> "insert", columns |-> <<"id", "document_id">>,
     old |-> Null, new |-> doc1]>>
Inserts == {Insert}

\* The steps in which no peer disconnects, for the properties of a calm room.
CalmSystem == SystemInit /\ [][SystemNext /\ UNCHANGED socket]_systemVars
=============================================================================
