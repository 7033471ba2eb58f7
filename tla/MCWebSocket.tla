----------------------------- MODULE MCWebSocket -----------------------------
(* The small instances of WebSocket.tla that TLC checks.                   *)
EXTENDS WebSocket

CONSTANTS alice, bob, doc1, doc2

MCClientId == {alice, bob}
OneDocument == {doc1}
TwoDocuments == {doc1, doc2}

\* frames per peer
OneAndOne == [c \in MCClientId |-> 1]
TwoAndOne == [c \in MCClientId |-> IF c = alice THEN 2 ELSE 1]
=============================================================================
