------------------------------ MODULE Notifications ------------------------------
(***************************************************************************)
(* What the whole server promises the database and the peers, with no      *)
(* reader, channel, room or session in it: the transactions are settled    *)
(* as Invalidator says, and a peer hears of a transaction only once it is  *)
(* committed and settled for that room, and never of an earlier one after  *)
(* a later.  A server that is started again has new peers, which have      *)
(* heard nothing; what the database was promised goes on.                  *)
(***************************************************************************)
EXTENDS Naturals, Sequences

CONSTANTS
  ClientId,        \* the peers
  Transactions,    \* what a transaction may do
  OwedRooms(_)     \* the rooms a transaction concerns

VARIABLES
  log, confirmed, settled,   \* see Invalidator
  heard                      \* the pairs <<transaction, room>> each peer has received

Database == INSTANCE Invalidator

vars == <<log, confirmed, settled, heard>>

Nothing == [c \in ClientId |-> {}]

Init == Database!Init /\ heard = Nothing

Hear(c, t, room) ==
  /\ <<t, room>> \in settled
  /\ \A earlier \in heard[c] : earlier[1] <= t
  /\ heard' = [heard EXCEPT ![c] = @ \cup {<<t, room>>}]
  /\ UNCHANGED <<log, confirmed, settled>>

Renew ==
  /\ heard' = Nothing
  /\ UNCHANGED <<log, confirmed, settled>>

Next ==
  \/ Database!Next /\ UNCHANGED heard
  \/ \E c \in ClientId : \E t \in DOMAIN log : \E room \in OwedRooms(log[t]) : Hear(c, t, room)
  \/ Renew

Spec == Init /\ [][Next]_vars
================================================================================
