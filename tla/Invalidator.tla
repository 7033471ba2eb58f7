------------------------------ MODULE Invalidator ------------------------------
(***************************************************************************)
(* What the database and its users are promised of the WAL reader,         *)
(* whatever it does inside: the transactions are settled in commit order,  *)
(* and Postgres forgets one only when every room it concerns has been sent *)
(* its invalidation or had it counted as dropped.  Settling something      *)
(* again, after a crash, is not seen here.                                 *)
(***************************************************************************)
EXTENDS Naturals, Sequences

CONSTANTS
  Transactions,    \* what a transaction may do
  OwedRooms(_)     \* the rooms a transaction concerns

VARIABLES
  log,         \* the committed transactions
  confirmed,   \* how many of them Postgres has forgotten
  settled      \* the pairs <<transaction, room>> sent or counted as dropped

vars == <<log, confirmed, settled>>

Init == log = <<>> /\ confirmed = 0 /\ settled = {}

\* nothing is owed for the transactions 1..t
SettledUpTo(t) == \A u \in 1..t : \A room \in OwedRooms(log[u]) : <<u, room>> \in settled

Commit(changes) ==
  /\ log' = Append(log, changes)
  /\ UNCHANGED <<confirmed, settled>>

Settle(t, room) ==
  /\ SettledUpTo(t - 1)
  /\ room \in OwedRooms(log[t])
  /\ settled' = settled \cup {<<t, room>>}
  /\ UNCHANGED <<log, confirmed>>

Forget(t) ==
  /\ t > confirmed
  /\ SettledUpTo(t)
  /\ confirmed' = t
  /\ UNCHANGED <<log, settled>>

Next ==
  \/ \E changes \in Transactions : Commit(changes)
  \/ \E t \in DOMAIN log : \E room \in OwedRooms(log[t]) : Settle(t, room)
  \/ \E t \in DOMAIN log : Forget(t)

Spec == Init /\ [][Next]_vars
================================================================================
