-------------------------------- MODULE PgOutput --------------------------------
(***************************************************************************)
(* What the WAL reader makes of one pgoutput message (src/wal/pgoutput.rs):*)
(* parse_pgoutput_messages, and pgoutput_to_wal_event with the relations   *)
(* it has been told of.  A message is its tag, its relation and its        *)
(* tuples; an XLogData payload carries one message, as the protocol of     *)
(* logical replication has it.  A tuple that is absent is the empty        *)
(* sequence: no column can be read from either.                            *)
(***************************************************************************)
EXTENDS Hints, Sequences, Naturals

CONSTANT Unchanged   \* the tuple kind 'u': a TOASTed column the UPDATE kept

ASSUME PgOutputAssumption == Unchanged \notin Text

\* parse_tuple: the values of a tuple on the wire
ParseTuple(values) ==
  [i \in DOMAIN values |-> IF values[i] = Unchanged THEN Null ELSE values[i]]

\* the tags parse_pgoutput_messages knows; any other fails the whole payload
Parses(message) == message.tag \in {"R", "I", "U", "D"}

\* TupleData::from_values: short tuples are padded with Null
FromValues(columns, values) ==
  [name \in {columns[i] : i \in DOMAIN columns} |->
     LET idx == CHOOSE i \in DOMAIN columns : columns[i] = name
     IN IF idx <= Len(values) THEN values[idx] ELSE Null]

\* A Relation message that differs from the one known under its id
SchemaChange(relations, message) ==
  /\ message.tag = "R"
  /\ message.relation \in DOMAIN relations
  /\ relations[message.relation] # message.columns

\* relations after a Relation message that is no schema change
Learn(relations, message) ==
  [r \in DOMAIN relations \cup {message.relation} |->
     IF r = message.relation THEN message.columns ELSE relations[r]]

\* the WalEvent of a row message: none if its relation is unknown
Events(relations, message) ==
  IF message.tag \in {"I", "U", "D"} /\ message.relation \in DOMAIN relations
  THEN LET columns == relations[message.relation] IN
       {[table |-> message.relation,
         op |-> CASE message.tag = "I" -> "insert"
                  [] message.tag = "U" -> "update"
                  [] message.tag = "D" -> "delete",
         old |-> FromValues(columns, ParseTuple(message.old)),
         new |-> FromValues(columns, ParseTuple(message.new))]}
  ELSE {}
================================================================================
