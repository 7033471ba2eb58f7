------------------------------- MODULE WalPayloads -------------------------------
(***************************************************************************)
(* The payloads of the stream of WalReader.tla, byte by byte: Postgres     *)
(* encodes a message (external), the parsers of PgOutputBytes.tla read it. *)
(* WalReader goes on from the message itself; this module is why it may.   *)
(***************************************************************************)
EXTENDS WalReader, PgOutputBytes, SequencesExt

CONSTANTS
  Code,   \* table, column and document names, and texts -> their bytes
  Oid     \* table -> the four bytes of its relation id

MaxU16 == 65535
MaxI32 == 2147483647

TextByte == 1..254

\* Names and texts hold no zero byte (and 255 is in no UTF-8), and they and the
\* rows keep to limits of Postgres that are far below these.
ASSUME WalPayloadsAssumption ==
  /\ \A name \in DOMAIN Code : Code[name] \in Seq(TextByte) /\ Len(Code[name]) <= MaxI32
  /\ \A table \in DOMAIN Oid : Oid[table] \in Seq(0..255) /\ Len(Oid[table]) = 4
  /\ {"public"} \cup Text \cup DOMAIN Oid \subseteq DOMAIN Code
  /\ \A changes \in Transactions : \A i \in DOMAIN changes :
       /\ changes[i].table \in DOMAIN Oid
       /\ changes[i].columns \in Seq(DOMAIN Code)
       /\ Len(changes[i].columns) <= MaxU16

Bytes16(n) == <<n \div 256, n % 256>>
Bytes32(n) == Bytes16(n \div 65536) \o Bytes16(n % 65536)
CString(name) == Code[name] \o <<0>>

EncodeText(text) == Bytes32(Len(text)) \o text

EncodeValue(value) ==
  CASE value = Null -> <<Ascii.n>>
    [] value = Unchanged -> <<Ascii.u>>
    [] OTHER -> <<Ascii.t>> \o EncodeText(Code[value])

EncodeTuple(values) ==
  Bytes16(Len(values)) \o FlattenSeq([i \in DOMAIN values |-> EncodeValue(values[i])])

\* flags, name, type and an absent type modifier
EncodeColumn(name) == <<0>> \o CString(name) \o Bytes32(25) \o <<255, 255, 255, 255>>

\* the old tuple of a row: whole under REPLICA IDENTITY FULL, else its key
OldKind(table) == IF table = "comments" THEN Ascii.O ELSE Ascii.K

Encode(message) ==
  LET table == message.relation
      header == <<Ascii[message.tag]>> \o Oid[table]
  IN CASE message.tag = "R" ->
            header \o CString("public") \o CString(table) \o <<100>>
              \o Bytes16(Len(message.columns))
              \o FlattenSeq([i \in DOMAIN message.columns |-> EncodeColumn(message.columns[i])])
       [] message.tag = "I" -> header \o <<Ascii.N>> \o EncodeTuple(message.new)
       [] message.tag = "U" ->
            header \o (IF message.old = <<>> THEN <<>>
                       ELSE <<OldKind(table)>> \o EncodeTuple(message.old))
                   \o <<Ascii.N>> \o EncodeTuple(message.new)
       [] message.tag = "D" -> header \o <<OldKind(table)>> \o EncodeTuple(message.old)
       [] message.tag = "T" -> <<Ascii.T>> \o Bytes32(1) \o <<0>> \o Oid[table]

-----------------------------------------------------------------------------
\* a tuple as PgOutput has it, with the bytes of its texts
CodedTuple(values) ==
  [i \in DOMAIN values |->
     IF ParseTuple(values)[i] = Null THEN Null ELSE Code[values[i]]]

\* the message of PgOutput, with the bytes of its names and texts
Coded(message) ==
  IF message.tag = "R"
  THEN [tag |-> "R", relation |-> Oid[message.relation],
        columns |-> [i \in DOMAIN message.columns |-> Code[message.columns[i]]]]
  ELSE [tag |-> message.tag, relation |-> Oid[message.relation],
        old |-> CodedTuple(message.old), new |-> CodedTuple(message.new)]

\* what the parsers make of the payload of one message, whole and cut short
Decodes(message) ==
  LET data == Encode(message)
      parsed == ParsePgOutputMessages(data)
  IN IF ~ Parses(message) THEN parsed = Err("UnknownMessageTag")
     ELSE /\ parsed = Ok(<<Coded(message)>>, Len(data))
          /\ \A n \in 1..Len(data) - 1 :
               ParsePgOutputMessages(SubSeq(data, 1, n)) = Err("Truncated")

\* the message of the XLogData that is next in the stream
NextMessage == IF Announced THEN RowMessage(NextChange) ELSE RelationMessage(NextChange)

\* The bytes of every XLogData are parsed into exactly the message the reader is
\* modelled with; cut anywhere they are refused, never read past their end and
\* never taken for a shorter message (pgoutput.rs:63-199, byte_reader.rs:43-65).
PayloadsAreDecoded == AtChange => Decodes(NextMessage)
================================================================================
