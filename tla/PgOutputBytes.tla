------------------------------ MODULE PgOutputBytes ------------------------------
(***************************************************************************)
(* parse_pgoutput_messages (src/wal/pgoutput.rs) over the ByteReader of    *)
(* src/wal/byte_reader.rs: from the bytes of an XLogData payload to the    *)
(* messages of PgOutput.tla.  A parser takes the data and the reader's     *)
(* position and gives a value with the position after it, or an error.     *)
(*                                                                         *)
(* A u32 is its four bytes (it only identifies a relation) and a String    *)
(* its bytes.  A turn of a loop takes a byte or more: a loop makes no more *)
(* turns than there are bytes left before a read fails, or it is over.     *)
(***************************************************************************)
EXTENDS PgOutput, Integers

Ok(value, pos) == [ok |-> TRUE, value |-> value, pos |-> pos]
Err(error) == [ok |-> FALSE, error |-> error]

\* the ? operator: the rest of a parser, if this part of it did not fail
Then(result, Rest(_, _)) == IF result.ok THEN Rest(result.value, result.pos) ELSE result

-----------------------------------------------------------------------------
(* ByteReader.                                                             *)

ReadBytes_OneMore(data, pos, len) ==
  IF len >= Len(data) - pos THEN Err("Truncated")
  ELSE Ok(SubSeq(data, pos + 1, pos + len), pos + len)

ReadBytes(data, pos, len) ==
  IF len > Len(data) - pos THEN Err("Truncated")
  ELSE Ok(SubSeq(data, pos + 1, pos + len), pos + len)

ReadU8(data, pos) == Then(ReadBytes(data, pos, 1), LAMBDA b, p : Ok(b[1], p))

ReadU16(data, pos) == Then(ReadBytes(data, pos, 2), LAMBDA b, p : Ok(256 * b[1] + b[2], p))

ReadU32(data, pos) == ReadBytes(data, pos, 4)

ReadI32(data, pos) ==
  Then(ReadBytes(data, pos, 4), LAMBDA b, p :
    LET high == IF b[1] < 128 THEN b[1] ELSE b[1] - 256
    IN Ok(((high * 256 + b[2]) * 256 + b[3]) * 256 + b[4], p))

\* from_utf8, for payloads whose bytes are ASCII or 255: no text has a 255
Utf8(bytes, pos) ==
  IF \E i \in DOMAIN bytes : bytes[i] = 255 THEN Err("InvalidUtf8") ELSE Ok(bytes, pos)

ReadCString(data, pos) ==
  LET ends == {i \in pos + 1 .. Len(data) : data[i] = 0}
  IN IF ends = {} THEN Err("Truncated")
     ELSE LET end == CHOOSE i \in ends : \A j \in ends : i <= j
          IN Utf8(SubSeq(data, pos + 1, end - 1), end)

-----------------------------------------------------------------------------
(* The parsers of pgoutput.rs.                                             *)

Ascii == [R |-> 82, I |-> 73, U |-> 85, D |-> 68, T |-> 84, N |-> 78, K |-> 75, O |-> 79,
          n |-> 110, u |-> 117, t |-> 116, b |-> 98]

\* a loop: what is left of start after some turns of its body
Iterate(turns, start, Turn(_)) ==
  LET after[k \in 0..turns] == IF k = 0 THEN start ELSE Turn(after[k - 1])
  IN after[turns]

Push(items, result) == Then(result, LAMBDA item, p : Ok(Append(items, item), p))

\* for _ in 0..count, pushing what Item reads
Repeat(data, count, pos, Item(_, _)) ==
  LET left == Len(data) - pos + 1
  IN Iterate(IF count < left THEN count ELSE left, Ok(<<>>, pos),
       LAMBDA result : Then(result, LAMBDA items, p : Push(items, Item(data, p))))

ReadText(data, pos) ==
  Then(ReadI32(data, pos), LAMBDA len, p :
    IF len < 0 THEN Err("Truncated")
    ELSE Then(ReadBytes(data, p, len), Utf8))

ReadValue(data, pos) ==
  Then(ReadU8(data, pos), LAMBDA kind, p :
    CASE kind \in {Ascii.n, Ascii.u} -> Ok(Null, p)
      [] kind \in {Ascii.t, Ascii.b} -> ReadText(data, p)
      [] OTHER -> Err("UnsupportedTupleKind"))

\* parse_tuple
ReadTuple(data, pos) ==
  Then(ReadU16(data, pos), LAMBDA count, p : Repeat(data, count, p, ReadValue))

ReadColumn(data, pos) ==
  Then(ReadU8(data, pos), LAMBDA flags, p :
    Then(ReadCString(data, p), LAMBDA name, q :
      Then(ReadU32(data, q), LAMBDA oid, r :
        Then(ReadI32(data, r), LAMBDA modifier, s : Ok(name, s)))))

ParseRelation(data, pos) ==
  Then(ReadU32(data, pos), LAMBDA id, p :
    Then(ReadCString(data, p), LAMBDA namespace, q :
      Then(ReadCString(data, q), LAMBDA name, r :
        Then(ReadU8(data, r), LAMBDA identity, s :
          Then(ReadU16(data, s), LAMBDA count, t :
            Then(Repeat(data, count, t, ReadColumn), LAMBDA columns, u :
              Ok([tag |-> "R", relation |-> id, columns |-> columns], u)))))))

ParseInsert(data, pos) ==
  Then(ReadU32(data, pos), LAMBDA id, p :
    Then(ReadU8(data, p), LAMBDA kind, q :
      IF kind # Ascii.N THEN Err("UnknownMessageTag")
      ELSE Then(ReadTuple(data, q), LAMBDA new, r :
             Ok([tag |-> "I", relation |-> id, old |-> <<>>, new |-> new], r))))

\* a turn of the loop of parse_update: of the old tuples the last stays, N ends it
UpdateTurn(data, result) ==
  Then(result, LAMBDA tuples, p :
    IF tuples.new # <<>> THEN Ok(tuples, p)
    ELSE Then(ReadU8(data, p), LAMBDA kind, q :
           CASE kind \in {Ascii.K, Ascii.O} ->
                  Then(ReadTuple(data, q), LAMBDA old, r : Ok([old |-> old, new |-> <<>>], r))
             [] kind = Ascii.N ->
                  Then(ReadTuple(data, q), LAMBDA new, r : Ok([tuples EXCEPT !.new = <<new>>], r))
             [] OTHER -> Err("UnknownMessageTag")))

ParseUpdate(data, pos) ==
  Then(ReadU32(data, pos), LAMBDA id, p :
    Then(Iterate(Len(data) - p + 1, Ok([old |-> <<>>, new |-> <<>>], p),
                 LAMBDA result : UpdateTurn(data, result)),
      LAMBDA tuples, q :
        Ok([tag |-> "U", relation |-> id, old |-> tuples.old, new |-> tuples.new[1]], q)))

ParseDelete(data, pos) ==
  Then(ReadU32(data, pos), LAMBDA id, p :
    Then(ReadU8(data, p), LAMBDA kind, q :
      IF kind \notin {Ascii.K, Ascii.O} THEN Err("UnknownMessageTag")
      ELSE Then(ReadTuple(data, q), LAMBDA old, r :
             Ok([tag |-> "D", relation |-> id, old |-> old, new |-> <<>>], r))))

ParseMessage(data, pos) ==
  Then(ReadU8(data, pos), LAMBDA tag, p :
    CASE tag = Ascii.R -> ParseRelation(data, p)
      [] tag = Ascii.I -> ParseInsert(data, p)
      [] tag = Ascii.U -> ParseUpdate(data, p)
      [] tag = Ascii.D -> ParseDelete(data, p)
      [] OTHER -> Err("UnknownMessageTag"))

\* while !reader.is_empty()
ParsePgOutputMessages(data) ==
  Iterate(Len(data), Ok(<<>>, 0), LAMBDA result : Then(result, LAMBDA messages, p :
    IF p = Len(data) THEN Ok(messages, p) ELSE Push(messages, ParseMessage(data, p))))
================================================================================
