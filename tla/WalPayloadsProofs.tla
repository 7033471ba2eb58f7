--------------------------- MODULE WalPayloadsProofs ---------------------------
(***************************************************************************)
(* The parsers of PgOutputBytes.tla read back what Postgres encodes, for   *)
(* messages of every size: PayloadsAreDecoded is an invariant of           *)
(* WalReader.tla.                                                          *)
(*                                                                         *)
(* The loops of the parsers are functions on the number of turns; what     *)
(* they compute is found by induction, in the form of the least turn that  *)
(* goes wrong.                                                             *)
(***************************************************************************)
EXTENDS WalPayloads, WalReaderProofs, WellFoundedInduction

-----------------------------------------------------------------------------
(* Induction over the turns of a loop.                                     *)

\* A set of numbers that is not empty has a least one.
LEMMA LeastNumber ==
  ASSUME NEW T \in SUBSET Nat, T # {}
  PROVE  \E m \in T : \A n \in T : m <= n
<1> PICK t \in T : TRUE
  OBVIOUS
<1> DEFINE Below(n) == 0..n
           B == {Below(n) : n \in {k \in T : k <= t}}
           S == 0..t
<1>1. IsFiniteSet(S)
  BY FS_Interval
<1>2. FiniteSubsetsOf(S) = SUBSET S
  BY <1>1, FS_FiniteSubsetsOfFinite
<1>3. IsWellFoundedOn(StrictSubsetOrdering(S), SUBSET S)
  BY <1>2, FS_StrictSubsetOrderingWellFounded
<1>4. B \subseteq SUBSET S /\ B # {}
  OBVIOUS
<1>5. \E b \in B : \A c \in B : <<c, b>> \notin StrictSubsetOrdering(S)
  <2> HIDE DEF B, S
  <2> QED BY <1>3, <1>4, WFMin, Zenon
<1>6. PICK m \in T : m <= t /\ \A c \in B : <<c, Below(m)>> \notin StrictSubsetOrdering(S)
  BY <1>5
<1>7. ASSUME NEW n \in T, n < m PROVE FALSE
  <2>1. Below(n) \in B /\ Below(m) \in B
    BY <1>6, <1>7
  <2>2. Below(n) \subseteq Below(m) /\ m \in Below(m) /\ m \notin Below(n)
    BY <1>7
  <2>3. <<Below(n), Below(m)>> \in StrictSubsetOrdering(S)
    BY <1>4, <2>1, <2>2 DEF StrictSubsetOrdering
  <2> QED BY <1>6, <2>1, <2>3
<1> QED BY <1>6, <1>7

\* A set that 0 is in, and k wherever k - 1 is, has all numbers up to t.
LEMMA Turns ==
  ASSUME NEW t \in Nat, NEW T, 0 \in T, \A k \in 1..t : k - 1 \in T => k \in T
  PROVE  0..t \subseteq T
<1> SUFFICES ASSUME NEW j \in 0..t, j \notin T PROVE FALSE
  OBVIOUS
<1> DEFINE Wrong == {k \in 0..t : k \notin T}
<1>1. PICK k \in Wrong : \A n \in Wrong : k <= n
  <2>1. Wrong \in SUBSET Nat /\ Wrong # {}
    OBVIOUS
  <2> HIDE DEF Wrong
  <2> QED BY <2>1, LeastNumber
<1>2. k \in 1..t /\ k - 1 \in 0..t /\ k - 1 \notin Wrong
  BY <1>1
<1> QED BY <1>1, <1>2

\* f and g start alike, and from turns that are alike make turns that are
Parallel(t, f, g) ==
  f[0] = g[0] /\ \A k \in 1..t : f[k - 1] = g[k - 1] => f[k] = g[k]

\* A function that obeys the equations of a loop is what its definition by
\* recursion denotes.
LEMMA SameTurns ==
  ASSUME NEW t \in Nat, NEW f, NEW g, Parallel(t, f, g)
  PROVE  f[t] = g[t]
<1> DEFINE Same == {k \in 0..t : f[k] = g[k]}
<1>1. \A k \in 1..t : k - 1 \in Same => k \in Same
  BY DEF Parallel
<1>2. 0 \in Same /\ t \in 0..t
  BY DEF Parallel
<1> HIDE DEF Same
<1>3. 0..t \subseteq Same
  BY <1>1, <1>2, Turns
<1> QED BY <1>2, <1>3 DEF Same

-----------------------------------------------------------------------------
(* Sequences: parts of data, and what FlattenSeq makes of its parts.       *)

\* data agrees with enc from a position on, as far as the data goes
At(data, p, enc) ==
  \A i \in 1..Len(enc) : p + i <= Len(data) => data[p + i] = enc[i]

\* what a parser owes for enc at a position: its value, or that it is cut off
Outcome(data, p, enc, value) ==
  IF p + Len(enc) <= Len(data) THEN Ok(value, p + Len(enc)) ELSE Err("Truncated")

Byte == 0..255

\* The parts of a concatenation lie behind one another.
LEMMA AtParts ==
  ASSUME NEW data, NEW p \in Nat, NEW a \in Seq(Byte), NEW b \in Seq(Byte),
         Len(data) \in Nat, At(data, p, a \o b)
  PROVE  /\ At(data, p, a)
         /\ At(data, p + Len(a), b)
         /\ a \o b \in Seq(Byte)
         /\ Len(a) \in Nat /\ Len(b) \in Nat
         /\ Len(a \o b) = Len(a) + Len(b)
<1> DEFINE c == a \o b
<1>1. /\ c \in Seq(Byte) /\ Len(c) = Len(a) + Len(b)
      /\ \A i \in 1 .. Len(a) + Len(b) : c[i] = IF i <= Len(a) THEN a[i] ELSE b[i - Len(a)]
  BY ConcatProperties
<1>2. Len(a) \in Nat /\ Len(b) \in Nat
  BY LenProperties
<1>3. At(data, p, c)
  OBVIOUS
<1> HIDE DEF c
<1>4. At(data, p, a)
  BY <1>1, <1>2, <1>3 DEF At
<1>5. ASSUME NEW i \in 1..Len(b), p + Len(a) + i <= Len(data)
      PROVE  data[p + Len(a) + i] = b[i]
  <2> DEFINE j == Len(a) + i
  <2>1. j \in 1 .. Len(a) + Len(b) /\ ~ (j <= Len(a)) /\ j - Len(a) = i /\ p + j = p + Len(a) + i
    BY <1>2
  <2> HIDE DEF j
  <2>2. c[j] = b[i]
    BY <1>1, <2>1
  <2>3. data[p + j] = c[j]
    BY <1>1, <1>3, <1>5, <2>1 DEF At
  <2> QED BY <2>1, <2>2, <2>3
<1> QED BY <1>1, <1>2, <1>4, <1>5 DEF At, c

-----------------------------------------------------------------------------
(* ByteReader.                                                             *)

\* the bytes that are read, where the data goes on far enough
LEMMA SubSeqAt ==
  ASSUME NEW data \in Seq(Byte), NEW p \in 0..Len(data), NEW enc \in Seq(Byte),
         At(data, p, enc), p + Len(enc) <= Len(data)
  PROVE  SubSeq(data, p + 1, p + Len(enc)) = enc
<1> DEFINE n == Len(enc)
           l == p + 1
           h == p + n
           read == SubSeq(data, l, h)
<1>1. n \in Nat /\ Len(data) \in Nat
  BY LenProperties
<1>2. \A i \in l..h : data[i] \in Byte
  BY <1>1, ElementOfSeq
<1>3. l \in Int /\ h \in Int /\ h - l + 1 = n /\ (~ l <= h => n = 0)
  BY <1>1
<1>4. \A i \in 1..n : l + i - 1 = p + i /\ p + i <= Len(data)
  BY <1>1
<1> HIDE DEF l, h
<1>5. /\ read \in Seq(Byte)
      /\ Len(read) = IF l <= h THEN h - l + 1 ELSE 0
      /\ \A i \in 1 .. h - l + 1 : read[i] = data[l + i - 1]
  BY <1>2, <1>3, SubSeqProperties
<1>6. read \in Seq(Byte) /\ Len(read) = n /\ \A i \in 1..n : read[i] = data[p + i]
  BY <1>1, <1>3, <1>4, <1>5
<1> HIDE DEF read
<1>7. \A i \in 1..n : read[i] = enc[i]
  BY <1>4, <1>6 DEF At
<1>8. read = enc
  BY <1>1, <1>6, <1>7, SeqEqual
<1> QED BY <1>8 DEF read, l, h

LEMMA ReadBytesAt ==
  ASSUME NEW data \in Seq(Byte), NEW p \in 0..Len(data), NEW enc \in Seq(Byte),
         At(data, p, enc)
  PROVE  ReadBytes(data, p, Len(enc)) = Outcome(data, p, enc, enc)
<1>1. Len(enc) \in Nat /\ Len(data) \in Nat
  BY LenProperties
<1>2. p + Len(enc) <= Len(data) <=> ~ (Len(enc) > Len(data) - p)
  BY <1>1
<1>3. CASE p + Len(enc) <= Len(data)
  BY <1>2, <1>3, SubSeqAt DEF ReadBytes, Outcome
<1>4. CASE ~ (p + Len(enc) <= Len(data))
  BY <1>2, <1>4 DEF ReadBytes, Outcome
<1> QED BY <1>3, <1>4

\* what Then finds in a result
LEMMA Results ==
  /\ \A value, p : Ok(value, p).ok /\ Ok(value, p).value = value /\ Ok(value, p).pos = p
  /\ \A error : ~ Err(error).ok
  BY DEF Ok, Err

LEMMA ReadU8At ==
  ASSUME NEW data \in Seq(Byte), NEW p \in 0..Len(data), NEW b \in Byte,
         At(data, p, <<b>>)
  PROVE  ReadU8(data, p) = Outcome(data, p, <<b>>, b)
<1>1. <<b>> \in Seq(Byte) /\ Len(<<b>>) = 1
  OBVIOUS
<1>2. ReadBytes(data, p, 1) = Outcome(data, p, <<b>>, <<b>>)
  BY <1>1, ReadBytesAt
<1> QED BY <1>2, Results DEF ReadU8, Then, Outcome

\* the ranges of integers, without their enumeration
LEMMA Ranges ==
  /\ MaxU16 \in Nat /\ MaxU16 <= 65535 /\ MaxU16 >= 65535
  /\ MaxI32 \in Nat /\ MaxI32 <= 2147483647 /\ MaxI32 >= 25
  /\ \A n : n \in Byte <=> n \in Nat /\ n <= 255
<1>1. /\ MaxU16 \in Nat /\ MaxU16 <= 65535 /\ MaxU16 >= 65535
      /\ MaxI32 \in Nat /\ MaxI32 <= 2147483647 /\ MaxI32 >= 25
  BY SMT DEF MaxU16, MaxI32
<1>2. \A n : n \in Byte <=> n \in Nat /\ n <= 255
  BY SMT DEF Byte
<1> QED BY <1>1, <1>2

LEMMA Bytes16Value ==
  ASSUME NEW n \in 0..MaxU16
  PROVE  /\ Bytes16(n) \in Seq(Byte) /\ Len(Bytes16(n)) = 2
         /\ 256 * Bytes16(n)[1] + Bytes16(n)[2] = n
<1>1. n \in Nat /\ n < 65536
  BY Ranges, SMT
<1>2. /\ n \div 256 \in Nat /\ n \div 256 <= 255 /\ n % 256 \in Nat /\ n % 256 <= 255
      /\ 256 * (n \div 256) + (n % 256) = n
  BY <1>1, SMT
<1>3. n \div 256 \in Byte /\ n % 256 \in Byte
  BY <1>2, Ranges, SMT
<1> QED BY <1>2, <1>3, SMT DEF Bytes16

LEMMA ReadU16At ==
  ASSUME NEW data \in Seq(Byte), NEW p \in 0..Len(data), NEW n \in 0..MaxU16,
         At(data, p, Bytes16(n))
  PROVE  ReadU16(data, p) = Outcome(data, p, Bytes16(n), n)
<1>1. ReadBytes(data, p, 2) = Outcome(data, p, Bytes16(n), Bytes16(n))
  BY Bytes16Value, ReadBytesAt
<1> QED BY <1>1, Bytes16Value, Results DEF ReadU16, Then, Outcome

LEMMA ReadU32At ==
  ASSUME NEW data \in Seq(Byte), NEW p \in 0..Len(data), NEW enc \in Seq(Byte),
         Len(enc) = 4, At(data, p, enc)
  PROVE  ReadU32(data, p) = Outcome(data, p, enc, enc)
  BY ReadBytesAt DEF ReadU32

LEMMA Bytes32Value ==
  ASSUME NEW n \in 0..MaxI32
  PROVE  /\ Bytes32(n) \in Seq(Byte) /\ Len(Bytes32(n)) = 4 /\ Bytes32(n)[1] < 128
         /\ ((Bytes32(n)[1] * 256 + Bytes32(n)[2]) * 256 + Bytes32(n)[3]) * 256
              + Bytes32(n)[4] = n
<1> DEFINE high == n \div 65536
           low == n % 65536
<1>1. n \in Nat /\ n < 2147483648
  BY Ranges, SMT
<1>2. high \in Nat /\ high < 32768 /\ low \in Nat /\ low < 65536 /\ 65536 * high + low = n
  BY <1>1, SMT
<1> HIDE DEF high, low
<1>3. Bytes32(n) = Bytes16(high) \o Bytes16(low)
  BY SMT DEF Bytes32, high, low
<1>4. high \in 0..MaxU16 /\ low \in 0..MaxU16
  BY <1>2, Ranges, SMT
<1>5. /\ Bytes16(high) \in Seq(Byte) /\ Len(Bytes16(high)) = 2
      /\ 256 * Bytes16(high)[1] + Bytes16(high)[2] = high
      /\ Bytes16(low) \in Seq(Byte) /\ Len(Bytes16(low)) = 2
      /\ 256 * Bytes16(low)[1] + Bytes16(low)[2] = low
  BY <1>4, Bytes16Value
<1>6. /\ Bytes32(n) \in Seq(Byte) /\ Len(Bytes32(n)) = 4
      /\ Bytes32(n)[1] = Bytes16(high)[1] /\ Bytes32(n)[2] = Bytes16(high)[2]
      /\ Bytes32(n)[3] = Bytes16(low)[1] /\ Bytes32(n)[4] = Bytes16(low)[2]
  <2> DEFINE a == Bytes16(high)
             b == Bytes16(low)
  <2>1. a \in Seq(Byte) /\ b \in Seq(Byte) /\ Len(a) = 2 /\ Len(b) = 2
    BY <1>5
  <2> HIDE DEF a, b
  <2>2. /\ a \o b \in Seq(Byte) /\ Len(a \o b) = Len(a) + Len(b)
        /\ \A i \in 1 .. Len(a) + Len(b) :
             (a \o b)[i] = IF i <= Len(a) THEN a[i] ELSE b[i - Len(a)]
    BY <2>1, ConcatProperties
  <2>3. /\ Len(a \o b) = 4
        /\ (a \o b)[1] = a[1] /\ (a \o b)[2] = a[2] /\ (a \o b)[3] = b[1] /\ (a \o b)[4] = b[2]
    BY <2>1, <2>2
  <2> QED BY <1>3, <2>2, <2>3 DEF a, b
<1>7. \A i \in 1..4 : Bytes32(n)[i] \in Nat /\ Bytes32(n)[i] <= 255
  <2> DEFINE enc == Bytes32(n)
  <2>1. enc \in Seq(Byte) /\ Len(enc) = 4
    BY <1>6
  <2> HIDE DEF enc
  <2>2. \A i \in 1..4 : enc[i] \in Byte
    BY <2>1, ElementOfSeq
  <2> QED BY <2>2, Ranges DEF enc
<1> DEFINE b1 == Bytes32(n)[1]
           b2 == Bytes32(n)[2]
           b3 == Bytes32(n)[3]
           b4 == Bytes32(n)[4]
<1>8. /\ b1 \in Nat /\ b2 \in Nat /\ b3 \in Nat /\ b4 \in Nat
      /\ 256 * b1 + b2 = high /\ 256 * b3 + b4 = low
  BY <1>5, <1>6, <1>7
<1> HIDE DEF b1, b2, b3, b4
<1>9. b1 < 128 /\ ((b1 * 256 + b2) * 256 + b3) * 256 + b4 = n
  BY <1>2, <1>8
<1> QED BY <1>6, <1>9 DEF b1, b2, b3, b4

\* a length, which is no negative number
LEMMA ReadI32At ==
  ASSUME NEW data \in Seq(Byte), NEW p \in 0..Len(data), NEW n \in 0..MaxI32,
         At(data, p, Bytes32(n))
  PROVE  ReadI32(data, p) = Outcome(data, p, Bytes32(n), n)
<1>1. ReadBytes(data, p, 4) = Outcome(data, p, Bytes32(n), Bytes32(n))
  BY Bytes32Value, ReadBytesAt
<1> QED BY <1>1, Bytes32Value, Results DEF ReadI32, Then, Outcome

\* any four bytes
LEMMA ReadSomeI32At ==
  ASSUME NEW data \in Seq(Byte), NEW p \in 0..Len(data), NEW enc \in Seq(Byte),
         Len(enc) = 4, At(data, p, enc)
  PROVE  \E n : ReadI32(data, p) = Outcome(data, p, enc, n)
<1>1. ReadBytes(data, p, 4) = Outcome(data, p, enc, enc)
  BY ReadBytesAt
<1> QED BY <1>1, Results DEF ReadI32, Then, Outcome

LEMMA OneByte ==
  ASSUME NEW b \in Byte
  PROVE  <<b>> \in Seq(Byte) /\ Len(<<b>>) = 1 /\ <<b>>[1] = b
  OBVIOUS

\* a text is bytes that end no string and that are UTF-8
LEMMA TextBytes ==
  ASSUME NEW text \in Seq(TextByte)
  PROVE  /\ text \in Seq(Byte) /\ Len(text) \in Nat
         /\ \A i \in 1..Len(text) : text[i] # 0 /\ text[i] # 255
         /\ \A p : Utf8(text, p) = Ok(text, p)
<1>1. \A b \in TextByte : b \in Byte /\ b # 0 /\ b # 255
  BY SMT DEF TextByte, Byte
<1>2. Len(text) \in Nat /\ DOMAIN text = 1..Len(text)
  BY LenProperties
<1>3. \A i \in 1..Len(text) : text[i] \in TextByte
  BY ElementOfSeq
<1>4. text \in Seq(Byte)
  BY <1>1
<1> QED BY <1>1, <1>2, <1>3, <1>4 DEF Utf8

LEMMA ReadCStringAt ==
  ASSUME NEW data \in Seq(Byte), NEW p \in 0..Len(data), NEW name \in Seq(TextByte),
         At(data, p, name \o << 0 >>)
  PROVE  ReadCString(data, p) = Outcome(data, p, name \o << 0 >>, name)
<1> DEFINE n == Len(name)
           end == p + n + 1
           ends == {i \in p + 1 .. Len(data) : data[i] = 0}
<1>1. /\ n \in Nat /\ Len(data) \in Nat /\ name \in Seq(Byte)
      /\ \A i \in 1..n : name[i] # 0
  BY TextBytes, LenProperties
<1>2. <<0>> \in Seq(Byte) /\ Len(<<0>>) = 1 /\ <<0>>[1] = 0
  <2>1. 0 \in Byte
    BY SMT DEF Byte
  <2> QED BY <2>1, OneByte
<1>3. At(data, p, name) /\ At(data, p + n, <<0>>) /\ Len(name \o <<0>>) = n + 1
  <2> DEFINE nul == <<0>>
  <2>1. p \in Nat /\ nul \in Seq(Byte) /\ At(data, p, name \o nul)
    BY <1>1, <1>2
  <2>2. Len(nul) = 1
    BY <1>2
  <2> HIDE DEF nul
  <2>3. At(data, p, name) /\ At(data, p + n, nul) /\ Len(name \o nul) = n + Len(nul)
    BY <1>1, <2>1, AtParts
  <2> QED BY <2>2, <2>3 DEF nul
<1>4. \A i \in ends : i >= end
  <2> SUFFICES ASSUME NEW i \in ends, i < end PROVE FALSE
    BY <1>1
  <2> DEFINE k == i - p
  <2>1. k \in 1..n /\ p + k = i /\ i <= Len(data)
    BY <1>1
  <2>2. data[p + k] = name[k]
    BY <1>3, <2>1 DEF At
  <2> QED BY <1>1, <2>1, <2>2
<1>5. CASE end <= Len(data)
  <2>1. end \in ends
    BY <1>1, <1>2, <1>3, <1>5 DEF At
  <2>2. (CHOOSE i \in ends : \A j \in ends : i <= j) = end
    BY <1>1, <1>4, <2>1
  <2>3. SubSeq(data, p + 1, end - 1) = name
    BY <1>1, <1>3, <1>5, SubSeqAt
  <2>4. ReadCString(data, p) = Utf8(name, end)
    <3>1. ends # {}
      BY <2>1
    <3> QED BY <2>2, <2>3, <3>1 DEF ReadCString
  <2>5. ReadCString(data, p) = Ok(name, end)
    BY <2>4, TextBytes
  <2> QED BY <1>1, <1>3, <1>5, <2>5 DEF Outcome
<1>6. CASE ~ (end <= Len(data))
  <2>1. ends = {}
    BY <1>1, <1>4, <1>6
  <2>2. ReadCString(data, p) = Err("Truncated")
    BY <2>1 DEF ReadCString
  <2> QED BY <1>1, <1>3, <1>6, <2>2 DEF Outcome
<1> QED BY <1>5, <1>6

LEMMA EncodedText ==
  ASSUME NEW text \in Seq(TextByte), Len(text) <= MaxI32
  PROVE  /\ Len(text) \in 0..MaxI32 /\ text \in Seq(Byte)
         /\ Bytes32(Len(text)) \in Seq(Byte) /\ EncodeText(text) \in Seq(Byte)
<1>1. Len(text) \in 0..MaxI32 /\ text \in Seq(Byte)
  BY TextBytes, Ranges
<1> DEFINE a == Bytes32(Len(text))
<1>2. a \in Seq(Byte)
  BY <1>1, Bytes32Value
<1> HIDE DEF a
<1>3. a \o text \in Seq(Byte)
  BY <1>1, <1>2
<1> QED BY <1>1, <1>2, <1>3 DEF EncodeText, a

-----------------------------------------------------------------------------
(* One read after another.                                                 *)

\* enc is cut off; or it is read up to q; or what is left of it at q is part
Cut(data, p, enc) == \A v : Outcome(data, p, enc, v) = Err("Truncated")
ReadTo(data, p, enc, q) == \A v : Outcome(data, p, enc, v) = Ok(v, q)
Left(data, p, enc, q, part) ==
  At(data, q, part) /\ \A v : Outcome(data, p, enc, v) = Outcome(data, q, part, v)

\* What is read of a and of what follows it: both are cut off with a, or the
\* rest is read where a ends.
LEMMA Sequel ==
  ASSUME NEW data \in Seq(Byte), NEW p \in 0..Len(data), NEW a \in Seq(Byte),
         NEW b \in Seq(Byte), At(data, p, a \o b)
  PROVE  /\ At(data, p, a)
         /\ \/ Cut(data, p, a) /\ Cut(data, p, a \o b)
            \/ \E q \in 0..Len(data) : ReadTo(data, p, a, q) /\ Left(data, p, a \o b, q, b)
<1>1. Len(data) \in Nat /\ p \in Nat
  BY LenProperties
<1>2. /\ At(data, p, a) /\ At(data, p + Len(a), b)
      /\ Len(a) \in Nat /\ Len(b) \in Nat /\ Len(a \o b) = Len(a) + Len(b)
  BY <1>1, AtParts
<1> DEFINE q == p + Len(a)
           c == a \o b
<1>3. q \in Nat /\ p + Len(c) = q + Len(b)
  BY <1>1, <1>2
<1>4. At(data, q, b) /\ Len(b) \in Nat
  BY <1>2
<1>5. CASE q <= Len(data)
  <2>1. ReadTo(data, p, a, q)
    BY <1>5 DEF Outcome, ReadTo
  <2> HIDE DEF c, q
  <2>2. Left(data, p, c, q, b)
    BY <1>3, <1>4 DEF Outcome, Left
  <2>3. q \in 0..Len(data)
    BY <1>1, <1>3, <1>5
  <2> QED BY <1>2, <2>1, <2>2, <2>3 DEF c
<1>6. CASE ~ (q <= Len(data))
  <2>1. Cut(data, p, a)
    BY <1>6 DEF Outcome, Cut
  <2> HIDE DEF c, q
  <2>2. ~ (p + Len(c) <= Len(data))
    BY <1>1, <1>3, <1>4, <1>6
  <2>3. Cut(data, p, c)
    BY <2>2 DEF Outcome, Cut
  <2> QED BY <1>2, <2>1, <2>3 DEF c
<1> QED BY <1>5, <1>6

\* What is read at the end of an encoding.
LEMMA Ending ==
  ASSUME NEW data \in Seq(Byte), NEW p \in 0..Len(data), NEW a \in Seq(Byte)
  PROVE  Cut(data, p, a) \/ \E q \in 0..Len(data) : ReadTo(data, p, a, q)
<1>1. Len(data) \in Nat /\ Len(a) \in Nat
  BY LenProperties
<1> DEFINE q == p + Len(a)
<1>2. CASE q <= Len(data)
  BY <1>1, <1>2 DEF Outcome, ReadTo
<1>3. CASE ~ (q <= Len(data))
  BY <1>3 DEF Outcome, Cut
<1> QED BY <1>2, <1>3

\* A parser, as a function of the position, reads enc as value wherever it is.
Reads(data, parser, enc, value) ==
  \A p \in 0..Len(data) : At(data, p, enc) => parser[p] = Outcome(data, p, enc, value)

\* whole is first, and where that has read value, rest
Chains(data, whole, first, value, rest) ==
  \A p \in 0..Len(data) :
    /\ ~ first[p].ok => whole[p] = first[p]
    /\ first[p].ok /\ first[p].value = value /\ first[p].pos \in 0..Len(data)
         => whole[p] = rest[first[p].pos]

\* A parser that goes on with another reads what the two read, one behind the other.
LEMMA ThenReads ==
  ASSUME NEW data \in Seq(Byte), NEW a \in Seq(Byte), NEW b \in Seq(Byte),
         NEW first, NEW rest, NEW whole, NEW v, NEW w,
         Reads(data, first, a, v), Reads(data, rest, b, w),
         Chains(data, whole, first, v, rest)
  PROVE  Reads(data, whole, a \o b, w)
<1> SUFFICES ASSUME NEW p \in 0..Len(data), At(data, p, a \o b)
             PROVE  whole[p] = Outcome(data, p, a \o b, w)
  BY DEF Reads
<1> DEFINE c == a \o b
<1>1. /\ At(data, p, a)
      /\ \/ Cut(data, p, a) /\ Cut(data, p, c)
         \/ \E q \in 0..Len(data) : ReadTo(data, p, a, q) /\ Left(data, p, c, q, b)
  BY Sequel
<1>2. first[p] = Outcome(data, p, a, v)
  BY <1>1 DEF Reads
<1> HIDE DEF c
<1>3. CASE Cut(data, p, a) /\ Cut(data, p, c)
  <2>1. first[p] = Err("Truncated")
    BY <1>2, <1>3 DEF Cut
  <2> QED BY <1>3, <2>1, Results DEF Cut, Chains, c
<1>4. ASSUME NEW q \in 0..Len(data), ReadTo(data, p, a, q), Left(data, p, c, q, b)
      PROVE  whole[p] = Outcome(data, p, c, w)
  <2>1. first[p] = Ok(v, q)
    BY <1>2, <1>4 DEF ReadTo
  <2>2. rest[q] = Outcome(data, p, c, w)
    BY <1>4 DEF Left, Reads
  <2> QED BY <2>1, <2>2, Results DEF Chains
<1> QED BY <1>1, <1>3, <1>4 DEF c

\* A parser may make something else of what it has read.
LEMMA ThenGives ==
  ASSUME NEW data \in Seq(Byte), NEW a \in Seq(Byte), NEW first, NEW whole, NEW v, NEW w,
         Reads(data, first, a, v),
         \A p \in 0..Len(data) :
           /\ ~ first[p].ok => whole[p] = first[p]
           /\ first[p].ok /\ first[p].value = v => whole[p] = Ok(w, first[p].pos)
  PROVE  Reads(data, whole, a, w)
<1> SUFFICES ASSUME NEW p \in 0..Len(data), At(data, p, a)
             PROVE  whole[p] = Outcome(data, p, a, w)
  BY DEF Reads
<1>1. first[p] = Outcome(data, p, a, v)
  BY DEF Reads
<1>2. CASE first[p] = Err("Truncated") /\ ~ (p + Len(a) <= Len(data))
  BY <1>2, Results DEF Outcome
<1>3. CASE first[p] = Ok(v, p + Len(a)) /\ p + Len(a) <= Len(data)
  BY <1>3, Results DEF Outcome
<1> QED BY <1>1, <1>2, <1>3 DEF Outcome

LEMMA ReadTextAt ==
  ASSUME NEW data \in Seq(Byte), NEW p \in 0..Len(data), NEW text \in Seq(TextByte),
         Len(text) <= MaxI32, At(data, p, EncodeText(text))
  PROVE  ReadText(data, p) = Outcome(data, p, EncodeText(text), text)
<1> DEFINE n == Len(text)
           size == Bytes32(n)
           enc == EncodeText(text)
<1>1. /\ n \in 0..MaxI32 /\ n \in Nat /\ ~ (n < 0) /\ text \in Seq(Byte) /\ size \in Seq(Byte)
      /\ enc = size \o text
  BY EncodedText, Ranges, TextBytes DEF EncodeText
<1>2. At(data, p, size) => ReadI32(data, p) = Outcome(data, p, size, n)
  BY <1>1, ReadI32At
<1> HIDE DEF size, enc
<1>3. /\ At(data, p, size)
      /\ \/ Cut(data, p, size) /\ Cut(data, p, enc)
         \/ \E q \in 0..Len(data) : ReadTo(data, p, size, q) /\ Left(data, p, enc, q, text)
  BY <1>1, Sequel DEF enc
<1>4. CASE Cut(data, p, size) /\ Cut(data, p, enc)
  BY <1>2, <1>3, <1>4, Results DEF ReadText, Then, Cut, enc
<1>5. ASSUME NEW q \in 0..Len(data), ReadTo(data, p, size, q), Left(data, p, enc, q, text)
      PROVE  ReadText(data, p) = Outcome(data, p, enc, text)
  <2>1. ReadText(data, p) = Then(ReadBytes(data, q, n), Utf8)
    BY <1>1, <1>2, <1>3, <1>5, Results DEF ReadText, Then, ReadTo
  <2>2. ReadBytes(data, q, n) = Outcome(data, q, text, text)
    BY <1>1, <1>5, ReadBytesAt DEF Left
  <2>3. CASE Cut(data, q, text)
    BY <1>5, <2>1, <2>2, <2>3, Results DEF Then, Cut, Left
  <2>4. ASSUME NEW r, ReadTo(data, q, text, r)
        PROVE  ReadText(data, p) = Outcome(data, p, enc, text)
    BY <1>5, <2>1, <2>2, <2>4, Results, TextBytes DEF Then, ReadTo, Left
  <2> QED BY <1>1, <2>3, <2>4, Ending
<1> QED BY <1>3, <1>4, <1>5 DEF enc

LEMMA AsciiBytes ==
  /\ \A tag \in DOMAIN Ascii : Ascii[tag] \in Byte
  /\ Ascii.n \notin {Ascii.t, Ascii.b} /\ Ascii.u \notin {Ascii.t, Ascii.b}
  /\ Ascii.t \notin {Ascii.n, Ascii.u}
  /\ Ascii.N \notin {Ascii.K, Ascii.O}
  /\ Ascii.R \notin {Ascii.I, Ascii.U, Ascii.D, Ascii.T}
  /\ Ascii.I \notin {Ascii.R, Ascii.U, Ascii.D, Ascii.T}
  /\ Ascii.U \notin {Ascii.R, Ascii.I, Ascii.D, Ascii.T}
  /\ Ascii.D \notin {Ascii.R, Ascii.I, Ascii.U, Ascii.T}
<1>1. \A tag \in DOMAIN Ascii : Ascii[tag] \in Byte
  BY SMT DEF Ascii, Byte
<1> QED BY <1>1, SMT DEF Ascii

-----------------------------------------------------------------------------
(* Values and tuples.                                                      *)

\* the values of a tuple on the wire, and what is read of one
WireValue == Text \cup {Null, Unchanged}
CodedValue(value) == IF value \in {Null, Unchanged} THEN Null ELSE Code[value]

LEMMA TextCoded ==
  ASSUME NEW value \in Text
  PROVE  Code[value] \in Seq(TextByte) /\ Len(Code[value]) <= MaxI32
  BY WalPayloadsAssumption

LEMMA ReadValueAt ==
  ASSUME NEW data \in Seq(Byte), NEW p \in 0..Len(data), NEW value \in WireValue,
         At(data, p, EncodeValue(value))
  PROVE  ReadValue(data, p) = Outcome(data, p, EncodeValue(value), CodedValue(value))
<1>1. CASE value \in {Null, Unchanged}
  <2>1. PICK kind \in {Ascii.n, Ascii.u} : EncodeValue(value) = <<kind>>
    BY <1>1 DEF EncodeValue
  <2>2. kind \in Byte /\ <<kind>> \in Seq(Byte)
    BY AsciiBytes, OneByte DEF Ascii
  <2>3. ReadU8(data, p) = Outcome(data, p, <<kind>>, kind)
    BY <2>1, <2>2, ReadU8At
  <2>4. CASE Cut(data, p, <<kind>>)
    <3>1. ReadValue(data, p) = Err("Truncated")
      BY <2>3, <2>4, Results DEF ReadValue, Then, Cut
    <3> QED BY <2>1, <2>4, <3>1 DEF Cut
  <2>5. ASSUME NEW q, ReadTo(data, p, <<kind>>, q)
        PROVE  ReadValue(data, p) = Outcome(data, p, EncodeValue(value), CodedValue(value))
    <3>1. ReadU8(data, p) = Ok(kind, q)
      BY <2>3, <2>5 DEF ReadTo
    <3>2. ReadValue(data, p) = Ok(Null, q)
      BY <2>1, <3>1, AsciiBytes, Results DEF ReadValue, Then
    <3> QED BY <1>1, <2>1, <2>5, <3>2 DEF CodedValue, ReadTo
  <2> QED BY <2>2, <2>4, <2>5, Ending
<1>2. CASE value \notin {Null, Unchanged}
  <2> DEFINE kind == Ascii.t
             text == Code[value]
             enc == EncodeText(text)
             all == <<kind>> \o enc
  <2>1. value \in Text /\ EncodeValue(value) = all /\ CodedValue(value) = text
    BY <1>2 DEF WireValue, EncodeValue, CodedValue
  <2>2. kind \in Byte /\ <<kind>> \in Seq(Byte) /\ kind \notin {Ascii.n, Ascii.u}
    BY AsciiBytes, OneByte DEF Ascii
  <2>3. text \in Seq(TextByte) /\ Len(text) <= MaxI32 /\ enc \in Seq(Byte)
    BY <2>1, TextCoded, EncodedText
  <2>4. /\ At(data, p, <<kind>>)
        /\ \/ Cut(data, p, <<kind>>) /\ Cut(data, p, all)
           \/ \E q \in 0..Len(data) : ReadTo(data, p, <<kind>>, q) /\ Left(data, p, all, q, enc)
    <3> HIDE DEF kind, enc
    <3> QED BY <2>1, <2>2, <2>3, Sequel
  <2>5. ReadU8(data, p) = Outcome(data, p, <<kind>>, kind)
    BY <2>2, <2>4, ReadU8At
  <2>6. CASE Cut(data, p, <<kind>>) /\ Cut(data, p, all)
    <3>1. ReadValue(data, p) = Err("Truncated")
      BY <2>5, <2>6, Results DEF ReadValue, Then, Cut
    <3> QED BY <2>1, <2>6, <3>1 DEF Cut
  <2>7. ASSUME NEW q \in 0..Len(data), ReadTo(data, p, <<kind>>, q), Left(data, p, all, q, enc)
        PROVE  ReadValue(data, p) = Outcome(data, p, all, text)
    <3>1. ReadU8(data, p) = Ok(kind, q)
      BY <2>5, <2>7 DEF ReadTo
    <3>2. ReadValue(data, p) = ReadText(data, q)
      BY <2>2, <3>1, AsciiBytes, Results DEF ReadValue, Then
    <3> HIDE DEF all
    <3> QED BY <2>3, <2>7, <3>2, ReadTextAt DEF Left
  <2> HIDE DEF all
  <2> QED BY <2>1, <2>4, <2>6, <2>7
<1> QED BY <1>1, <1>2

-----------------------------------------------------------------------------
(* Loops that read one item after another.                                 *)

\* FlattenSeq puts its parts together one by one.
LEMMA Flattened ==
  ASSUME NEW S, NEW seqs \in Seq(Seq(S))
  PROVE  \E F : /\ F[0] = <<>> /\ F[Len(seqs)] = FlattenSeq(seqs)
                /\ \A k \in 0..Len(seqs) : F[k] \in Seq(S)
                /\ \A k \in 1..Len(seqs) : F[k] = F[k - 1] \o seqs[k]
<1> DEFINE n == Len(seqs)
           Part(h, i) == IF i = 1 THEN seqs[i] ELSE h[i - 1] \o seqs[i]
           Builds(h, m) == /\ h \in [1..m -> Seq(S)]
                           /\ \A i \in 1..m : h[i] = Part(h, i)
           Built == {m \in 0..n : \E h : Builds(h, m)}
<1>1. n \in Nat /\ \A i \in 1..n : seqs[i] \in Seq(S)
  BY LenProperties, ElementOfSeq
<1>2. Builds([i \in 1..0 |-> <<>>], 0)
  OBVIOUS
<1>3. ASSUME NEW m \in 1..n, NEW h, Builds(h, m - 1) PROVE \E g : Builds(g, m)
  <2> DEFINE last == Part(h, m)
             g == [i \in 1..m |-> IF i = m THEN last ELSE h[i]]
  <2>1. last \in Seq(S)
    <3>1. CASE m = 1
      BY <1>1, <3>1
    <3>2. CASE m # 1
      <4>1. h[m - 1] \in Seq(S) /\ seqs[m] \in Seq(S)
        BY <1>1, <1>3, <3>2
      <4> QED BY <3>2, <4>1, ConcatProperties
    <3> QED BY <3>1, <3>2
  <2>2. \A i \in 1 .. m - 1 : g[i] = h[i]
    BY <1>1
  <2>3. g[m] = last
    BY <1>1
  <2>4. g \in [1..m -> Seq(S)]
    <3> HIDE DEF last
    <3> QED BY <1>1, <1>3, <2>1
  <2>5. last = Part(g, m)
    <3>1. CASE m = 1
      BY <3>1
    <3>2. CASE m # 1
      <4>1. g[m - 1] = h[m - 1]
        BY <1>1, <2>2, <3>2
      <4> HIDE DEF g
      <4> QED BY <3>2, <4>1
    <3> QED BY <3>1, <3>2
  <2>6. ASSUME NEW i \in 1 .. m - 1 PROVE g[i] = Part(g, i)
    <3>1. h[i] = Part(h, i)
      BY <1>3
    <3>2. CASE i = 1
      BY <2>2, <3>1, <3>2
    <3>3. CASE i # 1
      <4>1. g[i - 1] = h[i - 1]
        BY <1>1, <2>2, <3>3
      <4> HIDE DEF g
      <4> QED BY <2>2, <3>1, <3>3, <4>1
    <3> QED BY <3>2, <3>3
  <2> HIDE DEF g, last
  <2>7. \A i \in 1..m : i = m \/ i \in 1 .. m - 1
    BY <1>1
  <2>8. Builds(g, m)
    BY <2>3, <2>4, <2>5, <2>6, <2>7
  <2> QED BY <2>8
<1>4. n \in Built
  <2> HIDE DEF Builds
  <2>1. 0 \in Built
    BY <1>1, <1>2
  <2>2. \A m \in 1..n : m - 1 \in Built => m \in Built
    BY <1>1, <1>3
  <2> HIDE DEF Built
  <2>3. 0..n \subseteq Built
    BY <1>1, <2>1, <2>2, Turns
  <2> QED BY <1>1, <2>3
<1>5. PICK h : Builds(h, n)
  BY <1>4
<1> DEFINE flatten == CHOOSE f : f = [i \in 1..n |-> Part(f, i)]
           F == [k \in 0..n |-> IF k = 0 THEN <<>> ELSE flatten[k]]
<1>6. h = [i \in 1..n |-> Part(h, i)]
  BY <1>5
<1>7. flatten = [i \in 1..n |-> Part(flatten, i)]
  BY <1>6
<1>8. FlattenSeq(seqs) = IF n = 0 THEN seqs ELSE flatten[n]
  BY DEF FlattenSeq
<1> HIDE DEF flatten
<1>9. \A k \in 1..n : F[k] = F[k - 1] \o seqs[k]
  <2> SUFFICES ASSUME NEW k \in 1..n PROVE F[k] = F[k - 1] \o seqs[k]
    OBVIOUS
  <2>1. CASE k = 1
    BY <1>1, <1>7, <2>1, ConcatEmptySeq
  <2>2. CASE k # 1
    <3>1. F[k] = flatten[k] /\ F[k - 1] = flatten[k - 1]
      BY <1>1, <2>2
    <3>2. flatten[k] = Part(flatten, k)
      BY <1>7
    <3> HIDE DEF F
    <3> QED BY <2>2, <3>1, <3>2
  <2> QED BY <2>1, <2>2
<1>10. F[0] = <<>> /\ F[n] = FlattenSeq(seqs)
  BY <1>1, <1>8
<1> HIDE DEF F
<1> DEFINE Typed == {k \in 0..n : F[k] \in Seq(S)}
<1>11. 0 \in Typed
  <2>1. F[0] \in Seq(S) /\ 0 \in 0..n
    BY <1>1, <1>10, EmptySeq
  <2> QED BY <2>1
<1>12. ASSUME NEW k \in 1..n, k - 1 \in Typed PROVE k \in Typed
  <2>1. F[k - 1] \in Seq(S) /\ seqs[k] \in Seq(S)
    BY <1>1, <1>12
  <2>2. F[k] \in Seq(S)
    BY <1>9, <2>1, ConcatProperties
  <2> QED BY <2>2
<1>13. 0..n \subseteq Typed
  <2> HIDE DEF Typed
  <2> QED BY <1>1, <1>11, <1>12, Turns
<1> QED BY <1>9, <1>10, <1>13

\* What FlattenSeq makes of sequences of bytes is one.
LEMMA FlattenedBytes ==
  ASSUME NEW encs \in Seq(Seq(Byte))
  PROVE  FlattenSeq(encs) \in Seq(Byte)
<1>1. Len(encs) \in 0..Len(encs)
  BY LenProperties
<1> QED BY <1>1, Flattened

\* The data agrees with every prefix of the parts it agrees with, and the first
\* k parts have k bytes or more.
LEMMA FlattenedAt ==
  ASSUME NEW data, Len(data) \in Nat, NEW p \in Nat, NEW encs \in Seq(Seq(Byte)),
         At(data, p, FlattenSeq(encs))
  PROVE  \E F : /\ F[0] = <<>> /\ F[Len(encs)] = FlattenSeq(encs)
                /\ \A k \in 0..Len(encs) : F[k] \in Seq(Byte) /\ At(data, p, F[k])
                /\ \A k \in 1..Len(encs) : F[k] = F[k - 1] \o encs[k]
<1> DEFINE n == Len(encs)
<1>1. n \in Nat
  BY LenProperties
<1>2. \A k \in 1..n : encs[k] \in Seq(Byte)
  BY ElementOfSeq
<1>3. PICK F : /\ F[0] = <<>> /\ F[n] = FlattenSeq(encs)
               /\ \A k \in 0..n : F[k] \in Seq(Byte)
               /\ \A k \in 1..n : F[k] = F[k - 1] \o encs[k]
  BY Flattened
<1> HIDE DEF n
<1> DEFINE T == {k \in 0..n : At(data, p, F[n - k])}
<1>4. 0 \in T
  BY <1>1, <1>3 DEF n
<1>5. ASSUME NEW k \in 1..n, k - 1 \in T PROVE k \in T
  <2>1. PICK j \in 1..n : j = n - (k - 1)
    BY <1>1
  <2>2. j - 1 = n - k /\ j - 1 \in 0..n /\ k \in 0..n
    BY <1>1, <2>1
  <2>3. At(data, p, F[j - 1] \o encs[j])
    BY <1>3, <1>5, <2>1
  <2>4. F[j - 1] \in Seq(Byte) /\ encs[j] \in Seq(Byte)
    BY <1>2, <1>3, <2>2
  <2>5. At(data, p, F[j - 1])
    BY <2>3, <2>4, AtParts
  <2> QED BY <2>2, <2>5
<1>6. 0..n \subseteq T
  <2> HIDE DEF T
  <2> QED BY <1>1, <1>4, <1>5, Turns
<1>7. ASSUME NEW k \in 0..n PROVE At(data, p, F[k])
  <2>1. PICK j \in 0..n : j = n - k
    BY <1>1
  <2>2. n - j = k
    BY <1>1, <2>1
  <2>3. At(data, p, F[n - j])
    BY <1>6
  <2> QED BY <2>2, <2>3
<1> QED BY <1>3, <1>7 DEF n

\* Parts that are not empty have a byte each.
LEMMA FlattenedLen ==
  ASSUME NEW encs \in Seq(Seq(Byte)), \A k \in 1..Len(encs) : encs[k] # <<>>,
         NEW F, F[0] = <<>>, \A k \in 0..Len(encs) : F[k] \in Seq(Byte),
         \A k \in 1..Len(encs) : F[k] = F[k - 1] \o encs[k]
  PROVE  \A k \in 0..Len(encs) : Len(F[k]) \in Nat /\ Len(F[k]) >= k
<1> DEFINE n == Len(encs)
           size(k) == Len(F[k])
           T == {k \in 0..n : size(k) \in Nat /\ size(k) >= k}
<1>1. n \in Nat
  BY LenProperties
<1>2. 0 \in T
  <2>1. size(0) = 0
    BY EmptySeq
  <2> QED BY <1>1, <2>1
<1>3. ASSUME NEW k \in 1..n, k - 1 \in T PROVE k \in T
  <2>1. k - 1 \in 0..n /\ k \in 0..n
    BY <1>1
  <2>2. F[k - 1] \in Seq(Byte) /\ encs[k] \in Seq(Byte) /\ encs[k] # <<>>
    BY <2>1, ElementOfSeq
  <2> DEFINE more == Len(encs[k])
  <2>3. more \in Nat /\ more >= 1
    BY <2>2, EmptySeq
  <2>4. size(k) = size(k - 1) + more
    <3>1. Len(F[k - 1] \o encs[k]) = Len(F[k - 1]) + Len(encs[k])
      BY <2>2, ConcatProperties
    <3> QED BY <3>1
  <2>5. size(k - 1) \in Nat /\ size(k - 1) >= k - 1
    BY <1>3
  <2> HIDE DEF size, more, n
  <2>6. size(k) \in Nat /\ size(k) >= k
    BY <1>1, <2>3, <2>4, <2>5
  <2> QED BY <2>1, <2>6
<1>4. 0..n \subseteq T
  <2> HIDE DEF T
  <2> QED BY <1>1, <1>2, <1>3, Turns
<1> QED BY <1>4

\* Items are what data holds at p: encs are their bytes, vals their values, item
\* what is read of one at a position, and t turns are enough for a loop over them.
ItemsAt(data, p, encs, vals, item, t) ==
  /\ encs \in Seq(Seq(Byte)) /\ \A k \in 1..Len(encs) : encs[k] # <<>>
  /\ vals \in Seq({vals[k] : k \in 1..Len(encs)}) /\ Len(vals) = Len(encs)
  /\ \A k \in 1..Len(encs) : Reads(data, item, encs[k], vals[k])
  /\ At(data, p, FlattenSeq(encs))
  /\ t \in 0..Len(encs) /\ (t = Len(encs) \/ t > Len(data) - p)

\* g is what such a loop has read after each of its turns
LoopOver(data, p, item, t, g) ==
  /\ g[0] = Ok(<<>>, p)
  /\ \A k \in 1..t :
       \/ ~ g[k - 1].ok /\ g[k] = g[k - 1]
       \/ \E items : \E q \in 0..Len(data) :
            g[k - 1] = Ok(items, q) /\ g[k] = Push(items, item[q])

\* A loop reads its items, or is cut off.
LEMMA LoopReads ==
  ASSUME NEW data \in Seq(Byte), NEW p \in 0..Len(data), NEW encs, NEW vals, NEW item, NEW t,
         ItemsAt(data, p, encs, vals, item, t)
  PROVE  \E g : LoopOver(data, p, item, t, g) /\ g[t] = Outcome(data, p, FlattenSeq(encs), vals)
<1> DEFINE V == {vals[k] : k \in 1..Len(encs)}
<1>0. /\ encs \in Seq(Seq(Byte)) /\ \A k \in 1..Len(encs) : encs[k] # <<>>
      /\ vals \in Seq(V) /\ Len(vals) = Len(encs)
      /\ At(data, p, FlattenSeq(encs))
      /\ t \in 0..Len(encs) /\ (t = Len(encs) \/ t > Len(data) - p)
  BY DEF ItemsAt
<1> HIDE DEF V
<1> DEFINE n == Len(encs)
           part(k) == SubSeq(vals, 1, k)
<1>1. n \in Nat /\ Len(data) \in Nat /\ p \in Nat /\ t \in Nat
  BY <1>0, LenProperties
<1>2. \A k \in 1..n : encs[k] \in Seq(Byte)
  BY <1>0, ElementOfSeq
<1>3. PICK F : /\ F[0] = <<>> /\ F[n] = FlattenSeq(encs)
               /\ \A k \in 0..n : F[k] \in Seq(Byte) /\ At(data, p, F[k])
               /\ \A k \in 1..n : F[k] = F[k - 1] \o encs[k]
  BY <1>0, <1>1, FlattenedAt
<1>4. \A k \in 0..n : Len(F[k]) \in Nat /\ Len(F[k]) >= k
  BY <1>0, <1>3, FlattenedLen
<1>5. /\ part(0) = <<>> /\ part(n) = vals
      /\ \A k \in 1..n : part(k) = Append(part(k - 1), vals[k])
  <2>1. part(0) = <<>>
    BY SubSeqEmpty
  <2>2. part(n) = vals
    BY <1>0, SubSeqFull
  <2>3. ASSUME NEW k \in 1..n PROVE part(k) = Append(part(k - 1), vals[k])
    <3>1. 1 \in 1..Len(vals) /\ k \in 1..Len(vals) /\ vals[k] \in V
      BY <1>0, <1>1, ElementOfSeq
    <3>2. part(k) = part(k - 1) \o <<vals[k]>>
      BY <1>0, <3>1, SubSeqRecursiveSecond
    <3>3. part(k - 1) \in Seq(V)
      <4>1. \A i \in 1 .. k - 1 : vals[i] \in V
        BY <1>0, <1>1, ElementOfSeq
      <4> QED BY <4>1, SubSeqProperties
    <3> QED BY <3>1, <3>2, <3>3, AppendIsConcat
  <2> QED BY <2>1, <2>2, <2>3
<1> DEFINE g == [k \in 0..n |-> Outcome(data, p, F[k], part(k))]
<1>6. g[0] = Ok(<<>>, p)
  <2>1. g[0] = Outcome(data, p, <<>>, <<>>)
    <3>1. 0 \in 0..n
      BY <1>1
    <3> HIDE DEF n, part
    <3> QED BY <1>3, <1>5, <3>1
  <2>2. p + Len(<<>>) = p
    BY <1>1, EmptySeq
  <2> QED BY <2>1, <2>2 DEF Outcome
<1>7. ASSUME NEW k \in 1..t
      PROVE  \/ ~ g[k - 1].ok /\ g[k] = g[k - 1]
             \/ \E items : \E q \in 0..Len(data) : g[k - 1] = Ok(items, q) /\ g[k] = Push(items, item[q])
  <2> DEFINE a == F[k - 1]
             b == encs[k]
             c == F[k]
  <2>1. k \in 1..n /\ k - 1 \in 0..n /\ k \in 0..n
    BY <1>0, <1>1
  <2>2. a \in Seq(Byte) /\ b \in Seq(Byte) /\ c = a \o b /\ At(data, p, c)
    BY <1>2, <1>3, <2>1
  <2>3. /\ g[k - 1] = Outcome(data, p, a, part(k - 1))
        /\ g[k] = Outcome(data, p, c, Append(part(k - 1), vals[k]))
    BY <1>5, <2>1
  <2>4. \A q \in 0..Len(data) : At(data, q, b) => item[q] = Outcome(data, q, b, vals[k])
    BY <2>1 DEF ItemsAt, Reads
  <2> HIDE DEF a, b, c, g, part
  <2>5. \/ Cut(data, p, a) /\ Cut(data, p, c)
        \/ \E q \in 0..Len(data) : ReadTo(data, p, a, q) /\ Left(data, p, c, q, b)
    BY <2>2, Sequel
  <2>6. CASE Cut(data, p, a) /\ Cut(data, p, c)
    BY <2>3, <2>6, Results DEF Cut
  <2>7. ASSUME NEW q \in 0..Len(data), ReadTo(data, p, a, q), Left(data, p, c, q, b)
        PROVE  \E items : \E s \in 0..Len(data) :
                 g[k - 1] = Ok(items, s) /\ g[k] = Push(items, item[s])
    <3>1. g[k - 1] = Ok(part(k - 1), q)
      BY <2>3, <2>7 DEF ReadTo
    <3>2. g[k] = Outcome(data, q, b, Append(part(k - 1), vals[k]))
      BY <2>3, <2>7 DEF Left
    <3>3. item[q] = Outcome(data, q, b, vals[k])
      BY <2>4, <2>7 DEF Left
    <3>4. g[k] = Push(part(k - 1), item[q])
      <4>1. CASE Cut(data, q, b)
        BY <3>2, <3>3, <4>1, Results DEF Cut, Push, Then
      <4>2. ASSUME NEW r, ReadTo(data, q, b, r) PROVE g[k] = Push(part(k - 1), item[q])
        BY <3>2, <3>3, <4>2, Results DEF ReadTo, Push, Then
      <4> QED BY <2>2, <4>1, <4>2, Ending
    <3> QED BY <2>7, <3>1, <3>4
  <2>8. CASE ~ (Cut(data, p, a) /\ Cut(data, p, c))
    <3>1. PICK q \in 0..Len(data) : ReadTo(data, p, a, q) /\ Left(data, p, c, q, b)
      BY <2>5, <2>8
    <3> QED BY <2>7, <3>1
  <2> QED BY <2>6, <2>8
<1>8. g[t] = Outcome(data, p, FlattenSeq(encs), vals)
  <2>1. CASE t = n
    <3>1. t \in 0..n
      BY <1>0, <1>1
    <3> HIDE DEF n, part
    <3>2. g[t] = Outcome(data, p, F[t], part(t))
      BY <3>1
    <3> HIDE DEF g
    <3>3. F[t] = FlattenSeq(encs) /\ part(t) = vals
      BY <1>3, <1>5, <2>1
    <3> QED BY <3>2, <3>3
  <2>2. CASE t # n
    <3>1. t \in 0..n /\ n \in 0..n /\ t > Len(data) - p /\ n > t
      BY <1>0, <1>1, <2>2
    <3>2. Len(F[t]) \in Nat /\ Len(F[t]) >= t /\ Len(F[n]) \in Nat /\ Len(F[n]) >= n
      BY <1>4, <3>1
    <3> HIDE DEF n, part
    <3>3. ~ (p + Len(F[t]) <= Len(data)) /\ ~ (p + Len(F[n]) <= Len(data))
      BY <1>1, <3>1, <3>2
    <3>4. g[t] = Outcome(data, p, F[t], part(t))
      BY <3>1
    <3> HIDE DEF g
    <3> QED BY <1>3, <3>3, <3>4 DEF Outcome
  <2> QED BY <2>1, <2>2
<1> HIDE DEF g
<1> QED BY <1>6, <1>7, <1>8 DEF LoopOver

\* what the parts of an encoded tuple are
ValueParts(values) == [i \in DOMAIN values |-> EncodeValue(values[i])]

LEMMA EncodedValue ==
  ASSUME NEW value \in WireValue
  PROVE  EncodeValue(value) \in Seq(Byte) /\ EncodeValue(value) # <<>>
<1>1. CASE value \in {Null, Unchanged}
  <2>1. PICK kind \in {Ascii.n, Ascii.u} : EncodeValue(value) = <<kind>>
    BY <1>1 DEF EncodeValue
  <2>2. kind \in Byte
    BY AsciiBytes DEF Ascii
  <2> QED BY <2>1, <2>2, OneByte
<1>2. CASE value \notin {Null, Unchanged}
  <2> DEFINE kind == <<Ascii.t>>
             enc == EncodeText(Code[value])
  <2>1. value \in Text /\ EncodeValue(value) = kind \o enc
    BY <1>2 DEF WireValue, EncodeValue
  <2>2. enc \in Seq(Byte)
    BY <2>1, TextCoded, EncodedText
  <2>3. kind \in Seq(Byte) /\ kind # <<>>
    BY AsciiBytes, OneByte DEF Ascii
  <2> HIDE DEF kind, enc
  <2> QED BY <2>1, <2>2, <2>3, ConcatEqualIffEmpty, ConcatProperties
<1> QED BY <1>1, <1>2

LEMMA ValuesCoded ==
  ASSUME NEW values \in Seq(WireValue)
  PROVE  /\ ValueParts(values) \in Seq(Seq(Byte)) /\ Len(ValueParts(values)) = Len(values)
         /\ \A k \in 1..Len(values) :
              /\ values[k] \in WireValue
              /\ ValueParts(values)[k] = EncodeValue(values[k])
              /\ ValueParts(values)[k] # <<>>
              /\ CodedTuple(values)[k] = CodedValue(values[k])
         /\ CodedTuple(values) \in Seq({CodedTuple(values)[k] : k \in 1..Len(values)})
         /\ Len(CodedTuple(values)) = Len(values)
<1>1. Len(values) \in Nat /\ DOMAIN values = 1..Len(values)
  BY LenProperties
<1>2. \A k \in 1..Len(values) : values[k] \in WireValue
  BY ElementOfSeq
<1>3. \A k \in 1..Len(values) : EncodeValue(values[k]) \in Seq(Byte) /\ EncodeValue(values[k]) # <<>>
  BY <1>2, EncodedValue
<1>4. ValueParts(values) \in Seq(Seq(Byte)) /\ Len(ValueParts(values)) = Len(values)
  BY <1>1, <1>3 DEF ValueParts
<1>5. \A k \in 1..Len(values) : CodedTuple(values)[k] = CodedValue(values[k])
  BY <1>1, <1>2, PgOutputAssumption, HintsAssumption
     DEF CodedTuple, ParseTuple, CodedValue, WireValue
<1>6. /\ CodedTuple(values) \in Seq({CodedTuple(values)[k] : k \in 1..Len(values)})
      /\ Len(CodedTuple(values)) = Len(values)
  BY <1>1 DEF CodedTuple
<1> QED BY <1>1, <1>2, <1>3, <1>4, <1>5, <1>6 DEF ValueParts

\* A tuple is its count and its values, one after the other.
LEMMA EncodedTuple ==
  ASSUME NEW values \in Seq(WireValue), Len(values) <= MaxU16
  PROVE  /\ Len(values) \in 0..MaxU16 /\ Bytes16(Len(values)) \in Seq(Byte)
         /\ FlattenSeq(ValueParts(values)) \in Seq(Byte)
         /\ EncodeTuple(values) = Bytes16(Len(values)) \o FlattenSeq(ValueParts(values))
         /\ EncodeTuple(values) \in Seq(Byte)
<1> DEFINE size == Bytes16(Len(values))
           all == FlattenSeq(ValueParts(values))
<1>1. Len(values) \in 0..MaxU16
  BY Ranges, LenProperties
<1>2. size \in Seq(Byte)
  BY <1>1, Bytes16Value
<1>3. all \in Seq(Byte)
  BY ValuesCoded, FlattenedBytes
<1>4. EncodeTuple(values) = size \o all
  BY DEF EncodeTuple, ValueParts
<1> HIDE DEF size, all
<1>5. size \o all \in Seq(Byte)
  BY <1>2, <1>3
<1> QED BY <1>1, <1>2, <1>3, <1>4, <1>5 DEF size, all

LEMMA RepeatValues ==
  ASSUME NEW data \in Seq(Byte), NEW p \in 0..Len(data), NEW values \in Seq(WireValue),
         At(data, p, FlattenSeq(ValueParts(values)))
  PROVE  Repeat(data, Len(values), p, ReadValue)
           = Outcome(data, p, FlattenSeq(ValueParts(values)), CodedTuple(values))
<1> DEFINE n == Len(values)
           left == Len(data) - p + 1
           t == IF n < left THEN n ELSE left
           start == Ok(<<>>, p)
           Body(r) == Then(r, LAMBDA items, q : Push(items, ReadValue(data, q)))
           item == [q \in 0..Len(data) |-> ReadValue(data, q)]
           read == CHOOSE f : f = [k \in 0..t |-> IF k = 0 THEN start ELSE Body(f[k - 1])]
           all == FlattenSeq(ValueParts(values))
<1>1. Repeat(data, n, p, ReadValue) = read[t]
  BY DEF Repeat, Iterate
<1>2. n \in Nat /\ Len(data) \in Nat /\ p \in Nat
  BY LenProperties
<1>3. t \in 0..n /\ (t = n \/ t > Len(data) - p)
  BY <1>2
<1>4. \A k \in 1..n : Reads(data, item, ValueParts(values)[k], CodedTuple(values)[k])
  BY ReadValueAt, ValuesCoded DEF Reads
<1> HIDE DEF t
<1>5. ItemsAt(data, p, ValueParts(values), CodedTuple(values), item, t)
  BY <1>3, <1>4, ValuesCoded DEF ItemsAt
<1>6. PICK g : LoopOver(data, p, item, t, g) /\ g[t] = Outcome(data, p, all, CodedTuple(values))
  <2> HIDE DEF item
  <2> QED BY <1>5, LoopReads
<1>7. g[0] = start /\ \A k \in 1..t : g[k] = Body(g[k - 1])
  BY <1>6, Results DEF Then, LoopOver
<1> DEFINE h == [k \in 0..t |-> g[k]]
<1> HIDE DEF Body, start
<1>8. h = [k \in 0..t |-> IF k = 0 THEN start ELSE Body(h[k - 1])]
  BY <1>3, <1>7
<1>9. read = [k \in 0..t |-> IF k = 0 THEN start ELSE Body(read[k - 1])]
  BY <1>8
<1> HIDE DEF read
<1>10. \A k \in 1..t : read[k] = Body(read[k - 1])
  BY <1>3, <1>9
<1>12. t \in Nat /\ read[0] = g[0]
  BY <1>3, <1>7, <1>9
<1>11. read[t] = g[t]
  <2>1. \A k \in 1..t : read[k - 1] = g[k - 1] => read[k] = g[k]
    BY <1>7, <1>10
  <2>2. Parallel(t, read, g)
    BY <1>12, <2>1 DEF Parallel
  <2> QED BY <1>12, <2>2, SameTurns
<1> QED BY <1>1, <1>6, <1>11

\* The bytes of a tuple are read as the tuple, with what it has of texts.
LEMMA TupleReads ==
  ASSUME NEW data \in Seq(Byte), NEW values \in Seq(WireValue), Len(values) <= MaxU16
  PROVE  Reads(data, [p \in 0..Len(data) |-> ReadTuple(data, p)],
               EncodeTuple(values), CodedTuple(values))
<1> DEFINE n == Len(values)
           size == Bytes16(n)
           all == FlattenSeq(ValueParts(values))
           coded == CodedTuple(values)
           first == [p \in 0..Len(data) |-> ReadU16(data, p)]
           rest == [p \in 0..Len(data) |-> Repeat(data, n, p, ReadValue)]
           whole == [p \in 0..Len(data) |-> ReadTuple(data, p)]
<1>1. n \in 0..MaxU16 /\ size \in Seq(Byte) /\ all \in Seq(Byte)
      /\ EncodeTuple(values) = size \o all
  BY EncodedTuple
<1>2. Reads(data, first, size, n)
  BY <1>1, ReadU16At DEF Reads
<1>3. Reads(data, rest, all, coded)
  BY RepeatValues DEF Reads
<1>4. Chains(data, whole, first, n, rest)
  BY DEF Chains, ReadTuple, Then
<1> HIDE DEF n, size, all, coded, first, rest, whole
<1> QED BY <1>1, <1>2, <1>3, <1>4, ThenReads DEF coded, whole

-----------------------------------------------------------------------------
(* Columns.                                                                *)

LEMMA NameCoded ==
  ASSUME NEW name \in DOMAIN Code
  PROVE  /\ Code[name] \in Seq(TextByte) /\ CString(name) \in Seq(Byte)
         /\ CString(name) = Code[name] \o <<0>>
<1>1. Code[name] \in Seq(TextByte)
  BY WalPayloadsAssumption
<1>2. Code[name] \in Seq(Byte)
  BY <1>1, TextBytes
<1>3. <<0>> \in Seq(Byte)
  <2>1. 0 \in Byte
    BY Ranges
  <2> QED BY <2>1, OneByte
<1>4. Code[name] \o <<0>> \in Seq(Byte)
  BY <1>2, <1>3, ConcatProperties
<1> QED BY <1>1, <1>4 DEF CString

\* Concatenation, by a name the provers do not look behind.
Cat(a, b) == a \o b

LEMMA Regroup ==
  /\ \A a, b \in Seq(Byte) : Cat(a, b) \in Seq(Byte)
  /\ \A a, b, c \in Seq(Byte) : Cat(Cat(a, b), c) = Cat(a, Cat(b, c))
<1>1. \A a, b \in Seq(Byte) : a \o b \in Seq(Byte)
  BY ConcatProperties
<1>2. \A a, b, c \in Seq(Byte) : (a \o b) \o c = a \o (b \o c)
  BY ConcatAssociative
<1> QED BY <1>1, <1>2 DEF Cat

\* what EncodeColumn puts around the name: the flags, the type, the modifier
ColumnFlags == <<0>>
ColumnType == Bytes32(25)
ColumnModifier == <<255, 255, 255, 255>>

LEMMA ColumnParts ==
  ASSUME NEW name \in DOMAIN Code
  PROVE  /\ ColumnFlags \in Seq(Byte) /\ ColumnFlags # <<>> /\ CString(name) \in Seq(Byte)
         /\ ColumnType \in Seq(Byte) /\ Len(ColumnType) = 4
         /\ ColumnModifier \in Seq(Byte) /\ Len(ColumnModifier) = 4
         /\ EncodeColumn(name) =
              ColumnFlags \o (CString(name) \o (ColumnType \o ColumnModifier))
         /\ CString(name) \o (ColumnType \o ColumnModifier) \in Seq(Byte)
         /\ ColumnType \o ColumnModifier \in Seq(Byte)
         /\ EncodeColumn(name) \in Seq(Byte) /\ EncodeColumn(name) # <<>>
<1>1. ColumnFlags \in Seq(Byte) /\ ColumnFlags # <<>>
  <2>1. 0 \in Byte
    BY Ranges
  <2> QED BY <2>1, OneByte DEF ColumnFlags
<1>2. CString(name) \in Seq(Byte)
  BY NameCoded
<1>3. ColumnType \in Seq(Byte) /\ Len(ColumnType) = 4
  <2>1. 25 \in 0..MaxI32
    BY Ranges
  <2> QED BY <2>1, Bytes32Value DEF ColumnType
<1>4. ColumnModifier \in Seq(Byte) /\ Len(ColumnModifier) = 4
  <2>1. 255 \in Byte
    BY Ranges
  <2> QED BY <2>1 DEF ColumnModifier
<1> DEFINE f == ColumnFlags
           c == CString(name)
           t == ColumnType
           m == ColumnModifier
<1>5. EncodeColumn(name) = ((f \o c) \o t) \o m
  BY DEF EncodeColumn, ColumnFlags, ColumnType, ColumnModifier
<1>6. f \in Seq(Byte) /\ f # <<>> /\ c \in Seq(Byte) /\ t \in Seq(Byte) /\ m \in Seq(Byte)
  BY <1>1, <1>2, <1>3, <1>4
<1> HIDE DEF f, c, t, m
<1>7. t \o m \in Seq(Byte) /\ c \o (t \o m) \in Seq(Byte)
  BY <1>6, ConcatProperties
<1>8. ((f \o c) \o t) \o m = f \o (c \o (t \o m))
  <2>1. Cat(Cat(Cat(f, c), t), m) = Cat(f, Cat(c, Cat(t, m)))
    BY <1>6, Regroup
  <2> QED BY <2>1 DEF Cat
<1>9. f \o (c \o (t \o m)) \in Seq(Byte) /\ f \o (c \o (t \o m)) # <<>>
  BY <1>6, <1>7, ConcatProperties, ConcatEqualIffEmpty
<1> QED BY <1>1, <1>2, <1>3, <1>4, <1>5, <1>7, <1>8, <1>9 DEF f, c, t, m

\* A column is read as its name.
LEMMA ColumnReads ==
  ASSUME NEW data \in Seq(Byte), NEW name \in DOMAIN Code
  PROVE  Reads(data, [p \in 0..Len(data) |-> ReadColumn(data, p)], EncodeColumn(name), Code[name])
<1> DEFINE text == Code[name]
           flags == [p \in 0..Len(data) |-> ReadU8(data, p)]
           string == [p \in 0..Len(data) |-> ReadCString(data, p)]
           type == [p \in 0..Len(data) |-> ReadU32(data, p)]
           rest == [p \in 0..Len(data) |->
                      Then(ReadI32(data, p), LAMBDA modifier, s : Ok(text, s))]
           rest2 == [p \in 0..Len(data) |->
                       Then(ReadU32(data, p), LAMBDA oid, r :
                         Then(ReadI32(data, r), LAMBDA modifier, s : Ok(text, s)))]
           rest3 == [p \in 0..Len(data) |->
                       Then(ReadCString(data, p), LAMBDA nm, q :
                         Then(ReadU32(data, q), LAMBDA oid, r :
                           Then(ReadI32(data, r), LAMBDA modifier, s : Ok(nm, s))))]
           whole == [p \in 0..Len(data) |-> ReadColumn(data, p)]
           f == ColumnFlags
           c == CString(name)
           t == ColumnType
           m == ColumnModifier
<1>1. /\ f \in Seq(Byte) /\ c \in Seq(Byte) /\ t \in Seq(Byte) /\ m \in Seq(Byte)
      /\ t \o m \in Seq(Byte) /\ c \o (t \o m) \in Seq(Byte)
      /\ EncodeColumn(name) = f \o (c \o (t \o m))
  BY ColumnParts
<1>2. Reads(data, flags, f, 0)
  <2>1. 0 \in Byte
    BY Ranges
  <2> QED BY <2>1, ReadU8At DEF Reads, ColumnFlags
<1>3. Reads(data, string, c, text)
  BY NameCoded, ReadCStringAt DEF Reads
<1>4. Reads(data, type, t, t)
  BY ColumnParts, ReadU32At DEF Reads
<1>5. Reads(data, rest, m, text)
  <2> SUFFICES ASSUME NEW p \in 0..Len(data), At(data, p, m)
               PROVE  rest[p] = Outcome(data, p, m, text)
    BY DEF Reads
  <2>1. PICK n : ReadI32(data, p) = Outcome(data, p, m, n)
    BY ColumnParts, ReadSomeI32At
  <2> HIDE DEF m, text
  <2>2. rest[p] = Then(Outcome(data, p, m, n), LAMBDA modifier, s : Ok(text, s))
    BY <2>1
  <2> HIDE DEF rest
  <2> QED BY <2>2, Results DEF Then, Outcome
<1>6. Chains(data, rest2, type, t, rest)
  BY DEF Chains, Then
<1>7. Chains(data, rest3, string, text, rest2)
  <2> HIDE DEF text
  <2> QED BY DEF Chains, Then
<1>8. Chains(data, whole, flags, 0, rest3)
  BY DEF Chains, Then, ReadColumn
<1> HIDE DEF text, flags, string, type, rest, rest2, rest3, whole, f, c, t, m
<1>9. Reads(data, rest2, t \o m, text)
  BY <1>1, <1>4, <1>5, <1>6, ThenReads
<1>10. Reads(data, rest3, c \o (t \o m), text)
  BY <1>1, <1>3, <1>7, <1>9, ThenReads
<1>11. Reads(data, whole, f \o (c \o (t \o m)), text)
  BY <1>1, <1>2, <1>8, <1>10, ThenReads
<1> QED BY <1>1, <1>11 DEF whole, text
ColumnEncodings(names) == [i \in DOMAIN names |-> EncodeColumn(names[i])]
CodedNames(names) == [i \in DOMAIN names |-> Code[names[i]]]

LEMMA NamesCoded ==
  ASSUME NEW names \in Seq(DOMAIN Code)
  PROVE  /\ ColumnEncodings(names) \in Seq(Seq(Byte))
         /\ Len(ColumnEncodings(names)) = Len(names)
         /\ \A k \in 1..Len(names) :
              /\ names[k] \in DOMAIN Code
              /\ ColumnEncodings(names)[k] = EncodeColumn(names[k])
              /\ ColumnEncodings(names)[k] # <<>>
              /\ CodedNames(names)[k] = Code[names[k]]
         /\ CodedNames(names) \in Seq({CodedNames(names)[k] : k \in 1..Len(names)})
         /\ Len(CodedNames(names)) = Len(names)
<1>1. Len(names) \in Nat /\ DOMAIN names = 1..Len(names)
  BY LenProperties
<1>2. \A k \in 1..Len(names) : names[k] \in DOMAIN Code
  BY ElementOfSeq
<1>3. \A k \in 1..Len(names) : EncodeColumn(names[k]) \in Seq(Byte) /\ EncodeColumn(names[k]) # <<>>
  BY <1>2, ColumnParts
<1>4. ColumnEncodings(names) \in Seq(Seq(Byte)) /\ Len(ColumnEncodings(names)) = Len(names)
  BY <1>1, <1>3 DEF ColumnEncodings
<1>5. /\ CodedNames(names) \in Seq({CodedNames(names)[k] : k \in 1..Len(names)})
      /\ Len(CodedNames(names)) = Len(names)
  BY <1>1 DEF CodedNames
<1> QED BY <1>1, <1>2, <1>3, <1>4, <1>5 DEF ColumnEncodings, CodedNames

LEMMA RepeatColumns ==
  ASSUME NEW data \in Seq(Byte), NEW p \in 0..Len(data), NEW names \in Seq(DOMAIN Code),
         At(data, p, FlattenSeq(ColumnEncodings(names)))
  PROVE  Repeat(data, Len(names), p, ReadColumn)
           = Outcome(data, p, FlattenSeq(ColumnEncodings(names)), CodedNames(names))
<1> DEFINE n == Len(names)
           left == Len(data) - p + 1
           t == IF n < left THEN n ELSE left
           start == Ok(<<>>, p)
           Body(r) == Then(r, LAMBDA items, q : Push(items, ReadColumn(data, q)))
           item == [q \in 0..Len(data) |-> ReadColumn(data, q)]
           read == CHOOSE f : f = [k \in 0..t |-> IF k = 0 THEN start ELSE Body(f[k - 1])]
           all == FlattenSeq(ColumnEncodings(names))
<1>1. Repeat(data, n, p, ReadColumn) = read[t]
  BY DEF Repeat, Iterate
<1>2. n \in Nat /\ Len(data) \in Nat /\ p \in Nat
  BY LenProperties
<1>3. t \in 0..n /\ (t = n \/ t > Len(data) - p)
  BY <1>2
<1>4. \A k \in 1..n : Reads(data, item, ColumnEncodings(names)[k], CodedNames(names)[k])
  BY NamesCoded, ColumnReads
<1> HIDE DEF t
<1>5. ItemsAt(data, p, ColumnEncodings(names), CodedNames(names), item, t)
  BY <1>3, <1>4, NamesCoded DEF ItemsAt
<1>6. PICK g : LoopOver(data, p, item, t, g) /\ g[t] = Outcome(data, p, all, CodedNames(names))
  <2> HIDE DEF item
  <2> QED BY <1>5, LoopReads
<1>7. g[0] = start /\ \A k \in 1..t : g[k] = Body(g[k - 1])
  BY <1>6, Results DEF Then, LoopOver
<1> DEFINE h == [k \in 0..t |-> g[k]]
<1> HIDE DEF Body, start
<1>8. h = [k \in 0..t |-> IF k = 0 THEN start ELSE Body(h[k - 1])]
  BY <1>3, <1>7
<1>9. read = [k \in 0..t |-> IF k = 0 THEN start ELSE Body(read[k - 1])]
  BY <1>8
<1> HIDE DEF read
<1>10. \A k \in 1..t : read[k] = Body(read[k - 1])
  BY <1>3, <1>9
<1>12. t \in Nat /\ read[0] = g[0]
  BY <1>3, <1>7, <1>9
<1>11. read[t] = g[t]
  <2>1. \A k \in 1..t : read[k - 1] = g[k - 1] => read[k] = g[k]
    BY <1>7, <1>10
  <2>2. Parallel(t, read, g)
    BY <1>12, <2>1 DEF Parallel
  <2> QED BY <1>12, <2>2, SameTurns
<1> QED BY <1>1, <1>6, <1>11

-----------------------------------------------------------------------------
(* Messages.                                                               *)

\* The reads of the parsers, as functions of the position.
LEMMA FieldReads ==
  ASSUME NEW data \in Seq(Byte)
  PROVE  /\ \A b \in Byte : Reads(data, [p \in 0..Len(data) |-> ReadU8(data, p)], <<b>>, b)
         /\ \A n \in 0..MaxU16 :
              Reads(data, [p \in 0..Len(data) |-> ReadU16(data, p)], Bytes16(n), n)
         /\ \A enc \in Seq(Byte) : Len(enc) = 4 =>
              Reads(data, [p \in 0..Len(data) |-> ReadU32(data, p)], enc, enc)
         /\ \A name \in DOMAIN Code :
              Reads(data, [p \in 0..Len(data) |-> ReadCString(data, p)], CString(name), Code[name])
<1>1. \A b \in Byte : Reads(data, [p \in 0..Len(data) |-> ReadU8(data, p)], <<b>>, b)
  BY ReadU8At DEF Reads
<1>2. \A n \in 0..MaxU16 : Reads(data, [p \in 0..Len(data) |-> ReadU16(data, p)], Bytes16(n), n)
  BY ReadU16At DEF Reads
<1>3. \A enc \in Seq(Byte) : Len(enc) = 4 =>
        Reads(data, [p \in 0..Len(data) |-> ReadU32(data, p)], enc, enc)
  BY ReadU32At DEF Reads
<1>4. \A name \in DOMAIN Code :
        Reads(data, [p \in 0..Len(data) |-> ReadCString(data, p)], CString(name), Code[name])
  BY NameCoded, ReadCStringAt DEF Reads
<1> QED BY <1>1, <1>2, <1>3, <1>4

LEMMA TableCoded ==
  ASSUME NEW table \in DOMAIN Oid
  PROVE  /\ Oid[table] \in Seq(Byte) /\ Len(Oid[table]) = 4
         /\ table \in DOMAIN Code /\ "public" \in DOMAIN Code
  BY WalPayloadsAssumption DEF Byte

\* The columns of a relation are its count and each of them.
LEMMA ColumnsReads ==
  ASSUME NEW data \in Seq(Byte), NEW names \in Seq(DOMAIN Code), Len(names) <= MaxU16
  PROVE  /\ Len(names) \in 0..MaxU16
         /\ FlattenSeq(ColumnEncodings(names)) \in Seq(Byte)
         /\ Reads(data, [p \in 0..Len(data) |-> Repeat(data, Len(names), p, ReadColumn)],
                  FlattenSeq(ColumnEncodings(names)), CodedNames(names))
<1>1. Len(names) \in 0..MaxU16
  BY Ranges, LenProperties
<1>2. FlattenSeq(ColumnEncodings(names)) \in Seq(Byte)
  BY NamesCoded, FlattenedBytes
<1>3. Reads(data, [p \in 0..Len(data) |-> Repeat(data, Len(names), p, ReadColumn)],
            FlattenSeq(ColumnEncodings(names)), CodedNames(names))
  BY RepeatColumns DEF Reads
<1> QED BY <1>1, <1>2, <1>3

\* the replica identity of a relation, which nobody reads
LEMMA Hundred == 100 \in Byte
  BY Ranges

\* A Relation message without its tag.
LEMMA RelationReads ==
  ASSUME NEW data \in Seq(Byte), NEW table \in DOMAIN Oid,
         NEW names \in Seq(DOMAIN Code), Len(names) <= MaxU16
  PROVE  Reads(data, [p \in 0..Len(data) |-> ParseRelation(data, p)],
           Oid[table] \o (CString("public") \o (CString(table) \o (<<100>> \o
             (Bytes16(Len(names)) \o FlattenSeq(ColumnEncodings(names)))))),
           [tag |-> "R", relation |-> Oid[table], columns |-> CodedNames(names)])
<1> DEFINE n == Len(names)
           i == Oid[table]
           public == CString("public")
           name == CString(table)
           identity == <<100>>
           size == Bytes16(n)
           all == FlattenSeq(ColumnEncodings(names))
           coded == CodedNames(names)
           value == [tag |-> "R", relation |-> i, columns |-> coded]
           Of(id, c) == [tag |-> "R", relation |-> id, columns |-> c]
           u8 == [p \in 0..Len(data) |-> ReadU8(data, p)]
           u16 == [p \in 0..Len(data) |-> ReadU16(data, p)]
           u32 == [p \in 0..Len(data) |-> ReadU32(data, p)]
           string == [p \in 0..Len(data) |-> ReadCString(data, p)]
           columns == [p \in 0..Len(data) |-> Repeat(data, n, p, ReadColumn)]
           R1(id, k, p) == Then(Repeat(data, k, p, ReadColumn), LAMBDA c, u : Ok(Of(id, c), u))
           R2(id, p) == Then(ReadU16(data, p), LAMBDA k, u : R1(id, k, u))
           R3(id, p) == Then(ReadU8(data, p), LAMBDA k, u : R2(id, u))
           R4(id, p) == Then(ReadCString(data, p), LAMBDA k, u : R3(id, u))
           R5(id, p) == Then(ReadCString(data, p), LAMBDA k, u : R4(id, u))
           r1 == [p \in 0..Len(data) |-> R1(i, n, p)]
           r2 == [p \in 0..Len(data) |-> R2(i, p)]
           r3 == [p \in 0..Len(data) |-> R3(i, p)]
           r4 == [p \in 0..Len(data) |-> R4(i, p)]
           r5 == [p \in 0..Len(data) |-> R5(i, p)]
           whole == [p \in 0..Len(data) |-> ParseRelation(data, p)]
<1>1. /\ i \in Seq(Byte) /\ public \in Seq(Byte) /\ name \in Seq(Byte)
      /\ identity \in Seq(Byte) /\ size \in Seq(Byte) /\ all \in Seq(Byte)
  <2>2. identity \in Seq(Byte)
    BY Hundred, OneByte
  <2>3. size \in Seq(Byte) /\ all \in Seq(Byte)
    BY ColumnsReads, Bytes16Value
  <2> QED BY <2>2, <2>3, TableCoded, NameCoded
<1>2. Reads(data, u32, i, i) /\ Reads(data, string, public, Code["public"])
      /\ Reads(data, string, name, Code[table])
  BY TableCoded, FieldReads
<1>3. Reads(data, u8, identity, 100)
  BY Hundred, FieldReads
<1>4. Reads(data, u16, size, n) /\ Reads(data, columns, all, coded)
  BY ColumnsReads, FieldReads
<1>5. \A p \in 0..Len(data) :
        /\ ~ columns[p].ok => r1[p] = columns[p]
        /\ columns[p].ok /\ columns[p].value = coded => r1[p] = Ok(value, columns[p].pos)
  <2> HIDE DEF coded, i
  <2> QED BY DEF Then
<1>6. Chains(data, r2, u16, n, r1)
  <2> HIDE DEF i, n, R1
  <2> QED BY DEF Chains, Then
<1>7. Chains(data, r3, u8, 100, r2)
  <2> HIDE DEF i, R2
  <2> QED BY DEF Chains, Then
<1>8. Chains(data, r4, string, Code[table], r3)
  <2> HIDE DEF i, R3
  <2> QED BY DEF Chains, Then
<1>9. Chains(data, r5, string, Code["public"], r4)
  <2> HIDE DEF i, R4
  <2> QED BY DEF Chains, Then
<1>10. Chains(data, whole, u32, i, r5)
  <2> HIDE DEF i
  <2> QED BY DEF Chains, Then, ParseRelation
<1> HIDE DEF n, i, public, name, identity, size, all, coded, value, u8, u16, u32, string,
             columns, R1, R2, R3, R4, R5, r1, r2, r3, r4, r5, whole
<1>11. Reads(data, r1, all, value)
  BY <1>1, <1>4, <1>5, ThenGives
<1> DEFINE e1 == size \o all
           e2 == identity \o e1
           e3 == name \o e2
           e4 == public \o e3
<1>12. e1 \in Seq(Byte) /\ Reads(data, r2, e1, value)
  BY <1>1, <1>4, <1>6, <1>11, ThenReads, ConcatProperties
<1> HIDE DEF e1
<1>13. e2 \in Seq(Byte) /\ Reads(data, r3, e2, value)
  BY <1>1, <1>3, <1>7, <1>12, ThenReads, ConcatProperties
<1> HIDE DEF e2
<1>14. e3 \in Seq(Byte) /\ Reads(data, r4, e3, value)
  BY <1>1, <1>2, <1>8, <1>13, ThenReads, ConcatProperties
<1> HIDE DEF e3
<1>15. e4 \in Seq(Byte) /\ Reads(data, r5, e4, value)
  BY <1>1, <1>2, <1>9, <1>14, ThenReads, ConcatProperties
<1> HIDE DEF e4
<1>16. Reads(data, whole, i \o e4, value)
  BY <1>1, <1>2, <1>10, <1>15, ThenReads
<1> QED BY <1>16 DEF whole, value, e1, e2, e3, e4, i, public, name, identity, size, all, coded, n

\* A row message without its tag that has one tuple: an Insert or a Delete.
LEMMA InsertReads ==
  ASSUME NEW data \in Seq(Byte), NEW table \in DOMAIN Oid,
         NEW values \in Seq(WireValue), Len(values) <= MaxU16
  PROVE  Reads(data, [p \in 0..Len(data) |-> ParseInsert(data, p)],
           Oid[table] \o (<<Ascii.N>> \o EncodeTuple(values)),
           [tag |-> "I", relation |-> Oid[table], old |-> <<>>, new |-> CodedTuple(values)])
<1> DEFINE i == Oid[table]
           n == Ascii.N
           kind == <<n>>
           all == EncodeTuple(values)
           coded == CodedTuple(values)
           Of(id, c) == [tag |-> "I", relation |-> id, old |-> <<>>, new |-> c]
           value == Of(i, coded)
           u8 == [p \in 0..Len(data) |-> ReadU8(data, p)]
           u32 == [p \in 0..Len(data) |-> ReadU32(data, p)]
           tuple == [p \in 0..Len(data) |-> ReadTuple(data, p)]
           R1(id, p) == Then(ReadTuple(data, p), LAMBDA c, u : Ok(Of(id, c), u))
           R2(id, p) == Then(ReadU8(data, p), LAMBDA k, u :
                          IF k # Ascii.N THEN Err("UnknownMessageTag") ELSE R1(id, u))
           r1 == [p \in 0..Len(data) |-> R1(i, p)]
           r2 == [p \in 0..Len(data) |-> R2(i, p)]
           whole == [p \in 0..Len(data) |-> ParseInsert(data, p)]
<1>1. i \in Seq(Byte) /\ kind \in Seq(Byte) /\ all \in Seq(Byte)
  BY TableCoded, EncodedTuple, AsciiBytes, OneByte DEF Ascii
<1>2. Reads(data, u32, i, i) /\ Reads(data, u8, kind, n) /\ Reads(data, tuple, all, coded)
  BY TableCoded, FieldReads, TupleReads, AsciiBytes DEF Ascii
<1>3. \A p \in 0..Len(data) :
        /\ ~ tuple[p].ok => r1[p] = tuple[p]
        /\ tuple[p].ok /\ tuple[p].value = coded => r1[p] = Ok(value, tuple[p].pos)
  <2> HIDE DEF coded, i
  <2> QED BY DEF Then
<1>4. Chains(data, r2, u8, n, r1)
  <2> HIDE DEF i, R1
  <2> QED BY DEF Chains, Then
<1>5. Chains(data, whole, u32, i, r2)
  <2> HIDE DEF i
  <2> QED BY DEF Chains, Then, ParseInsert
<1> HIDE DEF i, n, kind, all, coded, value, u8, u32, tuple, R1, R2, r1, r2, whole
<1>6. Reads(data, r1, all, value)
  BY <1>1, <1>2, <1>3, ThenGives
<1> DEFINE e1 == kind \o all
<1>7. e1 \in Seq(Byte) /\ Reads(data, r2, e1, value)
  BY <1>1, <1>2, <1>4, <1>6, ThenReads, ConcatProperties
<1> HIDE DEF e1
<1>8. Reads(data, whole, i \o e1, value)
  BY <1>1, <1>2, <1>5, <1>7, ThenReads
<1> QED BY <1>8 DEF whole, value, e1, i, kind, n, all, coded

LEMMA DeleteReads ==
  ASSUME NEW data \in Seq(Byte), NEW table \in DOMAIN Oid,
         NEW values \in Seq(WireValue), Len(values) <= MaxU16
  PROVE  Reads(data, [p \in 0..Len(data) |-> ParseDelete(data, p)],
           Oid[table] \o (<<OldKind(table)>> \o EncodeTuple(values)),
           [tag |-> "D", relation |-> Oid[table], old |-> CodedTuple(values), new |-> <<>>])
<1> DEFINE i == Oid[table]
           n == OldKind(table)
           kind == <<n>>
           all == EncodeTuple(values)
           coded == CodedTuple(values)
           Of(id, c) == [tag |-> "D", relation |-> id, old |-> c, new |-> <<>>]
           value == Of(i, coded)
           u8 == [p \in 0..Len(data) |-> ReadU8(data, p)]
           u32 == [p \in 0..Len(data) |-> ReadU32(data, p)]
           tuple == [p \in 0..Len(data) |-> ReadTuple(data, p)]
           R1(id, p) == Then(ReadTuple(data, p), LAMBDA c, u : Ok(Of(id, c), u))
           R2(id, p) == Then(ReadU8(data, p), LAMBDA k, u :
                          IF k \notin {Ascii.K, Ascii.O} THEN Err("UnknownMessageTag") ELSE R1(id, u))
           r1 == [p \in 0..Len(data) |-> R1(i, p)]
           r2 == [p \in 0..Len(data) |-> R2(i, p)]
           whole == [p \in 0..Len(data) |-> ParseDelete(data, p)]
<1>1. i \in Seq(Byte) /\ n \in Byte /\ n \in {Ascii.K, Ascii.O} /\ all \in Seq(Byte)
  BY TableCoded, EncodedTuple, AsciiBytes DEF Ascii, OldKind
<1>2. Reads(data, u32, i, i) /\ Reads(data, u8, kind, n) /\ Reads(data, tuple, all, coded)
  BY <1>1, TableCoded, FieldReads, TupleReads
<1>3. kind \in Seq(Byte)
  BY <1>1, OneByte
<1>4. \A p \in 0..Len(data) :
        /\ ~ tuple[p].ok => r1[p] = tuple[p]
        /\ tuple[p].ok /\ tuple[p].value = coded => r1[p] = Ok(value, tuple[p].pos)
  <2> HIDE DEF coded, i
  <2> QED BY DEF Then
<1>5. Chains(data, r2, u8, n, r1)
  <2> HIDE DEF i, R1, n
  <2> QED BY <1>1 DEF Chains, Then
<1>6. Chains(data, whole, u32, i, r2)
  <2> HIDE DEF i
  <2> QED BY DEF Chains, Then, ParseDelete
<1> HIDE DEF i, n, kind, all, coded, value, u8, u32, tuple, R1, R2, r1, r2, whole
<1>7. Reads(data, r1, all, value)
  BY <1>1, <1>2, <1>4, ThenGives
<1> DEFINE e1 == kind \o all
<1>8. e1 \in Seq(Byte) /\ Reads(data, r2, e1, value)
  BY <1>1, <1>2, <1>3, <1>5, <1>7, ThenReads, ConcatProperties
<1> HIDE DEF e1
<1>9. Reads(data, whole, i \o e1, value)
  BY <1>1, <1>2, <1>6, <1>8, ThenReads
<1> QED BY <1>9 DEF whole, value, e1, i, kind, n, all, coded

\* the loop over the tuples of an Update, of t turns
UpdateLoop(data, t, start) == Iterate(t, start, LAMBDA result : UpdateTurn(data, result))

\* Once a turn of it changes nothing, none does.
LEMMA LoopOfUpdate ==
  ASSUME NEW data, NEW start, NEW t \in Nat \ {0}, NEW one, NEW two,
         one = UpdateTurn(data, start), two = UpdateTurn(data, one),
         UpdateTurn(data, two) = two, t = 1 => one = two
  PROVE  UpdateLoop(data, t, start) = two
<1> DEFINE Turn(r) == UpdateTurn(data, r)
           f == CHOOSE g : g = [k \in 0..t |-> IF k = 0 THEN start ELSE Turn(g[k - 1])]
           g == [k \in 0..t |-> IF k = 0 THEN start ELSE IF k = 1 THEN one ELSE two]
<1>1. UpdateLoop(data, t, start) = f[t]
  BY DEF UpdateLoop, Iterate
<1>2. Turn(start) = one /\ Turn(one) = two /\ Turn(two) = two
  OBVIOUS
<1> HIDE DEF Turn
<1>3. g = [k \in 0..t |-> IF k = 0 THEN start ELSE Turn(g[k - 1])]
  BY <1>2
<1>4. f = [k \in 0..t |-> IF k = 0 THEN start ELSE Turn(f[k - 1])]
  BY <1>3
<1>5. g[0] = start /\ \A k \in 1..t : g[k] = Turn(g[k - 1])
  BY <1>3
<1> HIDE DEF f
<1>6. f[0] = start /\ \A k \in 1..t : f[k] = Turn(f[k - 1])
  BY <1>4
<1>7. g[t] = two
  OBVIOUS
<1> HIDE DEF g
<1>8. \A k \in 1..t : f[k - 1] = g[k - 1] => f[k] = g[k]
  BY <1>5, <1>6
<1>9. Parallel(t, f, g)
  BY <1>5, <1>6, <1>8 DEF Parallel
<1>10. f[t] = g[t]
  BY <1>9, SameTurns
<1> QED BY <1>1, <1>7, <1>10

\* An Update that has no old tuple, or one.
OldPart(table, old) == IF old = <<>> THEN <<>> ELSE <<OldKind(table)>> \o EncodeTuple(old)
NewPart(new) == <<Ascii.N>> \o EncodeTuple(new)

\* A turn reads the new tuple, and keeps the old one that was read before it.
LEMMA TurnReadsNew ==
  ASSUME NEW data \in Seq(Byte), NEW old, NEW new \in Seq(WireValue), Len(new) <= MaxU16
  PROVE  /\ NewPart(new) \in Seq(Byte) /\ NewPart(new) # <<>>
         /\ Reads(data,
              [p \in 0..Len(data) |-> UpdateTurn(data, Ok([old |-> old, new |-> <<>>], p))],
              NewPart(new), [old |-> old, new |-> <<CodedTuple(new)>>])
<1> DEFINE n == Ascii.N
           kind == <<n>>
           all == EncodeTuple(new)
           coded == CodedTuple(new)
           Of(c) == [old |-> old, new |-> <<c>>]
           value == Of(coded)
           u8 == [p \in 0..Len(data) |-> ReadU8(data, p)]
           tuple == [p \in 0..Len(data) |-> ReadTuple(data, p)]
           r1 == [p \in 0..Len(data) |-> Then(ReadTuple(data, p), LAMBDA c, u : Ok(Of(c), u))]
           whole == [p \in 0..Len(data) |-> UpdateTurn(data, Ok([old |-> old, new |-> <<>>], p))]
<1>1. n \in Byte /\ n \notin {Ascii.K, Ascii.O} /\ all \in Seq(Byte)
  BY EncodedTuple, AsciiBytes DEF Ascii
<1>2. Reads(data, u8, kind, n) /\ Reads(data, tuple, all, coded)
  BY <1>1, FieldReads, TupleReads
<1>3. kind \in Seq(Byte) /\ kind # <<>>
  BY <1>1, OneByte
<1>4. \A p \in 0..Len(data) :
        /\ ~ tuple[p].ok => r1[p] = tuple[p]
        /\ tuple[p].ok /\ tuple[p].value = coded => r1[p] = Ok(value, tuple[p].pos)
  <2> HIDE DEF coded
  <2> QED BY DEF Then
<1>5. Chains(data, whole, u8, n, r1)
  <2>1. \A p \in 0..Len(data) :
          whole[p] = Then(ReadU8(data, p), LAMBDA k, q :
            CASE k \in {Ascii.K, Ascii.O} ->
                   Then(ReadTuple(data, q), LAMBDA c, r : Ok([old |-> c, new |-> <<>>], r))
              [] k = Ascii.N -> Then(ReadTuple(data, q), LAMBDA c, r : Ok(Of(c), r))
              [] OTHER -> Err("UnknownMessageTag"))
    BY Results DEF UpdateTurn, Then
  <2> HIDE DEF whole, Of
  <2> QED BY <1>1, <2>1 DEF Chains, Then
<1> HIDE DEF n, kind, all, coded, value, u8, tuple, r1, whole
<1>6. Reads(data, r1, all, value)
  BY <1>1, <1>2, <1>4, ThenGives
<1>7. Reads(data, whole, kind \o all, value)
  BY <1>1, <1>2, <1>3, <1>5, <1>6, ThenReads
<1>8. kind \o all \in Seq(Byte) /\ kind \o all # <<>>
  BY <1>1, <1>3, ConcatProperties, ConcatEqualIffEmpty
<1> QED BY <1>7, <1>8 DEF whole, value, kind, n, all, coded, NewPart

\* A turn reads an old tuple.
LEMMA TurnReadsOld ==
  ASSUME NEW data \in Seq(Byte), NEW table, NEW old \in Seq(WireValue), Len(old) <= MaxU16
  PROVE  /\ <<OldKind(table)>> \o EncodeTuple(old) \in Seq(Byte)
         /\ <<OldKind(table)>> \o EncodeTuple(old) # <<>>
         /\ Reads(data,
              [p \in 0..Len(data) |-> UpdateTurn(data, Ok([old |-> <<>>, new |-> <<>>], p))],
              <<OldKind(table)>> \o EncodeTuple(old), [old |-> CodedTuple(old), new |-> <<>>])
<1> DEFINE n == OldKind(table)
           kind == <<n>>
           all == EncodeTuple(old)
           coded == CodedTuple(old)
           Of(c) == [old |-> c, new |-> <<>>]
           value == Of(coded)
           u8 == [p \in 0..Len(data) |-> ReadU8(data, p)]
           tuple == [p \in 0..Len(data) |-> ReadTuple(data, p)]
           r1 == [p \in 0..Len(data) |-> Then(ReadTuple(data, p), LAMBDA c, u : Ok(Of(c), u))]
           whole == [p \in 0..Len(data) |-> UpdateTurn(data, Ok([old |-> <<>>, new |-> <<>>], p))]
<1>1. n \in Byte /\ n \in {Ascii.K, Ascii.O} /\ n # Ascii.N /\ all \in Seq(Byte)
  BY EncodedTuple, AsciiBytes DEF Ascii, OldKind
<1>2. Reads(data, u8, kind, n) /\ Reads(data, tuple, all, coded)
  BY <1>1, FieldReads, TupleReads
<1>3. kind \in Seq(Byte) /\ kind # <<>>
  BY <1>1, OneByte
<1>4. \A p \in 0..Len(data) :
        /\ ~ tuple[p].ok => r1[p] = tuple[p]
        /\ tuple[p].ok /\ tuple[p].value = coded => r1[p] = Ok(value, tuple[p].pos)
  <2> HIDE DEF coded
  <2> QED BY DEF Then
<1>5. Chains(data, whole, u8, n, r1)
  <2>1. \A p \in 0..Len(data) :
          whole[p] = Then(ReadU8(data, p), LAMBDA k, q :
            CASE k \in {Ascii.K, Ascii.O} -> Then(ReadTuple(data, q), LAMBDA c, r : Ok(Of(c), r))
              [] k = Ascii.N ->
                   Then(ReadTuple(data, q), LAMBDA c, r : Ok([old |-> <<>>, new |-> <<c>>], r))
              [] OTHER -> Err("UnknownMessageTag"))
    BY Results DEF UpdateTurn, Then
  <2> HIDE DEF whole, Of, n
  <2> QED BY <1>1, <2>1 DEF Chains, Then
<1> HIDE DEF n, kind, all, coded, value, u8, tuple, r1, whole
<1>6. Reads(data, r1, all, value)
  BY <1>1, <1>2, <1>4, ThenGives
<1>7. Reads(data, whole, kind \o all, value)
  BY <1>1, <1>2, <1>3, <1>5, <1>6, ThenReads
<1>8. kind \o all \in Seq(Byte) /\ kind \o all # <<>>
  BY <1>1, <1>3, ConcatProperties, ConcatEqualIffEmpty
<1> QED BY <1>7, <1>8 DEF whole, value, kind, n, all, coded

\* A turn after the last one, or after a failed one, changes nothing.
LEMMA TurnsEnd ==
  ASSUME NEW data, NEW p, NEW enc, NEW w, w.new # <<>>
  PROVE  UpdateTurn(data, Outcome(data, p, enc, w)) = Outcome(data, p, enc, w)
<1>1. UpdateTurn(data, Err("Truncated")) = Err("Truncated")
  BY Results DEF UpdateTurn, Then
<1>2. \A q : UpdateTurn(data, Ok(w, q)) = Ok(w, q)
  BY Results DEF UpdateTurn, Then
<1> QED BY <1>1, <1>2 DEF Outcome

\* A turn depends on what was read and up to where.
LEMMA TurnFrom ==
  ASSUME NEW data, NEW result, result.ok
  PROVE  UpdateTurn(data, result) = UpdateTurn(data, Ok(result.value, result.pos))
  BY Results DEF UpdateTurn, Then

\* The loop reads the old tuple, where there is one, and the new one.
LEMMA TuplesRead ==
  ASSUME NEW data \in Seq(Byte), NEW table,
         NEW old \in Seq(WireValue), Len(old) <= MaxU16,
         NEW new \in Seq(WireValue), Len(new) <= MaxU16
  PROVE  Reads(data,
           [p \in 0..Len(data) |->
              UpdateLoop(data, Len(data) - p + 1, Ok([old |-> <<>>, new |-> <<>>], p))],
           OldPart(table, old) \o NewPart(new),
           [old |-> CodedTuple(old), new |-> <<CodedTuple(new)>>])
<1> DEFINE none == [old |-> <<>>, new |-> <<>>]
           w == [old |-> CodedTuple(old), new |-> <<CodedTuple(new)>>]
           a == OldPart(table, old)
           b == NewPart(new)
           one == [p \in 0..Len(data) |-> UpdateTurn(data, Ok(none, p))]
           two == [p \in 0..Len(data) |-> UpdateTurn(data, one[p])]
<1> SUFFICES ASSUME NEW p \in 0..Len(data), At(data, p, a \o b)
             PROVE  UpdateLoop(data, Len(data) - p + 1, Ok(none, p)) = Outcome(data, p, a \o b, w)
  BY DEF Reads
<1>1. w.new # <<>>
  OBVIOUS
<1>2. two[p] = Outcome(data, p, a \o b, w) /\ (p = Len(data) => one[p] = two[p])
  <2>1. CASE old = <<>>
    <3>1. CodedTuple(old) = <<>>
      BY <2>1 DEF CodedTuple
    <3>2. Reads(data, one, b, w) /\ b \in Seq(Byte)
      BY <3>1, TurnReadsNew
    <3>3. a \o b = b
      BY <2>1, <3>2, ConcatEmptySeq DEF OldPart
    <3>4. one[p] = Outcome(data, p, a \o b, w)
      <4> HIDE DEF one, w, a, b
      <4> QED BY <3>2, <3>3 DEF Reads
    <3> HIDE DEF w, a, b, one
    <3>5. two[p] = one[p]
      BY <1>1, <3>4, TurnsEnd
    <3> QED BY <3>4, <3>5
  <2>2. CASE old # <<>>
    <3> DEFINE v == [old |-> CodedTuple(old), new |-> <<>>]
               rest == [q \in 0..Len(data) |-> UpdateTurn(data, Ok(v, q))]
    <3>1. a \in Seq(Byte) /\ a # <<>> /\ Reads(data, one, a, v)
      BY <2>2, TurnReadsOld DEF OldPart
    <3>2. b \in Seq(Byte) /\ Reads(data, rest, b, w)
      BY TurnReadsNew
    <3>3. Chains(data, two, one, v, rest)
      <4> SUFFICES ASSUME NEW q \in 0..Len(data)
                   PROVE  /\ ~ one[q].ok => two[q] = one[q]
                          /\ one[q].ok /\ one[q].value = v /\ one[q].pos \in 0..Len(data)
                               => two[q] = rest[one[q].pos]
        BY DEF Chains
      <4> HIDE DEF one, v
      <4>1. two[q] = UpdateTurn(data, one[q])
        OBVIOUS
      <4> HIDE DEF two
      <4>2. ~ one[q].ok => two[q] = one[q]
        BY <4>1 DEF UpdateTurn, Then
      <4>3. ASSUME one[q].ok, one[q].value = v, one[q].pos \in 0..Len(data)
            PROVE  two[q] = rest[one[q].pos]
        <5>1. rest[one[q].pos] = UpdateTurn(data, Ok(v, one[q].pos))
          BY <4>3
        <5> HIDE DEF rest
        <5> QED BY <4>1, <4>3, <5>1, TurnFrom
      <4> QED BY <4>2, <4>3
    <3> HIDE DEF one, two, rest, v, w, a, b
    <3>4. Reads(data, two, a \o b, w)
      BY <3>1, <3>2, <3>3, ThenReads
    <3>5. two[p] = Outcome(data, p, a \o b, w)
      BY <3>4 DEF Reads
    <3>6. ASSUME p = Len(data) PROVE one[p] = two[p]
      <4>1. Len(a) \in Nat /\ Len(a) # 0 /\ Len(data) \in Nat
        BY <3>1, EmptySeq, LenProperties
      <4>2. At(data, p, a)
        BY <3>1, <3>2, Sequel
      <4>3. one[p] = Outcome(data, p, a, v)
        BY <3>1, <4>2 DEF Reads
      <4>4. ~ one[p].ok
        BY <3>6, <4>1, <4>3, Results DEF Outcome
      <4> QED BY <3>3, <4>4 DEF Chains
    <3> QED BY <3>5, <3>6
  <2> QED BY <2>1, <2>2
<1>3. one[p] = UpdateTurn(data, Ok(none, p)) /\ two[p] = UpdateTurn(data, one[p])
  OBVIOUS
<1> HIDE DEF none, w, a, b, one, two
<1>4. UpdateTurn(data, two[p]) = two[p]
  BY <1>1, <1>2, TurnsEnd
<1> DEFINE t == Len(data) - p + 1
<1>5. t \in Nat \ {0} /\ (t = 1 => p = Len(data))
  BY LenProperties
<1> HIDE DEF t
<1>6. UpdateLoop(data, t, Ok(none, p)) = two[p]
  BY <1>2, <1>3, <1>4, <1>5, LoopOfUpdate
<1> QED BY <1>2, <1>6 DEF t

\* An Update message without its tag.
LEMMA UpdateReads ==
  ASSUME NEW data \in Seq(Byte), NEW table \in DOMAIN Oid,
         NEW old \in Seq(WireValue), Len(old) <= MaxU16,
         NEW new \in Seq(WireValue), Len(new) <= MaxU16
  PROVE  /\ OldPart(table, old) \in Seq(Byte) /\ NewPart(new) \in Seq(Byte)
         /\ Reads(data, [p \in 0..Len(data) |-> ParseUpdate(data, p)],
              Oid[table] \o (OldPart(table, old) \o NewPart(new)),
              [tag |-> "U", relation |-> Oid[table],
               old |-> CodedTuple(old), new |-> CodedTuple(new)])
<1> DEFINE i == Oid[table]
           all == OldPart(table, old) \o NewPart(new)
           w == [old |-> CodedTuple(old), new |-> <<CodedTuple(new)>>]
           Of(id, c) == [tag |-> "U", relation |-> id, old |-> c.old, new |-> c.new[1]]
           value == Of(i, w)
           Loop(p) == UpdateLoop(data, Len(data) - p + 1, Ok([old |-> <<>>, new |-> <<>>], p))
           u32 == [p \in 0..Len(data) |-> ReadU32(data, p)]
           tuples == [p \in 0..Len(data) |-> Loop(p)]
           R1(id, p) == Then(Loop(p), LAMBDA c, u : Ok(Of(id, c), u))
           r1 == [p \in 0..Len(data) |-> R1(i, p)]
           whole == [p \in 0..Len(data) |-> ParseUpdate(data, p)]
<1>1. i \in Seq(Byte) /\ Reads(data, u32, i, i)
  BY TableCoded, FieldReads
<1>2. OldPart(table, old) \in Seq(Byte) /\ NewPart(new) \in Seq(Byte)
  <2>1. OldPart(table, old) \in Seq(Byte)
    BY TurnReadsOld, EmptySeq DEF OldPart
  <2> QED BY <2>1, TurnReadsNew
<1>3. all \in Seq(Byte)
  BY <1>2, ConcatProperties
<1>4. Reads(data, tuples, all, w)
  BY TuplesRead
<1>5. Chains(data, whole, u32, i, r1)
  <2>1. \A p : ParseUpdate(data, p) = Then(ReadU32(data, p), LAMBDA id, q : R1(id, q))
    BY DEF ParseUpdate, UpdateLoop
  <2> HIDE DEF i, R1
  <2> QED BY <2>1 DEF Chains, Then
<1>6. \A p \in 0..Len(data) :
        /\ ~ tuples[p].ok => r1[p] = tuples[p]
        /\ tuples[p].ok /\ tuples[p].value = w => r1[p] = Ok(value, tuples[p].pos)
  <2> HIDE DEF w, i, Loop
  <2> QED BY DEF Then
<1>7. value = [tag |-> "U", relation |-> Oid[table],
               old |-> CodedTuple(old), new |-> CodedTuple(new)]
  OBVIOUS
<1> HIDE DEF i, all, w, value, Loop, u32, tuples, R1, r1, whole
<1>8. Reads(data, r1, all, value)
  BY <1>3, <1>4, <1>6, ThenGives
<1>9. Reads(data, whole, i \o all, value)
  BY <1>1, <1>3, <1>5, <1>8, ThenReads
<1> QED BY <1>2, <1>7, <1>9 DEF whole, i, all

\* the rows and relations of the protocol: their tables and names have codes, and
\* their values keep to the limits
IsRelation(message) ==
  /\ message.tag = "R" /\ message.relation \in DOMAIN Oid
  /\ message.columns \in Seq(DOMAIN Code) /\ Len(message.columns) <= MaxU16
IsTuple(values) == values \in Seq(WireValue) /\ Len(values) <= MaxU16
IsRow(message) ==
  /\ message.tag \in {"I", "U", "D"} /\ message.relation \in DOMAIN Oid
  /\ IsTuple(message.old) /\ IsTuple(message.new)
  /\ message.tag = "I" => message.old = <<>>
  /\ message.tag = "D" => message.new = <<>>

\* A message is its tag and what the parser of the tag reads.
LEMMA TagReads ==
  ASSUME NEW data \in Seq(Byte), NEW tag \in {"R", "I", "U", "D"}, NEW body \in Seq(Byte),
         NEW rest, NEW value, Reads(data, rest, body, value),
         \A p \in 0..Len(data) :
           rest[p] = CASE tag = "R" -> ParseRelation(data, p)
                       [] tag = "I" -> ParseInsert(data, p)
                       [] tag = "U" -> ParseUpdate(data, p)
                       [] tag = "D" -> ParseDelete(data, p)
  PROVE  /\ <<Ascii[tag]>> \o body \in Seq(Byte) /\ <<Ascii[tag]>> \o body # <<>>
         /\ Reads(data, [p \in 0..Len(data) |-> ParseMessage(data, p)],
                  <<Ascii[tag]>> \o body, value)
<1> DEFINE b == Ascii[tag]
           kind == <<b>>
           u8 == [p \in 0..Len(data) |-> ReadU8(data, p)]
           whole == [p \in 0..Len(data) |-> ParseMessage(data, p)]
<1>1. b \in Byte
  BY AsciiBytes DEF Ascii
<1>2. kind \in Seq(Byte) /\ kind # <<>> /\ Reads(data, u8, kind, b)
  BY <1>1, OneByte, FieldReads
<1>3. Chains(data, whole, u8, b, rest)
  <2>1. /\ (tag = "R") = (b = Ascii.R) /\ (tag = "I") = (b = Ascii.I)
        /\ (tag = "U") = (b = Ascii.U) /\ (tag = "D") = (b = Ascii.D)
    BY SMT DEF Ascii
  <2> HIDE DEF b
  <2>2. CASE tag = "R"
    BY <2>1, <2>2 DEF Chains, ParseMessage, Then
  <2>3. CASE tag = "I"
    BY <2>1, <2>3, AsciiBytes DEF Chains, ParseMessage, Then
  <2>4. CASE tag = "U"
    BY <2>1, <2>4, AsciiBytes DEF Chains, ParseMessage, Then
  <2>5. CASE tag = "D"
    BY <2>1, <2>5, AsciiBytes DEF Chains, ParseMessage, Then
  <2> QED BY <2>2, <2>3, <2>4, <2>5
<1> HIDE DEF b, kind, u8, whole
<1>4. Reads(data, whole, kind \o body, value)
  BY <1>2, <1>3, ThenReads
<1>5. kind \o body \in Seq(Byte) /\ kind \o body # <<>>
  BY <1>2, ConcatProperties, ConcatEqualIffEmpty
<1> QED BY <1>4, <1>5 DEF kind, b, whole

LEMMA NoTuple ==
  CodedTuple(<<>>) = <<>> /\ IsTuple(<<>>)
<1>1. CodedTuple(<<>>) = <<>>
  BY DEF CodedTuple
<1>2. <<>> \in Seq(WireValue) /\ Len(<<>>) <= MaxU16
  <2>1. Len(<<>>) = 0
    OBVIOUS
  <2> QED BY <2>1, Ranges
<1> QED BY <1>1, <1>2 DEF IsTuple

\* what a message is encoded as and read as
MessageRead(data, message) ==
  /\ Encode(message) \in Seq(Byte) /\ Encode(message) # <<>>
  /\ Reads(data, [p \in 0..Len(data) |-> ParseMessage(data, p)],
           Encode(message), Coded(message))

LEMMA RelationMessageRead ==
  ASSUME NEW data \in Seq(Byte), NEW message, IsRelation(message)
  PROVE  MessageRead(data, message)
<1> DEFINE table == message.relation
           names == message.columns
           t == <<Ascii["R"]>>
           i == Oid[table]
           p == CString("public")
           c == CString(table)
           f == <<100>>
           s == Bytes16(Len(names))
           all == FlattenSeq(ColumnEncodings(names))
           rest == [q \in 0..Len(data) |-> ParseRelation(data, q)]
           value == [tag |-> "R", relation |-> i, columns |-> CodedNames(names)]
<1>1. table \in DOMAIN Oid /\ names \in Seq(DOMAIN Code) /\ Len(names) <= MaxU16
  BY DEF IsRelation
<1>2. Reads(data, rest, i \o (p \o (c \o (f \o (s \o all)))), value)
  BY <1>1, RelationReads
<1>3. Encode(message) = (((((t \o i) \o p) \o c) \o f) \o s) \o all
  BY DEF IsRelation, Encode, ColumnEncodings
<1>4. Coded(message) = value
  BY DEF IsRelation, Coded, CodedNames
<1>5. /\ t \in Seq(Byte) /\ i \in Seq(Byte) /\ p \in Seq(Byte) /\ c \in Seq(Byte)
      /\ f \in Seq(Byte) /\ s \in Seq(Byte) /\ all \in Seq(Byte)
  <2>1. t \in Seq(Byte)
    BY AsciiBytes, OneByte DEF Ascii
  <2>2. f \in Seq(Byte)
    BY Hundred, OneByte
  <2>3. s \in Seq(Byte) /\ all \in Seq(Byte)
    BY <1>1, ColumnsReads, Bytes16Value
  <2> QED BY <1>1, <2>1, <2>2, <2>3, TableCoded, NameCoded
<1> HIDE DEF t, i, p, c, f, s, all, rest, value
<1> DEFINE e1 == s \o all
           e2 == c \o (f \o e1)
           e3 == i \o (p \o e2)
<1>6. /\ (((((t \o i) \o p) \o c) \o f) \o s) \o all = t \o e3
      /\ e3 \in Seq(Byte)
  <2>1. /\ Cat(t, i) \in Seq(Byte) /\ Cat(Cat(t, i), p) \in Seq(Byte)
        /\ Cat(Cat(Cat(t, i), p), c) \in Seq(Byte)
        /\ Cat(Cat(Cat(Cat(t, i), p), c), f) \in Seq(Byte)
    BY <1>5, Regroup
  <2>2. /\ Cat(s, all) \in Seq(Byte) /\ Cat(f, Cat(s, all)) \in Seq(Byte)
        /\ Cat(c, Cat(f, Cat(s, all))) \in Seq(Byte)
        /\ Cat(p, Cat(c, Cat(f, Cat(s, all)))) \in Seq(Byte)
        /\ Cat(i, Cat(p, Cat(c, Cat(f, Cat(s, all))))) \in Seq(Byte)
    BY <1>5, Regroup
  <2>3. /\ Cat(Cat(Cat(Cat(Cat(Cat(t, i), p), c), f), s), all)
             = Cat(Cat(Cat(Cat(Cat(t, i), p), c), f), Cat(s, all))
        /\ Cat(Cat(Cat(Cat(Cat(t, i), p), c), f), Cat(s, all))
             = Cat(Cat(Cat(Cat(t, i), p), c), Cat(f, Cat(s, all)))
        /\ Cat(Cat(Cat(Cat(t, i), p), c), Cat(f, Cat(s, all)))
             = Cat(Cat(Cat(t, i), p), Cat(c, Cat(f, Cat(s, all))))
    BY <1>5, <2>1, <2>2, Regroup
  <2>4. /\ Cat(Cat(Cat(t, i), p), Cat(c, Cat(f, Cat(s, all))))
             = Cat(Cat(t, i), Cat(p, Cat(c, Cat(f, Cat(s, all)))))
        /\ Cat(Cat(t, i), Cat(p, Cat(c, Cat(f, Cat(s, all)))))
             = Cat(t, Cat(i, Cat(p, Cat(c, Cat(f, Cat(s, all))))))
    BY <1>5, <2>1, <2>2, Regroup
  <2>5. /\ Cat(Cat(Cat(Cat(Cat(Cat(t, i), p), c), f), s), all)
             = Cat(t, Cat(i, Cat(p, Cat(c, Cat(f, Cat(s, all))))))
        /\ Cat(i, Cat(p, Cat(c, Cat(f, Cat(s, all))))) \in Seq(Byte)
    BY <2>2, <2>3, <2>4
  <2> QED BY <2>5 DEF Cat
<1>7. Reads(data, rest, e3, value)
  BY <1>2
<1> HIDE DEF e3
<1>8. \A q \in 0..Len(data) : rest[q] = ParseRelation(data, q)
  BY DEF rest
<1>9. /\ t \o e3 \in Seq(Byte) /\ t \o e3 # <<>>
      /\ Reads(data, [q \in 0..Len(data) |-> ParseMessage(data, q)], t \o e3, value)
  BY <1>6, <1>7, <1>8, TagReads DEF t
<1> QED BY <1>3, <1>4, <1>6, <1>9 DEF MessageRead

LEMMA RowMessageRead ==
  ASSUME NEW data \in Seq(Byte), NEW message, IsRow(message)
  PROVE  MessageRead(data, message)
<1> DEFINE table == message.relation
           old == message.old
           new == message.new
           i == Oid[table]
<1>1. /\ table \in DOMAIN Oid /\ i \in Seq(Byte)
      /\ old \in Seq(WireValue) /\ Len(old) <= MaxU16
      /\ new \in Seq(WireValue) /\ Len(new) <= MaxU16
  BY TableCoded DEF IsRow, IsTuple
<1>2. CASE message.tag = "I"
  <2> DEFINE t == <<Ascii["I"]>>
             k == <<Ascii.N>>
             all == EncodeTuple(new)
             rest == [q \in 0..Len(data) |-> ParseInsert(data, q)]
             value == [tag |-> "I", relation |-> i, old |-> <<>>, new |-> CodedTuple(new)]
  <2>1. Reads(data, rest, i \o (k \o all), value)
    BY <1>1, InsertReads
  <2>2. Encode(message) = ((t \o i) \o k) \o all
    BY <1>2 DEF Encode
  <2>3. Coded(message) = value
    BY <1>2, NoTuple DEF IsRow, Coded
  <2>4. t \in Seq(Byte) /\ k \in Seq(Byte) /\ all \in Seq(Byte)
    BY <1>1, AsciiBytes, OneByte, EncodedTuple DEF Ascii
  <2>5. \A q \in 0..Len(data) : rest[q] = ParseInsert(data, q)
    OBVIOUS
  <2> HIDE DEF i, t, k, all, rest, value
  <2>6. ((t \o i) \o k) \o all = t \o (i \o (k \o all)) /\ i \o (k \o all) \in Seq(Byte)
    <3>1. Cat(Cat(Cat(t, i), k), all) = Cat(t, Cat(i, Cat(k, all))) /\ Cat(i, Cat(k, all)) \in Seq(Byte)
      BY <1>1, <2>4, Regroup
    <3> QED BY <3>1 DEF Cat
  <2> DEFINE body == i \o (k \o all)
  <2>7. body \in Seq(Byte) /\ Reads(data, rest, body, value) /\ Encode(message) = t \o body
    BY <2>1, <2>2, <2>6
  <2> HIDE DEF body
  <2>8. /\ t \o body \in Seq(Byte) /\ t \o body # <<>>
        /\ Reads(data, [q \in 0..Len(data) |-> ParseMessage(data, q)], t \o body, value)
    BY <2>5, <2>7, TagReads DEF t
  <2> QED BY <2>3, <2>7, <2>8 DEF MessageRead
<1>3. CASE message.tag = "D"
  <2> DEFINE t == <<Ascii["D"]>>
             k == <<OldKind(table)>>
             all == EncodeTuple(old)
             rest == [q \in 0..Len(data) |-> ParseDelete(data, q)]
             value == [tag |-> "D", relation |-> i, old |-> CodedTuple(old), new |-> <<>>]
  <2>1. Reads(data, rest, i \o (k \o all), value)
    BY <1>1, DeleteReads
  <2>2. Encode(message) = ((t \o i) \o k) \o all
    BY <1>3 DEF Encode
  <2>3. Coded(message) = value
    BY <1>3, NoTuple DEF IsRow, Coded
  <2>4. t \in Seq(Byte) /\ k \in Seq(Byte) /\ all \in Seq(Byte)
    <3>1. Ascii["D"] \in Byte /\ Ascii.K \in Byte /\ Ascii.O \in Byte
      BY AsciiBytes DEF Ascii
    <3>2. OldKind(table) \in Byte
      BY <3>1 DEF OldKind
    <3> QED BY <1>1, <3>1, <3>2, OneByte, EncodedTuple
  <2>5. \A q \in 0..Len(data) : rest[q] = ParseDelete(data, q)
    OBVIOUS
  <2> HIDE DEF i, t, k, all, rest, value
  <2>6. ((t \o i) \o k) \o all = t \o (i \o (k \o all)) /\ i \o (k \o all) \in Seq(Byte)
    <3>1. Cat(Cat(Cat(t, i), k), all) = Cat(t, Cat(i, Cat(k, all))) /\ Cat(i, Cat(k, all)) \in Seq(Byte)
      BY <1>1, <2>4, Regroup
    <3> QED BY <3>1 DEF Cat
  <2> DEFINE body == i \o (k \o all)
  <2>7. body \in Seq(Byte) /\ Reads(data, rest, body, value) /\ Encode(message) = t \o body
    BY <2>1, <2>2, <2>6
  <2> HIDE DEF body
  <2>8. /\ t \o body \in Seq(Byte) /\ t \o body # <<>>
        /\ Reads(data, [q \in 0..Len(data) |-> ParseMessage(data, q)], t \o body, value)
    BY <2>5, <2>7, TagReads DEF t
  <2> QED BY <2>3, <2>7, <2>8 DEF MessageRead
<1>4. CASE message.tag = "U"
  <2> DEFINE t == <<Ascii["U"]>>
             o == OldPart(table, old)
             n == <<Ascii.N>>
             all == EncodeTuple(new)
             rest == [q \in 0..Len(data) |-> ParseUpdate(data, q)]
             value == [tag |-> "U", relation |-> i,
                       old |-> CodedTuple(old), new |-> CodedTuple(new)]
  <2>1. o \in Seq(Byte) /\ Reads(data, rest, i \o (o \o (n \o all)), value)
    BY <1>1, UpdateReads DEF NewPart
  <2>2. Encode(message) = (((t \o i) \o o) \o n) \o all
    BY <1>4 DEF Encode, OldPart
  <2>3. Coded(message) = value
    BY <1>4 DEF IsRow, Coded
  <2>4. t \in Seq(Byte) /\ n \in Seq(Byte) /\ all \in Seq(Byte)
    BY <1>1, AsciiBytes, OneByte, EncodedTuple DEF Ascii
  <2>5. \A q \in 0..Len(data) : rest[q] = ParseUpdate(data, q)
    OBVIOUS
  <2> HIDE DEF i, t, o, n, all, rest, value
  <2> DEFINE e1 == n \o all
             body == i \o (o \o e1)
  <2>6. (((t \o i) \o o) \o n) \o all = ((t \o i) \o o) \o e1 /\ e1 \in Seq(Byte)
    <3>1. Cat(t, i) \in Seq(Byte) /\ Cat(Cat(t, i), o) \in Seq(Byte)
      BY <1>1, <2>1, <2>4, Regroup
    <3>2. /\ Cat(Cat(Cat(Cat(t, i), o), n), all) = Cat(Cat(Cat(t, i), o), Cat(n, all))
          /\ Cat(n, all) \in Seq(Byte)
      BY <2>4, <3>1, Regroup
    <3> QED BY <3>2 DEF Cat
  <2>7. Reads(data, rest, body, value)
    BY <2>1
  <2> HIDE DEF e1
  <2>8. ((t \o i) \o o) \o e1 = t \o body /\ body \in Seq(Byte)
    <3>1. Cat(Cat(Cat(t, i), o), e1) = Cat(t, Cat(i, Cat(o, e1))) /\ Cat(i, Cat(o, e1)) \in Seq(Byte)
      BY <1>1, <2>1, <2>4, <2>6, Regroup
    <3> QED BY <3>1 DEF Cat
  <2> HIDE DEF body
  <2>9. /\ t \o body \in Seq(Byte) /\ t \o body # <<>>
        /\ Reads(data, [q \in 0..Len(data) |-> ParseMessage(data, q)], t \o body, value)
    BY <2>5, <2>7, <2>8, TagReads DEF t
  <2> QED BY <2>2, <2>3, <2>6, <2>8, <2>9 DEF MessageRead
<1> QED BY <1>2, <1>3, <1>4 DEF IsRow

-----------------------------------------------------------------------------
(* Payloads.                                                               *)

\* the loop over the messages of a payload, as the function of its turns
LEMMA LoopOfMessages ==
  ASSUME NEW data, Len(data) \in Nat \ {0}, NEW one,
         one = Push(<<>>, ParseMessage(data, 0)),
         ~ one.ok \/ \E messages : one = Ok(messages, Len(data))
  PROVE  ParsePgOutputMessages(data) = one
<1> DEFINE t == Len(data)
           start == Ok(<<>>, 0)
           Turn(result) == Then(result, LAMBDA messages, p :
             IF p = Len(data) THEN Ok(messages, p) ELSE Push(messages, ParseMessage(data, p)))
           f == CHOOSE g : g = [k \in 0..t |-> IF k = 0 THEN start ELSE Turn(g[k - 1])]
           g == [k \in 0..t |-> IF k = 0 THEN start ELSE one]
<1>1. ParsePgOutputMessages(data) = f[t]
  BY DEF ParsePgOutputMessages, Iterate
<1>2. Turn(start) = one
  BY Results DEF Then
<1>3. Turn(one) = one
  BY Results DEF Then
<1>4. t \in Nat \ {0}
  OBVIOUS
<1> HIDE DEF Turn, start, t
<1>5. g = [k \in 0..t |-> IF k = 0 THEN start ELSE Turn(g[k - 1])]
  BY <1>2, <1>3, <1>4
<1>6. f = [k \in 0..t |-> IF k = 0 THEN start ELSE Turn(f[k - 1])]
  BY <1>5
<1>9. g[t] = one
  BY <1>4
<1> HIDE DEF f, g
<1>7. g[0] = start /\ \A k \in 1..t : g[k] = Turn(g[k - 1])
  BY <1>4, <1>5
<1>8. f[0] = start /\ \A k \in 1..t : f[k] = Turn(f[k - 1])
  BY <1>4, <1>6
<1>10. \A k \in 1..t : f[k - 1] = g[k - 1] => f[k] = g[k]
  BY <1>7, <1>8
<1>11. Parallel(t, f, g)
  BY <1>7, <1>8, <1>10 DEF Parallel
<1>12. f[t] = g[t]
  BY <1>4, <1>11, SameTurns
<1> QED BY <1>1, <1>9, <1>12

\* A payload of one message is read as the message; cut short it is refused.
LEMMA PayloadRead ==
  ASSUME NEW enc \in Seq(Byte), NEW value,
         NEW n \in 1..Len(enc), NEW data, data = SubSeq(enc, 1, n),
         Reads(data, [p \in 0..Len(data) |-> ParseMessage(data, p)], enc, value)
  PROVE  ParsePgOutputMessages(data) =
           IF n = Len(enc) THEN Ok(<<value>>, n) ELSE Err("Truncated")
<1>1. Len(enc) \in Nat /\ n \in Nat /\ n >= 1
  BY LenProperties
<1>2. /\ data \in Seq(Byte) /\ Len(data) = n
      /\ \A i \in 1..n : data[i] = enc[i]
  BY <1>1, SubSeqProperties, ElementOfSeq
<1>3. At(data, 0, enc)
  BY <1>1, <1>2 DEF At
<1>4. ParseMessage(data, 0) = Outcome(data, 0, enc, value)
  <2>1. 0 \in 0..Len(data)
    BY <1>1, <1>2
  <2> QED BY <1>3, <2>1 DEF Reads
<1> DEFINE one == Push(<<>>, ParseMessage(data, 0))
           size == Len(data)
<1>5. size = n /\ size \in Nat \ {0}
  BY <1>1, <1>2
<1>6. one = IF n = Len(enc) THEN Ok(<<value>>, size) ELSE Err("Truncated")
  <2>1. Outcome(data, 0, enc, value) = IF n = Len(enc) THEN Ok(value, n) ELSE Err("Truncated")
    <3> DEFINE all == Len(enc)
    <3>1. all \in Nat /\ n <= all /\ (0 + all <= size <=> n = all) /\ 0 + all = all
      BY <1>1, <1>5
    <3> QED BY <3>1 DEF Outcome
  <2>2. Append(<<>>, value) = <<value>>
    OBVIOUS
  <2> DEFINE first == ParseMessage(data, 0)
  <2>3. first = IF n = Len(enc) THEN Ok(value, n) ELSE Err("Truncated")
    BY <1>4, <2>1
  <2> HIDE DEF first, size
  <2>4. CASE n = Len(enc)
    <3>1. first = Ok(value, n)
      BY <2>3, <2>4
    <3>2. Push(<<>>, first) = Ok(<<value>>, n)
      BY <2>2, <3>1, Results DEF Push, Then
    <3> QED BY <1>5, <2>4, <3>2 DEF first
  <2>5. CASE n # Len(enc)
    <3>1. first = Err("Truncated")
      BY <2>3, <2>5
    <3>2. Push(<<>>, first) = Err("Truncated")
      BY <3>1, Results DEF Push, Then
    <3> QED BY <2>5, <3>2 DEF first
  <2> QED BY <2>4, <2>5
<1> HIDE DEF one
<1>7. ~ one.ok \/ \E messages : one = Ok(messages, size)
  BY <1>6, Results
<1>8. ParsePgOutputMessages(data) = one
  BY <1>5, <1>7, LoopOfMessages DEF one
<1> QED BY <1>5, <1>6, <1>8

LEMMA RowsAndRelationsDecode ==
  ASSUME NEW message, IsRelation(message) \/ IsRow(message)
  PROVE  Decodes(message)
<1> DEFINE enc == Encode(message)
           value == Coded(message)
<1>1. \A data \in Seq(Byte) : MessageRead(data, message)
  BY RelationMessageRead, RowMessageRead
<1>2. enc \in Seq(Byte) /\ enc # <<>>
  <2>1. <<>> \in Seq(Byte)
    BY EmptySeq
  <2> QED BY <1>1, <2>1 DEF MessageRead
<1>3. Len(enc) \in Nat /\ Len(enc) \in 1..Len(enc)
  BY <1>2, EmptySeq, LenProperties
<1>4. \A data \in Seq(Byte) :
        Reads(data, [p \in 0..Len(data) |-> ParseMessage(data, p)], enc, value)
  BY <1>1 DEF MessageRead
<1> HIDE DEF enc, value
<1>5. ASSUME NEW n \in 1..Len(enc)
      PROVE  ParsePgOutputMessages(SubSeq(enc, 1, n)) =
               IF n = Len(enc) THEN Ok(<<value>>, n) ELSE Err("Truncated")
  <2> DEFINE data == SubSeq(enc, 1, n)
  <2>1. data \in Seq(Byte)
    <3>1. \A i \in 1..n : enc[i] \in Byte
      BY <1>2, <1>3, ElementOfSeq
    <3> QED BY <1>3, <3>1, SubSeqProperties
  <2> HIDE DEF data
  <2>2. Reads(data, [p \in 0..Len(data) |-> ParseMessage(data, p)], enc, value)
    BY <1>4, <2>1
  <2> QED BY <1>2, <2>2, PayloadRead DEF data
<1>6. SubSeq(enc, 1, Len(enc)) = enc
  BY <1>2, SubSeqFull
<1>7. ParsePgOutputMessages(enc) = Ok(<<value>>, Len(enc))
  BY <1>3, <1>5, <1>6
<1>8. \A n \in 1 .. Len(enc) - 1 : ParsePgOutputMessages(SubSeq(enc, 1, n)) = Err("Truncated")
  <2> SUFFICES ASSUME NEW n \in 1 .. Len(enc) - 1
               PROVE  ParsePgOutputMessages(SubSeq(enc, 1, n)) = Err("Truncated")
    OBVIOUS
  <2>1. n \in 1..Len(enc) /\ n # Len(enc)
    BY <1>3
  <2> QED BY <1>5, <2>1
<1>9. Parses(message)
  BY DEF Parses, IsRelation, IsRow
<1> QED BY <1>7, <1>8, <1>9 DEF Decodes, enc, value

LEMMA TruncateDecodes ==
  ASSUME NEW message, message.tag = "T", message.relation \in DOMAIN Oid
  PROVE  Decodes(message)
<1> DEFINE t == Ascii.T
           kind == <<t>>
           size == Bytes32(1)
           flags == <<0>>
           i == Oid[message.relation]
           enc == Encode(message)
<1>1. enc = ((kind \o size) \o flags) \o i
  BY DEF Encode
<1>2. /\ t \in Byte /\ kind \in Seq(Byte) /\ Len(kind) = 1 /\ size \in Seq(Byte)
      /\ flags \in Seq(Byte) /\ i \in Seq(Byte)
  <2>1. 0 \in Byte /\ 1 \in 0..MaxI32 /\ t \in Byte
    BY Ranges, AsciiBytes DEF Ascii
  <2> QED BY <2>1, OneByte, Bytes32Value, TableCoded
<1>3. t \notin {Ascii.R, Ascii.I, Ascii.U, Ascii.D}
  BY SMT DEF Ascii
<1> DEFINE rest == size \o (flags \o i)
<1>4. rest \in Seq(Byte) /\ enc = kind \o rest
  <2> HIDE DEF t, kind, size, flags, i, enc
  <2>1. /\ Cat(Cat(Cat(kind, size), flags), i) = Cat(kind, Cat(size, Cat(flags, i)))
        /\ Cat(size, Cat(flags, i)) \in Seq(Byte)
    BY <1>2, Regroup
  <2> QED BY <1>1, <2>1 DEF Cat
<1> HIDE DEF t, kind, size, flags, i, enc, rest
<1>5. /\ enc \in Seq(Byte) /\ Len(enc) \in Nat \ {0}
      /\ enc[1] = kind[1]
  <2>1. /\ kind \o rest \in Seq(Byte) /\ Len(kind \o rest) = Len(kind) + Len(rest)
        /\ \A k \in 1 .. Len(kind) + Len(rest) :
             (kind \o rest)[k] = IF k <= Len(kind) THEN kind[k] ELSE rest[k - Len(kind)]
    BY <1>2, <1>4, ConcatProperties
  <2>2. Len(rest) \in Nat
    BY <1>4, LenProperties
  <2> DEFINE n == Len(kind) + Len(rest)
  <2>3. n \in Nat \ {0} /\ 1 \in 1..n
    BY <1>2, <2>2
  <2>4. (kind \o rest)[1] = kind[1]
    BY <1>2, <2>1, <2>3
  <2> QED BY <1>4, <2>1, <2>3, <2>4
<1>6. At(enc, 0, kind)
  <2> SUFFICES ASSUME NEW k \in 1..Len(kind) PROVE enc[0 + k] = kind[k]
    BY DEF At
  <2>1. k = 1 /\ 0 + k = 1
    BY <1>2
  <2> QED BY <1>5, <2>1
<1>7. ReadU8(enc, 0) = Ok(t, 1)
  <2>1. 0 \in 0..Len(enc) /\ At(enc, 0, <<t>>)
    BY <1>5, <1>6 DEF kind
  <2>2. ReadU8(enc, 0) = Outcome(enc, 0, <<t>>, t)
    BY <1>2, <1>5, <2>1, ReadU8At
  <2> QED BY <1>2, <1>5, <2>2 DEF Outcome, kind
<1>8. ParseMessage(enc, 0) = Err("UnknownMessageTag")
  BY <1>3, <1>7, Results DEF ParseMessage, Then
<1>9. Push(<<>>, ParseMessage(enc, 0)) = Err("UnknownMessageTag")
  BY <1>8, Results DEF Push, Then
<1>10. ParsePgOutputMessages(enc) = Err("UnknownMessageTag")
  BY <1>5, <1>9, Results, LoopOfMessages
<1>11. ~ Parses(message)
  BY DEF Parses
<1> QED BY <1>10, <1>11 DEF Decodes, enc

-----------------------------------------------------------------------------
(* The payloads of the stream.                                             *)

\* A tuple that Postgres sends has a value for each column.
LEMMA TupleSent ==
  ASSUME NEW c, c.columns \in Seq(DOMAIN Code), Len(c.columns) <= MaxU16,
         NEW d \in DocumentId, NEW other \in {OtherText, Unchanged}
  PROVE  IsTuple(Tuple(c, d, other))
<1> DEFINE values == Tuple(c, d, other)
<1>1. Len(c.columns) \in Nat /\ DOMAIN c.columns = 1..Len(c.columns)
  BY LenProperties
<1>2. d \in WireValue /\ other \in WireValue
  BY DEF WireValue, Text
<1>3. values \in [1..Len(c.columns) -> WireValue]
  BY <1>1, <1>2 DEF Tuple
<1> HIDE DEF values
<1>4. values \in Seq(WireValue) /\ Len(values) = Len(c.columns)
  BY <1>1, <1>3
<1> QED BY <1>4 DEF IsTuple, values

LEMMA ChangeDecodes ==
  ASSUME NEW c, IsChange(c), c.table \in DOMAIN Oid,
         c.columns \in Seq(DOMAIN Code), Len(c.columns) <= MaxU16
  PROVE  Decodes(RowMessage(c)) /\ Decodes(RelationMessage(c))
<1>1. Decodes(RelationMessage(c))
  <2>1. IsRelation(RelationMessage(c))
    BY DEF IsRelation, RelationMessage
  <2> QED BY <2>1, RowsAndRelationsDecode
<1>2. \A d \in DocumentId, other \in {OtherText, Unchanged} : IsTuple(Tuple(c, d, other))
  BY TupleSent
<1>3. IsTuple(<<>>)
  BY NoTuple
<1>4. CASE c.op = "insert"
  <2>1. RowMessage(c) = [tag |-> "I", relation |-> c.table, old |-> <<>>,
                         new |-> Tuple(c, c.new, OtherText)]
    BY <1>4 DEF RowMessage
  <2>2. c.new \in DocumentId
    BY <1>4 DEF IsChange
  <2>3. IsRow(RowMessage(c))
    BY <1>2, <1>3, <2>1, <2>2 DEF IsRow
  <2> QED BY <1>1, <2>3, RowsAndRelationsDecode
<1>5. CASE c.op = "update"
  <2> DEFINE old == IF c.table = "comments" THEN Tuple(c, c.old, OtherText) ELSE <<>>
             new == Tuple(c, c.new, IF c.table = "comments" THEN Unchanged ELSE OtherText)
  <2>1. RowMessage(c) = [tag |-> "U", relation |-> c.table, old |-> old, new |-> new]
    BY <1>5 DEF RowMessage
  <2>2. c.new \in DocumentId /\ c.old \in DocumentId
    BY <1>5 DEF IsChange
  <2>3. IsTuple(old) /\ IsTuple(new)
    BY <1>2, <1>3, <2>2
  <2> HIDE DEF old, new
  <2>4. IsRow(RowMessage(c))
    BY <2>1, <2>3 DEF IsRow
  <2> QED BY <1>1, <2>4, RowsAndRelationsDecode
<1>6. CASE c.op = "delete"
  <2>1. RowMessage(c) = [tag |-> "D", relation |-> c.table,
                         old |-> Tuple(c, c.old, OtherText), new |-> <<>>]
    BY <1>6 DEF RowMessage
  <2>2. c.old \in DocumentId
    BY <1>6 DEF IsChange
  <2>3. IsRow(RowMessage(c))
    BY <1>2, <1>3, <2>1, <2>2 DEF IsRow
  <2> QED BY <1>1, <2>3, RowsAndRelationsDecode
<1>7. CASE c.op = "truncate"
  <2>1. RowMessage(c).tag = "T" /\ RowMessage(c).relation = c.table
    BY <1>7 DEF RowMessage
  <2> QED BY <1>1, <2>1, TruncateDecodes
<1> QED BY <1>4, <1>5, <1>6, <1>7 DEF IsChange

\* The bytes of every XLogData are parsed into exactly the message the reader is
\* modelled with; cut anywhere they are refused (pgoutput.rs:63-199,
\* byte_reader.rs:43-65).  This is for columns, texts and messages of any number
\* and length that the u16 and i32 of the protocol can count.
THEOREM PayloadsDecoded == Spec => []PayloadsAreDecoded
<1>1. ReaderInv => PayloadsAreDecoded
  <2> SUFFICES ASSUME ReaderInv, AtChange PROVE Decodes(NextMessage)
    BY DEF PayloadsAreDecoded
  <2>1. log \in Seq(Transactions) /\ tx \in 1..Len(log) /\ pos \in 1..Len(log[tx])
    BY LenProperties DEF ReaderInv, TypeOK, AtChange, Streaming
  <2>2. log[tx] \in Transactions
    BY <2>1, ElementOfSeq
  <2>3. IsChange(NextChange) /\ pos \in DOMAIN log[tx]
    BY <2>1, <2>2, ChangesOf DEF NextChange
  <2>4. /\ NextChange.table \in DOMAIN Oid /\ NextChange.columns \in Seq(DOMAIN Code)
        /\ Len(NextChange.columns) <= MaxU16
    BY <2>2, <2>3, WalPayloadsAssumption DEF NextChange
  <2>5. Decodes(RowMessage(NextChange)) /\ Decodes(RelationMessage(NextChange))
    BY <2>3, <2>4, ChangeDecodes
  <2> QED BY <2>5 DEF NextMessage
<1> QED BY <1>1, ReaderCorrect, PTL

================================================================================
