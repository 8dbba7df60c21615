--------------------------- MODULE AsyncFdProofs ---------------------------
(***************************************************************************)
(* Proofs about AsyncFd: its types, and that the reader of a stream hands  *)
(* over the messages that were written to it, whole and in order.          *)
(***************************************************************************)
EXTENDS AsyncFd, TLAPS

Byte == {"len", "body"} \X Nat \X Nat

(* The bytes of a message on the stream: its length, then its body.        *)
FrameByte(m, i) ==
    IF i <= LenSize THEN <<"len", m.len, i>> ELSE <<"body", m.id, i - LenSize>>

(* What an operation has yet to write, and has read so far, of a frame.    *)
Unwritten(op) ==
    IF op.part = "idle" THEN 0
    ELSE IF op.part = "len" THEN op.left + op.msg.len ELSE op.left

Base(r) == IF r.part = "len" THEN 0 ELSE LenSize

OpType(op) ==
    \/ op = Idle
    \/ \E m \in Messages : \E left \in 1 .. LenSize :
         op = [part |-> "len", msg |-> m, left |-> left]
    \/ \E m \in Messages : \E left \in 1 .. m.len :
         op = [part |-> "body", msg |-> m, left |-> left]

ReceiveType(r) ==
    /\ \E part \in {"len", "body"}, size \in Nat, data \in Seq(Byte) :
         r = [part |-> part, size |-> size, data |-> data]
    /\ Len(r.data) < r.size

(* Where each message of S ends in the stream.                             *)
Offsets(o, S) ==
    /\ o \in [0 .. Len(S) -> Nat]
    /\ o[0] = 0
    /\ \A i \in 1 .. Len(S) : o[i] = o[i - 1] + LenSize + S[i].len
    /\ \A i, j \in 0 .. Len(S) : i <= j => o[i] <= o[j]

(* The position of the reader in the stream.                               *)
ReadTo(o, g, r) == o[g] + Base(r) + Len(r.data)

(* What the reader has of the message after the first g.                   *)
Awaits(S, g, r) ==
    /\ r.part = "len" => r.size = LenSize
    /\ r.part = "body" => g < Len(S) /\ r.size = S[g + 1].len
    /\ Len(r.data) > 0 => g < Len(S)
    /\ \A j \in 1 .. Len(r.data) : r.data[j] = FrameByte(S[g + 1], Base(r) + j)

(* The stream from the reader's to the writer's position holds the frames  *)
(* of S, and the reader has the bytes before them.                         *)
CarriesAt(o, S, g, op, B, r, writing) ==
    /\ Offsets(o, S)
    /\ g \in 0 .. Len(S)
    /\ ReadTo(o, g, r) + Len(B) <= o[Len(S)]
    /\ writing => ReadTo(o, g, r) + Len(B) + Unwritten(op) = o[Len(S)]
    /\ op.part # "idle" => writing /\ Len(S) > 0 /\ S[Len(S)] = op.msg
    /\ \A i \in 1 .. Len(S) : \A b \in 1 .. LenSize + S[i].len :
         \A q \in 1 .. Len(B) :
           ReadTo(o, g, r) + q = o[i - 1] + b => B[q] = FrameByte(S[i], b)
    /\ Awaits(S, g, r)

Carries(S, g, op, B, r, writing) ==
    \E o : CarriesAt(o, S, g, op, B, r, writing)

(* recv() of k bytes: what the operation then has, what stays behind.      *)
Taken(r, B, k) == r.data \o SubSeq(B, 1, k)
Left(B, k) == SubSeq(B, k + 1, Len(B))

-----------------------------------------------------------------------------
(* Bytes.                                                                  *)

LEMMA Numbers ==
    /\ LenSize \in Nat /\ LenSize > 0
    /\ \A len \in Lengths : len \in Nat /\ len > 0
    /\ \A m \in Messages : m.len \in Lengths /\ m.len \in Nat /\ m.len > 0 /\ m.id \in Nat
<1>1. LenSize \in Nat \ {0} /\ \A len \in Lengths : len \in Nat \ {0}
  BY AsyncFdAssumption
<1>2. \A m \in Messages : m.len \in Lengths /\ m.id \in Nat
  BY DEF Messages
<1> QED BY <1>1, <1>2

LEMMA RoomIsFinite == \A s \in Streams : Capacity[s] \in Nat /\ Len(Plan[s]) \in Nat
BY AsyncFdAssumption

LEMMA CutOut ==
    ASSUME NEW S, NEW data \in Seq(S), NEW lo \in Nat, NEW k \in Nat, lo + k <= Len(data)
    PROVE  /\ SubSeq(data, lo + 1, lo + k) \in Seq(S)
           /\ Len(SubSeq(data, lo + 1, lo + k)) = k
           /\ \A j \in 1 .. k : SubSeq(data, lo + 1, lo + k)[j] = data[lo + j]
<1>1. \A j \in 1 .. k : data[lo + j] \in S
  OBVIOUS
<1> QED BY <1>1

LEMMA EncodeType ==
    ASSUME NEW len \in Nat
    PROVE  /\ Encode(len) \in Seq(Byte)
           /\ Len(Encode(len)) = LenSize
           /\ \A i \in 1 .. LenSize : Encode(len)[i] = <<"len", len, i>>
<1>1. \A i \in 1 .. LenSize : <<"len", len, i>> \in Byte
  BY Numbers DEF Byte
<1> QED BY <1>1, Numbers DEF Encode

LEMMA BodyType ==
    ASSUME NEW m \in Messages
    PROVE  /\ Body(m) \in Seq(Byte)
           /\ Len(Body(m)) = m.len
           /\ \A i \in 1 .. m.len : Body(m)[i] = <<"body", m.id, i>>
<1>1. \A i \in 1 .. m.len : <<"body", m.id, i>> \in Byte
  BY Numbers DEF Byte
<1> QED BY <1>1, Numbers DEF Body

(* A whole length is read as what it was written for.                      *)
LEMMA DecodeEncode ==
    ASSUME NEW len \in Lengths
    PROVE  Decode(Encode(len)) = {len}
<1>1. \A other \in Lengths : Encode(other) = Encode(len) => other = len
  <2> SUFFICES ASSUME NEW other \in Lengths, Encode(other) = Encode(len)
               PROVE  other = len
    OBVIOUS
  <2>1. Encode(other)[1] = <<"len", other, 1>> /\ Encode(len)[1] = <<"len", len, 1>>
    BY EncodeType, Numbers
  <2> QED BY <2>1
<1> QED BY <1>1 DEF Decode

(* The piece that an operation writes next.                                *)
LEMMA PieceBytes ==
    ASSUME NEW op, OpType(op), op.part # "idle", NEW k \in 1 .. op.left
    PROVE  /\ op.msg \in Messages
           /\ op.left \in Nat
           /\ op.part = "len" => op.left <= LenSize
           /\ op.part = "body" => op.left <= op.msg.len
           /\ Piece(op, k) \in Seq(Byte)
           /\ Len(Piece(op, k)) = k
           /\ \A j \in 1 .. k :
                Piece(op, k)[j] =
                  FrameByte(op.msg, LenSize + op.msg.len - Unwritten(op) + j)
           /\ OpType(Wrote(op, k))
           /\ Unwritten(Wrote(op, k)) = Unwritten(op) - k
           /\ Wrote(op, k).part # "idle" => Wrote(op, k).msg = op.msg
<1>1. CASE op.part = "len"
  <2>1. PICK m \in Messages, left \in 1 .. LenSize :
          op = [part |-> "len", msg |-> m, left |-> left]
    BY <1>1 DEF OpType, Idle
  <2>0. op.msg \in Messages /\ op.left \in Nat /\ (op.part = "len" => op.left <= LenSize)
        /\ (op.part = "body" => op.left <= op.msg.len)
    BY <2>1, Numbers
  <2>2. Piece(op, k) = SubSeq(Encode(m.len), LenSize - left + 1, LenSize - left + k)
    BY <2>1, EncodeType, Numbers DEF Piece
  <2>3. /\ Piece(op, k) \in Seq(Byte)
        /\ Len(Piece(op, k)) = k
        /\ \A j \in 1 .. k : Piece(op, k)[j] = <<"len", m.len, LenSize - left + j>>
    <3>1. Encode(m.len) \in Seq(Byte) /\ Len(Encode(m.len)) = LenSize
      BY EncodeType, Numbers
    <3>2. LenSize - left \in Nat /\ k \in Nat /\ LenSize - left + k <= LenSize
      BY <2>1, Numbers
    <3>3. /\ Piece(op, k) \in Seq(Byte)
          /\ Len(Piece(op, k)) = k
          /\ \A j \in 1 .. k : Piece(op, k)[j] = Encode(m.len)[LenSize - left + j]
      <4>1. PICK lo \in Nat : lo = LenSize - left
        BY <3>2
      <4>2. Piece(op, k) = SubSeq(Encode(m.len), lo + 1, lo + k) /\ lo + k <= Len(Encode(m.len))
        BY <2>2, <3>1, <3>2, <4>1
      <4>3. /\ SubSeq(Encode(m.len), lo + 1, lo + k) \in Seq(Byte)
            /\ Len(SubSeq(Encode(m.len), lo + 1, lo + k)) = k
            /\ \A j \in 1 .. k : SubSeq(Encode(m.len), lo + 1, lo + k)[j] = Encode(m.len)[lo + j]
        <5> DEFINE data == Encode(m.len)
        <5>1. data \in Seq(Byte) /\ lo + k <= Len(data) /\ k \in Nat
          BY <3>1, <3>2, <4>2
        <5> HIDE DEF data
        <5>2. /\ SubSeq(data, lo + 1, lo + k) \in Seq(Byte)
              /\ Len(SubSeq(data, lo + 1, lo + k)) = k
              /\ \A j \in 1 .. k : SubSeq(data, lo + 1, lo + k)[j] = data[lo + j]
          BY <5>1, CutOut
        <5> QED BY <5>2 DEF data
      <4> QED BY <4>1, <4>2, <4>3
    <3>4. \A j \in 1 .. k : LenSize - left + j \in 1 .. LenSize
      BY <3>2, Numbers
    <3> QED BY <3>3, <3>4, EncodeType, Numbers
  <2>4. \A j \in 1 .. k :
          Piece(op, k)[j] = FrameByte(op.msg, LenSize + op.msg.len - Unwritten(op) + j)
    <3>1. ASSUME NEW j \in 1 .. k
          PROVE  Piece(op, k)[j] = FrameByte(op.msg, LenSize + op.msg.len - Unwritten(op) + j)
      <4>1. LenSize + op.msg.len - Unwritten(op) + j = LenSize - left + j
        BY <2>1, Numbers DEF Unwritten
      <4>2. LenSize - left + j \in Int /\ LenSize - left + j <= LenSize
        BY <2>1, Numbers
      <4> QED BY <2>1, <2>3, <4>1, <4>2, Numbers DEF FrameByte
    <3> QED BY <3>1
  <2>5. CASE left > k
    <3>1. Wrote(op, k) = [part |-> "len", msg |-> m, left |-> left - k]
      BY <2>1, <2>5 DEF Wrote
    <3>2. left - k \in 1 .. LenSize
      BY <2>1, <2>5, Numbers
    <3>3. OpType(Wrote(op, k))
      BY <3>1, <3>2 DEF OpType
    <3>4. Unwritten(Wrote(op, k)) = Unwritten(op) - k
      BY <2>1, <3>1, Numbers DEF Unwritten
    <3>5. Wrote(op, k).msg = op.msg
      BY <2>1, <3>1
    <3> QED BY <2>0, <2>3, <2>4, <3>3, <3>4, <3>5
  <2>6. CASE left = k
    <3>1. Wrote(op, k) = [part |-> "body", msg |-> m, left |-> m.len]
      BY <2>1, <2>6 DEF Wrote, SendBody
    <3>2. m.len \in 1 .. m.len
      BY Numbers
    <3>3. OpType(Wrote(op, k))
      BY <3>1, <3>2 DEF OpType
    <3>4. Unwritten(Wrote(op, k)) = Unwritten(op) - k
      BY <2>1, <2>6, <3>1, Numbers DEF Unwritten
    <3>5. Wrote(op, k).msg = op.msg
      BY <2>1, <3>1
    <3> QED BY <2>0, <2>3, <2>4, <3>3, <3>4, <3>5
  <2> QED BY <2>1, <2>5, <2>6, Numbers
<1>2. CASE op.part = "body"
  <2>1. PICK m \in Messages, left \in Nat :
          left \in 1 .. m.len /\ op = [part |-> "body", msg |-> m, left |-> left]
    BY <1>2, Numbers DEF OpType, Idle
  <2>0. op.msg \in Messages /\ op.left \in Nat /\ (op.part = "len" => op.left <= LenSize)
        /\ (op.part = "body" => op.left <= op.msg.len)
    BY <2>1, Numbers
  <2>2. Piece(op, k) = SubSeq(Body(m), m.len - left + 1, m.len - left + k)
    BY <2>1, BodyType, Numbers DEF Piece
  <2>3. /\ Piece(op, k) \in Seq(Byte)
        /\ Len(Piece(op, k)) = k
        /\ \A j \in 1 .. k : Piece(op, k)[j] = <<"body", m.id, m.len - left + j>>
    <3>1. Body(m) \in Seq(Byte) /\ Len(Body(m)) = m.len
      BY BodyType, Numbers
    <3>2. m.len - left \in Nat /\ k \in Nat /\ m.len - left + k <= m.len
      BY <2>1, Numbers
    <3>3. /\ Piece(op, k) \in Seq(Byte)
          /\ Len(Piece(op, k)) = k
          /\ \A j \in 1 .. k : Piece(op, k)[j] = Body(m)[m.len - left + j]
      <4>1. PICK lo \in Nat : lo = m.len - left
        BY <3>2
      <4>2. Piece(op, k) = SubSeq(Body(m), lo + 1, lo + k) /\ lo + k <= Len(Body(m))
        BY <2>2, <3>1, <3>2, <4>1
      <4>3. /\ SubSeq(Body(m), lo + 1, lo + k) \in Seq(Byte)
            /\ Len(SubSeq(Body(m), lo + 1, lo + k)) = k
            /\ \A j \in 1 .. k : SubSeq(Body(m), lo + 1, lo + k)[j] = Body(m)[lo + j]
        <5> DEFINE data == Body(m)
        <5>1. data \in Seq(Byte) /\ lo + k <= Len(data) /\ k \in Nat
          BY <3>1, <3>2, <4>2
        <5> HIDE DEF data
        <5>2. /\ SubSeq(data, lo + 1, lo + k) \in Seq(Byte)
              /\ Len(SubSeq(data, lo + 1, lo + k)) = k
              /\ \A j \in 1 .. k : SubSeq(data, lo + 1, lo + k)[j] = data[lo + j]
          BY <5>1, CutOut
        <5> QED BY <5>2 DEF data
      <4> QED BY <4>1, <4>2, <4>3
    <3>4. \A j \in 1 .. k : m.len - left + j \in 1 .. m.len
      BY <3>2, Numbers
    <3> QED BY <3>3, <3>4, BodyType, Numbers
  <2>4. \A j \in 1 .. k :
          Piece(op, k)[j] = FrameByte(op.msg, LenSize + op.msg.len - Unwritten(op) + j)
    <3>1. ASSUME NEW j \in 1 .. k
          PROVE  Piece(op, k)[j] = FrameByte(op.msg, LenSize + op.msg.len - Unwritten(op) + j)
      <4>1. PICK b \in Int : b = LenSize + op.msg.len - Unwritten(op) + j
        BY <2>1, Numbers DEF Unwritten
      <4>2. ~(b <= LenSize) /\ b - LenSize = m.len - left + j
        BY <2>1, <4>1, Numbers DEF Unwritten
      <4>3. op.msg = m /\ Piece(op, k)[j] = <<"body", m.id, m.len - left + j>>
        BY <2>1, <2>3
      <4>4. FrameByte(m, b) = <<"body", m.id, b - LenSize>>
        BY <4>2 DEF FrameByte
      <4> QED BY <4>1, <4>2, <4>3, <4>4
    <3> QED BY <3>1
  <2>5. CASE left > k
    <3>1. Wrote(op, k) = [part |-> "body", msg |-> m, left |-> left - k]
      BY <2>1, <2>5 DEF Wrote
    <3>2. left - k \in 1 .. m.len
      BY <2>1, <2>5, Numbers
    <3>3. OpType(Wrote(op, k))
      BY <3>1, <3>2 DEF OpType
    <3>4. Unwritten(Wrote(op, k)) = Unwritten(op) - k
      BY <2>1, <3>1, Numbers DEF Unwritten
    <3>5. Wrote(op, k).msg = op.msg
      BY <2>1, <3>1
    <3> QED BY <2>0, <2>3, <2>4, <3>3, <3>4, <3>5
  <2>6. CASE left = k
    <3>1. Wrote(op, k) = Idle
      BY <2>1, <2>6 DEF Wrote
    <3>2. OpType(Wrote(op, k)) /\ Wrote(op, k).part = "idle"
      BY <3>1 DEF OpType, Idle
    <3>3. Unwritten(Wrote(op, k)) = Unwritten(op) - k
      BY <2>1, <2>6, <3>2, Numbers DEF Unwritten
    <3> QED BY <2>0, <2>3, <2>4, <3>2, <3>3
  <2> QED BY <2>1, <2>5, <2>6, Numbers
<1> QED BY <1>1, <1>2 DEF OpType, Idle

-----------------------------------------------------------------------------
(* The stream.                                                             *)

LEMMA OffsetsType ==
    ASSUME NEW o, NEW S \in Seq(Messages), Offsets(o, S)
    PROVE  /\ Len(S) \in Nat
           /\ \A i \in 0 .. Len(S) : o[i] \in Nat
           /\ \A i \in 1 .. Len(S) : /\ S[i] \in Messages /\ S[i].len \in Nat
                                      /\ i - 1 \in 0 .. Len(S) /\ i \in 0 .. Len(S)
<1>1. Len(S) \in Nat /\ \A i \in 1 .. Len(S) : S[i] \in Messages
  OBVIOUS
<1>2. \A i \in 0 .. Len(S) : o[i] \in Nat
  BY DEF Offsets
<1>3. \A i \in 1 .. Len(S) : S[i].len \in Nat
  BY <1>1, Numbers
<1>4. \A i \in 1 .. Len(S) : i - 1 \in 0 .. Len(S) /\ i \in 0 .. Len(S)
  BY <1>1
<1> QED
  BY <1>1, <1>2, <1>3, <1>4

(* A number with something added to it is another.                         *)
LEMMA Grows == \A x, v, y, z, l \in Nat : y > 0 => x + v + y + z + l # x
OBVIOUS

(* A message that is not written whole has not been read whole.            *)
LEMMA Behind ==
    ASSUME NEW o, NEW S \in Seq(Messages), NEW g, NEW op, OpType(op),
           NEW B \in Seq(Byte), NEW r, ReceiveType(r), NEW writing,
           CarriesAt(o, S, g, op, B, r, writing), op.part # "idle"
    PROVE  g < Len(S) /\ Unwritten(op) > 0
<1>1. /\ Offsets(o, S) /\ g \in 0 .. Len(S) /\ Len(B) \in Nat
      /\ ReadTo(o, g, r) + Len(B) + Unwritten(op) = o[Len(S)]
  BY DEF CarriesAt
<1>2. Unwritten(op) \in Nat /\ Unwritten(op) > 0
  <2>1. CASE op.part = "len"
    <3>1. PICK m \in Messages, left \in 1 .. LenSize :
            op = [part |-> "len", msg |-> m, left |-> left]
      BY <2>1 DEF OpType, Idle
    <3> QED BY <3>1, Numbers DEF Unwritten
  <2>2. CASE op.part = "body"
    <3>1. PICK m \in Messages, left \in Nat :
            left \in 1 .. m.len /\ op = [part |-> "body", msg |-> m, left |-> left]
      BY <2>2, Numbers DEF OpType, Idle
    <3> QED BY <3>1, Numbers DEF Unwritten
  <2> QED BY <2>1, <2>2 DEF OpType, Idle
<1>3. Base(r) + Len(r.data) \in Nat
  BY Numbers DEF Base, ReceiveType
<1>4. o[g] \in Nat /\ o[Len(S)] \in Nat /\ Len(S) \in Nat
  BY <1>1 DEF Offsets
<1>5. g # Len(S)
  BY <1>1, <1>2, <1>3, <1>4, Numbers DEF ReadTo, Base, ReceiveType
<1> QED BY <1>1, <1>2, <1>4, <1>5

(* send() takes k bytes.                                                   *)
LEMMA WriteCarries ==
    ASSUME NEW S \in Seq(Messages), NEW g, NEW op, OpType(op), op.part # "idle",
           NEW B \in Seq(Byte), NEW r, ReceiveType(r),
           NEW k \in 1 .. op.left, Carries(S, g, op, B, r, TRUE)
    PROVE  Carries(S, g, Wrote(op, k), B \o Piece(op, k), r, TRUE)
<1>1. PICK o : CarriesAt(o, S, g, op, B, r, TRUE)
  BY DEF Carries
<1> DEFINE n == Len(S)
           R == ReadTo(o, g, r)
           B2 == B \o Piece(op, k)
<1>2. /\ op.msg \in Messages /\ op.left \in Nat
      /\ Piece(op, k) \in Seq(Byte) /\ Len(Piece(op, k)) = k
      /\ \A j \in 1 .. k :
           Piece(op, k)[j] = FrameByte(op.msg, LenSize + op.msg.len - Unwritten(op) + j)
      /\ Unwritten(Wrote(op, k)) = Unwritten(op) - k
      /\ Wrote(op, k).part # "idle" => Wrote(op, k).msg = op.msg
  BY PieceBytes
<1>3. /\ Unwritten(op) \in Nat /\ k \in Nat /\ k > 0 /\ k <= Unwritten(op)
      /\ Unwritten(op) <= LenSize + op.msg.len /\ op.msg.len \in Nat
  BY <1>2, PieceBytes, Numbers, SMTT(30) DEF Unwritten, OpType, Idle
<1>4. /\ n \in Nat /\ n > 0 /\ S[n] = op.msg /\ g \in 0 .. n
      /\ R + Len(B) + Unwritten(op) = o[n]
      /\ Offsets(o, S)
  BY <1>1 DEF CarriesAt
<1>5. R \in Nat /\ Len(B) \in Nat /\ \A i \in 0 .. n : o[i] \in Nat
  <2>1. \A i \in 0 .. n : o[i] \in Nat
    BY <1>4 DEF Offsets
  <2>2. Len(r.data) \in Nat /\ Base(r) \in Nat
    BY Numbers DEF ReceiveType, Base
  <2>3. o[g] \in Nat /\ Len(B) \in Nat
    BY <1>4, <2>1
  <2>4. R = o[g] + Base(r) + Len(r.data)
    BY DEF ReadTo
  <2> HIDE DEF R
  <2> QED BY <2>1, <2>2, <2>3, <2>4
<1>6. /\ o[n] = o[n - 1] + LenSize + op.msg.len
      /\ n - 1 \in 0 .. n
      /\ R + Len(B) + Unwritten(op) = o[n - 1] + LenSize + op.msg.len
  <2>1. n \in 1 .. Len(S)
    BY <1>4
  <2> QED BY <1>4, <2>1 DEF Offsets
<1>7. /\ Len(B2) = Len(B) + k
      /\ \A j \in 1 .. Len(B) : B2[j] = B[j]
      /\ \A j \in 1 .. k : B2[Len(B) + j] = Piece(op, k)[j]
  BY <1>2
<1> HIDE DEF n, R, B2
<1>8. ASSUME NEW i \in 1 .. n, NEW b \in 1 .. LenSize + S[i].len,
             NEW q \in 1 .. Len(B2), R + q = o[i - 1] + b
      PROVE  B2[q] = FrameByte(S[i], b)
  <2>1. /\ i \in 1 .. Len(S) /\ i \in Nat /\ S[i] \in Messages /\ S[i].len \in Nat
        /\ b \in Nat /\ q \in Nat /\ o[i - 1] \in Nat
    <3>1. i \in 1 .. Len(S) /\ i - 1 \in 0 .. n /\ S[i] \in Messages
      BY <1>4 DEF n
    <3> QED BY <1>3, <1>5, <1>7, <3>1, Numbers
  <2>2. CASE q <= Len(B)
    <3>1. q \in 1 .. Len(B)
      BY <1>5, <2>1, <2>2
    <3>2. B[q] = FrameByte(S[i], b)
      BY <1>1, <1>8, <2>1, <3>1 DEF CarriesAt, R
    <3> QED BY <1>7, <3>1, <3>2
  <2>3. CASE ~(q <= Len(B))
    <3>1. i = n
      <4>1. SUFFICES ASSUME i # n PROVE FALSE
        OBVIOUS
      <4>2. o[i] <= o[n - 1] /\ o[i] = o[i - 1] + LenSize + S[i].len
        <5>1. i \in 0 .. Len(S) /\ n - 1 \in 0 .. Len(S) /\ i <= n - 1
          BY <1>4, <4>1 DEF n
        <5> QED BY <1>4, <2>1, <5>1 DEF Offsets
      <4>3. o[i - 1] + b <= o[n - 1]
        <5>1. PICK e \in Nat, d \in Nat, f \in Nat :
                e = o[n - 1] /\ d = o[i - 1] /\ f = S[i].len
          BY <1>5, <1>6, <2>1
        <5>2. d + LenSize + f <= e /\ b <= LenSize + f
          BY <2>1, <4>2, <5>1
        <5>3. d + b <= e
          BY <2>1, <5>2, Numbers
        <5> QED BY <5>1, <5>3
      <4>4. o[n - 1] <= R + Len(B)
        <5>1. PICK e \in Nat, u \in Nat, f \in Nat :
                e = o[n - 1] /\ u = Unwritten(op) /\ f = op.msg.len
          BY <1>3, <1>5, <1>6
        <5>2. R + Len(B) + u = e + LenSize + f /\ u <= LenSize + f
          BY <1>3, <1>6, <5>1
        <5>3. e <= R + Len(B)
          BY <1>5, <5>2, Numbers
        <5> QED BY <5>1, <5>3
      <4> QED BY <1>5, <1>6, <1>8, <2>1, <2>3, <4>3, <4>4
    <3>2. PICK j \in 1 .. k : q = Len(B) + j
      <4>1. q - Len(B) \in 1 .. k /\ q = Len(B) + (q - Len(B))
        BY <1>3, <1>5, <1>7, <2>1, <2>3
      <4> QED BY <4>1
    <3>3. b = LenSize + op.msg.len - Unwritten(op) + j
      <4>1. j \in Nat /\ o[n - 1] \in Nat /\ o[n] \in Nat
        BY <1>3, <1>5, <1>6, <3>1, <2>1
      <4>2. PICK e \in Nat, u \in Nat, f \in Nat :
              e = o[n - 1] /\ u = Unwritten(op) /\ f = op.msg.len
        BY <1>3, <4>1
      <4>3. R + (Len(B) + j) = e + b /\ R + Len(B) + u = e + LenSize + f
        BY <1>6, <1>8, <3>1, <3>2, <4>2
      <4>4. b = LenSize + f - u + j
        BY <4>1, <4>3, <1>5, <2>1, Numbers, SMTT(30)
      <4> QED BY <4>2, <4>4
    <3> QED BY <3>1, <3>2, <3>3, <1>2, <1>4, <1>7
  <2> QED BY <2>2, <2>3
<1>9. R + Len(B2) + Unwritten(Wrote(op, k)) = o[n] /\ R + Len(B2) <= o[n]
  BY <1>2, <1>3, <1>4, <1>5, <1>7
<1>10. CarriesAt(o, S, g, Wrote(op, k), B2, r, TRUE)
  BY <1>1, <1>2, <1>4, <1>8, <1>9 DEF CarriesAt, n, R
<1> QED BY <1>10 DEF Carries, B2

LEMMA LeftBytes ==
    ASSUME NEW B \in Seq(Byte), NEW k \in 1 .. Len(B)
    PROVE  /\ Left(B, k) \in Seq(Byte)
           /\ Len(Left(B, k)) = Len(B) - k
           /\ \A q \in 1 .. Len(Left(B, k)) :
                Left(B, k)[q] = B[k + q] /\ k + q \in 1 .. Len(B)
<1>1. /\ Len(B) \in Nat /\ k \in Nat /\ k <= Len(B) /\ Len(B) - k \in Nat
  OBVIOUS
<1>2. PICK l \in Nat : l = Len(B) - k
  BY <1>1
<1>3. k + l = Len(B) /\ Left(B, k) = SubSeq(B, k + 1, k + l)
  BY <1>1, <1>2 DEF Left
<1>4. /\ Left(B, k) \in Seq(Byte) /\ Len(Left(B, k)) = l
      /\ \A q \in 1 .. l : Left(B, k)[q] = B[k + q]
  BY <1>1, <1>3, CutOut
<1>5. \A q \in 1 .. l : k + q \in 1 .. Len(B)
  BY <1>1, <1>3
<1> QED BY <1>2, <1>4, <1>5

LEMMA SameBytes ==
    ASSUME NEW x \in Seq(Byte), NEW y \in Seq(Byte), Len(x) = Len(y),
           \A j \in 1 .. Len(x) : x[j] = y[j]
    PROVE  x = y
OBVIOUS

(* recv() takes k bytes: the reader has them of its frame.               *)
LEMMA ReadBytes ==
    ASSUME NEW o, NEW S \in Seq(Messages), NEW g, NEW op,
           NEW B \in Seq(Byte), NEW r, ReceiveType(r), NEW writing,
           CarriesAt(o, S, g, op, B, r, writing),
           NEW k \in 1 .. Len(B), Len(r.data) + k <= r.size
    PROVE  /\ Taken(r, B, k) \in Seq(Byte) /\ Len(Taken(r, B, k)) = Len(r.data) + k
           /\ g < Len(S)
           /\ \A j \in 1 .. Len(Taken(r, B, k)) :
                Taken(r, B, k)[j] = FrameByte(S[g + 1], Base(r) + j)
<1> DEFINE data == Taken(r, B, k)
<1>1. /\ Offsets(o, S) /\ g \in 0 .. Len(S) /\ Len(B) \in Nat /\ k \in Nat
      /\ ReadTo(o, g, r) + Len(B) <= o[Len(S)]
      /\ r.part = "len" => r.size = LenSize
      /\ r.part = "body" => g < Len(S) /\ r.size = S[g + 1].len
      /\ \A j \in 1 .. Len(r.data) : r.data[j] = FrameByte(S[g + 1], Base(r) + j)
  BY DEF CarriesAt, Awaits
<1>0. /\ Len(B) \in Nat /\ k \in Nat /\ k <= Len(B) /\ Len(B) - k \in Nat
      /\ Len(r.data) + k <= r.size
  OBVIOUS
<1>2. /\ r.data \in Seq(Byte) /\ Len(r.data) \in Nat /\ r.part \in {"len", "body"}
      /\ Base(r) \in Nat /\ r.size \in Nat
  BY Numbers DEF ReceiveType, Base
<1>3. /\ data \in Seq(Byte) /\ Len(data) = Len(r.data) + k
      /\ \A j \in 1 .. Len(r.data) : data[j] = r.data[j]
      /\ \A j \in 1 .. k : data[Len(r.data) + j] = B[j]
  BY <1>1, <1>2 DEF Taken
<1> HIDE DEF data
<1>5. g < Len(S)
  <2>1. PICK e \in Nat, f \in Nat : e = o[g] /\ f = o[Len(S)]
    <3>1. g \in 0 .. Len(S) /\ Len(S) \in 0 .. Len(S)
      BY <1>1
    <3>2. o[g] \in Nat /\ o[Len(S)] \in Nat
      BY <1>1, <3>1, OffsetsType
    <3> QED BY <3>2
  <2>2. e + Base(r) + Len(r.data) + Len(B) <= f
    BY <1>1, <2>1 DEF ReadTo
  <2>3. e < f
    BY <1>1, <1>2, <2>2
  <2> QED BY <1>1, <2>1, <2>3
<1>6. /\ g + 1 \in 1 .. Len(S) /\ S[g + 1] \in Messages /\ S[g + 1].len \in Nat
      /\ o[(g + 1) - 1] = o[g] /\ o[g] \in Nat
  <2>1. Len(S) \in Nat /\ g \in Nat
    BY <1>1
  <2>2. g + 1 \in 1 .. Len(S) /\ (g + 1) - 1 = g
    BY <1>5, <2>1
  <2> QED BY <1>1, <2>2, OffsetsType
<1>7. ASSUME NEW j \in 1 .. k
      PROVE  B[j] = FrameByte(S[g + 1], Base(r) + (Len(r.data) + j))
  <2>1. j \in 1 .. Len(B) /\ j \in Nat /\ j > 0 /\ j <= k
    BY <1>0
  <2>2. ReadTo(o, g, r) + j = o[(g + 1) - 1] + (Base(r) + (Len(r.data) + j))
    BY <1>2, <1>6, <2>1, SMTT(30) DEF ReadTo
  <2>3. Base(r) + (Len(r.data) + j) \in 1 .. LenSize + S[g + 1].len
    <3>1. PICK x \in Nat, f \in Nat : x = Len(r.data) + j /\ f = S[g + 1].len
      BY <1>2, <1>6, <2>1, SMTT(30)
    <3>2. x > 0 /\ x <= r.size
      BY <1>0, <1>2, <2>1, <3>1
    <3>3. CASE r.part = "len"
      <4>1. Base(r) = 0 /\ x <= LenSize
        BY <1>1, <3>2, <3>3 DEF Base
      <4> QED BY <3>1, <3>2, <4>1, Numbers, SMTT(30)
    <3>4. CASE r.part = "body"
      <4>1. Base(r) = LenSize /\ x <= f
        BY <1>1, <3>1, <3>2, <3>4 DEF Base
      <4> QED BY <3>1, <3>2, <4>1, Numbers
    <3> QED BY <1>2, <3>3, <3>4
  <2> QED BY <1>6, <2>1, <2>2, <2>3 DEF CarriesAt
<1>8. ASSUME NEW j \in 1 .. Len(data)
      PROVE  data[j] = FrameByte(S[g + 1], Base(r) + j)
  <2>1. CASE j <= Len(r.data)
    <3>1. j \in 1 .. Len(r.data)
      BY <1>2, <2>1
    <3> QED BY <1>1, <1>3, <3>1
  <2>2. CASE ~(j <= Len(r.data))
    <3>1. PICK i \in 1 .. k : j = Len(r.data) + i
      <4>1. j - Len(r.data) \in 1 .. k /\ j = Len(r.data) + (j - Len(r.data))
        BY <1>1, <1>2, <1>3, <2>2
      <4> QED BY <4>1
    <3> QED BY <1>3, <1>7, <3>1
  <2> QED BY <2>1, <2>2
<1> QED BY <1>3, <1>5, <1>8 DEF data

(* The reader's position moves with what it has read, whichever message it *)
(* then waits for.                                                         *)
LEMMA MovesOn ==
    ASSUME NEW o, NEW S \in Seq(Messages), NEW g, NEW op, OpType(op),
           NEW B \in Seq(Byte), NEW r, ReceiveType(r), NEW writing,
           CarriesAt(o, S, g, op, B, r, writing),
           NEW k \in 1 .. Len(B),
           NEW h \in 0 .. Len(S), NEW p, Awaits(S, h, p),
           ReadTo(o, h, p) = ReadTo(o, g, r) + k
    PROVE  CarriesAt(o, S, h, op, Left(B, k), p, writing)
<1> DEFINE rest == Left(B, k)
<1>0. /\ rest \in Seq(Byte) /\ Len(rest) = Len(B) - k
      /\ \A q \in 1 .. Len(rest) : rest[q] = B[k + q] /\ k + q \in 1 .. Len(B)
  BY LeftBytes
<1> HIDE DEF rest
<1>1. /\ Offsets(o, S) /\ g \in 0 .. Len(S) /\ Len(B) \in Nat /\ k \in Nat
      /\ ReadTo(o, g, r) + Len(B) <= o[Len(S)]
      /\ writing => ReadTo(o, g, r) + Len(B) + Unwritten(op) = o[Len(S)]
  BY DEF CarriesAt
<1>2. ReadTo(o, g, r) \in Nat
  <2>1. o[g] \in Nat /\ Base(r) \in Nat /\ Len(r.data) \in Nat
    BY <1>1, Numbers DEF Offsets, ReceiveType, Base
  <2> QED BY <2>1 DEF ReadTo
<1>3. Len(rest) \in Nat /\ ReadTo(o, h, p) + Len(rest) = ReadTo(o, g, r) + Len(B)
  BY <1>0, <1>1, <1>2
<1>4. ASSUME NEW i \in 1 .. Len(S), NEW b \in 1 .. LenSize + S[i].len,
             NEW q \in 1 .. Len(rest), ReadTo(o, h, p) + q = o[i - 1] + b
      PROVE  rest[q] = FrameByte(S[i], b)
  <2>1. rest[q] = B[k + q] /\ k + q \in 1 .. Len(B)
    BY <1>0
  <2>2. ReadTo(o, g, r) + (k + q) = o[i - 1] + b
    BY <1>1, <1>2, <1>3, <1>4
  <2> QED BY <2>1, <2>2 DEF CarriesAt
<1>5. CarriesAt(o, S, h, op, rest, p, writing)
  BY <1>1, <1>3, <1>4 DEF CarriesAt
<1> QED BY <1>5 DEF rest

(* What ReadSome makes of k bytes: the reader goes on with the same frame, *)
(* with the body that its length announces, or with the next message.      *)
LEMMA ReadCarries ==
    ASSUME NEW S \in Seq(Messages), NEW g, NEW op, OpType(op),
           NEW B \in Seq(Byte), NEW r, ReceiveType(r), NEW writing,
           Carries(S, g, op, B, r, writing),
           NEW k \in 1 .. Len(B), Len(r.data) + k <= r.size
    PROVE  /\ Taken(r, B, k) \in Seq(Byte) /\ Len(Taken(r, B, k)) = Len(r.data) + k
           /\ Len(Taken(r, B, k)) # r.size =>
                Carries(S, g, op, Left(B, k), [r EXCEPT !.data = Taken(r, B, k)], writing)
           /\ Len(Taken(r, B, k)) = r.size /\ r.part = "len" =>
                \A len \in Decode(Taken(r, B, k)) :
                  Carries(S, g, op, Left(B, k), RecvBody(len), writing)
           /\ Len(Taken(r, B, k)) = r.size /\ r.part = "body" =>
                /\ g + 1 \in 1 .. Len(S)
                /\ Taken(r, B, k) = Body(S[g + 1])
                /\ Carries(S, g + 1, op, Left(B, k), RecvLen, writing)
<1> DEFINE data == Taken(r, B, k)
           rest == Left(B, k)
<1>1. PICK o : CarriesAt(o, S, g, op, B, r, writing)
  BY DEF Carries
<1>2. /\ data \in Seq(Byte) /\ Len(data) = Len(r.data) + k
      /\ g < Len(S)
      /\ \A j \in 1 .. Len(data) : data[j] = FrameByte(S[g + 1], Base(r) + j)
  BY <1>1, ReadBytes
<1>3. /\ Offsets(o, S) /\ g \in 0 .. Len(S) /\ Len(S) \in Nat /\ g \in Nat
      /\ r.part = "len" => r.size = LenSize
      /\ r.part = "body" => r.size = S[g + 1].len
  BY <1>1 DEF CarriesAt, Awaits
<1>4. /\ Len(B) \in Nat /\ k \in Nat /\ k > 0 /\ Len(r.data) + k <= r.size
      /\ Len(r.data) \in Nat /\ r.size \in Nat /\ r.part \in {"len", "body"}
      /\ r = [part |-> r.part, size |-> r.size, data |-> r.data]
  BY DEF ReceiveType
<1>5. /\ g + 1 \in 1 .. Len(S) /\ (g + 1) - 1 = g
      /\ S[g + 1] \in Messages /\ S[g + 1].len \in Nat /\ o[g] \in Nat
      /\ o[g + 1] = o[g] + LenSize + S[g + 1].len
  <2>1. g + 1 \in 1 .. Len(S) /\ (g + 1) - 1 = g
    BY <1>2, <1>3
  <2>2. o[g + 1] = o[(g + 1) - 1] + LenSize + S[g + 1].len
    BY <1>3, <2>1 DEF Offsets
  <2> QED BY <1>3, <2>1, <2>2, OffsetsType
<1> HIDE DEF data, rest
<1>6. CASE Len(data) # r.size
  <2> DEFINE p == [r EXCEPT !.data = data]
  <2>1. p = [part |-> r.part, size |-> r.size, data |-> data]
    BY <1>4
  <2>4. p.part = r.part /\ p.size = r.size /\ p.data = data /\ Base(p) = Base(r)
    BY <2>1 DEF Base
  <2>5. Base(r) \in Nat /\ o[g] \in Nat
    BY <1>5, Numbers DEF Base
  <2> HIDE DEF p
  <2>6. ReadTo(o, g, p) = ReadTo(o, g, r) + k
    BY <1>2, <1>4, <2>4, <2>5 DEF ReadTo
  <2>7. Awaits(S, g, p)
    BY <1>2, <1>3, <2>4 DEF Awaits
  <2>9. CarriesAt(o, S, g, op, rest, p, writing)
    BY <1>1, <1>3, <2>6, <2>7, MovesOn DEF rest
  <2>10. Carries(S, g, op, rest, p, writing)
    BY <2>9 DEF Carries
  <2> QED BY <1>2, <1>6, <2>10 DEF p, data, rest
<1>7. CASE Len(data) = r.size /\ r.part = "len"
  <2>1. data = Encode(S[g + 1].len)
    <3>1. Encode(S[g + 1].len) \in Seq(Byte) /\ Len(Encode(S[g + 1].len)) = Len(data)
      BY <1>3, <1>5, <1>7, EncodeType
    <3>2. \A j \in 1 .. Len(data) : data[j] = Encode(S[g + 1].len)[j]
      <4>1. SUFFICES ASSUME NEW j \in 1 .. Len(data)
                     PROVE  data[j] = Encode(S[g + 1].len)[j]
        OBVIOUS
      <4>2. j \in 1 .. LenSize /\ Base(r) + j = j
        BY <1>3, <1>7, Numbers DEF Base
      <4>3. FrameByte(S[g + 1], j) = <<"len", S[g + 1].len, j>>
        BY <4>2, Numbers DEF FrameByte
      <4> QED BY <1>2, <1>5, <4>2, <4>3, EncodeType
    <3> QED BY <1>2, <3>1, <3>2, SameBytes
  <2>2. Decode(data) = {S[g + 1].len}
    BY <1>5, <2>1, DecodeEncode, Numbers
  <2> DEFINE p == RecvBody(S[g + 1].len)
  <2>3. p = [part |-> "body", size |-> S[g + 1].len, data |-> <<>>]
    BY DEF RecvBody
  <2>4. <<>> \in Seq(Byte) /\ Len(<<>>) = 0
    OBVIOUS
  <2>6. /\ p.part = "body" /\ p.size = S[g + 1].len /\ p.data = <<>>
        /\ Base(p) = LenSize /\ Base(r) = 0
    BY <1>7, <2>3 DEF Base
  <2> HIDE DEF p
  <2>7. ReadTo(o, g, p) = ReadTo(o, g, r) + k
    BY <1>2, <1>3, <1>4, <1>5, <1>7, <2>4, <2>6, Numbers, SMTT(30) DEF ReadTo
  <2>8. CarriesAt(o, S, g, op, rest, p, writing)
    <3>1. Awaits(S, g, p)
      BY <1>2, <1>3, <2>4, <2>6 DEF Awaits
    <3> QED BY <1>1, <1>3, <2>7, <3>1, MovesOn DEF rest
  <2>9. \A len \in Decode(data) : Carries(S, g, op, rest, RecvBody(len), writing)
    BY <2>2, <2>8 DEF Carries, p
  <2> QED BY <1>2, <1>7, <2>9 DEF data, rest
<1>8. CASE Len(data) = r.size /\ r.part = "body"
  <2>1. data = Body(S[g + 1])
    <3>1. Body(S[g + 1]) \in Seq(Byte) /\ Len(Body(S[g + 1])) = Len(data)
      BY <1>3, <1>5, <1>8, BodyType
    <3>2. \A j \in 1 .. Len(data) : data[j] = Body(S[g + 1])[j]
      <4>1. SUFFICES ASSUME NEW j \in 1 .. Len(data)
                     PROVE  data[j] = Body(S[g + 1])[j]
        OBVIOUS
      <4>2. j \in 1 .. S[g + 1].len /\ Base(r) = LenSize /\ j \in Nat /\ j > 0
        BY <1>3, <1>5, <1>8 DEF Base
      <4>3. FrameByte(S[g + 1], LenSize + j) = <<"body", S[g + 1].id, j>>
        <5>1. PICK b \in Nat : b = LenSize + j
          BY <4>2, Numbers
        <5>2. ~(b <= LenSize) /\ b - LenSize = j
          BY <4>2, <5>1, Numbers
        <5>3. FrameByte(S[g + 1], b) = <<"body", S[g + 1].id, b - LenSize>>
          BY <5>2 DEF FrameByte
        <5> QED BY <5>1, <5>2, <5>3
      <4> QED BY <1>2, <1>5, <4>2, <4>3, BodyType
    <3> QED BY <1>2, <3>1, <3>2, SameBytes
  <2>2. RecvLen = [part |-> "len", size |-> LenSize, data |-> <<>>]
    BY DEF RecvLen
  <2>3. <<>> \in Seq(Byte) /\ Len(<<>>) = 0
    OBVIOUS
  <2>5. /\ RecvLen.part = "len" /\ RecvLen.size = LenSize /\ RecvLen.data = <<>>
        /\ Base(RecvLen) = 0 /\ Base(r) = LenSize
    BY <1>8, <2>2 DEF Base
  <2>6. ReadTo(o, g + 1, RecvLen) = ReadTo(o, g, r) + k
    BY <1>2, <1>3, <1>4, <1>5, <1>8, <2>3, <2>5, Numbers, SMTT(30) DEF ReadTo
  <2>7. g + 1 \in 0 .. Len(S)
    BY <1>3, <1>5
  <2>8. CarriesAt(o, S, g + 1, op, rest, RecvLen, writing)
    <3>1. Awaits(S, g + 1, RecvLen)
      BY <1>2, <1>3, <2>3, <2>5 DEF Awaits
    <3> QED BY <1>1, <1>3, <2>6, <2>7, <3>1, MovesOn DEF rest
  <2>9. Carries(S, g + 1, op, rest, RecvLen, writing)
    BY <2>8 DEF Carries
  <2> QED BY <1>2, <1>5, <1>8, <2>1, <2>9 DEF data, rest
<1> QED BY <1>4, <1>6, <1>7, <1>8 DEF data, rest

(* An idle writer accepts a message: its frame follows the others.         *)
LEMMA SendCarries ==
    ASSUME NEW S \in Seq(Messages), NEW g, NEW B \in Seq(Byte), NEW r,
           ReceiveType(r), Carries(S, g, Idle, B, r, TRUE), NEW m \in Messages
    PROVE  Carries(Append(S, m), g, SendLen(m), B, r, TRUE)
<1>1. PICK o : CarriesAt(o, S, g, Idle, B, r, TRUE)
  BY DEF Carries
<1> DEFINE n == Len(S)
           T == Append(S, m)
           op == SendLen(m)
           e == [i \in 0 .. n + 1 |-> IF i = n + 1 THEN o[n] + LenSize + m.len ELSE o[i]]
<1>2. /\ Offsets(o, S) /\ g \in 0 .. n /\ n \in Nat /\ Len(B) \in Nat
      /\ ReadTo(o, g, r) + Len(B) = o[n]
      /\ Awaits(S, g, r)
  <2>1. Unwritten(Idle) = 0
    BY DEF Unwritten, Idle
  <2>2. /\ Offsets(o, S) /\ g \in 0 .. n /\ n \in Nat /\ Len(B) \in Nat
        /\ ReadTo(o, g, r) + Len(B) + 0 = o[n]
        /\ Awaits(S, g, r)
    BY <1>1, <2>1 DEF CarriesAt
  <2>3. o[g] \in Nat /\ Base(r) \in Nat /\ Len(r.data) \in Nat
    BY <2>2, OffsetsType, Numbers DEF Base, ReceiveType
  <2> QED BY <2>2, <2>3 DEF ReadTo
<1>3. /\ T \in Seq(Messages) /\ Len(T) = n + 1 /\ T[n + 1] = m
      /\ \A i \in 1 .. n : T[i] = S[i]
      /\ m.len \in Nat
  BY <1>2, Numbers
<1>4. /\ \A i \in 0 .. n : o[i] \in Nat /\ o[i] <= o[n]
      /\ o[n] \in Nat
      /\ o[0] = 0
      /\ \A i \in 1 .. n : o[i] = o[i - 1] + LenSize + S[i].len
      /\ \A i, j \in 0 .. n : i <= j => o[i] <= o[j]
  BY <1>2, OffsetsType DEF Offsets
<1>5. /\ e \in [0 .. n + 1 -> Nat]
      /\ \A i \in 0 .. n : e[i] = o[i]
      /\ e[n + 1] = o[n] + LenSize + m.len
  <2>1. o[n] + LenSize + m.len \in Nat
    BY <1>3, <1>4, Numbers
  <2>2. \A i \in 0 .. n + 1 : i # n + 1 => i \in 0 .. n
    BY <1>2
  <2>3. n + 1 \in 0 .. n + 1 /\ \A i \in 0 .. n : i \in 0 .. n + 1 /\ i # n + 1
    BY <1>2
  <2> QED BY <1>4, <2>1, <2>2, <2>3
<1>6. /\ op.part = "len" /\ op.msg = m /\ Unwritten(op) = LenSize + m.len
  BY DEF SendLen, Unwritten
<1> HIDE DEF n, T, op, e
<1>7. Offsets(e, T)
  <2>1. \A i \in 1 .. n + 1 : e[i] = e[i - 1] + LenSize + T[i].len
    <3>1. ASSUME NEW i \in 1 .. n + 1
          PROVE  e[i] = e[i - 1] + LenSize + T[i].len
      <4>1. CASE i = n + 1
        <5>1. i - 1 = n /\ n \in 0 .. n
          BY <1>2, <4>1
        <5> QED BY <1>3, <1>5, <4>1, <5>1
      <4>2. CASE i # n + 1
        <5>1. i \in 1 .. n /\ i \in 0 .. n /\ i - 1 \in 0 .. n
          BY <1>2, <4>2
        <5> QED BY <1>3, <1>4, <1>5, <5>1
      <4> QED BY <4>1, <4>2
    <3> QED BY <3>1
  <2>2. \A i, j \in 0 .. n + 1 : i <= j => e[i] <= e[j]
    <3>1. ASSUME NEW i \in 0 .. n + 1, NEW j \in 0 .. n + 1, i <= j
          PROVE  e[i] <= e[j]
      <4>1. CASE j \in 0 .. n
        <5>1. i \in 0 .. n
          BY <1>2, <3>1, <4>1
        <5> QED BY <1>4, <1>5, <3>1, <4>1, <5>1
      <4>2. CASE j = n + 1 /\ i \in 0 .. n
        <5>1. e[i] = o[i] /\ o[i] \in Nat /\ o[i] <= o[n] /\ o[n] \in Nat
          BY <1>4, <1>5, <4>2
        <5>2. e[j] = o[n] + LenSize + m.len
          BY <1>5, <4>2
        <5>3. LenSize \in Nat /\ m.len \in Nat
          BY Numbers
        <5> QED BY <5>1, <5>2, <5>3
      <4>3. CASE j = n + 1 /\ i = n + 1
        <5>1. e[n + 1] \in Nat
          BY <1>3, <1>4, <1>5, Numbers
        <5> QED BY <4>3, <5>1
      <4> QED BY <1>2, <3>1, <4>1, <4>2, <4>3
    <3> QED BY <3>1
  <2>3. e[0] = 0
    BY <1>2, <1>4, <1>5
  <2> QED BY <1>3, <1>5, <2>1, <2>2, <2>3 DEF Offsets
<1>8. ReadTo(e, g, r) = ReadTo(o, g, r)
  BY <1>2, <1>5 DEF ReadTo
<1>9. /\ ReadTo(e, g, r) + Len(B) + Unwritten(op) = e[Len(T)]
      /\ ReadTo(e, g, r) + Len(B) <= e[Len(T)]
  BY <1>2, <1>3, <1>4, <1>5, <1>6, <1>8, Numbers
<1>10. ASSUME NEW i \in 1 .. Len(T), NEW b \in 1 .. LenSize + T[i].len,
              NEW q \in 1 .. Len(B), ReadTo(e, g, r) + q = e[i - 1] + b
       PROVE  B[q] = FrameByte(T[i], b)
  <2>1. CASE i = n + 1
    <3>1. e[i - 1] = o[n] /\ T[i].len \in Nat
      <4>1. i - 1 = n /\ n \in 0 .. n
        BY <1>2, <2>1
      <4> QED BY <1>3, <1>5, <2>1, <4>1
    <3>2. b > 0 /\ q <= Len(B) /\ b \in Nat /\ q \in Nat
      BY <1>2, <3>1, Numbers
    <3>3. PICK x \in Nat, y \in Nat : x = ReadTo(o, g, r) /\ y = o[n]
      <4>1. o[g] \in Nat /\ Base(r) \in Nat /\ Len(r.data) \in Nat
        BY <1>2, <1>4, Numbers DEF Base, ReceiveType
      <4> QED BY <1>4, <4>1, SMTT(30) DEF ReadTo
    <3>4. x + Len(B) = y /\ x + q = y + b
      BY <1>2, <1>8, <1>10, <3>1, <3>3
    <3> QED BY <1>2, <3>2, <3>4
  <2>2. CASE i # n + 1
    <3>1. i \in 1 .. n /\ i - 1 \in 0 .. n /\ T[i] = S[i]
      BY <1>2, <1>3, <2>2, SMTT(30)
    <3>2. ReadTo(o, g, r) + q = o[i - 1] + b
      BY <1>5, <1>8, <1>10, <3>1
    <3> QED BY <1>1, <3>1, <3>2 DEF CarriesAt, n
  <2> QED BY <2>1, <2>2
<1>11. Awaits(T, g, r)
  <2>1. g < n => g + 1 \in 1 .. n /\ T[g + 1] = S[g + 1]
    BY <1>2, <1>3
  <2>2. g < n => g < n + 1
    BY <1>2
  <2>3. \A j \in 1 .. Len(r.data) : g < n
    BY <1>2 DEF Awaits, ReceiveType, n
  <2> QED BY <1>2, <1>3, <2>1, <2>2, <2>3 DEF Awaits, n
<1>12. g \in 0 .. Len(T) /\ Len(T) > 0 /\ T[Len(T)] = op.msg
  BY <1>2, <1>3, <1>6
<1>13. CarriesAt(e, T, g, op, B, r, TRUE)
  BY <1>6, <1>7, <1>9, <1>10, <1>11, <1>12 DEF CarriesAt
<1> QED BY <1>13 DEF Carries, T, op

(* A send that fails before its first byte is written leaves no trace.     *)
LEMMA DropCarries ==
    ASSUME NEW S \in Seq(Messages), NEW g, NEW m, NEW B \in Seq(Byte), NEW r,
           ReceiveType(r), Carries(S, g, SendLen(m), B, r, TRUE)
    PROVE  Len(S) > 0 /\ Carries(Front(S), g, Idle, B, r, TRUE)
<1>1. PICK o : CarriesAt(o, S, g, SendLen(m), B, r, TRUE)
  BY DEF Carries
<1> DEFINE n == Len(S) - 1
           T == Front(S)
           e == [i \in 0 .. n |-> o[i]]
           R == ReadTo(o, g, r)
<1>2. /\ Offsets(o, S) /\ g \in 0 .. n + 1 /\ Len(S) = n + 1 /\ n \in Nat /\ Len(B) \in Nat
      /\ S[n + 1] = m
      /\ R + Len(B) + (LenSize + m.len) = o[n + 1]
      /\ Awaits(S, g, r)
  <2>1. SendLen(m).part = "len" /\ SendLen(m).msg = m /\ Unwritten(SendLen(m)) = LenSize + m.len
    BY DEF SendLen, Unwritten
  <2> QED BY <1>1, <2>1 DEF CarriesAt
<1>3. /\ T \in Seq(Messages) /\ Len(T) = n
      /\ \A i \in 1 .. n : T[i] = S[i]
  BY <1>2 DEF Front
<1>4. /\ n \in 0 .. Len(S) /\ n + 1 \in 1 .. Len(S) /\ (n + 1) - 1 = n
      /\ m.len \in Nat /\ m.len > 0
      /\ \A i \in 0 .. n + 1 : o[i] \in Nat
      /\ o[n + 1] = o[n] + LenSize + m.len
      /\ o[0] = 0
      /\ \A i \in 1 .. n : o[i] = o[i - 1] + LenSize + S[i].len
      /\ \A i, j \in 0 .. n + 1 : i <= j => o[i] <= o[j]
  <2>1. /\ n \in 0 .. Len(S) /\ n + 1 \in 1 .. Len(S) /\ (n + 1) - 1 = n
    BY <1>2
  <2>2. m \in Messages
    BY <1>2, <2>1
  <2>3. o[n + 1] = o[(n + 1) - 1] + LenSize + S[n + 1].len
    BY <1>2, <2>1 DEF Offsets
  <2>4. \A i \in 1 .. n : i \in 1 .. Len(S)
    BY <1>2
  <2> QED BY <1>2, <2>1, <2>2, <2>3, <2>4, OffsetsType, Numbers DEF Offsets
<1>5. /\ e \in [0 .. n -> Nat]
      /\ \A i \in 0 .. n : e[i] = o[i]
  BY <1>2, <1>4
<1> HIDE DEF n, T, e, R
<1>6. R \in Nat /\ R = o[g] + Base(r) + Len(r.data) /\ Base(r) \in Nat /\ Len(r.data) \in Nat
  <2>1. o[g] \in Nat /\ Base(r) \in Nat /\ Len(r.data) \in Nat
    BY <1>2, <1>4, Numbers DEF Base, ReceiveType
  <2> QED BY <2>1 DEF R, ReadTo
<1>7. R + Len(B) = o[n] /\ o[n] \in Nat
  <2>1. PICK x \in Nat, y \in Nat, z \in Nat, l \in Nat :
          x = o[n] /\ y = m.len /\ z = R /\ l = Len(B)
    BY <1>2, <1>4, <1>6
  <2>2. z + l + (LenSize + y) = x + LenSize + y
    BY <1>2, <1>4, <2>1
  <2>3. z + l = x
    BY <2>2, Numbers
  <2> QED BY <2>1, <2>3
<1>8. /\ g \in 0 .. n
      /\ g = n => Base(r) = 0 /\ Len(r.data) = 0
  <2>1. g # n + 1
    <3>1. SUFFICES ASSUME g = n + 1 PROVE FALSE
      OBVIOUS
    <3>2. PICK x \in Nat, y \in Nat, z \in Nat, l \in Nat :
            x = o[n] /\ y = m.len /\ z = Base(r) + Len(r.data) /\ l = Len(B)
      <4>1. Base(r) + Len(r.data) \in Nat
        BY <1>6
      <4> QED BY <1>2, <1>4, <1>7, <4>1
    <3>3. R = x + LenSize + y + z
      <4>1. PICK v \in Nat, w \in Nat : v = Base(r) /\ w = Len(r.data)
        BY <1>6
      <4>2. R = x + LenSize + y + v + w /\ z = v + w
        BY <1>4, <1>6, <3>1, <3>2, <4>1
      <4>3. x + LenSize + y + v + w = x + LenSize + y + (v + w)
        BY Numbers
      <4> QED BY <4>2, <4>3
    <3>4. x + LenSize + y + z + l = x /\ y > 0
      BY <1>4, <1>7, <3>2, <3>3
    <3>5. LenSize \in Nat
      BY Numbers
    <3> QED BY <3>2, <3>4, <3>5, Grows
  <2>2. ASSUME g = n PROVE Base(r) = 0 /\ Len(r.data) = 0
    <3>1. PICK x \in Nat, v \in Nat, w \in Nat, l \in Nat :
            x = o[n] /\ v = Base(r) /\ w = Len(r.data) /\ l = Len(B)
      BY <1>2, <1>6, <1>7
    <3>2. x + v + w + l = x
      BY <1>6, <1>7, <2>2, <3>1
    <3>3. v = 0 /\ w = 0
      BY <3>2
    <3> QED BY <3>1, <3>3
  <2> QED BY <1>2, <2>1, <2>2
<1>9. Offsets(e, T)
  <2>1. \A i \in 1 .. n : e[i] = e[i - 1] + LenSize + T[i].len
    <3>1. \A i \in 1 .. n : i \in 0 .. n /\ i - 1 \in 0 .. n
      BY <1>2
    <3> QED BY <1>3, <1>4, <1>5, <3>1
  <2>2. \A i \in 0 .. n : i \in 0 .. n + 1
    BY <1>2
  <2> QED BY <1>2, <1>3, <1>4, <1>5, <2>1, <2>2 DEF Offsets
<1>10. ReadTo(e, g, r) = R
  BY <1>5, <1>8 DEF ReadTo, R
<1>11. ASSUME NEW i \in 1 .. Len(T), NEW b \in 1 .. LenSize + T[i].len,
              NEW q \in 1 .. Len(B), ReadTo(e, g, r) + q = e[i - 1] + b
       PROVE  B[q] = FrameByte(T[i], b)
  <2>1. i \in 1 .. Len(S) /\ i - 1 \in 0 .. n /\ T[i] = S[i]
    BY <1>2, <1>3
  <2>2. R + q = o[i - 1] + b
    BY <1>5, <1>10, <1>11, <2>1
  <2> QED BY <1>1, <2>1, <2>2 DEF CarriesAt, R
<1>12. Awaits(T, g, r)
  <2>1. r.part = "body" => g < n
    BY <1>2, <1>8, Numbers DEF Base
  <2>2. Len(r.data) > 0 => g < n
    BY <1>2, <1>8
  <2>3. g < n => g + 1 \in 1 .. n /\ T[g + 1] = S[g + 1]
    BY <1>2, <1>3, <1>8
  <2>4. \A j \in 1 .. Len(r.data) : Len(r.data) > 0
    BY <1>6
  <2> QED BY <1>2, <1>3, <2>1, <2>2, <2>3, <2>4 DEF Awaits
<1>13. Idle.part = "idle" /\ Unwritten(Idle) = 0
  BY DEF Idle, Unwritten
<1>14. R + Len(B) + Unwritten(Idle) = e[Len(T)] /\ R + Len(B) <= e[Len(T)]
  <2>1. e[Len(T)] = o[n]
    BY <1>2, <1>3, <1>5
  <2> QED BY <1>2, <1>6, <1>7, <1>13, <2>1
<1>15. CarriesAt(e, T, g, Idle, B, r, TRUE)
  BY <1>3, <1>8, <1>9, <1>10, <1>11, <1>12, <1>13, <1>14 DEF CarriesAt
<1>16. Carries(T, g, Idle, B, r, TRUE)
  BY <1>15 DEF Carries
<1>17. Len(S) > 0
  BY <1>2
<1> QED BY <1>16, <1>17 DEF T

(* The writer's end is closed in the middle of whatever it sent.           *)
LEMMA StopCarries ==
    ASSUME NEW S \in Seq(Messages), NEW g, NEW op, NEW B \in Seq(Byte), NEW r,
           NEW writing, Carries(S, g, op, B, r, writing)
    PROVE  Carries(S, g, Idle, B, r, FALSE)
<1>1. PICK o : CarriesAt(o, S, g, op, B, r, writing)
  BY DEF Carries
<1>2. CarriesAt(o, S, g, Idle, B, r, FALSE)
  BY <1>1 DEF CarriesAt, Idle
<1> QED BY <1>2 DEF Carries

LEMMA StartCarries == Carries(<<>>, 0, Idle, <<>>, RecvLen, TRUE)
<1> DEFINE o == [i \in 0 .. 0 |-> 0]
<1>1. Offsets(o, <<>>) /\ Len(<<>>) = 0 /\ o[0] = 0
  BY DEF Offsets
<1>2. /\ RecvLen.part = "len" /\ RecvLen.size = LenSize /\ RecvLen.data = <<>>
      /\ Base(RecvLen) = 0
  BY DEF RecvLen, Base
<1>3. Idle.part = "idle" /\ Unwritten(Idle) = 0
  BY DEF Idle, Unwritten
<1> HIDE DEF o
<1>4. ReadTo(o, 0, RecvLen) = 0
  BY <1>1, <1>2 DEF ReadTo
<1>5. Awaits(<<>>, 0, RecvLen)
  BY <1>1, <1>2 DEF Awaits
<1>6. CarriesAt(o, <<>>, 0, Idle, <<>>, RecvLen, TRUE)
  BY <1>1, <1>3, <1>4, <1>5 DEF CarriesAt
<1> QED BY <1>6 DEF Carries

-----------------------------------------------------------------------------
(* The inductive invariant.                                                *)


Operations ==
    {Idle}
      \cup [part : {"len"}, msg : Messages, left : 1 .. LenSize]
      \cup {op \in [part : {"body"}, msg : Messages, left : Nat \ {0}] : op.left <= op.msg.len}

Receives ==
    {r \in [part : {"len", "body"}, size : Nat, data : Seq(Byte)] : Len(r.data) < r.size}

Types ==
    /\ open \subseteq Streams
    /\ sending \in [Streams -> Operations]
    /\ buf \in [Streams -> Seq(Byte)]
    /\ \A s \in Streams : Len(buf[s]) <= Capacity[s]
    /\ receiving \in [Streams -> Receives]
    /\ inSend \in [Nodes -> Streams \cup {None}]
    /\ calls \in [Streams -> Nat] /\ \A s \in Streams : calls[s] <= Len(Plan[s])
    /\ sent \in [Streams -> Seq(Messages)]
    /\ got \in [Streams -> Seq(Seq(Byte))]
    /\ failed \in [Streams -> {"no", "whole", "torn"}]

(* Only an end that is open sends, and a thread that blocks in send() has  *)
(* something to send.                                                      *)
WritersBusy ==
    \A s \in Streams :
        /\ s \notin open => sending[s] = Idle
        /\ inSend[Writer(s)] = s => sending[s] # Idle

(* What was handed over, and that the message under way is not among it.   *)
InOrder(S, G, op) ==
    /\ Len(G) <= Len(S)
    /\ \A i \in 1 .. Len(G) : G[i] = Body(S[i])
    /\ op # Idle => Len(G) < Len(S)

StreamOK(s) ==
    failed[s] # "torn" =>
        /\ InOrder(sent[s], got[s], sending[s])
        /\ Rev(s) \in open /\ s \in open =>
             Carries(sent[s], Len(got[s]), sending[s], buf[s], receiving[s], TRUE)
        /\ Rev(s) \in open /\ s \notin open =>
             Carries(sent[s], Len(got[s]), sending[s], buf[s], receiving[s], FALSE)

IInv ==
    /\ Types
    /\ WritersBusy
    /\ \A s \in Streams : StreamOK(s)

LEMMA StreamFacts ==
    ASSUME NEW s \in Streams
    PROVE  /\ Rev(s) \in Streams /\ Rev(Rev(s)) = s /\ Rev(s) # s
           /\ Writer(s) \in Nodes /\ Reader(s) \in Nodes
           /\ s # None
<1>1. PICK d \in Dialled : s = <<d[1], d[2], d[1]>> \/ s = <<d[2], d[1], d[1]>>
  BY DEF Streams
<1>2. d[1] # d[2] /\ d[1] \in Nodes /\ d[2] \in Nodes
  BY AsyncFdAssumption
<1>3. <<d[1], d[2], d[1]>> \in Streams /\ <<d[2], d[1], d[1]>> \in Streams
  BY DEF Streams
<1>4. s \in Nodes \X Nodes \X Nodes
  BY <1>1, <1>2
<1>5. s # None
  BY <1>4, AsyncFdAssumption
<1> QED BY <1>1, <1>2, <1>3, <1>5 DEF Rev, Writer, Reader, Dialler

LEMMA OperationTypes ==
    ASSUME NEW op
    PROVE  (op \in Operations) <=> OpType(op)
<1>1. ASSUME op \in Operations PROVE OpType(op)
  <2>1. CASE op \in [part : {"len"}, msg : Messages, left : 1 .. LenSize]
    BY <2>1 DEF OpType
  <2>2. CASE op \in [part : {"body"}, msg : Messages, left : Nat \ {0}] /\ op.left <= op.msg.len
    <3>1. op.left \in 1 .. op.msg.len /\ op.msg \in Messages
      BY <2>2, Numbers
    <3>2. op = [part |-> "body", msg |-> op.msg, left |-> op.left]
      BY <2>2
    <3> QED BY <3>1, <3>2 DEF OpType
  <2> QED BY <1>1, <2>1, <2>2 DEF Operations, OpType
<1>2. ASSUME OpType(op) PROVE op \in Operations
  <2>1. CASE op = Idle
    BY <2>1 DEF Operations
  <2>2. ASSUME NEW m \in Messages, NEW left \in 1 .. LenSize,
               op = [part |-> "len", msg |-> m, left |-> left]
        PROVE  op \in Operations
    BY <2>2 DEF Operations
  <2>3. ASSUME NEW m \in Messages, NEW left \in 1 .. m.len,
               op = [part |-> "body", msg |-> m, left |-> left]
        PROVE  op \in Operations
    <3>1. left \in Nat \ {0} /\ left <= m.len
      BY Numbers
    <3> QED BY <2>3, <3>1 DEF Operations
  <2> QED BY <1>2, <2>1, <2>2, <2>3 DEF OpType
<1> QED BY <1>1, <1>2

LEMMA OperationParts ==
    ASSUME NEW op \in Operations
    PROVE  /\ OpType(op)
           /\ (op.part = "idle") <=> (op = Idle)
           /\ op # Idle => op.left \in Nat /\ op.left > 0 /\ op.msg \in Messages
           /\ \A m \in Messages : SendLen(m) \in Operations
<1>1. OpType(op)
  BY OperationTypes
<1>2. \A m \in Messages : SendLen(m) \in Operations
  BY Numbers DEF SendLen, Operations
<1> QED BY <1>1, <1>2, Numbers DEF Operations, Idle

LEMMA ReceiveTypes ==
    ASSUME NEW r
    PROVE  (r \in Receives) <=> ReceiveType(r)
<1>1. ASSUME r \in Receives PROVE ReceiveType(r)
  <2>1. /\ r = [part |-> r.part, size |-> r.size, data |-> r.data]
        /\ r.part \in {"len", "body"} /\ r.size \in Nat /\ r.data \in Seq(Byte)
        /\ Len(r.data) < r.size
    BY <1>1 DEF Receives
  <2> QED BY <2>1 DEF ReceiveType
<1>2. ASSUME ReceiveType(r) PROVE r \in Receives
  BY <1>2 DEF ReceiveType, Receives
<1> QED BY <1>1, <1>2

LEMMA ReceiveKinds ==
    /\ RecvLen \in Receives
    /\ \A len \in Lengths : RecvBody(len) \in Receives
    /\ \A r \in Receives, data \in Seq(Byte) :
         Len(data) < r.size => [r EXCEPT !.data = data] \in Receives
<1>1. <<>> \in Seq(Byte) /\ Len(<<>>) = 0
  OBVIOUS
<1> QED BY <1>1, Numbers DEF RecvLen, RecvBody, Receives

(* What send() and recv() move keeps the types.                            *)
LEMMA TransferTypes ==
    ASSUME NEW op \in Operations, op # Idle, NEW B \in Seq(Byte), NEW cap \in Nat,
           Len(B) <= cap,
           NEW k \in 1 .. cap - Len(B), k <= op.left
    PROVE  /\ k \in 1 .. op.left
           /\ Wrote(op, k) \in Operations
           /\ B \o Piece(op, k) \in Seq(Byte)
           /\ Len(B \o Piece(op, k)) <= cap
<1>1. OpType(op) /\ op.part # "idle" /\ op.left \in Nat
  BY OperationParts
<1>2. /\ Len(B) \in Nat /\ cap - Len(B) \in Int /\ k \in Nat
      /\ k <= cap - Len(B) /\ k \in 1 .. op.left
  BY <1>1, Numbers
<1>3. Piece(op, k) \in Seq(Byte) /\ Len(Piece(op, k)) = k /\ OpType(Wrote(op, k))
  BY <1>1, <1>2, PieceBytes
<1>4. Len(B \o Piece(op, k)) = Len(B) + k
  BY <1>3
<1> QED BY <1>2, <1>3, <1>4, Numbers, OperationTypes

LEMMA TakenTypes ==
    ASSUME NEW r \in Receives, NEW B \in Seq(Byte),
           NEW k \in 1 .. Len(B), Len(r.data) + k <= r.size
    PROVE  /\ Taken(r, B, k) \in Seq(Byte)
           /\ Len(Taken(r, B, k)) # r.size =>
                [r EXCEPT !.data = Taken(r, B, k)] \in Receives
           /\ Left(B, k) \in Seq(Byte) /\ Len(Left(B, k)) <= Len(B)
<1>1. /\ r.data \in Seq(Byte) /\ r.size \in Nat /\ Len(r.data) \in Nat
      /\ k \in Nat /\ Len(B) \in Nat
  BY DEF Receives
<1>2. Taken(r, B, k) \in Seq(Byte) /\ Len(Taken(r, B, k)) = Len(r.data) + k
  <2>1. SubSeq(B, 1, k) \in Seq(Byte) /\ Len(SubSeq(B, 1, k)) = k
    BY <1>1
  <2> QED BY <1>1, <2>1 DEF Taken
<1>3. Len(Taken(r, B, k)) # r.size => Len(Taken(r, B, k)) < r.size
  BY <1>1, <1>2
<1> QED BY <1>1, <1>2, <1>3, ReceiveKinds, LeftBytes

(* A stream that a step does not touch.                                    *)
LEMMA Untouched ==
    ASSUME IInv, NEW s \in Streams,
           failed'[s] = failed[s], sent'[s] = sent[s], got'[s] = got[s],
           sending'[s] = sending[s], buf'[s] = buf[s], receiving'[s] = receiving[s],
           s \in open' <=> s \in open,
           Rev(s) \in open' <=> Rev(s) \in open
    PROVE  StreamOK(s)'
BY DEF IInv, StreamOK

LEMMA InitInv == Init => IInv
<1> SUFFICES ASSUME Init PROVE IInv
  OBVIOUS
<1>1. Types
  <2>1. Idle \in Operations /\ RecvLen \in Receives
    BY ReceiveKinds DEF Operations
  <2>2. <<>> \in Seq(Byte) /\ Len(<<>>) = 0 /\ <<>> \in Seq(Messages) /\ <<>> \in Seq(Seq(Byte))
    OBVIOUS
  <2>3. /\ calls \in [Streams -> Nat] /\ \A s \in Streams : calls[s] <= Len(Plan[s])
        /\ \A s \in Streams : Len(buf[s]) <= Capacity[s]
    BY <2>2, RoomIsFinite DEF Init
  <2> QED BY <2>1, <2>2, <2>3 DEF Init, Types
<1>2. WritersBusy
  BY StreamFacts DEF Init, WritersBusy
<1>3. ASSUME NEW s \in Streams PROVE StreamOK(s)
  <2>1. InOrder(<<>>, <<>>, Idle)
    BY DEF InOrder
  <2>2. Len(<<>>) = 0
    OBVIOUS
  <2> QED BY <2>1, <2>2, StartCarries, StreamFacts DEF Init, StreamOK
<1> QED BY <1>1, <1>2, <1>3 DEF IInv

LEMMA SendMessageInv ==
    ASSUME IInv, NEW s \in Streams, NEW len \in Lengths, SendMessage(s, len)
    PROVE  IInv'
<1> DEFINE m == [id |-> calls[s] + 1, len |-> len]
<1>1. /\ s \in open /\ sending[s] = Idle
      /\ calls[s] < Len(Plan[s])
      /\ calls' = [calls EXCEPT ![s] = @ + 1]
      /\ sent' = [sent EXCEPT ![s] = Append(@, m)]
      /\ sending' = [sending EXCEPT ![s] = SendLen(m)]
      /\ UNCHANGED <<open, buf, receiving, inSend, got, failed>>
  BY DEF SendMessage
<1>2. m \in Messages /\ calls[s] + 1 \in Nat
  BY <1>1 DEF IInv, Types, Messages
<1> HIDE DEF m
<1>3. /\ sent[s] \in Seq(Messages) /\ buf[s] \in Seq(Byte) /\ ReceiveType(receiving[s])
      /\ got[s] \in Seq(Seq(Byte)) /\ receiving[s] \in Receives
  BY ReceiveTypes DEF IInv, Types
<1>4. /\ Append(sent[s], m) \in Seq(Messages)
      /\ Len(Append(sent[s], m)) = Len(sent[s]) + 1
      /\ \A i \in 1 .. Len(sent[s]) : Append(sent[s], m)[i] = sent[s][i]
  BY <1>2, <1>3
<1>5. SendLen(m) \in Operations /\ SendLen(m) # Idle
  <2>1. SendLen(m).part = "len" /\ Idle.part = "idle"
    BY DEF SendLen, Idle
  <2>2. Idle \in Operations
    BY DEF Operations
  <2> QED BY <1>2, <2>1, <2>2, OperationParts
<1>6. Types'
  <2>1. calls' \in [Streams -> Nat] /\ \A t \in Streams : calls'[t] <= Len(Plan[t])
    BY <1>1, <1>2 DEF IInv, Types
  <2> QED BY <1>1, <1>2, <1>4, <1>5, <2>1 DEF IInv, Types
<1>7. WritersBusy'
  BY <1>1, <1>5 DEF IInv, Types, WritersBusy
<1>8. StreamOK(s)'
  <2> SUFFICES ASSUME failed[s] # "torn"
               PROVE  /\ InOrder(sent'[s], got[s], sending'[s])
                      /\ Rev(s) \in open =>
                           Carries(sent'[s], Len(got[s]), sending'[s], buf[s], receiving[s], TRUE)
    BY <1>1 DEF StreamOK
  <2>1. sent'[s] = Append(sent[s], m) /\ sending'[s] = SendLen(m)
    BY <1>1 DEF IInv, Types
  <2>2. /\ InOrder(sent[s], got[s], Idle)
        /\ Rev(s) \in open =>
             Carries(sent[s], Len(got[s]), Idle, buf[s], receiving[s], TRUE)
    BY <1>1 DEF IInv, StreamOK
  <2>3. InOrder(Append(sent[s], m), got[s], SendLen(m))
    <3>1. Len(got[s]) \in Nat /\ Len(sent[s]) \in Nat
      BY <1>3
    <3>2. \A i \in 1 .. Len(got[s]) : i \in 1 .. Len(sent[s])
      BY <2>2, <3>1 DEF InOrder
    <3> QED BY <1>4, <2>2, <3>1, <3>2 DEF InOrder
  <2>4. Rev(s) \in open =>
          Carries(Append(sent[s], m), Len(got[s]), SendLen(m), buf[s], receiving[s], TRUE)
    BY <1>2, <1>3, <2>2, SendCarries
  <2> QED BY <2>1, <2>3, <2>4
<1>9. ASSUME NEW t \in Streams, t # s PROVE StreamOK(t)'
  BY <1>1, <1>9, Untouched DEF IInv, Types
<1> QED BY <1>6, <1>7, <1>8, <1>9 DEF IInv

(* k bytes of an operation go into the stream, as in WriteSome and         *)
(* BlockedSend.                                                            *)
LEMMA TransferInv ==
    ASSUME IInv, NEW s \in Streams, sending[s] # Idle,
           NEW k \in 1 .. Room(s), k <= sending[s].left, Transfer(s, k),
           inSend' \in [Nodes -> Streams \cup {None}],
           \A t \in Streams : inSend'[Writer(t)] = t =>
             IF t = s THEN k < sending[s].left ELSE inSend[Writer(t)] = t,
           UNCHANGED <<open, receiving, calls, sent, got, failed>>
    PROVE  IInv'
<1>1. /\ sending[s] \in Operations /\ buf[s] \in Seq(Byte) /\ Len(buf[s]) <= Capacity[s]
      /\ receiving[s] \in Receives /\ sent[s] \in Seq(Messages)
      /\ k \in 1 .. Capacity[s] - Len(buf[s]) /\ Capacity[s] \in Nat
  BY RoomIsFinite DEF IInv, Types, Room
<1>2. /\ k \in 1 .. sending[s].left
      /\ Wrote(sending[s], k) \in Operations
      /\ buf[s] \o Piece(sending[s], k) \in Seq(Byte)
      /\ Len(buf[s] \o Piece(sending[s], k)) <= Capacity[s]
  BY <1>1, TransferTypes
<1>3. /\ buf' = [buf EXCEPT ![s] = buf[s] \o Piece(sending[s], k)]
      /\ sending' = [sending EXCEPT ![s] = Wrote(sending[s], k)]
  BY DEF Transfer
<1>4. Types'
  BY <1>2, <1>3 DEF IInv, Types
<1>5. s \in open
  BY DEF IInv, WritersBusy
<1>6. WritersBusy'
  <2>1. k < sending[s].left => Wrote(sending[s], k) # Idle
    <3>1. /\ OpType(sending[s]) /\ sending[s].part # "idle"
          /\ Idle.part = "idle" /\ sending[s].left \in Nat /\ k \in Nat
      BY <1>1, <1>2, OperationParts DEF Idle
    <3>2. k < sending[s].left => Wrote(sending[s], k) = [sending[s] EXCEPT !.left = @ - k]
      BY <3>1 DEF Wrote
    <3>3. [sending[s] EXCEPT !.left = @ - k].part = sending[s].part
      BY <1>1, <3>1 DEF Operations, Idle
    <3> QED BY <3>1, <3>2, <3>3
  <2>2. \A t \in Streams : t # s => sending'[t] = sending[t]
    BY <1>3 DEF IInv, Types
  <2>3. sending'[s] = Wrote(sending[s], k)
    BY <1>3 DEF IInv, Types
  <2> QED BY <1>5, <2>1, <2>2, <2>3 DEF IInv, WritersBusy
<1>7. StreamOK(s)'
  <2> SUFFICES ASSUME failed[s] # "torn"
               PROVE  /\ InOrder(sent[s], got[s], sending'[s])
                      /\ Rev(s) \in open =>
                           Carries(sent[s], Len(got[s]), sending'[s], buf'[s], receiving[s], TRUE)
    BY <1>5 DEF StreamOK
  <2>1. /\ buf'[s] = buf[s] \o Piece(sending[s], k)
        /\ sending'[s] = Wrote(sending[s], k)
    BY <1>3 DEF IInv, Types
  <2>2. /\ InOrder(sent[s], got[s], sending[s])
        /\ Rev(s) \in open =>
             Carries(sent[s], Len(got[s]), sending[s], buf[s], receiving[s], TRUE)
    BY <1>5 DEF IInv, StreamOK
  <2>3. InOrder(sent[s], got[s], sending'[s])
    BY <2>2 DEF InOrder
  <2>4. OpType(sending[s]) /\ sending[s].part # "idle" /\ ReceiveType(receiving[s])
    BY <1>1, OperationParts, ReceiveTypes
  <2>5. Rev(s) \in open =>
          Carries(sent[s], Len(got[s]), Wrote(sending[s], k), buf[s] \o Piece(sending[s], k),
                  receiving[s], TRUE)
    BY <1>1, <1>2, <2>2, <2>4, WriteCarries
  <2> QED BY <2>1, <2>3, <2>5
<1>8. ASSUME NEW t \in Streams, t # s PROVE StreamOK(t)'
  BY <1>3, <1>8, Untouched DEF IInv, Types
<1> QED BY <1>4, <1>6, <1>7, <1>8 DEF IInv

LEMMA WriteSomeInv ==
    ASSUME IInv, NEW s \in Streams, WriteSome(s)
    PROVE  IInv'
<1>1. PICK k \in 1 .. Room(s) : k <= sending[s].left /\ Transfer(s, k)
  BY DEF WriteSome
<1>2. /\ sending[s] # Idle /\ inSend[Writer(s)] = None
      /\ UNCHANGED <<open, receiving, inSend, calls, sent, got, failed>>
  BY DEF WriteSome, MayCallSend
<1>3. \A t \in Streams : inSend'[Writer(t)] = t =>
        IF t = s THEN k < sending[s].left ELSE inSend[Writer(t)] = t
  BY <1>2, StreamFacts
<1> QED BY <1>1, <1>2, <1>3, TransferInv DEF IInv, Types

LEMMA EnterSendInv ==
    ASSUME IInv, NEW s \in Streams, EnterSend(s)
    PROVE  IInv'
<1>1. /\ sending[s] # Idle
      /\ inSend' = [inSend EXCEPT ![Writer(s)] = s]
      /\ UNCHANGED <<open, sending, buf, receiving, calls, sent, got, failed>>
  BY DEF EnterSend, MayCallSend
<1>2. Types'
  BY <1>1 DEF IInv, Types
<1>3. WritersBusy'
  <2>1. \A t \in Streams : t # s => (inSend'[Writer(t)] = t => inSend[Writer(t)] = t)
    BY <1>1, StreamFacts DEF IInv, Types
  <2> QED BY <1>1, <2>1 DEF IInv, WritersBusy
<1>4. ASSUME NEW t \in Streams PROVE StreamOK(t)'
  BY <1>1, Untouched
<1> QED BY <1>2, <1>3, <1>4 DEF IInv

LEMMA BlockedSendInv ==
    ASSUME IInv, NEW s \in Streams, BlockedSend(s)
    PROVE  IInv'
<1>1. PICK k \in 1 .. Room(s) :
        /\ k <= sending[s].left /\ Transfer(s, k)
        /\ inSend' = IF k = sending[s].left THEN [inSend EXCEPT ![Writer(s)] = None]
                     ELSE inSend
  BY DEF BlockedSend
<1>2. /\ inSend[Writer(s)] = s /\ sending[s] # Idle
      /\ UNCHANGED <<open, receiving, calls, sent, got, failed>>
  BY DEF BlockedSend, IInv, WritersBusy
<1>3. inSend' \in [Nodes -> Streams \cup {None}]
  BY <1>1 DEF IInv, Types
<1>4. sending[s].left \in Nat /\ k \in Int
  BY <1>2, OperationParts, Numbers DEF IInv, Types, Room
<1>5. ASSUME NEW t \in Streams, inSend'[Writer(t)] = t
      PROVE  IF t = s THEN k < sending[s].left ELSE inSend[Writer(t)] = t
  BY <1>1, <1>2, <1>4, <1>5, StreamFacts DEF IInv, Types
<1> QED BY <1>1, <1>2, <1>3, <1>5, TransferInv

(* A send that completes with an error: the types and who is busy.         *)
LEMMA SendErrorTypes ==
    ASSUME IInv, NEW s \in Streams, SendError(s), failed' \in [Streams -> {"no", "whole", "torn"}]
    PROVE  Types' /\ WritersBusy'
<1>1. /\ sending[s] # Idle
      /\ sending' = [sending EXCEPT ![s] = Idle]
      /\ sent' = [sent EXCEPT ![s] = Front(sent[s])]
      /\ inSend' = [inSend EXCEPT ![Writer(s)] = None]
      /\ UNCHANGED <<open, buf, receiving, calls, got>>
  BY DEF SendError
<1>2. Front(sent[s]) \in Seq(Messages)
  <2>1. sent[s] \in Seq(Messages)
    BY DEF IInv, Types
  <2> QED BY <2>1 DEF Front
<1>3. Types'
  BY <1>1, <1>2 DEF IInv, Types, Operations
<1>4. WritersBusy'
  <2>1. \A t \in Streams : inSend'[Writer(t)] = t => inSend[Writer(t)] = t /\ t # s
    BY <1>1, StreamFacts DEF IInv, Types
  <2>2. \A t \in Streams : t # s => sending'[t] = sending[t]
    BY <1>1 DEF IInv, Types
  <2>3. sending'[s] = Idle
    BY <1>1 DEF IInv, Types
  <2> QED BY <1>1, <2>1, <2>2, <2>3 DEF IInv, WritersBusy
<1> QED BY <1>3, <1>4

LEMMA FrontInOrder ==
    ASSUME NEW S \in Seq(Messages), NEW G \in Seq(Seq(Byte)), NEW op, op # Idle,
           InOrder(S, G, op)
    PROVE  InOrder(Front(S), G, Idle)
<1>1. Len(G) \in Nat /\ Len(S) \in Nat /\ Len(G) < Len(S)
      /\ \A i \in 1 .. Len(G) : G[i] = Body(S[i])
  BY DEF InOrder
<1>2. /\ Len(Front(S)) = Len(S) - 1
      /\ \A i \in 1 .. Len(S) - 1 : Front(S)[i] = S[i]
  <2>1. PICK n \in Nat : Len(S) = n + 1
    BY <1>1, SMTT(30)
  <2>2. Len(Front(S)) = n /\ \A i \in 1 .. n : Front(S)[i] = S[i]
    BY <2>1 DEF Front
  <2> QED BY <2>1, <2>2
<1>3. \A i \in 1 .. Len(G) : i \in 1 .. Len(S) - 1
  BY <1>1
<1> QED BY <1>1, <1>2, <1>3 DEF InOrder

LEMMA SendFailsInv ==
    ASSUME IInv, NEW s \in Streams, SendFails(s)
    PROVE  IInv'
<1>1. /\ SendError(s) /\ sending[s] # Idle /\ Rev(s) \notin open
      /\ sending' = [sending EXCEPT ![s] = Idle]
      /\ sent' = [sent EXCEPT ![s] = Front(sent[s])]
      /\ UNCHANGED <<open, buf, receiving, calls, got, failed>>
  BY DEF SendFails, SendError
<1>2. Types' /\ WritersBusy'
  BY <1>1, SendErrorTypes DEF IInv, Types
<1>3. StreamOK(s)'
  <2>1. sent'[s] = Front(sent[s]) /\ sending'[s] = Idle
    BY <1>1 DEF IInv, Types
  <2>2. failed[s] # "torn" => InOrder(Front(sent[s]), got[s], Idle)
    BY <1>1, FrontInOrder DEF IInv, Types, StreamOK
  <2> QED BY <1>1, <2>1, <2>2 DEF StreamOK
<1>4. ASSUME NEW t \in Streams, t # s PROVE StreamOK(t)'
  BY <1>1, <1>4, Untouched DEF IInv, Types
<1> QED BY <1>2, <1>3, <1>4 DEF IInv

LEMMA SendFaultInv ==
    ASSUME IInv, NEW s \in Streams, SendFault(s)
    PROVE  IInv'
<1> DEFINE how == IF sending[s] # SendLen(sending[s].msg) \/ failed[s] = "torn"
                  THEN "torn" ELSE "whole"
<1>1. /\ SendError(s) /\ sending[s] # Idle /\ Rev(s) \in open
      /\ sending' = [sending EXCEPT ![s] = Idle]
      /\ sent' = [sent EXCEPT ![s] = Front(sent[s])]
      /\ failed' = [failed EXCEPT ![s] = how]
      /\ UNCHANGED <<open, buf, receiving, calls, got>>
  BY DEF SendFault, SendError
<1>2. failed' \in [Streams -> {"no", "whole", "torn"}]
  BY <1>1 DEF IInv, Types
<1>3. Types' /\ WritersBusy'
  BY <1>1, <1>2, SendErrorTypes
<1>4. StreamOK(s)'
  <2> SUFFICES ASSUME failed'[s] # "torn"
               PROVE  /\ InOrder(sent'[s], got[s], sending'[s])
                      /\ Carries(sent'[s], Len(got[s]), sending'[s], buf[s], receiving[s], TRUE)
    <3>1. s \in open
      BY <1>1 DEF IInv, WritersBusy
    <3> QED BY <1>1, <3>1 DEF StreamOK
  <2>1. sending[s] = SendLen(sending[s].msg) /\ failed[s] # "torn" /\ s \in open
    BY <1>1 DEF IInv, Types, WritersBusy
  <2>2. /\ InOrder(sent[s], got[s], sending[s])
        /\ Carries(sent[s], Len(got[s]), SendLen(sending[s].msg), buf[s], receiving[s], TRUE)
    BY <1>1, <2>1 DEF IInv, StreamOK
  <2>3. /\ sent[s] \in Seq(Messages) /\ got[s] \in Seq(Seq(Byte)) /\ buf[s] \in Seq(Byte)
        /\ ReceiveType(receiving[s])
    BY ReceiveTypes DEF IInv, Types
  <2>4. InOrder(Front(sent[s]), got[s], Idle)
    BY <1>1, <2>2, <2>3, FrontInOrder
  <2>5. Carries(Front(sent[s]), Len(got[s]), Idle, buf[s], receiving[s], TRUE)
    BY <2>2, <2>3, DropCarries
  <2>6. sent'[s] = Front(sent[s]) /\ sending'[s] = Idle
    BY <1>1 DEF IInv, Types
  <2> QED BY <2>4, <2>5, <2>6
<1>5. ASSUME NEW t \in Streams, t # s PROVE StreamOK(t)'
  BY <1>1, <1>5, Untouched DEF IInv, Types
<1> QED BY <1>3, <1>4, <1>5 DEF IInv

(* The reader has taken bytes of the stream s; what it makes of them.      *)
LEMMA ReadSomeInv ==
    ASSUME IInv, NEW s \in Streams, ReadSome(s)
    PROVE  IInv'
<1> DEFINE r == receiving[s]
           B == buf[s]
<1>1. PICK k \in Readable(s) :
        /\ buf' = [buf EXCEPT ![s] = Left(B, k)]
        /\ \/ /\ Len(Taken(r, B, k)) # r.size
              /\ receiving' = [receiving EXCEPT ![s].data = Taken(r, B, k)]
              /\ UNCHANGED got
           \/ /\ Len(Taken(r, B, k)) = r.size /\ r.part = "len"
              /\ \E len \in Decode(Taken(r, B, k)) :
                   receiving' = [receiving EXCEPT ![s] = RecvBody(len)]
              /\ UNCHANGED got
           \/ /\ Len(Taken(r, B, k)) = r.size /\ r.part = "body"
              /\ got' = [got EXCEPT ![s] = Append(got[s], Taken(r, B, k))]
              /\ receiving' = [receiving EXCEPT ![s] = RecvLen]
  BY DEF ReadSome, Taken, Left
<1>2. /\ Rev(s) \in open
      /\ UNCHANGED <<open, sending, inSend, calls, sent, failed>>
  BY DEF ReadSome
<1>3. /\ r \in Receives /\ ReceiveType(r) /\ B \in Seq(Byte) /\ Len(B) <= Capacity[s]
      /\ sent[s] \in Seq(Messages) /\ got[s] \in Seq(Seq(Byte))
      /\ sending[s] \in Operations /\ OpType(sending[s])
      /\ k \in 1 .. Len(B) /\ Len(r.data) + k <= r.size
  BY ReceiveTypes, OperationParts DEF IInv, Types, Readable
<1> DEFINE data == Taken(r, B, k)
           rest == Left(B, k)
<1>4. /\ data \in Seq(Byte) /\ rest \in Seq(Byte) /\ Len(rest) <= Capacity[s]
      /\ Len(data) # r.size => [r EXCEPT !.data = data] \in Receives
  <2>1. /\ Taken(r, B, k) \in Seq(Byte)
        /\ Len(Taken(r, B, k)) # r.size => [r EXCEPT !.data = Taken(r, B, k)] \in Receives
        /\ Left(B, k) \in Seq(Byte) /\ Len(Left(B, k)) <= Len(B)
    BY <1>3, TakenTypes
  <2>2. Len(rest) \in Nat /\ Len(B) \in Nat
    BY <1>3, <2>1
  <2>3. Len(rest) <= Capacity[s]
    BY <1>3, <2>1, <2>2, RoomIsFinite
  <2> QED BY <2>1, <2>3
<1>5. WritersBusy'
  BY <1>2 DEF IInv, WritersBusy
<1>6. \A t \in Streams : t # s => buf'[t] = buf[t]
  BY <1>1 DEF IInv, Types
<1>7. buf' \in [Streams -> Seq(Byte)] /\ (\A t \in Streams : Len(buf'[t]) <= Capacity[t])
      /\ buf'[s] = rest
  BY <1>1, <1>4 DEF IInv, Types
<1>8. ASSUME NEW q \in Receives, NEW h \in Seq(Seq(Byte)),
             receiving' = [receiving EXCEPT ![s] = q], got' = [got EXCEPT ![s] = h],
             failed[s] # "torn" =>
               /\ InOrder(sent[s], h, sending[s])
               /\ s \in open => Carries(sent[s], Len(h), sending[s], rest, q, TRUE)
               /\ s \notin open => Carries(sent[s], Len(h), sending[s], rest, q, FALSE)
      PROVE  IInv'
  <2>1. Types'
    BY <1>2, <1>7, <1>8 DEF IInv, Types
  <2>2. receiving'[s] = q /\ got'[s] = h
    BY <1>8 DEF IInv, Types
  <2>3. StreamOK(s)'
    BY <1>2, <1>7, <1>8, <2>2 DEF StreamOK
  <2>4. ASSUME NEW t \in Streams, t # s PROVE StreamOK(t)'
    BY <1>2, <1>6, <1>8, <2>4, Untouched DEF IInv, Types
  <2> QED BY <1>5, <2>1, <2>3, <2>4 DEF IInv
<1>9. failed[s] # "torn" =>
        /\ InOrder(sent[s], got[s], sending[s])
        /\ s \in open => Carries(sent[s], Len(got[s]), sending[s], B, r, TRUE)
        /\ s \notin open => Carries(sent[s], Len(got[s]), sending[s], B, r, FALSE)
  BY <1>2 DEF IInv, StreamOK
<1>10. ASSUME NEW w \in BOOLEAN, Carries(sent[s], Len(got[s]), sending[s], B, r, w)
       PROVE  /\ Len(data) # r.size =>
                   Carries(sent[s], Len(got[s]), sending[s], rest, [r EXCEPT !.data = data], w)
              /\ Len(data) = r.size /\ r.part = "len" =>
                   \A len \in Decode(data) :
                     Carries(sent[s], Len(got[s]), sending[s], rest, RecvBody(len), w)
              /\ Len(data) = r.size /\ r.part = "body" =>
                   /\ Len(got[s]) + 1 \in 1 .. Len(sent[s])
                   /\ data = Body(sent[s][Len(got[s]) + 1])
                   /\ Carries(sent[s], Len(got[s]) + 1, sending[s], rest, RecvLen, w)
                   /\ sending[s] # Idle => Len(got[s]) + 1 < Len(sent[s])
  <2>1. Len(data) = r.size /\ r.part = "body" =>
          /\ Len(got[s]) + 1 \in 1 .. Len(sent[s])
          /\ data = Body(sent[s][Len(got[s]) + 1])
          /\ Carries(sent[s], Len(got[s]) + 1, sending[s], rest, RecvLen, w)
    BY <1>3, <1>10, ReadCarries
  <2>3. Len(data) # r.size =>
          Carries(sent[s], Len(got[s]), sending[s], rest, [r EXCEPT !.data = data], w)
    BY <1>3, <1>10, ReadCarries
  <2>4. Len(data) = r.size /\ r.part = "len" =>
          \A len \in Decode(data) :
            Carries(sent[s], Len(got[s]), sending[s], rest, RecvBody(len), w)
    BY <1>3, <1>10, ReadCarries
  <2>2. Len(data) = r.size /\ r.part = "body" /\ sending[s] # Idle =>
          Len(got[s]) + 1 < Len(sent[s])
    <3> SUFFICES ASSUME Len(data) = r.size, r.part = "body", sending[s] # Idle
                 PROVE  Len(got[s]) + 1 < Len(sent[s])
      OBVIOUS
    <3>1. Carries(sent[s], Len(got[s]) + 1, sending[s], rest, RecvLen, w)
      BY <2>1
    <3>2. PICK o : CarriesAt(o, sent[s], Len(got[s]) + 1, sending[s], rest, RecvLen, w)
      BY <3>1 DEF Carries
    <3>3. ReceiveType(RecvLen) /\ sending[s].part # "idle"
      BY <1>3, ReceiveKinds, ReceiveTypes, OperationParts
    <3> QED BY <1>3, <1>4, <3>2, <3>3, Behind
  <2> QED BY <2>1, <2>2, <2>3, <2>4
<1> HIDE DEF data, rest
<1>11. CASE /\ Len(data) # r.size
            /\ receiving' = [receiving EXCEPT ![s].data = data]
            /\ UNCHANGED got
  <2>1. receiving' = [receiving EXCEPT ![s] = [r EXCEPT !.data = data]]
    BY <1>11
  <2>2. got' = [got EXCEPT ![s] = got[s]]
    BY <1>11 DEF IInv, Types
  <2>3. failed[s] # "torn" =>
          /\ s \in open =>
               Carries(sent[s], Len(got[s]), sending[s], rest, [r EXCEPT !.data = data], TRUE)
          /\ s \notin open =>
               Carries(sent[s], Len(got[s]), sending[s], rest, [r EXCEPT !.data = data], FALSE)
    BY <1>9, <1>10, <1>11
  <2> QED BY <1>3, <1>4, <1>8, <1>9, <1>11, <2>1, <2>2, <2>3
<1>12. CASE /\ Len(data) = r.size /\ r.part = "len"
            /\ \E len \in Decode(data) :
                 receiving' = [receiving EXCEPT ![s] = RecvBody(len)]
            /\ UNCHANGED got
  <2>1. PICK len \in Decode(data) : receiving' = [receiving EXCEPT ![s] = RecvBody(len)]
    BY <1>12
  <2>2. RecvBody(len) \in Receives
    BY ReceiveKinds DEF Decode
  <2>3. got' = [got EXCEPT ![s] = got[s]]
    BY <1>12 DEF IInv, Types
  <2>4. failed[s] # "torn" =>
          /\ s \in open => Carries(sent[s], Len(got[s]), sending[s], rest, RecvBody(len), TRUE)
          /\ s \notin open => Carries(sent[s], Len(got[s]), sending[s], rest, RecvBody(len), FALSE)
    BY <1>9, <1>10, <1>12
  <2> QED BY <1>3, <1>8, <1>9, <2>1, <2>2, <2>3, <2>4
<1>13. CASE /\ Len(data) = r.size /\ r.part = "body"
            /\ got' = [got EXCEPT ![s] = Append(got[s], data)]
            /\ receiving' = [receiving EXCEPT ![s] = RecvLen]
  <2>1. /\ Append(got[s], data) \in Seq(Seq(Byte))
        /\ Len(Append(got[s], data)) = Len(got[s]) + 1
        /\ Append(got[s], data)[Len(got[s]) + 1] = data
        /\ \A i \in 1 .. Len(got[s]) : Append(got[s], data)[i] = got[s][i]
        /\ Len(got[s]) \in Nat
    BY <1>3, <1>4
  <2>2. failed[s] # "torn" =>
          /\ Len(got[s]) + 1 \in 1 .. Len(sent[s])
          /\ data = Body(sent[s][Len(got[s]) + 1])
          /\ sending[s] # Idle => Len(got[s]) + 1 < Len(sent[s])
          /\ s \in open =>
               Carries(sent[s], Len(got[s]) + 1, sending[s], rest, RecvLen, TRUE)
          /\ s \notin open =>
               Carries(sent[s], Len(got[s]) + 1, sending[s], rest, RecvLen, FALSE)
    BY <1>9, <1>10, <1>13
  <2>3. failed[s] # "torn" => InOrder(sent[s], Append(got[s], data), sending[s])
    <3>1. \A i \in 1 .. Len(got[s]) + 1 : i \in 1 .. Len(got[s]) \/ i = Len(got[s]) + 1
      BY <2>1
    <3> SUFFICES ASSUME failed[s] # "torn"
                 PROVE  InOrder(sent[s], Append(got[s], data), sending[s])
      OBVIOUS
    <3>2. Len(sent[s]) \in Nat /\ Len(got[s]) + 1 <= Len(sent[s])
      BY <1>3, <2>1, <2>2
    <3>3. \A i \in 1 .. Len(got[s]) : got[s][i] = Body(sent[s][i])
      BY <1>9 DEF InOrder
    <3>4. \A i \in 1 .. Len(got[s]) + 1 : Append(got[s], data)[i] = Body(sent[s][i])
      BY <2>1, <2>2, <3>1, <3>3
    <3> QED BY <2>1, <2>2, <3>2, <3>4 DEF InOrder
  <2> QED BY <1>8, <1>13, <2>1, <2>2, <2>3, ReceiveKinds
<1> QED BY <1>1, <1>11, <1>12, <1>13 DEF data, rest

LEMMA CloseInv ==
    ASSUME IInv, NEW e \in Streams, Close(e)
    PROVE  IInv'
<1>1. /\ e \in open
      /\ inSend[Writer(e)] = None
      /\ open' = open \ {e}
      /\ sending' = [sending EXCEPT ![e] = Idle]
      /\ receiving' = [receiving EXCEPT ![Rev(e)] = RecvLen]
      /\ buf' = [buf EXCEPT ![Rev(e)] = <<>>]
      /\ UNCHANGED <<inSend, calls, sent, got, failed>>
  BY DEF Close
<1>2. Rev(e) \in Streams /\ Rev(e) # e /\ Rev(Rev(e)) = e /\ e # None
  BY StreamFacts
<1>3. Types'
  <2>1. Idle \in Operations /\ RecvLen \in Receives
    BY ReceiveKinds DEF Operations
  <2>2. <<>> \in Seq(Byte) /\ Len(<<>>) = 0
    OBVIOUS
  <2>3. buf' \in [Streams -> Seq(Byte)] /\ \A t \in Streams : Len(buf'[t]) <= Capacity[t]
    <3>1. \A t \in Streams : buf'[t] = IF t = Rev(e) THEN <<>> ELSE buf[t]
      BY <1>1 DEF IInv, Types
    <3>2. buf' \in [Streams -> Seq(Byte)]
      BY <1>1, <2>2 DEF IInv, Types
    <3>3. \A t \in Streams : Len(buf[t]) <= Capacity[t]
      BY DEF IInv, Types
    <3> QED BY <2>2, <3>1, <3>2, <3>3, RoomIsFinite
  <2>4. /\ open' \subseteq Streams
        /\ sending' \in [Streams -> Operations]
        /\ receiving' \in [Streams -> Receives]
    BY <1>1, <2>1 DEF IInv, Types
  <2> QED BY <1>1, <2>3, <2>4 DEF IInv, Types
<1>4. WritersBusy'
  BY <1>1, <1>2 DEF IInv, Types, WritersBusy
<1>5. StreamOK(e)'
  <2> SUFFICES ASSUME failed[e] # "torn"
               PROVE  /\ InOrder(sent[e], got[e], Idle)
                      /\ Rev(e) \in open =>
                           Carries(sent[e], Len(got[e]), Idle, buf[e], receiving[e], FALSE)
    <3>1. /\ sending'[e] = Idle /\ buf'[e] = buf[e] /\ receiving'[e] = receiving[e]
          /\ e \notin open' /\ (Rev(e) \in open' => Rev(e) \in open)
      BY <1>1, <1>2 DEF IInv, Types
    <3> QED BY <1>1, <3>1 DEF StreamOK
  <2>1. /\ InOrder(sent[e], got[e], sending[e])
        /\ Rev(e) \in open =>
             Carries(sent[e], Len(got[e]), sending[e], buf[e], receiving[e], TRUE)
    BY <1>1 DEF IInv, StreamOK
  <2>2. sent[e] \in Seq(Messages) /\ buf[e] \in Seq(Byte)
    BY DEF IInv, Types
  <2> QED BY <2>1, <2>2, StopCarries DEF InOrder
<1>6. StreamOK(Rev(e))'
  <2>1. sending'[Rev(e)] = sending[Rev(e)] /\ Rev(Rev(e)) \notin open'
    BY <1>1, <1>2 DEF IInv, Types
  <2>2. failed[Rev(e)] # "torn" => InOrder(sent[Rev(e)], got[Rev(e)], sending[Rev(e)])
    BY <1>2 DEF IInv, StreamOK
  <2> QED BY <1>1, <2>1, <2>2 DEF StreamOK
<1>7. ASSUME NEW t \in Streams, t # e, t # Rev(e) PROVE StreamOK(t)'
  <2>1. Rev(t) # e
    BY <1>2, <1>7, StreamFacts
  <2>2. /\ sending'[t] = sending[t] /\ buf'[t] = buf[t] /\ receiving'[t] = receiving[t]
        /\ (t \in open' <=> t \in open) /\ (Rev(t) \in open' <=> Rev(t) \in open)
    BY <1>1, <1>2, <1>7, <2>1 DEF IInv, Types
  <2> QED BY <1>1, <2>2, Untouched
<1> QED BY <1>2, <1>3, <1>4, <1>5, <1>6, <1>7 DEF IInv

LEMMA NextInv == IInv /\ [Next]_vars => IInv'
<1> SUFFICES ASSUME IInv, [Next]_vars PROVE IInv'
  OBVIOUS
<1>1. CASE UNCHANGED vars
  BY <1>1 DEF vars, IInv, Types, WritersBusy, StreamOK
<1>2. ASSUME NEW s \in Streams,
             \/ \E len \in Lengths : SendMessage(s, len)
             \/ Send(s)
             \/ SendFault(s)
             \/ Receive(s)
             \/ CloseSession(s)
      PROVE  IInv'
  <2>1. ASSUME NEW len \in Lengths, SendMessage(s, len) PROVE IInv'
    BY <2>1, SendMessageInv
  <2>2. CASE Send(s)
    BY <2>2, WriteSomeInv, EnterSendInv, BlockedSendInv, SendFailsInv DEF Send
  <2>3. CASE SendFault(s)
    BY <2>3, SendFaultInv
  <2>4. CASE ReadSome(s)
    BY <2>4, ReadSomeInv
  <2>5. CASE ReadFails(s)
    BY <2>5, StreamFacts, CloseInv DEF ReadFails
  <2>6. CASE CloseSession(s)
    BY <2>6, CloseInv DEF CloseSession
  <2> QED BY <1>2, <2>1, <2>2, <2>3, <2>4, <2>5, <2>6 DEF Receive
<1> QED BY <1>1, <1>2 DEF Next

LEMMA Invariant == Spec => []IInv
BY InitInv, NextInv, PTL DEF Spec

-----------------------------------------------------------------------------
(* Theorems.                                                               *)

(* SendMessage, RecvMessage and ProcData: an operation is under way or     *)
(* idle, never has less than a byte left, and no more bytes are under way  *)
(* than the kernel holds.                                                  *)
THEOREM TypesCorrect == Spec => []TypeOK
<1>1. IInv => TypeOK
  <2> SUFFICES ASSUME IInv PROVE TypeOK
    OBVIOUS
  <2>1. ASSUME NEW s \in Streams
        PROVE  \/ sending[s] = Idle
               \/ /\ sending[s].part \in {"len", "body"}
                  /\ sending[s].msg \in Messages
                  /\ sending[s].left \in
                       1 .. (IF sending[s].part = "len" THEN LenSize ELSE sending[s].msg.len)
    <3>1. sending[s] \in Operations
      BY DEF IInv, Types
    <3> QED BY <3>1, Numbers DEF Operations
  <2>2. ASSUME NEW s \in Streams
        PROVE  /\ receiving[s].part \in {"len", "body"}
               /\ receiving[s].size - Len(receiving[s].data) > 0
    <3>1. receiving[s] \in Receives
      BY DEF IInv, Types
    <3> QED BY <3>1 DEF Receives
  <2> QED BY <2>1, <2>2 DEF IInv, Types, TypeOK
<1> QED BY <1>1, Invariant, PTL

(* RecvMessage: however send() and recv() cut the streams of either end    *)
(* into pieces, and wherever connections break, what a reader hands over   *)
(* is the messages of the writer, whole, in order and none twice, unless a *)
(* send failed in the middle of a message on a stream that stayed up.      *)
THEOREM FramesStayIntact == Spec => []FramesIntact
<1>1. IInv => FramesIntact
  <2> SUFFICES ASSUME IInv, NEW s \in Streams, failed[s] # "torn"
               PROVE  IsPrefix(got[s], [i \in 1 .. Len(sent[s]) |-> Body(sent[s][i])])
    BY DEF FramesIntact
  <2> DEFINE G == got[s]
             W == [i \in 1 .. Len(sent[s]) |-> Body(sent[s][i])]
  <2>1. /\ G \in Seq(Seq(Byte)) /\ Len(G) \in Nat
        /\ sent[s] \in Seq(Messages) /\ Len(sent[s]) \in Nat
        /\ Len(G) <= Len(sent[s])
        /\ \A i \in 1 .. Len(G) : G[i] = Body(sent[s][i])
    <3>1. got[s] \in Seq(Seq(Byte)) /\ sent[s] \in Seq(Messages)
      BY DEF IInv, Types
    <3>2. InOrder(sent[s], got[s], sending[s])
      BY DEF IInv, StreamOK
    <3> QED BY <3>1, <3>2 DEF InOrder
  <2>2. \A i \in 1 .. Len(sent[s]) : Body(sent[s][i]) \in Seq(Byte)
    BY <2>1, BodyType
  <2>3. W \in Seq(Seq(Byte)) /\ Len(W) = Len(sent[s])
        /\ \A i \in 1 .. Len(sent[s]) : W[i] = Body(sent[s][i])
    BY <2>1, <2>2
  <2> HIDE DEF G, W
  <2>4. /\ SubSeq(G, 1, Len(G)) = [i \in 1 .. Len(G) |-> G[i]]
        /\ SubSeq(W, 1, Len(G)) = [i \in 1 .. Len(G) |-> W[i]]
    BY <2>1, <2>3
  <2>5. \A i \in 1 .. Len(G) : G[i] = W[i]
    BY <2>1, <2>3
  <2>6. SubSeq(G, 1, Len(G)) = SubSeq(W, 1, Len(G))
    BY <2>4, <2>5
  <2> QED BY <2>1, <2>3, <2>6 DEF IsPrefix, G, W
<1> QED BY <1>1, Invariant, PTL
=============================================================================
