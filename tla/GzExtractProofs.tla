-------------------------- MODULE GzExtractProofs ---------------------------
(***************************************************************************)
(* decompress_to() copies the stream, for every set of streams, every size *)
(* of the buffer and every width of the count.  The invariant says how the *)
(* buffer, the two indices and the file hang together at each place.       *)
(***************************************************************************)
EXTENDS GzExtract, SequenceTheorems, TLAPS

Data == stream.data

(* The file holds a beginning of the stream. *)
OutBegins == /\ Len(out) <= Len(Data)
             /\ \A i \in 1..Len(out) : out[i] = Data[i]

(* The first n bytes in the buffer are what follows the first m of the     *)
(* stream.                                                                 *)
Holds(m, n) == \A i \in 1..n : tmp[i] = Data[m + i]

AtRead == at = "read" => count = Len(out) /\ taken = Len(out) /\ idx = 0

AtWrite == at = "write" => /\ count = Len(out)
                           /\ got = BufferLen
                           /\ idx = 0
                           /\ taken = Len(out) + BufferLen
                           /\ Holds(Len(out), BufferLen)

AtRest == at = "rest" => /\ ~stream.broken
                         /\ taken = Len(Data)
                         /\ got \in 0..BufferLen
                         /\ idx <= got
                         /\ count = taken - got
                         /\ Len(out) = count + idx
                         /\ Holds(count, got)

GzInv == /\ GzTypeOK
         /\ OutBegins
         /\ AtRead
         /\ AtWrite
         /\ AtRest
         /\ SuccessIsComplete
         /\ FailureHasReason

-----------------------------------------------------------------------------
(* The types of what the actions compute with. *)
LEMMA GzFacts ==
  ASSUME GzTypeOK
  PROVE  /\ Data \in Seq(Bytes) /\ Len(Data) \in Nat
         /\ stream.broken \in BOOLEAN
         /\ \A i \in 1..Len(Data) : Data[i] \in Bytes
         /\ out \in Seq(Bytes) /\ Len(out) \in Nat
         /\ tmp \in Seq(Bytes) /\ Len(tmp) = BufferLen
         /\ \A i \in 1..BufferLen : tmp[i] \in Bytes
         /\ BufferLen \in Nat /\ BufferLen > 0
         /\ taken \in Nat /\ taken <= Len(Data) /\ Left \in Nat
         /\ Left = Len(Data) - taken
<1>1. BufferLen \in Nat /\ BufferLen > 0
  BY ExtractAssumption
<1>2. /\ Data \in Seq(Bytes) /\ stream.broken \in BOOLEAN
  BY ExtractAssumption DEF GzTypeOK, Data
<1>3. /\ Len(Data) \in Nat
      /\ \A i \in 1..Len(Data) : Data[i] \in Bytes
  BY <1>2, LenProperties
<1>4. out \in Seq(Bytes) /\ Len(out) \in Nat
  BY LenProperties DEF GzTypeOK
<1>5. \A i \in 1..BufferLen : tmp[i] \in Bytes
  BY DEF GzTypeOK
<1>6. tmp \in Seq(Bytes) /\ Len(tmp) = BufferLen
  <2>1. tmp \in [1..BufferLen -> Bytes]
    BY DEF GzTypeOK
  <2> QED
    BY <1>1, <2>1
<1>7. taken \in Nat /\ taken <= Len(Data) /\ Left \in Nat /\ Left = Len(Data) - taken
  BY <1>3 DEF GzTypeOK, Left, Data
<1> QED
  BY <1>1, <1>2, <1>3, <1>4, <1>5, <1>6, <1>7

LEMMA ZerosType == Zeros \in [1..BufferLen -> Bytes]
  BY DEF Zeros, Bytes

LEMMA SignedType == ASSUME NEW n \in Nat PROVE Signed(n) \in Int
<1>1. Modulus \in Nat \ {0}
  BY ExtractAssumption
<1> QED
  BY <1>1 DEF Signed

(* The value -1 is that of the last residue only. *)
LEMMA SignedFailure ==
  ASSUME NEW n \in Nat, Signed(n) = Failure
  PROVE  n % Modulus = Modulus - 1
<1>1. Modulus \in Nat \ {0}
  BY ExtractAssumption
<1>2. n % Modulus \in 0..(Modulus - 1)
  BY <1>1
<1> QED
  BY <1>1, <1>2 DEF Signed, Failure

-----------------------------------------------------------------------------
LEMMA GzInitInv == GzInit => GzInv
<1> SUFFICES ASSUME GzInit PROVE GzInv
  OBVIOUS
<1>1. stream.data \in Seq(Bytes) /\ Len(stream.data) \in Nat
  BY ExtractAssumption, LenProperties DEF GzInit
<1>2. BufferLen \in Nat /\ Rooms \subseteq Nat
  BY ExtractAssumption
<1>3. GzTypeOK
  <2>1. out \in Seq(Bytes)
    BY EmptySeq DEF GzInit
  <2> QED
    BY <1>1, <1>2, <2>1, ZerosType DEF GzInit, GzTypeOK
<1>4. OutBegins /\ AtRead
  BY <1>1, EmptySeq DEF GzInit, OutBegins, AtRead, Data
<1>5. AtWrite /\ AtRest /\ SuccessIsComplete /\ FailureHasReason
  BY DEF GzInit, AtWrite, AtRest, SuccessIsComplete, FailureHasReason
<1> QED
  BY <1>3, <1>4, <1>5 DEF GzInv

LEMMA ReadBufferKeeps == GzInv /\ ReadBuffer => GzInv'
<1> SUFFICES ASSUME GzInv, ReadBuffer PROVE GzInv'
  OBVIOUS
<1>1. /\ at = "read" /\ (stream.broken => BufferLen <= Left)
      /\ got' = Next8K /\ taken' = taken + Next8K
      /\ tmp' = [i \in 1..BufferLen |->
                   IF i <= Next8K THEN Data[taken + i] ELSE tmp[i]]
      /\ at' = IF Next8K = BufferLen THEN "write" ELSE "rest"
      /\ UNCHANGED <<stream, room, idx, out, count, result>>
      /\ Data' = Data
  BY DEF ReadBuffer, Data
<1>2. GzTypeOK /\ OutBegins /\ count = Len(out) /\ taken = Len(out) /\ Len(out)' = Len(out) /\ idx = 0
  BY <1>1 DEF GzInv, AtRead
<1>3. /\ Data \in Seq(Bytes) /\ Len(Data) \in Nat
      /\ \A i \in 1..Len(Data) : Data[i] \in Bytes
      /\ \A i \in 1..BufferLen : tmp[i] \in Bytes
      /\ BufferLen \in Nat /\ BufferLen > 0
      /\ taken \in Nat /\ Left \in Nat /\ Left = Len(Data) - taken
      /\ stream.broken \in BOOLEAN
  BY <1>2, GzFacts
<1>4. /\ Next8K \in 0..BufferLen /\ Next8K <= Left
      /\ Next8K # BufferLen => Next8K = Left /\ Left < BufferLen
  BY <1>3 DEF Next8K
<1>5. tmp' \in [1..BufferLen -> Bytes]
  BY <1>1, <1>3, <1>4
<1>6. GzTypeOK'
  BY <1>1, <1>2, <1>3, <1>4, <1>5 DEF GzTypeOK, Data
<1>7. \A i \in 1..Next8K : tmp'[i] = Data[taken + i]
  BY <1>1, <1>3, <1>4
<1>8. AtWrite'
  BY <1>1, <1>2, <1>3, <1>4, <1>7 DEF AtWrite, Holds
<1>9. AtRest'
  <2>1. SUFFICES ASSUME Next8K # BufferLen PROVE AtRest'
    BY <1>1 DEF AtRest
  <2> QED
    BY <1>1, <1>2, <1>3, <1>4, <1>7, <2>1 DEF AtRest, Holds, GzTypeOK
<1>10. OutBegins' /\ AtRead' /\ SuccessIsComplete' /\ FailureHasReason'
  BY <1>1, <1>2 DEF OutBegins, AtRead, SuccessIsComplete, FailureHasReason
<1> QED
  BY <1>6, <1>8, <1>9, <1>10 DEF GzInv


(* Nothing but the place, the result and the last read changes. *)
LEMMA ReadBrokenKeeps == GzInv /\ ReadBroken => GzInv'
<1> SUFFICES ASSUME GzInv, ReadBroken PROVE GzInv'
  OBVIOUS
<1>1. /\ stream.broken /\ got' = -1 /\ at' = "done" /\ result' = Failure
      /\ UNCHANGED <<stream, taken, room, tmp, idx, out, count>>
  BY DEF ReadBroken, Return
<1>2. GzTypeOK /\ OutBegins
  BY DEF GzInv
<1>3. BufferLen \in Nat
  BY ExtractAssumption
<1>4. GzTypeOK'
  BY <1>1, <1>2, <1>3 DEF GzTypeOK, Failure
<1>5. OutBegins'
  BY <1>1, <1>2 DEF OutBegins, Data
<1>6. AtRead' /\ AtWrite' /\ AtRest'
  BY <1>1 DEF AtRead, AtWrite, AtRest
<1>7. SuccessIsComplete' /\ FailureHasReason'
  BY <1>1 DEF SuccessIsComplete, FailureHasReason
<1> QED
  BY <1>4, <1>5, <1>6, <1>7 DEF GzInv

(* What follows from a step that writes the first n bytes of a full buffer. *)
LEMMA Appended ==
  ASSUME GzInv, at = "write", NEW n \in 0..BufferLen, NEW next,
         next = out \o SubSeq(tmp, 1, n)
  PROVE  /\ next \in Seq(Bytes) /\ Len(next) = Len(out) + n
         /\ Len(next) <= Len(Data)
         /\ \A i \in 1..Len(out) : next[i] = out[i]
         /\ \A i \in 1..Len(next) : next[i] = Data[i]
<1> DEFINE piece == SubSeq(tmp, 1, n)
<1>1. /\ GzTypeOK /\ Holds(Len(out), BufferLen) /\ taken = Len(out) + BufferLen
      /\ OutBegins
  BY DEF GzInv, AtWrite
<1>2. /\ out \in Seq(Bytes) /\ Len(out) \in Nat /\ taken <= Len(Data)
      /\ Len(Data) \in Nat /\ BufferLen \in Nat
      /\ \A i \in 1..BufferLen : tmp[i] \in Bytes
  BY <1>1, GzFacts
<1>3. /\ piece \in Seq(Bytes) /\ Len(piece) = n
      /\ \A i \in 1..n : piece[i] = tmp[i]
  <2>1. n \in Int /\ \A i \in 1..n : tmp[i] \in Bytes
    BY <1>2
  <2>2. /\ piece \in Seq(Bytes) /\ Len(piece) = (IF 1 <= n THEN n - 1 + 1 ELSE 0)
        /\ \A i \in 1..(n - 1 + 1) : piece[i] = tmp[1 + i - 1]
    BY <2>1, SubSeqProperties
  <2> QED
    BY <2>1, <2>2
<1> HIDE DEF piece
<1>4. /\ next \in Seq(Bytes) /\ Len(next) = Len(out) + n
      /\ \A i \in 1..(Len(out) + n) :
           next[i] = IF i <= Len(out) THEN out[i] ELSE piece[i - Len(out)]
  BY <1>2, <1>3, ConcatProperties DEF piece
<1>5. \A i \in 1..Len(next) : next[i] = Data[i]
  <2> SUFFICES ASSUME NEW i \in 1..Len(next) PROVE next[i] = Data[i]
    OBVIOUS
  <2>1. CASE i <= Len(out)
    BY <1>1, <1>2, <1>4, <2>1 DEF OutBegins
  <2>2. CASE ~(i <= Len(out))
    <3>1. i - Len(out) \in 1..n /\ i - Len(out) \in 1..BufferLen
      BY <1>2, <1>4, <2>2
    <3>2. next[i] = tmp[i - Len(out)]
      BY <1>2, <1>3, <1>4, <2>2, <3>1
    <3>3. tmp[i - Len(out)] = Data[Len(out) + (i - Len(out))]
      BY <1>1, <3>1 DEF Holds
    <3> QED
      BY <1>2, <3>2, <3>3
  <2> QED
    BY <2>1, <2>2
<1> QED
  BY <1>1, <1>2, <1>4, <1>5

(* A whole buffer is a piece of itself. *)
LEMMA WholeBuffer ==
  ASSUME GzTypeOK PROVE SubSeq(tmp, 1, BufferLen) = tmp
<1>1. /\ tmp \in Seq(Bytes) /\ Len(tmp) = BufferLen /\ BufferLen \in Nat
      /\ BufferLen > 0 /\ \A i \in 1..BufferLen : tmp[i] \in Bytes
  BY GzFacts
<1>2. /\ SubSeq(tmp, 1, BufferLen) \in Seq(Bytes)
      /\ Len(SubSeq(tmp, 1, BufferLen)) = BufferLen
      /\ \A i \in 1..BufferLen : SubSeq(tmp, 1, BufferLen)[i] = tmp[i]
  <2>1. /\ SubSeq(tmp, 1, BufferLen) \in Seq(Bytes)
        /\ Len(SubSeq(tmp, 1, BufferLen))
             = (IF 1 <= BufferLen THEN BufferLen - 1 + 1 ELSE 0)
        /\ \A i \in 1..(BufferLen - 1 + 1) :
             SubSeq(tmp, 1, BufferLen)[i] = tmp[1 + i - 1]
    BY <1>1, SubSeqProperties
  <2> QED
    BY <1>1, <2>1
<1> QED
  BY <1>1, <1>2, SeqEqual

LEMMA WriteBufferKeeps == GzInv /\ WriteBuffer => GzInv'
<1> SUFFICES ASSUME GzInv, WriteBuffer PROVE GzInv'
  OBVIOUS
<1>1. /\ at = "write" /\ at' = "read" /\ BufferLen <= room
      /\ out' = out \o tmp /\ room' = room - BufferLen /\ count' = count + got
      /\ tmp' = Zeros
      /\ UNCHANGED <<stream, taken, got, idx, result>>
      /\ Data' = Data
  BY DEF WriteBuffer, Data
<1>2. /\ GzTypeOK /\ got = BufferLen /\ count = Len(out) /\ idx = 0
      /\ taken = Len(out) + BufferLen
  BY <1>1 DEF GzInv, AtWrite
<1>3. BufferLen \in Nat /\ room \in Nat /\ Len(out) \in Nat
  BY <1>2, GzFacts DEF GzTypeOK
<1>4. /\ out' \in Seq(Bytes) /\ Len(out') = Len(out) + BufferLen
      /\ Len(out') <= Len(Data) /\ \A i \in 1..Len(out') : out'[i] = Data[i]
  <2>1. out' = out \o SubSeq(tmp, 1, BufferLen)
    BY <1>1, <1>2, WholeBuffer
  <2>2. BufferLen \in 0..BufferLen
    BY <1>3
  <2> QED
    BY <1>1, <2>1, <2>2, Appended
<1>5. GzTypeOK'
  BY <1>1, <1>2, <1>3, <1>4, ZerosType DEF GzTypeOK
<1>6. OutBegins' /\ AtRead' /\ AtWrite' /\ AtRest'
  BY <1>1, <1>2, <1>3, <1>4 DEF OutBegins, AtRead, AtWrite, AtRest
<1>7. SuccessIsComplete' /\ FailureHasReason'
  BY <1>1 DEF SuccessIsComplete, FailureHasReason
<1> QED
  BY <1>5, <1>6, <1>7 DEF GzInv

LEMMA WriteByteKeeps == GzInv /\ WriteByte => GzInv'
<1> SUFFICES ASSUME GzInv, WriteByte PROVE GzInv'
  OBVIOUS
<1>1. /\ at = "rest" /\ idx < got /\ 1 <= room
      /\ out' = Append(out, tmp[idx + 1]) /\ room' = room - 1 /\ idx' = idx + 1
      /\ UNCHANGED <<stream, taken, at, tmp, got, count, result>>
      /\ Data' = Data
  BY DEF WriteByte, Data
<1>2. /\ GzTypeOK /\ OutBegins /\ AtRest
  BY DEF GzInv
<1>3. /\ BufferLen \in Nat /\ room \in Nat /\ out \in Seq(Bytes) /\ Len(out) \in Nat
      /\ Len(Data) \in Nat /\ got \in 0..BufferLen /\ idx \in Nat /\ count \in Nat
      /\ taken = Len(Data) /\ count = taken - got /\ Len(out) = count + idx
      /\ \A i \in 1..BufferLen : tmp[i] \in Bytes
  BY <1>1, <1>2, GzFacts DEF GzTypeOK, AtRest
<1>4. idx + 1 \in 1..got /\ idx + 1 \in 1..BufferLen
  BY <1>1, <1>3
<1>5. tmp[idx + 1] \in Bytes /\ tmp[idx + 1] = Data[Len(out) + 1]
  <2>1. tmp[idx + 1] = Data[count + (idx + 1)]
    BY <1>1, <1>2, <1>4 DEF AtRest, Holds
  <2> QED
    BY <1>3, <1>4, <2>1
<1>6. /\ out' \in Seq(Bytes) /\ Len(out') = Len(out) + 1
      /\ \A i \in 1..Len(out) : out'[i] = out[i]
      /\ out'[Len(out) + 1] = Data[Len(out) + 1]
  BY <1>1, <1>3, <1>5, AppendProperties
<1>7. GzTypeOK'
  BY <1>1, <1>2, <1>3, <1>4, <1>6 DEF GzTypeOK
<1>8. OutBegins'
  <2>1. Len(out') <= Len(Data)
    BY <1>3, <1>4, <1>6
  <2>2. \A i \in 1..(Len(out) + 1) : i \in 1..Len(out) \/ i = Len(out) + 1
    BY <1>3
  <2> QED
    BY <1>1, <1>2, <1>6, <2>1, <2>2 DEF OutBegins
<1>9. AtRest'
  BY <1>1, <1>2, <1>3, <1>4, <1>6 DEF AtRest, Holds
<1>10. AtRead' /\ AtWrite' /\ SuccessIsComplete' /\ FailureHasReason'
  BY <1>1 DEF AtRead, AtWrite, SuccessIsComplete, FailureHasReason
<1> QED
  BY <1>7, <1>8, <1>9, <1>10 DEF GzInv

LEMMA WriteFailsKeeps == GzInv /\ WriteFails => GzInv'
<1> SUFFICES ASSUME GzInv, WriteFails PROVE GzInv'
  OBVIOUS
<1>1. /\ room' = 0 /\ at' = "done" /\ result' = Failure
      /\ UNCHANGED <<stream, taken, tmp, got, idx, count>>
      /\ Data' = Data
  BY DEF WriteFails, Return, Data
<1>2. GzTypeOK /\ OutBegins
  BY DEF GzInv
<1>3. /\ out' \in Seq(Bytes) /\ Len(out') < Len(Data)
      /\ \A i \in 1..Len(out') : out'[i] = Data[i]
  <2>0. /\ BufferLen \in Nat /\ room \in Nat /\ Len(out) \in Nat /\ out \in Seq(Bytes)
        /\ Len(Data) \in Nat /\ taken <= Len(Data) /\ taken \in Nat
    BY <1>2, GzFacts DEF GzTypeOK
  <2>1. CASE at = "write" /\ room < BufferLen /\ out' = out \o SubSeq(tmp, 1, room)
    <3>1. room \in 0..BufferLen /\ taken = Len(out) + BufferLen
      BY <2>0, <2>1 DEF GzInv, AtWrite
    <3>2. /\ out' \in Seq(Bytes) /\ Len(out') = Len(out) + room
          /\ \A i \in 1..Len(out') : out'[i] = Data[i]
      BY <2>1, <3>1, Appended
    <3> QED
      BY <2>0, <2>1, <3>1, <3>2
  <2>2. CASE at = "rest" /\ idx < got /\ room = 0 /\ out' = out
    <3>1. /\ taken = Len(Data) /\ count = taken - got /\ Len(out) = count + idx
          /\ got \in 0..BufferLen /\ idx \in Nat
      BY <2>2 DEF GzInv, AtRest, GzTypeOK
    <3>2. Len(out) < Len(Data)
      BY <2>0, <2>2, <3>1
    <3> QED
      BY <1>2, <2>0, <2>2, <3>2 DEF OutBegins
  <2> QED
    BY <2>1, <2>2 DEF WriteFails
<1>4. GzTypeOK'
  BY <1>1, <1>2, <1>3 DEF GzTypeOK, Failure
<1>5. OutBegins'
  <2>1. Len(Data) \in Nat /\ Len(out') \in Nat
    BY <1>2, <1>3, GzFacts, LenProperties
  <2> QED
    BY <1>1, <1>3, <2>1 DEF OutBegins
<1>6. AtRead' /\ AtWrite' /\ AtRest' /\ SuccessIsComplete' /\ FailureHasReason'
  BY <1>1, <1>3 DEF AtRead, AtWrite, AtRest, SuccessIsComplete, FailureHasReason, Data
<1> QED
  BY <1>4, <1>5, <1>6 DEF GzInv

(* The file is complete when the loop over the last bytes has ended. *)
LEMMA RestIsComplete ==
  ASSUME GzInv, at = "rest", idx = got
  PROVE  out = Data /\ count + got = Len(out) /\ Len(out) \in Nat /\ ~stream.broken
<1>1. /\ GzTypeOK /\ OutBegins /\ taken = Len(Data) /\ count = taken - got
      /\ Len(out) = count + idx /\ got \in 0..BufferLen /\ ~stream.broken
  BY DEF GzInv, AtRest
<1>2. /\ out \in Seq(Bytes) /\ Data \in Seq(Bytes) /\ Len(out) \in Nat
      /\ BufferLen \in Nat /\ Len(Data) \in Nat
  BY <1>1, GzFacts
<1>3. Len(out) = Len(Data) /\ count + got = Len(out)
  BY <1>1, <1>2
<1>4. out = Data
  BY <1>1, <1>2, <1>3, SeqEqual DEF OutBegins
<1> QED
  BY <1>1, <1>2, <1>3, <1>4

LEMMA FinishKeeps == GzInv /\ Finish => GzInv'
<1> SUFFICES ASSUME GzInv, Finish PROVE GzInv'
  OBVIOUS
<1>1. /\ at = "rest" /\ idx = got /\ at' = "done"
      /\ count' = count + got /\ result' = Signed(count + got)
      /\ UNCHANGED <<stream, taken, room, tmp, got, idx, out>>
  BY DEF Finish, Return
<1>2. /\ out = Data /\ count + got = Len(out) /\ Len(out) \in Nat /\ ~stream.broken
  BY <1>1, RestIsComplete
<1>3. GzTypeOK /\ OutBegins
  BY DEF GzInv
<1>4. GzTypeOK'
  <2>1. result' \in Int /\ count' \in Nat
    BY <1>1, <1>2, SignedType
  <2> QED
    BY <1>1, <1>3, <2>1 DEF GzTypeOK
<1>5. OutBegins' /\ AtRead' /\ AtWrite' /\ AtRest'
  BY <1>1, <1>3 DEF OutBegins, AtRead, AtWrite, AtRest, Data
<1>6. SuccessIsComplete'
  BY <1>1, <1>2 DEF SuccessIsComplete, Data, Signed
<1>7. FailureHasReason'
  <2>1. result' = Failure => Len(out) % Modulus = Modulus - 1
    BY <1>1, <1>2, SignedFailure
  <2> QED
    BY <1>1, <1>2, <2>1 DEF FailureHasReason, Data
<1> QED
  BY <1>4, <1>5, <1>6, <1>7 DEF GzInv

LEMMA GzNextInv == GzInv /\ [Extract]_gzvars => GzInv'
<1> SUFFICES ASSUME GzInv, [Extract]_gzvars PROVE GzInv'
  OBVIOUS
<1>1. CASE Extract
  BY <1>1, ReadBufferKeeps, ReadBrokenKeeps, WriteBufferKeeps, WriteByteKeeps,
     WriteFailsKeeps, FinishKeeps DEF Extract
<1>2. CASE UNCHANGED gzvars
  BY <1>2 DEF gzvars, GzInv, GzTypeOK, OutBegins, AtRead, AtWrite, AtRest, Holds,
     Data, SuccessIsComplete, FailureHasReason
<1> QED
  BY <1>1, <1>2

LEMMA GzInvHolds == GzSpec => []GzInv
  BY GzInitInv, GzNextInv, PTL DEF GzSpec

-----------------------------------------------------------------------------
(* The variables of decompress_to() keep to their ranges. *)
THEOREM GzTypeCorrect == GzSpec => []GzTypeOK
<1>1. GzInv => GzTypeOK
  BY DEF GzInv
<1> QED
  BY <1>1, GzInvHolds, PTL

(* A count other than -1 comes with a complete file (decompress_to()). *)
THEOREM SuccessCorrect == GzSpec => []SuccessIsComplete
<1>1. GzInv => SuccessIsComplete
  BY DEF GzInv
<1> QED
  BY <1>1, GzInvHolds, PTL

(* A -1 means a corrupt stream, a full disk, or a length that is one less  *)
(* than a multiple of 2^32 (decompress_to()).                              *)
THEOREM FailureCorrect == GzSpec => []FailureHasReason
<1>1. GzInv => FailureHasReason
  BY DEF GzInv
<1> QED
  BY <1>1, GzInvHolds, PTL

-----------------------------------------------------------------------------
LEMMA CopyInit == GzInit => Copy!Init
  BY DEF GzInit, Copy!Init, Copied

(* Every step is one of the abstract copy or none. *)
LEMMA CopyStep ==
  ASSUME GzInv, GzInv', [Extract]_gzvars PROVE [Copy!Next]_(Copy!cvars)
<1> USE DEF Copy!cvars
<1>1. /\ OutBegins /\ OutBegins' /\ GzTypeOK
  BY DEF GzInv
<1>2. Len(out) \in Nat /\ out \in Seq(Bytes) /\ Len(Data) \in Nat
  BY <1>1, GzFacts
<1>3. stream' = stream /\ Data' = Data => Copy!Begins(out', stream.data)
  BY <1>1 DEF OutBegins, Copy!Begins, Data
<1>4. out' = out => Copy!Begins(out, out')
  BY <1>2 DEF Copy!Begins
<1>5. CASE ReadBuffer
  BY <1>5 DEF ReadBuffer, Copied
<1>6. CASE ReadBroken
  <2>1. /\ Copied = "copying" /\ Copied' = "failed" /\ out' = out /\ stream' = stream
        /\ Data' = Data
    BY <1>6 DEF ReadBroken, Copied, Return, Data
  <2> QED
    BY <1>3, <1>4, <2>1 DEF Copy!Next, Copy!Fail
<1>7. CASE WriteBuffer
  <2>1. /\ Copied = "copying" /\ Copied' = "copying" /\ stream' = stream /\ Data' = Data
        /\ at = "write" /\ out' = out \o tmp
    BY <1>7 DEF WriteBuffer, Copied, Data
  <2>2. Copy!Begins(out, out')
    <3>1. tmp \in Seq(Bytes) /\ Len(tmp) \in Nat
      BY <1>1, GzFacts
    <3> QED
      BY <1>2, <2>1, <3>1, ConcatProperties DEF Copy!Begins
  <2> QED
    BY <1>3, <2>1, <2>2 DEF Copy!Next, Copy!Extend
<1>8. CASE WriteByte
  <2>1. /\ Copied = "copying" /\ Copied' = "copying" /\ stream' = stream /\ Data' = Data
        /\ out' = Append(out, tmp[idx + 1]) /\ idx < got /\ at = "rest"
    BY <1>8 DEF WriteByte, Copied, Data
  <2>2. Copy!Begins(out, out')
    <3>1. tmp[idx + 1] \in Bytes
      BY <1>1, <2>1, ExtractAssumption DEF GzTypeOK
    <3> QED
      BY <1>2, <2>1, <3>1, AppendProperties DEF Copy!Begins
  <2> QED
    BY <1>3, <2>1, <2>2 DEF Copy!Next, Copy!Extend
<1>9. CASE WriteFails
  <2>1. /\ Copied = "copying" /\ Copied' = "failed" /\ stream' = stream /\ Data' = Data
    BY <1>9 DEF WriteFails, Copied, Return, Data
  <2>2. Copy!Begins(out, out')
    <3>1. CASE at = "write" /\ room < BufferLen /\ out' = out \o SubSeq(tmp, 1, room)
      <4>1. room \in 0..BufferLen
        BY <1>1, <3>1, ExtractAssumption DEF GzTypeOK
      <4>2. Len(out') = Len(out) + room /\ \A i \in 1..Len(out) : out'[i] = out[i]
        BY <3>1, <4>1, Appended
      <4> QED
        BY <1>2, <4>1, <4>2 DEF Copy!Begins
    <3>2. CASE out' = out
      BY <1>4, <3>2
    <3> QED
      BY <1>9, <3>1, <3>2 DEF WriteFails
  <2> QED
    BY <1>3, <2>1, <2>2 DEF Copy!Next, Copy!Fail
<1>10. CASE Finish
  <2>1. /\ Copied = "copying" /\ stream' = stream /\ Data' = Data /\ out' = out
        /\ Copied' \in {"failed", "complete"}
    BY <1>10 DEF Finish, Copied, Return, Data
  <2>2. out = stream.data
    BY <1>10, RestIsComplete DEF Finish, Data
  <2>3. CASE Copied' = "failed"
    BY <1>3, <1>4, <2>1, <2>3 DEF Copy!Next, Copy!Fail
  <2>4. CASE Copied' = "complete"
    BY <2>1, <2>2, <2>4 DEF Copy!Next, Copy!Complete
  <2> QED
    BY <2>1, <2>3, <2>4
<1>11. CASE UNCHANGED gzvars
  BY <1>11 DEF gzvars, Copied
<1> QED
  BY <1>5, <1>6, <1>7, <1>8, <1>9, <1>10, <1>11 DEF Extract

(* decompress_to() implements the abstract copy: the file always holds a   *)
(* beginning of the stream, and all of it when it says so.                 *)
THEOREM CopyRefined == GzSpec => CopySpec
<1>1. GzInv /\ GzInv' /\ [Extract]_gzvars => [Copy!Next]_(Copy!cvars)
  BY CopyStep
<1> QED
  BY <1>1, CopyInit, GzInvHolds, PTL DEF GzSpec, CopySpec, Copy!Spec

-----------------------------------------------------------------------------
(* What decompress_to() has to do is bounded by the length of the stream   *)
(* and less after every step, whatever gzread() and write() answer.        *)
THEOREM AdvanceCorrect == GzSpec => ExtractAdvances
<1> DEFINE Advances == StepsLeft' \in Nat /\ StepsLeft' < StepsLeft
<1>1. GzInv /\ Extract => Advances
  <2> SUFFICES ASSUME GzInv, Extract PROVE Advances
    OBVIOUS
  <2>1. /\ Left \in Nat /\ Len(Data) \in Nat /\ taken \in Nat /\ Left = Len(Data) - taken
        /\ BufferLen \in Nat /\ BufferLen > 0 /\ got \in Int /\ idx \in Int
    BY GzFacts DEF GzInv, GzTypeOK
  <2>2. stream' = stream
    BY DEF Extract, ReadBuffer, ReadBroken, WriteBuffer, WriteByte, WriteFails, Finish
  <2>3. Left' = Len(Data) - taken'
    BY <2>2 DEF Left, Data
  <2>4. CASE ReadBuffer
    <3>1. /\ at = "read" /\ taken' = taken + Next8K /\ got' = Next8K /\ idx' = idx
          /\ at' = IF Next8K = BufferLen THEN "write" ELSE "rest"
      BY <2>4 DEF ReadBuffer
    <3>2. Next8K \in Nat /\ Next8K <= Left
      BY <2>1 DEF Next8K
    <3>3. idx = 0
      BY <3>1 DEF GzInv, AtRead
    <3>4. Left' = Left - Next8K
      BY <2>1, <2>3, <3>1, <3>2
    <3>5. StepsLeft = 2 * Left + 2
      BY <3>1 DEF StepsLeft
    <3>6. StepsLeft' = IF Next8K = BufferLen THEN 2 * Left' + 3 ELSE (got' - idx') + 1
      BY <3>1 DEF StepsLeft
    <3> QED
      BY <2>1, <3>1, <3>2, <3>3, <3>4, <3>5, <3>6
  <2>5. CASE ReadBroken
    <3>1. at = "read" /\ at' = "done"
      BY <2>5 DEF ReadBroken, Return
    <3> QED
      BY <2>1, <3>1 DEF StepsLeft
  <2>6. CASE WriteBuffer
    <3>1. at = "write" /\ at' = "read" /\ taken' = taken
      BY <2>6 DEF WriteBuffer
    <3>2. StepsLeft = 2 * Left + 3 /\ StepsLeft' = 2 * Left' + 2
      BY <3>1 DEF StepsLeft
    <3> QED
      BY <2>1, <2>3, <3>1, <3>2
  <2>7. CASE WriteByte
    <3>1. at = "rest" /\ at' = "rest" /\ idx < got /\ idx' = idx + 1 /\ got' = got
      BY <2>7 DEF WriteByte
    <3>2. StepsLeft = (got - idx) + 1 /\ StepsLeft' = (got' - idx') + 1
      BY <3>1 DEF StepsLeft
    <3> QED
      BY <2>1, <3>1, <3>2
  <2>8. CASE WriteFails
    <3>1. at' = "done" /\ (at = "write" \/ (at = "rest" /\ idx < got))
      BY <2>8 DEF WriteFails, Return
    <3> QED
      BY <2>1, <3>1 DEF StepsLeft
  <2>9. CASE Finish
    <3>1. at = "rest" /\ at' = "done" /\ idx = got
      BY <2>9 DEF Finish, Return
    <3> QED
      BY <2>1, <3>1 DEF StepsLeft
  <2> QED
    BY <2>4, <2>5, <2>6, <2>7, <2>8, <2>9 DEF Extract
<1>2. GzInv /\ [Extract]_gzvars => [Advances]_gzvars
  BY <1>1
<1> QED
  BY <1>2, GzInvHolds, PTL DEF GzSpec, ExtractAdvances

=============================================================================
