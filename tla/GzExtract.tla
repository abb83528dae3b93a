----------------------------- MODULE GzExtract ------------------------------
(***************************************************************************)
(* gzfile_t::decompress_to() (internal/zlib.hh): a gzip stream is inflated *)
(* into a file through a buffer.  Whole buffers are written with one       *)
(* write(), the rest that comes last byte by byte, and the number of bytes *)
(* copied is returned as a signed integer whose value -1 means failure.    *)
(*                                                                         *)
(* The stream delivers `data` and then ends, or is broken: gzread() cannot *)
(* tell one that is cut off from one that ends, and only answers -1 when   *)
(* the data is corrupt, for a read that would go beyond what is sound.     *)
(* The file is the temporary one the constructor of pcap_t has just made.  *)
(***************************************************************************)
EXTENDS Integers, Sequences

CONSTANTS
  Streams,    \* the streams that may be inflated, see ExtractAssumption
  Rooms,      \* how many bytes the file system may have room for
  BufferLen,  \* bytes in the buffer: 8192
  Modulus     \* how many values the count can have: 2^32

Bytes == 0..255

ASSUME ExtractAssumption ==
  /\ \A s \in Streams : s.data \in Seq(Bytes) /\ s.broken \in BOOLEAN
  /\ Rooms \subseteq Nat
  /\ BufferLen \in Nat \ {0}
  /\ Modulus \in Nat \ {0}

VARIABLES
  stream,   \* _gz_file, one of Streams
  taken,    \* bytes gzread() has delivered
  room,     \* bytes that can still be written
  at,       \* where decompress_to() is
  tmp,      \* the buffer
  got,      \* gzread_ret of the read before
  idx,      \* idx of the loop over the last bytes
  out,      \* the bytes in the file
  count,    \* decmpressed, before it is cut to its width
  result    \* what was returned

gzvars == <<stream, taken, room, at, tmp, got, idx, out, count, result>>

Failure == -1

(* Mutant: a count of half the width. *)
SignedNarrow(n) == (n % (Modulus \div 2)) - (Modulus \div 4)

(* The value of a signed integer of Modulus values that has counted to n,  *)
(* as every build for a machine with two's complement wraps it.            *)
Signed(n) == IF n % Modulus < Modulus \div 2 THEN n % Modulus
                                             ELSE (n % Modulus) - Modulus

Zeros == [i \in 1..BufferLen |-> 0]

Left == Len(stream.data) - taken

(* What gzread() of a whole buffer delivers now. *)
Next8K == IF BufferLen <= Left THEN BufferLen ELSE Left

GzInit ==
  /\ stream \in Streams
  /\ taken = 0
  /\ room \in Rooms
  /\ at = "read"
  /\ tmp = Zeros
  /\ got = 0
  /\ idx = 0
  /\ out = <<>>
  /\ count = 0
  /\ result = 0

Return(value) == /\ at' = "done"
                 /\ result' = value

-----------------------------------------------------------------------------
(* gzread() fills the buffer, or the beginning of it: then this was the    *)
(* last of the stream.                                                     *)
ReadBuffer ==
  /\ at = "read"
  /\ stream.broken => BufferLen <= Left
  /\ got' = Next8K
  /\ taken' = taken + Next8K
  /\ tmp' = [i \in 1..BufferLen |-> IF i <= Next8K THEN stream.data[taken + i]
                                                   ELSE tmp[i]]
  /\ at' = IF Next8K = BufferLen THEN "write" ELSE "rest"
  /\ UNCHANGED <<stream, room, idx, out, count, result>>

(* Mutant: gzread_ret is added without a look at whether it is -1. *)
ReadBrokenCounts ==
  /\ at = "read"
  /\ stream.broken
  /\ Left < BufferLen
  /\ got' = -1
  /\ count' = count - 1
  /\ Return(Signed(count - 1))
  /\ UNCHANGED <<stream, taken, room, tmp, idx, out>>

(* Mutant: the loop goes on until gzread() delivers nothing. *)
ReadBrokenAgain ==
  /\ at = "read"
  /\ stream.broken
  /\ Left < BufferLen
  /\ got' = -1
  /\ UNCHANGED <<stream, taken, room, at, tmp, idx, out, count, result>>

(* gzread() answers -1. *)
ReadBroken ==
  /\ at = "read"
  /\ stream.broken
  /\ Left < BufferLen
  /\ got' = -1
  /\ Return(Failure)
  /\ UNCHANGED <<stream, taken, room, tmp, idx, out, count>>

(* A full buffer goes to the file and is cleared. *)
WriteBuffer ==
  /\ at = "write"
  /\ BufferLen <= room
  /\ out' = out \o tmp
  /\ room' = room - BufferLen
  /\ count' = count + got
  /\ tmp' = Zeros
  /\ at' = "read"
  /\ UNCHANGED <<stream, taken, got, idx, result>>

(* The last bytes, one write() each. *)
WriteByte ==
  /\ at = "rest"
  /\ idx < got
  /\ 1 <= room
  /\ out' = Append(out, tmp[idx + 1])
  /\ room' = room - 1
  /\ idx' = idx + 1
  /\ UNCHANGED <<stream, taken, at, tmp, got, count, result>>

(* Mutant: whether a byte was written is not looked at. *)
WriteFailsInBufferOnly ==
  /\ \/ /\ at = "write"
        /\ room < BufferLen
        /\ out' = out \o SubSeq(tmp, 1, room)
        /\ Return(Failure)
        /\ UNCHANGED idx
     \/ /\ at = "rest"
        /\ idx < got
        /\ room = 0
        /\ idx' = idx + 1
        /\ UNCHANGED <<out, at, result>>
  /\ room' = 0
  /\ UNCHANGED <<stream, taken, tmp, got, count>>

(* There is no room: write() takes what fits, and everything ends here. *)
WriteFails ==
  /\ \/ /\ at = "write"
        /\ room < BufferLen
        /\ out' = out \o SubSeq(tmp, 1, room)
     \/ /\ at = "rest"
        /\ idx < got
        /\ room = 0
        /\ UNCHANGED out
  /\ room' = 0
  /\ Return(Failure)
  /\ UNCHANGED <<stream, taken, tmp, got, idx, count>>

(* The copy is complete and its length returned. *)
Finish ==
  /\ at = "rest"
  /\ idx = got
  /\ count' = count + got
  /\ Return(Signed(count + got))
  /\ UNCHANGED <<stream, taken, room, tmp, got, idx, out>>

Extract == \/ ReadBuffer \/ ReadBroken \/ WriteBuffer \/ WriteByte
           \/ WriteFails \/ Finish

GzSpec == GzInit /\ [][Extract]_gzvars

(* One thread that waits for nothing but the disk. *)
FairGzSpec == GzSpec /\ WF_gzvars(Extract)

-----------------------------------------------------------------------------
GzTypeOK ==
  /\ stream \in Streams
  /\ taken \in 0..Len(stream.data)
  /\ room \in Nat
  /\ at \in {"read", "write", "rest", "done"}
  /\ tmp \in [1..BufferLen -> Bytes]
  /\ got \in -1..BufferLen
  /\ idx \in 0..BufferLen
  /\ out \in Seq(Bytes)
  /\ count \in Nat
  /\ result \in Int

(* Whenever decompress_to() does not return -1, the file holds every byte  *)
(* of the stream once, in order, and nothing of what the buffer held       *)
(* before, although the stream ends within a buffer or just at its end.    *)
SuccessIsComplete ==
  at = "done" /\ result # Failure =>
    ~stream.broken /\ out = stream.data /\ result = Signed(Len(out))

(* It returns -1 because the stream is corrupt or the disk full - or, with *)
(* the file complete, because the count has run over to -1.                *)
FailureHasReason ==
  at = "done" /\ result = Failure =>
    \/ stream.broken
    \/ room = 0 /\ Len(out) < Len(stream.data)
    \/ out = stream.data /\ Len(out) % Modulus = Modulus - 1

(* StreamCopy, with the verdict read off where decompress_to() is. *)
Copied == IF at # "done" THEN "copying"
          ELSE IF result = Failure THEN "failed" ELSE "complete"

Copy == INSTANCE StreamCopy WITH
          source <- stream.data, copy <- out, verdict <- Copied

(* decompress_to() copies the stream. *)
CopySpec == Copy!Spec

(* It returns, however long the stream is. *)
ExtractEnds == <>(at = "done")

(* How many steps decompress_to() has left at most: two for each byte to   *)
(* come, or one for each byte in the buffer, and the last.                 *)
StepsLeft == CASE at = "read"  -> 2 * Left + 2
               [] at = "write" -> 2 * Left + 3
               [] at = "rest"  -> (got - idx) + 1
               [] at = "done"  -> 0

(* Every step brings it nearer to its end, by a bound known from the       *)
(* start: no answer of gzread() or write() makes a loop of it go round     *)
(* once more for nothing.                                                  *)
ExtractAdvances == [][StepsLeft' \in Nat /\ StepsLeft' < StepsLeft]_gzvars

=============================================================================
