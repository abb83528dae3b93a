----------------------------- MODULE PacketScan -----------------------------
(***************************************************************************)
(* What opening a capture promises about the packet index, with no         *)
(* descriptor, no end-of-file flag and no cached length: a file that may   *)
(* still be growing is scanned from the end of its header, one record is   *)
(* added for each packet met, and the verdict "valid" is given only when   *)
(* the records cover the file, with nothing left over, up to a length the  *)
(* file had while it was being opened.                                     *)
(***************************************************************************)
EXTENDS Integers, Sequences

VARIABLES
  content,   \* content[p] is the number found at offset p, for every p
  length,    \* bytes in the file now
  seen,      \* bytes in it when the opener took hold of it
  overhead,  \* bytes a packet takes beyond its data
  index,     \* the packet index, a sequence of [len, offset]
  verdict    \* "opening", "scanning", "valid", "invalid"

avars == <<content, length, seen, overhead, index, verdict>>

FileHeaderLen == 24

(* The first byte not covered by the file header and the indexed packets.  *)
End == IF index = <<>>
       THEN FileHeaderLen
       ELSE index[Len(index)].offset + overhead + index[Len(index)].len

Init == /\ index = <<>>
        /\ verdict = "opening"
        /\ seen = 0

(* Everything before the scan: the file is found, perhaps decompressed,    *)
(* and its header read.  The scan starts only past a complete header.      *)
Prepare == /\ verdict = "opening"
           /\ verdict' \in {"opening", "scanning", "invalid"}
           /\ seen' <= length'
           /\ verdict' = "scanning" => FileHeaderLen <= length'
           /\ UNCHANGED <<content, index>>

(* Somebody appends to the file. *)
Grow == /\ length' >= length
        /\ UNCHANGED <<content, seen, overhead, index, verdict>>

(* One more packet: it starts where the last one ended and its length is   *)
(* the number stored eight bytes further on, inside the file.              *)
Take == /\ verdict = "scanning"
        /\ End + 12 <= length
        /\ index' = Append(index, [len    |-> content[End + 8],
                                   offset |-> End])
        /\ UNCHANGED <<content, length, seen, overhead, verdict>>

Accept == /\ verdict = "scanning"
          /\ End >= seen
          /\ End <= length
          /\ verdict' = "valid"
          /\ UNCHANGED <<content, length, seen, overhead, index>>

Reject == /\ verdict = "scanning"
          /\ verdict' = "invalid"
          /\ UNCHANGED <<content, length, seen, overhead, index>>

Next == Prepare \/ Grow \/ Take \/ Accept \/ Reject

Spec == Init /\ [][Next]_avars

=============================================================================
