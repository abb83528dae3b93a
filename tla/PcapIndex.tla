----------------------------- MODULE PcapIndex ------------------------------
(***************************************************************************)
(* The constructor of libnokogiri::pcap::pcap_t (pcap.cc): the file is     *)
(* opened, its compression found, a compressed one inflated into a private *)
(* temporary file, the file header read, and one pass made over the        *)
(* packets to build the index `_packets`.  The object is valid only when   *)
(* all of that succeeded.                                                  *)
(*                                                                         *)
(* One action per piece of the constructor between two looks at the file,  *)
(* because the file may change there: the program that writes a capture    *)
(* often still runs, and appends to it (action Grow).  Offsets are 64-bit  *)
(* in every supported build and lengths 32-bit, so no offset overflows.    *)
(***************************************************************************)
EXTENDS Fd, Sequences

CONSTANT Captures   \* the files that may be opened, see CapturesAssumption

Variants == {"Standard", "Modified", "IXIAHW", "IXIASW", "Nanosecond"}

(* The fields of file_header_t besides the variant. *)
HeaderFields == {"major", "minor", "timezone_offset", "timestamp_accuracy",
                 "max_packet_length", "link_type"}

Compressions == {"Uncompressed", "Compressed", "Autodetect", "Unknown"}

(***************************************************************************)
(* A capture file: whether it is a gzip stream, whether calls on it may    *)
(* fail, the magic it starts with once inflated (a pcap variant, perhaps   *)
(* in the other byte order, or something else), the number a read at each  *)
(* offset yields on this machine, the lengths its writer lets it have as  *)
(* it grows, and what that writer means by it: the numbers of the file     *)
(* header and the captured lengths of the packets, one after the other.    *)
(***************************************************************************)
ASSUME CapturesAssumption ==
  \A c \in Captures :
    /\ c.gz \in BOOLEAN
    /\ c.errors \in BOOLEAN
    /\ c.magic.variant \in Variants \cup {"Other"}
    /\ c.magic.swapped \in BOOLEAN
    /\ c.limit \in Nat
    /\ c.word \in [0..c.limit -> Nat]
    /\ c.stops \subseteq 0..c.limit
    /\ c.numbers \in [HeaderFields -> Nat]
    /\ c.written \in Seq(Nat)

-----------------------------------------------------------------------------
VARIABLES
  disk,         \* the file being opened, one of Captures
  size,         \* its length now; after inflating, that of the temporary file
  pc,           \* where the constructor is
  fd,           \* _file
  base,         \* length of the file when it became _file (history variable)
  compression,  \* _compression
  variant,      \* _header._variant
  header,       \* the other fields of _header
  swapping,     \* _needs_swapping
  packets,      \* _packets
  valid         \* _valid

vars == <<disk, size, pc, fd, base, compression, variant, header, swapping,
          packets, valid>>

(* Whether open(), read() and the decompressor may fail on this file for   *)
(* reasons that are not in it.                                             *)
IOErrors == disk.errors

FileHeaderLen == 24

(* Offset of the captured length in a packet header. *)
LenOffset == 8

(* get_packet_body_offset(): from the end of that field to the data. *)
BodyOffset(v) == IF v = "Modified" THEN 12 ELSE 4

(* Bytes a packet takes in the file beyond its data. *)
PacketHeaderLen(v) == LenOffset + 4 + BodyOffset(v)

(* The byte-swapping macros, on the value of the field. *)
Swap16(w) == (w % 256) * 256 + ((w \div 256) % 256)

Swap32(w) == Swap16(w % 65536) * 65536 + Swap16(w \div 65536)

(* The 32-bit ones among the header fields, by their offset in the file. *)
NumberAt == [p \in {8, 12, 16, 20} |->
               CASE p = 8  -> "timezone_offset"
                 [] p = 12 -> "timestamp_accuracy"
                 [] p = 16 -> "max_packet_length"
                 [] p = 20 -> "link_type"]

(* file_header_t{}: version 1.0, link type User0. *)
DefaultHeader ==
  [f \in HeaderFields |-> CASE f = "major"     -> 1
                            [] f = "link_type" -> 147
                            [] OTHER           -> 0]

(* Mutant: the file header taken as it is, like the lengths of the packets. *)
DecodeNever(w) == w

(* What a header field holds after reading w; link_type_t is 16 bits wide. *)
Decode(w) == IF swapping THEN Swap32(w) ELSE w

Stored(f, w) == IF f = "link_type" THEN Decode(w) % 65536 ELSE Decode(w)

-----------------------------------------------------------------------------
(* The constructor has swapped its source for a private temporary file.    *)
Inflated == /\ compression = "Compressed"
            /\ pc \notin {"open", "detect", "rewind", "inflate"}

(* The magic found at offset 0 of _file: a gzip stream read as it is does  *)
(* not start with any pcap magic.                                          *)
Magic == IF disk.gz /\ ~Inflated THEN [variant |-> "Other", swapped |-> FALSE]
                                 ELSE disk.magic

(* How much an inflater may get out of the file: a stream that is cut off  *)
(* or still being written ends early without an error, and what is not a   *)
(* gzip stream is copied as it is.                                         *)
InflatedSizes == IF disk.gz /\ size > 0 THEN disk.stops ELSE {size}

Init ==
  /\ disk \in Captures
  /\ size \in disk.stops
  /\ compression \in Compressions
  /\ pc = "open"
  /\ fd = Fresh
  /\ base = 0
  /\ variant = "Standard"
  /\ header = DefaultHeader
  /\ swapping = FALSE
  /\ packets = <<>>
  /\ valid = FALSE

(* Another process appends to the file. *)
Grow ==
  /\ ~Inflated
  /\ size' \in {s \in disk.stops : s > size}
  /\ UNCHANGED <<disk, pc, fd, base, compression, variant, header, swapping,
                 packets, valid>>

-----------------------------------------------------------------------------
(* open() gave a descriptor: look for compression if asked to. *)
Open ==
  /\ pc = "open"
  /\ pc' = CASE compression = "Autodetect" -> "detect"
             [] compression = "Compressed" -> "inflate"
             [] OTHER                      -> "magic"
  /\ base' = IF pc' = "magic" THEN size ELSE base
  /\ UNCHANGED <<disk, size, fd, compression, variant, header, swapping,
                 packets, valid>>

(* open() gave -1: detection answers Unknown, and whichever way the        *)
(* constructor goes its first read fails, so it returns without an index.  *)
OpenFails ==
  /\ pc = "open"
  /\ IOErrors
  /\ pc' = "done"
  /\ compression' = IF compression = "Autodetect" THEN "Unknown" ELSE compression
  /\ UNCHANGED <<disk, size, fd, base, variant, header, swapping, packets, valid>>

(* detect_captrue_compression() reads two bytes ...                        *)
DetectRead ==
  /\ pc = "detect"
  /\ \/ /\ fd' = ReadBytes(fd, size, 2)
        /\ compression' = CASE ~Complete(fd, size, 2) -> "Unknown"
                            [] disk.gz                -> "Compressed"
                            [] OTHER                  -> "Uncompressed"
     \/ /\ IOErrors
        /\ compression' = "Unknown"
        /\ UNCHANGED fd
  /\ pc' = "rewind"
  /\ UNCHANGED <<disk, size, base, variant, header, swapping, packets, valid>>

(* ... and goes back to the start, which is when _length is first asked    *)
(* for and eof first assigned.  A file not to be inflated becomes _file    *)
(* with both.                                                              *)
DetectRewind ==
  /\ pc = "rewind"
  /\ fd' = SeekTo(fd, size, 0)
  /\ IF compression = "Compressed"
     THEN pc' = "inflate" /\ UNCHANGED base
     ELSE pc' = "magic" /\ base' = size
  /\ UNCHANGED <<disk, size, compression, variant, header, swapping, packets,
                 valid>>

(* decompress_to() a temporary file and head(): from here on nobody else   *)
(* writes the file the constructor reads.                                  *)
Inflate ==
  /\ pc = "inflate"
  /\ \E n \in InflatedSizes :
       /\ size' = n
       /\ base' = n
       /\ fd' = SeekTo([Fresh EXCEPT !.pos = n], n, 0)
  /\ pc' = "magic"
  /\ UNCHANGED <<disk, compression, variant, header, swapping, packets, valid>>

(* The temporary file cannot be made, written or rewound, or the stream    *)
(* does not inflate: the constructor returns.                              *)
InflateFails ==
  /\ pc = "inflate"
  /\ IOErrors
  /\ pc' = "done"
  /\ fd' = Fresh
  /\ UNCHANGED <<disk, size, base, compression, variant, header, swapping,
                 packets, valid>>

-----------------------------------------------------------------------------
(* fd_t::read<T>() of n bytes that are all there. *)
Got(n) == /\ Complete(fd, size, n)
          /\ fd' = ReadBytes(fd, size, n)

(* One that is not: the file ends first, or read() reports an error. *)
Missed(n) == \/ /\ ~Complete(fd, size, n)
                /\ fd' = ReadBytes(fd, size, n)
             \/ /\ IOErrors
                /\ UNCHANGED fd

(* read_header() or ingest_packets() returned false. *)
GiveUp == /\ pc' = "done"
          /\ UNCHANGED <<disk, size, base, compression, variant, header,
                         swapping, packets, valid>>

(* The magic gives the variant and the byte order; an unknown one ends it. *)
ReadMagic ==
  /\ pc = "magic"
  /\ Got(4)
  /\ IF Magic.variant \in Variants
     THEN /\ variant' = Magic.variant
          /\ swapping' = Magic.swapped
          /\ pc' = "version"
     ELSE /\ pc' = "done"
          /\ UNCHANGED <<variant, swapping>>
  /\ UNCHANGED <<disk, size, base, compression, header, packets, valid>>

(* Both halves of the version are read before either is looked at. *)
ReadVersion ==
  LET half == ReadBytes(fd, size, 2)
      Half(w) == IF swapping THEN Swap16(w) ELSE w
  IN  /\ pc = "version"
      /\ Complete(fd, size, 2)
      /\ Complete(half, size, 2)
      /\ fd' = ReadBytes(half, size, 2)
      /\ header' = [header EXCEPT !["major"] = Half(disk.word[4]),
                                  !["minor"] = Half(disk.word[6])]
      /\ pc' = "numbers"
      /\ UNCHANGED <<disk, size, base, compression, variant, swapping,
                     packets, valid>>

VersionMissing ==
  LET half == ReadBytes(fd, size, 2)
  IN  /\ pc = "version"
      /\ \/ /\ ~(Complete(fd, size, 2) /\ Complete(half, size, 2))
            /\ fd' = ReadBytes(half, size, 2)
         \/ /\ IOErrors
            /\ fd' \in {fd, half}
      /\ GiveUp

(* The four 32-bit fields after it, each its own read and early return. *)
ReadNumber ==
  /\ pc = "numbers"
  /\ Got(4)
  /\ header' = LET f == NumberAt[fd.pos]
               IN  [header EXCEPT ![f] = Stored(f, disk.word[fd.pos])]
  /\ pc' = IF fd.pos = 20 THEN "scan" ELSE "numbers"
  /\ UNCHANGED <<disk, size, base, compression, variant, swapping, packets, valid>>

-----------------------------------------------------------------------------
(* ingest_packets(), head of the loop: not at the end, so over the         *)
(* time-stamps to the captured length.                                     *)
SkipTimestamp ==
  /\ pc = "scan"
  /\ ~fd.eof
  /\ fd' = SeekBy(fd, size, LenOffset)
  /\ pc' = "length"
  /\ UNCHANGED <<disk, size, base, compression, variant, header, swapping,
                 packets, valid>>

(* Mutant: the position is noted after the time-stamps were skipped. *)
TakePacketAtLength ==
  /\ pc = "length"
  /\ Complete(fd, size, 4)
  /\ LET len    == disk.word[fd.pos]
         passed == ReadBytes(fd, size, 4)
     IN  /\ packets' = Append(packets, [len |-> len, offset |-> fd.pos])
         /\ fd' = SeekBy(passed, size, len + BodyOffset(variant))
  /\ pc' = "scan"
  /\ UNCHANGED <<disk, size, base, compression, variant, header, swapping, valid>>

(* Mutant: the longer packet header of the Modified variant forgotten. *)
TakePacketSameStep ==
  /\ pc = "length"
  /\ Complete(fd, size, 4)
  /\ LET len    == disk.word[fd.pos]
         passed == ReadBytes(fd, size, 4)
     IN  /\ packets' = Append(packets, [len    |-> len,
                                        offset |-> fd.pos - LenOffset])
         /\ fd' = SeekBy(passed, size, len + BodyOffset("Standard"))
  /\ pc' = "scan"
  /\ UNCHANGED <<disk, size, base, compression, variant, header, swapping, valid>>

(* The captured length is read, the packet recorded with the offset its    *)
(* header starts at, and the rest of header and data stepped over.  The    *)
(* length is used in the byte order of the machine.                        *)
TakePacket ==
  /\ pc = "length"
  /\ Complete(fd, size, 4)
  /\ LET len    == disk.word[fd.pos]
         passed == ReadBytes(fd, size, 4)
     IN  /\ packets' = Append(packets, [len    |-> len,
                                        offset |-> fd.pos - LenOffset])
         /\ fd' = SeekBy(passed, size, len + BodyOffset(variant))
  /\ pc' = "scan"
  /\ UNCHANGED <<disk, size, base, compression, variant, header, swapping, valid>>

(* Mutant: a missing length is not looked at, the loop reads it again. *)
ReadFailsInHeaderOnly ==
  /\ pc \in {"magic", "numbers"}
  /\ Missed(4)
  /\ GiveUp

(* A read of the header or of a captured length that fails ends it all. *)
ReadFails ==
  /\ pc \in {"magic", "numbers", "length"}
  /\ Missed(4)
  /\ GiveUp

(* isEOF() at the head of the loop: the constructor sets _valid. *)
Finish ==
  /\ pc = "scan"
  /\ fd.eof
  /\ pc' = "done"
  /\ valid' = TRUE
  /\ UNCHANGED <<disk, size, fd, base, compression, variant, header, swapping,
                 packets>>

Construct == \/ Open \/ OpenFails \/ DetectRead \/ DetectRewind
             \/ Inflate \/ InflateFails
             \/ ReadMagic \/ ReadVersion \/ VersionMissing \/ ReadNumber
             \/ SkipTimestamp \/ TakePacket \/ ReadFails \/ Finish

Next == Construct \/ Grow

Spec == Init /\ [][Next]_vars

(* The constructor is straight-line code that waits for nothing, so it     *)
(* keeps running; nothing says that the writer ever appends again.         *)
FairSpec == Spec /\ WF_vars(Construct)

-----------------------------------------------------------------------------
(* The ingest position: the first byte that neither the file header nor an *)
(* indexed packet covers.                                                  *)
End == IF packets = <<>>
       THEN FileHeaderLen
       ELSE packets[Len(packets)].offset + PacketHeaderLen(variant)
              + packets[Len(packets)].len

(* Where the k-th packet of capture c ends if its writer is right. *)
EndOf(c) ==
  LET end[k \in 0..Len(c.written)] ==
        IF k = 0 THEN FileHeaderLen
                 ELSE end[k-1] + (PacketHeaderLen(c.magic.variant) + c.written[k])
  IN  end

(* A pcap capture of this machine's byte order, laid out as its writer     *)
(* means it, perhaps cut off within its last packet.                       *)
WellFormed(c) ==
  /\ c.magic.variant \in Variants
  /\ ~c.magic.swapped
  /\ c.limit <= EndOf(c)[Len(c.written)]
  /\ \A k \in 1..Len(c.written) :
       EndOf(c)[k-1] + LenOffset \in 0..c.limit
         => c.word[EndOf(c)[k-1] + LenOffset] = c.written[k]

Storage == [len : Nat, offset : Nat]

TypeOK ==
  /\ disk \in Captures
  /\ size \in 0..disk.limit
  /\ pc \in {"open", "detect", "rewind", "inflate", "magic", "version",
             "numbers", "scan", "length", "done"}
  /\ fd \in FdStates
  /\ base \in Nat
  /\ compression \in Compressions
  /\ variant \in Variants
  /\ header \in [HeaderFields -> Nat]
  /\ swapping \in BOOLEAN
  /\ packets \in Seq(Storage)
  /\ valid \in BOOLEAN

(* At every moment of the scan, and in whatever index a failed one leaves  *)
(* behind, the packets tile the file: the first starts behind the file     *)
(* header, each other where the one before it ends, and each has the       *)
(* length stored in its own header, which lies inside the file             *)
(* (ingest_packets(): no packet skipped, repeated or overlapping).         *)
IndexTiles ==
  \A i \in 1..Len(packets) :
    /\ packets[i].offset =
         IF i = 1 THEN FileHeaderLen
         ELSE packets[i-1].offset + PacketHeaderLen(variant) + packets[i-1].len
    /\ packets[i].offset + LenOffset + 4 <= size
    /\ packets[i].len = disk.word[packets[i].offset + LenOffset]

(* A valid object covers the file up to a length the file really had since *)
(* the constructor took hold of it: no packet reaches past the end and no  *)
(* byte that was there to begin with is left out, although the end is      *)
(* recognised by comparing with a length cached earlier (fd_t::_length).   *)
ValidCoversFile == valid => base <= End /\ End <= size

(* A valid object without packets comes from a file that was empty when it *)
(* was opened: the only way past the loop of ingest_packets() is an eof    *)
(* flag left over from rewinding that empty file.                          *)
EmptyIndexOnlyIfBornEmpty ==
  valid /\ packets = <<>> => base = 0 /\ fd.len = 0

(* A well-formed capture, inflated if need be, is accepted exactly when    *)
(* the length fd_t cached is the end of one of its packets: data arriving  *)
(* afterwards neither makes a good capture bad nor a cut one good.         *)
AcceptsAtPacketEnd ==
  WellFormed(disk) /\ Magic = disk.magic /\ ~IOErrors =>
    LET ends == {EndOf(disk)[k] : k \in 1..Len(disk.written)}
    IN  /\ valid => fd.len \in ends \cup {0}
        /\ pc = "done" /\ fd.len \in ends => valid

(* Of a well-formed capture the index holds the captured lengths its       *)
(* writer wrote, in order, from the first on (get_packet_body_offset()     *)
(* gives the right step for every variant).                                *)
IndexAsWritten ==
  WellFormed(disk) =>
    /\ Len(packets) <= Len(disk.written)
    /\ \A i \in 1..Len(packets) : packets[i].len = disk.written[i]

(* A file header laid out as its writer means it, in the byte order of the *)
(* writer: the version in two halves of 16 bits, four fields of 32 bits    *)
(* after it, of which the link type is one that 16 bits can hold.          *)
HeaderLaid(c) ==
  /\ \A f \in {"major", "minor", "link_type"} : c.numbers[f] < 65536
  /\ \A f \in HeaderFields : c.numbers[f] \div 65536 < 65536
  /\ \A p \in {4, 6} \cap (0..c.limit) :
       LET n == c.numbers[IF p = 4 THEN "major" ELSE "minor"]
       IN  c.word[p] = IF c.magic.swapped THEN Swap16(n) ELSE n
  /\ \A p \in {8, 12, 16, 20} \cap (0..c.limit) :
       LET n == c.numbers[NumberAt[p]]
       IN  c.word[p] = IF c.magic.swapped THEN Swap32(n) ELSE n

(* Once the file header has been read it says what its writer meant,       *)
(* whichever byte order the file is in (read_header(), the swap macros).   *)
HeaderAsWritten ==
  HeaderLaid(disk) =>
    (pc \in {"scan", "length"} \/ valid => header = disk.numbers)

(* The constructor comes to an end, whatever the file holds and however    *)
(* its writer appends to it.                                               *)
Constructed == <>(pc = "done")

(* How many steps the constructor has left at most: two for every byte     *)
(* that the file has, or may yet have, beyond the indexed packets, and     *)
(* before that the steps that lead to the scan.                            *)
Ahead == IF End <= disk.limit THEN disk.limit - End ELSE 0

ToTheScan == [open |-> 19, detect |-> 18, rewind |-> 17, inflate |-> 16,
              magic |-> 15, version |-> 14, numbers |-> 21 - fd.pos]

StepsLeft == CASE pc = "done"                  -> 0
               [] pc = "length"                -> 2 * Ahead + 1
               [] pc = "scan"                  -> 2 * Ahead + 2
               [] pc \in DOMAIN ToTheScan      -> 2 * disk.limit + 2 + ToTheScan[pc]

(* Every step of the constructor brings it nearer to its end, whatever the *)
(* file holds, and the writer never puts it off: a packet is stepped over  *)
(* forwards, by its header at least (ingest_packets()).                    *)
ConstructAdvances ==
  [][/\ StepsLeft' \in Nat
     /\ StepsLeft' <= StepsLeft
     /\ StepsLeft' = StepsLeft => UNCHANGED <<pc, fd, packets>>]_vars

(* What PacketScan promises, of this constructor: the file is `content`,   *)
(* the variables of the abstract scan are read off the constructor's.      *)
Verdict == CASE pc \in {"scan", "length"} -> "scanning"
             [] pc = "done" /\ valid       -> "valid"
             [] pc = "done" /\ ~valid      -> "invalid"
             [] OTHER                      -> "opening"

Scan == INSTANCE PacketScan WITH
          content <- disk.word, length <- size, seen <- base,
          overhead <- PacketHeaderLen(variant), index <- packets,
          verdict <- Verdict

(* The constructor implements the abstract scan. *)
ScanSpec == Scan!Spec

-----------------------------------------------------------------------------
(* What comments of the code say and the code does not do: each of these   *)
(* is checked by a run that is to find it violated.                        *)

(* "Until we reach the end of the file" (pcap.cc:158): a capture that      *)
(* nobody appends to and that ends with its file header has no packets and *)
(* is read to its end.  The code looks at eof, which no read that          *)
(* succeeded has set, and then misses a length.                            *)
HeaderOnlyAccepted ==
  WellFormed(disk) /\ Magic = disk.magic /\ ~IOErrors /\ pc = "done"
    /\ size = FileHeaderLen /\ disk.stops = {size}
      => valid

(* The same capture written on a machine of the other byte order. *)
WellFormedSwapped(c) ==
  /\ c.magic.variant \in Variants
  /\ c.magic.swapped
  /\ c.limit <= EndOf(c)[Len(c.written)]
  /\ \A k \in 1..Len(c.written) :
       EndOf(c)[k-1] + LenOffset \in 0..c.limit
         => Swap32(c.word[EndOf(c)[k-1] + LenOffset]) = c.written[k]

(* "We need to swap all the things when reading" (pcap.cc:69): the lengths *)
(* in the index of a swapped capture are those its writer wrote.  Only the *)
(* file header is swapped.                                                 *)
SwappedIndexAsWritten ==
  WellFormedSwapped(disk) =>
    \A i \in 1..Len(packets) : i \in 1..Len(disk.written)
                                  /\ packets[i].len = disk.written[i]

=============================================================================
