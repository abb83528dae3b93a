-------------------------- MODULE PcapIndexProofs ---------------------------
(***************************************************************************)
(* What TLC checks of PcapIndex on small captures, proved for every set of *)
(* captures: the types, the tiling of the file by the index, what a valid  *)
(* object covers, and that the constructor implements PacketScan; and of a *)
(* capture laid out as its writer means it, that header and index say what *)
(* the writer wrote and that it is accepted when it should be.             *)
(***************************************************************************)
EXTENDS PcapIndex, Arithmetic, SequenceTheorems, TLAPS

(* Before the scan: nothing is in the index yet. *)
Preparing == {"open", "detect", "rewind", "inflate", "magic", "version", "numbers"}

(* The length _file has cached is one the file had, after base. *)
CachedLength == /\ base <= size
                /\ fd.len <= size
                /\ fd.len # Unasked => base <= fd.len

(* Where the descriptor is while the constructor reads through it, and why *)
(* eof may be set there: only a rewound empty file sets it before the      *)
(* first packet, only the cached length afterwards.                        *)
Position ==
  /\ pc \in {"open", "detect"} => fd = Fresh
  /\ pc = "rewind" => fd.len = Unasked
  /\ pc = "magic"   => fd.pos = 0
  /\ pc = "version" => fd.pos = 4
  /\ pc = "numbers" => fd.pos \in {8, 12, 16, 20}
  /\ pc \in {"magic", "version", "numbers"} /\ fd.eof => fd.len = 0
  /\ pc = "scan"    => fd.pos = End /\ FileHeaderLen <= size
  /\ pc = "length"  => fd.pos = End + LenOffset /\ FileHeaderLen <= size
  /\ pc = "scan" /\ fd.eof =>
       IF packets = <<>> THEN fd.len = 0 ELSE fd.pos = fd.len

(* The index is empty before the scan and the verdict comes after it. *)
Phases == /\ pc \in Preparing => packets = <<>>
          /\ valid => pc = "done"

(* The inductive invariant. *)
IInv == /\ TypeOK
        /\ Phases
        /\ CachedLength
        /\ Position
        /\ IndexTiles
        /\ ValidCoversFile
        /\ EmptyIndexOnlyIfBornEmpty

-----------------------------------------------------------------------------
(* The operators on descriptors give descriptors. *)
LEMMA SeekToFacts ==
  ASSUME NEW f \in FdStates, NEW s \in Nat, NEW t \in Nat
  PROVE  /\ SeekTo(f, s, t) \in FdStates
         /\ SeekTo(f, s, t).pos = t
         /\ SeekTo(f, s, t).len \in Nat
         /\ SeekTo(f, s, t).len = (IF f.len = Unasked THEN s ELSE f.len)
         /\ (SeekTo(f, s, t).eof <=> t = SeekTo(f, s, t).len)
  BY DEF SeekTo, LengthOf, FdStates, Unasked

(* A read moves the offset by what it delivers, within the file, and       *)
(* leaves eof and the cached length alone unless it delivers nothing.      *)
LEMMA ReadFacts ==
  ASSUME NEW f \in FdStates, NEW s \in Nat, NEW n \in Nat
  PROVE  /\ ReadBytes(f, s, n) \in FdStates
         /\ ReadBytes(f, s, n).len = f.len
         /\ Complete(f, s, n) /\ n # 0 =>
              /\ f.pos + n <= s
              /\ ReadBytes(f, s, n).pos = f.pos + n
              /\ ReadBytes(f, s, n).eof = f.eof
<1> DEFINE d == Delivered(f, s, n)
<1>1. d \in Nat /\ (d = n => n = 0 \/ f.pos + n <= s)
  BY DEF Delivered, FdStates
<1>2. ReadBytes(f, s, n) = [pos |-> f.pos + d,
                            eof |-> f.eof \/ (d = 0 /\ n # 0),
                            len |-> f.len]
  BY DEF ReadBytes
<1>3. (f.eof \/ (d = 0 /\ n # 0)) \in BOOLEAN
  OBVIOUS
<1> HIDE DEF d
<1>4. Complete(f, s, n) <=> d = n
  BY DEF Complete, d
<1>5. f.pos \in Nat /\ f.len \in Nat \cup {Unasked} /\ f.eof \in BOOLEAN
  BY DEF FdStates
<1>6. ReadBytes(f, s, n) \in FdStates
  BY <1>1, <1>2, <1>3, <1>5 DEF FdStates
<1>7. n # 0 /\ d = n => (f.eof \/ (d = 0 /\ n # 0)) = f.eof
  BY <1>5
<1> QED
  BY <1>1, <1>2, <1>4, <1>6, <1>7

-----------------------------------------------------------------------------
(* A number stored inside the file is a natural number. *)
LEMMA WordIsNat ==
  ASSUME TypeOK, NEW p \in Nat, p < size
  PROVE  disk.word[p] \in Nat
<1>1. size \in 0..disk.limit /\ disk.limit \in Nat
  BY CapturesAssumption DEF TypeOK
<1>2. p \in 0..disk.limit
  BY <1>1
<1>3. disk.word \in [0..disk.limit -> Nat]
  BY CapturesAssumption DEF TypeOK
<1> QED
  BY <1>2, <1>3

(* So is what the header makes of it. *)
LEMMA StoredIsNat ==
  ASSUME TypeOK, NEW w \in Nat, NEW f \in HeaderFields
  PROVE  Stored(f, w) \in Nat /\ Swap16(w) \in Nat
<1>1. \A v \in Nat : Swap16(v) \in Nat
  BY DEF Swap16
<1>2. w % 65536 \in Nat /\ w \div 65536 \in Nat
  OBVIOUS
<1>3. Swap32(w) \in Nat
  BY <1>1, <1>2 DEF Swap32
<1>4. Decode(w) \in Nat
  BY <1>3 DEF Decode
<1> QED
  BY <1>1, <1>4 DEF Stored

(* The end of the indexed packets is a position past the file header. *)
LEMMA EndIsNat ==
  ASSUME TypeOK
  PROVE  /\ End \in Nat
         /\ PacketHeaderLen(variant) \in {16, 24}
         /\ BodyOffset(variant) \in {4, 12}
         /\ PacketHeaderLen(variant) = 12 + BodyOffset(variant)
<1>1. /\ PacketHeaderLen(variant) \in {16, 24}
      /\ BodyOffset(variant) \in {4, 12}
      /\ PacketHeaderLen(variant) = 12 + BodyOffset(variant)
  BY DEF PacketHeaderLen, BodyOffset, LenOffset
<1>2. packets \in Seq(Storage)
  BY DEF TypeOK
<1>3. CASE packets = <<>>
  BY <1>1, <1>3 DEF End, FileHeaderLen
<1>4. CASE packets # <<>>
  <2>1. packets[Len(packets)] \in Storage
    BY <1>2, <1>4, EmptySeq, ElementOfSeq
  <2> QED
    BY <1>1, <1>4, <2>1 DEF End, Storage
<1> QED
  BY <1>3, <1>4

(* Nothing that leaves the index, the variant and the file's bytes alone   *)
(* disturbs the tiling, as long as the file does not shrink.               *)
LEMMA TilesKept ==
  ASSUME TypeOK, IndexTiles, UNCHANGED <<disk, packets, variant>>,
         size' \in Nat, size <= size'
  PROVE  IndexTiles' /\ End' = End
<1>1. End' = End
  BY DEF End, PacketHeaderLen, BodyOffset
<1>2. SUFFICES ASSUME NEW i \in 1..Len(packets)
               PROVE  packets[i].offset + LenOffset + 4 <= size'
  BY <1>1, <1>2 DEF IndexTiles, PacketHeaderLen, BodyOffset
<1>3. packets[i] \in Storage
  BY ElementOfSeq DEF TypeOK
<1>4. packets[i].offset + LenOffset + 4 <= size /\ size \in Nat
  BY CapturesAssumption DEF IndexTiles, TypeOK
<1> QED
  BY <1>3, <1>4 DEF LenOffset, Storage

(* An empty index tiles any file. *)
LEMMA EmptyTiles == packets = <<>> => IndexTiles
  BY DEF IndexTiles

-----------------------------------------------------------------------------
LEMMA Initially == Init => IInv
<1> SUFFICES ASSUME Init PROVE IInv
  OBVIOUS
<1>1. size \in 0..disk.limit
  BY CapturesAssumption DEF Init
<1>2. fd \in FdStates /\ fd.len = Unasked /\ fd.eof = FALSE
  BY DEF Init, FdStates, Fresh, Unasked
<1>3. header \in [HeaderFields -> Nat]
  BY DEF Init, DefaultHeader
<1>4. packets \in Seq(Storage)
  BY EmptySeq DEF Init
<1>5. TypeOK
  BY <1>1, <1>2, <1>3, <1>4 DEF Init, TypeOK, Compressions, Variants
<1>6. CachedLength
  BY <1>1, <1>2, CapturesAssumption DEF Init, CachedLength, Unasked
<1> QED
  BY <1>5, <1>6, EmptyTiles DEF Init, IInv, Phases, Position, ValidCoversFile,
       EmptyIndexOnlyIfBornEmpty

(* Before it is done the constructor has given no verdict, so the parts of *)
(* the invariant about valid objects hold after any step that gives none.  *)
LEMMA NoVerdict ==
  ASSUME Phases, pc # "done", valid' = valid
  PROVE  ~valid' /\ ValidCoversFile' /\ EmptyIndexOnlyIfBornEmpty'
  BY DEF Phases, ValidCoversFile, EmptyIndexOnlyIfBornEmpty

LEMMA SizeIsNat ==
  ASSUME TypeOK
  PROVE  size \in Nat /\ disk.limit \in Nat /\ disk.stops \subseteq 0..disk.limit
  BY CapturesAssumption DEF TypeOK

(* The file grows while the constructor does something else, or later. *)
LEMMA GrowKeeps == IInv /\ Grow => IInv'
<1> SUFFICES ASSUME IInv, Grow PROVE IInv'
  OBVIOUS
<1> USE DEF IInv
<1>1. /\ UNCHANGED <<disk, pc, fd, base, compression, variant, header,
                     swapping, packets, valid>>
      /\ size' \in 0..disk.limit /\ size' \in Nat /\ size < size'
  BY SizeIsNat DEF Grow
<1>2. TypeOK'
  BY <1>1 DEF TypeOK
<1>3. IndexTiles' /\ End' = End
  BY <1>1, SizeIsNat, TilesKept
<1>4. CachedLength'
  BY <1>1, SizeIsNat DEF CachedLength, TypeOK, FdStates, Unasked
<1>5. Position'
  BY <1>1, <1>3, SizeIsNat DEF Position, FileHeaderLen
<1>6. ValidCoversFile'
  BY <1>1, <1>3, EndIsNat, SizeIsNat DEF ValidCoversFile
<1> QED
  BY <1>1, <1>2, <1>3, <1>4, <1>5, <1>6 DEF Phases, EmptyIndexOnlyIfBornEmpty

(* The actions before the file header: nothing of it is known yet. *)
LEMMA OpeningKeeps ==
  IInv /\ (Open \/ OpenFails \/ DetectRead \/ DetectRewind \/ InflateFails) => IInv'
<1> SUFFICES ASSUME IInv,
                    Open \/ OpenFails \/ DetectRead \/ DetectRewind \/ InflateFails
             PROVE  IInv'
  OBVIOUS
<1> USE DEF IInv
<1>1. /\ pc \in {"open", "detect", "rewind", "inflate"}
      /\ UNCHANGED <<disk, size, variant, header, swapping, packets, valid>>
  BY DEF Open, OpenFails, DetectRead, DetectRewind, InflateFails
<1>2. packets = <<>> /\ packets' = <<>>
  BY <1>1 DEF Phases, Preparing
<1>3. IndexTiles'
  BY <1>2 DEF IndexTiles
<1>4. ValidCoversFile' /\ EmptyIndexOnlyIfBornEmpty' /\ ~valid'
  BY <1>1, NoVerdict
<1>5. Phases'
  BY <1>2, <1>4 DEF Phases
<1>6. fd \in FdStates /\ size \in Nat /\ base \in Nat
  BY SizeIsNat DEF TypeOK
<1>7. Fresh \in FdStates /\ Fresh.len = Unasked /\ Fresh.eof = FALSE /\ Fresh.pos = 0
  BY DEF Fresh, FdStates, Unasked
<1>8. CASE Open
  <2>1. TypeOK'
    BY <1>1, <1>8, SizeIsNat DEF Open, TypeOK
  <2>2. CachedLength' /\ Position'
    BY <1>1, <1>6, <1>7, <1>8 DEF Open, CachedLength, Position, Unasked
  <2> QED
    BY <1>3, <1>4, <1>5, <2>1, <2>2
<1>9. CASE OpenFails
  <2>1. TypeOK'
    BY <1>1, <1>9 DEF OpenFails, TypeOK, Compressions
  <2>2. CachedLength' /\ Position'
    BY <1>1, <1>9 DEF OpenFails, CachedLength, Position
  <2> QED
    BY <1>3, <1>4, <1>5, <2>1, <2>2
<1>10. CASE DetectRead
  <2> DEFINE read == ReadBytes(fd, size, 2)
  <2>a. read \in FdStates /\ read.len = fd.len
    BY <1>6, ReadFacts
  <2>b. fd' = read \/ fd' = fd
    BY <1>10 DEF DetectRead
  <2>1. fd' \in FdStates /\ fd'.len = fd.len /\ fd = Fresh
    BY <1>6, <1>10, <2>a, <2>b DEF DetectRead, Position
  <2>2. TypeOK'
    BY <1>1, <1>10, <2>1 DEF DetectRead, TypeOK, Compressions
  <2>3. CachedLength' /\ Position'
    BY <1>1, <1>6, <1>7, <1>10, <2>1 DEF DetectRead, CachedLength, Position, Unasked
  <2> QED
    BY <1>3, <1>4, <1>5, <2>2, <2>3
<1>11. CASE DetectRewind
  <2> DEFINE head == SeekTo(fd, size, 0)
  <2>a. /\ head \in FdStates /\ head.pos = 0 /\ (head.eof <=> 0 = head.len)
        /\ head.len = IF fd.len = Unasked THEN size ELSE fd.len
    BY <1>6, SeekToFacts
  <2>b. /\ fd' = head /\ fd.len = Unasked
        /\ \/ pc' = "inflate" /\ base' = base
           \/ pc' = "magic" /\ base' = size
    BY <1>11 DEF DetectRewind, Position
  <2> HIDE DEF head
  <2>1. /\ fd' \in FdStates /\ fd'.len = size /\ fd'.pos = 0
        /\ (fd'.eof <=> 0 = fd'.len)
    BY <2>a, <2>b
  <2>2. TypeOK'
    BY <1>1, <1>6, <1>11, <2>1 DEF DetectRewind, TypeOK
  <2>3. CachedLength'
    BY <1>1, <1>6, <2>b, <2>1 DEF CachedLength
  <2>4. Position'
    BY <1>1, <2>b, <2>1 DEF Position
  <2> QED
    BY <1>3, <1>4, <1>5, <2>2, <2>3, <2>4
<1>12. CASE InflateFails
  <2>1. TypeOK'
    BY <1>1, <1>7, <1>12 DEF InflateFails, TypeOK
  <2>2. CachedLength' /\ Position'
    BY <1>1, <1>6, <1>7, <1>12 DEF InflateFails, CachedLength, Position, Unasked
  <2> QED
    BY <1>3, <1>4, <1>5, <2>1, <2>2
<1> QED
  BY <1>8, <1>9, <1>10, <1>11, <1>12

(* The private copy: its length is known and cached when it is rewound. *)
LEMMA InflateKeeps == IInv /\ Inflate => IInv'
<1> SUFFICES ASSUME IInv, Inflate PROVE IInv'
  OBVIOUS
<1> USE DEF IInv
<1>1. /\ pc = "inflate" /\ pc' = "magic" /\ packets = <<>>
      /\ UNCHANGED <<disk, compression, variant, header, swapping, packets, valid>>
  BY DEF Inflate, Phases, Preparing
<1>2. PICK n \in InflatedSizes :
        /\ size' = n /\ base' = n
        /\ fd' = SeekTo([Fresh EXCEPT !.pos = n], n, 0)
  BY DEF Inflate
<1>3. n \in 0..disk.limit
  BY SizeIsNat DEF InflatedSizes, TypeOK
<1>n. n \in Nat
  BY <1>3, SizeIsNat
<1>5. /\ fd' \in FdStates /\ fd'.pos = 0 /\ fd'.len = n
      /\ (fd'.eof <=> 0 = fd'.len)
  BY <1>2, <1>n DEF SeekTo, LengthOf, Fresh, FdStates, Unasked
<1>6. TypeOK'
  BY <1>1, <1>2, <1>3, <1>n, <1>5 DEF TypeOK
<1>7. CachedLength' /\ Position'
  BY <1>1, <1>2, <1>n, <1>5 DEF CachedLength, Position
<1>8. IndexTiles'
  BY <1>1 DEF IndexTiles
<1>9. Phases' /\ ValidCoversFile' /\ EmptyIndexOnlyIfBornEmpty'
  BY <1>1, NoVerdict DEF Phases
<1> QED
  BY <1>6, <1>7, <1>8, <1>9

(* A read or a whole phase that fails: the constructor returns.  Only the  *)
(* descriptor changed, and it no longer matters.                           *)
LEMMA GivingUpKeeps ==
  ASSUME IInv, GiveUp, pc # "done", fd' \in FdStates, fd'.len = fd.len
  PROVE  IInv'
<1> USE DEF IInv
<1>1. /\ pc' = "done"
      /\ UNCHANGED <<disk, size, base, compression, variant, header, swapping,
                     packets, valid>>
  BY DEF GiveUp
<1>2. TypeOK'
  BY <1>1 DEF TypeOK
<1>3. CachedLength' /\ Position'
  BY <1>1 DEF CachedLength, Position
<1>4. IndexTiles'
  BY <1>1, TilesKept, SizeIsNat
<1>5. Phases' /\ ValidCoversFile' /\ EmptyIndexOnlyIfBornEmpty'
  BY <1>1, NoVerdict DEF Phases, Preparing
<1> QED
  BY <1>2, <1>3, <1>4, <1>5

LEMMA FailuresKeep == IInv /\ (ReadFails \/ VersionMissing) => IInv'
<1> SUFFICES ASSUME IInv, ReadFails \/ VersionMissing PROVE IInv'
  OBVIOUS
<1> USE DEF IInv
<1> DEFINE word == ReadBytes(fd, size, 4)
           half == ReadBytes(fd, size, 2)
           both == ReadBytes(half, size, 2)
<1>1. fd \in FdStates /\ size \in Nat
  BY SizeIsNat DEF TypeOK
<1>2. word \in FdStates /\ word.len = fd.len
  BY <1>1, ReadFacts
<1>3. half \in FdStates /\ half.len = fd.len
  BY <1>1, ReadFacts
<1>4. both \in FdStates /\ both.len = half.len
  BY <1>1, <1>3, ReadFacts
<1>5. GiveUp /\ pc # "done" /\ fd' \in {fd, word, half, both}
  BY DEF ReadFails, VersionMissing, Missed
<1> QED
  BY <1>1, <1>2, <1>3, <1>4, <1>5, GivingUpKeeps

-----------------------------------------------------------------------------
(* The reads of the file header. *)
LEMMA HeaderKeeps == IInv /\ (ReadMagic \/ ReadVersion \/ ReadNumber) => IInv'
<1> SUFFICES ASSUME IInv, ReadMagic \/ ReadVersion \/ ReadNumber PROVE IInv'
  OBVIOUS
<1> USE DEF IInv
<1>1. fd \in FdStates /\ size \in Nat /\ fd.pos \in Nat /\ fd.len \in Int
  BY SizeIsNat DEF TypeOK, FdStates, Unasked
<1>2. /\ pc \in {"magic", "version", "numbers"}
      /\ pc' \in {"version", "numbers", "scan", "done"}
      /\ packets = <<>> /\ packets' = <<>>
      /\ UNCHANGED <<disk, size, base, compression, packets, valid>>
  BY DEF ReadMagic, ReadVersion, ReadNumber, Phases, Preparing
<1>3. IndexTiles' /\ ValidCoversFile' /\ EmptyIndexOnlyIfBornEmpty' /\ Phases'
  BY <1>2, NoVerdict DEF IndexTiles, Phases, Preparing
<1>4. End' = FileHeaderLen
  BY <1>2 DEF End
<1> DEFINE word == ReadBytes(fd, size, 4)
<1>5. /\ word \in FdStates /\ word.len = fd.len
      /\ Complete(fd, size, 4) =>
           fd.pos + 4 <= size /\ word.pos = fd.pos + 4 /\ word.eof = fd.eof
  BY <1>1, ReadFacts
<1> HIDE DEF word
<1>6. CASE ReadMagic
  <2>1. /\ fd' = word /\ Complete(fd, size, 4) /\ pc = "magic"
        /\ pc' \in {"version", "done"} /\ header' = header
    BY <1>6 DEF ReadMagic, Got, word
  <2>2. variant' \in Variants /\ swapping' \in BOOLEAN
    BY <1>6, CapturesAssumption DEF ReadMagic, TypeOK, Magic
  <2>3. TypeOK'
    BY <1>2, <1>5, <2>1, <2>2 DEF TypeOK
  <2>4. CachedLength' /\ Position'
    BY <1>1, <1>2, <1>5, <2>1 DEF CachedLength, Position
  <2> QED
    BY <1>3, <2>3, <2>4
<1>7. CASE ReadVersion
  <2> DEFINE half == ReadBytes(fd, size, 2)
             both == ReadBytes(half, size, 2)
  <2>1. /\ half \in FdStates /\ half.len = fd.len
        /\ Complete(fd, size, 2) =>
             fd.pos + 2 <= size /\ half.pos = fd.pos + 2 /\ half.eof = fd.eof
    BY <1>1, ReadFacts
  <2> HIDE DEF half
  <2>2. /\ both \in FdStates /\ both.len = half.len
        /\ Complete(half, size, 2) =>
             half.pos + 2 <= size /\ both.pos = half.pos + 2 /\ both.eof = half.eof
    BY <1>1, <2>1, ReadFacts
  <2> HIDE DEF both
  <2>3. /\ pc = "version" /\ pc' = "numbers" /\ fd' = both
        /\ Complete(fd, size, 2) /\ Complete(half, size, 2)
        /\ UNCHANGED <<variant, swapping>>
    BY <1>7 DEF ReadVersion, half, both
  <2>4. header' \in [HeaderFields -> Nat]
    <3>1. fd.pos = 4
      BY <2>3 DEF Position
    <3>2. 8 <= size
      BY <1>1, <2>1, <2>2, <2>3, <3>1
    <3>3. disk.word[4] \in Nat /\ disk.word[6] \in Nat
      <4>1. 4 < size /\ 6 < size
        BY <1>1, <3>2
      <4> QED
        BY <4>1, WordIsNat
    <3>4. Swap16(disk.word[4]) \in Nat /\ Swap16(disk.word[6]) \in Nat
      BY <3>3, StoredIsNat DEF HeaderFields
    <3> QED
      BY <1>7, <3>3, <3>4 DEF ReadVersion, TypeOK
  <2>5. TypeOK'
    BY <1>2, <2>2, <2>3, <2>4 DEF TypeOK
  <2>6. CachedLength' /\ Position'
    BY <1>1, <1>2, <2>1, <2>2, <2>3 DEF CachedLength, Position
  <2> QED
    BY <1>3, <2>5, <2>6
<1>8. CASE ReadNumber
  <2>1. /\ fd' = word /\ Complete(fd, size, 4) /\ pc = "numbers"
        /\ pc' = IF fd.pos = 20 THEN "scan" ELSE "numbers"
        /\ UNCHANGED <<variant, swapping>>
    BY <1>8 DEF ReadNumber, Got, word
  <2>2. fd.pos \in {8, 12, 16, 20}
    BY <2>1 DEF Position
  <2>3. header' \in [HeaderFields -> Nat]
    <3>1. fd.pos < size
      BY <1>1, <1>5, <2>1
    <3>a. disk.word[fd.pos] \in Nat
      BY <1>1, <3>1, WordIsNat
    <3>2. NumberAt[fd.pos] \in HeaderFields
      BY <2>2 DEF NumberAt, HeaderFields
    <3>3. Stored(NumberAt[fd.pos], disk.word[fd.pos]) \in Nat
      BY <3>a, <3>2, StoredIsNat
    <3> QED
      BY <1>8, <3>2, <3>3 DEF ReadNumber, TypeOK
  <2>4. TypeOK'
    BY <1>2, <1>5, <2>1, <2>3 DEF TypeOK
  <2>5. CachedLength'
    BY <1>1, <1>2, <1>5, <2>1 DEF CachedLength
  <2>6. Position'
    BY <1>1, <1>2, <1>4, <1>5, <2>1, <2>2 DEF Position, FileHeaderLen
  <2> QED
    BY <1>3, <2>4, <2>5, <2>6
<1> QED
  BY <1>6, <1>7, <1>8

-----------------------------------------------------------------------------
(* A packet added at End keeps the tiling, and End moves past it. *)
LEMMA AppendTiles ==
  ASSUME TypeOK, IndexTiles, NEW n \in Nat,
         End + LenOffset + 4 <= size, n = disk.word[End + LenOffset],
         packets' = Append(packets, [len |-> n, offset |-> End]),
         UNCHANGED <<disk, size, variant>>
  PROVE  /\ packets' \in Seq(Storage) /\ packets' # <<>>
         /\ IndexTiles'
         /\ End' = End + PacketHeaderLen(variant) + n
<1> DEFINE new == [len |-> n, offset |-> End]
           last == Len(packets) + 1
<1>1. packets \in Seq(Storage) /\ Len(packets) \in Nat
  BY LenProperties DEF TypeOK
<1>2. new \in Storage /\ new.len = n /\ new.offset = End
  BY EndIsNat DEF Storage
<1> HIDE DEF new
<1>3. /\ packets' \in Seq(Storage) /\ packets' # <<>>
      /\ Len(packets') = last
      /\ \A i \in 1..Len(packets) : packets'[i] = packets[i]
      /\ packets'[last] = new
  BY <1>1, <1>2, AppendProperties DEF new
<1>4. PacketHeaderLen(variant)' = PacketHeaderLen(variant)
  BY DEF PacketHeaderLen, BodyOffset
<1>5. End' = End + PacketHeaderLen(variant) + n
  BY <1>2, <1>3, <1>4, EndIsNat DEF End
<1>6. End = IF last = 1
            THEN FileHeaderLen
            ELSE packets[last-1].offset + PacketHeaderLen(variant) + packets[last-1].len
  BY <1>1, EmptySeq DEF End
<1>7. ASSUME NEW i \in 1..Len(packets')
      PROVE  /\ packets'[i].offset =
                  IF i = 1 THEN FileHeaderLen
                  ELSE packets'[i-1].offset + PacketHeaderLen(variant) + packets'[i-1].len
             /\ packets'[i].offset + LenOffset + 4 <= size
             /\ packets'[i].len = disk.word[packets'[i].offset + LenOffset]
  <2>1. i # 1 => packets'[i-1] = packets[i-1]
    BY <1>1, <1>3
  <2>2. CASE i = last
    BY <1>2, <1>3, <1>6, <2>1, <2>2
  <2>3. CASE i # last
    <3>1. i \in 1..Len(packets) /\ packets'[i] = packets[i]
      BY <1>1, <1>3, <2>3
    <3> QED
      BY <2>1, <3>1 DEF IndexTiles
  <2> QED
    BY <2>2, <2>3
<1> QED
  BY <1>3, <1>4, <1>5, <1>7 DEF IndexTiles

(* Where a seek from the descriptor's offset leads during the scan. *)
LEMMA SeekByFacts ==
  ASSUME NEW f \in FdStates, NEW d \in Nat, size \in Nat, CachedLength,
         base \in Nat, f.len = fd.len
  PROVE  /\ SeekBy(f, size, d) \in FdStates
         /\ SeekBy(f, size, d).pos = f.pos + d
         /\ SeekBy(f, size, d).eof <=>
              SeekBy(f, size, d).pos = SeekBy(f, size, d).len
         /\ base <= SeekBy(f, size, d).len /\ SeekBy(f, size, d).len <= size
<1> DEFINE t == f.pos + d
           g == SeekTo(f, size, t)
<1>1. t \in Nat /\ f.len \in Nat \cup {Unasked}
  BY DEF FdStates
<1> HIDE DEF t
<1>2. /\ g \in FdStates /\ g.pos = t
      /\ g.len = (IF f.len = Unasked THEN size ELSE f.len)
      /\ (g.eof <=> t = g.len)
  BY <1>1 DEF SeekTo, LengthOf, FdStates, Unasked
<1>3. base <= g.len /\ g.len <= size
  BY <1>1, <1>2 DEF CachedLength, Unasked
<1> QED
  BY <1>2, <1>3 DEF SeekBy, t

LEMMA ScanKeeps == IInv /\ (SkipTimestamp \/ TakePacket \/ Finish) => IInv'
<1> SUFFICES ASSUME IInv, SkipTimestamp \/ TakePacket \/ Finish PROVE IInv'
  OBVIOUS
<1> USE DEF IInv
<1>1. /\ fd \in FdStates /\ fd.pos \in Nat /\ fd.len \in Int
      /\ size \in Nat /\ base \in Nat
  BY SizeIsNat DEF TypeOK, FdStates, Unasked
<1>2. UNCHANGED <<disk, size, base, compression, variant, header, swapping>>
  BY DEF SkipTimestamp, TakePacket, Finish
<1>3. CASE SkipTimestamp
  <2>1. /\ pc = "scan" /\ pc' = "length" /\ ~fd.eof
        /\ fd' = SeekBy(fd, size, LenOffset) /\ UNCHANGED <<packets, valid>>
    BY <1>3 DEF SkipTimestamp
  <2>2. /\ fd' \in FdStates /\ fd'.pos = End + LenOffset /\ FileHeaderLen <= size
        /\ base <= fd'.len /\ fd'.len <= size
    BY <1>1, <2>1, SeekByFacts DEF Position, LenOffset
  <2>3. TypeOK'
    BY <1>2, <2>1, <2>2 DEF TypeOK
  <2>4. IndexTiles' /\ End' = End
    BY <1>1, <1>2, <2>1, TilesKept
  <2>5. CachedLength' /\ Position'
    BY <1>1, <1>2, <2>1, <2>2, <2>4 DEF CachedLength, Position
  <2> QED
    BY <2>1, <2>3, <2>4, <2>5, NoVerdict DEF Phases, Preparing
<1>4. CASE TakePacket
  <2> DEFINE len    == disk.word[fd.pos]
             passed == ReadBytes(fd, size, 4)
             next   == SeekBy(passed, size, len + BodyOffset(variant))
  <2>1. /\ pc = "length" /\ pc' = "scan" /\ Complete(fd, size, 4)
        /\ packets' = Append(packets, [len |-> len, offset |-> fd.pos - LenOffset])
        /\ fd' = next /\ valid' = valid
    BY <1>4 DEF TakePacket
  <2>2. fd.pos = End + LenOffset /\ FileHeaderLen <= size
    BY <2>1 DEF Position
  <2>a. /\ passed \in FdStates /\ passed.len = fd.len
        /\ Complete(fd, size, 4) =>
             fd.pos + 4 <= size /\ passed.pos = fd.pos + 4 /\ passed.eof = fd.eof
    BY <1>1, ReadFacts
  <2>3. passed \in FdStates /\ passed.len = fd.len /\ passed.pos = fd.pos + 4
        /\ fd.pos + 4 <= size
    BY <2>1, <2>a
  <2>4. len \in Nat
    BY <1>1, <2>3, WordIsNat
  <2> HIDE DEF passed, len
  <2>5. fd.pos - LenOffset = End /\ End \in Nat
    BY <2>2, EndIsNat DEF LenOffset
  <2>6. /\ packets' \in Seq(Storage) /\ packets' # <<>>
        /\ IndexTiles'
        /\ End' = End + PacketHeaderLen(variant) + len
    <3>1. packets' = Append(packets, [len |-> len, offset |-> End])
      BY <2>1, <2>5
    <3>2. End + LenOffset + 4 <= size /\ len = disk.word[End + LenOffset]
      BY <2>2, <2>3 DEF len
    <3> QED
      BY <1>2, <2>4, <3>1, <3>2, AppendTiles
  <2>7. len + BodyOffset(variant) \in Nat
    BY <2>4, EndIsNat
  <2>8. /\ fd' \in FdStates
        /\ fd'.pos = passed.pos + (len + BodyOffset(variant))
        /\ (fd'.eof <=> fd'.pos = fd'.len)
        /\ base <= fd'.len /\ fd'.len <= size
    BY <1>1, <2>1, <2>3, <2>7, SeekByFacts
  <2>9. fd'.pos = End'
    BY <2>2, <2>3, <2>4, <2>5, <2>6, <2>8, EndIsNat DEF LenOffset
  <2>10. TypeOK'
    BY <1>2, <2>1, <2>6, <2>8 DEF TypeOK
  <2>11. CachedLength' /\ Position'
    BY <1>1, <1>2, <2>1, <2>2, <2>6, <2>8, <2>9 DEF CachedLength, Position
  <2> QED
    BY <2>1, <2>6, <2>10, <2>11, NoVerdict DEF Phases, Preparing
<1>5. CASE Finish
  <2>1. /\ pc = "scan" /\ pc' = "done" /\ fd.eof /\ valid' = TRUE
        /\ UNCHANGED <<fd, packets>>
    BY <1>5 DEF Finish
  <2>2. IndexTiles' /\ End' = End
    BY <1>1, <1>2, <2>1, TilesKept
  <2>3. /\ fd.pos = End /\ FileHeaderLen <= size
        /\ IF packets = <<>> THEN fd.len = 0 ELSE fd.pos = fd.len
    BY <2>1 DEF Position
  <2>4. base <= fd.len /\ fd.len <= size
    BY <1>1, <2>3 DEF CachedLength, Unasked
  <2>5. base <= End /\ End <= size
    <3>1. CASE packets = <<>>
      BY <1>1, <2>3, <2>4, <3>1 DEF End, FileHeaderLen
    <3>2. CASE packets # <<>>
      BY <1>1, <2>3, <2>4, <3>2
    <3> QED
      BY <3>1, <3>2
  <2>6. ValidCoversFile'
    BY <1>2, <2>2, <2>5 DEF ValidCoversFile
  <2>7. EmptyIndexOnlyIfBornEmpty'
    BY <1>1, <1>2, <2>1, <2>3, <2>4 DEF EmptyIndexOnlyIfBornEmpty
  <2>8. TypeOK'
    BY <1>2, <2>1 DEF TypeOK
  <2>9. CachedLength' /\ Position' /\ Phases'
    BY <1>2, <2>1 DEF CachedLength, Position, Phases, Preparing
  <2> QED
    BY <2>2, <2>6, <2>7, <2>8, <2>9
<1> QED
  BY <1>3, <1>4, <1>5

-----------------------------------------------------------------------------
LEMMA Inductive == IInv /\ [Next]_vars => IInv'
<1>1. IInv /\ Next => IInv'
  BY GrowKeeps, OpeningKeeps, InflateKeeps, HeaderKeeps, FailuresKeep, ScanKeeps
     DEF Next, Construct
<1>2. IInv /\ UNCHANGED vars => IInv'
  <2> SUFFICES ASSUME IInv, UNCHANGED vars PROVE IInv'
    OBVIOUS
  <2>1. UNCHANGED <<disk, size, pc, fd, base, compression, variant, header,
                    swapping, packets, valid>>
    BY DEF vars
  <2>2. IndexTiles' /\ End' = End
    BY <2>1, TilesKept, SizeIsNat DEF IInv
  <2> QED
    BY <2>1, <2>2 DEF IInv, TypeOK, Phases, CachedLength, Position,
         ValidCoversFile, EmptyIndexOnlyIfBornEmpty
<1> QED
  BY <1>1, <1>2

LEMMA Always == Spec => []IInv
  BY Initially, Inductive, PTL DEF Spec

(* The constructor's variables keep their types: no offset leaves the      *)
(* naturals, and a length read is one stored in the file.                  *)
THEOREM TypeCorrect == Spec => []TypeOK
<1>1. IInv => TypeOK
  BY DEF IInv
<1> QED
  BY <1>1, Always, PTL

(* Whatever the file holds and however it grows, the index tiles it: no    *)
(* packet is skipped, repeated or overlapping (ingest_packets()).          *)
THEOREM TilingCorrect == Spec => []IndexTiles
<1>1. IInv => IndexTiles
  BY DEF IInv
<1> QED
  BY <1>1, Always, PTL

(* The end of file ingest_packets() recognises by the cached length is a   *)
(* real one: an object is never valid with part of the file it was given   *)
(* left out or with a packet that reaches past its end.                    *)
THEOREM CoverageCorrect == Spec => []ValidCoversFile
<1>1. IInv => ValidCoversFile
  BY DEF IInv
<1> QED
  BY <1>1, Always, PTL

(* A valid object with no packets means a file that was empty when opened: *)
(* the sticky eof flag of the rewind is the only way past the loop.        *)
THEOREM EmptyIndexCorrect == Spec => []EmptyIndexOnlyIfBornEmpty
<1>1. IInv => EmptyIndexOnlyIfBornEmpty
  BY DEF IInv
<1> QED
  BY <1>1, Always, PTL

-----------------------------------------------------------------------------
(* Every step of the constructor is a step of PacketScan or none of it. *)
LEMMA StepSimulation == IInv /\ IInv' /\ [Next]_vars => [Scan!Next]_(Scan!avars)
<1> SUFFICES ASSUME IInv, IInv', [Next]_vars PROVE [Scan!Next]_(Scan!avars)
  OBVIOUS
<1> USE DEF IInv
<1>1. /\ size \in Nat /\ base \in Nat /\ fd.pos \in Nat /\ fd \in FdStates
  BY SizeIsNat DEF TypeOK, FdStates
<1>2. Scan!End = End
  BY DEF Scan!End, End, Scan!FileHeaderLen, FileHeaderLen
<1>3. valid \in BOOLEAN /\ (valid => pc = "done")
  BY DEF TypeOK, Phases
<1>4. CASE UNCHANGED vars
  BY <1>4 DEF vars, Scan!avars, Verdict, PacketHeaderLen, BodyOffset
<1>5. CASE Grow
  <2>1. Scan!Grow
    <3>1. size <= size'
      BY <1>1, <1>5, SizeIsNat DEF Grow
    <3> QED
      BY <1>5, <3>1 DEF Grow, Scan!Grow, Verdict, PacketHeaderLen, BodyOffset
  <2> QED
    BY <2>1 DEF Scan!Next
<1>6. ASSUME pc \in Preparing, pc' \in Preparing \cup {"scan", "done"}, ~valid',
             UNCHANGED <<disk, packets>>
      PROVE  Scan!Prepare
  <2>1. Verdict = "opening"
    BY <1>6 DEF Verdict, Preparing
  <2>2. Verdict' \in {"opening", "scanning", "invalid"}
    BY <1>6 DEF Verdict, Preparing
  <2>3. base' <= size'
    BY DEF CachedLength
  <2>4. Verdict' = "scanning" => Scan!FileHeaderLen <= size'
    <3>1. Verdict' = "scanning" => pc' = "scan"
      BY <1>6 DEF Verdict, Preparing
    <3> QED
      BY <3>1 DEF Position, FileHeaderLen, Scan!FileHeaderLen
  <2> QED
    BY <1>6, <2>1, <2>2, <2>3, <2>4 DEF Scan!Prepare
<1>7. CASE Open \/ OpenFails \/ DetectRead \/ DetectRewind \/ Inflate \/ InflateFails
             \/ ReadMagic \/ ReadVersion \/ VersionMissing \/ ReadNumber
  <2>1. /\ pc \in Preparing /\ pc' \in Preparing \cup {"scan", "done"}
        /\ UNCHANGED <<disk, packets, valid>>
    BY <1>7 DEF Open, OpenFails, DetectRead, DetectRewind, Inflate, InflateFails,
         ReadMagic, ReadVersion, VersionMissing, ReadNumber, GiveUp, Preparing
  <2>2. ~valid'
    BY <1>3, <2>1 DEF Preparing
  <2> QED
    BY <1>6, <2>1, <2>2 DEF Scan!Next
<1>8. CASE ReadFails
  <2>1. /\ pc \in {"magic", "numbers", "length"} /\ pc' = "done" /\ ~valid /\ ~valid'
        /\ UNCHANGED <<disk, size, base, variant, packets, valid>>
    BY <1>3, <1>8 DEF ReadFails, GiveUp
  <2>2. CASE pc = "length"
    BY <2>1, <2>2 DEF Scan!Next, Scan!Reject, Verdict, PacketHeaderLen, BodyOffset
  <2>3. CASE pc # "length"
    BY <1>6, <2>1, <2>3 DEF Scan!Next, Preparing
  <2> QED
    BY <2>2, <2>3
<1>9. CASE SkipTimestamp
  BY <1>9 DEF SkipTimestamp, Scan!avars, Verdict, PacketHeaderLen, BodyOffset
<1>10. CASE TakePacket
  <2>1. /\ pc = "length" /\ pc' = "scan" /\ Complete(fd, size, 4)
        /\ packets' = Append(packets, [len    |-> disk.word[fd.pos],
                                       offset |-> fd.pos - LenOffset])
        /\ UNCHANGED <<disk, size, base, variant>>
    BY <1>10 DEF TakePacket
  <2>2. fd.pos = End + 8 /\ End \in Nat /\ fd.pos - LenOffset = End
    BY <2>1, EndIsNat DEF Position, LenOffset
  <2>3. Complete(fd, size, 4) => fd.pos + 4 <= size
    BY <1>1, ReadFacts
  <2>4. End + 12 <= size
    BY <1>1, <2>1, <2>2, <2>3
  <2>5. Scan!Take
    BY <1>2, <2>1, <2>2, <2>4 DEF Scan!Take, Verdict, PacketHeaderLen, BodyOffset
  <2> QED
    BY <2>5 DEF Scan!Next
<1>11. CASE Finish
  <2>1. /\ pc = "scan" /\ pc' = "done" /\ valid'
        /\ UNCHANGED <<disk, size, base, variant, packets>>
    BY <1>11 DEF Finish
  <2>2. base <= End /\ End <= size
    <3>1. End' = End
      BY <2>1 DEF End, PacketHeaderLen, BodyOffset
    <3> QED
      BY <2>1, <3>1 DEF ValidCoversFile
  <2>3. Scan!Accept
    BY <1>1, <1>2, <2>1, <2>2, EndIsNat DEF Scan!Accept, Verdict, PacketHeaderLen, BodyOffset
  <2> QED
    BY <2>3 DEF Scan!Next
<1> QED
  BY <1>4, <1>5, <1>7, <1>8, <1>9, <1>10, <1>11 DEF Next, Construct

(* The constructor implements the abstract scan of PacketScan.tla: for     *)
(* every set of captures, growing or not, with or without I/O errors.      *)
THEOREM Refinement == Spec => ScanSpec
<1>1. Init => Scan!Init
  BY DEF Init, Scan!Init, Verdict
<1> QED
  BY <1>1, StepSimulation, Always, PTL DEF Spec, ScanSpec, Scan!Spec
-----------------------------------------------------------------------------
(* Where the packets of a capture end, as its writer means it: after one   *)
(* another, each with its header and data.                                 *)
LEMMA EndOfFacts ==
  ASSUME NEW c \in Captures
  PROVE  /\ Len(c.written) \in Nat
         /\ EndOf(c)[0] = FileHeaderLen
         /\ \A k \in 1..Len(c.written) :
              /\ c.written[k] \in Nat
              /\ EndOf(c)[k] = EndOf(c)[k-1] + (PacketHeaderLen(c.magic.variant) + c.written[k])
         /\ \A k \in 0..Len(c.written) : EndOf(c)[k] \in Nat
         /\ \A j, k \in 0..Len(c.written) : j < k => EndOf(c)[j] + 16 <= EndOf(c)[k]
<1> DEFINE m == Len(c.written)
           step(k) == PacketHeaderLen(c.magic.variant) + c.written[k]
           a == [k \in 1..m |-> step(k)]
           Ends(f) == f = [k \in 0..m |-> IF k = 0 THEN FileHeaderLen ELSE f[k-1] + step(k)]
           e == EndOf(c)
<1>1. m \in Nat /\ \A k \in 1..m : c.written[k] \in Nat
  <2>1. c.written \in Seq(Nat)
    BY CapturesAssumption
  <2> QED
    BY <2>1, LenProperties, ElementOfSeq
<1>2. PacketHeaderLen(c.magic.variant) \in {16, 24}
  BY DEF PacketHeaderLen, LenOffset, BodyOffset
<1>3. EndOf(c) = CHOOSE f : Ends(f)
  BY DEF EndOf
<1> HIDE DEF step
<1>4. \E f : Ends(f)
  <2>1. \A k \in 0..m : k # 0 => a[k] = step(k)
    BY <1>1
  <2> HIDE DEF a, m
  <2> DEFINE g == RunningSum(FileHeaderLen, a, m)
  <2>2. g[0] = FileHeaderLen /\ \A k \in 1..m : g[k] = g[k-1] + a[k]
    BY <1>1, RunningSumExists DEF IsRunningSum
  <2> HIDE DEF g
  <2> DEFINE f == [k \in 0..m |-> g[k]]
  <2>3. \A k \in 0..m : f[k] = IF k = 0 THEN FileHeaderLen ELSE f[k-1] + step(k)
    <3>1. \A k \in 0..m : k # 0 => k - 1 \in 0..m /\ k \in 1..m
      BY <1>1
    <3> QED
      BY <2>1, <2>2, <3>1
  <2>4. f = [k \in 0..m |-> f[k]]
    OBVIOUS
  <2> HIDE DEF f
  <2>5. Ends(f)
    BY <2>3, <2>4
  <2> HIDE DEF Ends
  <2> QED
    BY <2>5
<1>5. Ends(e)
  BY <1>3, <1>4
<1> HIDE DEF e
<1>6. /\ e[0] = FileHeaderLen
      /\ \A k \in 1..m : e[k] = e[k-1] + step(k)
  BY <1>1, <1>5
<1>7. \A k \in 1..m : a[k] = step(k) /\ step(k) \in Nat /\ 16 <= step(k)
  BY <1>1, <1>2 DEF step
<1> HIDE DEF a
<1>8. /\ \A k \in 0..m : e[k] \in Nat
      /\ \A j, k \in 0..m : j < k => e[j] + 16 <= e[k]
  <2>1. e[0] \in Nat
    BY <1>6 DEF FileHeaderLen
  <2>2. \A k \in 1..m : a[k] \in Nat /\ 16 <= a[k] /\ e[k] = e[k-1] + a[k]
    BY <1>6, <1>7
  <2> HIDE DEF m
  <2> QED
    BY <1>1, <2>1, <2>2, RunningSumRises
<1> QED
  BY <1>1, <1>6, <1>8 DEF e, step

-----------------------------------------------------------------------------
(* The byte-swapping macros undo themselves on the values that fit: with b *)
(* values of a byte, on those below b*b ...                                *)
LEMMA HalvesExchanged ==
  ASSUME NEW b \in Nat \ {0},
         \A v : Swap16(v) = (v % b) * b + ((v \div b) % b),
         NEW w \in 0..b*b-1
  PROVE  Swap16(w) \in 0..b*b-1 /\ Swap16(Swap16(w)) = w
<1>1. PICK hi \in 0..b-1, lo \in 0..b-1 :
        w % b = lo /\ w \div b = hi /\ w = hi * b + lo
  BY ItsDigits
<1> DEFINE s == lo * b + hi
<1>2. s \in 0..b*b-1 /\ s % b = hi /\ s \div b = lo /\ hi % b = hi /\ lo % b = lo
  BY TwoDigits
<1>3. Swap16(w) = s
  BY <1>1, <1>2
<1> HIDE DEF s
<1>4. Swap16(s) = hi * b + lo
  BY <1>2
<1> QED
  BY <1>1, <1>2, <1>3, <1>4

(* ... and, with d values of two bytes, on those below d*d. *)
LEMMA WordsExchanged ==
  ASSUME NEW b \in Nat \ {0}, NEW d \in Nat, d = b * b,
         \A v : Swap16(v) = (v % b) * b + ((v \div b) % b),
         \A v : Swap32(v) = Swap16(v % d) * d + Swap16(v \div d),
         NEW w \in Nat, w \div d < d
  PROVE  Swap32(Swap32(w)) = w
<1>1. d \in Nat \ {0}
  OBVIOUS
<1>2. PICK hi \in 0..d-1, lo \in 0..d-1 :
        w % d = lo /\ w \div d = hi /\ w = hi * d + lo
  BY <1>1, ItsHalves, Zenon
<1>3. PICK x \in 0..d-1, y \in 0..d-1 :
        Swap16(lo) = x /\ Swap16(x) = lo /\ Swap16(hi) = y /\ Swap16(y) = hi
  <2>1. \A v \in 0..d-1 : Swap16(v) \in 0..d-1 /\ Swap16(Swap16(v)) = v
    BY HalvesExchanged
  <2> QED
    BY <2>1
<1> DEFINE s == x * d + y
<1>4. Swap32(w) = s
  BY <1>2, <1>3
<1>5. s % d = y /\ s \div d = x
  BY <1>1, TwoDigits
<1> HIDE DEF s
<1>6. Swap32(s) = hi * d + lo
  BY <1>3, <1>5
<1> QED
  BY <1>2, <1>4, <1>6

LEMMA SwapsTwice ==
  /\ \A w \in Nat : w < 65536 => Swap16(w) \in Nat /\ Swap16(Swap16(w)) = w
  /\ \A w \in Nat : w \div 65536 < 65536 => Swap32(Swap32(w)) = w
<1> DEFINE b == 256
           d == 65536
<1>1. b \in Nat \ {0} /\ d \in Nat /\ d = b * b
  OBVIOUS
<1>2. /\ \A v : Swap16(v) = (v % b) * b + ((v \div b) % b)
      /\ \A v : Swap32(v) = Swap16(v % d) * d + Swap16(v \div d)
  BY DEF Swap16, Swap32
<1> HIDE DEF b, d
<1>3. ASSUME NEW w \in Nat, w < d PROVE Swap16(w) \in Nat /\ Swap16(Swap16(w)) = w
  <2>1. w \in 0..b*b-1
    BY <1>1, <1>3
  <2>2. Swap16(w) \in 0..b*b-1 /\ Swap16(Swap16(w)) = w
    BY <1>1, <1>2, <2>1, HalvesExchanged
  <2> QED
    BY <1>1, <2>2
<1>4. ASSUME NEW w \in Nat, w \div d < d PROVE Swap32(Swap32(w)) = w
  BY <1>1, <1>2, <1>4, WordsExchanged
<1> QED
  BY <1>3, <1>4 DEF d

(* The magic gave the variant and the byte order of the file. *)
MagicKnown ==
  pc \in {"version", "numbers", "scan", "length"} \/ valid \/ packets # <<>> =>
    variant = disk.magic.variant /\ swapping = disk.magic.swapped

(* The fields of the file header before the descriptor's offset are those  *)
(* its writer meant.                                                       *)
HeaderSoFar ==
  HeaderLaid(disk) =>
    /\ pc = "numbers" =>
         /\ header["major"] = disk.numbers["major"]
         /\ header["minor"] = disk.numbers["minor"]
         /\ \A p \in {8, 12, 16, 20} :
              p < fd.pos => header[NumberAt[p]] = disk.numbers[NumberAt[p]]
    /\ pc \in {"scan", "length"} \/ valid => header = disk.numbers

(* The k-th packet of the index is the k-th the writer wrote, and where it *)
(* put it.                                                                 *)
PacketsAsWritten ==
  WellFormed(disk) =>
    /\ Len(packets) <= Len(disk.written)
    /\ \A i \in 1..Len(packets) : /\ packets[i].offset = EndOf(disk)[i-1]
                                  /\ packets[i].len = disk.written[i]

(* The length of the file is asked for by the first seek of the scan at    *)
(* the latest, and eof then says exactly whether this is the place.        *)
LengthAsked ==
  /\ pc = "length" => fd.len # Unasked
  /\ pc = "scan" /\ packets # <<>> =>
       fd.len # Unasked /\ (fd.eof <=> fd.pos = fd.len)

(* A packet that ends at the cached length is the last one the scan takes, *)
(* so a scan that goes on, or fails, has passed no such end.               *)
NoEndPassed ==
  WellFormed(disk) =>
    /\ \A j \in 1..Len(packets) :
         j < Len(packets) \/ pc = "length" => fd.len # EndOf(disk)[j]
    /\ pc = "done" /\ ~valid /\ Magic = disk.magic /\ ~IOErrors =>
         \A k \in 1..Len(disk.written) : fd.len # EndOf(disk)[k]
    /\ valid => fd.len = 0 \/ \E k \in 1..Len(disk.written) : fd.len = EndOf(disk)[k]

(* The second inductive invariant, on top of the first. *)
WInv == /\ IInv
        /\ MagicKnown
        /\ HeaderSoFar
        /\ PacketsAsWritten
        /\ LengthAsked
        /\ NoEndPassed

-----------------------------------------------------------------------------
(* What is known of the capture does not depend on the constructor. *)
LEMMA DiskStays == [Next]_vars => disk' = disk
  BY DEF Next, Construct, Grow, Open, OpenFails, DetectRead, DetectRewind, Inflate,
     InflateFails, ReadMagic, ReadVersion, VersionMissing, ReadNumber, SkipTimestamp,
     TakePacket, ReadFails, Finish, GiveUp, vars

(* A magic that is one of a capture is the one of this capture. *)
LEMMA MagicOfCapture == Magic.variant \in Variants => Magic = disk.magic
  BY DEF Magic, Variants

LEMMA MagicKnownKept == IInv /\ MagicKnown /\ [Next]_vars => MagicKnown'
<1> SUFFICES ASSUME IInv, MagicKnown, [Next]_vars PROVE MagicKnown'
  OBVIOUS
<1>1. disk' = disk
  BY DiskStays
<1>2. CASE ReadMagic
  <2>1. pc = "magic" /\ packets = <<>> /\ ~valid /\ UNCHANGED <<packets, valid>>
    BY <1>2 DEF ReadMagic, IInv, Phases, Preparing
  <2>2. CASE Magic.variant \in Variants
    BY <1>1, <1>2, <2>2, MagicOfCapture DEF ReadMagic, MagicKnown
  <2>3. CASE Magic.variant \notin Variants
    BY <1>2, <2>1, <2>3 DEF ReadMagic, MagicKnown
  <2> QED
    BY <2>2, <2>3
<1>3. CASE Open \/ OpenFails \/ DetectRead \/ DetectRewind \/ Inflate \/ InflateFails
  <2>1. /\ pc' \in {"detect", "rewind", "inflate", "magic", "done"}
        /\ packets' = <<>> /\ ~valid'
    BY <1>3 DEF Open, OpenFails, DetectRead, DetectRewind, Inflate, InflateFails,
         IInv, Phases, Preparing
  <2> QED
    BY <2>1 DEF MagicKnown
<1>4. CASE ReadFails \/ VersionMissing \/ Grow \/ UNCHANGED vars
  BY <1>1, <1>4 DEF ReadFails, VersionMissing, GiveUp, Grow, vars, MagicKnown
<1>5. CASE ReadVersion \/ ReadNumber \/ SkipTimestamp \/ TakePacket \/ Finish
  BY <1>1, <1>5 DEF ReadVersion, ReadNumber, SkipTimestamp, TakePacket, Finish, MagicKnown
<1> QED
  BY <1>2, <1>3, <1>4, <1>5 DEF Next, Construct


(* What a field of a laid-out file header becomes is what its writer meant. *)
LEMMA FieldDecoded ==
  ASSUME TypeOK, HeaderLaid(disk), swapping = disk.magic.swapped
  PROVE  /\ 8 <= size =>
              \A p \in {4, 6} :
                disk.numbers[IF p = 4 THEN "major" ELSE "minor"] =
                  IF swapping THEN Swap16(disk.word[p]) ELSE disk.word[p]
         /\ \A p \in {8, 12, 16, 20} :
              p <= size => Stored(NumberAt[p], disk.word[p]) = disk.numbers[NumberAt[p]]
<1>1. /\ size \in 0..disk.limit /\ disk.limit \in Nat /\ size \in Nat
      /\ \A f \in HeaderFields : disk.numbers[f] \in Nat
      /\ disk.magic.swapped \in BOOLEAN
  BY CapturesAssumption DEF TypeOK
<1>2. ASSUME 8 <= size, NEW p \in {4, 6}
      PROVE  disk.numbers[IF p = 4 THEN "major" ELSE "minor"] =
               IF swapping THEN Swap16(disk.word[p]) ELSE disk.word[p]
  <2> DEFINE f == IF p = 4 THEN "major" ELSE "minor"
             n == disk.numbers[f]
  <2>1. n \in Nat /\ n < 65536
    BY <1>1 DEF HeaderLaid, HeaderFields
  <2>2. p \in 0..disk.limit
    BY <1>1, <1>2
  <2>3. disk.word[p] = IF disk.magic.swapped THEN Swap16(n) ELSE n
    BY <2>2 DEF HeaderLaid
  <2>4. Swap16(Swap16(n)) = n
    BY <2>1, SwapsTwice
  <2> HIDE DEF n
  <2> QED
    BY <2>3, <2>4 DEF n
<1>3. ASSUME NEW p \in {8, 12, 16, 20}, p <= size
      PROVE  Stored(NumberAt[p], disk.word[p]) = disk.numbers[NumberAt[p]]
  <2> DEFINE f == NumberAt[p]
             n == disk.numbers[f]
  <2>1. f \in HeaderFields
    BY DEF NumberAt, HeaderFields
  <2>2. n \in Nat /\ n \div 65536 < 65536 /\ (f = "link_type" => n < 65536)
    BY <1>1, <2>1 DEF HeaderLaid
  <2>3. p \in 0..disk.limit
    BY <1>1, <1>3
  <2>4. disk.word[p] = IF disk.magic.swapped THEN Swap32(n) ELSE n
    BY <2>3 DEF HeaderLaid
  <2>5. Swap32(Swap32(n)) = n
    BY <2>2, SwapsTwice
  <2> HIDE DEF n
  <2>6. Decode(disk.word[p]) = n
    BY <2>4, <2>5 DEF Decode
  <2>7. f = "link_type" => n % 65536 = n
    BY <2>2, RemainderOfLess
  <2> HIDE DEF f
  <2>8. Stored(f, disk.word[p]) = n
    BY <2>6, <2>7 DEF Stored
  <2> QED
    BY <2>8 DEF f, n
<1> QED
  BY <1>2, <1>3

LEMMA HeaderSoFarKept == IInv /\ MagicKnown /\ HeaderSoFar /\ [Next]_vars => HeaderSoFar'
<1> SUFFICES ASSUME IInv, MagicKnown, HeaderSoFar, [Next]_vars, HeaderLaid(disk)
             PROVE  HeaderSoFar'
  BY DiskStays DEF HeaderSoFar
<1>1. disk' = disk
  BY DiskStays
<1>2. fd \in FdStates /\ fd.pos \in Nat /\ size \in Nat /\ header \in [HeaderFields -> Nat]
  BY SizeIsNat DEF IInv, TypeOK, FdStates
<1>3. CASE Open \/ OpenFails \/ DetectRead \/ DetectRewind \/ Inflate \/ InflateFails
             \/ ReadMagic \/ VersionMissing \/ ReadFails
  <2>1. pc' \notin {"numbers", "scan", "length"} /\ ~valid'
    BY <1>3 DEF Open, OpenFails, DetectRead, DetectRewind, Inflate, InflateFails,
         ReadMagic, VersionMissing, ReadFails, GiveUp, IInv, Phases
  <2> QED
    BY <2>1 DEF HeaderSoFar
<1>4. CASE Grow \/ UNCHANGED vars
  BY <1>1, <1>4 DEF Grow, vars, HeaderSoFar
<1>5. CASE SkipTimestamp \/ TakePacket \/ Finish
  BY <1>1, <1>5 DEF SkipTimestamp, TakePacket, Finish, HeaderSoFar
<1>6. CASE ReadVersion
  <2> DEFINE half == ReadBytes(fd, size, 2)
             Half(w) == IF swapping THEN Swap16(w) ELSE w
  <2>1. /\ pc = "version" /\ pc' = "numbers" /\ ~valid'
        /\ fd' = ReadBytes(half, size, 2)
        /\ Complete(fd, size, 2) /\ Complete(half, size, 2)
        /\ header' = [header EXCEPT !["major"] = Half(disk.word[4]),
                                    !["minor"] = Half(disk.word[6])]
    BY <1>6 DEF ReadVersion, IInv, Phases
  <2>2. fd.pos = 4 /\ swapping = disk.magic.swapped
    BY <2>1 DEF IInv, Position, MagicKnown
  <2>a. /\ half \in FdStates
        /\ Complete(fd, size, 2) => half.pos = fd.pos + 2
    BY <1>2, ReadFacts
  <2> HIDE DEF half
  <2>3. half.pos = 6
    BY <2>1, <2>2, <2>a
  <2> DEFINE both == ReadBytes(half, size, 2)
  <2>b. /\ both \in FdStates
        /\ Complete(half, size, 2) => half.pos + 2 <= size /\ both.pos = half.pos + 2
    BY <1>2, <2>a, ReadFacts
  <2>4. fd'.pos = 8 /\ 8 <= size
    BY <2>1, <2>3, <2>b
  <2>5. /\ disk.numbers["major"] = Half(disk.word[4])
        /\ disk.numbers["minor"] = Half(disk.word[6])
    BY <2>2, <2>4, FieldDecoded DEF IInv
  <2> HIDE DEF Half
  <2>6. header'["major"] = Half(disk.word[4]) /\ header'["minor"] = Half(disk.word[6])
    BY <1>2, <2>1 DEF HeaderFields
  <2>7. \A p \in {8, 12, 16, 20} : ~(p < fd'.pos)
    BY <2>4
  <2> QED
    BY <1>1, <2>1, <2>5, <2>6, <2>7 DEF HeaderSoFar
<1>7. CASE ReadNumber
  <2> DEFINE f == NumberAt[fd.pos]
  <2>1. /\ pc = "numbers" /\ fd' = ReadBytes(fd, size, 4) /\ Complete(fd, size, 4)
        /\ header' = [header EXCEPT ![f] = Stored(f, disk.word[fd.pos])]
        /\ pc' = IF fd.pos = 20 THEN "scan" ELSE "numbers"
        /\ ~valid'
    BY <1>7 DEF ReadNumber, Got, IInv, Phases
  <2>2. fd.pos \in {8, 12, 16, 20} /\ swapping = disk.magic.swapped
    BY <2>1 DEF IInv, Position, MagicKnown
  <2>a. Complete(fd, size, 4) =>
          fd.pos + 4 <= size /\ ReadBytes(fd, size, 4).pos = fd.pos + 4
    BY <1>2, ReadFacts
  <2>3. fd'.pos = fd.pos + 4 /\ fd.pos + 4 <= size
    BY <2>1, <2>a
  <2>4. Stored(f, disk.word[fd.pos]) = disk.numbers[f]
    BY <1>2, <2>2, <2>3, FieldDecoded DEF IInv
  <2>5. f \in HeaderFields \ {"major", "minor"}
    BY <2>2 DEF NumberAt, HeaderFields
  <2>6. \A g \in HeaderFields :
          header'[g] = IF g = f THEN disk.numbers[g] ELSE header[g]
    BY <1>2, <2>1, <2>4, <2>5
  <2>7. /\ header'["major"] = disk.numbers["major"]
        /\ header'["minor"] = disk.numbers["minor"]
    BY <2>1, <2>5, <2>6 DEF HeaderSoFar, HeaderFields
  <2>8. \A p \in {8, 12, 16, 20} : p < fd'.pos =>
          header'[NumberAt[p]] = disk.numbers[NumberAt[p]]
    <3>1. \A p \in {8, 12, 16, 20} : p < fd'.pos => p < fd.pos \/ p = fd.pos
      BY <2>2, <2>3
    <3>2. \A p \in {8, 12, 16, 20} : NumberAt[p] \in HeaderFields
      BY DEF NumberAt, HeaderFields
    <3>3. \A p \in {8, 12, 16, 20} : p < fd.pos =>
            header[NumberAt[p]] = disk.numbers[NumberAt[p]]
      BY <2>1 DEF HeaderSoFar
    <3> QED
      BY <2>6, <3>1, <3>2, <3>3
  <2>9. fd.pos = 20 => header' = disk.numbers
    <3>1. ASSUME fd.pos = 20 PROVE \A g \in HeaderFields : header'[g] = disk.numbers[g]
      <4>1. \A p \in {8, 12, 16, 20} : header'[NumberAt[p]] = disk.numbers[NumberAt[p]]
        BY <2>3, <2>8, <3>1
      <4> QED
        BY <2>7, <4>1 DEF NumberAt, HeaderFields
    <3>2. header' \in [HeaderFields -> Nat] /\ disk.numbers \in [HeaderFields -> Nat]
      BY <1>1, <1>7, HeaderKeeps, CapturesAssumption DEF IInv, TypeOK
    <3> QED
      BY <3>1, <3>2
  <2> QED
    BY <1>1, <2>1, <2>7, <2>8, <2>9 DEF HeaderSoFar
<1> QED
  BY <1>3, <1>4, <1>5, <1>6, <1>7 DEF Next, Construct


-----------------------------------------------------------------------------
(* Where the scan of a well-formed capture stands. *)
LEMMA EndAsWritten ==
  ASSUME IInv, MagicKnown, PacketsAsWritten, WellFormed(disk),
         pc \in {"scan", "length"}
  PROVE  /\ Len(packets) \in 0..Len(disk.written) /\ Len(packets) \in Nat
         /\ variant = disk.magic.variant
         /\ End = EndOf(disk)[Len(packets)]
<1>1. Len(packets) \in Nat /\ (packets # <<>> => Len(packets) \in 1..Len(packets))
  BY LenProperties, EmptySeq DEF IInv, TypeOK
<1>2. Len(packets) \in 0..Len(disk.written) /\ disk \in Captures
  BY <1>1, EndOfFacts DEF PacketsAsWritten, IInv, TypeOK
<1>3. variant = disk.magic.variant
  BY DEF MagicKnown
<1>4. CASE packets = <<>>
  BY <1>2, <1>3, <1>4, EndOfFacts, EmptySeq DEF End
<1>5. CASE packets # <<>>
  <2> DEFINE n == Len(packets)
  <2>1. n \in 1..n /\ n \in 1..Len(disk.written)
    BY <1>1, <1>2, <1>5
  <2>2. packets[n].offset = EndOf(disk)[n-1] /\ packets[n].len = disk.written[n]
    BY <2>1 DEF PacketsAsWritten
  <2>3. /\ EndOf(disk)[n] = EndOf(disk)[n-1] + (PacketHeaderLen(variant) + disk.written[n])
        /\ EndOf(disk)[n-1] \in Nat /\ disk.written[n] \in Nat
    <3>1. n - 1 \in 0..Len(disk.written)
      BY <2>1
    <3> QED
      BY <1>2, <1>3, <2>1, <3>1, EndOfFacts
  <2> HIDE DEF n
  <2>4. End = EndOf(disk)[n-1] + PacketHeaderLen(variant) + disk.written[n]
    BY <1>5, <2>2 DEF End, n
  <2>5. PacketHeaderLen(variant) \in Nat
    BY EndIsNat DEF IInv
  <2>6. End = EndOf(disk)[n]
    BY <2>3, <2>4, <2>5
  <2> QED
    BY <1>1, <1>2, <1>3, <2>6 DEF n
<1> QED
  BY <1>4, <1>5

LEMMA PacketsAsWrittenKept ==
  IInv /\ MagicKnown /\ PacketsAsWritten /\ [Next]_vars => PacketsAsWritten'
<1> SUFFICES ASSUME IInv, MagicKnown, PacketsAsWritten, [Next]_vars, WellFormed(disk)
             PROVE  PacketsAsWritten'
  BY DiskStays DEF PacketsAsWritten
<1>1. disk' = disk
  BY DiskStays
<1>2. CASE UNCHANGED packets
  BY <1>1, <1>2 DEF PacketsAsWritten
<1>3. CASE TakePacket
  <2> DEFINE n == Len(packets)
             w == disk.word[fd.pos]
  <2>1. /\ pc = "length" /\ Complete(fd, size, 4)
        /\ packets' = Append(packets, [len |-> w, offset |-> fd.pos - LenOffset])
    BY <1>3 DEF TakePacket
  <2>2. fd \in FdStates /\ size \in Nat /\ fd.pos \in Nat /\ packets \in Seq(Storage)
    BY SizeIsNat DEF IInv, TypeOK, FdStates
  <2>3. fd.pos = End + LenOffset /\ End \in Nat
    BY <2>1, EndIsNat DEF IInv, Position
  <2>a. Complete(fd, size, 4) => fd.pos + 4 <= size
    BY <2>2, ReadFacts
  <2>4. fd.pos + 4 <= size
    BY <2>1, <2>a
  <2>5. /\ n \in 0..Len(disk.written) /\ n \in Nat
        /\ End = EndOf(disk)[n] /\ disk \in Captures
    BY <2>1, EndAsWritten DEF IInv, TypeOK
  <2>6. n < Len(disk.written)
    <3>1. disk.limit <= EndOf(disk)[Len(disk.written)] /\ size <= disk.limit
      BY SizeIsNat DEF WellFormed, IInv, TypeOK
    <3>2. Len(disk.written) \in Nat /\ EndOf(disk)[Len(disk.written)] \in Nat
      BY <2>5, EndOfFacts
    <3>3. n # Len(disk.written)
      BY <2>2, <2>3, <2>4, <2>5, <3>1, <3>2, SizeIsNat DEF LenOffset, IInv
    <3> QED
      BY <2>5, <3>2, <3>3
  <2>7. w = disk.written[n+1]
    <3>1. n + 1 \in 1..Len(disk.written) /\ (n + 1) - 1 = n
      BY <2>5, <2>6, EndOfFacts
    <3>2. EndOf(disk)[n] + LenOffset \in 0..disk.limit
      BY <2>2, <2>3, <2>4, <2>5, SizeIsNat DEF IInv, TypeOK, LenOffset
    <3>3. disk.word[EndOf(disk)[n] + LenOffset] = disk.written[n+1]
      BY <3>1, <3>2 DEF WellFormed
    <3> QED
      BY <2>3, <2>5, <3>3
  <2>8. fd.pos - LenOffset = End
    BY <2>3 DEF LenOffset
  <2>9. w \in Nat
    BY <2>2, <2>4, WordIsNat DEF IInv
  <2> HIDE DEF w
  <2>10. packets' = Append(packets, [len |-> w, offset |-> End])
    BY <2>1, <2>8
  <2>b. [len |-> w, offset |-> End] \in Storage
    BY <2>3, <2>9 DEF Storage
  <2>11. /\ Len(packets') = n + 1
         /\ \A i \in 1..n : packets'[i] = packets[i]
         /\ packets'[n+1] = [len |-> w, offset |-> End]
    BY <2>2, <2>10, <2>b, AppendProperties
  <2> HIDE DEF n
  <2>12. ASSUME NEW i \in 1..n+1
         PROVE  packets'[i].offset = EndOf(disk)[i-1] /\ packets'[i].len = disk.written[i]
    <3>1. CASE i = n + 1
      <4>1. packets'[i].len = w /\ packets'[i].offset = End
        BY <2>11, <3>1
      <4>2. i - 1 = n
        BY <2>5, <3>1
      <4> QED
        BY <2>5, <2>7, <3>1, <4>1, <4>2
    <3>2. CASE i # n + 1
      <4>1. i \in 1..n
        BY <2>5, <3>2
      <4> QED
        BY <2>11, <4>1 DEF PacketsAsWritten, n
    <3> QED
      BY <3>1, <3>2
  <2>13. n + 1 <= Len(disk.written)
    BY <2>5, <2>6, EndOfFacts
  <2> QED
    BY <1>1, <2>11, <2>12, <2>13 DEF PacketsAsWritten
<1> QED
  BY <1>2, <1>3 DEF Next, Construct, Grow, Open, OpenFails, DetectRead, DetectRewind,
     Inflate, InflateFails, ReadMagic, ReadVersion, VersionMissing, ReadNumber,
     SkipTimestamp, ReadFails, Finish, GiveUp, vars


-----------------------------------------------------------------------------
(* A seek asks for the length of the file if nobody has. *)
LEMMA SeekAsks ==
  ASSUME NEW f \in FdStates, NEW s \in Nat, NEW d \in Nat
  PROVE  /\ SeekBy(f, s, d).len # Unasked
         /\ f.len # Unasked => SeekBy(f, s, d).len = f.len
         /\ (SeekBy(f, s, d).eof <=> SeekBy(f, s, d).pos = SeekBy(f, s, d).len)
<1> DEFINE t == f.pos + d
           g == SeekTo(f, s, t)
<1>1. t \in Nat
  BY DEF FdStates
<1>2. SeekBy(f, s, d) = g
  BY DEF SeekBy
<1> HIDE DEF t
<1>3. /\ g.pos = t /\ g.len \in Nat
      /\ g.len = (IF f.len = Unasked THEN s ELSE f.len)
      /\ (g.eof <=> t = g.len)
  BY <1>1, SeekToFacts
<1> HIDE DEF g
<1> QED
  BY <1>2, <1>3 DEF Unasked

(* Where a read that does not get everything stops. *)
LEMMA Incomplete ==
  ASSUME NEW f \in FdStates, NEW s \in Nat, NEW n \in Nat
  PROVE  ~Complete(f, s, n) => s < f.pos + n
  BY DEF Complete, Delivered, FdStates

LEMMA LengthAskedKept == IInv /\ LengthAsked /\ [Next]_vars => LengthAsked'
<1> SUFFICES ASSUME IInv, LengthAsked, [Next]_vars PROVE LengthAsked'
  OBVIOUS
<1>1. fd \in FdStates /\ size \in Nat /\ fd.pos \in Nat
  BY SizeIsNat DEF IInv, TypeOK, FdStates
<1>2. CASE SkipTimestamp
  <2>1. pc' = "length" /\ fd' = SeekBy(fd, size, LenOffset)
    BY <1>2 DEF SkipTimestamp
  <2>2. fd'.len # Unasked
    BY <1>1, <2>1, SeekAsks DEF LenOffset
  <2> QED
    BY <2>1, <2>2 DEF LengthAsked
<1>3. CASE TakePacket
  <2> DEFINE passed == ReadBytes(fd, size, 4)
             over   == disk.word[fd.pos] + BodyOffset(variant)
  <2>1. pc' = "scan" /\ Complete(fd, size, 4) /\ fd' = SeekBy(passed, size, over)
    BY <1>3 DEF TakePacket
  <2>2. passed \in FdStates
    BY <1>1, ReadFacts
  <2>3. over \in Nat
    <3>1. Complete(fd, size, 4) => fd.pos + 4 <= size
      BY <1>1, ReadFacts
    <3>2. fd.pos < size
      BY <1>1, <2>1, <3>1
    <3>3. disk.word[fd.pos] \in Nat
      BY <1>1, <3>2, WordIsNat DEF IInv
    <3> QED
      BY <3>3, EndIsNat DEF IInv
  <2> HIDE DEF passed, over
  <2>4. fd'.len # Unasked /\ (fd'.eof <=> fd'.pos = fd'.len)
    BY <1>1, <2>1, <2>2, <2>3, SeekAsks
  <2> QED
    BY <2>1, <2>4 DEF LengthAsked
<1>4. CASE ReadNumber
  <2>1. packets' = <<>> /\ pc' # "length"
    BY <1>4 DEF ReadNumber, IInv, Phases, Preparing
  <2> QED
    BY <2>1 DEF LengthAsked
<1>5. CASE Grow \/ UNCHANGED vars
  BY <1>5 DEF Grow, vars, LengthAsked
<1>6. CASE \/ Open \/ OpenFails \/ DetectRead \/ DetectRewind \/ Inflate \/ InflateFails
           \/ ReadMagic \/ ReadVersion \/ VersionMissing \/ ReadFails \/ Finish
  <2>1. pc' \notin {"scan", "length"}
    BY <1>6 DEF Open, OpenFails, DetectRead, DetectRewind, Inflate, InflateFails,
       ReadMagic, ReadVersion, VersionMissing, ReadFails, Finish, GiveUp
  <2> QED
    BY <2>1 DEF LengthAsked
<1> QED
  BY <1>2, <1>3, <1>4, <1>5, <1>6 DEF Next, Construct

-----------------------------------------------------------------------------
(* A read that fails keeps the cached length. *)
LEMMA FailuresKeepLength ==
  ASSUME fd \in FdStates, size \in Nat, ReadFails \/ VersionMissing
  PROVE  fd'.len = fd.len
<1> DEFINE word == ReadBytes(fd, size, 4)
           half == ReadBytes(fd, size, 2)
           both == ReadBytes(half, size, 2)
<1>1. word.len = fd.len /\ half \in FdStates /\ half.len = fd.len
  BY ReadFacts
<1>2. both.len = half.len
  BY <1>1, ReadFacts
<1>3. fd' \in {fd, word, half, both}
  BY DEF ReadFails, VersionMissing, Missed
<1> QED
  BY <1>1, <1>2, <1>3

(* What the failing reads of a file without input/output errors say of its *)
(* length: it does not reach past what was to be read.                     *)
LEMMA TooShort ==
  ASSUME IInv, ReadFails \/ VersionMissing, ~IOErrors
  PROVE  /\ pc # "done" /\ pc' = "done" /\ fd'.len = fd.len /\ fd.len <= size
         /\ pc # "length" => size < FileHeaderLen
         /\ pc = "length" => size < End + PacketHeaderLen(variant)
         /\ UNCHANGED <<disk, size, base, compression, variant, header, swapping,
                        packets, valid>>
<1> DEFINE word == ReadBytes(fd, size, 4)
           half == ReadBytes(fd, size, 2)
           both == ReadBytes(half, size, 2)
<1>1. fd \in FdStates /\ size \in Nat /\ fd.pos \in Nat
  BY SizeIsNat DEF IInv, TypeOK, FdStates
<1>2. word.len = fd.len /\ (~Complete(fd, size, 4) => size < fd.pos + 4)
  BY <1>1, ReadFacts, Incomplete
<1>3. /\ half \in FdStates /\ half.len = fd.len
      /\ ~Complete(fd, size, 2) => size < fd.pos + 2
      /\ Complete(fd, size, 2) => half.pos = fd.pos + 2
  BY <1>1, ReadFacts, Incomplete
<1>4. both.len = half.len /\ (~Complete(half, size, 2) => size < half.pos + 2)
  <2> HIDE DEF half
  <2> QED
    BY <1>1, <1>3, ReadFacts, Incomplete
<1>5. /\ GiveUp /\ pc \in {"magic", "version", "numbers", "length"}
      /\ pc = "version" => fd' = both /\ ~(Complete(fd, size, 2) /\ Complete(half, size, 2))
      /\ pc # "version" => fd' = word /\ ~Complete(fd, size, 4)
  BY DEF ReadFails, VersionMissing, Missed
<1> HIDE DEF word, half, both
<1>6. fd'.len = fd.len /\ size < fd.pos + 4
  BY <1>1, <1>2, <1>3, <1>4, <1>5
<1>7. pc # "length" => fd.pos <= 20
  BY <1>5 DEF IInv, Position
<1>8. pc = "length" => fd.pos = End + LenOffset
  BY DEF IInv, Position
<1> QED
  BY <1>1, <1>5, <1>6, <1>7, <1>8, EndIsNat
     DEF GiveUp, FileHeaderLen, LenOffset, IInv, CachedLength

LEMMA NoEndPassedKept ==
  ASSUME WInv, [Next]_vars
  PROVE  NoEndPassed'
<1> SUFFICES ASSUME WellFormed(disk) PROVE NoEndPassed'
  BY DiskStays DEF NoEndPassed
<1> USE DEF WInv
<1> DEFINE n == Len(packets)
           e == EndOf(disk)
           m == Len(disk.written)
<1>1. disk' = disk /\ disk \in Captures
  BY DiskStays DEF IInv, TypeOK
<1>2. /\ fd \in FdStates /\ size \in Nat /\ fd.pos \in Nat /\ fd.len \in Int
      /\ disk.magic.variant \in Variants
  BY SizeIsNat DEF IInv, TypeOK, FdStates, Unasked, WellFormed
<1>3. /\ m \in Nat /\ e[0] = FileHeaderLen
      /\ \A k \in 0..m : e[k] \in Nat
      /\ \A j, k \in 0..m : j < k => e[j] + 16 <= e[k]
      /\ \A k \in 1..m :
           e[k] = e[k-1] + (PacketHeaderLen(disk.magic.variant) + disk.written[k])
      /\ \A k \in 1..m : disk.written[k] \in Nat
  BY <1>1, EndOfFacts
<1>4. pc \in {"scan", "length"} =>
        n \in 0..m /\ variant = disk.magic.variant /\ End = e[n]
  BY EndAsWritten
<1>5. n \in Nat /\ (packets = <<>> <=> n = 0)
  BY LenProperties, EmptySeq DEF IInv, TypeOK
<1>6. \A j \in 1..n : j < n \/ pc = "length" => fd.len # e[j]
  BY DEF NoEndPassed
<1> HIDE DEF n, e, m
<1>7. /\ n = Len(packets) /\ n' = Len(packets') /\ m = Len(disk.written)
      /\ e = EndOf(disk) /\ EndOf(disk)' = e /\ m' = m
      /\ Len(disk.written)' = m /\ WellFormed(disk)' = WellFormed(disk)
  BY <1>1 DEF n, e, m
<1>8. CASE Grow \/ UNCHANGED vars
  <2>1. UNCHANGED <<disk, pc, fd, compression, packets, valid>>
    BY <1>8 DEF Grow, vars
  <2>2. Magic' = Magic /\ IOErrors' = IOErrors
    BY <2>1 DEF Magic, Inflated, IOErrors
  <2> QED
    BY <2>1, <2>2 DEF NoEndPassed
<1>9. CASE Open \/ DetectRead \/ DetectRewind \/ Inflate \/ ReadVersion \/ ReadNumber
  <2>1. /\ pc' \notin {"length", "done"} /\ ~valid' /\ packets' = <<>>
    BY <1>9 DEF Open, DetectRead, DetectRewind, Inflate, ReadVersion, ReadNumber,
         IInv, Phases, Preparing
  <2>2. n' = 0
    BY <2>1 DEF n
  <2> QED
    BY <1>7, <2>1, <2>2 DEF NoEndPassed
<1>10. CASE OpenFails \/ InflateFails
  <2>1. IOErrors' /\ ~valid' /\ packets' = <<>>
    BY <1>1, <1>10 DEF OpenFails, InflateFails, IOErrors, IInv, Phases, Preparing
  <2>2. n' = 0
    BY <2>1 DEF n
  <2> QED
    BY <1>7, <2>1, <2>2 DEF NoEndPassed
<1>11. CASE ReadMagic
  <2>1. pc' # "length" /\ ~valid' /\ packets' = <<>> /\ compression' = compression
    BY <1>11 DEF ReadMagic, IInv, Phases, Preparing
  <2>2. n' = 0
    BY <2>1 DEF n
  <2>3. pc = "magic" /\ (Magic = disk.magic => pc' = "version")
    BY <1>2, <1>11 DEF ReadMagic
  <2>4. pc' = "done" => Magic' = Magic
    BY <1>1, <2>1, <2>3 DEF Magic, Inflated
  <2>5. Magic' = disk'.magic => pc' # "done"
    BY <1>1, <2>3, <2>4
  <2> QED
    BY <1>7, <2>1, <2>2, <2>5 DEF NoEndPassed
<1>12. CASE ReadFails \/ VersionMissing
  <2>1. CASE IOErrors
    <3>1. /\ IOErrors' /\ ~valid' /\ packets' = packets /\ pc' = "done"
      BY <1>1, <1>12, <2>1 DEF ReadFails, VersionMissing, GiveUp, IOErrors, IInv, Phases
    <3>2. fd'.len = fd.len
      BY <1>2, <1>12, FailuresKeepLength
    <3> QED
      BY <1>6, <1>7, <3>1, <3>2 DEF NoEndPassed, n
  <2>2. CASE ~IOErrors
    <3>1. /\ pc' = "done" /\ fd'.len = fd.len /\ fd.len <= size /\ packets' = packets
          /\ pc # "length" => size < FileHeaderLen
          /\ pc = "length" => size < End + PacketHeaderLen(variant)
          /\ ~valid'
      BY <1>12, <2>2, TooShort DEF IInv, Phases
    <3>2. ASSUME NEW k \in 1..m PROVE fd.len # e[k]
      <4>1. k \in 0..m /\ 0 \in 0..m /\ 0 < k /\ e[k] \in Nat
        BY <1>3
      <4>2. CASE pc # "length"
        BY <1>2, <1>3, <3>1, <4>1, <4>2
      <4>3. CASE pc = "length" /\ k <= n
        BY <1>5, <1>6, <4>3
      <4>4. CASE pc = "length" /\ n < k
        <5>1. n \in 0..m /\ n + 1 \in 1..m /\ (n + 1) - 1 = n
          BY <1>3, <1>4, <1>5, <4>4
        <5>2. e[n+1] = e[n] + (PacketHeaderLen(variant) + disk.written[n+1])
          BY <1>3, <1>4, <4>4, <5>1
        <5>3. e[n+1] <= e[k]
          <6>1. n + 1 = k \/ n + 1 < k
            BY <1>5, <4>4
          <6>2. e[n+1] \in Nat /\ (n + 1 < k => e[n+1] + 16 <= e[k])
            BY <1>3, <4>1, <5>1
          <6> QED
            BY <4>1, <6>1, <6>2
        <5>4. e[n] \in Nat /\ disk.written[n+1] \in Nat
          BY <1>3, <5>1
        <5>5. PacketHeaderLen(variant) \in Nat
          BY EndIsNat DEF IInv
        <5> QED
          BY <1>2, <1>4, <3>1, <4>1, <4>4, <5>2, <5>3, <5>4, <5>5
      <4> QED
        BY <1>5, <4>2, <4>3, <4>4
    <3>3. \A j \in 1..n' : j < n' => fd'.len # e[j]
      BY <1>6, <3>1 DEF n
    <3> QED
      BY <1>7, <3>1, <3>2, <3>3 DEF NoEndPassed
  <2> QED
    BY <2>1, <2>2
<1>13. CASE SkipTimestamp
  <2>1. /\ pc = "scan" /\ pc' = "length" /\ ~fd.eof /\ ~valid'
        /\ fd' = SeekBy(fd, size, LenOffset) /\ packets' = packets
    BY <1>13 DEF SkipTimestamp, IInv, Phases
  <2>2. fd.len # Unasked => fd'.len = fd.len
    BY <1>2, <2>1, SeekAsks DEF LenOffset
  <2>3. ASSUME NEW j \in 1..n PROVE fd'.len # e[j]
    <3>1. packets # <<>>
      BY <1>5
    <3>2. fd'.len = fd.len /\ fd.pos # fd.len
      BY <2>1, <2>2, <3>1 DEF LengthAsked
    <3>3. fd.pos = e[n]
      BY <1>4, <2>1 DEF IInv, Position
    <3> QED
      BY <1>5, <1>6, <3>2, <3>3
  <2>4. n' = n
    BY <2>1 DEF n
  <2> QED
    BY <1>7, <2>1, <2>3, <2>4 DEF NoEndPassed
<1>14. CASE TakePacket
  <2> DEFINE passed == ReadBytes(fd, size, 4)
             over   == disk.word[fd.pos] + BodyOffset(variant)
             new    == [len |-> disk.word[fd.pos], offset |-> fd.pos - LenOffset]
  <2>1. /\ pc = "length" /\ pc' = "scan" /\ Complete(fd, size, 4) /\ ~valid'
        /\ fd' = SeekBy(passed, size, over) /\ packets' = Append(packets, new)
    BY <1>14 DEF TakePacket, IInv, Phases
  <2>2. passed \in FdStates /\ passed.len = fd.len
    BY <1>2, ReadFacts
  <2>3. over \in Nat
    <3>1. Complete(fd, size, 4) => fd.pos + 4 <= size
      BY <1>2, ReadFacts
    <3>2. fd.pos < size
      BY <1>2, <2>1, <3>1
    <3>3. disk.word[fd.pos] \in Nat
      BY <1>2, <3>2, WordIsNat DEF IInv
    <3> QED
      BY <3>3, EndIsNat DEF IInv
  <2>4. packets' \in Seq(Storage) /\ packets \in Seq(Storage)
    BY <1>14, ScanKeeps DEF IInv, TypeOK
  <2> HIDE DEF passed, over, new
  <2>5. fd.len # Unasked
    BY <2>1 DEF LengthAsked
  <2>6. fd'.len = fd.len
    BY <1>2, <2>1, <2>2, <2>3, <2>5, SeekAsks
  <2>7. n' = n + 1
    BY <2>1, <2>4 DEF n
  <2>8. \A j \in 1..n' : j < n' => fd'.len # e[j]
    BY <1>5, <1>6, <2>1, <2>6, <2>7
  <2> QED
    BY <1>7, <2>1, <2>8 DEF NoEndPassed
<1>15. CASE Finish
  <2>1. /\ pc = "scan" /\ pc' = "done" /\ fd.eof /\ valid' = TRUE
        /\ fd' = fd /\ packets' = packets
    BY <1>15 DEF Finish
  <2>2. /\ fd.pos = End
        /\ IF packets = <<>> THEN fd.len = 0 ELSE fd.pos = fd.len
    BY <2>1 DEF IInv, Position
  <2>3. fd'.len = 0 \/ \E k \in 1..m : fd'.len = e[k]
    <3>1. CASE packets = <<>>
      BY <2>1, <2>2, <3>1
    <3>2. CASE packets # <<>>
      <4>1. n \in 1..m
        BY <1>3, <1>4, <1>5, <2>1, <3>2
      <4> QED
        BY <1>4, <2>1, <2>2, <3>2, <4>1
    <3> QED
      BY <3>1, <3>2
  <2>4. \A j \in 1..n' : j < n' => fd'.len # e[j]
    BY <1>6, <2>1 DEF n
  <2> QED
    BY <1>7, <2>1, <2>3, <2>4 DEF NoEndPassed
<1> QED
  BY <1>8, <1>9, <1>10, <1>11, <1>12, <1>13, <1>14, <1>15 DEF Next, Construct

-----------------------------------------------------------------------------
LEMMA InitiallyAsWritten == Init => WInv
<1> SUFFICES ASSUME Init PROVE WInv
  OBVIOUS
<1>1. IInv /\ packets = <<>> /\ Len(packets) = 0 /\ pc = "open" /\ ~valid
  BY Initially DEF Init
<1>2. disk \in Captures
  BY DEF Init
<1>3. Len(disk.written) \in Nat
  BY <1>2, EndOfFacts
<1> QED
  BY <1>1, <1>3 DEF WInv, MagicKnown, HeaderSoFar, PacketsAsWritten, LengthAsked, NoEndPassed

LEMMA InductiveAsWritten == WInv /\ [Next]_vars => WInv'
  BY Inductive, MagicKnownKept, HeaderSoFarKept, PacketsAsWrittenKept, LengthAskedKept,
     NoEndPassedKept DEF WInv

LEMMA AlwaysAsWritten == Spec => []WInv
  BY InitiallyAsWritten, InductiveAsWritten, PTL DEF Spec

(* The file header that the reads and the swap macros put together is the  *)
(* one its writer meant, in whichever byte order the file is, whatever     *)
(* happens to the file while it is read (read_header()).                   *)
THEOREM HeaderCorrect == Spec => []HeaderAsWritten
<1>1. WInv => HeaderAsWritten
  BY DEF WInv, HeaderSoFar, HeaderAsWritten
<1> QED
  BY <1>1, AlwaysAsWritten, PTL

(* The index of a well-formed capture is a beginning of what its writer    *)
(* wrote: following the captured lengths, with the step that belongs to    *)
(* the variant, never gets out of step (ingest_packets(),                  *)
(* get_packet_body_offset()).                                              *)
THEOREM WrittenCorrect == Spec => []IndexAsWritten
<1>1. WInv => IndexAsWritten
  BY DEF WInv, PacketsAsWritten, IndexAsWritten
<1> QED
  BY <1>1, AlwaysAsWritten, PTL

(* A well-formed capture is accepted exactly when the cached length is the *)
(* end of one of its packets, however the file grows meanwhile: the        *)
(* constructor stops at the first end that is the cached length and misses *)
(* none (isEOF() in ingest_packets()).                                     *)
THEOREM AcceptanceCorrect == Spec => []AcceptsAtPacketEnd
<1>1. WInv => AcceptsAtPacketEnd
  <2> SUFFICES ASSUME WInv, WellFormed(disk), Magic = disk.magic, ~IOErrors
               PROVE  LET ends == {EndOf(disk)[k] : k \in 1..Len(disk.written)}
                      IN  /\ valid => fd.len \in ends \cup {0}
                          /\ pc = "done" /\ fd.len \in ends => valid
    BY DEF AcceptsAtPacketEnd
  <2> QED
    BY DEF WInv, NoEndPassed
<1> QED
  BY <1>1, AlwaysAsWritten, PTL

-----------------------------------------------------------------------------
(* The bound on what is left, place by place. *)
StepsKnown ==
  /\ disk.limit \in Nat /\ Ahead \in 0..disk.limit
  /\ pc = "done"    => StepsLeft = 0
  /\ pc = "length"  => StepsLeft = 2 * Ahead + 1
  /\ pc = "scan"    => StepsLeft = 2 * Ahead + 2
  /\ pc = "numbers" => StepsLeft = 2 * disk.limit + 2 + (21 - fd.pos)
  /\ pc = "version" => StepsLeft = 2 * disk.limit + 2 + 14
  /\ pc = "magic"   => StepsLeft = 2 * disk.limit + 2 + 15
  /\ pc = "inflate" => StepsLeft = 2 * disk.limit + 2 + 16
  /\ pc = "rewind"  => StepsLeft = 2 * disk.limit + 2 + 17
  /\ pc = "detect"  => StepsLeft = 2 * disk.limit + 2 + 18
  /\ pc = "open"    => StepsLeft = 2 * disk.limit + 2 + 19
  /\ pc = "numbers" => fd.pos \in {8, 12, 16, 20}
  /\ StepsLeft \in Nat

LEMMA StepsLeftFacts == IInv => StepsKnown
<1> SUFFICES ASSUME IInv PROVE StepsKnown
  OBVIOUS
<1>1. disk.limit \in Nat /\ End \in Nat
  BY SizeIsNat, EndIsNat DEF IInv
<1>2. Ahead \in 0..disk.limit
  BY <1>1, EndIsNat DEF Ahead, IInv, End, FileHeaderLen
<1>3. pc = "numbers" => fd.pos \in {8, 12, 16, 20}
  BY DEF IInv, Position
<1>4. ToTheScan = [open |-> 19, detect |-> 18, rewind |-> 17, inflate |-> 16,
                   magic |-> 15, version |-> 14, numbers |-> 21 - fd.pos]
  BY DEF ToTheScan
<1>5. /\ pc = "done"    => StepsLeft = 0
      /\ pc = "length"  => StepsLeft = 2 * Ahead + 1
      /\ pc = "scan"    => StepsLeft = 2 * Ahead + 2
      /\ pc \in {"open", "detect", "rewind", "inflate", "magic", "version", "numbers"}
           => StepsLeft = 2 * disk.limit + 2 + ToTheScan[pc]
  BY <1>4 DEF StepsLeft
<1>6. /\ pc = "numbers" => ToTheScan[pc] = 21 - fd.pos
      /\ pc = "version" => ToTheScan[pc] = 14
      /\ pc = "magic"   => ToTheScan[pc] = 15
      /\ pc = "inflate" => ToTheScan[pc] = 16
      /\ pc = "rewind"  => ToTheScan[pc] = 17
      /\ pc = "detect"  => ToTheScan[pc] = 18
      /\ pc = "open"    => ToTheScan[pc] = 19
  BY <1>4
<1>7. StepsLeft \in Nat
  <2>1. pc \in {"open", "detect", "rewind", "inflate", "magic", "version",
                "numbers", "scan", "length", "done"}
    BY DEF IInv, TypeOK
  <2> QED
    BY <1>1, <1>2, <1>3, <1>5, <1>6, <2>1
<1> QED
  BY <1>1, <1>2, <1>3, <1>5, <1>6, <1>7 DEF StepsKnown

LEMMA StepsLeftThen == IInv' => StepsKnown'
  BY StepsLeftFacts, PTL

(* A packet taken lies ahead, and is behind afterwards. *)
LEMMA AheadShrinks ==
  ASSUME IInv, TakePacket
  PROVE  Ahead' < Ahead
<1> DEFINE w == disk.word[fd.pos]
<1>1. /\ pc = "length" /\ Complete(fd, size, 4) /\ UNCHANGED <<disk, size, variant>>
      /\ packets' = Append(packets, [len |-> w, offset |-> fd.pos - LenOffset])
  BY DEF TakePacket
<1>2. fd \in FdStates /\ size \in Nat /\ fd.pos \in Nat /\ End \in Nat
      /\ size <= disk.limit /\ disk.limit \in Nat
  BY SizeIsNat, EndIsNat DEF IInv, TypeOK, FdStates
<1>3. fd.pos = End + LenOffset
  BY <1>1 DEF IInv, Position
<1>4. Complete(fd, size, 4) => fd.pos + 4 <= size
  BY <1>2, ReadFacts
<1>5. fd.pos < size /\ End + LenOffset + 4 <= size
  BY <1>1, <1>2, <1>3, <1>4
<1>6. w \in Nat
  BY <1>2, <1>5, WordIsNat DEF IInv
<1>7. fd.pos - LenOffset = End
  BY <1>2, <1>3 DEF LenOffset
<1>8. w = disk.word[End + LenOffset]
  BY <1>3
<1> HIDE DEF w
<1>9. End' = End + PacketHeaderLen(variant) + w
  BY <1>1, <1>5, <1>6, <1>7, <1>8, AppendTiles DEF IInv
<1>10. End' \in Nat /\ End < End' /\ End <= disk.limit /\ disk' = disk
  BY <1>1, <1>2, <1>5, <1>6, <1>9, EndIsNat DEF IInv, LenOffset
<1> QED
  <2>1. Ahead = disk.limit - End
    BY <1>10 DEF Ahead
  <2>2. Ahead' = IF End' <= disk.limit THEN disk.limit - End' ELSE 0
    BY <1>10 DEF Ahead
  <2>3. End < disk.limit
    BY <1>2, <1>5 DEF LenOffset
  <2> QED
    BY <1>2, <1>10, <2>1, <2>2, <2>3

(* The constructor comes nearer to its end with every step and a writer    *)
(* that appends never puts it off (ingest_packets()).                      *)
THEOREM AdvanceCorrect == Spec => ConstructAdvances
<1> DEFINE Advances == /\ StepsLeft' \in Nat
                       /\ StepsLeft' <= StepsLeft
                       /\ StepsLeft' = StepsLeft => UNCHANGED <<pc, fd, packets>>
<1>1. ASSUME IInv, Next PROVE Advances
  <2>1. IInv'
    BY <1>1, Inductive
  <2>2. disk' = disk
    BY <1>1, DiskStays
  <2>a. StepsKnown
    BY <1>1, StepsLeftFacts
  <2>b. StepsKnown'
    BY <2>1, StepsLeftThen
  <2>3. StepsLeft' \in Nat /\ StepsLeft \in Nat
    BY <2>a, <2>b DEF StepsKnown
  <2>4. CASE Grow
    <3>1. UNCHANGED <<disk, pc, fd, variant, packets>>
      BY <2>4 DEF Grow
    <3>2. StepsLeft' = StepsLeft
      BY <3>1 DEF StepsLeft, ToTheScan, Ahead, End, PacketHeaderLen, BodyOffset
    <3> QED
      BY <2>3, <3>1, <3>2
  <2>5. ASSUME StepsLeft' < StepsLeft PROVE Advances
    BY <2>3, <2>5
  <2>6. CASE OpenFails \/ InflateFails \/ ReadFails \/ VersionMissing \/ Finish
    <3>1. /\ pc' = "done"
          /\ pc \in {"open", "inflate", "magic", "version", "numbers", "length", "scan"}
      BY <2>6 DEF OpenFails, InflateFails, ReadFails, VersionMissing, Finish, GiveUp
    <3>2. StepsLeft' = 0
      BY <2>b, <3>1 DEF StepsKnown
    <3>3. StepsLeft > 0
      BY <2>a, <3>1 DEF StepsKnown
    <3> QED
      BY <2>3, <2>5, <3>2, <3>3
  <2>7. CASE Open \/ DetectRead \/ DetectRewind \/ Inflate \/ ReadMagic
    <3>1. \/ pc = "open" /\ pc' \in {"detect", "inflate", "magic"}
          \/ pc = "detect" /\ pc' = "rewind"
          \/ pc = "rewind" /\ pc' \in {"inflate", "magic"}
          \/ pc = "inflate" /\ pc' = "magic"
          \/ pc = "magic" /\ pc' \in {"version", "done"}
      BY <2>7 DEF Open, DetectRead, DetectRewind, Inflate, ReadMagic
    <3> QED
      BY <2>a, <2>b, <2>2, <2>3, <2>5, <3>1 DEF StepsKnown
  <2>8. CASE ReadVersion
    <3>1. pc = "version" /\ pc' = "numbers"
      BY <2>8 DEF ReadVersion
    <3> QED
      BY <2>a, <2>b, <2>2, <2>3, <2>5, <3>1 DEF StepsKnown
  <2>9. CASE ReadNumber
    <3>1. /\ pc = "numbers" /\ pc' \in {"numbers", "scan"} /\ Complete(fd, size, 4)
          /\ fd' = ReadBytes(fd, size, 4)
      BY <2>9 DEF ReadNumber, Got
    <3>2. fd \in FdStates /\ size \in Nat
      BY <1>1, SizeIsNat DEF IInv, TypeOK
    <3>3. Complete(fd, size, 4) => ReadBytes(fd, size, 4).pos = fd.pos + 4
      BY <3>2, ReadFacts
    <3>4. fd'.pos = fd.pos + 4
      BY <3>1, <3>3
    <3> DEFINE lim == disk.limit
               at == fd.pos
    <3>5. /\ StepsLeft = 2 * lim + 2 + (21 - at) /\ lim \in Nat
          /\ at \in {8, 12, 16, 20}
      BY <2>a, <3>1 DEF StepsKnown
    <3>6. CASE pc' = "numbers"
      <4>1. StepsLeft' = 2 * lim + 2 + (21 - (at + 4))
        BY <2>b, <2>2, <3>4, <3>6 DEF StepsKnown
      <4> HIDE DEF lim, at
      <4> QED
        BY <2>5, <3>5, <4>1
    <3>7. CASE pc' = "scan"
      <4>1. PICK a \in 0..lim : StepsLeft' = 2 * a + 2
        BY <2>b, <2>2, <3>7 DEF StepsKnown
      <4> HIDE DEF lim, at
      <4>2. 2 * a + 2 < 2 * lim + 2 + (21 - at)
        BY <3>5, <4>1
      <4> QED
        BY <2>5, <3>5, <4>1, <4>2
    <3> QED
      BY <3>1, <3>6, <3>7
  <2>10. CASE SkipTimestamp
    <3>1. pc = "scan" /\ pc' = "length" /\ UNCHANGED <<disk, variant, packets>>
      BY <2>10 DEF SkipTimestamp
    <3>2. Ahead' = Ahead
      BY <3>1 DEF Ahead, End, PacketHeaderLen, BodyOffset
    <3> QED
      BY <2>a, <2>b, <2>3, <2>5, <3>1, <3>2 DEF StepsKnown
  <2>11. CASE TakePacket
    <3>1. pc = "length" /\ pc' = "scan"
      BY <2>11 DEF TakePacket
    <3>2. Ahead' < Ahead
      BY <1>1, <2>11, AheadShrinks
    <3>3. PICK a \in 0..disk.limit' : a = Ahead' /\ StepsLeft' = 2 * a + 2
      BY <2>b, <3>1 DEF StepsKnown
    <3>4. PICK b \in Nat : b = Ahead /\ StepsLeft = 2 * b + 1
      BY <2>a, <3>1 DEF StepsKnown
    <3>5. a < b
      BY <3>2, <3>3, <3>4
    <3>6. 2 * a + 2 < 2 * b + 1
      BY <3>5
    <3> QED
      BY <2>5, <3>3, <3>4, <3>6
  <2> QED
    BY <1>1, <2>4, <2>6, <2>7, <2>8, <2>9, <2>10, <2>11 DEF Next, Construct
<1>2. IInv /\ [Next]_vars => [Advances]_vars
  BY <1>1
<1> QED
  BY <1>2, Always, PTL DEF Spec, ConstructAdvances

=============================================================================
