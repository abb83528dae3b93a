--------------------------- MODULE PcapReadProofs ---------------------------
(***************************************************************************)
(* What TLC checks of PcapRead on small captures, proved for every set of  *)
(* captures and any number of calls: the types, that a packet handed out   *)
(* is the one the index describes, which packets can be missing, that a    *)
(* loop visits every packet, what becomes of edits, that calls and loops   *)
(* get nearer to their end, that nobody touches the index again, and that  *)
(* what is read is what was written.                                       *)
(***************************************************************************)
EXTENDS PcapRead, PcapIndexProofs

(* As long as nobody truncates the file the constructor's invariant stays: *)
(* get_packet() caches the file's length at most as the constructor does.  *)
(* A cut leaves the index what it was.                                     *)
IndexStays == /\ cut = Uncut => IInv
              /\ Phases
              /\ IndexTiles

(* Nobody uses the object before its constructor has returned. *)
Unused == pc # "done" =>
            /\ step = "idle" /\ answer.kind = "none" /\ cache = <<>>
            /\ loop = NoLoop /\ chosen = AsRead /\ cut = Uncut
            /\ which = 0 /\ seen = <<>>

(* What get_packet() knows of the descriptor at each of its steps.         *)
AtPacket ==
  step # "idle" =>
    /\ which \in 1..Len(packets)
    /\ step = "header" => fd.pos = packets[which].offset
    /\ step = "body" =>
         /\ want = packets[which].len
         /\ fd.pos = packets[which].offset + PacketHeaderLen(VariantNow)

(* How many packets a loop has asked for so far. *)
Visited == IF ~loop.back THEN IF loop.called THEN loop.at ELSE loop.at - 1
           ELSE IF loop.called \/ loop.at = AtEnd THEN AtEnd - loop.at
           ELSE AtEnd - loop.at - 1

LoopInOrder ==
  loop # NoLoop =>
    /\ loop.at \in 1..AtEnd
    /\ loop.called => loop.at \in 1..Len(packets)
    /\ seen = [n \in 1..Visited |-> Nth(n)]

(* The inductive invariant. *)
RInv == /\ ReadTypeOK
        /\ IndexStays
        /\ Unused
        /\ AtPacket
        /\ CacheMatchesIndex
        /\ UnreadableOnlyIfLast
        /\ LoopInOrder

-----------------------------------------------------------------------------
(* What the proofs below use of the state. *)
LEMMA ReadFactsOfState ==
  ASSUME RInv
  PROVE  /\ Len(packets) \in Nat
         /\ \A i \in 1..Len(packets) : packets[i].offset \in Nat /\ packets[i].len \in Nat
         /\ fd \in FdStates /\ fd.pos \in Nat
         /\ size \in Nat /\ There \in Nat
         /\ PacketHeaderLen(variant) \in {16, 24}
         /\ PacketHeaderLen(VariantNow) \in {16, 24}
<1>1. TypeOK
  BY DEF RInv, ReadTypeOK
<1>2. packets \in Seq(Storage) /\ Len(packets) \in Nat
  BY <1>1, LenProperties DEF TypeOK
<1>3. \A i \in 1..Len(packets) : packets[i] \in Storage
  BY <1>2, ElementOfSeq
<1>4. fd \in FdStates /\ fd.pos \in Nat
  BY <1>1 DEF TypeOK, FdStates
<1>5. size \in Nat /\ disk.stops \subseteq 0..disk.limit /\ disk.limit \in Nat
  BY <1>1, SizeIsNat
<1>6. There \in Nat
  BY <1>5 DEF RInv, ReadTypeOK, There, Uncut
<1>7. \A v : PacketHeaderLen(v) \in {16, 24}
  BY DEF PacketHeaderLen, BodyOffset, LenOffset
<1> QED
  BY <1>2, <1>3, <1>4, <1>5, <1>6, <1>7 DEF Storage

(* A read that does not get everything would have gone past the end. *)
LEMMA ShortRead ==
  ASSUME NEW f \in FdStates, NEW s \in Nat, NEW n \in Nat, ~Complete(f, s, n)
  PROVE  f.pos + n > s
  BY DEF Complete, Delivered, FdStates

(* Once the constructor has returned, only the writer moves. *)
LEMMA DoneGrows == Next /\ pc = "done" => Grow
  BY DEF Next, Construct, Open, OpenFails, DetectRead, DetectRewind, Inflate,
     InflateFails, ReadMagic, ReadVersion, VersionMissing, ReadNumber,
     SkipTimestamp, TakePacket, ReadFails, Finish

(* A client's call touches the descriptor only, and caches the length at   *)
(* most.                                                                   *)
LEMMA CallKeepsIndex ==
  ASSUME RInv, pc = "done", OnlyDescriptor, cut' = cut,
         fd' \in FdStates,
         fd'.len = fd.len \/ (fd.len = Unasked /\ fd'.len = There)
  PROVE  /\ TypeOK' /\ IndexStays' /\ Unused'
         /\ PacketHeaderLen(variant)' = PacketHeaderLen(variant)
<1>1. UNCHANGED <<disk, size, pc, base, compression, variant, header, swapping,
                  packets, valid>>
  BY DEF OnlyDescriptor
<1>2. TypeOK'
  BY <1>1 DEF RInv, ReadTypeOK, TypeOK
<1>3. PacketHeaderLen(variant)' = PacketHeaderLen(variant)
  BY <1>1 DEF PacketHeaderLen, BodyOffset
<1>4. Phases' /\ IndexTiles' /\ End' = End
  BY <1>1, <1>3 DEF RInv, IndexStays, Phases, IndexTiles, End
<1>5. ASSUME cut = Uncut PROVE IInv'
  <2>1. IInv /\ There = size
    BY <1>5 DEF RInv, IndexStays, There
  <2>2. size \in Nat /\ base \in Nat
    BY <2>1, ReadFactsOfState DEF IInv, TypeOK
  <2>3. CachedLength'
    BY <1>1, <2>1, <2>2 DEF IInv, CachedLength, Unasked
  <2>4. Position'
    BY <1>1 DEF Position
  <2>5. ValidCoversFile'
    BY <1>1, <1>4, <2>1 DEF IInv, ValidCoversFile
  <2>6. EmptyIndexOnlyIfBornEmpty'
    BY <1>1, <2>1 DEF IInv, EmptyIndexOnlyIfBornEmpty, Unasked
  <2> QED
    BY <1>2, <1>4, <2>3, <2>4, <2>5, <2>6 DEF IInv
<1>6. Unused'
  BY <1>1 DEF Unused
<1> QED
  BY <1>2, <1>3, <1>4, <1>5, <1>6 DEF IndexStays

(* What was cached stays right while index and cache stay what they are,   *)
(* and so do the answer given and the loop.                                *)
LEMMA CacheStays ==
  ASSUME CacheMatchesIndex, UNCHANGED <<cache, packets, variant>>
  PROVE  CacheMatchesIndex'
<1>1. PacketHeaderLen(variant)' = PacketHeaderLen(variant)
  BY DEF PacketHeaderLen, BodyOffset
<1> QED
  BY <1>1 DEF CacheMatchesIndex

LEMMA AnswerStays ==
  ASSUME UnreadableOnlyIfLast, UNCHANGED <<disk, answer, packets, valid, cut>>,
         chosen' = AsRead => chosen = AsRead
  PROVE  UnreadableOnlyIfLast'
  BY DEF UnreadableOnlyIfLast, IOErrors

LEMMA LoopStays ==
  ASSUME LoopInOrder, UNCHANGED <<loop, seen, packets>>
  PROVE  LoopInOrder'
  BY DEF LoopInOrder, Visited, Nth, AtEnd

-----------------------------------------------------------------------------
LEMMA ReadInitially == ReadInit => RInv
<1> SUFFICES ASSUME ReadInit PROVE RInv
  OBVIOUS
<1>1. IInv
  BY Initially DEF ReadInit
<1>2. packets = <<>> /\ Len(packets) = 0 /\ pc = "open"
  BY EmptySeq DEF ReadInit, Init
<1>3. seen \in Seq(1..Len(packets)) /\ DOMAIN cache = {}
  BY EmptySeq DEF ReadInit
<1>4. ReadTypeOK
  BY <1>1, <1>2, <1>3, ClientAssumption
     DEF ReadInit, ReadTypeOK, IInv, Answers, NoLoop, AtEnd, AsRead
<1>5. IndexStays
  BY <1>1 DEF IndexStays, IInv
<1> QED
  BY <1>2, <1>3, <1>4, <1>5
     DEF ReadInit, RInv, Unused, AtPacket, CacheMatchesIndex, UnreadableOnlyIfLast,
         LoopInOrder

(* The constructor while it runs, and the writer that appends. *)
LEMMA IndexKeeps == RInv /\ Index => RInv'
<1> SUFFICES ASSUME RInv, Index PROVE RInv'
  OBVIOUS
<1> USE DEF RInv
<1>1. /\ cut = Uncut /\ Next /\ IInv
      /\ UNCHANGED <<readonly, chosen, cut, step, which, want, cache, answer,
                     loop, seen, calls>>
  BY DEF Index, rvars, IndexStays
<1>2. IInv'
  BY <1>1, Inductive
<1>3. TypeOK' /\ IndexStays'
  BY <1>2 DEF IndexStays, IInv
<1>4. Len(packets') \in Nat
  BY <1>3, LenProperties DEF TypeOK
<1>5. CASE pc # "done"
  <2>1. /\ step = "idle" /\ answer.kind = "none" /\ cache = <<>> /\ loop = NoLoop
        /\ chosen = AsRead /\ which = 0 /\ seen = <<>>
    BY <1>5 DEF Unused
  <2>2. seen' \in Seq(1..Len(packets')) /\ DOMAIN cache' = {}
    BY <1>1, <2>1, EmptySeq
  <2>3. ReadTypeOK'
    BY <1>1, <1>3, <1>4, <2>1, <2>2 DEF ReadTypeOK, NoLoop, AtEnd
  <2>4. Unused' /\ AtPacket' /\ LoopInOrder'
    BY <1>1, <2>1 DEF Unused, AtPacket, LoopInOrder
  <2>5. CacheMatchesIndex' /\ UnreadableOnlyIfLast'
    BY <1>1, <2>1, <2>2 DEF CacheMatchesIndex, UnreadableOnlyIfLast
  <2> QED
    BY <1>3, <2>3, <2>4, <2>5
<1>6. CASE pc = "done"
  <2>1. UNCHANGED <<disk, pc, fd, base, compression, variant, header, swapping,
                    packets, valid>>
    BY <1>1, <1>6, DoneGrows DEF Grow
  <2>2. ReadTypeOK'
    BY <1>1, <1>3, <2>1 DEF ReadTypeOK, AtEnd
  <2>3. Unused' /\ AtPacket'
    BY <1>1, <1>6, <2>1 DEF Unused, AtPacket, PacketHeaderLen, BodyOffset, VariantNow
  <2>4. CacheMatchesIndex' /\ UnreadableOnlyIfLast' /\ LoopInOrder'
    BY <1>1, <2>1, CacheStays, AnswerStays, LoopStays
  <2> QED
    BY <1>3, <2>2, <2>3, <2>4
<1> QED
  BY <1>5, <1>6

(* The writer truncates: what is cached is not in the file any more. *)
LEMMA CutKeeps == RInv /\ Cut => RInv'
<1> SUFFICES ASSUME RInv, Cut PROVE RInv'
  OBVIOUS
<1> USE DEF RInv
<1>1. /\ pc = "done" /\ cut' \in disk.stops
      /\ UNCHANGED <<disk, size, pc, fd, base, compression, variant, header,
                     swapping, packets, valid>>
      /\ UNCHANGED <<readonly, chosen, step, which, want, cache, answer, loop,
                     seen, calls>>
  BY DEF Cut, vars
<1>2. cut' # Uncut
  <2>1. disk.stops \subseteq 0..disk.limit /\ disk.limit \in Nat
    BY SizeIsNat DEF ReadTypeOK
  <2> QED
    BY <1>1, <2>1 DEF Uncut
<1>3. TypeOK' /\ ReadTypeOK'
  BY <1>1 DEF TypeOK, ReadTypeOK, AtEnd
<1>4. IndexStays'
  BY <1>1, <1>2 DEF IndexStays, Phases, IndexTiles, PacketHeaderLen, BodyOffset
<1>5. Unused' /\ AtPacket'
  BY <1>1 DEF Unused, AtPacket, PacketHeaderLen, BodyOffset, VariantNow
<1>6. CacheMatchesIndex' /\ LoopInOrder'
  BY <1>1, CacheStays, LoopStays
<1>7. UnreadableOnlyIfLast'
  BY <1>2 DEF UnreadableOnlyIfLast
<1> QED
  BY <1>3, <1>4, <1>5, <1>6, <1>7

-----------------------------------------------------------------------------
(* The seek that get_packet() begins with. *)
LEMMA SeekPacketKeeps ==
  ASSUME RInv, pc = "done", NEW i \in 1..Len(packets), SeekPacket(i), cut' = cut,
         chosen' = chosen
  PROVE  /\ TypeOK' /\ IndexStays' /\ Unused' /\ AtPacket'
         /\ which' = i /\ step' = "header"
         /\ UNCHANGED <<disk, packets, variant, valid>>
<1> DEFINE target == packets[i].offset
           sought == SeekTo(fd, There, target)
<1>1. /\ fd' = sought /\ OnlyDescriptor
      /\ which' = i /\ step' = "header"
      /\ UNCHANGED <<disk, packets, variant, valid>>
  BY DEF SeekPacket, OnlyDescriptor
<1>2. target \in Nat /\ There \in Nat /\ fd \in FdStates
  BY ReadFactsOfState
<1>3. /\ sought \in FdStates /\ sought.pos = target
      /\ sought.len = IF fd.len = Unasked THEN There ELSE fd.len
  BY <1>2 DEF SeekTo, LengthOf, FdStates, Unasked
<1> HIDE DEF sought, target
<1>4. TypeOK' /\ IndexStays' /\ Unused'
  BY <1>1, <1>3, CallKeepsIndex
<1>5. AtPacket'
  BY <1>1, <1>3 DEF AtPacket, target
<1> QED
  BY <1>1, <1>4, <1>5

(* get_packet(std::size_t) *)
LEMMA GetPacketKeeps ==
  ASSUME RInv, NEW i \in 1..(Len(packets) + 2), GetPacket(i)
  PROVE  RInv'
<1> USE DEF RInv
<1>1. /\ pc = "done" /\ step = "idle" /\ calls' \in 0..MaxCalls
      /\ UNCHANGED <<readonly, chosen, cut, want, cache, loop, seen>>
  BY ClientAssumption DEF GetPacket, MayCall, CountCall, ReadTypeOK
<1>2. Len(packets) \in Nat /\ i \in Nat
  BY ReadFactsOfState
<1>3. CASE i \in 1..Len(packets) /\ SeekPacket(i) /\ UNCHANGED answer
  <2>1. /\ TypeOK' /\ IndexStays' /\ Unused' /\ AtPacket'
        /\ which' = i /\ step' = "header"
        /\ UNCHANGED <<disk, packets, variant, valid>>
    BY <1>1, <1>3, SeekPacketKeeps
  <2>2. ReadTypeOK'
    BY <1>1, <1>3, <2>1 DEF ReadTypeOK, AtEnd
  <2>3. CacheMatchesIndex' /\ UnreadableOnlyIfLast' /\ LoopInOrder'
    BY <1>1, <1>3, <2>1, CacheStays, AnswerStays, LoopStays
  <2> QED
    BY <2>1, <2>2, <2>3
<1>4. CASE /\ i \notin 1..Len(packets)
           /\ answer' = [kind |-> IF i = AtEnd THEN "undefined" ELSE "nullopt",
                         n    |-> i]
           /\ UNCHANGED <<vars, step, which>>
  <2>1. /\ UNCHANGED <<disk, size, pc, fd, base, compression, variant, header,
                       swapping, packets, valid, step, which>>
        /\ OnlyDescriptor /\ fd' \in FdStates
    BY <1>4, ReadFactsOfState DEF vars, OnlyDescriptor
  <2>2. TypeOK' /\ IndexStays' /\ Unused'
    BY <1>1, <2>1, CallKeepsIndex
  <2>3. answer' \in Answers /\ answer'.n = i
    BY <1>2, <1>4 DEF Answers
  <2>4. ReadTypeOK'
    BY <1>1, <2>1, <2>2, <2>3 DEF ReadTypeOK, AtEnd
  <2>5. AtPacket' /\ UnreadableOnlyIfLast'
    BY <1>1, <1>4, <2>1, <2>3 DEF AtPacket, UnreadableOnlyIfLast
  <2>6. CacheMatchesIndex' /\ LoopInOrder'
    BY <1>1, <2>1, CacheStays, LoopStays
  <2> QED
    BY <2>2, <2>4, <2>5, <2>6
<1> QED
  BY <1>3, <1>4 DEF GetPacket

(* Coming to one packet more. *)
LEMMA OneMore ==
  ASSUME NEW n \in Nat
  PROVE  Append([k \in 1..n |-> Nth(k)], Nth(n + 1)) = [k \in 1..(n + 1) |-> Nth(k)]
<1> DEFINE S == {Nth(k) : k \in 1..(n + 1)}
           s == [k \in 1..n |-> Nth(k)]
           a == Append(s, Nth(n + 1))
<1>1. /\ \A k \in 1..(n + 1) : Nth(k) \in S
      /\ n + 1 \in 1..(n + 1) /\ 1..n \subseteq 1..(n + 1)
  OBVIOUS
<1> HIDE DEF S
<1>2. s \in Seq(S) /\ Len(s) = n /\ \A k \in 1..n : s[k] = Nth(k)
  <2>1. s \in [1..n -> S]
    BY <1>1
  <2> QED
    BY <2>1, LenProperties
<1> HIDE DEF s
<1>3. /\ a \in Seq(S) /\ Len(a) = n + 1
      /\ \A k \in 1..n : a[k] = Nth(k)
      /\ a[n + 1] = Nth(n + 1)
  BY <1>1, <1>2, AppendProperties
<1> HIDE DEF a
<1>4. a = [k \in 1..Len(a) |-> a[k]]
  BY <1>3
<1>5. \A k \in 1..(n + 1) : a[k] = Nth(k)
  BY <1>3
<1>6. a = [k \in 1..(n + 1) |-> Nth(k)]
  BY <1>3, <1>4, <1>5
<1> QED
  BY <1>6 DEF a, s

(* The loop asks for its next packet. *)
LEMMA DereferenceKeeps == RInv /\ Dereference => RInv'
<1> SUFFICES ASSUME RInv, Dereference PROVE RInv'
  OBVIOUS
<1> USE DEF RInv
<1> DEFINE i == loop.at
<1>1. /\ pc = "done" /\ i \in 1..Len(packets) /\ ~loop.called /\ SeekPacket(i)
      /\ loop' = [loop EXCEPT !.called = TRUE] /\ seen' = Append(seen, i)
      /\ UNCHANGED <<readonly, chosen, cut, want, cache, answer, calls>>
  BY DEF Dereference, MayCall
<1>2. Len(packets) \in Nat /\ i \in Nat
  BY <1>1, ReadFactsOfState
<1>3. /\ TypeOK' /\ IndexStays' /\ Unused' /\ AtPacket'
      /\ which' = i /\ step' = "header"
      /\ UNCHANGED <<disk, packets, variant, valid>>
  BY <1>1, SeekPacketKeeps
<1>4. /\ loop' = [at |-> i, called |-> TRUE, back |-> loop.back]
      /\ loop.called \in BOOLEAN /\ loop.back \in BOOLEAN
  BY <1>1 DEF ReadTypeOK
<1> DEFINE v == Visited
<1>5. seen' = [k \in 1..(v + 1) |-> Nth(k)] /\ Visited' = v + 1 /\ v \in Nat
  <2>1. seen = [k \in 1..v |-> Nth(k)]
    BY <1>1, <1>2 DEF LoopInOrder, NoLoop
  <2>2. v \in Nat /\ Nth(v + 1) = i /\ Visited' = v + 1
    BY <1>1, <1>2, <1>3, <1>4 DEF Visited, Nth, AtEnd
  <2> HIDE DEF v
  <2> QED
    BY <1>1, <2>1, <2>2, OneMore
<1>6. seen' \in Seq(1..Len(packets))
  <2>1. seen \in Seq(1..Len(packets))
    BY DEF ReadTypeOK
  <2> QED
    BY <1>1, <2>1, AppendProperties
<1>7. ReadTypeOK'
  <2>a. i \in 0..(Len(packets) + 1) /\ i \in 0..Len(packets)
    BY <1>1, <1>2
  <2> HIDE DEF i
  <2>b. AtEnd' = Len(packets) + 1 /\ Len(packets') = Len(packets)
    BY <1>3 DEF AtEnd
  <2>1. loop' \in [at : 0..AtEnd', called : BOOLEAN, back : BOOLEAN] /\ which' \in 0..Len(packets')
    BY <1>3, <1>4, <2>a, <2>b
  <2>2. seen' \in Seq(1..Len(packets'))
    BY <1>3, <1>6
  <2> QED
    BY <1>1, <1>3, <2>1, <2>2 DEF ReadTypeOK
<1>8. CacheMatchesIndex' /\ UnreadableOnlyIfLast'
  BY <1>1, <1>3, CacheStays, AnswerStays
<1>9. LoopInOrder'
  BY <1>1, <1>2, <1>3, <1>4, <1>5 DEF LoopInOrder, Nth, AtEnd
<1> QED
  BY <1>3, <1>7, <1>8, <1>9

-----------------------------------------------------------------------------
(* get_packet() is only under way in an object that is in use. *)
LEMMA ReadingWhenDone ==
  ASSUME RInv, step # "idle"
  PROVE  pc = "done" /\ which \in 1..Len(packets)
  BY DEF RInv, Unused, AtPacket

(* The packet header: the length it holds is the one in the index. *)
LEMMA PacketHeaderKeeps == RInv /\ ReadPacketHeader => RInv'
<1> SUFFICES ASSUME RInv, ReadPacketHeader PROVE RInv'
  OBVIOUS
<1> USE DEF RInv
<1> DEFINE n    == PacketHeaderLen(VariantNow)
           read == ReadBytes(fd, There, n)
<1>1. /\ step = "header" /\ Complete(fd, There, n) /\ fd' = read
      /\ want' = disk.word[fd.pos + LenOffset] /\ step' = "body"
      /\ OnlyDescriptor
      /\ UNCHANGED <<disk, packets, variant, valid>>
      /\ UNCHANGED <<readonly, chosen, cut, which, cache, answer, loop, seen, calls>>
  BY DEF ReadPacketHeader, ReadsAll, OnlyDescriptor
<1>2. pc = "done" /\ which \in 1..Len(packets) /\ fd.pos = packets[which].offset
  BY <1>1, ReadingWhenDone DEF AtPacket
<1>3. n \in Nat /\ n # 0 /\ There \in Nat /\ fd \in FdStates
  BY ReadFactsOfState
<1> HIDE DEF n
<1>4. read \in FdStates /\ read.len = fd.len
  BY <1>3, ReadFacts
<1>5. read.pos = fd.pos + n
  BY <1>1 DEF Complete, ReadBytes
<1> HIDE DEF read
<1>6. TypeOK' /\ IndexStays' /\ Unused'
  BY <1>1, <1>2, <1>4, CallKeepsIndex
<1>7. want' = packets[which].len /\ want' \in Nat
  BY <1>1, <1>2, ReadFactsOfState DEF IndexStays, IndexTiles
<1>8. n' = n
  BY <1>1 DEF n, PacketHeaderLen, BodyOffset, VariantNow
<1>9. AtPacket'
  BY <1>1, <1>2, <1>5, <1>7, <1>8 DEF AtPacket, n
<1>10. ReadTypeOK'
  BY <1>1, <1>6, <1>7 DEF ReadTypeOK, AtEnd
<1>11. CacheMatchesIndex' /\ UnreadableOnlyIfLast' /\ LoopInOrder'
  BY <1>1, CacheStays, AnswerStays, LoopStays
<1> QED
  BY <1>6, <1>9, <1>10, <1>11

(* The data: what goes into the storage is what its index entry names. *)
LEMMA PacketBodyKeeps == RInv /\ ReadPacketBody => RInv'
<1> SUFFICES ASSUME RInv, ReadPacketBody PROVE RInv'
  OBVIOUS
<1> USE DEF RInv
<1> DEFINE new  == [from   |-> fd.pos, len |-> want,
                    head   |-> PacketHeaderLen(VariantNow),
                    edited |-> FALSE]
           read == ReadBytes(fd, There, want)
<1>1. /\ step = "body" /\ step' = "idle" /\ fd' = read
      /\ answer' = [kind |-> "packet", n |-> which]
      /\ OnlyDescriptor
      /\ UNCHANGED <<disk, packets, variant, valid>>
      /\ UNCHANGED <<readonly, chosen, cut, which, want, loop, seen, calls>>
  BY DEF ReadPacketBody, ReadsAll, OnlyDescriptor, Answer
<1>2. cache' = [j \in DOMAIN cache \cup {which} |-> IF j = which THEN new ELSE cache[j]]
  BY DEF ReadPacketBody
<1>3. /\ pc = "done" /\ which \in 1..Len(packets)
      /\ want = packets[which].len
      /\ fd.pos = packets[which].offset + PacketHeaderLen(VariantNow)
  BY <1>1, ReadingWhenDone DEF AtPacket
<1>4. /\ fd.pos \in Nat /\ fd \in FdStates /\ There \in Nat /\ want \in Nat
      /\ Len(packets) \in Nat
      /\ PacketHeaderLen(VariantNow) \in Nat /\ PacketHeaderLen(variant) \in Nat
      /\ packets[which].offset \in Nat /\ packets[which].len \in Nat
  BY <1>3, ReadFactsOfState DEF ReadTypeOK
<1>5. read \in FdStates /\ read.len = fd.len
  BY <1>4, ReadFacts
<1>6. /\ new \in CachedPacket /\ new.from = fd.pos /\ new.len = want
      /\ new.head = PacketHeaderLen(VariantNow)
  BY <1>4 DEF CachedPacket
<1> HIDE DEF read, new
<1>7. TypeOK' /\ IndexStays' /\ Unused'
  BY <1>1, <1>3, <1>5, CallKeepsIndex
<1>8. DOMAIN cache \subseteq 1..Len(packets) /\ \A j \in DOMAIN cache : cache[j] \in CachedPacket
  BY DEF ReadTypeOK
<1>9. ReadTypeOK'
  <2>1. /\ DOMAIN cache' \subseteq 1..Len(packets')
        /\ \A j \in DOMAIN cache' : cache'[j] \in CachedPacket
    BY <1>1, <1>2, <1>3, <1>6, <1>8
  <2>2. answer' \in Answers
    BY <1>1, <1>3, <1>4 DEF Answers
  <2> QED
    BY <1>1, <1>7, <2>1, <2>2 DEF ReadTypeOK, AtEnd
<1>10. AtPacket' /\ UnreadableOnlyIfLast'
  BY <1>1 DEF AtPacket, UnreadableOnlyIfLast
<1>11. LoopInOrder'
  BY <1>1, LoopStays
<1>12. CacheMatchesIndex'
  <2>1. PacketHeaderLen(variant)' = PacketHeaderLen(variant)
    BY <1>1 DEF PacketHeaderLen, BodyOffset
  <2>2. SUFFICES ASSUME NEW j \in DOMAIN cache',
                        cache'[j].head = PacketHeaderLen(variant)
                 PROVE  /\ cache'[j].from = packets[j].offset + cache'[j].head
                        /\ cache'[j].len = packets[j].len
                        /\ j < Len(packets) =>
                             cache'[j].from + cache'[j].len = packets[j+1].offset
    BY <1>1, <2>1, <2>2 DEF CacheMatchesIndex
  <2>3. CASE j = which
    <3>1. cache'[j] = new
      BY <1>2, <2>3
    <3>2. /\ new.from = packets[which].offset + PacketHeaderLen(variant)
          /\ new.len = packets[which].len
          /\ new.head = PacketHeaderLen(variant)
      BY <1>3, <1>6, <2>2, <3>1
    <3>3. which < Len(packets) =>
            packets[which+1].offset
              = packets[which].offset + PacketHeaderLen(variant) + packets[which].len
      <4>1. which < Len(packets) =>
              which + 1 \in 1..Len(packets) /\ which + 1 # 1 /\ (which + 1) - 1 = which
        BY <1>3, <1>4
      <4> QED
        BY <4>1 DEF IndexStays, IndexTiles
    <3> QED
      BY <2>3, <3>1, <3>2, <3>3
  <2>4. CASE j # which
    <3>1. j \in DOMAIN cache /\ cache'[j] = cache[j]
      BY <1>2, <2>4
    <3> QED
      BY <2>2, <3>1 DEF CacheMatchesIndex
  <2> QED
    BY <2>3, <2>4
<1> QED
  BY <1>7, <1>9, <1>10, <1>11, <1>12

(* A packet that is missing from a file that was not cut, read with the    *)
(* header it was indexed with, is the last one of an invalid object: every *)
(* other ends where the next one's captured length could be read, and the  *)
(* last one of a valid object ends within the file.                        *)
LEMMA MissingIsLast ==
  ASSUME RInv, PacketMissing, ~IOErrors, cut = Uncut, chosen = AsRead
  PROVE  ~valid /\ which = Len(packets)
<1> DEFINE p == packets[which]
           h == PacketHeaderLen(variant)
<1>1. There = size /\ VariantNow = variant /\ IInv
  BY DEF RInv, IndexStays, There, VariantNow
<1>2. which \in 1..Len(packets) /\ step \in {"header", "body"}
  BY ReadingWhenDone DEF PacketMissing
<1>3. /\ Len(packets) \in Nat /\ p.offset \in Nat /\ p.len \in Nat
      /\ fd \in FdStates /\ size \in Nat /\ h \in Nat /\ want \in Nat
  BY <1>2, ReadFactsOfState DEF RInv, ReadTypeOK
<1>4. p.offset + h + p.len > size
  <2>1. CASE step = "header"
    <3>1. ~Complete(fd, size, h) /\ fd.pos = p.offset
      BY <1>1, <2>1 DEF PacketMissing, LacksSome, RInv, AtPacket
    <3> HIDE DEF p, h
    <3>2. fd.pos + h > size
      BY <1>3, <3>1, ShortRead
    <3> QED
      BY <1>3, <3>1, <3>2
  <2>2. CASE step = "body"
    <3>1. ~Complete(fd, size, want) /\ fd.pos = p.offset + h /\ want = p.len
      BY <1>1, <2>2 DEF PacketMissing, LacksSome, RInv, AtPacket
    <3> HIDE DEF p, h
    <3>2. fd.pos + want > size
      BY <1>3, <3>1, ShortRead
    <3> QED
      BY <1>3, <3>1, <3>2
  <2> QED
    BY <1>2, <2>1, <2>2
<1>5. which = Len(packets)
  <2>1. SUFFICES ASSUME which # Len(packets) PROVE FALSE
    OBVIOUS
  <2>2. which + 1 \in 1..Len(packets) /\ which + 1 # 1 /\ (which + 1) - 1 = which
    BY <1>2, <1>3, <2>1
  <2>3. /\ packets[which+1].offset = p.offset + h + p.len
        /\ packets[which+1].offset + LenOffset + 4 <= size
    BY <2>2 DEF RInv, IndexStays, IndexTiles
  <2> HIDE DEF p, h
  <2> QED
    BY <1>3, <1>4, <2>3 DEF LenOffset
<1>6. ~valid
  <2>1. SUFFICES ASSUME valid PROVE FALSE
    OBVIOUS
  <2>2. End <= size
    BY <1>1, <2>1 DEF IInv, ValidCoversFile
  <2>3. End = p.offset + h + p.len
    BY <1>2, <1>3, <1>5, EmptySeq DEF End
  <2> HIDE DEF p, h
  <2> QED
    BY <1>3, <1>4, <2>2, <2>3
<1> QED
  BY <1>5, <1>6

(* get_packet() gives up. *)
LEMMA PacketMissingKeeps == RInv /\ PacketMissing => RInv'
<1> SUFFICES ASSUME RInv, PacketMissing PROVE RInv'
  OBVIOUS
<1> USE DEF RInv
<1>1. /\ step # "idle" /\ step' = "idle"
      /\ answer' = [kind |-> "nullopt", n |-> which]
      /\ OnlyDescriptor
      /\ UNCHANGED <<disk, packets, variant, valid>>
      /\ UNCHANGED <<readonly, chosen, cut, which, want, cache, loop, seen, calls>>
  BY DEF PacketMissing, OnlyDescriptor, Answer
<1>2. pc = "done" /\ which \in 1..Len(packets) /\ Len(packets) \in Nat
  BY <1>1, ReadingWhenDone, ReadFactsOfState
<1>3. fd' \in FdStates /\ fd'.len = fd.len
  <2>1. /\ fd \in FdStates /\ There \in Nat /\ want \in Nat
        /\ PacketHeaderLen(VariantNow) \in Nat
    BY ReadFactsOfState DEF ReadTypeOK
  <2>2. \/ fd' = fd
        \/ fd' = ReadBytes(fd, There, PacketHeaderLen(VariantNow))
        \/ fd' = ReadBytes(fd, There, want)
    BY DEF PacketMissing, LacksSome
  <2>3. \A n \in Nat : /\ ReadBytes(fd, There, n) \in FdStates
                       /\ ReadBytes(fd, There, n).len = fd.len
    BY <2>1, ReadFacts
  <2>4. CASE fd' = ReadBytes(fd, There, PacketHeaderLen(VariantNow))
    BY <2>1, <2>3, <2>4
  <2>5. CASE fd' = ReadBytes(fd, There, want)
    BY <2>1, <2>3, <2>5
  <2> QED
    BY <2>1, <2>2, <2>4, <2>5
<1>4. TypeOK' /\ IndexStays' /\ Unused'
  BY <1>1, <1>2, <1>3, CallKeepsIndex
<1>5. ReadTypeOK'
  <2>1. answer' \in Answers
    BY <1>1, <1>2 DEF Answers
  <2> QED
    BY <1>1, <1>4, <2>1 DEF ReadTypeOK, AtEnd
<1>6. AtPacket'
  BY <1>1 DEF AtPacket
<1>7. UnreadableOnlyIfLast'
  BY <1>1, MissingIsLast DEF UnreadableOnlyIfLast, IOErrors
<1>8. CacheMatchesIndex' /\ LoopInOrder'
  BY <1>1, CacheStays, LoopStays
<1> QED
  BY <1>4, <1>5, <1>6, <1>7, <1>8

-----------------------------------------------------------------------------
(* The steps of the loop, and calls that look at no packet: the file is at *)
(* most rewound.                                                           *)
LEMMA OtherCallsKeep ==
  RInv /\ (BeginLoop \/ Advance \/ Retreat \/ EndLoop \/ SetVariant \/ Edit \/ Save) => RInv'
<1> SUFFICES ASSUME RInv,
                    BeginLoop \/ Advance \/ Retreat \/ EndLoop \/ SetVariant \/ Edit \/ Save
             PROVE  RInv'
  OBVIOUS
<1> USE DEF RInv
<1>1. /\ pc = "done" /\ step = "idle" /\ step' = "idle" /\ OnlyDescriptor
      /\ UNCHANGED <<disk, packets, variant, valid>>
      /\ UNCHANGED <<readonly, cut, which, want, answer>>
  BY DEF BeginLoop, Advance, Retreat, EndLoop, SetVariant, Edit, Save, MayCall,
     OnlyDescriptor, vars
<1>2. calls' \in 0..MaxCalls
  BY ClientAssumption DEF BeginLoop, Advance, Retreat, EndLoop, SetVariant, Edit, Save,
     CountCall, ReadTypeOK
<1>3. /\ fd' \in FdStates
      /\ fd'.len = fd.len \/ (fd.len = Unasked /\ fd'.len = There)
  <2>1. fd \in FdStates /\ There \in Nat
    BY ReadFactsOfState
  <2>2. fd' = fd \/ fd' = SeekTo(fd, There, 0)
    BY DEF BeginLoop, Advance, Retreat, EndLoop, SetVariant, Edit, Save, vars
  <2>3. /\ SeekTo(fd, There, 0) \in FdStates
        /\ SeekTo(fd, There, 0).len = IF fd.len = Unasked THEN There ELSE fd.len
    BY <2>1 DEF SeekTo, LengthOf, FdStates, Unasked
  <2> QED
    BY <2>1, <2>2, <2>3
<1>4. TypeOK' /\ IndexStays' /\ Unused'
  BY <1>1, <1>3, CallKeepsIndex
<1>5. AtPacket'
  BY <1>1 DEF AtPacket
<1>6. UnreadableOnlyIfLast'
  <2>1. chosen' = AsRead => chosen = AsRead
    BY DEF BeginLoop, Advance, Retreat, EndLoop, SetVariant, Edit, Save, Variants, AsRead
  <2> QED
    BY <1>1, <2>1, AnswerStays
<1>7. Len(packets) \in Nat
  BY ReadFactsOfState
<1>8. ASSUME UNCHANGED <<cache, loop, seen>>, chosen' \in Variants \cup {AsRead}
      PROVE  RInv'
  <2>1. ReadTypeOK'
    BY <1>1, <1>2, <1>4, <1>8 DEF ReadTypeOK, AtEnd
  <2>2. CacheMatchesIndex' /\ LoopInOrder'
    BY <1>1, <1>8, CacheStays, LoopStays
  <2> QED
    BY <1>4, <1>5, <1>6, <2>1, <2>2
<1>9. ASSUME UNCHANGED <<cache, chosen>>,
             loop' \in [at : 0..AtEnd, called : BOOLEAN, back : BOOLEAN],
             seen' \in Seq(1..Len(packets)), LoopInOrder'
      PROVE  RInv'
  <2>1. ReadTypeOK'
    BY <1>1, <1>2, <1>4, <1>9 DEF ReadTypeOK, AtEnd
  <2>2. CacheMatchesIndex'
    BY <1>1, <1>9, CacheStays
  <2> QED
    BY <1>4, <1>5, <1>6, <1>9, <2>1, <2>2
<1>10. CASE SetVariant
  BY <1>8, <1>10 DEF SetVariant
<1>11. CASE Save
  BY <1>8, <1>11 DEF Save, ReadTypeOK
<1>12. CASE BeginLoop
  <2>1. PICK back \in BOOLEAN :
          loop' = [at |-> IF back THEN AtEnd ELSE 1, called |-> FALSE, back |-> back]
    BY <1>12 DEF BeginLoop
  <2>2. seen' = <<>> /\ UNCHANGED <<cache, chosen>>
    BY <1>12 DEF BeginLoop
  <2>3. LoopInOrder'
    <3>1. Visited' = 0 /\ loop'.at \in 1..(Len(packets) + 1) /\ ~loop'.called
      BY <1>1, <1>7, <2>1 DEF Visited, AtEnd
    <3>2. <<>> = [n \in 1..0 |-> Nth(n)']
      OBVIOUS
    <3> QED
      BY <1>1, <2>2, <3>1, <3>2 DEF LoopInOrder, AtEnd
  <2>4. seen' \in Seq(1..Len(packets))
    BY <2>2, EmptySeq
  <2> QED
    BY <1>7, <1>9, <2>1, <2>2, <2>3, <2>4 DEF AtEnd
<1>13. ASSUME Advance \/ Retreat PROVE RInv'
  <2>1. /\ loop # NoLoop /\ UNCHANGED <<cache, chosen, seen>>
        /\ loop \in [at : 0..AtEnd, called : BOOLEAN, back : BOOLEAN]
    BY <1>13 DEF Advance, Retreat, NoLoop, ReadTypeOK
  <2>2. /\ loop.at \in 1..(Len(packets) + 1)
        /\ loop.called => loop.at \in 1..Len(packets)
        /\ seen = [n \in 1..Visited |-> Nth(n)]
    BY <2>1 DEF LoopInOrder, AtEnd
  <2> DEFINE i == IF loop.back THEN loop.at - 1 ELSE loop.at + 1
  <2>3. /\ i \in 1..(Len(packets) + 1)
        /\ loop' = [at |-> i, called |-> FALSE, back |-> loop.back]
        /\ loop.called \/ (loop.back /\ loop.at = AtEnd)
    <3>1. CASE Advance
      <4>1. loop.called /\ ~loop.back /\ loop.at # AtEnd /\ i = loop.at + 1
        BY <1>7, <3>1, <2>2 DEF Advance, AtEnd
      <4>2. loop' = [loop EXCEPT !.at = loop.at + 1, !.called = FALSE]
        BY <3>1, <4>1 DEF Advance
      <4>3. loop' = [at |-> loop.at + 1, called |-> FALSE, back |-> loop.back]
        BY <2>1, <4>2
      <4> QED
        BY <1>7, <2>2, <4>1, <4>3
    <3>2. CASE Retreat
      <4>1. /\ loop.back /\ loop.at # 1 /\ i = loop.at - 1
            /\ loop.called \/ loop.at = AtEnd
            /\ loop' = [loop EXCEPT !.at = loop.at - 1, !.called = FALSE]
        BY <3>2 DEF Retreat
      <4>2. loop' = [at |-> loop.at - 1, called |-> FALSE, back |-> loop.back]
        BY <2>1, <4>1
      <4>3. loop.at - 1 \in 1..(Len(packets) + 1)
        BY <1>7, <2>2, <4>1
      <4> HIDE DEF i
      <4> QED
        BY <4>1, <4>2, <4>3
    <3> QED
      BY <1>13, <3>1, <3>2
  <2>4. Visited' = Visited /\ \A n : Nth(n)' = Nth(n)
    BY <1>1, <1>7, <2>1, <2>2, <2>3 DEF Visited, Nth, AtEnd
  <2>5. LoopInOrder'
    BY <1>1, <2>1, <2>2, <2>3, <2>4 DEF LoopInOrder, AtEnd
  <2>6. /\ seen' \in Seq(1..Len(packets))
        /\ loop' \in [at : 0..AtEnd, called : BOOLEAN, back : BOOLEAN]
    BY <1>7, <2>1, <2>3 DEF ReadTypeOK, AtEnd
  <2> QED
    BY <1>9, <2>1, <2>5, <2>6
<1>14. CASE EndLoop
  <2>1. loop' = NoLoop /\ UNCHANGED <<cache, chosen, seen>>
    BY <1>14 DEF EndLoop
  <2>2. seen' \in Seq(1..Len(packets)) /\ loop' \in [at : 0..AtEnd, called : BOOLEAN, back : BOOLEAN]
    BY <1>7, <2>1 DEF ReadTypeOK, NoLoop, AtEnd
  <2> QED
    BY <1>9, <2>1, <2>2 DEF LoopInOrder
<1>15. CASE Edit
  <2>1. PICK j \in DOMAIN cache : cache' = [cache EXCEPT ![j].edited = TRUE]
    BY <1>15 DEF Edit
  <2>2. UNCHANGED <<chosen, loop, seen>>
    BY <1>15 DEF Edit
  <2>3. /\ DOMAIN cache' = DOMAIN cache
        /\ \A k \in DOMAIN cache : /\ cache'[k].from = cache[k].from
                                   /\ cache'[k].len = cache[k].len
                                   /\ cache'[k].head = cache[k].head
                                   /\ cache'[k] \in CachedPacket
    BY <2>1 DEF ReadTypeOK, CachedPacket
  <2>4. ReadTypeOK'
    BY <1>1, <1>2, <1>4, <2>2, <2>3 DEF ReadTypeOK, AtEnd
  <2>5. CacheMatchesIndex'
    BY <1>1, <2>3 DEF CacheMatchesIndex, PacketHeaderLen, BodyOffset
  <2>6. LoopInOrder'
    BY <1>1, <2>2, LoopStays
  <2> QED
    BY <1>4, <1>5, <1>6, <2>4, <2>5, <2>6
<1> QED
  BY <1>10, <1>11, <1>12, <1>13, <1>14, <1>15

-----------------------------------------------------------------------------
LEMMA ReadInductive == RInv /\ [ReadNext]_allvars => RInv'
<1>1. RInv /\ ReadNext => RInv'
  BY IndexKeeps, CutKeeps, GetPacketKeeps, DereferenceKeeps, PacketHeaderKeeps,
     PacketBodyKeeps, PacketMissingKeeps, OtherCallsKeep
     DEF ReadNext, ReadCall, LoopStep, Client
<1>2. RInv /\ UNCHANGED allvars => RInv'
  <2> SUFFICES ASSUME RInv, UNCHANGED allvars PROVE RInv'
    OBVIOUS
  <2> USE DEF RInv
  <2>1. /\ UNCHANGED <<disk, size, pc, fd, base, compression, variant, header,
                       swapping, packets, valid>>
        /\ UNCHANGED <<readonly, chosen, cut, step, which, want, cache, answer,
                       loop, seen, calls>>
    BY DEF allvars, vars, rvars
  <2>2. UNCHANGED vars
    BY DEF allvars
  <2>3. cut = Uncut => IInv'
    BY <2>2, Inductive DEF IndexStays
  <2>4. TypeOK' /\ ReadTypeOK'
    BY <2>1 DEF TypeOK, ReadTypeOK, AtEnd
  <2>5. IndexStays'
    BY <2>1, <2>3 DEF IndexStays, Phases, IndexTiles, PacketHeaderLen, BodyOffset
  <2>6. Unused' /\ AtPacket'
    BY <2>1 DEF Unused, AtPacket, PacketHeaderLen, BodyOffset, VariantNow
  <2>7. CacheMatchesIndex' /\ UnreadableOnlyIfLast' /\ LoopInOrder'
    BY <2>1, CacheStays, AnswerStays, LoopStays
  <2> QED
    BY <2>4, <2>5, <2>6, <2>7
<1> QED
  BY <1>1, <1>2

LEMMA ReadAlways == ReadSpec => []RInv
  BY ReadInitially, ReadInductive, PTL DEF ReadSpec

(* A capture in use keeps its types, in an object that is not valid and in *)
(* a file that was cut too: get_packet() never looks up a packet that is   *)
(* not in the index except by the number one past its end.                 *)
THEOREM ReadTypeCorrect == ReadSpec => []ReadTypeOK
<1>1. RInv => ReadTypeOK
  BY DEF RInv
<1> QED
  BY <1>1, ReadAlways, PTL

(* Whatever was read before with the one descriptor, and whatever became   *)
(* of the file, a packet get_packet() hands out holds the bytes its index  *)
(* entry describes.                                                        *)
THEOREM CacheCorrect == ReadSpec => []CacheMatchesIndex
<1>1. RInv => CacheMatchesIndex
  BY DEF RInv
<1> QED
  BY <1>1, ReadAlways, PTL

(* In a file that only grows get_packet() gives every packet of a valid    *)
(* capture and, of an invalid one, every packet but perhaps the last.      *)
THEOREM UnreadableCorrect == ReadSpec => []UnreadableOnlyIfLast
<1>1. RInv => UnreadableOnlyIfLast
  BY DEF RInv
<1> QED
  BY <1>1, ReadAlways, PTL

(* A loop that has reached its end asked for every packet once, in order,  *)
(* or in the reverse order if it walked back.                              *)
THEOREM LoopCorrect == ReadSpec => []LoopVisitsAll
<1>1. RInv => LoopVisitsAll
  <2> SUFFICES ASSUME RInv, LoopDone
               PROVE  seen = [n \in 1..Len(packets) |-> Nth(n)]
    BY DEF LoopVisitsAll
  <2>1. Len(packets) \in Nat /\ AtEnd = Len(packets) + 1
    BY ReadFactsOfState DEF AtEnd
  <2>2. loop # NoLoop /\ loop \in [at : 0..AtEnd, called : BOOLEAN, back : BOOLEAN]
    BY <2>1 DEF NoLoop, LoopDone, RInv, ReadTypeOK
  <2>3. loop.called => loop.at \in 1..Len(packets)
    BY <2>2 DEF RInv, LoopInOrder
  <2>4. Visited = Len(packets)
    BY <2>1, <2>2, <2>3 DEF LoopDone, Visited
  <2> QED
    BY <2>2, <2>4 DEF RInv, LoopInOrder
<1> QED
  BY <1>1, ReadAlways, PTL

(* Nothing but reading the same packet again, in full, takes an edit away. *)
THEOREM EditsCorrect == ReadSpec => EditsLostOnlyByRereading
<1> DEFINE Kept == \A i \in DOMAIN cache :
                     cache[i].edited /\ ~cache'[i].edited
                       => step = "body" /\ which = i
                            /\ answer' = [kind |-> "packet", n |-> i]
<1>1. RInv /\ [ReadNext]_allvars => [Kept]_allvars
  <2> SUFFICES ASSUME RInv, ReadNext PROVE Kept
    OBVIOUS
  <2>1. CASE ReadPacketBody
    BY <2>1 DEF ReadPacketBody, Answer
  <2>2. CASE Edit
    BY <2>2 DEF Edit, RInv, ReadTypeOK, CachedPacket
  <2>3. CASE ~ReadPacketBody /\ ~Edit
    <3>1. UNCHANGED cache
      BY <2>3 DEF ReadNext, Index, rvars, Cut, ReadCall, ReadPacketHeader,
         PacketMissing, LoopStep, Dereference, Advance, Retreat, EndLoop, Client, GetPacket,
         BeginLoop, SetVariant, Save
    <3> QED
      BY <3>1
  <2> QED
    BY <2>1, <2>2, <2>3
<1> QED
  BY <1>1, ReadAlways, PTL DEF ReadSpec, EditsLostOnlyByRereading

-----------------------------------------------------------------------------
(* What is left of the calls is a number, and how it is made up.           *)
LEMMA CallsLeftKnown ==
  ASSUME RInv
  PROVE  /\ AtEnd \in Nat /\ CallsLeft \in Nat
         /\ CallsLeft = CallLeft + LoopLeft
         /\ CallLeft \in Nat /\ LoopLeft \in Nat
         /\ loop = [at |-> loop.at, called |-> loop.called, back |-> loop.back]
         /\ loop.at \in 0..AtEnd /\ loop.called \in BOOLEAN /\ loop.back \in BOOLEAN
         /\ step = "idle"   => CallLeft = 0
         /\ step = "body"   => CallLeft = 1
         /\ step = "header" => CallLeft = 2
<1>1. Len(packets) \in Nat /\ AtEnd = Len(packets) + 1
  BY ReadFactsOfState DEF AtEnd
<1>2. loop \in [at : 0..AtEnd, called : BOOLEAN, back : BOOLEAN]
  BY DEF RInv, ReadTypeOK
<1>3. loop # NoLoop /\ loop.called => loop.at \in 1..Len(packets)
  BY DEF RInv, LoopInOrder
<1>4. loop.at # 0 => loop # NoLoop
  BY DEF NoLoop
<1>5. LoopLeft \in Nat
  BY <1>1, <1>2, <1>3, <1>4 DEF LoopLeft
<1>6. /\ step = "idle"   => CallLeft = 0
      /\ step = "body"   => CallLeft = 1
      /\ step = "header" => CallLeft = 2
      /\ CallLeft \in Nat
  BY DEF CallLeft, RInv, ReadTypeOK
<1> QED
  BY <1>1, <1>2, <1>5, <1>6 DEF CallsLeft

(* Only the loop's own steps and the index it walks along count for it.    *)
LEMMA LoopLeftStays ==
  ASSUME UNCHANGED <<loop, packets>>
  PROVE  LoopLeft' = LoopLeft
  BY DEF LoopLeft, AtEnd

(* A step of the loop costs it one more than the call it may begin adds.   *)
LEMMA LoopStepShrinks ==
  ASSUME RInv, LoopStep
  PROVE  /\ step = "idle"
         /\ \/ step' = "header" /\ LoopLeft' + 2 < LoopLeft
            \/ step' = "idle" /\ LoopLeft' < LoopLeft
<1> DEFINE N == Len(packets)
           a == loop.at
<1>1. N \in Nat /\ AtEnd = N + 1 /\ packets' = packets
  BY ReadFactsOfState DEF AtEnd, LoopStep, Dereference, SeekPacket, Advance,
     Retreat, EndLoop, vars
<1>2. AtEnd' = N + 1
  BY <1>1 DEF AtEnd
<1>3. /\ loop = [at |-> a, called |-> loop.called, back |-> loop.back]
      /\ a \in 0..(N + 1) /\ loop.called \in BOOLEAN /\ loop.back \in BOOLEAN
      /\ step = "idle"
  BY <1>1, CallsLeftKnown DEF LoopStep, Dereference, Advance, Retreat, EndLoop, MayCall
<1>4. a # 0 /\ loop.called => a \in 1..N
  BY DEF RInv, LoopInOrder, NoLoop
<1>5. LoopLeft = IF a = 0 THEN 0
                 ELSE IF loop.back
                 THEN 4 * (a - 1) + (IF loop.called \/ a = N + 1 THEN 1 ELSE 4)
                 ELSE IF loop.called THEN 4 * (N + 1 - a) - 2
                 ELSE 4 * (N + 1 - a) + 1
  BY <1>1, <1>3 DEF LoopLeft
<1>6. CASE Dereference
  <2>1. /\ a \in 1..N /\ ~loop.called /\ step' = "header"
        /\ loop' = [loop EXCEPT !.called = TRUE]
    BY <1>6 DEF Dereference, SeekPacket
  <2>2. loop'.at = a /\ loop'.called /\ loop'.back = loop.back
    BY <1>3, <2>1
  <2>3. LoopLeft' = IF loop.back THEN 4 * (a - 1) + 1 ELSE 4 * (N + 1 - a) - 2
    BY <1>1, <1>2, <2>1, <2>2 DEF LoopLeft
  <2>4. LoopLeft = IF loop.back THEN 4 * (a - 1) + 4 ELSE 4 * (N + 1 - a) + 1
    BY <1>1, <1>5, <2>1
  <2> HIDE DEF N, a
  <2> QED
    BY <1>1, <1>3, <2>1, <2>3, <2>4
<1>7. CASE Advance
  <2>1. /\ loop.called /\ ~loop.back /\ step' = step
        /\ loop' = [loop EXCEPT !.at = IF a # AtEnd THEN a + 1 ELSE a,
                                !.called = FALSE]
    BY <1>7 DEF Advance
  <2>2. a \in 1..N
    <3>1. loop # NoLoop
      BY <2>1 DEF NoLoop
    <3> QED
      BY <2>1, <3>1 DEF RInv, LoopInOrder
  <2>3. loop'.at = a + 1 /\ ~loop'.called /\ ~loop'.back
    BY <1>1, <1>3, <2>1, <2>2
  <2>4. LoopLeft' = 4 * ((N + 1) - (a + 1)) + 1
    <3>1. loop'.at # 0
      BY <1>1, <2>2, <2>3
    <3> DEFINE b == a + 1
               M == N + 1
    <3>2. loop'.at = b /\ AtEnd' = M /\ b # 0
      BY <1>2, <2>3, <3>1
    <3> HIDE DEF N, a, b, M
    <3>3. LoopLeft' = 4 * (M - b) + 1
      BY <2>3, <3>2 DEF LoopLeft
    <3> QED
      BY <3>3 DEF b, M
  <2>5. LoopLeft = 4 * (N + 1 - a) - 2
    BY <1>5, <2>1, <2>2
  <2> HIDE DEF N, a
  <2> QED
    BY <1>1, <1>3, <2>1, <2>2, <2>4, <2>5
<1>8. CASE Retreat
  <2>1. /\ loop.back /\ (loop.called \/ a = N + 1) /\ a # 1 /\ step' = step
        /\ loop' = [loop EXCEPT !.at = a - 1, !.called = FALSE]
    BY <1>1, <1>8 DEF Retreat
  <2>2. a \in 2..(N + 1)
    <3>1. loop # NoLoop
      BY <2>1 DEF NoLoop
    <3> QED
      BY <1>1, <2>1, <3>1 DEF RInv, LoopInOrder
  <2>3. loop'.at = a - 1 /\ ~loop'.called /\ loop'.back
    BY <1>3, <2>1
  <2>4. LoopLeft' = 4 * (a - 2) + 4
    BY <1>1, <1>2, <2>2, <2>3 DEF LoopLeft
  <2>5. LoopLeft = 4 * (a - 1) + 1
    BY <1>5, <2>1, <2>2
  <2> HIDE DEF N, a
  <2> QED
    BY <1>1, <1>3, <2>1, <2>2, <2>4, <2>5
<1>9. CASE EndLoop
  <2>1. LoopDone /\ loop' = NoLoop /\ step' = step
    BY <1>9 DEF EndLoop
  <2>2. LoopLeft' = 0
    BY <2>1 DEF LoopLeft, NoLoop
  <2>3. loop # NoLoop
    BY <1>1, <2>1 DEF NoLoop, LoopDone
  <2>4. a \in 1..(N + 1)
    BY <1>1, <2>3 DEF RInv, LoopInOrder
  <2>5. LoopLeft > 0
    BY <1>1, <1>3, <1>4, <1>5, <2>1, <2>4 DEF LoopDone
  <2> QED
    BY <1>3, <2>1, <2>2, <2>5
<1> QED
  BY <1>6, <1>7, <1>8, <1>9 DEF LoopStep

(* The same numbers of the next state. *)
LEMMA CallsLeftSum ==
  RInv => /\ CallsLeft \in Nat /\ CallsLeft = CallLeft + LoopLeft
          /\ CallLeft \in Nat /\ LoopLeft \in Nat
          /\ step = "idle"   => CallLeft = 0
          /\ step = "body"   => CallLeft = 1
          /\ step = "header" => CallLeft = 2
  BY CallsLeftKnown

LEMMA CallsLeftThen ==
  RInv' => (/\ CallsLeft \in Nat /\ CallsLeft = CallLeft + LoopLeft
            /\ CallLeft \in Nat /\ LoopLeft \in Nat
            /\ step = "idle"   => CallLeft = 0
            /\ step = "body"   => CallLeft = 1
            /\ step = "header" => CallLeft = 2)'
  BY CallsLeftSum, PTL

(* Every get_packet() and every loop comes nearer to its end with each of  *)
(* its steps, and only a new call puts it off.                             *)
THEOREM CallsCorrect == ReadSpec => CallsAdvance
<1> DEFINE Advances == calls' = calls =>
                         /\ CallsLeft' \in Nat
                         /\ CallsLeft' <= CallsLeft
                         /\ CallsLeft' = CallsLeft => UNCHANGED <<step, loop>>
<1>1. ASSUME RInv, ReadNext, calls' = calls PROVE Advances
  <2>1. RInv'
    BY <1>1, ReadInductive
  <2>2. PICK c \in Nat, l \in Nat : c = CallLeft /\ l = LoopLeft /\ CallsLeft = c + l
    BY <1>1, CallsLeftSum
  <2>3. PICK d \in Nat, m \in Nat : d = CallLeft' /\ m = LoopLeft' /\ CallsLeft' = d + m
    BY <2>1, CallsLeftThen
  <2>4. /\ step = "idle"   => c = 0
        /\ step = "body"   => c = 1
        /\ step = "header" => c = 2
    BY <1>1, <2>2, CallsLeftSum
  <2>5. /\ step' = "idle"   => d = 0
        /\ step' = "body"   => d = 1
        /\ step' = "header" => d = 2
    BY <2>1, <2>3, CallsLeftThen
  <2>6. ASSUME UNCHANGED <<step, loop>>, m = l PROVE Advances
    <3>1. d = c
      BY <2>2, <2>3, <2>6 DEF CallLeft
    <3> QED
      BY <2>2, <2>3, <2>6, <3>1
  <2>7. ASSUME d + m < c + l PROVE Advances
    <3>1. d + m \in Nat /\ d + m <= c + l /\ d + m # c + l
      BY <2>7
    <3> QED
      BY <2>2, <2>3, <3>1
  <2>8. CASE Index
    <3>1. UNCHANGED <<step, loop>> /\ Next
      BY <2>8 DEF Index, rvars
    <3>2. CASE pc # "done"
      <4>1. loop = NoLoop /\ loop' = NoLoop
        BY <1>1, <3>1, <3>2 DEF RInv, Unused
      <4>2. LoopLeft = 0 /\ LoopLeft' = 0
        BY <4>1 DEF LoopLeft, NoLoop
      <4> QED
        BY <2>2, <2>3, <2>6, <3>1, <4>2
    <3>3. CASE pc = "done"
      <4>1. packets' = packets
        BY <3>1, <3>3, DoneGrows DEF Grow
      <4> QED
        BY <2>2, <2>3, <2>6, <3>1, <4>1, LoopLeftStays
    <3> QED
      BY <3>2, <3>3
  <2>9. CASE Cut
    <3>1. UNCHANGED <<step, loop, packets>>
      BY <2>9 DEF Cut, vars
    <3> QED
      BY <2>2, <2>3, <2>6, <3>1, LoopLeftStays
  <2>10. CASE ReadCall
    <3>1. UNCHANGED <<loop, packets>>
      BY <2>10 DEF ReadCall, ReadPacketHeader, ReadPacketBody, PacketMissing,
         OnlyDescriptor
    <3>2. \/ step = "header" /\ step' \in {"body", "idle"}
          \/ step = "body" /\ step' = "idle"
      BY <2>10 DEF ReadCall, ReadPacketHeader, ReadPacketBody, PacketMissing, Answer
    <3>3. m = l
      BY <2>2, <2>3, <3>1, LoopLeftStays
    <3>4. d < c
      BY <2>4, <2>5, <3>2
    <3> QED
      BY <2>7, <3>3, <3>4
  <2>11. CASE LoopStep
    <3>1. /\ step = "idle"
          /\ \/ step' = "header" /\ m + 2 < l
             \/ step' = "idle" /\ m < l
      BY <1>1, <2>2, <2>3, <2>11, LoopStepShrinks
    <3> QED
      BY <2>4, <2>5, <2>7, <3>1
  <2>12. CASE Client
    <3>1. calls' = calls + 1
      BY <2>12 DEF Client, GetPacket, BeginLoop, SetVariant, Edit, Save, CountCall
    <3>2. calls \in Nat
      BY <1>1, ClientAssumption DEF RInv, ReadTypeOK
    <3> QED
      BY <1>1, <3>1, <3>2
  <2> QED
    BY <1>1, <2>8, <2>9, <2>10, <2>11, <2>12 DEF ReadNext
<1>2. RInv /\ [ReadNext]_allvars => [Advances]_allvars
  BY <1>1
<1> QED
  BY <1>2, ReadAlways, PTL DEF ReadSpec, CallsAdvance

(* A capture in use keeps to PacketScan as its constructor does: whatever  *)
(* the client calls, and whether or not the writer cuts the file, nobody   *)
(* touches the index or the verdict again.                                 *)
THEOREM UseRefines == ReadSpec => ScanSpec
<1>1. ReadInit => Scan!Init
  BY DEF ReadInit, Init, Scan!Init, Verdict
<1>2. RInv /\ RInv' /\ [ReadNext]_allvars => [Scan!Next]_(Scan!avars)
  <2> SUFFICES ASSUME RInv, RInv', [ReadNext]_allvars
               PROVE  [Scan!Next]_(Scan!avars)
    OBVIOUS
  <2>1. CASE Index
    <3>1. cut = Uncut /\ cut' = Uncut /\ Next
      BY <2>1 DEF Index, rvars
    <3>2. IInv /\ IInv'
      BY <3>1 DEF RInv, IndexStays
    <3> QED
      BY <3>1, <3>2, StepSimulation
  <2>2. ASSUME UNCHANGED <<disk, size, pc, base, variant, packets, valid>>
        PROVE  [Scan!Next]_(Scan!avars)
    BY <2>2 DEF Scan!avars, Verdict, PacketHeaderLen, BodyOffset
  <2>3. CASE Cut \/ UNCHANGED allvars
    BY <2>2, <2>3 DEF Cut, allvars, vars
  <2>4. CASE ReadCall
    BY <2>2, <2>4 DEF ReadCall, ReadPacketHeader, ReadPacketBody, PacketMissing,
       OnlyDescriptor
  <2>5. CASE LoopStep
    BY <2>2, <2>5 DEF LoopStep, Dereference, SeekPacket, Advance, Retreat, EndLoop,
       vars
  <2>6. CASE Client
    BY <2>2, <2>6 DEF Client, GetPacket, SeekPacket, BeginLoop, SetVariant, Edit,
       Save, OnlyDescriptor, vars
  <2> QED
    BY <2>1, <2>3, <2>4, <2>5, <2>6 DEF ReadNext
<1> QED
  BY <1>1, <1>2, ReadAlways, PTL DEF ReadSpec, ScanSpec, Scan!Spec

-----------------------------------------------------------------------------
(* What the index says of a well-formed capture, in an object in use.      *)
Meant == /\ pc # "done" => WInv
         /\ MagicKnown
         /\ PacketsAsWritten

LEMMA MeantInitially == ReadInit => Meant
  BY InitiallyAsWritten DEF ReadInit, Meant, WInv

LEMMA MeantKept == RInv /\ Meant /\ [ReadNext]_allvars => Meant'
<1> SUFFICES ASSUME RInv, Meant, [ReadNext]_allvars PROVE Meant'
  OBVIOUS
<1>1. CASE Index /\ pc # "done"
  <2>1. WInv'
    BY <1>1, InductiveAsWritten DEF Meant, Index
  <2> QED
    BY <2>1 DEF Meant, WInv
<1>2. ASSUME pc = "done", UNCHANGED <<disk, pc, variant, swapping, packets, valid>>
      PROVE  Meant'
  BY <1>2 DEF Meant, MagicKnown, PacketsAsWritten
<1>3. CASE Index /\ pc = "done"
  BY <1>2, <1>3, DoneGrows DEF Index, Grow
<1>4. CASE Cut
  BY <1>2, <1>4 DEF Cut, vars
<1>5. CASE ReadCall
  <2>1. pc = "done"
    BY <1>5 DEF RInv, Unused, ReadCall, ReadPacketHeader, ReadPacketBody, PacketMissing
  <2> QED
    BY <1>2, <1>5, <2>1 DEF ReadCall, ReadPacketHeader, ReadPacketBody, PacketMissing,
       OnlyDescriptor
<1>6. CASE LoopStep
  BY <1>2, <1>6 DEF LoopStep, MayCall, Dereference, SeekPacket, Advance, Retreat,
     EndLoop, vars
<1>7. CASE Client
  BY <1>2, <1>7 DEF Client, MayCall, GetPacket, SeekPacket, BeginLoop, SetVariant,
     Edit, Save, OnlyDescriptor, vars
<1>8. CASE UNCHANGED allvars
  <2>1. UNCHANGED vars
    BY <1>8 DEF allvars
  <2>2. CASE pc # "done"
    <3>1. WInv'
      BY <2>1, <2>2, InductiveAsWritten DEF Meant
    <3> QED
      BY <3>1 DEF Meant, WInv
  <2>3. CASE pc = "done"
    BY <1>2, <2>1, <2>3 DEF vars
  <2> QED
    BY <2>2, <2>3
<1> QED
  BY <1>1, <1>3, <1>4, <1>5, <1>6, <1>7, <1>8 DEF ReadNext

(* Of a well-formed capture every packet handed out is the one its writer  *)
(* wrote at that number: the index is right when it is built, a call looks *)
(* where it says, and nothing comes between.                               *)
THEOREM ReadsCorrect == ReadSpec => []ReadsAsWritten
<1>1. RInv /\ Meant => ReadsAsWritten
  <2> SUFFICES ASSUME RInv, Meant, WellFormed(disk), NEW i \in DOMAIN cache,
                      cache[i].head = PacketHeaderLen(disk.magic.variant)
               PROVE  /\ i \in 1..Len(disk.written)
                      /\ cache[i].from = EndOf(disk)[i-1] + cache[i].head
                      /\ cache[i].len = disk.written[i]
    BY DEF ReadsAsWritten
  <2>1. i \in 1..Len(packets) /\ Len(packets) \in Nat
    BY ReadFactsOfState DEF RInv, ReadTypeOK
  <2>2. packets # <<>>
    BY <2>1
  <2>3. variant = disk.magic.variant
    BY <2>2 DEF Meant, MagicKnown
  <2>4. /\ cache[i].from = packets[i].offset + cache[i].head
        /\ cache[i].len = packets[i].len
    BY <2>3 DEF RInv, CacheMatchesIndex
  <2>5. /\ Len(packets) <= Len(disk.written)
        /\ packets[i].offset = EndOf(disk)[i-1]
        /\ packets[i].len = disk.written[i]
    BY <2>1 DEF Meant, PacketsAsWritten
  <2>6. Len(disk.written) \in Nat
    BY EndOfFacts DEF RInv, ReadTypeOK, TypeOK
  <2> QED
    BY <2>1, <2>4, <2>5, <2>6
<1> QED
  BY <1>1, MeantInitially, MeantKept, ReadAlways, PTL DEF ReadSpec

=============================================================================
