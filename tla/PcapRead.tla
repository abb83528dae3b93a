------------------------------ MODULE PcapRead ------------------------------
(***************************************************************************)
(* A capture in use: libnokogiri::pcap::pcap_t from its constructor        *)
(* (PcapIndex) on, with one client that reads packets by number, in a      *)
(* range-for loop or in one that walks back from end(), sets the variant   *)
(* in the header, edits packets and saves.  get_packet() is three looks at the file - seek, packet header,  *)
(* data - and the file may grow or be cut off by its writer between any    *)
(* two of them, as it may while the object is constructed.  Nothing stops  *)
(* a client from using an object that is not valid, so it may do that too. *)
(***************************************************************************)
EXTENDS PcapIndex

CONSTANTS
  MaxCalls,   \* calls the client makes besides those of its loop
  MayCut      \* TRUE when the writer may also truncate its file

ASSUME ClientAssumption == MaxCalls \in Nat /\ MayCut \in BOOLEAN

VARIABLES
  readonly,   \* _readonly
  chosen,     \* the variant set by the client, AsRead if it set none
  cut,        \* what the writer truncated the file to, Uncut if it has not
  step,       \* where get_packet() is
  which,      \* the packet it is about, the first being 1
  want,       \* the captured length in the packet header it has just read
  cache,      \* _packet_cache of the storages whose packet has been read
  answer,     \* what the last get_packet() gave, with the packet's number
  loop,       \* the loop: its iterator, whether it was dereferenced, which way
  seen,       \* the numbers the loop has asked for, in order
  calls       \* how often the client has called, for MaxCalls

rvars == <<readonly, chosen, cut, step, which, want, cache, answer, loop, seen,
           calls>>

AsRead == "AsRead"
Uncut == -1

(* _header.variant(), which get_packet() looks at again. *)
VariantNow == IF chosen = AsRead THEN variant ELSE chosen

(* Bytes in the file now. *)
There == IF cut = Uncut THEN size ELSE cut

NoLoop == [at |-> 0, called |-> FALSE, back |-> FALSE]

(* The iterator end(). *)
AtEnd == Len(packets) + 1

(* The n-th packet that the loop comes to. *)
Nth(n) == IF loop.back THEN AtEnd - n ELSE n

(* The iterator has met begin() or end(), where the client stops. *)
LoopDone == IF loop.back THEN loop.at = 1 /\ (loop.called \/ AtEnd = 1)
                         ELSE loop.at = AtEnd

Answers == [kind : {"none", "packet", "nullopt", "undefined"}, n : Nat]

ReadInit ==
  /\ Init
  /\ readonly \in BOOLEAN
  /\ chosen = AsRead
  /\ cut = Uncut
  /\ step = "idle"
  /\ which = 0
  /\ want = 0
  /\ cache = <<>>
  /\ answer = [kind |-> "none", n |-> 0]
  /\ loop = NoLoop
  /\ seen = <<>>
  /\ calls = 0

-----------------------------------------------------------------------------
(* The constructor, and the writer that appends. *)
Index == /\ cut = Uncut
         /\ Next
         /\ UNCHANGED rvars

(* The writer truncates a file that has been indexed. *)
Cut ==
  /\ MayCut
  /\ pc = "done"
  /\ cut = Uncut
  /\ ~Inflated
  /\ cut' \in {s \in disk.stops : s < size}
  /\ UNCHANGED <<vars, readonly, chosen, step, which, want, cache,
                 answer, loop, seen, calls>>

-----------------------------------------------------------------------------
(* get_packet(packet_storage_t&) begins with a seek to the packet. *)
SeekPacket(i) ==
  /\ fd' = SeekTo(fd, There, packets[i].offset)
  /\ step' = "header"
  /\ which' = i
  /\ UNCHANGED <<disk, size, pc, base, compression, variant, header, swapping,
                 packets, valid>>

(* The client is about to call something: the object is constructed and    *)
(* no other call is under way.                                             *)
MayCall == /\ pc = "done"
           /\ step = "idle"
           /\ answer.kind # "undefined"

CountCall == /\ calls < MaxCalls
             /\ calls' = calls + 1

(* get_packet(std::size_t): a number that is too large gives nullopt, but  *)
(* the number of packets is let through, and _packets[_packets.size()] is  *)
(* undefined: the model ends there.                                        *)
GetPacket(i) ==
  /\ MayCall
  /\ CountCall
  /\ \/ /\ i \in 1..Len(packets)
        /\ SeekPacket(i)
        /\ UNCHANGED answer
     \/ /\ i \notin 1..Len(packets)
        /\ answer' = [kind |-> IF i = AtEnd THEN "undefined" ELSE "nullopt",
                      n    |-> i]
        /\ UNCHANGED <<vars, step, which>>
  /\ UNCHANGED <<readonly, chosen, cut, want, cache, loop, seen>>

(* get_packet() returns. *)
Answer(kind) == /\ step' = "idle"
                /\ answer' = [kind |-> kind, n |-> which]

(* A read of n bytes into the packet, and what follows when they are all   *)
(* there; the object otherwise stays as it is.                             *)
ReadsAll(n) == /\ Complete(fd, There, n)
               /\ fd' = ReadBytes(fd, There, n)

LacksSome(n) == \/ /\ ~Complete(fd, There, n)
                   /\ fd' = ReadBytes(fd, There, n)
                \/ /\ IOErrors
                   /\ UNCHANGED fd

OnlyDescriptor == UNCHANGED <<disk, size, pc, base, compression, variant, header,
                              swapping, packets, valid>>

(* Mutant: the header of a Modified capture read as a standard one. *)
ReadPacketHeaderStandard ==
  /\ step = "header"
  /\ ReadsAll(PacketHeaderLen("Standard"))
  /\ want' = disk.word[fd.pos + LenOffset]
  /\ step' = "body"
  /\ OnlyDescriptor
  /\ UNCHANGED <<readonly, chosen, cut, which, cache, answer, loop,
                 seen, calls>>

(* The packet header, whose size depends on the variant the header names   *)
(* now, gives the number of bytes to read.                                 *)
ReadPacketHeader ==
  /\ step = "header"
  /\ ReadsAll(PacketHeaderLen(VariantNow))
  /\ want' = disk.word[fd.pos + LenOffset]
  /\ step' = "body"
  /\ OnlyDescriptor
  /\ UNCHANGED <<readonly, chosen, cut, which, cache, answer, loop,
                 seen, calls>>

(* Mutant: the packet put into the storage behind the one asked for. *)
CacheInNextStorage ==
  /\ step = "body"
  /\ ReadsAll(want)
  /\ cache' = [i \in DOMAIN cache \cup {which + 1} |->
                 IF i = which + 1
                 THEN [from   |-> fd.pos, len |-> want,
                       head   |-> PacketHeaderLen(VariantNow),
                       edited |-> FALSE]
                 ELSE cache[i]]
  /\ Answer("packet")
  /\ OnlyDescriptor
  /\ UNCHANGED <<readonly, chosen, cut, which, want, loop, seen, calls>>

(* The data: only when every byte of it arrived does the new packet take   *)
(* the place of what the storage had cached.                               *)
ReadPacketBody ==
  /\ step = "body"
  /\ ReadsAll(want)
  /\ cache' = [i \in DOMAIN cache \cup {which} |->
                 IF i = which
                 THEN [from   |-> fd.pos, len |-> want,
                       head   |-> PacketHeaderLen(VariantNow),
                       edited |-> FALSE]
                 ELSE cache[i]]
  /\ Answer("packet")
  /\ OnlyDescriptor
  /\ UNCHANGED <<readonly, chosen, cut, which, want, loop, seen, calls>>

(* Mutant: a short read of the data is not looked at. *)
PacketMissingHeaderOnly ==
  /\ step = "header" /\ LacksSome(PacketHeaderLen(VariantNow))
  /\ Answer("nullopt")
  /\ OnlyDescriptor
  /\ UNCHANGED <<readonly, chosen, cut, which, want, cache, loop,
                 seen, calls>>

(* Mutant: the storage is given its packet before the data is checked. *)
PacketMissingDropsCache ==
  /\ \/ step = "header" /\ LacksSome(PacketHeaderLen(VariantNow))
     \/ step = "body" /\ LacksSome(want)
  /\ cache' = [i \in DOMAIN cache |->
                 IF i = which /\ step = "body"
                 THEN [cache[i] EXCEPT !.edited = FALSE] ELSE cache[i]]
  /\ Answer("nullopt")
  /\ OnlyDescriptor
  /\ UNCHANGED <<readonly, chosen, cut, which, want, loop, seen, calls>>

(* Either read comes up short: nullopt, and the cache is left alone. *)
PacketMissing ==
  /\ \/ step = "header" /\ LacksSome(PacketHeaderLen(VariantNow))
     \/ step = "body" /\ LacksSome(want)
  /\ Answer("nullopt")
  /\ OnlyDescriptor
  /\ UNCHANGED <<readonly, chosen, cut, which, want, cache, loop,
                 seen, calls>>

-----------------------------------------------------------------------------
(* for (auto pkt : capture): begin(), or end() to walk back from ...       *)
BeginLoop ==
  /\ MayCall
  /\ CountCall
  /\ loop = NoLoop
  /\ \E back \in BOOLEAN :
       loop' = [at |-> IF back THEN AtEnd ELSE 1, called |-> FALSE, back |-> back]
  /\ seen' = <<>>
  /\ UNCHANGED <<vars, readonly, chosen, cut, step, which, want,
                 cache, answer>>

(* ... *it, which is not end() ...                                         *)
Dereference ==
  /\ MayCall
  /\ loop.at \in 1..Len(packets)
  /\ ~loop.called
  /\ SeekPacket(loop.at)
  /\ loop' = [loop EXCEPT !.called = TRUE]
  /\ seen' = Append(seen, loop.at)
  /\ UNCHANGED <<readonly, chosen, cut, want, cache, answer,
                 calls>>

(* Mutant: the iterator's position kept in the object, where get_packet()  *)
(* moves it too.                                                           *)
AdvanceShared ==
  /\ MayCall
  /\ loop.called
  /\ ~loop.back
  /\ loop' = [loop EXCEPT !.at = IF which # AtEnd THEN which + 1 ELSE which,
                          !.called = FALSE]
  /\ UNCHANGED <<vars, readonly, chosen, cut, step, which, want,
                 cache, answer, seen, calls>>

(* ... ++it once the body of the loop is done with the packet.             *)
Advance ==
  /\ MayCall
  /\ loop.called
  /\ ~loop.back
  /\ loop' = [loop EXCEPT !.at = IF loop.at # AtEnd THEN loop.at + 1 ELSE loop.at,
                          !.called = FALSE]
  /\ UNCHANGED <<vars, readonly, chosen, cut, step, which, want,
                 cache, answer, seen, calls>>

(* --it, before each packet of a loop that walks back.                     *)
Retreat ==
  /\ MayCall
  /\ loop.back
  /\ loop.called \/ loop.at = AtEnd
  /\ loop.at # 1
  /\ loop' = [loop EXCEPT !.at = loop.at - 1, !.called = FALSE]
  /\ UNCHANGED <<vars, readonly, chosen, cut, step, which, want,
                 cache, answer, seen, calls>>

EndLoop ==
  /\ MayCall
  /\ LoopDone
  /\ loop' = NoLoop
  /\ UNCHANGED <<vars, readonly, chosen, cut, step, which, want,
                 cache, answer, seen, calls>>

-----------------------------------------------------------------------------
(* header().variant(v); also header(h), of whose fields only the variant   *)
(* is looked at again.                                                     *)
SetVariant ==
  /\ MayCall
  /\ CountCall
  /\ chosen' \in Variants
  /\ UNCHANGED <<vars, readonly, cut, step, which, want, cache,
                 answer, loop, seen>>

(* The client writes into a packet it has a reference to; at<T>() and      *)
(* operator[] do so themselves, by value-initialising what they point to.  *)
Edit ==
  /\ MayCall
  /\ CountCall
  /\ \E i \in DOMAIN cache : cache' = [cache EXCEPT ![i].edited = TRUE]
  /\ UNCHANGED <<vars, readonly, chosen, cut, step, which, want,
                 answer, loop, seen>>

(* save(): nothing is written, and false comes back either way. *)
Save ==
  /\ MayCall
  /\ CountCall
  /\ fd' = IF readonly THEN fd ELSE SeekTo(fd, There, 0)
  /\ OnlyDescriptor
  /\ UNCHANGED <<readonly, chosen, cut, step, which, want, cache,
                 answer, loop, seen>>

ReadCall == \/ ReadPacketHeader \/ ReadPacketBody \/ PacketMissing

LoopStep == Dereference \/ Advance \/ Retreat \/ EndLoop

Client == \/ \E i \in 1..(Len(packets) + 2) : GetPacket(i)
          \/ BeginLoop \/ SetVariant \/ Edit \/ Save

ReadNext == Index \/ Cut \/ ReadCall \/ LoopStep \/ Client

allvars == <<vars, rvars>>

ReadSpec == ReadInit /\ [][ReadNext]_allvars

(* A call once made returns, and a loop once begun is run to its end. *)
FairReadSpec == ReadSpec /\ WF_allvars(ReadCall) /\ WF_allvars(LoopStep)

-----------------------------------------------------------------------------
CachedPacket == [from : Nat, len : Nat, head : Nat, edited : BOOLEAN]

ReadTypeOK ==
  /\ TypeOK
  /\ readonly \in BOOLEAN
  /\ chosen \in Variants \cup {AsRead}
  /\ cut \in disk.stops \cup {Uncut}
  /\ step \in {"idle", "header", "body"}
  /\ which \in 0..Len(packets)
  /\ want \in Nat
  /\ DOMAIN cache \subseteq 1..Len(packets)
  /\ \A i \in DOMAIN cache : cache[i] \in CachedPacket
  /\ answer \in Answers
  /\ loop \in [at : 0..AtEnd, called : BOOLEAN, back : BOOLEAN]
  /\ seen \in Seq(1..Len(packets))
  /\ calls \in 0..MaxCalls

(* A packet read with the header size it was indexed with holds exactly    *)
(* the bytes between its header and the next packet, whichever packets     *)
(* were read before it with the one descriptor, and whether the file grew  *)
(* or was cut in between (get_packet()).                                   *)
CacheMatchesIndex ==
  \A i \in DOMAIN cache :
    cache[i].head = PacketHeaderLen(variant) =>
      /\ cache[i].from = packets[i].offset + cache[i].head
      /\ cache[i].len = packets[i].len
      /\ i < Len(packets) => cache[i].from + cache[i].len = packets[i+1].offset

(* From one end to the other: of a well-formed capture a packet that was   *)
(* handed out is the one that its writer wrote at that number, byte for    *)
(* byte, although the reader knows nothing but the captured lengths, and   *)
(* may see the file grow, be cut off or fail between any two looks at it   *)
(* (ingest_packets(), get_packet()).                                       *)
ReadsAsWritten ==
  WellFormed(disk) =>
    \A i \in DOMAIN cache :
      cache[i].head = PacketHeaderLen(disk.magic.variant) =>
        /\ i \in 1..Len(disk.written)
        /\ cache[i].from = EndOf(disk)[i-1] + cache[i].head
        /\ cache[i].len = disk.written[i]

(* As long as the file only grows and the variant is left alone, every     *)
(* packet in the index can be read - of an invalid object too, with the    *)
(* exception of the last, where ingest_packets() gave up.                  *)
UnreadableOnlyIfLast ==
  ~IOErrors /\ cut = Uncut /\ chosen = AsRead =>
    (answer.kind = "nullopt" /\ answer.n \in 1..Len(packets)
       => ~valid /\ answer.n = Len(packets))

(* A loop that reaches end() has asked for every packet once, in order,    *)
(* and one that walked back to begin() in the reverse order, whatever else *)
(* the client read between two of them (bi_iterator).                      *)
LoopVisitsAll ==
  LoopDone => seen = [n \in 1..Len(packets) |-> Nth(n)]

(* What is left of the call under way and of the loop, in steps: a packet  *)
(* that the loop has yet to come to costs it four, get_packet() included.  *)
CallLeft == [idle |-> 0, body |-> 1, header |-> 2][step]

LoopLeft ==
  LET left == IF loop.back THEN loop.at - 1 ELSE AtEnd - loop.at
      paid == loop.called \/ (loop.back /\ loop.at = AtEnd)
  IN  IF loop.at = 0  THEN 0
      ELSE IF loop.back THEN 4 * left + (IF paid THEN 1 ELSE 4)
      ELSE IF paid      THEN 4 * left - 2
      ELSE 4 * left + 1

CallsLeft == CallLeft + LoopLeft

(* Only a new call of the client puts the end of its calls and of its loop *)
(* off, and every other step of one or the other brings it nearer: what is *)
(* read between two steps of a loop with the one descriptor, what the      *)
(* writer does and a read that fails do not set an iterator back           *)
(* (bi_iterator, get_packet()).                                            *)
CallsAdvance ==
  [][calls' = calls =>
       /\ CallsLeft' \in Nat
       /\ CallsLeft' <= CallsLeft
       /\ CallsLeft' = CallsLeft => UNCHANGED <<step, loop>>]_allvars

(* Every get_packet() returns, and every loop ends unless the client went  *)
(* out of range within it.                                                 *)
CallsEnd ==
  /\ step # "idle" ~> step = "idle"
  /\ loop # NoLoop ~> loop = NoLoop \/ answer.kind = "undefined"

(* What a client wrote into a packet is lost only by getting that very     *)
(* packet again, and only once all of it has been read: neither a read     *)
(* that fails half-way nor one of another packet undoes an edit            *)
(* (packet_storage_t::set_packet()).                                       *)
EditsLostOnlyByRereading ==
  [][\A i \in DOMAIN cache :
       cache[i].edited /\ ~cache'[i].edited
         => step = "body" /\ which = i /\ answer' = [kind |-> "packet", n |-> i]
    ]_allvars

=============================================================================
