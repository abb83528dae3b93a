---------------------------- MODULE MCPcapIndex -----------------------------
(***************************************************************************)
(* Small captures for TLC: a capture is laid out from what its writer      *)
(* means, in the writer's byte order.  Numbers a swapped file holds keep   *)
(* their low byte below 128, so that what TLC computes stays below 2^31.   *)
(***************************************************************************)
EXTENDS PcapIndex, FiniteSets

(* The numbers every file header here says: version 2.4, link type 1. *)
Numbers == [f \in HeaderFields |-> CASE f = "major"             -> 2
                                     [] f = "minor"             -> 4
                                     [] f = "max_packet_length" -> 96
                                     [] f = "link_type"         -> 1
                                     [] OTHER                   -> 0]

NumberFieldAt(p) == IF p \in DOMAIN NumberAt THEN Numbers[NumberAt[p]] ELSE 0

(* Ends of the packets of these lengths. *)
Ends(v, lens) ==
  LET end[k \in 0..Len(lens)] ==
        IF k = 0 THEN FileHeaderLen
                 ELSE end[k-1] + PacketHeaderLen(v) + lens[k]
  IN  end

(* A number where nothing else is stored: what a scan out of step reads. *)
Filler == 3

(* A capture of variant v whose writer means the packets lens, cut off     *)
(* `cut` bytes before its end and growing through the lengths stops.       *)
Laid(v, swapped, gz, lens, cut, stops) ==
  LET ends  == Ends(v, lens)
      limit == ends[Len(lens)] - cut
      value(p) ==
        LET heads == {k \in 1..Len(lens) : ends[k-1] + LenOffset = p}
        IN  CASE p \in DOMAIN NumberAt -> NumberFieldAt(p)
              [] heads # {}            -> lens[CHOOSE k \in heads : TRUE]
              [] OTHER                 -> Filler
      half(p) == IF p = 4 THEN Numbers["major"] ELSE Numbers["minor"]
  IN  [gz      |-> gz,
       errors  |-> FALSE,
       magic   |-> [variant |-> v, swapped |-> swapped],
       limit   |-> limit,
       word    |-> [p \in 0..limit |->
                      IF p \in {4, 6}
                      THEN IF swapped THEN Swap16(half(p)) ELSE half(p)
                      ELSE IF swapped THEN Swap32(value(p)) ELSE value(p)],
       stops   |-> (stops \cap 0..limit) \cup {limit},
       numbers |-> Numbers,
       written |-> lens]

Whole(v, swapped, gz, lens) == Laid(v, swapped, gz, lens, 0, {})

(* A file that is not a pcap capture at all. *)
Foreign == [Laid("Standard", FALSE, FALSE, <<4>>, 0, {3})
              EXCEPT !.magic = [variant |-> "Other", swapped |-> FALSE]]

(* The same capture where every call to the kernel may fail. *)
Flaky(c) == [c EXCEPT !.errors = TRUE]

(* Every prefix of two packets, the first one empty, as a growing file;    *)
(* the longer header of the Modified variant; gzip streams cut anywhere;   *)
(* the other byte order; header-only and foreign files.                    *)
ReliableCaptures ==
  {Laid("Standard", FALSE, FALSE, <<0, 5>>, 0,
        {0, 1, 3, 5, 7, 10, 14, 18, 22, 24, 30, 38, 40, 41, 50, 53, 60}),
   Laid("Modified", FALSE, FALSE, <<2, 0, 1>>, 0, {24, 30, 50, 74, 80}),
   Laid("Nanosecond", FALSE, TRUE, <<3, 2>>, 0, {0, 2, 24, 43, 55}),
   Laid("IXIAHW", FALSE, FALSE, <<6, 4>>, 3, {0, 24, 46}),
   Laid("Standard", TRUE, FALSE, <<4, 1>>, 0, {0, 24, 44}),
   Whole("IXIASW", FALSE, TRUE, <<>>),
   Foreign}

GrowingCaptures == ReliableCaptures \cup {Flaky(c) : c \in ReliableCaptures}

(* Captures nobody writes to any more. *)
StaticCaptures ==
  {Whole(v, sw, gz, lens) : v \in {"Standard", "Modified"}, sw \in BOOLEAN,
                            gz \in BOOLEAN, lens \in {<<>>, <<4>>, <<0, 7, 1>>}}

=============================================================================
