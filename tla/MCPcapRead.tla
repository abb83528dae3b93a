----------------------------- MODULE MCPcapRead -----------------------------
(***************************************************************************)
(* Captures for the object in use: an empty packet first or last, one that *)
(* is cut off, and the two sizes of packet header.                         *)
(***************************************************************************)
EXTENDS PcapRead, MCPcapIndex

UsedCaptures ==
  {Laid("Standard", FALSE, FALSE, <<0, 5>>, 0, {24, 40, 50}),
   Laid("Modified", FALSE, FALSE, <<2, 1>>, 0, {50, 61, 70}),
   Laid("Nanosecond", FALSE, FALSE, <<3, 2, 40>>, 30, {43}),
   Whole("Modified", TRUE, FALSE, <<4>>),
   Laid("IXIAHW", FALSE, TRUE, <<6, 0>>, 0, {46})}

(* The same captures on a disk with I/O errors. *)
FlakyCaptures == {Flaky(c) : c \in UsedCaptures}

=============================================================================
