---------------------------- MODULE MCGzExtract -----------------------------
(***************************************************************************)
(* Streams whose bytes are all different, of every length from none to one *)
(* past where a count of eight values has run over to -1 and on to zero,   *)
(* through a buffer of three bytes: a stream may end at the end of a       *)
(* buffer, or one byte to either side.                                     *)
(***************************************************************************)
EXTENDS GzExtract

ShortStreams ==
  {[data |-> [i \in 1..n |-> i], broken |-> b] : n \in 0..9, b \in BOOLEAN}

=============================================================================
