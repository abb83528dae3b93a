----------------------------- MODULE MCPcapMove -----------------------------
(* Objects and captures are interchangeable. *)
EXTENDS PcapMove, TLC

Symmetry == Permutations(Objects) \cup Permutations(Captures)

=============================================================================
