--------------------------- MODULE MCCaptureFiles ---------------------------
(***************************************************************************)
(* A plain and a compressed capture for every thread to choose from.  Two  *)
(* captures use two descriptors at once and one that is inflated a third,  *)
(* so that an open() fails when both threads inflate.  Four temporary      *)
(* names are enough for two captures after a crash has left two.           *)
(***************************************************************************)
EXTENDS CaptureFiles, TLC

ThreeDescriptors == 3..5

Symmetry == Permutations(Threads) \cup Permutations(TempNames)

=============================================================================
