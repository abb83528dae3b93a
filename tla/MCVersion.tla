----------------------------- MODULE MCVersion ------------------------------
(* Versions with halves on both sides of each other and at the 16-bit end. *)
EXTENDS Version

SmallAndLargest == {0, 1, 2, 4, 5, 65535}

=============================================================================
