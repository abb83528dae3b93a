------------------------------ MODULE MCValues ------------------------------
(***************************************************************************)
(* Numbers read and written through fd_t, and versions compared.  The two  *)
(* have nothing to do with each other: versions are compared before the    *)
(* file is touched, and the file is used at one pair of versions.          *)
(*                                                                         *)
(* A byte of two values makes numbers of two and four bytes small enough   *)
(* to count with; the disk is full after four of them.  There are          *)
(* versions with halves on both sides of each other and at the 16-bit end. *)
(***************************************************************************)
EXTENDS FdFile, Version

Signed2   == [width |-> 2, order |-> "LE", signed |-> TRUE]
Unsigned2 == [width |-> 2, order |-> "LE", signed |-> FALSE]
Swapped2  == [width |-> 2, order |-> "BE", signed |-> TRUE]
Unsigned4 == [width |-> 4, order |-> "LE", signed |-> FALSE]
Swapped4  == [width |-> 4, order |-> "BE", signed |-> FALSE]

SomeTypes == {Signed2, Unsigned2, Swapped2, Unsigned4, Swapped4}
SomeNumbers == {-2, 1, 6}
SmallAndLargest == {0, 1, 2, 4, 5, 65535}

Oldest == [major |-> 0, minor |-> 0]

ValuesInit == FdInit /\ Init

ValuesNext == \/ FdInit /\ Next /\ UNCHANGED fdvars
              \/ this = Oldest /\ ver = Oldest /\ FdNext /\ UNCHANGED versionVars

ValuesSpec == ValuesInit /\ [][ValuesNext]_<<fdvars, versionVars>>

=============================================================================
