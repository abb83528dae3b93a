--------------------------------- MODULE Fd ---------------------------------
(***************************************************************************)
(* libnokogiri::internal::fd_t (internal/fd.hh), the owner of one POSIX    *)
(* descriptor, as operators on a record                                    *)
(*                                                                         *)
(*   pos   the descriptor's offset, kept by the kernel                     *)
(*   eof   fd_t::eof, what isEOF() answers                                 *)
(*   len   fd_t::_length, the file's length once somebody asked for it     *)
(*                                                                         *)
(* Every operator also takes `size`, the length the file has at that       *)
(* moment.  `len` is a cache and is never refreshed, so it can fall behind *)
(* `size`: the components that use fd_t are modelled with a file that      *)
(* another process may still be writing.  The descriptor is open; what the *)
(* code does when open() fails is modelled where a file is opened.         *)
(***************************************************************************)
EXTENDS Integers

(* The value of _length before fstat() has been called. *)
Unasked == -1

FdStates == [pos : Nat, eof : BOOLEAN, len : Nat \cup {Unasked}]

(* A descriptor just opened: nothing read, nothing asked. *)
Fresh == [pos |-> 0, eof |-> FALSE, len |-> Unasked]

(* length(): fstat() the first time, the cached answer afterwards. *)
LengthOf(f, size) == IF f.len # Unasked THEN f.len ELSE size

(* Mutant: any offset past the length counts as the end. *)
SeekToAtOrPast(f, size, target) ==
  [pos |-> target,
   eof |-> target >= LengthOf(f, size),
   len |-> LengthOf(f, size)]

(* Mutant: the comparison the other way round. *)
SeekToAtOrBefore(f, size, target) ==
  [pos |-> target,
   eof |-> target <= LengthOf(f, size),
   len |-> LengthOf(f, size)]

(* seek(): lseek() accepts any offset at or past zero, also past the end,  *)
(* and eof becomes "the new offset is the (cached) length".                *)
SeekTo(f, size, target) ==
  [pos |-> target,
   eof |-> target = LengthOf(f, size),
   len |-> LengthOf(f, size)]

(* Mutant: a distance counted backwards. *)
SeekBackBy(f, size, distance) == SeekTo(f, size, f.pos - distance)

(* seek() with SEEK_CUR. *)
SeekBy(f, size, distance) == SeekTo(f, size, f.pos + distance)

(* How many of n bytes a read() at f.pos delivers. *)
Delivered(f, size, n) ==
  IF f.pos + n <= size THEN n
  ELSE IF f.pos < size THEN size - f.pos
  ELSE 0

(* Mutant: a read of no bytes is not told from one at the end. *)
ReadBytesOrNone(f, size, n) ==
  [pos |-> f.pos + Delivered(f, size, n),
   eof |-> f.eof \/ Delivered(f, size, n) = 0,
   len |-> f.len]

(* read(void*, size_t): a read that delivers nothing sets eof, one that    *)
(* delivers something leaves eof as it was, even when it was set.          *)
ReadBytes(f, size, n) ==
  [pos |-> f.pos + Delivered(f, size, n),
   eof |-> f.eof \/ (Delivered(f, size, n) = 0 /\ n # 0),
   len |-> f.len]

(* The boolean reads and read<T>() succeed only when every byte arrived. *)
Complete(f, size, n) == Delivered(f, size, n) = n

=============================================================================
