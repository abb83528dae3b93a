------------------------------- MODULE FdFile -------------------------------
(***************************************************************************)
(* Reading and writing numbers through fd_t (internal/fd.hh): readLE(),    *)
(* readBE(), writeLE(), writeBE() and what moves the offset, on one file   *)
(* with two fd_t objects, of which the second is a dup() of the first or   *)
(* has no file.  Both share the kernel's offset, each has its own eof and  *)
(* its own _length, and both may change the length of the file.            *)
(*                                                                         *)
(* A type is [width, order, signed]; the program has widths of 2, 4 and 8  *)
(* bytes of 256 values.  The disk is full at Room, so that a write may be  *)
(* short; an object may have lost its file or never had one.               *)
(***************************************************************************)
EXTENDS Fd, Sequences

CONSTANTS
  Base,       \* how many values a byte has: 256
  Types,      \* of the numbers, see FdFileAssumption
  Numbers,    \* what is written, each in the types that can hold it
  Offsets,    \* where clients seek to, and the lengths they ask for
  Room,       \* the length at which the disk is full
  MaxChanges  \* bound: how often the file is written or resized

ASSUME FdFileAssumption ==
  /\ Base \in Nat \ {0, 1}
  /\ Types \subseteq [width : Nat \ {0}, order : {"LE", "BE"}, signed : BOOLEAN]
  /\ Numbers \subseteq Int
  /\ Offsets \subseteq Nat
  /\ Room \in Nat
  /\ MaxChanges \in Nat

VARIABLES
  file,     \* the bytes in the file
  pos,      \* the offset that the two descriptors share
  fds,      \* fd_t objects: whether open, eof and _length
  got,      \* what the read just made gave, if any
  changes,  \* how often the file has been written or resized
  lengths,  \* history: the lengths the file has had
  stale,    \* history: _length was asked for before the length changed
  kept      \* history: the numbers written that are whole in the file

disk == <<file, changes, lengths, kept>>
fdvars == <<disk, pos, fds, got, stale>>

Objects == {"this", "other"}

(* A read of nothing. *)
Nothing == [width |-> 0, order |-> "LE", signed |-> FALSE]

NoFile == [open |-> FALSE, eof |-> FALSE, len |-> Unasked]
JustOpened == [open |-> TRUE, eof |-> FALSE, len |-> Unasked]

-----------------------------------------------------------------------------
Power[n \in Nat] == IF n = 0 THEN 1 ELSE Base * Power[n - 1]

(* The values of a type, and the two conversions between a signed type and *)
(* the unsigned one of its width.                                          *)
Limit(type) == Power[type.width]

Holds(type, v) == IF type.signed THEN -Limit(type) <= 2 * v /\ 2 * v < Limit(type)
                                 ELSE 0 <= v /\ v < Limit(type)

Unsigned(type, v) == v % Limit(type)

(* Mutant: every value is taken as it is. *)
ConvertedNever(type, u) == u

Converted(type, u) == IF type.signed /\ Limit(type) <= 2 * u THEN u - Limit(type) ELSE u

(* Mutant: without the conversion to a byte. *)
DigitUncut(u, i) == u \div Power[i - 1]

(* The i-th byte of an unsigned number, the lowest first. *)
Digit(u, i) == (u \div Power[i - 1]) % Base

(* The number with these digits, the lowest first. *)
Number(digits) ==
  LET first[k \in 0..Len(digits)] ==
        IF k = 0 THEN 0 ELSE first[k - 1] + (digits[k] * Power[k - 1])
  IN  first[Len(digits)]

Mirror(bytes) == [i \in DOMAIN bytes |-> bytes[Len(bytes) + 1 - i]]

(* The bytes of a value as writeLE() and writeBE() lay them out ... *)
Encode(type, v) ==
  LET lowest == [i \in 1..type.width |-> Digit(Unsigned(type, v), i)]
  IN IF type.order = "LE" THEN lowest ELSE Mirror(lowest)

(* ... and the value that readLE() and readBE() make of bytes. *)
Decoded(type, bytes) ==
  Converted(type, Number(IF type.order = "LE" THEN bytes ELSE Mirror(bytes)))

(* LIBNOKOGIRI_SWAP16, -32 and -64. *)
Swap(type, u) == Number(Mirror([i \in 1..type.width |-> Digit(u, i)]))

-----------------------------------------------------------------------------
FdInit ==
  /\ file = <<>>
  /\ pos = 0
  /\ fds = [o \in Objects |-> IF o = "this" THEN JustOpened ELSE NoFile]
  /\ got = {}
  /\ changes = 0
  /\ lengths = {0}
  /\ stale = [o \in Objects |-> FALSE]
  /\ kept = {}

(* o as module Fd has it. *)
At(o) == [pos |-> pos, eof |-> fds[o].eof, len |-> fds[o].len]

Becomes(o, f) ==
  /\ pos' = f.pos
  /\ fds' = [fds EXCEPT ![o].eof = f.eof, ![o].len = f.len]

(* length(), of an object that may have no file. *)
LengthNow(o) == IF fds[o].open THEN LengthOf(At(o), Len(file)) ELSE fds[o].len

(* seek(), head(), and seekRel(), which does nothing when it would fail. *)
Seek(o, target) ==
  /\ fds[o].open
  /\ Becomes(o, SeekTo(At(o), Len(file), target))
  /\ got' = {}
  /\ UNCHANGED <<disk, stale>>

(* seek() to before the beginning, or without a file: lseek() answers -1,  *)
(* which is compared with the length all the same.                         *)
SeekFails(o) ==
  /\ fds' = [fds EXCEPT ![o].eof = (LengthNow(o) = -1), ![o].len = LengthNow(o)]
  /\ got' = {}
  /\ UNCHANGED <<disk, pos, stale>>

(* tail(); without a file it does nothing, or what SeekFails does. *)
SeekTail(o) ==
  /\ fds[o].open
  /\ Becomes(o, SeekTo(At(o), Len(file), LengthNow(o)))
  /\ got' = {}
  /\ UNCHANGED <<disk, stale>>

(* readLE() or readBE() of a type, or a read of nothing (type.width = 0).  *)
(* What does not arrive stays zero, and the value is set all the same.     *)
ReadNumber(o, type) ==
  /\ fds[o].open
  /\ LET n == Delivered(At(o), Len(file), type.width)
         bytes == [i \in 1..type.width |-> IF i <= n THEN file[pos + i] ELSE 0]
     IN /\ Becomes(o, ReadBytes(At(o), Len(file), type.width))
        /\ got' = {[at |-> pos, type |-> type, whole |-> n = type.width,
                    value |-> Decoded(type, bytes)]}
  /\ UNCHANGED <<disk, stale>>

(* The contents and what is known of them become those of f. *)
Change(f, numbers) ==
  /\ changes < MaxChanges
  /\ changes' = changes + 1
  /\ file' = f
  /\ kept' = numbers
  /\ got' = {}
  /\ lengths' = lengths \cup {Len(f)}
  /\ stale' = [o \in Objects |->
                 stale[o] \/ (fds[o].len # Unasked /\ Len(f) # Len(file))]

(* The numbers of which nothing lies in [from, to). *)
Outside(from, to) == {k \in kept : k.at + k.type.width <= from \/ to <= k.at}

(* write() of n bytes at pos; a hole before it is filled with zeros. *)
Written(bytes, n) ==
  [i \in 1..(IF Len(file) < pos + n THEN pos + n ELSE Len(file)) |->
     IF pos < i /\ i <= pos + n THEN bytes[i - pos]
     ELSE IF i <= Len(file) THEN file[i] ELSE 0]

(* writeLE() or writeBE(), which may write only a beginning. *)
WriteNumber(o, type, v) ==
  /\ fds[o].open
  /\ pos < Room
  /\ LET n == IF pos + type.width <= Room THEN type.width ELSE Room - pos
     IN /\ Change(Written(Encode(type, v), n),
                  Outside(pos, pos + n)
                    \cup IF n = type.width THEN {[at |-> pos, type |-> type, value |-> v]}
                                           ELSE {})
        /\ pos' = pos + n
  /\ UNCHANGED fds

(* resize() *)
Resize(o, n) ==
  /\ fds[o].open
  /\ Change([i \in 1..n |-> IF i <= Len(file) THEN file[i] ELSE 0], Outside(n, Room))
  /\ UNCHANGED <<pos, fds>>

(* Mutant: the other members are copied too. *)
DupCopies(o, p) ==
  /\ fds[o].open
  /\ p # o
  /\ fds' = [fds EXCEPT ![p] = fds[o]]
  /\ stale' = [stale EXCEPT ![p] = FALSE]
  /\ got' = {}
  /\ UNCHANGED <<disk, pos>>

(* p = o.dup() *)
Dup(o, p) ==
  /\ fds[o].open
  /\ p # o
  /\ fds' = [fds EXCEPT ![p] = JustOpened]
  /\ stale' = [stale EXCEPT ![p] = FALSE]
  /\ got' = {}
  /\ UNCHANGED <<disk, pos>>

(* A move or a swap: every member is exchanged. *)
Exchange ==
  /\ fds' = [fds EXCEPT !["this"] = fds["other"], !["other"] = fds["this"]]
  /\ stale' = [stale EXCEPT !["this"] = stale["other"], !["other"] = stale["this"]]
  /\ got' = {}
  /\ UNCHANGED <<disk, pos>>

(* invalidate() *)
Invalidate(o) ==
  /\ fds' = [fds EXCEPT ![o].open = FALSE]
  /\ got' = {}
  /\ UNCHANGED <<disk, pos, stale>>

FdNext ==
  \/ \E o \in Objects :
       \/ \E n \in Offsets : Seek(o, n)
       \/ SeekFails(o)
       \/ SeekTail(o)
       \/ \E type \in Types \cup {Nothing} : ReadNumber(o, type)
       \/ \E type \in Types, v \in Numbers : Holds(type, v) /\ WriteNumber(o, type, v)
       \/ \E n \in Offsets \cap 0..Room : Resize(o, n)
       \/ \E p \in Objects : Dup(o, p)
       \/ Invalidate(o)
  \/ Exchange

FdSpec == FdInit /\ [][FdNext]_fdvars

-----------------------------------------------------------------------------
FdTypeOK ==
  /\ file \in Seq(0..Base - 1) /\ Len(file) <= Room
  /\ pos \in Nat
  /\ fds \in [Objects -> [open : BOOLEAN, eof : BOOLEAN, len : Nat \cup {Unasked}]]
  /\ changes \in 0..MaxChanges
  /\ lengths \subseteq 0..Room
  /\ stale \in [Objects -> BOOLEAN]
  /\ kept \subseteq [at : 0..Room, type : Types, value : Numbers]
  /\ \A k \in kept : k.at + k.type.width <= Len(file)

(* A number that is whole in the file is read in full, and as the value    *)
(* that was written when it is read in the same type; of the other         *)
(* signedness it is the same modulo the width, in the other order it has   *)
(* its bytes exchanged.  Whatever else was written, resized or read.       *)
NumbersSurvive ==
  \A g \in got, k \in kept :
    g.at = k.at /\ g.type.width = k.type.width =>
      /\ g.whole
      /\ g.type = k.type => g.value = k.value
      /\ Unsigned(g.type, g.value) =
           IF g.type.order = k.type.order THEN Unsigned(k.type, k.value)
                                          ELSE Swap(k.type, Unsigned(k.type, k.value))

(* tail() goes to a length that the file has had, and says that this is    *)
(* the end; to its end now, unless the length was asked for before it      *)
(* changed (tail(), length()).                                             *)
TailLands ==
  [][\A o \in Objects :
       SeekTail(o) => /\ pos' \in lengths
                      /\ fds'[o].eof
                      /\ ~stale[o] => pos' = Len(file)]_fdvars

(* isEOF() of an open object becomes true only at or past the end of the   *)
(* file, or at a length that the file has had (read(), seek()); never by a *)
(* write, by a resize, or by asking another descriptor (dup()).            *)
EofAtSomeEnd ==
  [][\A o \in Objects :
       fds'[o].open /\ fds'[o].eof /\ (\A p \in Objects : ~fds[p].eof) =>
         disk' = disk /\ (pos' \in lengths \/ Len(file) <= pos')]_fdvars

=============================================================================
