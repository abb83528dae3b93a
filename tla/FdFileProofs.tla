---------------------------- MODULE FdFileProofs ----------------------------
(***************************************************************************)
(* For a file of any contents, numbers of any width in bytes of any size,  *)
(* and any number of changes: where tail() lands, when isEOF() becomes     *)
(* true, and that the numbers written survive.                             *)
(***************************************************************************)
EXTENDS FdFile, Arithmetic, SequenceTheorems, TLAPS

(* The cached lengths are lengths the file has had, and the present one    *)
(* unless it changed since.                                                *)
LengthsKnown ==
  /\ Len(file) \in lengths
  /\ lengths \subseteq Nat
  /\ pos \in Nat
  /\ fds \in [Objects -> [open : BOOLEAN, eof : BOOLEAN, len : Nat \cup {Unasked}]]
  /\ stale \in [Objects -> BOOLEAN]
  /\ \A o \in Objects :
       fds[o].len # Unasked => /\ fds[o].len \in lengths
                               /\ ~stale[o] => fds[o].len = Len(file)

-----------------------------------------------------------------------------
(* A function on 1..n has the length n. *)
LEMMA LengthOfFunction ==
  ASSUME NEW n \in Nat, NEW f, f = [i \in 1..n |-> f[i]]
  PROVE  Len(f) = n
<1>1. f \in Seq({f[i] : i \in 1..n})
  <2>1. f \in [1..n -> {f[i] : i \in 1..n}]
    OBVIOUS
  <2> QED BY <2>1
<1> QED BY <1>1, LenProperties

(* What a write leaves is the longer of the file and where it ends. *)
LEMMA LengthWritten ==
  ASSUME NEW bytes, NEW n \in Nat, pos \in Nat, Len(file) \in Nat
  PROVE  Len(Written(bytes, n)) \in Nat
<1> DEFINE last == IF Len(file) < pos + n THEN pos + n ELSE Len(file)
<1>1. last \in Nat
  OBVIOUS
<1>2. Written(bytes, n) = [i \in 1..last |-> Written(bytes, n)[i]]
  BY DEF Written
<1> QED BY <1>1, <1>2, LengthOfFunction

(* What length() answers is a length the file has had. *)
LEMMA LengthAnswered ==
  ASSUME LengthsKnown, NEW o \in Objects
  PROVE  /\ LengthOf(At(o), Len(file)) \in lengths
         /\ ~stale[o] => LengthOf(At(o), Len(file)) = Len(file)
BY DEF LengthsKnown, LengthOf, At

-----------------------------------------------------------------------------
LEMMA LengthsKnownInit == FdInit => LengthsKnown
<1> SUFFICES ASSUME FdInit PROVE LengthsKnown
  OBVIOUS
<1>1. Len(file) = 0
  BY DEF FdInit
<1> QED BY <1>1 DEF FdInit, LengthsKnown, JustOpened, NoFile, Unasked, Objects

(* Seeks and reads: the file stays, and o may learn its length. *)
LEMMA LengthsKnownUse ==
  ASSUME LengthsKnown, NEW o \in Objects, NEW e \in BOOLEAN,
         NEW n \in {fds[o].len, LengthOf(At(o), Len(file))},
         fds' = [fds EXCEPT ![o].eof = e, ![o].len = n],
         pos' \in Nat, UNCHANGED <<disk, stale>>
  PROVE  LengthsKnown'
<1>1. n # Unasked => n \in lengths /\ (~stale[o] => n = Len(file))
  BY LengthAnswered DEF LengthsKnown
<1>2. n \in Nat \cup {Unasked}
  BY LengthAnswered DEF LengthsKnown
<1>3. fds' \in [Objects -> [open : BOOLEAN, eof : BOOLEAN, len : Nat \cup {Unasked}]]
  BY <1>2 DEF LengthsKnown
<1>4. \A p \in Objects : fds'[p].len = IF p = o THEN n ELSE fds[p].len
  BY DEF LengthsKnown
<1> QED BY <1>1, <1>3, <1>4 DEF LengthsKnown, disk

(* Writes and resizes: no object learns that the length changed. *)
LEMMA LengthsKnownChange ==
  ASSUME LengthsKnown, NEW f, NEW numbers, Change(f, numbers), Len(f) \in Nat,
         UNCHANGED fds, pos' \in Nat
  PROVE  LengthsKnown'
<1>1. stale' \in [Objects -> BOOLEAN]
  BY DEF Change, LengthsKnown
<1>2. ASSUME NEW p \in Objects, fds'[p].len # Unasked
      PROVE  /\ fds'[p].len \in lengths'
             /\ ~stale'[p] => fds'[p].len = Len(file')
  BY <1>2 DEF Change, LengthsKnown
<1> QED BY <1>1, <1>2 DEF Change, LengthsKnown

LEMMA LengthsKnownNext == LengthsKnown /\ [FdNext]_fdvars => LengthsKnown'
<1> SUFFICES ASSUME LengthsKnown, [FdNext]_fdvars PROVE LengthsKnown'
  OBVIOUS
<1>1. ASSUME NEW o \in Objects, NEW n \in Offsets, Seek(o, n) PROVE LengthsKnown'
  <2>1. n \in Nat
    BY FdFileAssumption
  <2> QED BY <1>1, <2>1, LengthsKnownUse DEF Seek, Becomes, SeekTo
<1>2. ASSUME NEW o \in Objects, SeekFails(o) PROVE LengthsKnown'
  <2>1. LengthNow(o) \in {fds[o].len, LengthOf(At(o), Len(file))}
    BY DEF LengthNow
  <2> QED BY <1>2, <2>1, LengthsKnownUse DEF SeekFails, LengthsKnown
<1>3. ASSUME NEW o \in Objects, SeekTail(o) PROVE LengthsKnown'
  <2>1. LengthNow(o) \in Nat
    BY <1>3, LengthAnswered DEF LengthNow, SeekTail, LengthsKnown
  <2> QED BY <1>3, <2>1, LengthsKnownUse DEF SeekTail, Becomes, SeekTo
<1>4. ASSUME NEW o \in Objects, NEW type \in Types \cup {Nothing}, ReadNumber(o, type)
      PROVE  LengthsKnown'
  <2>1. type.width \in Nat
    BY FdFileAssumption DEF Nothing
  <2> DEFINE b == ReadBytes(At(o), Len(file), type.width)
  <2>2. b.pos \in Nat /\ b.eof \in BOOLEAN /\ b.len = fds[o].len
    BY <2>1 DEF ReadBytes, Delivered, At, LengthsKnown
  <2>3. /\ pos' = b.pos
        /\ fds' = [fds EXCEPT ![o].eof = b.eof, ![o].len = b.len]
        /\ UNCHANGED <<disk, stale>>
    BY <1>4 DEF ReadNumber, Becomes
  <2> HIDE DEF b
  <2> QED BY <2>2, <2>3, LengthsKnownUse
<1>5. ASSUME NEW o \in Objects, NEW type \in Types, NEW v \in Numbers, WriteNumber(o, type, v)
      PROVE  LengthsKnown'
  <2>1. PICK n \in {type.width, Room - pos} :
          /\ pos < Room
          /\ \E k : Change(Written(Encode(type, v), n), k)
          /\ pos' = pos + n
          /\ UNCHANGED fds
    BY <1>5 DEF WriteNumber
  <2>2. n \in Nat /\ pos' \in Nat
    BY <2>1, FdFileAssumption DEF LengthsKnown
  <2>3. Len(Written(Encode(type, v), n)) \in Nat
    BY <2>2, LengthWritten DEF LengthsKnown
  <2> QED BY <2>1, <2>2, <2>3, LengthsKnownChange
<1>6. ASSUME NEW o \in Objects, NEW n \in Offsets \cap 0..Room, Resize(o, n)
      PROVE  LengthsKnown'
  <2> DEFINE f == [i \in 1..n |-> IF i <= Len(file) THEN file[i] ELSE 0]
  <2>1. n \in Nat
    BY FdFileAssumption
  <2>2. f = [i \in 1..n |-> f[i]]
    OBVIOUS
  <2>3. Change(f, Outside(n, Room)) /\ UNCHANGED <<pos, fds>>
    BY <1>6 DEF Resize
  <2> HIDE DEF f
  <2>4. Len(f) \in Nat
    BY <2>1, <2>2, LengthOfFunction
  <2>5. pos' \in Nat
    BY <2>3 DEF LengthsKnown
  <2> QED BY <2>3, <2>4, <2>5, LengthsKnownChange
<1>7. ASSUME NEW o \in Objects, NEW p \in Objects, Dup(o, p) PROVE LengthsKnown'
  BY <1>7 DEF Dup, JustOpened, LengthsKnown, disk, Unasked
<1>8. ASSUME NEW o \in Objects, Invalidate(o) PROVE LengthsKnown'
  BY <1>8 DEF Invalidate, LengthsKnown, disk
<1>9. CASE Exchange
  BY <1>9 DEF Exchange, LengthsKnown, disk, Objects
<1>10. CASE UNCHANGED fdvars
  BY <1>10 DEF fdvars, disk, LengthsKnown
<1> QED BY <1>1, <1>2, <1>3, <1>4, <1>5, <1>6, <1>7, <1>8, <1>9, <1>10 DEF FdNext

THEOREM LengthsCorrect == FdSpec => []LengthsKnown
BY LengthsKnownInit, LengthsKnownNext, PTL DEF FdSpec

-----------------------------------------------------------------------------
(* tail() goes to a length the file has had and says that it is the end,   *)
(* whatever other objects wrote or resized meanwhile (tail(), length()).   *)
THEOREM TailCorrect == FdSpec => TailLands
<1> DEFINE Landed == \A o \in Objects :
                       SeekTail(o) => /\ pos' \in lengths
                                      /\ fds'[o].eof
                                      /\ ~stale[o] => pos' = Len(file)
<1>1. LengthsKnown => Landed
  <2> SUFFICES ASSUME LengthsKnown, NEW o \in Objects, SeekTail(o)
               PROVE  /\ pos' \in lengths
                      /\ fds'[o].eof
                      /\ ~stale[o] => pos' = Len(file)
    OBVIOUS
  <2>1. /\ pos' = LengthOf(At(o), Len(file))
        /\ fds' = [fds EXCEPT ![o].eof = TRUE, ![o].len = LengthOf(At(o), Len(file))]
    BY DEF SeekTail, Becomes, SeekTo, LengthNow
  <2>2. fds'[o].eof
    BY <2>1 DEF LengthsKnown
  <2> QED BY <2>1, <2>2, LengthAnswered
<1>2. LengthsKnown => [Landed]_fdvars
  BY <1>1
<1> QED BY <1>2, LengthsCorrect, PTL DEF TailLands

(* isEOF() becomes true only where a read found no byte or where a seek    *)
(* met a length the file has had (read(), seek(), swap(), dup()).          *)
THEOREM EofCorrect == FdSpec => EofAtSomeEnd
<1> DEFINE Found == \A o \in Objects :
                      fds'[o].open /\ fds'[o].eof /\ (\A p \in Objects : ~fds[p].eof) =>
                        disk' = disk /\ (pos' \in lengths \/ Len(file) <= pos')
<1>1. LengthsKnown /\ FdNext => Found
  <2> SUFFICES ASSUME LengthsKnown, FdNext, NEW q \in Objects,
                      fds'[q].open, fds'[q].eof, \A p \in Objects : ~fds[p].eof
               PROVE  disk' = disk /\ (pos' \in lengths \/ Len(file) <= pos')
    OBVIOUS
  <2>1. ASSUME NEW o \in Objects, NEW n \in Offsets, Seek(o, n)
        PROVE  disk' = disk /\ pos' \in lengths
    <3>1. fds' = [fds EXCEPT ![o].eof = (n = LengthOf(At(o), Len(file))),
                             ![o].len = LengthOf(At(o), Len(file))]
      BY <2>1 DEF Seek, Becomes, SeekTo
    <3>2. n = LengthOf(At(o), Len(file))
      BY <3>1 DEF LengthsKnown
    <3> QED BY <2>1, <3>2, LengthAnswered DEF Seek, Becomes, SeekTo
  <2>2. ASSUME NEW o \in Objects, SeekFails(o) PROVE FALSE
    <3>1. fds' = [fds EXCEPT ![o].eof = (LengthNow(o) = -1), ![o].len = LengthNow(o)]
      BY <2>2 DEF SeekFails
    <3>2. q = o /\ LengthNow(o) = -1 /\ fds[o].open
      BY <3>1 DEF LengthsKnown
    <3>3. LengthNow(o) \in Nat
      BY <3>2, LengthAnswered DEF LengthNow, LengthsKnown
    <3> QED BY <3>2, <3>3
  <2>3. ASSUME NEW o \in Objects, SeekTail(o)
        PROVE  disk' = disk /\ pos' \in lengths
    BY <2>3, LengthAnswered DEF SeekTail, Becomes, SeekTo, LengthNow
  <2>4. ASSUME NEW o \in Objects, NEW type \in Types \cup {Nothing}, ReadNumber(o, type)
        PROVE  disk' = disk /\ Len(file) <= pos'
    <3>1. type.width \in Nat
      BY FdFileAssumption DEF Nothing
    <3> DEFINE n == type.width
               b == ReadBytes(At(o), Len(file), n)
    <3>2. /\ pos' = b.pos
          /\ fds' = [fds EXCEPT ![o].eof = b.eof, ![o].len = b.len]
          /\ UNCHANGED disk
      BY <2>4 DEF ReadNumber, Becomes
    <3>3. b.eof
      BY <3>2 DEF LengthsKnown
    <3>4. Delivered(At(o), Len(file), n) = 0 /\ n # 0
      BY <3>3 DEF ReadBytes, At
    <3>5. Len(file) <= pos /\ b.pos = pos
      BY <3>1, <3>4 DEF ReadBytes, Delivered, At, LengthsKnown
    <3> QED BY <3>2, <3>5
  <2>5. ASSUME NEW o \in Objects, NEW type \in Types, NEW v \in Numbers, WriteNumber(o, type, v)
        PROVE  FALSE
    BY <2>5 DEF WriteNumber
  <2>6. ASSUME NEW o \in Objects, NEW n \in Offsets \cap 0..Room, Resize(o, n) PROVE FALSE
    BY <2>6 DEF Resize
  <2>7. ASSUME NEW o \in Objects, NEW p \in Objects, Dup(o, p) PROVE FALSE
    BY <2>7 DEF Dup, JustOpened, LengthsKnown
  <2>8. ASSUME NEW o \in Objects, Invalidate(o) PROVE FALSE
    BY <2>8 DEF Invalidate, LengthsKnown
  <2>9. ASSUME Exchange PROVE FALSE
    BY <2>9 DEF Exchange, LengthsKnown, Objects
  <2> QED BY <2>1, <2>2, <2>3, <2>4, <2>5, <2>6, <2>7, <2>8, <2>9 DEF FdNext
<1>2. LengthsKnown /\ [FdNext]_fdvars => [Found]_fdvars
  BY <1>1
<1> QED BY <1>2, LengthsCorrect, PTL DEF EofAtSomeEnd, FdSpec

-----------------------------------------------------------------------------
(* The powers of the number of values a byte has. *)
LEMMA PowerFacts ==
  /\ Power[0] = 1
  /\ \A n \in Nat : Power[n] \in Nat \ {0}
  /\ \A n \in Nat : Power[n + 1] = Base * Power[n]
<1> DEFINE Goes(f) == f = [n \in Nat |-> IF n = 0 THEN 1 ELSE Base * f[n - 1]]
           p == Power
           S == {n \in Nat : p[n] \in Nat \ {0}}
<1>1. Power = CHOOSE f : Goes(f)
  BY DEF Power
<1>2. \E f : Goes(f)
  BY PowerFunction
<1>3. Goes(p)
  BY <1>1, <1>2
<1> HIDE DEF p
<1>4. p[0] = 1 /\ \A n \in Nat : p[n + 1] = Base * p[n]
  BY <1>3
<1>5. 0 \in S
  BY <1>4
<1>6. ASSUME NEW n \in Nat, n \in S PROVE n + 1 \in S
  <2>1. Base \in Nat \ {0} /\ p[n] \in Nat \ {0} /\ p[n + 1] = Base * p[n]
    BY <1>4, <1>6, FdFileAssumption
  <2>2. \A x, y \in Nat \ {0} : x * y \in Nat \ {0}
    OBVIOUS
  <2> QED
    BY <2>1, <2>2
<1> HIDE DEF S
<1>7. Nat \subseteq S
  BY <1>5, <1>6, Upwards
<1> QED
  BY <1>4, <1>7 DEF S, p

(* The numbers that the first digits give, from none of them to all. *)
Firsts(d) == RunningSum(0, [k \in 1..Len(d) |-> d[k] * Power[k - 1]], Len(d))

LEMMA NumberSums ==
  ASSUME NEW d, Len(d) \in Nat
  PROVE  /\ Firsts(d)[0] = 0
         /\ \A k \in 1..Len(d) : Firsts(d)[k] = Firsts(d)[k - 1] + (d[k] * Power[k - 1])
         /\ Number(d) = Firsts(d)[Len(d)]
<1> DEFINE n == Len(d)
           a == [k \in 1..n |-> d[k] * Power[k - 1]]
           Sums(f) == f = [k \in 0..n |-> IF k = 0 THEN 0
                                          ELSE f[k - 1] + (d[k] * Power[k - 1])]
           s == Firsts(d)
           e == CHOOSE f : Sums(f)
<1>1. IsRunningSum(s, 0, a, n)
  BY RunningSumExists DEF Firsts
<1>2. Number(d) = e[n]
  BY DEF Number
<1>3. n \in Nat /\ \A k \in 1..n : a[k] = d[k] * Power[k - 1]
  OBVIOUS
<1> HIDE DEF a, s, n
<1>4. s[0] = 0 /\ \A k \in 1..n : s[k] = s[k - 1] + (d[k] * Power[k - 1])
  BY <1>1, <1>3 DEF IsRunningSum
<1>5. \E f : Sums(f)
  <2> DEFINE f == [k \in 0..n |-> s[k]]
  <2>1. \A k \in 0..n : f[k] = IF k = 0 THEN 0 ELSE f[k - 1] + (d[k] * Power[k - 1])
    <3>1. \A k \in 0..n : k # 0 => k - 1 \in 0..n /\ k \in 1..n
      BY <1>3
    <3> QED
      BY <1>4, <3>1
  <2>2. f = [k \in 0..n |-> f[k]]
    OBVIOUS
  <2> HIDE DEF f
  <2>3. Sums(f)
    BY <2>1, <2>2
  <2> HIDE DEF Sums
  <2> QED
    BY <2>3
<1>6. Sums(e)
  BY <1>5
<1> HIDE DEF e
<1>7. e[0] = 0 /\ \A k \in 1..n : e[k] = e[k - 1] + (d[k] * Power[k - 1])
  BY <1>3, <1>6
<1>8. IsRunningSum(e, 0, a, n)
  BY <1>3, <1>7 DEF IsRunningSum
<1>9. e[n] = s[n]
  BY <1>1, <1>3, <1>8, RunningSumUnique
<1> QED
  BY <1>2, <1>4, <1>9 DEF n, s

LEMMA NumberIs ==
  ASSUME NEW n \in Nat, NEW d, Len(d) = n, NEW s, s[0] = 0,
         \A k \in 1..n : s[k] = s[k - 1] + (d[k] * Power[k - 1])
  PROVE  Number(d) = s[n]
<1> DEFINE f == Firsts(d)
           S == {k \in Nat : s[k] = f[k]}
<1>1. /\ f[0] = 0 /\ Number(d) = f[n]
      /\ \A k \in 1..n : f[k] = f[k - 1] + (d[k] * Power[k - 1])
  BY NumberSums
<1> HIDE DEF f
<1>2. 0 \in S
  BY <1>1
<1>3. ASSUME NEW k \in 0..n-1, k \in S PROVE k + 1 \in S
  <2>1. k + 1 \in 1..n /\ (k + 1) - 1 = k
    OBVIOUS
  <2>2. f[k + 1] = f[k] + (d[k + 1] * Power[k]) /\ s[k + 1] = s[k] + (d[k + 1] * Power[k])
    BY <1>1, <2>1
  <2> QED
    BY <1>3, <2>2
<1> HIDE DEF S
<1>4. 0..n \subseteq S
  BY <1>2, <1>3, UpTo
<1> QED
  BY <1>1, <1>4 DEF S

(* Digits below Base give a number below the power of their count. *)
LEMMA NumberBounded ==
  ASSUME NEW n \in Nat, NEW d, Len(d) = n, \A k \in 1..n : d[k] \in 0..Base-1
  PROVE  Number(d) \in 0..Power[n]-1
<1> DEFINE f == Firsts(d)
           S == {k \in Nat : f[k] \in 0..Power[k]-1}
<1>1. /\ f[0] = 0 /\ Number(d) = f[n]
      /\ \A k \in 1..n : f[k] = f[k - 1] + (d[k] * Power[k - 1])
  BY NumberSums
<1> HIDE DEF f
<1>2. 0 \in S
  BY <1>1, PowerFacts
<1>3. ASSUME NEW k \in 0..n-1, k \in S PROVE k + 1 \in S
  <2> DEFINE p == Power[k]
             c == d[k + 1]
             x == f[k]
  <2>1. k + 1 \in 1..n /\ (k + 1) - 1 = k /\ k \in Nat
    OBVIOUS
  <2>2. f[k + 1] = x + (c * p) /\ Power[k + 1] = Base * p /\ p \in Nat \ {0}
    BY <1>1, <2>1, PowerFacts
  <2>3. c \in 0..Base-1 /\ x \in 0..p-1 /\ Base \in Nat
    BY <1>3, <2>1, FdFileAssumption
  <2> HIDE DEF p, c, x
  <2> DEFINE cp == c * p
             bp == Base * p
  <2>4. cp \in Nat /\ cp <= (Base - 1) * p
    BY <2>2, <2>3
  <2>5. (Base - 1) * p = bp - p /\ bp \in Nat
    BY <2>2, <2>3
  <2> HIDE DEF cp, bp
  <2>6. x + cp \in 0..bp-1
    <3>1. cp <= bp - p
      BY <2>4, <2>5
    <3> QED
      BY <2>2, <2>3, <2>4, <2>5, <3>1
  <2> USE DEF cp, bp
  <2> QED
    BY <2>1, <2>2, <2>6
<1> HIDE DEF S
<1>4. 0..n \subseteq S
  BY <1>2, <1>3, UpTo
<1> QED
  BY <1>1, <1>4 DEF S

(* A digit is one value of a byte ... *)
LEMMA DigitInByte ==
  ASSUME NEW u \in Int, NEW i \in Nat \ {0}
  PROVE  Digit(u, i) \in 0..Base-1
<1>1. Power[i - 1] \in Nat \ {0} /\ Base \in Nat \ {0}
  BY PowerFacts, FdFileAssumption
<1>2. u \div Power[i - 1] \in Int
  BY <1>1, DivMod
<1> QED
  BY <1>1, <1>2, DivMod DEF Digit

(* ... and the lowest n of them give the number modulo the n-th power. *)
LEMMA NumberOfDigits ==
  ASSUME NEW u \in Int, NEW n \in Nat
  PROVE  Number([i \in 1..n |-> Digit(u, i)]) = u % Power[n]
<1> DEFINE d == [i \in 1..n |-> Digit(u, i)]
           s == [k \in 0..n |-> u % Power[k]]
<1>1. Len(d) = n
  <2>1. d = [i \in 1..n |-> d[i]]
    OBVIOUS
  <2> HIDE DEF d
  <2> QED
    BY <2>1, LengthOfFunction
<1>2. s[0] = 0
  <2>1. u % 1 = 0
    OBVIOUS
  <2> QED
    BY <2>1, PowerFacts
<1>3. ASSUME NEW k \in 1..n PROVE s[k] = s[k - 1] + (d[k] * Power[k - 1])
  <2>1. k - 1 \in Nat /\ k - 1 \in 0..n /\ k \in 0..n /\ (k - 1) + 1 = k
    OBVIOUS
  <2>2. Power[k] = Base * Power[k - 1] /\ Power[k - 1] \in Nat \ {0} /\ Base \in Nat \ {0}
    BY <2>1, PowerFacts, FdFileAssumption
  <2>3. u % (Base * Power[k - 1]) =
          (u % Power[k - 1]) + ((u \div Power[k - 1]) % Base) * Power[k - 1]
    BY <2>2, DigitStep
  <2>4. s[k] = u % (Base * Power[k - 1]) /\ s[k - 1] = u % Power[k - 1]
    BY <2>1, <2>2
  <2>5. d[k] = (u \div Power[k - 1]) % Base
    BY DEF Digit
  <2> QED
    BY <2>3, <2>4, <2>5
<1>4. n \in 0..n /\ s[n] = u % Power[n]
  OBVIOUS
<1> HIDE DEF d, s
<1>5. Number(d) = s[n]
  BY <1>1, <1>2, <1>3, NumberIs
<1> QED
  BY <1>4, <1>5 DEF d

-----------------------------------------------------------------------------
LEMMA LimitIsNat ==
  ASSUME NEW type \in Types
  PROVE  /\ type.width \in Nat \ {0} /\ type.signed \in BOOLEAN
         /\ type.order \in {"LE", "BE"}
         /\ Limit(type) \in Nat \ {0}
  BY FdFileAssumption, PowerFacts DEF Limit

LEMMA UnsignedBounded ==
  ASSUME NEW type \in Types, NEW v \in Int
  PROVE  Unsigned(type, v) \in 0..Limit(type)-1
  BY LimitIsNat, DivMod DEF Unsigned

(* The two conversions undo each other: on the values of a type ... *)
LEMMA ConvertedUnsigned ==
  ASSUME NEW type \in Types, NEW v \in Int, Holds(type, v)
  PROVE  Converted(type, Unsigned(type, v)) = v
<1> DEFINE L == Limit(type)
<1>1. L \in Nat \ {0} /\ type.signed \in BOOLEAN
  BY LimitIsNat
<1>2. IF type.signed THEN -L <= 2 * v /\ 2 * v < L ELSE 0 <= v /\ v < L
  BY DEF Holds
<1> HIDE DEF L
<1>3. CASE v >= 0
  <2>1. v < L /\ v \in 0..L-1 /\ v = L * 0 + v
    BY <1>1, <1>2, <1>3
  <2>2. v % L = v
    BY <1>1, <2>1, DivModUnique
  <2>3. type.signed => ~(L <= 2 * v)
    BY <1>1, <1>2
  <2> QED
    BY <2>2, <2>3 DEF Unsigned, Converted, L
<1>4. CASE v < 0
  <2>1. type.signed /\ v + L \in 0..L-1 /\ v = L * (-1) + (v + L) /\ L <= 2 * (v + L)
    BY <1>1, <1>2, <1>4
  <2>2. v % L = v + L
    BY <1>1, <2>1, DivModUnique
  <2>3. (v + L) - L = v
    BY <1>1
  <2> QED
    BY <2>1, <2>2, <2>3 DEF Unsigned, Converted, L
<1> QED
  BY <1>3, <1>4

(* ... and on the numbers of its width. *)
LEMMA UnsignedConverted ==
  ASSUME NEW type \in Types, NEW u \in 0..Limit(type)-1
  PROVE  Unsigned(type, Converted(type, u)) = u
<1> DEFINE L == Limit(type)
<1>1. L \in Nat \ {0} /\ u \in 0..L-1 /\ u \in Int
  BY LimitIsNat
<1> HIDE DEF L
<1>2. u % L = u
  <2>1. u = L * 0 + u
    BY <1>1
  <2> QED
    BY <1>1, <2>1, DivModUnique
<1>3. (u - L) % L = u
  <2>1. u - L = L * (-1) + u /\ u - L \in Int /\ -1 \in Int
    BY <1>1
  <2> QED
    BY <1>1, <2>1, DivModUnique
<1> QED
  BY <1>2, <1>3 DEF Unsigned, Converted, L

-----------------------------------------------------------------------------
(* Bytes turned round twice are as they were. *)
LEMMA MirrorTwice ==
  ASSUME NEW n \in Nat, NEW b, b = [i \in 1..n |-> b[i]]
  PROVE  /\ Len(b) = n /\ Len(Mirror(b)) = n
         /\ Mirror(b) = [i \in 1..n |-> b[n + 1 - i]]
         /\ Mirror(Mirror(b)) = b
<1> DEFINE m == Mirror(b)
<1>1. Len(b) = n /\ DOMAIN b = 1..n
  BY LengthOfFunction
<1>2. m = [i \in 1..n |-> b[n + 1 - i]]
  BY <1>1 DEF Mirror
<1>3. m = [i \in 1..n |-> m[i]] /\ DOMAIN m = 1..n
  BY <1>2
<1> HIDE DEF m
<1>4. Len(m) = n
  BY <1>3, LengthOfFunction
<1>5. Mirror(m) = [i \in 1..n |-> m[n + 1 - i]]
  BY <1>3, <1>4 DEF Mirror
<1>6. \A i \in 1..n : m[n + 1 - i] = b[i]
  <2>1. \A i \in 1..n : n + 1 - i \in 1..n /\ n + 1 - (n + 1 - i) = i
    OBVIOUS
  <2> QED
    BY <1>2, <2>1
<1>7. Mirror(m) = b
  BY <1>5, <1>6
<1> QED
  BY <1>1, <1>2, <1>4, <1>7 DEF m

(* A value has as many bytes as its type is wide, each of them one. *)
LEMMA EncodeFacts ==
  ASSUME NEW type \in Types, NEW v \in Int
  PROVE  /\ Encode(type, v) = [i \in 1..type.width |-> Encode(type, v)[i]]
         /\ \A i \in 1..type.width : Encode(type, v)[i] \in 0..Base-1
<1> DEFINE n == type.width
           u == Unsigned(type, v)
           lowest == [i \in 1..n |-> Digit(u, i)]
<1>1. n \in Nat
  BY LimitIsNat
<1>2. u \in Int
  BY UnsignedBounded, LimitIsNat
<1> HIDE DEF u
<1>3. lowest = [i \in 1..n |-> lowest[i]] /\ \A i \in 1..n : lowest[i] \in 0..Base-1
  <2>1. ASSUME NEW i \in 1..n PROVE lowest[i] \in 0..Base-1
    <3>1. i \in Nat \ {0}
      BY <1>1
    <3>2. Digit(u, i) \in 0..Base-1
      BY <1>2, <3>1, DigitInByte
    <3> QED
      BY <3>2
  <2> QED
    BY <2>1
<1>4. Encode(type, v) = IF type.order = "LE" THEN lowest ELSE Mirror(lowest)
  BY DEF Encode, u
<1> HIDE DEF lowest, n
<1>5. /\ Mirror(lowest) = [i \in 1..n |-> Mirror(lowest)[i]]
      /\ \A i \in 1..n : Mirror(lowest)[i] \in 0..Base-1
  <2>1. Mirror(lowest) = [i \in 1..n |-> lowest[n + 1 - i]]
    BY <1>1, <1>3, MirrorTwice
  <2>2. \A i \in 1..n : n + 1 - i \in 1..n
    BY <1>1
  <2> QED
    BY <1>3, <2>1, <2>2
<1> QED
  BY <1>3, <1>4, <1>5 DEF n

(* What reading as one type makes of what was written as another of the    *)
(* same width.                                                             *)
LEMMA DecodedEncoded ==
  ASSUME NEW g \in Types, NEW k \in Types, g.width = k.width, NEW v \in Int, Holds(k, v)
  PROVE  /\ Decoded(k, Encode(k, v)) = v
         /\ Unsigned(g, Decoded(g, Encode(k, v))) =
              IF g.order = k.order THEN Unsigned(k, v) ELSE Swap(k, Unsigned(k, v))
<1> DEFINE n == k.width
           u == Unsigned(k, v)
           lowest == [i \in 1..n |-> Digit(u, i)]
           turned == Mirror(lowest)
<1>1. n \in Nat
  BY LimitIsNat
<1>2. u \in 0..Limit(k)-1 /\ u \in Int
  BY UnsignedBounded, LimitIsNat
<1>3. Limit(k) = Power[n] /\ Limit(g) = Power[n]
  BY DEF Limit
<1>4. Number(lowest) = u
  <2>1. Number(lowest) = u % Power[n]
    BY <1>1, <1>2, NumberOfDigits
  <2>2. u % Power[n] = u
    <3>1. u = Power[n] * 0 + u /\ Power[n] \in Nat \ {0}
      BY <1>1, <1>2, PowerFacts
    <3> QED
      BY <1>2, <1>3, <3>1, DivModUnique
  <2> QED
    BY <2>1, <2>2
<1>5. Encode(k, v) = IF k.order = "LE" THEN lowest ELSE turned
  BY DEF Encode
<1>6. Swap(k, u) = Number(turned)
  BY DEF Swap
<1> HIDE DEF u
<1>7. lowest = [i \in 1..n |-> lowest[i]] /\ \A i \in 1..n : lowest[i] \in 0..Base-1
  <2>1. ASSUME NEW i \in 1..n PROVE lowest[i] \in 0..Base-1
    <3>1. i \in Nat \ {0}
      BY <1>1
    <3>2. Digit(u, i) \in 0..Base-1
      BY <1>2, <3>1, DigitInByte
    <3> QED
      BY <3>2
  <2> QED
    BY <2>1
<1> HIDE DEF lowest
<1>8. /\ Mirror(turned) = lowest /\ Len(turned) = n
      /\ turned = [i \in 1..n |-> lowest[n + 1 - i]]
  BY <1>1, <1>7, MirrorTwice
<1>9. Number(turned) \in 0..Limit(g)-1
  <2>1. \A i \in 1..n : turned[i] \in 0..Base-1
    <3>1. \A i \in 1..n : n + 1 - i \in 1..n
      BY <1>1
    <3> QED
      BY <1>7, <1>8, <3>1
  <2> HIDE DEF turned, n
  <2> QED
    BY <1>1, <1>3, <1>8, <2>1, NumberBounded
<1> HIDE DEF turned, n
<1>10. \A t \in {g, k} :
         Decoded(t, Encode(k, v)) =
           Converted(t, IF t.order = k.order THEN u ELSE Number(turned))
  <2>1. k.order \in {"LE", "BE"} /\ g.order \in {"LE", "BE"}
    BY LimitIsNat
  <2>2. turned = Mirror(lowest)
    BY DEF turned
  <2> QED
    BY <1>4, <1>5, <1>8, <2>1, <2>2 DEF Decoded
<1>11. Decoded(k, Encode(k, v)) = v
  BY <1>10, ConvertedUnsigned DEF u
<1>12. Unsigned(g, Decoded(g, Encode(k, v))) = IF g.order = k.order THEN u ELSE Number(turned)
  <2> DEFINE x == IF g.order = k.order THEN u ELSE Number(turned)
  <2>1. x \in 0..Limit(g)-1
    BY <1>2, <1>3, <1>9
  <2>2. Decoded(g, Encode(k, v)) = Converted(g, x)
    BY <1>10
  <2> HIDE DEF x
  <2>3. Unsigned(g, Decoded(g, Encode(k, v))) = x
    BY <2>1, <2>2, UnsignedConverted
  <2> QED
    BY <2>3 DEF x
<1> QED
  BY <1>6, <1>11, <1>12 DEF u

-----------------------------------------------------------------------------
(* The bytes of a number that is whole in the file are those it is encoded *)
(* as, whatever was written next to it.                                    *)
BytesKept ==
  \A k \in kept :
    /\ Holds(k.type, k.value)
    /\ \A i \in 1..k.type.width : file[k.at + i] = Encode(k.type, k.value)[i]

(* The inductive invariant of the contents. *)
ContentsKnown == FdTypeOK /\ BytesKept /\ NumbersSurvive

Bytes == 0..Base - 1

(* Contents that are a byte at every place up to n. *)
LEMMA BytesInFile ==
  ASSUME NEW n \in Nat, NEW f, f = [i \in 1..n |-> f[i]], \A i \in 1..n : f[i] \in Bytes
  PROVE  f \in Seq(Bytes) /\ Len(f) = n
<1>1. f \in [1..n -> Bytes]
  OBVIOUS
<1>2. f \in Seq(Bytes)
  BY <1>1
<1> QED
  BY <1>2, LengthOfFunction

(* What a number that may be in the file is. *)
LEMMA KeptFacts ==
  ASSUME FdTypeOK, NEW k \in kept
  PROVE  /\ k.at \in Nat /\ k.type \in Types /\ k.type.width \in Nat \ {0}
         /\ k.value \in Int /\ k.at + k.type.width <= Len(file)
         /\ file \in Seq(Bytes) /\ Len(file) \in Nat
<1>1. k \in [at : 0..Room, type : Types, value : Numbers]
  BY DEF FdTypeOK
<1>2. file \in Seq(Bytes) /\ k.at + k.type.width <= Len(file)
  BY DEF FdTypeOK, Bytes
<1>3. Len(file) \in Nat
  BY <1>2, LenProperties
<1>4. k.at \in 0..Room /\ k.type \in Types /\ k.value \in Numbers
  BY <1>1
<1>5. k.type.width \in Nat \ {0}
  BY <1>4, LimitIsNat
<1>6. k.at \in Nat /\ k.value \in Int
  BY <1>4, FdFileAssumption
<1> QED
  BY <1>2, <1>3, <1>4, <1>5, <1>6

(* Reads, seeks and whatever else leaves the contents alone. *)
LEMMA ContentsStay ==
  ASSUME ContentsKnown, UNCHANGED disk, pos' \in Nat,
         fds' \in [Objects -> [open : BOOLEAN, eof : BOOLEAN, len : Nat \cup {Unasked}]],
         stale' \in [Objects -> BOOLEAN], got' = {}
  PROVE  ContentsKnown'
<1>1. FdTypeOK'
  BY DEF ContentsKnown, FdTypeOK, disk
<1>2. BytesKept'
  BY DEF ContentsKnown, BytesKept, disk
<1>3. NumbersSurvive'
  BY DEF NumbersSurvive
<1> QED
  BY <1>1, <1>2, <1>3 DEF ContentsKnown

(* Writes and resizes: f is what the file becomes, s the numbers in it. *)
LEMMA ContentsChange ==
  ASSUME ContentsKnown, NEW f, NEW s, Change(f, s), UNCHANGED fds, pos' \in Nat,
         f \in Seq(Bytes), Len(f) <= Room,
         \A k \in s : /\ k \in [at : 0..Room, type : Types, value : Numbers]
                      /\ k.at + k.type.width <= Len(f)
                      /\ Holds(k.type, k.value)
                      /\ \A i \in 1..k.type.width : f[k.at + i] = Encode(k.type, k.value)[i]
  PROVE  ContentsKnown'
<1>1. FdTypeOK'
  <2>1. changes' \in 0..MaxChanges
    BY FdFileAssumption DEF Change, ContentsKnown, FdTypeOK
  <2>2. Len(f) \in Nat
    BY LenProperties
  <2>3. lengths' \subseteq 0..Room
    <3>1. lengths' = lengths \cup {Len(f)} /\ lengths \subseteq 0..Room
      BY DEF Change, ContentsKnown, FdTypeOK
    <3>2. Len(f) \in 0..Room
      BY <2>2, FdFileAssumption
    <3> QED
      BY <3>1, <3>2
  <2>4. stale' \in [Objects -> BOOLEAN]
    BY DEF Change, ContentsKnown, FdTypeOK
  <2>5. kept' = s /\ file' = f
    BY DEF Change
  <2> QED
    BY <2>1, <2>3, <2>4, <2>5 DEF ContentsKnown, FdTypeOK, Bytes
<1>2. BytesKept'
  BY DEF Change, BytesKept
<1>3. NumbersSurvive'
  BY DEF Change, NumbersSurvive
<1> QED
  BY <1>1, <1>2, <1>3 DEF ContentsKnown

-----------------------------------------------------------------------------
LEMMA ContentsInit == FdInit => ContentsKnown
<1> SUFFICES ASSUME FdInit PROVE ContentsKnown
  OBVIOUS
<1>1. file \in Seq(Bytes) /\ Len(file) = 0
  BY EmptySeq DEF FdInit
<1>2. FdTypeOK
  BY <1>1, FdFileAssumption DEF FdInit, FdTypeOK, JustOpened, NoFile, Unasked, Bytes
<1> QED
  BY <1>2 DEF FdInit, ContentsKnown, BytesKept, NumbersSurvive

(* A read of a number that is whole in the file gets all its bytes. *)
LEMMA ReadKeepsContents ==
  ASSUME ContentsKnown, NEW o \in Objects, NEW type \in Types \cup {Nothing},
         ReadNumber(o, type)
  PROVE  ContentsKnown'
<1> DEFINE w == type.width
           n == Delivered(At(o), Len(file), w)
           bytes == [i \in 1..w |-> IF i <= n THEN file[pos + i] ELSE 0]
           b == ReadBytes(At(o), Len(file), w)
<1>1. w \in Nat /\ pos \in Nat /\ Len(file) \in Nat
  BY FdFileAssumption, LenProperties DEF Nothing, ContentsKnown, FdTypeOK
<1>2. /\ n \in Nat
      /\ pos + w <= Len(file) => n = w
  BY <1>1 DEF Delivered, At
<1>3. b = [pos |-> pos + n, eof |-> fds[o].eof \/ (n = 0 /\ w # 0), len |-> fds[o].len]
  BY DEF ReadBytes, At
<1>4. /\ pos' = b.pos /\ fds' = [fds EXCEPT ![o].eof = b.eof, ![o].len = b.len]
      /\ got' = {[at |-> pos, type |-> type, whole |-> n = w, value |-> Decoded(type, bytes)]}
      /\ UNCHANGED <<disk, stale>>
  BY DEF ReadNumber, Becomes
<1> HIDE DEF n
<1>5. b.pos \in Nat /\ b.eof \in BOOLEAN /\ b.len = fds[o].len
  BY <1>1, <1>2, <1>3
<1> HIDE DEF b
<1>6. FdTypeOK'
  BY <1>4, <1>5 DEF ContentsKnown, FdTypeOK, disk
<1>7. BytesKept'
  BY <1>4 DEF ContentsKnown, BytesKept, disk
<1>8. ASSUME NEW k \in kept, pos = k.at, w = k.type.width
      PROVE  /\ n = w
             /\ type = k.type => Decoded(type, bytes) = k.value
             /\ Unsigned(type, Decoded(type, bytes)) =
                  IF type.order = k.type.order THEN Unsigned(k.type, k.value)
                  ELSE Swap(k.type, Unsigned(k.type, k.value))
  <2>1. /\ k.type \in Types /\ k.type.width \in Nat \ {0} /\ k.value \in Int
        /\ k.at + k.type.width <= Len(file)
    BY KeptFacts DEF ContentsKnown
  <2>2. n = w
    BY <1>2, <1>8, <2>1
  <2>3. /\ Holds(k.type, k.value)
        /\ \A i \in 1..w : file[pos + i] = Encode(k.type, k.value)[i]
    BY <1>8 DEF ContentsKnown, BytesKept
  <2>4. bytes = Encode(k.type, k.value)
    <3> DEFINE e == Encode(k.type, k.value)
    <3>1. e = [i \in 1..w |-> e[i]]
      BY <1>8, <2>1, EncodeFacts
    <3> HIDE DEF e
    <3>2. \A i \in 1..w : file[pos + i] = e[i]
      BY <2>3 DEF e
    <3>3. bytes = [i \in 1..w |-> e[i]]
      BY <1>1, <2>2, <3>2
    <3> QED
      BY <3>1, <3>3 DEF e
  <2>5. type \in Types
    BY <1>8, <2>1 DEF Nothing
  <2> HIDE DEF bytes
  <2> QED
    BY <1>8, <2>1, <2>2, <2>3, <2>4, <2>5, DecodedEncoded
<1> HIDE DEF bytes
<1>9. NumbersSurvive'
  <2>1. kept' = kept
    BY <1>4 DEF disk
  <2> DEFINE g == [at |-> pos, type |-> type, whole |-> n = w, value |-> Decoded(type, bytes)]
  <2>2. SUFFICES ASSUME NEW k \in kept, g.at = k.at, g.type.width = k.type.width
                 PROVE  /\ g.whole
                        /\ g.type = k.type => g.value = k.value
                        /\ Unsigned(g.type, g.value) =
                             IF g.type.order = k.type.order THEN Unsigned(k.type, k.value)
                             ELSE Swap(k.type, Unsigned(k.type, k.value))
    BY <1>4, <2>1, <2>2 DEF NumbersSurvive
  <2> QED
    BY <1>8, <2>2
<1> QED
  BY <1>6, <1>7, <1>9 DEF ContentsKnown

(* A number not touched by a write is where it was, the one written there  *)
(* is it if all of it was.                                                 *)
LEMMA WriteKeepsContents ==
  ASSUME ContentsKnown, NEW o \in Objects, NEW type \in Types, NEW v \in Numbers,
         Holds(type, v), WriteNumber(o, type, v)
  PROVE  ContentsKnown'
<1> DEFINE w == type.width
           n == IF pos + w <= Room THEN w ELSE Room - pos
           e == Encode(type, v)
           f == Written(e, n)
           last == IF Len(file) < pos + n THEN pos + n ELSE Len(file)
           new == IF n = w THEN {[at |-> pos, type |-> type, value |-> v]} ELSE {}
           s == Outside(pos, pos + n) \cup new
<1>1. /\ w \in Nat \ {0} /\ pos \in Nat /\ Room \in Nat /\ v \in Int
      /\ file \in Seq(Bytes) /\ Len(file) \in Nat /\ Len(file) <= Room
  <2>1. file \in Seq(Bytes)
    BY DEF ContentsKnown, FdTypeOK, Bytes
  <2> QED
    BY <2>1, LimitIsNat, LenProperties, FdFileAssumption DEF ContentsKnown, FdTypeOK
<1>2. Change(f, s) /\ pos' = pos + n /\ UNCHANGED fds /\ pos < Room
  BY DEF WriteNumber
<1>3. n \in Nat /\ n <= w /\ pos + n <= Room /\ last \in Nat /\ last <= Room /\ pos + n <= last
  BY <1>1, <1>2
<1>4. e = [i \in 1..w |-> e[i]] /\ \A i \in 1..w : e[i] \in Bytes
  BY <1>1, EncodeFacts DEF Bytes
<1>5. 0 \in Bytes
  BY FdFileAssumption DEF Bytes
<1> HIDE DEF e, n
<1>6. f = [i \in 1..last |-> IF pos < i /\ i <= pos + n THEN e[i - pos]
                             ELSE IF i <= Len(file) THEN file[i] ELSE 0]
  BY DEF Written
<1> HIDE DEF f, last, s
<1>7. ASSUME NEW i \in 1..last PROVE f[i] \in Bytes
  <2>1. CASE pos < i /\ i <= pos + n
    <3>1. i - pos \in 1..w
      BY <1>1, <1>3, <2>1
    <3> QED
      BY <1>4, <1>6, <2>1, <3>1
  <2>2. CASE ~(pos < i /\ i <= pos + n) /\ i <= Len(file)
    <3>1. i \in 1..Len(file)
      BY <1>1, <1>3, <2>2
    <3>2. file[i] \in Bytes
      BY <1>1, <3>1, ElementOfSeq
    <3> QED
      BY <1>6, <2>2, <3>2
  <2>3. CASE ~(pos < i /\ i <= pos + n) /\ ~(i <= Len(file))
    BY <1>5, <1>6, <2>3
  <2> QED
    BY <2>1, <2>2, <2>3
<1>8. f \in Seq(Bytes) /\ Len(f) = last
  <2>1. f = [i \in 1..last |-> f[i]]
    BY <1>6
  <2> QED
    BY <1>3, <1>7, <2>1, BytesInFile
<1>9. ASSUME NEW k \in s
      PROVE  /\ k \in [at : 0..Room, type : Types, value : Numbers]
             /\ k.at + k.type.width <= Len(f)
             /\ Holds(k.type, k.value)
             /\ \A i \in 1..k.type.width : f[k.at + i] = Encode(k.type, k.value)[i]
  <2>1. CASE k \in Outside(pos, pos + n)
    <3>1. k \in kept /\ (k.at + k.type.width <= pos \/ pos + n <= k.at)
      BY <2>1 DEF Outside
    <3>2. /\ k \in [at : 0..Room, type : Types, value : Numbers]
          /\ Holds(k.type, k.value)
          /\ \A i \in 1..k.type.width : file[k.at + i] = Encode(k.type, k.value)[i]
      BY <3>1 DEF ContentsKnown, FdTypeOK, BytesKept
    <3>3. k.at \in Nat /\ k.type.width \in Nat /\ k.at + k.type.width <= Len(file)
      BY <3>1, KeptFacts DEF ContentsKnown
    <3>4. Len(file) <= last
      BY <1>1, <1>3 DEF last
    <3>5. ASSUME NEW i \in 1..k.type.width PROVE f[k.at + i] = file[k.at + i]
      <4>1. /\ k.at + i \in 1..last /\ k.at + i <= Len(file)
            /\ ~(pos < k.at + i /\ k.at + i <= pos + n)
        BY <1>1, <1>3, <3>1, <3>3, <3>4
      <4> QED
        BY <1>6, <4>1
    <3>6. k.at + k.type.width <= Len(f)
      BY <1>1, <1>3, <1>8, <3>3, <3>4
    <3> QED
      BY <3>2, <3>5, <3>6
  <2>2. CASE k \in new
    <3>1. n = w /\ k = [at |-> pos, type |-> type, value |-> v]
      BY <2>2
    <3>2. pos \in 0..Room /\ pos + w <= Len(f)
      BY <1>1, <1>2, <1>3, <1>8, <3>1
    <3>3. ASSUME NEW i \in 1..w PROVE f[pos + i] = e[i]
      <4>1. /\ pos + i \in 1..last /\ pos < pos + i /\ pos + i <= pos + n
            /\ (pos + i) - pos = i
        BY <1>1, <1>3, <3>1
      <4> QED
        BY <1>6, <4>1
    <3> QED
      BY <3>1, <3>2, <3>3 DEF e
  <2> QED
    BY <2>1, <2>2 DEF s
<1> QED
  BY <1>1, <1>2, <1>3, <1>8, <1>9, ContentsChange

(* A number cut by a resize is no longer one. *)
LEMMA ResizeKeepsContents ==
  ASSUME ContentsKnown, NEW o \in Objects, NEW n \in Offsets \cap 0..Room, Resize(o, n)
  PROVE  ContentsKnown'
<1> DEFINE f == [i \in 1..n |-> IF i <= Len(file) THEN file[i] ELSE 0]
           s == Outside(n, Room)
<1>1. n \in Nat /\ n <= Room /\ Room \in Nat
  BY FdFileAssumption
<1>2. file \in Seq(Bytes) /\ Len(file) \in Nat /\ Len(file) <= Room /\ pos \in Nat
  <2>1. file \in Seq(Bytes)
    BY DEF ContentsKnown, FdTypeOK, Bytes
  <2> QED
    BY <2>1, LenProperties DEF ContentsKnown, FdTypeOK
<1>3. Change(f, s) /\ UNCHANGED <<pos, fds>>
  BY DEF Resize
<1>4. 0 \in Bytes
  BY FdFileAssumption DEF Bytes
<1>5. ASSUME NEW i \in 1..n PROVE f[i] \in Bytes
  <2>1. i <= Len(file) => file[i] \in Bytes
    BY <1>1, <1>2, ElementOfSeq
  <2> QED
    BY <1>4, <2>1
<1>6. f = [i \in 1..n |-> f[i]]
  OBVIOUS
<1>7. ASSUME NEW i \in 1..n, i <= Len(file) PROVE f[i] = file[i]
  BY <1>7
<1> HIDE DEF f
<1>8. f \in Seq(Bytes) /\ Len(f) = n
  BY <1>1, <1>5, <1>6, BytesInFile
<1>9. ASSUME NEW k \in s
      PROVE  /\ k \in [at : 0..Room, type : Types, value : Numbers]
             /\ k.at + k.type.width <= Len(f)
             /\ Holds(k.type, k.value)
             /\ \A i \in 1..k.type.width : f[k.at + i] = Encode(k.type, k.value)[i]
  <2>1. k \in kept /\ (k.at + k.type.width <= n \/ Room <= k.at)
    BY DEF Outside
  <2>2. /\ k \in [at : 0..Room, type : Types, value : Numbers]
        /\ Holds(k.type, k.value)
        /\ \A i \in 1..k.type.width : file[k.at + i] = Encode(k.type, k.value)[i]
    BY <2>1 DEF ContentsKnown, FdTypeOK, BytesKept
  <2>3. k.at \in Nat /\ k.type.width \in Nat \ {0} /\ k.at + k.type.width <= Len(file)
    BY <2>1, KeptFacts DEF ContentsKnown
  <2>4. k.at + k.type.width <= n
    BY <1>1, <1>2, <2>1, <2>3
  <2>5. ASSUME NEW i \in 1..k.type.width PROVE f[k.at + i] = file[k.at + i]
    <3>1. k.at + i \in 1..n /\ k.at + i <= Len(file)
      BY <1>1, <1>2, <2>3, <2>4
    <3> QED
      BY <1>7, <3>1
  <2> QED
    BY <1>8, <2>2, <2>4, <2>5
<1> HIDE DEF s
<1> QED
  BY <1>1, <1>2, <1>3, <1>8, <1>9, ContentsChange

LEMMA ContentsNext == ContentsKnown /\ [FdNext]_fdvars => ContentsKnown'
<1> SUFFICES ASSUME ContentsKnown, [FdNext]_fdvars PROVE ContentsKnown'
  OBVIOUS
<1>a. /\ pos \in Nat /\ stale \in [Objects -> BOOLEAN]
      /\ fds \in [Objects -> [open : BOOLEAN, eof : BOOLEAN, len : Nat \cup {Unasked}]]
      /\ Len(file) \in Nat
  BY LenProperties DEF ContentsKnown, FdTypeOK
<1>b. ASSUME NEW o \in Objects
      PROVE  LengthOf(At(o), Len(file)) \in Nat /\ LengthNow(o) \in Nat \cup {Unasked}
  BY <1>a DEF LengthOf, LengthNow, At, Unasked
<1>c. ASSUME NEW o \in Objects, NEW e \in BOOLEAN, NEW n \in Nat \cup {Unasked},
             fds' = [fds EXCEPT ![o].eof = e, ![o].len = n],
             pos' \in Nat, got' = {}, UNCHANGED <<disk, stale>>
      PROVE  ContentsKnown'
  <2>1. fds' \in [Objects -> [open : BOOLEAN, eof : BOOLEAN, len : Nat \cup {Unasked}]]
    BY <1>a, <1>c
  <2> QED
    BY <1>a, <1>c, <2>1, ContentsStay
<1>1. ASSUME NEW o \in Objects, NEW n \in Offsets, Seek(o, n) PROVE ContentsKnown'
  <2>1. n \in Nat /\ LengthOf(At(o), Len(file)) \in Nat
    BY <1>b, FdFileAssumption
  <2>2. /\ pos' = n /\ got' = {} /\ UNCHANGED <<disk, stale>>
        /\ fds' = [fds EXCEPT ![o].eof = (n = LengthOf(At(o), Len(file))),
                              ![o].len = LengthOf(At(o), Len(file))]
    BY <1>1 DEF Seek, Becomes, SeekTo
  <2>3. (n = LengthOf(At(o), Len(file))) \in BOOLEAN
    OBVIOUS
  <2> QED
    BY <1>c, <2>1, <2>2, <2>3
<1>2. ASSUME NEW o \in Objects, SeekFails(o) PROVE ContentsKnown'
  <2>1. /\ pos' = pos /\ got' = {} /\ UNCHANGED <<disk, stale>>
        /\ fds' = [fds EXCEPT ![o].eof = (LengthNow(o) = -1), ![o].len = LengthNow(o)]
    BY <1>2 DEF SeekFails
  <2>2. (LengthNow(o) = -1) \in BOOLEAN /\ LengthNow(o) \in Nat \cup {Unasked}
    BY <1>b
  <2> QED
    BY <1>a, <1>c, <2>1, <2>2
<1>3. ASSUME NEW o \in Objects, SeekTail(o) PROVE ContentsKnown'
  <2>1. LengthOf(At(o), Len(file)) \in Nat /\ LengthNow(o) = LengthOf(At(o), Len(file))
    BY <1>b, <1>3 DEF SeekTail, LengthNow
  <2>2. /\ pos' = LengthNow(o) /\ got' = {} /\ UNCHANGED <<disk, stale>>
        /\ fds' = [fds EXCEPT ![o].eof = TRUE, ![o].len = LengthNow(o)]
    BY <1>3, <2>1 DEF SeekTail, Becomes, SeekTo
  <2> QED
    BY <1>c, <2>1, <2>2
<1>4. ASSUME NEW o \in Objects, NEW p \in Objects, Dup(o, p) PROVE ContentsKnown'
  BY <1>a, <1>4, ContentsStay DEF Dup, JustOpened, Unasked
<1>5. ASSUME NEW o \in Objects, Invalidate(o) PROVE ContentsKnown'
  BY <1>a, <1>5, ContentsStay DEF Invalidate
<1>6. CASE Exchange
  BY <1>a, <1>6, ContentsStay DEF Exchange, Objects
<1>7. CASE UNCHANGED fdvars
  BY <1>7 DEF fdvars, disk, ContentsKnown, FdTypeOK, BytesKept, NumbersSurvive
<1> QED
  BY <1>1, <1>2, <1>3, <1>4, <1>5, <1>6, <1>7, ReadKeepsContents, WriteKeepsContents,
     ResizeKeepsContents DEF FdNext

LEMMA ContentsAlways == FdSpec => []ContentsKnown
  BY ContentsInit, ContentsNext, PTL DEF FdSpec

(* Every byte of the file is one, an offset never leaves the naturals, and *)
(* what is known to be in the file lies inside it.                         *)
THEOREM FdTypeCorrect == FdSpec => []FdTypeOK
<1>1. ContentsKnown => FdTypeOK
  BY DEF ContentsKnown
<1> QED
  BY <1>1, ContentsAlways, PTL

(* A number written with writeLE() or writeBE() and not written over or    *)
(* cut since is read back as it was, for numbers of any width in bytes of  *)
(* any size; read as another type of the width it has the same bits or,    *)
(* in the other byte order, the same bytes turned round (readLE(),         *)
(* readBE(), the swap macros).                                             *)
THEOREM SurvivalCorrect == FdSpec => []NumbersSurvive
<1>1. ContentsKnown => NumbersSurvive
  BY DEF ContentsKnown
<1> QED
  BY <1>1, ContentsAlways, PTL

=============================================================================
