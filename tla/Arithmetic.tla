----------------------------- MODULE Arithmetic -----------------------------
(***************************************************************************)
(* Arithmetic that the proofs about the specifications need and no backend *)
(* finds by itself: induction over the natural numbers, the existence of   *)
(* the functions the specifications define by recursion over an initial    *)
(* segment of them, and the digits of a number.  A property of numbers is  *)
(* given as the set of those that have it.                                 *)
(***************************************************************************)
EXTENDS Integers, WellFoundedInduction, TLAPS

(* A set of natural numbers has a least member. *)
LEMMA LeastNumber ==
  ASSUME NEW T, T \subseteq Nat, T # {}
  PROVE  \E n \in T : \A m \in T : n <= m
<1>1. PICK n \in T : \A m \in T : <<m, n>> \notin OpToRel(<, Nat)
  BY WFMin, NatLessThanWellFounded, Zenon
<1>2. ASSUME NEW m \in T PROVE n <= m
  <2>1. m \in Nat /\ n \in Nat
    OBVIOUS
  <2>2. ~(m < n)
    BY <1>1, <2>1, Zenon DEF OpToRel
  <2> QED
    BY <2>1, <2>2
<1> QED
  BY <1>2

(* Mathematical induction. *)
LEMMA Upwards ==
  ASSUME NEW S, 0 \in S, \A n \in Nat : n \in S => n + 1 \in S
  PROVE  Nat \subseteq S
<1> SUFFICES ASSUME Nat \ S # {} PROVE FALSE
  OBVIOUS
<1>1. PICK n \in Nat \ S : \A m \in Nat \ S : n <= m
  BY LeastNumber
<1>2. n # 0 /\ n - 1 \in Nat /\ n - 1 \in S
  BY <1>1
<1> QED
  BY <1>2

(* Induction that stops at m. *)
LEMMA UpTo ==
  ASSUME NEW m \in Nat, NEW S, 0 \in S, \A n \in 0..m-1 : n \in S => n + 1 \in S
  PROVE  0..m \subseteq S
<1> DEFINE T == {n \in Nat : n <= m => n \in S}
<1>1. 0 \in T
  OBVIOUS
<1>2. ASSUME NEW n \in Nat, n \in T PROVE n + 1 \in T
  BY <1>2
<1> HIDE DEF T
<1>3. Nat \subseteq T
  BY <1>1, <1>2, Upwards
<1> QED
  BY <1>3 DEF T

-----------------------------------------------------------------------------
(* The running sums of a sequence from c on. *)
IsRunningSum(f, c, a, m) == f[0] = c /\ \A k \in 1..m : f[k] = f[k-1] + a[k]

RunningSum(c, a, m) == CHOOSE f : IsRunningSum(f, c, a, m)

LEMMA RunningSumExists ==
  ASSUME NEW c, NEW a, NEW m \in Nat
  PROVE  IsRunningSum(RunningSum(c, a, m), c, a, m)
<1> DEFINE Sums(f, n) == IsRunningSum(f, c, a, n)
           S == {n \in Nat : \E f : Sums(f, n)}
<1>1. 0 \in S
  <2>1. Sums([k \in {0} |-> c], 0)
    BY DEF IsRunningSum
  <2> QED
    BY <2>1
<1>2. ASSUME NEW n \in Nat, n \in S PROVE n + 1 \in S
  <2>1. PICK f : Sums(f, n)
    BY <1>2
  <2> DEFINE g == [k \in 0..n+1 |-> IF k = n + 1 THEN f[n] + a[n+1] ELSE f[k]]
  <2>2. ASSUME NEW k \in 1..n+1
        PROVE  g[k] = g[k-1] + a[k]
    <3>1. CASE k = n + 1
      BY <3>1
    <3>2. CASE k # n + 1
      <4>1. k \in 1..n /\ g[k] = f[k] /\ g[k-1] = f[k-1]
        BY <3>2
      <4> QED
        BY <2>1, <4>1 DEF IsRunningSum
    <3> QED
      BY <3>1, <3>2
  <2>3. g[0] = c
    BY <2>1 DEF IsRunningSum
  <2> HIDE DEF g
  <2>4. Sums(g, n + 1)
    BY <2>2, <2>3 DEF IsRunningSum
  <2> HIDE DEF Sums
  <2> QED
    BY <2>4
<1> HIDE DEF S
<1>3. m \in S
  BY <1>1, <1>2, Upwards
<1>4. \E f : IsRunningSum(f, c, a, m)
  BY <1>3 DEF S
<1> QED
  BY <1>4 DEF RunningSum

(* There is only one. *)
LEMMA RunningSumUnique ==
  ASSUME NEW c, NEW a, NEW m \in Nat, NEW f, NEW g,
         IsRunningSum(f, c, a, m), IsRunningSum(g, c, a, m)
  PROVE  \A k \in 0..m : f[k] = g[k]
<1> DEFINE S == {k \in Nat : f[k] = g[k]}
<1>1. 0 \in S
  BY DEF IsRunningSum
<1>2. ASSUME NEW n \in 0..m-1, n \in S PROVE n + 1 \in S
  <2>1. n + 1 \in 1..m /\ (n + 1) - 1 = n
    OBVIOUS
  <2>2. f[n+1] = f[n] + a[n+1] /\ g[n+1] = g[n] + a[n+1]
    BY <2>1 DEF IsRunningSum
  <2> QED
    BY <1>2, <2>2
<1> HIDE DEF S
<1>3. 0..m \subseteq S
  BY <1>1, <1>2, UpTo
<1> QED
  BY <1>3 DEF S

(* Running sums of natural numbers are natural numbers that never fall; a  *)
(* lower bound of what is added is one of what they rise by.               *)
LEMMA RunningSumRises ==
  ASSUME NEW m \in Nat, NEW f, NEW a, NEW least \in Nat,
         f[0] \in Nat,
         \A k \in 1..m : a[k] \in Nat /\ least <= a[k] /\ f[k] = f[k-1] + a[k]
  PROVE  /\ \A k \in 0..m : f[k] \in Nat
         /\ \A j, k \in 0..m : j < k => f[j] + least <= f[k]
<1> DEFINE S == {k \in Nat : f[k] \in Nat}
<1>1. 0 \in S
  OBVIOUS
<1>2. ASSUME NEW n \in 0..m-1, n \in S PROVE n + 1 \in S
  BY <1>2
<1> HIDE DEF S
<1>3. 0..m \subseteq S
  BY <1>1, <1>2, UpTo
<1>4. \A k \in 0..m : f[k] \in Nat
  BY <1>3 DEF S
<1>5. ASSUME NEW j \in 0..m PROVE \A k \in 0..m : j < k => f[j] + least <= f[k]
  <2> DEFINE T == {k \in Nat : j < k => f[j] + least <= f[k]}
  <2>1. 0 \in T
    OBVIOUS
  <2>2. ASSUME NEW n \in 0..m-1, n \in T PROVE n + 1 \in T
    <3>1. /\ n \in 0..m /\ n + 1 \in 1..m /\ f[n] \in Nat /\ f[j] \in Nat
          /\ a[n+1] \in Nat /\ least <= a[n+1] /\ f[n+1] = f[n] + a[n+1]
      <4>1. n \in 0..m /\ n + 1 \in 1..m /\ (n + 1) - 1 = n
        OBVIOUS
      <4> QED
        BY <1>4, <4>1
    <3>2. CASE j < n
      BY <2>2, <3>1, <3>2
    <3>3. CASE ~(j < n)
      BY <3>1, <3>3
    <3> QED
      BY <3>2, <3>3
  <2> HIDE DEF T
  <2>3. 0..m \subseteq T
    BY <2>1, <2>2, UpTo
  <2> QED
    BY <2>3 DEF T
<1> QED
  BY <1>4, <1>5

-----------------------------------------------------------------------------
(* Division with remainder, of any integer by a positive number. *)
LEMMA DivMod ==
  ASSUME NEW u \in Int, NEW p \in Nat \ {0}
  PROVE  /\ u \div p \in Int
         /\ u % p \in 0..p-1
         /\ u = p * (u \div p) + (u % p)
         /\ u \in Nat => u \div p \in Nat
  OBVIOUS

(* It has one result. *)
LEMMA DivModUnique ==
  ASSUME NEW u \in Int, NEW p \in Nat \ {0}, NEW q \in Int, NEW r \in 0..p-1,
         u = p * q + r
  PROVE  u \div p = q /\ u % p = r
<1> DEFINE d == u \div p
           m == u % p
<1>1. d \in Int /\ m \in 0..p-1 /\ p * q + r = p * d + m
  BY DivMod
<1> HIDE DEF d, m
<1>2. ASSUME NEW a \in Int, NEW b \in Int, a > b PROVE p * a >= p * b + p
  BY <1>2
<1>3. ~(q > d) /\ ~(d > q)
  BY <1>1, <1>2
<1>4. d = q
  BY <1>1, <1>3
<1> QED
  BY <1>1, <1>4 DEF d, m

(* A number of two digits, and one of one. *)
LEMMA TwoDigits ==
  ASSUME NEW b \in Nat \ {0}, NEW hi \in 0..b-1, NEW lo \in 0..b-1
  PROVE  /\ (hi * b + lo) % b = lo /\ (hi * b + lo) \div b = hi
         /\ hi % b = hi
         /\ hi * b + lo \in 0..b*b-1
<1>1. hi * b + lo \in Int /\ hi * b + lo = b * hi + lo /\ hi = b * 0 + hi
  OBVIOUS
<1>2. b * hi <= b * (b - 1)
  OBVIOUS
<1>3. hi * b + lo \in 0..b*b-1
  BY <1>2
<1> QED
  BY <1>1, <1>3, DivModUnique

LEMMA ItsDigits ==
  ASSUME NEW b \in Nat \ {0}, NEW w \in 0..b*b-1
  PROVE  /\ w % b \in 0..b-1 /\ w \div b \in 0..b-1
         /\ w = (w \div b) * b + (w % b)
<1> DEFINE hi == w \div b
           lo == w % b
<1>1. hi \in Int /\ lo \in 0..b-1 /\ w = b * hi + lo
  BY DivMod
<1> HIDE DEF hi, lo
<1>2. ASSUME hi >= b PROVE FALSE
  <2>1. b * hi >= b * b
    BY <1>1, <1>2
  <2> QED
    BY <1>1, <2>1
<1>3. ASSUME hi < 0 PROVE FALSE
  <2>1. b * hi <= b * (-1)
    BY <1>1, <1>3
  <2> QED
    BY <1>1, <2>1
<1>4. hi \in 0..b-1 /\ w = hi * b + lo
  BY <1>1, <1>2, <1>3
<1> QED
  BY <1>1, <1>4 DEF hi, lo

LEMMA ItsHalves ==
  ASSUME NEW b \in Nat \ {0}, NEW w \in Nat
  PROVE  w \div b < b =>
           \E hi, lo \in 0..b-1 : w % b = lo /\ w \div b = hi /\ w = hi * b + lo
<1> DEFINE hi == w \div b
           lo == w % b
<1>1. hi \in Nat /\ lo \in 0..b-1 /\ w = b * hi + lo
  <2>1. w \in Int
    OBVIOUS
  <2> QED
    BY <2>1, DivMod, Zenon
<1> HIDE DEF hi, lo
<1>2. hi < b => hi \in 0..b-1 /\ w = hi * b + lo
  BY <1>1
<1> QED
  BY <1>1, <1>2 DEF hi, lo

LEMMA RemainderOfLess ==
  ASSUME NEW b \in Nat \ {0}, NEW w \in Nat
  PROVE  w < b => w % b = w
<1>1. w = b * 0 + w /\ w \in Int
  OBVIOUS
<1> QED
  BY <1>1, DivModUnique

-----------------------------------------------------------------------------
(* The powers of b, the first n + 1 of them. *)
ArePowers(p, b, n) == p[0] = 1 /\ \A k \in 1..n : p[k] = b * p[k-1]

Powers(b, n) == CHOOSE p : ArePowers(p, b, n)

LEMMA PowersExist ==
  ASSUME NEW b, NEW m \in Nat
  PROVE  ArePowers(Powers(b, m), b, m)
<1> DEFINE Goes(f, n) == ArePowers(f, b, n)
           S == {n \in Nat : \E f : Goes(f, n)}
<1>1. 0 \in S
  <2>1. Goes([k \in {0} |-> 1], 0)
    BY DEF ArePowers
  <2> QED
    BY <2>1
<1>2. ASSUME NEW n \in Nat, n \in S PROVE n + 1 \in S
  <2>1. PICK f : Goes(f, n)
    BY <1>2
  <2> DEFINE g == [k \in 0..n+1 |-> IF k = n + 1 THEN b * f[n] ELSE f[k]]
  <2>2. ASSUME NEW k \in 1..n+1
        PROVE  g[k] = b * g[k-1]
    <3>1. CASE k = n + 1
      BY <3>1
    <3>2. CASE k # n + 1
      <4>1. k \in 1..n /\ g[k] = f[k] /\ g[k-1] = f[k-1]
        BY <3>2
      <4> QED
        BY <2>1, <4>1 DEF ArePowers
    <3> QED
      BY <3>1, <3>2
  <2>3. g[0] = 1
    BY <2>1 DEF ArePowers
  <2> HIDE DEF g
  <2>4. Goes(g, n + 1)
    BY <2>2, <2>3 DEF ArePowers
  <2> HIDE DEF Goes
  <2> QED
    BY <2>4
<1> HIDE DEF S
<1>3. m \in S
  BY <1>1, <1>2, Upwards
<1>4. \E f : ArePowers(f, b, m)
  BY <1>3 DEF S
<1> QED
  BY <1>4 DEF Powers

(* However many are taken, the k-th is the same. *)
LEMMA PowersAgree ==
  ASSUME NEW b, NEW m \in Nat, NEW p, NEW q, ArePowers(p, b, m), ArePowers(q, b, m)
  PROVE  \A k \in 0..m : p[k] = q[k]
<1> DEFINE S == {k \in Nat : p[k] = q[k]}
<1>1. 0 \in S
  BY DEF ArePowers
<1>2. ASSUME NEW n \in 0..m-1, n \in S PROVE n + 1 \in S
  <2>1. n + 1 \in 1..m /\ (n + 1) - 1 = n
    OBVIOUS
  <2>2. p[n+1] = b * p[n] /\ q[n+1] = b * q[n]
    BY <2>1 DEF ArePowers
  <2> QED
    BY <1>2, <2>2
<1> HIDE DEF S
<1>3. 0..m \subseteq S
  BY <1>1, <1>2, UpTo
<1> QED
  BY <1>3 DEF S

(* So there is the function that the recursion over all numbers defines. *)
LEMMA PowerFunction ==
  ASSUME NEW b
  PROVE  \E f : f = [n \in Nat |-> IF n = 0 THEN 1 ELSE b * f[n-1]]
<1> DEFINE f == [n \in Nat |-> Powers(b, n)[n]]
<1>1. f[0] = 1
  <2>1. Powers(b, 0)[0] = 1
    BY PowersExist DEF ArePowers
  <2> QED
    BY <2>1
<1>2. ASSUME NEW n \in Nat \ {0} PROVE f[n] = b * f[n-1]
  <2> DEFINE p == Powers(b, n)
             q == Powers(b, n - 1)
  <2>1. n - 1 \in Nat /\ n \in 1..n /\ \A k \in 1..n-1 : k \in 1..n
    OBVIOUS
  <2>2. ArePowers(p, b, n) /\ ArePowers(q, b, n - 1)
    BY <2>1, PowersExist
  <2>3. f[n] = p[n] /\ f[n-1] = q[n-1]
    BY <2>1
  <2> HIDE DEF f, p, q
  <2>4. ArePowers(p, b, n - 1)
    BY <2>1, <2>2 DEF ArePowers
  <2>5. n - 1 \in 0..n-1
    BY <2>1
  <2>6. p[n-1] = q[n-1]
    BY <2>1, <2>2, <2>4, <2>5, PowersAgree
  <2>7. p[n] = b * p[n-1]
    BY <2>1, <2>2 DEF ArePowers
  <2> QED
    BY <2>3, <2>6, <2>7
<1>3. f = [n \in Nat |-> f[n]]
  OBVIOUS
<1> HIDE DEF f
<1>4. f = [n \in Nat |-> IF n = 0 THEN 1 ELSE b * f[n-1]]
  BY <1>1, <1>2, <1>3
<1> QED
  BY <1>4

-----------------------------------------------------------------------------
(* The remainder grows by a digit when the modulus grows by a factor b. *)
LEMMA DigitStep ==
  ASSUME NEW u \in Int, NEW p \in Nat \ {0}, NEW b \in Nat \ {0}
  PROVE  u % (b * p) = (u % p) + ((u \div p) % b) * p
<1> DEFINE q == u \div p
           r == u % p
           e == q \div b
           s == q % b
<1>1. q \in Int /\ r \in 0..p-1 /\ u = p * q + r
  BY DivMod
<1> HIDE DEF q, r
<1>2. e \in Int /\ s \in 0..b-1 /\ q = b * e + s
  BY <1>1, DivMod
<1> HIDE DEF e, s
<1>3. b * p \in Nat \ {0} /\ p * s \in Nat /\ p * s <= p * (b - 1)
  BY <1>2
<1>4. p * s + r \in 0..(b * p) - 1
  BY <1>1, <1>2, <1>3
<1>5. u = (b * p) * e + (p * s + r)
  BY <1>1, <1>2
<1>6. u % (b * p) = p * s + r
  BY <1>2, <1>3, <1>4, <1>5, DivModUnique
<1> QED
  BY <1>1, <1>2, <1>6 DEF q, r, s

=============================================================================
