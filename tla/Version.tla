------------------------------ MODULE Version -------------------------------
(***************************************************************************)
(* libnokogiri::version_t (common.hh): the version of a pcap header or of  *)
(* a pcapng section, two unsigned 16-bit numbers, and its comparisons.     *)
(* The accessors widen the halves to 32 bits, so no comparison wraps.      *)
(***************************************************************************)
EXTENDS Integers

CONSTANT Halves   \* the numbers either half may be: at most 65535 in the code

ASSUME HalvesAssumption == Halves \subseteq Nat

Versions == [major : Halves, minor : Halves]

VARIABLES
  this,    \* the version whose operator is called
  ver,     \* its argument
  answer   \* what the six operators say of the two

versionVars == <<this, ver, answer>>

-----------------------------------------------------------------------------
Equal(a, b) == a.major = b.major /\ a.minor = b.minor

(* Mutant: both halves may be equal. *)
GreaterEitherHalf(a, b) ==
  \/ a.major >= b.major /\ a.minor >= b.minor
  \/ a.major >= b.major /\ a.minor > b.minor

Greater(a, b) ==
  \/ a.major > b.major /\ a.minor >= b.minor
  \/ a.major >= b.major /\ a.minor > b.minor

(* Mutant: the second half not strict. *)
LessOrSameMinor(a, b) ==
  \/ a.major < b.major /\ a.minor <= b.minor
  \/ a.minor <= b.major /\ a.minor <= b.minor

(* The second line compares the minor with the other's major number. *)
Less(a, b) ==
  \/ a.major < b.major /\ a.minor <= b.minor
  \/ a.minor <= b.major /\ a.minor < b.minor

GreaterOrEqual(a, b) == Greater(a, b) \/ Equal(a, b)

LessOrEqual(a, b) == Less(a, b) \/ Equal(a, b)

Answer(a, b) == [eq |-> Equal(a, b), ne |-> ~Equal(a, b),
                 gt |-> Greater(a, b), ge |-> GreaterOrEqual(a, b),
                 lt |-> Less(a, b), le |-> LessOrEqual(a, b)]

Init == /\ this \in Versions
        /\ ver = this
        /\ answer = Answer(this, ver)

(* Any two versions are compared. *)
Compare == /\ this' \in Versions
           /\ ver' \in Versions
           /\ answer' = Answer(this', ver')

Next == Compare

Spec == Init /\ [][Next]_versionVars

-----------------------------------------------------------------------------
(* The order on versions. *)
Later(a, b) == a.major > b.major \/ (a.major = b.major /\ a.minor > b.minor)

(* operator<, with the slip in its second line, is still a strict partial  *)
(* order, so that sorting by it is no undefined behaviour, and with        *)
(* operator<= it agrees on which versions are the same.                    *)
LessIsStrictOrder ==
  /\ answer.lt => ~Less(ver, this)
  /\ answer.le /\ LessOrEqual(ver, this) => answer.eq
  /\ \A c \in Versions : answer.lt /\ Less(ver, c) => Less(this, c)

(* operator> never calls a version greater that is not later: it has no    *)
(* false positives, operator>= none either.                                *)
GreaterMeansLater ==
  /\ answer.gt => Later(this, ver)
  /\ answer.ge => ~Later(ver, this)

-----------------------------------------------------------------------------
(* "Check if one version is less than another" (common.hh:400).  2.3 is    *)
(* not called less than 2.4, but 2.0 is called less than 1.5.              *)
LessMeansEarlier == answer.lt <=> Later(ver, this)

=============================================================================
