--------------------------- MODULE VersionProofs ----------------------------
(***************************************************************************)
(* The comparisons of version_t, for every set of 16-bit halves.           *)
(***************************************************************************)
EXTENDS Version, TLAPS

(* The answer always is the one the operators give. *)
Answered == /\ this \in Versions
            /\ ver \in Versions
            /\ answer = Answer(this, ver)

(* Versions are pairs of natural numbers. *)
LEMMA VersionHalves ==
  ASSUME NEW v \in Versions
  PROVE  v.major \in Nat /\ v.minor \in Nat
BY HalvesAssumption DEF Versions

(* Whatever two versions are compared, `answer` is what was asked of them. *)
LEMMA AnsweredAlways == Spec => []Answered
<1>1. Init => Answered
  BY DEF Init, Answered
<1>2. Answered /\ [Next]_versionVars => Answered'
  BY DEF Answered, Next, Compare, versionVars
<1>3. QED
  BY <1>1, <1>2, PTL DEF Spec

(* operator< is transitive although its second line compares a minor       *)
(* number with a major one.                                                *)
LEMMA LessTransitive ==
  ASSUME NEW a \in Versions, NEW b \in Versions, NEW c \in Versions,
         Less(a, b), Less(b, c)
  PROVE  Less(a, c)
<1>1. a.major \in Nat /\ a.minor \in Nat /\ b.major \in Nat /\ b.minor \in Nat
        /\ c.major \in Nat /\ c.minor \in Nat
  BY VersionHalves
<1>2. QED
  BY <1>1 DEF Less

(* operator< is asymmetric, so never true both ways round. *)
LEMMA LessAsymmetric ==
  ASSUME NEW a \in Versions, NEW b \in Versions, Less(a, b)
  PROVE  ~Less(b, a)
<1>1. a.major \in Nat /\ a.minor \in Nat /\ b.major \in Nat /\ b.minor \in Nat
  BY VersionHalves
<1>2. QED
  BY <1>1 DEF Less

(* What operator> calls greater is later. *)
LEMMA GreaterIsLater ==
  ASSUME NEW a \in Versions, NEW b \in Versions
  PROVE  /\ Greater(a, b) => Later(a, b)
         /\ GreaterOrEqual(a, b) => ~Later(b, a)
<1>1. a.major \in Nat /\ a.minor \in Nat /\ b.major \in Nat /\ b.minor \in Nat
  BY VersionHalves
<1>2. QED
  BY <1>1 DEF Greater, GreaterOrEqual, Equal, Later

(* version_t::operator< is a strict partial order on all versions, so a    *)
(* client may sort by it, whatever order that gives.                       *)
THEOREM LessOrders == Spec => []LessIsStrictOrder
<1>1. Answered => LessIsStrictOrder
  <2> SUFFICES ASSUME Answered PROVE LessIsStrictOrder
    OBVIOUS
  <2>1. this \in Versions /\ ver \in Versions
    BY DEF Answered
  <2>2. /\ answer.lt = Less(this, ver)
        /\ answer.le = LessOrEqual(this, ver)
        /\ answer.eq = Equal(this, ver)
    BY DEF Answered, Answer
  <2>3. answer.lt => ~Less(ver, this)
    BY <2>1, <2>2, LessAsymmetric
  <2>4. answer.le /\ LessOrEqual(ver, this) => answer.eq
    BY <2>1, <2>2, LessAsymmetric DEF LessOrEqual, Equal
  <2>5. \A c \in Versions : answer.lt /\ Less(ver, c) => Less(this, c)
    BY <2>1, <2>2, LessTransitive
  <2>6. QED
    BY <2>3, <2>4, <2>5 DEF LessIsStrictOrder
<1>2. QED
  BY <1>1, AnsweredAlways, PTL

(* version_t::operator> and operator>= have no false positives. *)
THEOREM GreaterSound == Spec => []GreaterMeansLater
<1>1. Answered => GreaterMeansLater
  <2> SUFFICES ASSUME Answered PROVE GreaterMeansLater
    OBVIOUS
  <2>1. this \in Versions /\ ver \in Versions
    BY DEF Answered
  <2>2. /\ answer.gt = Greater(this, ver)
        /\ answer.ge = GreaterOrEqual(this, ver)
    BY DEF Answered, Answer
  <2>3. QED
    BY <2>1, <2>2, GreaterIsLater DEF GreaterMeansLater
<1>2. QED
  BY <1>1, AnsweredAlways, PTL

=============================================================================
