--------------------------- MODULE PcapMoveProofs ---------------------------
(***************************************************************************)
(* The properties of PcapMove, for any number of objects and captures.     *)
(* The invariant adds that the index of an object is that of its file      *)
(* until the object takes part in a move.                                  *)
(***************************************************************************)
EXTENDS PcapMove, TLAPS

IndexUntilMoved == \A o \in Live \ moved : obj[o]["packets"] = obj[o]["file"]

MInv == /\ TypeOK
        /\ HeaderStaysWithFile
        /\ OneOwner
        /\ IndexUntilMoved
        /\ LoopStaysInObject

(* What every object holds. *)
Held == Captures \cup {None}

(* The four members of which HeaderStaysWithFile speaks. *)
Follow(v) == \A m \in {"header", "valid", "readonly", "compression"} : v[m] = v["file"]

-----------------------------------------------------------------------------
LEMMA FromFacts ==
  ASSUME NEW c \in Held
  PROVE  /\ From(c) \in [Members -> Held] /\ Follow(From(c))
         /\ From(c)["file"] = c /\ From(c)["packets"] = c
  BY DEF From, Members, Follow

(* A swap takes the file and what follows it, and leaves the index. *)
LEMMA AfterSwapFacts ==
  ASSUME NEW a \in [Members -> Held], NEW b \in [Members -> Held], Follow(b)
  PROVE  /\ AfterSwap(a, b) \in [Members -> Held] /\ Follow(AfterSwap(a, b))
         /\ AfterSwap(a, b)["file"] = b["file"]
         /\ AfterSwap(a, b)["packets"] = a["packets"]
  BY DEF AfterSwap, Swapped, Members, Follow

LEMMA ObjFacts ==
  ASSUME MInv, NEW o \in Live
  PROVE  obj[o] \in [Members -> Held] /\ Follow(obj[o])
  BY DEF MInv, TypeOK, HeaderStaysWithFile, Held, Follow

-----------------------------------------------------------------------------
LEMMA MoveInit == Init => MInv
  BY MoveAssumption DEF Init, MInv, TypeOK, HeaderStaysWithFile, OneOwner, IndexUntilMoved,
     LoopStaysInObject, Live, From

LEMMA ConstructKeeps ==
  ASSUME MInv, NEW o \in Objects, NEW c \in Captures, Construct(o, c) PROVE MInv'
<1>1. /\ o \notin Live /\ c \notin open /\ obj' = With(obj, o, From(c))
      /\ open' = open \cup {c} /\ UNCHANGED <<moved, loop, over, got>>
  BY DEF Construct, noLoop
<1>2. /\ Live' = Live \cup {o} /\ obj'[o] = From(c)
      /\ \A p \in Live : p # o /\ obj'[p] = obj[p]
  BY <1>1 DEF Live, With
<1>3. /\ From(c) \in [Members -> Held] /\ Follow(From(c))
      /\ From(c)["file"] = c /\ From(c)["packets"] = c /\ c # None
  BY FromFacts, MoveAssumption DEF Held
<1>4. TypeOK'
  BY <1>1, <1>2, <1>3 DEF MInv, TypeOK, Held
<1>5. HeaderStaysWithFile'
  BY <1>2, <1>3 DEF MInv, HeaderStaysWithFile, Follow
<1>6. OneOwner'
  BY <1>1, <1>2, <1>3 DEF MInv, OneOwner
<1>7. IndexUntilMoved' /\ LoopStaysInObject'
  BY <1>1, <1>2, <1>3, MoveAssumption DEF MInv, TypeOK, IndexUntilMoved, LoopStaysInObject
<1> QED
  BY <1>4, <1>5, <1>6, <1>7 DEF MInv

(* Two objects exchange their files and keep their packets, whether both   *)
(* were there before or one is new and empty.                              *)
LEMMA ExchangeKeeps ==
  ASSUME MInv, NEW o \in Objects, NEW p \in Live, NEW a \in [Members -> Held],
         o \in Live => a = obj[o],
         o \notin Live => a = From(None) /\ p # o,
         obj' = With(With(obj, o, AfterSwap(a, obj[p])), p, AfterSwap(obj[p], a))
                \/ obj' = With(With(obj, p, AfterSwap(obj[p], a)), o, AfterSwap(a, obj[p])),
         moved' = moved \cup {o, p}, UNCHANGED <<open, loop, over, got>>
  PROVE  MInv'
<1>1. obj[p] \in [Members -> Held] /\ Follow(obj[p]) /\ p \in Objects
  BY ObjFacts DEF MInv, TypeOK
<1>2. Follow(a)
  BY ObjFacts, FromFacts DEF Held
<1>3. /\ Live' = Live \cup {o}
      /\ obj'[o] = AfterSwap(a, obj[p]) /\ obj'[p] = AfterSwap(obj[p], a)
      /\ \A q \in Live : q # o /\ q # p => obj'[q] = obj[q]
  <2>1. CASE obj' = With(With(obj, o, AfterSwap(a, obj[p])), p, AfterSwap(obj[p], a))
    BY <2>1 DEF Live, With
  <2>2. CASE obj' = With(With(obj, p, AfterSwap(obj[p], a)), o, AfterSwap(a, obj[p]))
    BY <2>2 DEF Live, With
  <2> QED
    BY <2>1, <2>2
<1>4. /\ obj'[o] \in [Members -> Held] /\ Follow(obj'[o])
      /\ obj'[o]["file"] = obj[p]["file"] /\ obj'[o]["packets"] = a["packets"]
      /\ obj'[p] \in [Members -> Held] /\ Follow(obj'[p])
      /\ obj'[p]["file"] = a["file"] /\ obj'[p]["packets"] = obj[p]["packets"]
  BY <1>1, <1>2, <1>3, AfterSwapFacts
<1>5. o \notin Live => a["file"] = None
  BY FromFacts DEF Held
<1>6. TypeOK'
  BY <1>1, <1>3, <1>4 DEF MInv, TypeOK, Held
<1>7. HeaderStaysWithFile'
  BY <1>3, <1>4 DEF MInv, HeaderStaysWithFile, Follow
<1>8. OneOwner'
  <2>1. {obj'[q]["file"] : q \in Live'} \ {None} = {obj[q]["file"] : q \in Live} \ {None}
    BY <1>3, <1>4, <1>5
  <2>2. \A q, r \in Live' : obj'[q]["file"] = obj'[r]["file"] /\ q # r
                              => obj'[q]["file"] = None
    BY <1>3, <1>4, <1>5 DEF MInv, OneOwner
  <2> QED
    BY <2>1, <2>2 DEF MInv, OneOwner
<1>9. IndexUntilMoved'
  BY <1>3 DEF MInv, IndexUntilMoved
<1>10. LoopStaysInObject'
  BY <1>3, <1>4, MoveAssumption DEF MInv, TypeOK, LoopStaysInObject
<1> QED
  BY <1>6, <1>7, <1>8, <1>9, <1>10 DEF MInv

LEMMA DestroyKeeps ==
  ASSUME MInv, NEW o \in Objects, Destroy(o) PROVE MInv'
<1>1. /\ o \in Live /\ loop # o /\ open' = open \ {obj[o]["file"]}
      /\ obj' = Without(o) /\ moved' = moved \ {o} /\ UNCHANGED <<loop, over, got>>
  BY DEF Destroy, noLoop
<1>2. Live' = Live \ {o} /\ \A p \in Live' : obj'[p] = obj[p]
  BY <1>1 DEF Live, Without
<1>3. TypeOK' /\ HeaderStaysWithFile'
  BY <1>1, <1>2 DEF MInv, TypeOK, HeaderStaysWithFile
<1>4. OneOwner'
  BY <1>1, <1>2 DEF MInv, OneOwner
<1>5. IndexUntilMoved' /\ LoopStaysInObject'
  BY <1>1, <1>2, MoveAssumption DEF MInv, TypeOK, IndexUntilMoved, LoopStaysInObject
<1> QED
  BY <1>3, <1>4, <1>5 DEF MInv

LEMMA LoopKeeps ==
  ASSUME MInv, Dereference \/ EndLoop \/ \E o \in Objects : BeginLoop(o)
  PROVE  MInv'
<1>1. UNCHANGED <<obj, open, moved>>
  BY DEF Dereference, EndLoop, BeginLoop
<1>2. Live' = Live /\ HeaderStaysWithFile' /\ OneOwner' /\ IndexUntilMoved'
  BY <1>1 DEF MInv, Live, HeaderStaysWithFile, OneOwner, IndexUntilMoved
<1>3. ASSUME NEW o \in Objects, BeginLoop(o) PROVE TypeOK' /\ LoopStaysInObject'
  <2>1. obj[o]["packets"] \in Held
    BY <1>3, ObjFacts DEF BeginLoop, Members
  <2> QED
    BY <1>1, <1>2, <1>3, <2>1 DEF BeginLoop, MInv, TypeOK, LoopStaysInObject, Held
<1>4. ASSUME Dereference PROVE TypeOK' /\ LoopStaysInObject'
  <2>1. loop # None /\ got' = got \cup ({obj[loop]["file"]} \ {None}) /\ UNCHANGED <<loop, over>>
        /\ over # None /\ loop \in Live
    BY <1>4 DEF Dereference, MInv, TypeOK
  <2>2. obj[loop]["file"] \in Held
    BY <2>1, ObjFacts DEF Members
  <2>3. TypeOK'
    BY <1>1, <1>2, <2>1, <2>2 DEF MInv, TypeOK, Held
  <2>4. loop \notin moved => obj[loop]["file"] = over
    BY <2>1 DEF MInv, IndexUntilMoved, LoopStaysInObject
  <2>5. LoopStaysInObject'
    BY <1>1, <2>1, <2>4 DEF MInv, LoopStaysInObject
  <2> QED
    BY <2>3, <2>5
<1>5. ASSUME EndLoop PROVE TypeOK' /\ LoopStaysInObject'
  BY <1>1, <1>2, <1>5 DEF EndLoop, MInv, TypeOK, LoopStaysInObject
<1> QED
  BY <1>2, <1>3, <1>4, <1>5 DEF MInv

LEMMA MoveNext == MInv /\ [Next]_vars => MInv'
<1> SUFFICES ASSUME MInv, [Next]_vars PROVE MInv'
  OBVIOUS
<1>1. ASSUME NEW o \in Objects, NEW p \in Objects, MoveConstruct(o, p) PROVE MInv'
  <2>1. From(None) \in [Members -> Held]
    BY FromFacts DEF Held
  <2> QED
    BY <1>1, <2>1, ExchangeKeeps DEF MoveConstruct, noLoop
<1>2. ASSUME NEW o \in Objects, NEW p \in Objects, Swap(o, p) PROVE MInv'
  BY <1>2, ObjFacts, ExchangeKeeps DEF Swap, noLoop
<1>3. CASE UNCHANGED vars
  BY <1>3 DEF vars, MInv, TypeOK, Live, HeaderStaysWithFile, OneOwner, IndexUntilMoved,
     LoopStaysInObject
<1> QED
  BY <1>1, <1>2, <1>3, ConstructKeeps, DestroyKeeps, LoopKeeps DEF Next

LEMMA MInvHolds == Spec => []MInv
  BY MoveInit, MoveNext, PTL DEF Spec

-----------------------------------------------------------------------------
(* Objects hold what they may hold (pcap_t, swap()). *)
THEOREM MoveTypeCorrect == Spec => []TypeOK
<1>1. MInv => TypeOK
  BY DEF MInv
<1> QED
  BY <1>1, MInvHolds, PTL

(* A header never gets away from its file (swap()). *)
THEOREM HeaderCorrect == Spec => []HeaderStaysWithFile
<1>1. MInv => HeaderStaysWithFile
  BY DEF MInv
<1> QED
  BY <1>1, MInvHolds, PTL

(* Every open capture is closed once (fd_t::swap(), ~pcap_t()). *)
THEOREM OwnerCorrect == Spec => []OneOwner
<1>1. MInv => OneOwner
  BY DEF MInv
<1> QED
  BY <1>1, MInvHolds, PTL

(* A loop stays in its object and, until that is moved, in its capture     *)
(* (begin(), swap()).                                                      *)
THEOREM LoopCorrect == Spec => []LoopStaysInObject
<1>1. MInv => LoopStaysInObject
  BY DEF MInv
<1> QED
  BY <1>1, MInvHolds, PTL

(* A loop reads from open captures only (get_packet()). *)
THEOREM LoopReadsCorrect == Spec => LoopReadsOpen
<1> DEFINE Kept == got' \subseteq got \cup open
<1>1. MInv /\ [Next]_vars => [Kept]_vars
  <2> SUFFICES ASSUME MInv, Next PROVE Kept
    BY DEF vars
  <2>1. CASE Dereference
    <3>1. loop \in Live /\ got' = got \cup ({obj[loop]["file"]} \ {None})
      BY <2>1 DEF Dereference, MInv, TypeOK
    <3>2. {obj[loop]["file"]} \ {None} \subseteq open
      BY <3>1 DEF MInv, OneOwner
    <3> QED
      BY <3>1, <3>2
  <2>2. CASE got' \subseteq got
    BY <2>2
  <2> QED
    BY <2>1, <2>2 DEF Next, Construct, MoveConstruct, Swap, Destroy, BeginLoop, EndLoop, noLoop
<1> QED
  BY <1>1, MInvHolds, PTL DEF Spec, LoopReadsOpen

=============================================================================
