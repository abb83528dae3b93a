------------------------------ MODULE PcapMove ------------------------------
(***************************************************************************)
(* Moving and swapping libnokogiri::pcap::pcap_t (pcap.hh): several        *)
(* objects, each constructed from a capture file, of which clients move    *)
(* construct, move assign, swap and destroy any.                           *)
(* A member is modelled by the capture its value comes from, None being    *)
(* the value of a member nothing was read into.  pcap_t::swap() exchanges  *)
(* some of the members and leaves the others where they are, and both      *)
(* kinds of move are a swap.                                               *)
(*                                                                         *)
(* A client may be in a loop over one of the objects meanwhile: its        *)
(* iterators point into the vector of the object and its accessor has the  *)
(* place of the object (begin()), which the client does not destroy then.  *)
(***************************************************************************)
EXTENDS FiniteSets

CONSTANTS
  Objects,   \* places an object can live in
  Captures,  \* capture files; each is opened once at a time
  None       \* the value of a member that no capture gave

ASSUME MoveAssumption == None \notin Captures \cup Objects

Members == {"file", "compression", "readonly", "header", "valid",
            "swapping", "prefetch", "packets"}

VARIABLES
  obj,    \* the objects there are: place -> member -> where its value is from
  open,   \* the captures that some descriptor of this process has open
  moved,  \* the objects that have taken part in a move or a swap
  loop,   \* the object of the loop under way, or None
  over,   \* whose packets its iterators point to
  got     \* the captures it has read packets from

vars == <<obj, open, moved, loop, over, got>>

noLoop == <<loop, over, got>>

From(c) == [m \in Members |-> c]

Live == DOMAIN obj

Without(o) == [p \in Live \ {o} |-> obj[p]]

With(f, o, v) == [p \in DOMAIN f \cup {o} |-> IF p = o THEN v ELSE f[p]]

-----------------------------------------------------------------------------
(* Mutant: the header stays where it is. *)
SwappedNoHeader == {"file", "compression", "readonly", "valid"}

(* Mutant: the packets go with the file. *)
SwappedWithPackets == {"file", "compression", "readonly", "header", "valid", "packets"}

(* The members that swap() exchanges. *)
Swapped == {"file", "compression", "readonly", "header", "valid"}

(* Mutant: the members that are not exchanged get no value. *)
AfterSwapOnlyThose(a, b) == [m \in Swapped |-> b[m]]

(* What a holds after a swap of a and b. *)
AfterSwap(a, b) == [m \in Members |-> IF m \in Swapped THEN b[m] ELSE a[m]]

Init == /\ obj = [o \in {} |-> From(None)]
        /\ open = {}
        /\ moved = {}
        /\ loop = None
        /\ over = None
        /\ got = {}

(* pcap_t(file, ...), which succeeds. *)
Construct(o, c) ==
  /\ o \notin Live
  /\ c \notin open
  /\ obj' = With(obj, o, From(c))
  /\ open' = open \cup {c}
  /\ UNCHANGED <<moved, noLoop>>

(* pcap_t(pcap_t&&) in place o: members of its own, then a swap.  (Its     *)
(* _prefetch is not initialised; nothing ever reads that member.)          *)
MoveConstruct(o, p) ==
  /\ o \notin Live
  /\ p \in Live
  /\ obj' = With(With(obj, p, AfterSwap(obj[p], From(None))),
                 o, AfterSwap(From(None), obj[p]))
  /\ moved' = moved \cup {o, p}
  /\ UNCHANGED <<open, noLoop>>

(* Mutant: the descriptor is copied, not exchanged. *)
SwapCopies(o, p) ==
  /\ o \in Live
  /\ p \in Live
  /\ obj' = With(obj, o, AfterSwap(obj[o], obj[p]))
  /\ moved' = moved \cup {o, p}
  /\ UNCHANGED <<open, noLoop>>

(* swap(o, p) and o = std::move(p) do the same. *)
Swap(o, p) ==
  /\ o \in Live
  /\ p \in Live
  /\ obj' = With(With(obj, o, AfterSwap(obj[o], obj[p])),
                 p, AfterSwap(obj[p], obj[o]))
  /\ moved' = moved \cup {o, p}
  /\ UNCHANGED <<open, noLoop>>

(* ~pcap_t() closes _file. *)
Destroy(o) ==
  /\ o \in Live
  /\ loop # o
  /\ open' = open \ {obj[o]["file"]}
  /\ obj' = Without(o)
  /\ moved' = moved \ {o}
  /\ UNCHANGED noLoop

(* begin() takes the iterators of _packets, and `this` into the accessor. *)
BeginLoop(o) ==
  /\ loop = None
  /\ o \in Live
  /\ loop' = o
  /\ over' = obj[o]["packets"]
  /\ got' = {}
  /\ UNCHANGED <<obj, open, moved>>

(* Mutant: the accessor keeps to the capture the iterators came from. *)
DereferenceOver ==
  /\ loop # None
  /\ over # None
  /\ got' = got \cup {over}
  /\ UNCHANGED <<obj, open, moved, loop, over>>

(* The accessor calls get_packet() of the object, if there is any packet: *)
(* it reads from what is the object's _file now, or nothing from none.    *)
Dereference ==
  /\ loop # None
  /\ over # None
  /\ got' = got \cup ({obj[loop]["file"]} \ {None})
  /\ UNCHANGED <<obj, open, moved, loop, over>>

EndLoop == /\ loop # None
           /\ loop' = None
           /\ over' = None
           /\ got' = {}
           /\ UNCHANGED <<obj, open, moved>>

Next == \/ \E o \in Objects, c \in Captures : Construct(o, c)
        \/ \E o, p \in Objects : MoveConstruct(o, p) \/ Swap(o, p)
        \/ \E o \in Objects : Destroy(o) \/ BeginLoop(o)
        \/ Dereference
        \/ EndLoop

Spec == Init /\ [][Next]_vars

-----------------------------------------------------------------------------
TypeOK ==
  /\ Live \subseteq Objects
  /\ \A o \in Live : obj[o] \in [Members -> Captures \cup {None}]
  /\ open \subseteq Captures
  /\ moved \subseteq Live
  /\ loop \in Live \cup {None}
  /\ over \in Captures \cup {None}
  /\ got \subseteq Captures

(* However objects are moved about, a file and the header read from it     *)
(* stay in one object, together with whether that object is valid, may be  *)
(* written and was compressed (pcap_t::swap()).                            *)
HeaderStaysWithFile ==
  \A o \in Live :
    \A m \in {"header", "valid", "readonly", "compression"} :
      obj[o][m] = obj[o]["file"]

(* Every open capture has exactly one object that will close it, and no    *)
(* object holds a descriptor that has been closed (fd_t::swap(): moving an *)
(* fd_t neither copies nor drops a descriptor).                            *)
OneOwner ==
  /\ open = {obj[o]["file"] : o \in Live} \ {None}
  /\ \A o, p \in Live : obj[o]["file"] = obj[p]["file"] /\ o # p
                          => obj[o]["file"] = None

(* A loop gives nothing but packets of the capture its object was made of, *)
(* unless that object has taken part in a move; moves among other objects  *)
(* do not touch it.  Whatever is moved, its iterators stay in the vector   *)
(* of the object that its accessor calls (begin(), swap()).                *)
LoopStaysInObject ==
  loop # None => /\ over = obj[loop]["packets"]
                 /\ loop \notin moved => got \subseteq {obj[loop]["file"]} \cap {over}

(* It never reads from a capture that has been closed: the accessor asks   *)
(* the object for its file every time (get_packet()).                      *)
LoopReadsOpen == [][got' \subseteq got \cup open]_vars

-----------------------------------------------------------------------------
(* The test takes a valid capture's loop to give every packet in it        *)
(* (pcap_test.cc:44-70): what a valid object has in its index is what is   *)
(* in its file.  _packets is not among the members swap() exchanges.       *)
IndexOfItsFile ==
  \A o \in Live : obj[o]["valid"] # None => obj[o]["packets"] = obj[o]["file"]

=============================================================================
