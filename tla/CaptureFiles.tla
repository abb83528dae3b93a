---------------------------- MODULE CaptureFiles ----------------------------
(***************************************************************************)
(* The descriptors and temporary files behind pcap_t objects: who owns     *)
(* them from the constructor to the destructor.  Several threads of one    *)
(* process construct, hold and destroy captures; they share the process's  *)
(* descriptor table, where open() always takes the lowest free number.     *)
(*                                                                         *)
(* An owner is an fd_t (internal/fd.hh).  A compressed capture goes        *)
(* through three of them: the local `cap`, the member of gzfile_t          *)
(* (internal/zlib.hh) it is moved into, and `_file`, the temporary file it *)
(* is inflated to.  What is in the files is left to PcapIndex: here a read *)
(* gets its data if the descriptor still is the file it was opened for.    *)
(*                                                                         *)
(* The process may die and another one start in its place: the kernel      *)
(* closes the descriptors, nobody removes the temporary files.             *)
(***************************************************************************)
EXTENDS Integers, FiniteSets

CONSTANTS
  Threads,      \* each has at most one pcap_t at a time
  Paths,        \* capture files
  Gz,           \* the gzip streams among them
  TempNames,    \* what random_string() may return
  Descriptors   \* the numbers the process may have open

ASSUME FilesAssumption ==
  /\ Gz \subseteq Paths
  /\ Paths \cap TempNames = {}
  /\ Descriptors \subseteq Nat
  /\ "nobody" \notin Threads

VARIABLES
  polite,  \* the clients let only one constructor run at a time
  table,   \* the descriptor table: number -> open file, or Closed
  temps,   \* the temporary files there are
  orphans, \* those of a process that died
  drawn,   \* the names others drew while a thread was drawing one
  pc,      \* where each thread is
  cap,     \* the constructor's local `cap`
  gz,      \* gzcap._file
  stream,  \* gzcap._gz_file is not null
  file,    \* _file
  ok       \* decompress_to() and head() have succeeded

vars == <<polite, table, temps, orphans, drawn, pc, cap, gz, stream, file, ok>>

disk == <<temps, orphans, drawn>>

Closed == [name |-> "closed", thread |-> "nobody"]

OpenFiles == [name : Paths \cup TempNames, thread : Threads]

NoFd == -1

(* fd_t{}; also what is left of one that was moved from. *)
Empty == [fd |-> NoFd, temp |-> FALSE, name |-> "none"]

Owners == [fd : Descriptors \cup {NoFd}, temp : BOOLEAN,
           name : Paths \cup TempNames \cup {"none"}]

Free == {d \in Descriptors : table[d] = Closed}

Lowest(S) == CHOOSE d \in S : \A e \in S : d <= e

(* Mutant: ~fd_t() does not look whether there is a descriptor. *)
CloseUnchecked(tab, d) ==
  [e \in DOMAIN tab \cup {d} |-> IF e = d THEN Closed ELSE tab[e]]

(* close(d): nothing happens when d is not open. *)
CloseIn(tab, d) == [e \in DOMAIN tab |-> IF e = d THEN Closed ELSE tab[e]]

(* The number open() gives: none when all are in use. *)
NewFd == IF Free = {} THEN NoFd ELSE Lowest(Free)

(* fd_t{name, ...}: the object, and the table once thread t made it. *)
Opened(name, temp) == [fd |-> NewFd, temp |-> temp, name |-> name]

TableWith(t, name) ==
  [d \in Descriptors |-> IF d = NewFd THEN [name |-> name, thread |-> t]
                                      ELSE table[d]]

(* What t reads or writes through o is the file that o was opened for. *)
Intact(t, o) == /\ o.fd # NoFd
                /\ table[o.fd] = [name |-> o.name, thread |-> t]

(* The file that o reads, whatever it was opened for. *)
Behind(o) == IF o.fd = NoFd THEN Closed.name ELSE table[o.fd].name

Init ==
  /\ polite \in BOOLEAN
  /\ table = [d \in Descriptors |-> Closed]
  /\ temps = {}
  /\ orphans = {}
  /\ drawn = [t \in Threads |-> {}]
  /\ pc = [t \in Threads |-> "none"]
  /\ cap = [t \in Threads |-> Empty]
  /\ gz = [t \in Threads |-> Empty]
  /\ stream = [t \in Threads |-> FALSE]
  /\ file = [t \in Threads |-> Empty]
  /\ ok = [t \in Threads |-> FALSE]

Goto(t, where) == pc' = [pc EXCEPT ![t] = where]

Idle(t) == pc[t] \in {"none", "invalid", "valid"}

-----------------------------------------------------------------------------
(* The constructor opens the capture and goes where its compression        *)
(* argument sends it: Autodetect, Compressed, Uncompressed or Unknown.     *)
OpenCapture(t) ==
  /\ pc[t] = "none"
  /\ polite => \A u \in Threads : Idle(u)
  /\ \E path \in Paths, where \in {"detect", "temp", "keep"} :
       /\ table' = TableWith(t, path)
       /\ cap' = [cap EXCEPT ![t] = Opened(path, FALSE)]
       /\ Goto(t, where)
  /\ UNCHANGED <<polite, disk, gz, stream, file, ok>>

(* detect_captrue_compression(cap), which answers Unknown if it can't read. *)
Detect(t) ==
  /\ pc[t] = "detect"
  /\ Goto(t, IF Behind(cap[t]) \in Gz THEN "temp" ELSE "keep")
  /\ UNCHANGED <<polite, table, disk, cap, gz, stream, file, ok>>

(* Mutant: the descriptor is copied, and closed when `cap` goes. *)
KeepCopy(t) ==
  /\ pc[t] = "keep"
  /\ file' = [file EXCEPT ![t] = cap[t]]
  /\ table' = CloseIn(table, cap[t].fd)
  /\ cap' = [cap EXCEPT ![t] = Empty]
  /\ Goto(t, "index")
  /\ UNCHANGED <<polite, disk, gz, stream, ok>>

(* _file = std::move(cap) exchanges the two. *)
Keep(t) ==
  /\ pc[t] = "keep"
  /\ file' = [file EXCEPT ![t] = cap[t]]
  /\ cap' = [cap EXCEPT ![t] = file[t]]
  /\ Goto(t, "index")
  /\ UNCHANGED <<polite, table, disk, gz, stream, ok>>

(* Mutant: the generator starts from the same seed every time. *)
MayDrawAny(t) == TempNames

(* What random_string() may return.  No two of the 62^16 names are ever    *)
(* the same, but the generator is one static object that no lock guards:   *)
(* two threads that draw at the same time may find it in the same state.   *)
MayDraw(t) ==
  (TempNames \ (temps \cup UNION {{file[u].name} \cup drawn[u] : u \in Threads}))
    \cup drawn[t]

(* _file = maketemp(...): without O_EXCL open() takes a file that is there.*)
MakeTemp(t) ==
  /\ pc[t] = "temp"
  /\ \E name \in MayDraw(t) :
       /\ table' = TableWith(t, name)
       /\ file' = [file EXCEPT ![t] = Opened(name, TRUE)]
       /\ temps' = IF NewFd = NoFd THEN temps ELSE temps \cup {name}
       /\ drawn' = [u \in Threads |->
                      IF u = t \/ pc[u] # "temp" THEN {} ELSE drawn[u] \cup {name}]
  /\ Goto(t, "gzopen")
  /\ UNCHANGED <<polite, orphans, cap, gz, stream, ok>>

(* gzfile_t gzcap{cap}: the member takes cap's descriptor and a gz stream  *)
(* is made on it, unless it is -1.                                         *)
GzOpen(t) ==
  /\ pc[t] = "gzopen"
  /\ gz' = [gz EXCEPT ![t] = cap[t]]
  /\ cap' = [cap EXCEPT ![t] = Empty]
  /\ stream' = [stream EXCEPT ![t] = cap[t].fd # NoFd]
  /\ Goto(t, "extract")
  /\ UNCHANGED <<polite, table, disk, file, ok>>

(* decompress_to(_file) and head(): either end of the copy may fail, and   *)
(* fails if its descriptor is not open.                                    *)
Extract(t) ==
  /\ pc[t] = "extract"
  /\ \E good \in BOOLEAN :
       /\ good => /\ stream[t]
                  /\ Behind(gz[t]) # Closed.name
                  /\ Behind(file[t]) # Closed.name
       /\ ok' = [ok EXCEPT ![t] = good]
  /\ Goto(t, "gzclose")
  /\ UNCHANGED <<polite, table, disk, cap, gz, stream, file>>

(* ~gzfile_t() destroys its members last to first: gzclose() closes the    *)
(* descriptor ...                                                          *)
GzClose(t) ==
  /\ pc[t] = "gzclose"
  /\ table' = IF stream[t] THEN CloseIn(table, gz[t].fd) ELSE table
  /\ stream' = [stream EXCEPT ![t] = FALSE]
  /\ Goto(t, "fdclose")
  /\ UNCHANGED <<polite, disk, cap, gz, file, ok>>

(* ... and then ~fd_t(), which never learned of that, closes it again.     *)
FdClose(t) ==
  /\ pc[t] = "fdclose"
  /\ table' = CloseIn(table, gz[t].fd)
  /\ gz' = [gz EXCEPT ![t] = Empty]
  /\ Goto(t, IF ok[t] THEN "index" ELSE "invalid")
  /\ UNCHANGED <<polite, disk, cap, stream, file, ok>>

(* read_header() and ingest_packets() succeed or not. *)
Index(t) ==
  /\ pc[t] = "index"
  /\ \/ Behind(file[t]) # Closed.name /\ Goto(t, "valid")
     \/ Goto(t, "invalid")
  /\ UNCHANGED <<polite, table, disk, cap, gz, stream, file, ok>>

(* Mutant: only a valid capture is cleaned up after. *)
DestroyValidOnly(t) ==
  /\ pc[t] \in {"invalid", "valid"}
  /\ table' = IF pc[t] = "valid" THEN CloseIn(table, file[t].fd) ELSE table
  /\ temps' = IF file[t].temp /\ pc[t] = "valid" THEN temps \ {file[t].name}
                                                ELSE temps
  /\ file' = [file EXCEPT ![t] = Empty]
  /\ ok' = [ok EXCEPT ![t] = FALSE]
  /\ Goto(t, "none")
  /\ UNCHANGED <<polite, orphans, drawn, cap, gz, stream>>

(* ~pcap_t(): ~fd_t() of _file closes it and removes a temporary one. *)
Destroy(t) ==
  /\ pc[t] \in {"invalid", "valid"}
  /\ table' = CloseIn(table, file[t].fd)
  /\ temps' = IF file[t].temp /\ file[t].fd # NoFd THEN temps \ {file[t].name}
                                                  ELSE temps
  /\ file' = [file EXCEPT ![t] = Empty]
  /\ ok' = [ok EXCEPT ![t] = FALSE]
  /\ Goto(t, "none")
  /\ UNCHANGED <<polite, orphans, drawn, cap, gz, stream>>

(* The process dies, as it may once with a temporary file to leave behind. *)
Crash ==
  /\ orphans = {}
  /\ temps # {}
  /\ orphans' = temps
  /\ table' = [d \in Descriptors |-> Closed]
  /\ drawn' = [t \in Threads |-> {}]
  /\ pc' = [t \in Threads |-> "none"]
  /\ cap' = [t \in Threads |-> Empty]
  /\ gz' = [t \in Threads |-> Empty]
  /\ stream' = [t \in Threads |-> FALSE]
  /\ file' = [t \in Threads |-> Empty]
  /\ ok' = [t \in Threads |-> FALSE]
  /\ UNCHANGED <<polite, temps>>

Next == \/ \E t \in Threads :
             \/ OpenCapture(t) \/ Detect(t) \/ Keep(t)
             \/ MakeTemp(t) \/ GzOpen(t) \/ Extract(t) \/ GzClose(t) \/ FdClose(t)
             \/ Index(t) \/ Destroy(t)
        \/ Crash

Spec == Init /\ [][Next]_vars

-----------------------------------------------------------------------------
TypeOK ==
  /\ polite \in BOOLEAN
  /\ table \in [Descriptors -> OpenFiles \cup {Closed}]
  /\ temps \subseteq TempNames
  /\ orphans \subseteq TempNames
  /\ drawn \in [Threads -> SUBSET TempNames]
  /\ pc \in [Threads -> {"none", "detect", "keep", "temp", "gzopen", "extract",
                         "gzclose", "fdclose", "index", "invalid", "valid"}]
  /\ cap \in [Threads -> Owners]
  /\ gz \in [Threads -> Owners]
  /\ stream \in [Threads -> BOOLEAN]
  /\ file \in [Threads -> Owners]
  /\ ok \in [Threads -> BOOLEAN]

(* Every open descriptor is held by an fd_t that is to close it, however   *)
(* the constructor was left and whatever was closed twice meanwhile: when  *)
(* the captures are gone, so are their descriptors.                        *)
NoDescriptorLeaks ==
  \A d \in Descriptors :
    table[d] # Closed => \E t \in Threads : d \in {cap[t].fd, gz[t].fd, file[t].fd}

(* The temporary files that captures are to remove. *)
Owned == {file[t].name : t \in {u \in Threads : file[u].temp /\ file[u].fd # NoFd}}

(* No temporary file outlives the fd_t that made it, after a failed        *)
(* inflation neither (fd_t::_temp survives the moves), except those of a   *)
(* process that died.  And none is removed before: two captures have one   *)
(* file, and the first to go removes it, only if their constructors ran at *)
(* the same time.                                                          *)
TempsRemoved ==
  /\ temps \subseteq Owned \cup orphans
  /\ polite => /\ temps = Owned \cup orphans
               /\ Owned \cap orphans = {}
               /\ \A t, u \in Threads :
                    file[t].temp /\ file[u].temp /\ t # u => file[t].name # file[u].name

(* The descriptor of every owner is the one it opened itself, except in    *)
(* gzfile_t between the two closes.  It takes clients that let one         *)
(* constructor run at a time: then nobody opens anything in between.       *)
DescriptorsKept ==
  polite => \A t \in Threads :
    /\ cap[t].fd # NoFd => Intact(t, cap[t])
    /\ file[t].fd # NoFd => Intact(t, file[t])
    /\ gz[t].fd # NoFd /\ pc[t] # "fdclose" => Intact(t, gz[t])

-----------------------------------------------------------------------------
(* The test reads every packet of a capture that is valid and takes none   *)
(* that is missing (pcap_test.cc:67-70), so a valid capture has the        *)
(* descriptor of its file.  The second close of another thread's gzfile_t  *)
(* may have closed it.                                                     *)
ValidIsOpen == \A t \in Threads : pc[t] = "valid" => Intact(t, file[t])

=============================================================================
