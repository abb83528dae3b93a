------------------------- MODULE CaptureFilesProofs -------------------------
(***************************************************************************)
(* The properties of CaptureFiles, for any number of threads, captures,    *)
(* temporary names and descriptors.  The invariant says which of the three *)
(* fd_t of a constructor is in use at which place, and that with polite    *)
(* clients only one constructor runs and nobody opens anything while a     *)
(* gzfile_t is between the two closes of its descriptor.                   *)
(***************************************************************************)
EXTENDS CaptureFiles, WellFoundedInduction, TLAPS

(* Which fd_t of t is in use where, and what it was opened for. *)
Place(t) ==
  /\ pc[t] \notin {"detect", "keep", "temp", "gzopen"} => cap[t] = Empty
  /\ pc[t] \notin {"extract", "gzclose", "fdclose"} => gz[t] = Empty
  /\ pc[t] \in {"none", "detect", "keep", "temp"} => file[t] = Empty
  /\ ~cap[t].temp /\ ~gz[t].temp
  /\ cap[t].fd # NoFd => cap[t].name \in Paths
  /\ gz[t].fd # NoFd => gz[t].name \in Paths
  /\ pc[t] \in {"gzopen", "extract", "gzclose", "fdclose"} => file[t].name \in TempNames
  /\ pc[t] = "gzclose" => (stream[t] <=> gz[t].fd # NoFd)
  /\ pc[t] = "extract" => (stream[t] <=> gz[t].fd # NoFd)

Places == \A t \in Threads : Place(t)

(* One constructor at a time. *)
OneAtATime == polite => \A t, u \in Threads : t # u => Idle(t) \/ Idle(u)

DrawnAlone == polite => \A t \in Threads : drawn[t] = {}

(* The descriptor that gzfile_t will close again is still closed. *)
ClosedOnce == polite => \A t \in Threads :
  pc[t] = "fdclose" /\ gz[t].fd # NoFd => table[gz[t].fd] = Closed

FInv == /\ TypeOK
        /\ Places
        /\ OneAtATime
        /\ DrawnAlone
        /\ ClosedOnce
        /\ NoDescriptorLeaks
        /\ TempsRemoved
        /\ DescriptorsKept

-----------------------------------------------------------------------------
(* open() answers a number that was free, or none. *)
LEMMA NewFdFree ==
  NewFd = NoFd \/ (NewFd \in Descriptors /\ table[NewFd] = Closed)
<1>1. CASE Free = {}
  BY <1>1 DEF NewFd
<1>2. CASE Free # {}
  <2>1. Free \subseteq Nat
    BY FilesAssumption DEF Free
  <2>2. PICK d \in Free : \A e \in Free : <<e, d>> \notin OpToRel(<, Nat)
    BY <1>2, <2>1, WFMin, NatLessThanWellFounded, Zenon
  <2>3. \A e \in Free : d <= e
    <3> SUFFICES ASSUME NEW e \in Free PROVE d <= e
      OBVIOUS
    <3>1. ~(e < d)
      BY <2>1, <2>2, Zenon DEF OpToRel
    <3> QED
      BY <2>1, <3>1
  <2>4. Lowest(Free) \in Free
    BY <2>3 DEF Lowest
  <2> QED
    BY <1>2, <2>4 DEF NewFd, Free
<1> QED
  BY <1>1, <1>2

LEMMA FdFacts ==
  /\ NoFd \notin Descriptors
  /\ Empty \in Owners /\ Empty.fd = NoFd /\ Empty.temp = FALSE
  /\ \A t \in Threads, name \in Paths \cup TempNames :
       [name |-> name, thread |-> t] # Closed
  BY FilesAssumption DEF NoFd, Empty, Owners, Closed

LEMMA FilesInit == Init => FInv
  BY FdFacts DEF Init, FInv, TypeOK, Places, Place, OneAtATime, DrawnAlone, ClosedOnce,
     NoDescriptorLeaks, TempsRemoved, Owned, DescriptorsKept, Idle, Empty, NoFd

-----------------------------------------------------------------------------
LEMMA OpenedType ==
  ASSUME TypeOK, NEW t \in Threads, NEW name \in Paths \cup TempNames, NEW temp \in BOOLEAN
  PROVE  /\ Opened(name, temp) \in Owners
         /\ TableWith(t, name) \in [Descriptors -> OpenFiles \cup {Closed}]
  BY NewFdFree DEF TypeOK, Opened, Owners, TableWith, OpenFiles

LEMMA CloseType ==
  ASSUME TypeOK, NEW d
  PROVE  CloseIn(table, d) \in [Descriptors -> OpenFiles \cup {Closed}]
  BY DEF TypeOK, CloseIn

LEMMA TypeStep == TypeOK /\ [Next]_vars => TypeOK'
<1> SUFFICES ASSUME TypeOK, [Next]_vars PROVE TypeOK'
  OBVIOUS
<1> USE DEF Goto, disk
<1>1. ASSUME NEW t \in Threads, OpenCapture(t) PROVE TypeOK'
  <2>1. PICK path \in Paths, where \in {"detect", "temp", "keep"} :
          /\ table' = TableWith(t, path)
          /\ cap' = [cap EXCEPT ![t] = Opened(path, FALSE)]
          /\ pc' = [pc EXCEPT ![t] = where]
    BY <1>1 DEF OpenCapture
  <2>2. /\ table' \in [Descriptors -> OpenFiles \cup {Closed}]
        /\ cap' \in [Threads -> Owners]
    BY <2>1, OpenedType DEF TypeOK
  <2> QED
    BY <1>1, <2>1, <2>2 DEF OpenCapture, TypeOK
<1>2. ASSUME NEW t \in Threads, Detect(t) PROVE TypeOK'
  BY <1>2 DEF Detect, TypeOK
<1>3. ASSUME NEW t \in Threads, Keep(t) PROVE TypeOK'
  BY <1>3 DEF Keep, TypeOK
<1>4. ASSUME NEW t \in Threads, MakeTemp(t) PROVE TypeOK'
  <2>1. PICK name \in MayDraw(t) : MakeTemp(t)!2!(name)
    BY <1>4 DEF MakeTemp
  <2>2. name \in TempNames
    BY <2>1 DEF MayDraw, TypeOK
  <2> QED
    BY <1>4, <2>1, <2>2, OpenedType DEF MakeTemp, TypeOK
<1>5. ASSUME NEW t \in Threads, GzOpen(t) PROVE TypeOK'
  BY <1>5, FdFacts DEF GzOpen, TypeOK
<1>6. ASSUME NEW t \in Threads, Extract(t) PROVE TypeOK'
  BY <1>6 DEF Extract, TypeOK
<1>7. ASSUME NEW t \in Threads, GzClose(t) PROVE TypeOK'
  BY <1>7, CloseType DEF GzClose, TypeOK
<1>8. ASSUME NEW t \in Threads, FdClose(t) PROVE TypeOK'
  BY <1>8, CloseType, FdFacts DEF FdClose, TypeOK
<1>9. ASSUME NEW t \in Threads, Index(t) PROVE TypeOK'
  BY <1>9 DEF Index, TypeOK
<1>10. ASSUME NEW t \in Threads, Destroy(t) PROVE TypeOK'
  BY <1>10, CloseType, FdFacts DEF Destroy, TypeOK
<1>11. CASE Crash
  BY <1>11, FdFacts DEF Crash, TypeOK
<1>12. CASE UNCHANGED vars
  BY <1>12 DEF vars, TypeOK
<1> QED
  BY <1>1, <1>2, <1>3, <1>4, <1>5, <1>6, <1>7, <1>8, <1>9, <1>10, <1>11, <1>12 DEF Next

LEMMA PlacesStep ==
  ASSUME TypeOK, Places, OneAtATime, DrawnAlone, [Next]_vars
  PROVE  Places' /\ OneAtATime' /\ DrawnAlone'
<1> USE DEF Goto, disk, Idle
<1> DEFINE Goal == Places' /\ OneAtATime' /\ DrawnAlone'
<1>1. ASSUME NEW t \in Threads, OpenCapture(t) PROVE Goal
  BY <1>1, FdFacts DEF OpenCapture, TypeOK, Places, Place, OneAtATime, DrawnAlone, Opened
<1>2. ASSUME NEW t \in Threads, Detect(t) PROVE Goal
  BY <1>2 DEF Detect, TypeOK, Places, Place, OneAtATime, DrawnAlone
<1>3. ASSUME NEW t \in Threads, Keep(t) PROVE Goal
  BY <1>3, FdFacts DEF Keep, TypeOK, Places, Place, OneAtATime, DrawnAlone
<1>4. ASSUME NEW t \in Threads, MakeTemp(t) PROVE Goal
  <2>1. PICK name \in MayDraw(t) : MakeTemp(t)!2!(name)
    BY <1>4 DEF MakeTemp
  <2>2. name \in TempNames
    BY <2>1 DEF MayDraw, TypeOK
  <2>3. Places' /\ OneAtATime'
    BY <1>4, <2>1, <2>2 DEF MakeTemp, TypeOK, Places, Place, OneAtATime, Opened
  <2>4. DrawnAlone'
    BY <1>4, <2>1 DEF MakeTemp, TypeOK, OneAtATime, DrawnAlone
  <2> QED
    BY <2>3, <2>4
<1>5. ASSUME NEW t \in Threads, GzOpen(t) PROVE Goal
  BY <1>5, FdFacts DEF GzOpen, TypeOK, Places, Place, OneAtATime, DrawnAlone
<1>6. ASSUME NEW t \in Threads, Extract(t) PROVE Goal
  BY <1>6 DEF Extract, TypeOK, Places, Place, OneAtATime, DrawnAlone
<1>7. ASSUME NEW t \in Threads, GzClose(t) PROVE Goal
  BY <1>7 DEF GzClose, TypeOK, Places, Place, OneAtATime, DrawnAlone
<1>8. ASSUME NEW t \in Threads, FdClose(t) PROVE Goal
  BY <1>8, FdFacts DEF FdClose, TypeOK, Places, Place, OneAtATime, DrawnAlone
<1>9. ASSUME NEW t \in Threads, Index(t) PROVE Goal
  BY <1>9 DEF Index, TypeOK, Places, Place, OneAtATime, DrawnAlone
<1>10. ASSUME NEW t \in Threads, Destroy(t) PROVE Goal
  BY <1>10, FdFacts DEF Destroy, TypeOK, Places, Place, OneAtATime, DrawnAlone
<1>11. CASE Crash
  BY <1>11, FdFacts DEF Crash, TypeOK, Places, Place, OneAtATime, DrawnAlone
<1>12. CASE UNCHANGED vars
  BY <1>12 DEF vars, Places, Place, OneAtATime, DrawnAlone
<1> QED
  BY <1>1, <1>2, <1>3, <1>4, <1>5, <1>6, <1>7, <1>8, <1>9, <1>10, <1>11, <1>12 DEF Next

-----------------------------------------------------------------------------
(* Nobody else's descriptor is forgotten: what the open files are held by  *)
(* before the step holds them after it, or the step closes them.           *)
LEMMA LeaksStep ==
  ASSUME TypeOK, Places, NoDescriptorLeaks, [Next]_vars PROVE NoDescriptorLeaks'
<1> USE DEF Goto, disk
<1> USE DEF TypeOK, NoDescriptorLeaks
<1>1. ASSUME NEW t \in Threads, OpenCapture(t) PROVE NoDescriptorLeaks'
  BY <1>1, FdFacts DEF OpenCapture, Places, Place, Opened, TableWith
<1>2. ASSUME NEW t \in Threads, Detect(t) PROVE NoDescriptorLeaks'
  BY <1>2 DEF Detect
<1>3. ASSUME NEW t \in Threads, Keep(t) PROVE NoDescriptorLeaks'
  BY <1>3 DEF Keep
<1>4. ASSUME NEW t \in Threads, MakeTemp(t) PROVE NoDescriptorLeaks'
  BY <1>4, FdFacts DEF MakeTemp, Places, Place, Opened, TableWith
<1>5. ASSUME NEW t \in Threads, GzOpen(t) PROVE NoDescriptorLeaks'
  BY <1>5, FdFacts DEF GzOpen, Places, Place
<1>6. ASSUME NEW t \in Threads, Extract(t) PROVE NoDescriptorLeaks'
  BY <1>6 DEF Extract
<1>7. ASSUME NEW t \in Threads, GzClose(t) PROVE NoDescriptorLeaks'
  BY <1>7 DEF GzClose, CloseIn
<1>8. ASSUME NEW t \in Threads, FdClose(t) PROVE NoDescriptorLeaks'
  BY <1>8 DEF FdClose, CloseIn
<1>9. ASSUME NEW t \in Threads, Index(t) PROVE NoDescriptorLeaks'
  BY <1>9 DEF Index
<1>10. ASSUME NEW t \in Threads, Destroy(t) PROVE NoDescriptorLeaks'
  BY <1>10 DEF Destroy, CloseIn
<1>11. CASE Crash
  BY <1>11 DEF Crash
<1>12. CASE UNCHANGED vars
  BY <1>12 DEF vars
<1> QED
  BY <1>1, <1>2, <1>3, <1>4, <1>5, <1>6, <1>7, <1>8, <1>9, <1>10, <1>11, <1>12 DEF Next

(* Only maketemp() makes a temporary file and only ~fd_t() of the one who  *)
(* made it removes it; the moves leave `Owned` alone.                      *)
LEMMA TempsStep ==
  ASSUME TypeOK, Places, DrawnAlone, OneAtATime, TempsRemoved, [Next]_vars
  PROVE  TempsRemoved'
<1> USE DEF Goto, disk, TypeOK
<1>1. ASSUME NEW t \in Threads, OpenCapture(t) PROVE TempsRemoved'
  BY <1>1 DEF OpenCapture, TempsRemoved, Owned
<1>2. ASSUME NEW t \in Threads, Detect(t) PROVE TempsRemoved'
  BY <1>2 DEF Detect, TempsRemoved, Owned
<1>3. ASSUME NEW t \in Threads, Keep(t) PROVE TempsRemoved'
  <2>1. /\ \A u \in Threads : file'[u].temp <=> file[u].temp
        /\ \A u \in Threads : file[u].temp => file'[u] = file[u]
        /\ UNCHANGED <<polite, temps, orphans>>
    BY <1>3, FdFacts DEF Keep, Places, Place
  <2>2. Owned' = Owned
    BY <2>1 DEF Owned
  <2> QED
    BY <2>1, <2>2 DEF TempsRemoved
<1>4. ASSUME NEW t \in Threads, MakeTemp(t) PROVE TempsRemoved'
  <2>1. PICK name \in MayDraw(t) : MakeTemp(t)!2!(name)
    BY <1>4 DEF MakeTemp
  <2>2. /\ file[t] = Empty /\ Empty.fd = NoFd /\ name \in TempNames
        /\ file'[t] = [fd |-> NewFd, temp |-> TRUE, name |-> name]
        /\ \A u \in Threads : u # t => file'[u] = file[u]
        /\ orphans' = orphans /\ polite' = polite
    BY <1>4, <2>1, FdFacts DEF MakeTemp, Places, Place, MayDraw, Opened
  <2>3. Owned' = IF NewFd = NoFd THEN Owned ELSE Owned \cup {name}
    BY <2>2 DEF Owned
  <2>4. temps' \subseteq Owned' \cup orphans'
    BY <2>1, <2>2, <2>3 DEF TempsRemoved
  <2>5. ASSUME polite
        PROVE  name \notin temps /\ \A u \in Threads : file[u].name # name
    <3>1. drawn[t] = {}
      BY <2>5 DEF DrawnAlone
    <3> QED
      BY <3>1 DEF MayDraw
  <2>6. polite => temps' = Owned' \cup orphans' /\ Owned' \cap orphans' = {}
    BY <2>1, <2>2, <2>3, <2>5 DEF TempsRemoved
  <2>7. polite => \A v, u \in Threads :
          file'[v].temp /\ file'[u].temp /\ v # u => file'[v].name # file'[u].name
    BY <2>2, <2>5 DEF TempsRemoved
  <2> QED
    BY <2>2, <2>4, <2>6, <2>7 DEF TempsRemoved
<1>5. ASSUME NEW t \in Threads, GzOpen(t) PROVE TempsRemoved'
  BY <1>5 DEF GzOpen, TempsRemoved, Owned
<1>6. ASSUME NEW t \in Threads, Extract(t) PROVE TempsRemoved'
  BY <1>6 DEF Extract, TempsRemoved, Owned
<1>7. ASSUME NEW t \in Threads, GzClose(t) PROVE TempsRemoved'
  BY <1>7 DEF GzClose, TempsRemoved, Owned
<1>8. ASSUME NEW t \in Threads, FdClose(t) PROVE TempsRemoved'
  BY <1>8 DEF FdClose, TempsRemoved, Owned
<1>9. ASSUME NEW t \in Threads, Index(t) PROVE TempsRemoved'
  BY <1>9 DEF Index, TempsRemoved, Owned
<1>10. ASSUME NEW t \in Threads, Destroy(t) PROVE TempsRemoved'
  <2>1. /\ file'[t] = Empty /\ Empty.fd = NoFd /\ Empty.temp = FALSE
        /\ \A u \in Threads : u # t => file'[u] = file[u]
        /\ temps' = IF file[t].temp /\ file[t].fd # NoFd THEN temps \ {file[t].name}
                                                         ELSE temps
        /\ orphans' = orphans /\ polite' = polite
    BY <1>10, FdFacts DEF Destroy
  <2>2. temps' \subseteq Owned' \cup orphans'
    BY <2>1 DEF TempsRemoved, Owned
  <2>3. ASSUME polite
        PROVE  Owned' = IF file[t].temp /\ file[t].fd # NoFd
                        THEN Owned \ {file[t].name} ELSE Owned
    BY <2>1, <2>3 DEF Owned, TempsRemoved
  <2>4. file[t].temp /\ file[t].fd # NoFd => file[t].name \in Owned
    BY DEF Owned
  <2>5. polite => temps' = Owned' \cup orphans' /\ Owned' \cap orphans' = {}
    BY <2>1, <2>3, <2>4 DEF TempsRemoved
  <2>6. polite => \A v, u \in Threads :
          file'[v].temp /\ file'[u].temp /\ v # u => file'[v].name # file'[u].name
    BY <2>1 DEF TempsRemoved
  <2> QED
    BY <2>1, <2>2, <2>5, <2>6 DEF TempsRemoved
<1>11. CASE Crash
  <2>1. Owned' = {}
    BY <1>11, FdFacts DEF Crash, Owned
  <2> QED
    BY <1>11, <2>1, FdFacts DEF Crash, TempsRemoved
<1>12. CASE UNCHANGED vars
  BY <1>12 DEF vars, TempsRemoved, Owned
<1> QED
  BY <1>1, <1>2, <1>3, <1>4, <1>5, <1>6, <1>7, <1>8, <1>9, <1>10, <1>11, <1>12 DEF Next

-----------------------------------------------------------------------------
(* What u finds through o in the table tab is what it opened. *)
Held(tab, u, o) == o.fd # NoFd => tab[o.fd] = [name |-> o.name, thread |-> u]

(* What an open changes is not what another owner has. *)
LEMMA OpenKeeps ==
  ASSUME TypeOK, NEW t, NEW name, NEW u \in Threads, NEW o \in Owners, Held(table, u, o)
  PROVE  Held(TableWith(t, name), u, o)
<1> SUFFICES ASSUME o.fd # NoFd PROVE TableWith(t, name)[o.fd] = table[o.fd]
  BY DEF Held
<1>1. o.fd \in Descriptors /\ table[o.fd] # Closed
  BY FilesAssumption DEF Owners, Held, Closed
<1> QED
  BY <1>1, NewFdFree DEF TableWith

(* What is opened is found through the owner it is opened for. *)
LEMMA OpenedHeld ==
  ASSUME NEW t, NEW name, NEW temp
  PROVE  Held(TableWith(t, name), t, Opened(name, temp))
  BY NewFdFree DEF Opened, TableWith, Held

(* A close leaves all descriptors but one alone. *)
LEMMA CloseKeeps ==
  ASSUME TypeOK, NEW d, NEW u, NEW o \in Owners, o.fd # d \/ o.fd = NoFd, Held(table, u, o)
  PROVE  Held(CloseIn(table, d), u, o)
  BY DEF CloseIn, TypeOK, Owners, Held

(* Two owners who find what they opened have a descriptor each, unless     *)
(* they opened it under one name in one thread.                            *)
LEMMA HeldApart ==
  ASSUME NEW t, NEW u, NEW o, NEW p, Held(table, t, o), Held(table, u, p),
         o.fd # NoFd, o.fd = p.fd
  PROVE  t = u /\ o.name = p.name
  BY DEF Held

Kept(t) == /\ Held(table, t, cap[t])
           /\ Held(table, t, file[t])
           /\ pc[t] # "fdclose" => Held(table, t, gz[t])
           /\ pc[t] = "fdclose" /\ gz[t].fd # NoFd => table[gz[t].fd] = Closed

LEMMA KeptMeans ==
  ASSUME polite
  PROVE  (DescriptorsKept /\ ClosedOnce) <=> \A t \in Threads : Kept(t)
  BY DEF DescriptorsKept, ClosedOnce, Kept, Held, Intact

(* A thread that opens something is alone in its constructor, so that no   *)
(* gzfile_t is between its two closes.                                     *)
LEMMA OpenStepKept ==
  ASSUME TypeOK, NEW t \in Threads, NEW name, NEW temp,
         table' = TableWith(t, name), pc[t] \in {"none", "temp"},
         \A u \in Threads : Place(u) /\ Kept(u) /\ (u # t => Idle(u)),
         pc'[t] # "fdclose", gz' = gz, \A u \in Threads : u # t => pc'[u] = pc[u],
         \A u \in Threads : cap'[u] = cap[u] \/ (u = t /\ cap'[u] = Opened(name, temp)),
         \A u \in Threads : file'[u] = file[u] \/ (u = t /\ file'[u] = Opened(name, temp))
  PROVE  \A u \in Threads : Kept(u)'
<1> SUFFICES ASSUME NEW u \in Threads PROVE Kept(u)'
  OBVIOUS
<1>1. cap[u] \in Owners /\ file[u] \in Owners /\ gz[u] \in Owners
  BY DEF TypeOK
<1>2. pc[u] # "fdclose" /\ pc'[u] # "fdclose"
  BY DEF Idle
<1>3. Held(table', u, cap[u]) /\ Held(table', u, file[u]) /\ Held(table', u, gz[u])
  BY <1>1, <1>2, OpenKeeps DEF Kept
<1>4. Held(table', t, Opened(name, temp))
  BY OpenedHeld
<1>5. Held(table', u, cap'[u]) /\ Held(table', u, file'[u])
  BY <1>3, <1>4
<1> QED
  BY <1>2, <1>3, <1>5 DEF Kept

(* Whatever t closes of its own, all others keep what they have. *)
LEMMA CloseStepKept ==
  ASSUME TypeOK, NEW t \in Threads, NEW o \in Owners, Held(table, t, o),
         table' = CloseIn(table, o.fd),
         NEW u \in Threads, Kept(u), u # t,
         cap'[u] = cap[u], file'[u] = file[u], gz'[u] = gz[u], pc'[u] = pc[u]
  PROVE  Kept(u)'
<1>1. cap[u] \in Owners /\ file[u] \in Owners /\ gz[u] \in Owners
  BY DEF TypeOK
<1>2. \A p \in Owners : Held(table, u, p) => Held(table', u, p)
  BY HeldApart, CloseKeeps
<1>3. \A d \in Descriptors : table[d] = Closed => table'[d] = Closed
  BY DEF CloseIn, TypeOK
<1>4. pc[u] = "fdclose" /\ gz[u].fd # NoFd => table'[gz[u].fd] = Closed
  BY <1>1, <1>3 DEF Kept, Owners
<1> QED
  BY <1>1, <1>2, <1>4 DEF Kept

LEMMA KeptStep ==
  ASSUME TypeOK, Places, OneAtATime, polite, \A u \in Threads : Kept(u), [Next]_vars
  PROVE  \A u \in Threads : Kept(u)'
<1> USE DEF Goto, disk
<1> DEFINE Goal == \A u \in Threads : Kept(u)'
<1>a. \A u \in Threads : Kept(u) /\ Place(u)
  BY DEF Places
<1>b. \A u \in Threads : cap[u] \in Owners /\ gz[u] \in Owners /\ file[u] \in Owners
  BY DEF TypeOK
<1>c. /\ pc = [u \in Threads |-> pc[u]] /\ cap = [u \in Threads |-> cap[u]]
      /\ gz = [u \in Threads |-> gz[u]] /\ file = [u \in Threads |-> file[u]]
      /\ stream = [u \in Threads |-> stream[u]]
  BY DEF TypeOK
<1>1. ASSUME NEW t \in Threads, OpenCapture(t) PROVE Goal
  <2>1. PICK path \in Paths, where \in {"detect", "temp", "keep"} :
          /\ table' = TableWith(t, path)
          /\ cap' = [cap EXCEPT ![t] = Opened(path, FALSE)]
          /\ pc' = [pc EXCEPT ![t] = where]
    BY <1>1 DEF OpenCapture
  <2>2. pc[t] = "none" /\ (\A u \in Threads : Idle(u)) /\ gz' = gz /\ file' = file
    BY <1>1 DEF OpenCapture
  <2> QED
    BY <1>a, <1>c, <2>1, <2>2, OpenStepKept
<1>2. ASSUME NEW t \in Threads, Detect(t) PROVE Goal
  BY <1>2, <1>a, <1>c DEF Detect, Kept
<1>3. ASSUME NEW t \in Threads, Keep(t) PROVE Goal
  BY <1>3, <1>a, <1>c DEF Keep, Kept, Place
<1>4. ASSUME NEW t \in Threads, MakeTemp(t) PROVE Goal
  <2>1. PICK name \in MayDraw(t) : MakeTemp(t)!2!(name)
    BY <1>4 DEF MakeTemp
  <2>2. pc[t] = "temp" /\ gz' = gz /\ cap' = cap /\ pc' = [pc EXCEPT ![t] = "gzopen"]
    BY <1>4 DEF MakeTemp
  <2>3. \A u \in Threads : u # t => Idle(u)
    BY <2>2 DEF OneAtATime, Idle
  <2> QED
    BY <1>a, <1>c, <2>1, <2>2, <2>3, OpenStepKept
<1>5. ASSUME NEW t \in Threads, GzOpen(t) PROVE Goal
  BY <1>5, <1>a, <1>c, FdFacts DEF GzOpen, Kept, Place, Held
<1>6. ASSUME NEW t \in Threads, Extract(t) PROVE Goal
  BY <1>6, <1>a, <1>c DEF Extract, Kept
<1>7. ASSUME NEW t \in Threads, GzClose(t) PROVE Goal
  <2>1. /\ pc[t] = "gzclose" /\ pc' = [pc EXCEPT ![t] = "fdclose"]
        /\ table' = IF stream[t] THEN CloseIn(table, gz[t].fd) ELSE table
        /\ UNCHANGED <<cap, gz, file>>
    BY <1>7 DEF GzClose
  <2>2. /\ Held(table, t, gz[t]) /\ Held(table, t, cap[t]) /\ Held(table, t, file[t])
        /\ (stream[t] <=> gz[t].fd # NoFd) /\ cap[t] = Empty
        /\ file[t].name \in TempNames
        /\ gz[t].fd # NoFd => gz[t].name \in Paths
    BY <1>a, <2>1 DEF Kept, Place
  <2>3. gz[t].fd = NoFd => table' = table
    BY <2>1, <2>2
  <2>4. ASSUME gz[t].fd # NoFd PROVE Kept(t)'
    <3>1. gz[t].fd # file[t].fd
      BY <2>2, <2>4, HeldApart, FilesAssumption
    <3>2. table' = CloseIn(table, gz[t].fd) /\ table'[gz[t].fd] = Closed
      BY <1>b, <2>1, <2>2, <2>4 DEF CloseIn, TypeOK, Owners
    <3>3. Held(table', t, file[t])
      BY <1>b, <2>2, <3>1, <3>2, CloseKeeps
    <3>4. Held(table', t, cap[t])
      BY <2>2, FdFacts DEF Held
    <3> QED
      BY <1>c, <2>1, <3>2, <3>3, <3>4 DEF Kept
  <2>5. ASSUME gz[t].fd # NoFd, NEW u \in Threads, u # t PROVE Kept(u)'
    BY <1>a, <1>b, <1>c, <2>1, <2>2, <2>5, CloseStepKept
  <2>6. ASSUME gz[t].fd = NoFd PROVE Goal
    BY <1>a, <1>c, <2>1, <2>2, <2>3, <2>6 DEF Kept
  <2> QED
    BY <2>4, <2>5, <2>6
<1>8. ASSUME NEW t \in Threads, FdClose(t) PROVE Goal
  <2>1. /\ pc[t] = "fdclose" /\ table' = CloseIn(table, gz[t].fd)
        /\ gz' = [gz EXCEPT ![t] = Empty]
        /\ pc'[t] # "fdclose" /\ \A u \in Threads : u # t => pc'[u] = pc[u]
        /\ UNCHANGED <<cap, file>>
    BY <1>8, <1>c DEF FdClose
  <2>2. gz[t].fd # NoFd => table[gz[t].fd] = Closed
    BY <1>a, <2>1 DEF Kept
  <2>3. table' = table
    <3>1. table = [d \in Descriptors |-> table[d]] /\ DOMAIN table = Descriptors
      BY DEF TypeOK
    <3>2. \A d \in Descriptors :
            (IF d = gz[t].fd THEN Closed ELSE table[d]) = table[d]
      BY <2>2, FilesAssumption DEF NoFd
    <3> QED
      BY <2>1, <3>1, <3>2 DEF CloseIn
  <2>4. Kept(t)'
    BY <1>a, <1>c, <2>1, <2>3, FdFacts DEF Kept, Held
  <2> QED
    BY <1>a, <1>c, <2>1, <2>3, <2>4 DEF Kept
<1>9. ASSUME NEW t \in Threads, Index(t) PROVE Goal
  BY <1>9, <1>a, <1>c DEF Index, Kept
<1>10. ASSUME NEW t \in Threads, Destroy(t) PROVE Goal
  <2>1. /\ pc[t] \in {"invalid", "valid"} /\ table' = CloseIn(table, file[t].fd)
        /\ file' = [file EXCEPT ![t] = Empty] /\ pc' = [pc EXCEPT ![t] = "none"]
        /\ UNCHANGED <<cap, gz>>
    BY <1>10 DEF Destroy
  <2>2. cap[t] = Empty /\ gz[t] = Empty /\ Held(table, t, file[t])
    BY <1>a, <2>1 DEF Kept, Place
  <2>3. Kept(t)'
    BY <1>c, <2>1, <2>2, FdFacts DEF Kept, Held
  <2>4. ASSUME NEW u \in Threads, u # t PROVE Kept(u)'
    BY <1>a, <1>b, <1>c, <2>1, <2>2, <2>4, CloseStepKept
  <2> QED
    BY <2>3, <2>4
<1>11. CASE Crash
  BY <1>11, FdFacts DEF Crash, Kept, Held
<1>12. CASE UNCHANGED vars
  BY <1>12, <1>a DEF vars, Kept
<1> QED
  BY <1>1, <1>2, <1>3, <1>4, <1>5, <1>6, <1>7, <1>8, <1>9, <1>10, <1>11, <1>12 DEF Next

LEMMA FilesNext == FInv /\ [Next]_vars => FInv'
<1> SUFFICES ASSUME FInv, [Next]_vars PROVE FInv'
  OBVIOUS
<1>1. TypeOK' /\ Places' /\ OneAtATime' /\ DrawnAlone'
  BY TypeStep, PlacesStep DEF FInv
<1>2. NoDescriptorLeaks' /\ TempsRemoved'
  BY LeaksStep, TempsStep DEF FInv
<1>3. polite' = polite
  BY DEF Next, vars, disk, OpenCapture, Detect, Keep, MakeTemp, GzOpen, Extract, GzClose,
     FdClose, Index, Destroy, Crash
<1>4. CASE polite
  <2>1. \A u \in Threads : Kept(u)'
    BY <1>4, KeptMeans, KeptStep DEF FInv
  <2>2. DescriptorsKept' /\ ClosedOnce'
    BY <1>3, <1>4, <2>1 DEF Kept, Held, DescriptorsKept, ClosedOnce, Intact
  <2> QED
    BY <1>1, <1>2, <2>2 DEF FInv
<1>5. CASE ~polite
  <2>1. DescriptorsKept' /\ ClosedOnce'
    BY <1>3, <1>5 DEF DescriptorsKept, ClosedOnce
  <2> QED
    BY <1>1, <1>2, <2>1 DEF FInv
<1> QED
  BY <1>4, <1>5

LEMMA FInvHolds == Spec => []FInv
  BY FilesInit, FilesNext, PTL DEF Spec

-----------------------------------------------------------------------------
(* The constructors keep to the ranges of their variables (pcap_t, fd_t,   *)
(* gzfile_t).                                                              *)
THEOREM FilesTypeCorrect == Spec => []TypeOK
<1>1. FInv => TypeOK
  BY DEF FInv
<1> QED
  BY <1>1, FInvHolds, PTL

(* However threads interleave and whatever is closed twice, every open     *)
(* descriptor has an fd_t that will close it (~fd_t(), fd_t::swap()).      *)
THEOREM LeaksCorrect == Spec => []NoDescriptorLeaks
<1>1. FInv => NoDescriptorLeaks
  BY DEF FInv
<1> QED
  BY <1>1, FInvHolds, PTL

(* Temporary files go with their captures and not before (maketemp(),      *)
(* ~fd_t()).                                                               *)
THEOREM TempsCorrect == Spec => []TempsRemoved
<1>1. FInv => TempsRemoved
  BY DEF FInv
<1> QED
  BY <1>1, FInvHolds, PTL

(* With one constructor at a time the second close of a gzfile_t never     *)
(* hits a descriptor that is somebody's (~gzfile_t()).                     *)
THEOREM KeptCorrect == Spec => []DescriptorsKept
<1>1. FInv => DescriptorsKept
  BY DEF FInv
<1> QED
  BY <1>1, FInvHolds, PTL

=============================================================================
