---------------------------- MODULE Files_proofs ----------------------------
(***************************************************************************)
(* For any number of file objects, references and descriptors: an object   *)
(* keeps its file, no descriptor is lost, and a child gets the files it    *)
(* was given (module Files).                                               *)
(***************************************************************************)
EXTENDS Files, Descriptors_proofs

(* The ground everything stands on: the terminal's descriptors are never    *)
(* closed, no object has one of them, every other one closes at exec, the   *)
(* standard file objects are there to stay, and a handler refers to         *)
(* something.                                                               *)
Ground ==
  /\ \A fd \in Standard : table[fd] = Tty
  /\ \A fd \in Fd \ Standard : table[fd] # Closed => table[fd].cloexec = TRUE
  /\ \A o \in Object : Opened(o) => fds[o].in \notin Standard /\ fds[o].out \notin Standard
  /\ \A o \in {Stdio, Stderr} : refs[o] = 1
  /\ fds[Stdio] = [in |-> 0, out |-> 1] /\ fds[Stderr] = [in |-> 0, out |-> 2]
  /\ handler # 0
  /\ target.end \in {"tty", "file", "write"}

Keeps ==
  /\ \A o \in Live : /\ Is(table[fds[o].in],  Means(o, "read"))
                     /\ Is(table[fds[o].out], Means(o, "write"))
  /\ Is(table[handler], target)

Base == TypeOK /\ Ground /\ KeepsItsFile /\ NoDescriptorLost
Inv  == Base /\ RunConnects

LEMMA KeepsAgain == KeepsItsFile <=> (undercut \/ Keeps)
BY DEF KeepsItsFile, Keeps

-----------------------------------------------------------------------------
(* Objects                                                                  *)

LEMMA ArgumentTypes ==
  /\ Object \subseteq Argument /\ Stdio \in Argument /\ Stderr \in Argument
  /\ Stdio \notin Object /\ Stderr \notin Object /\ Argument = Object \cup {Stdio, Stderr}
  /\ Object \subseteq 1 .. MaxFile
BY FilesAssumption, DescriptorAssumption DEF Argument, Object, Stdio, Stderr

LEMMA MeansTypes ==
  ASSUME TypeOK, NEW o \in Argument, NEW ends \in {"read", "write"}
  PROVE  /\ Means(o, ends).end \in {"tty", "file", ends} /\ Means(o, ends).of \in 0 .. MaxFile
         /\ o \in Object => Means(o, ends).end # "tty" /\ Means(o, ends).of = o
         /\ o \notin Object => Means(o, ends) = TtyTarget
BY ArgumentTypes, DescriptorAssumption DEF Means, TtyTarget, Object

(* What an object means depends on its descriptors only.                    *)
LEMMA MeansKept ==
  ASSUME NEW o, NEW ends, fds'[o] = fds[o]
  PROVE  Means(o, ends)' = Means(o, ends)
BY DEF Means

(* An entry that is something is an open descriptor's.                      *)
LEMMA SomethingIsOpen ==
  ASSUME NEW e, NEW what, Is(e, what), what.end # "none"
  PROVE  e # Closed
BY DEF Is, Closed

(* While objects keep their files no two have a descriptor in common.       *)
LEMMA Apart ==
  ASSUME TypeOK, Ground, Keeps, NEW o \in Object, NEW p \in Argument, o # p,
         Opened(o), Opened(p)
  PROVE  {fds[o].in, fds[o].out} \cap {fds[p].in, fds[p].out} = {}
<1>1. o \in Live /\ p \in Live
  BY ArgumentTypes DEF Live
<1>2. CASE p \in Object
  BY <1>1, <1>2, MeansTypes, ArgumentTypes DEF Keeps, Is
<1>3. CASE p \notin Object
  <2>1. fds[p].in \in Standard /\ fds[p].out \in Standard
    BY <1>3, ArgumentTypes DEF Ground, Standard
  <2> QED
    BY <2>1 DEF Ground
<1> QED
  BY <1>2, <1>3

-----------------------------------------------------------------------------
(* Releasing                                                                *)

LEMMA ReleasedTable ==
  ASSUME NEW t \in Table, NEW pair \in Pair, NEW err \in Fd,
         pair.in \notin Standard, pair.out \notin Standard,
         NEW u, u = Released(t, pair, err)
  PROVE  /\ u \in Table
         /\ \A fd \in Fd : u[fd] = t[fd] \/ u[fd] = Closed
         /\ \A fd \in Fd \ {pair.in, pair.out} : u[fd] = t[fd]
         /\ u[err] = t[err]
         /\ \A fd \in {pair.in, pair.out} : fd # err => u[fd] = Closed
<1> DEFINE s == IF pair.in \notin {0, err} THEN Close(t, pair.in) ELSE t
<1>1. pair.in \in Fd /\ pair.out \in Fd
  BY DEF Pair
<1>2. /\ s \in Table
      /\ \A fd \in Fd \ {pair.in} : s[fd] = t[fd]
      /\ pair.in # err => s[pair.in] = Closed
      /\ pair.in = err => s = t
  <2>1. CASE pair.in = err
    BY <2>1
  <2>2. CASE pair.in # err
    <3>1. s = Close(t, pair.in)
      BY <2>2, StandardFd DEF Standard
    <3> QED
      BY <1>1, <2>2, <3>1, CloseTable
  <2> QED
    BY <2>1, <2>2
<1>3. u = IF pair.out \notin {1, 2, pair.in, err} THEN Close(s, pair.out) ELSE s
  BY DEF Released
<1> HIDE DEF s
<1>4. pair.out \notin {1, 2}
  BY DEF Standard
<1>5. CASE pair.out \in {pair.in, err}
  BY <1>1, <1>2, <1>3, <1>4, <1>5
<1>6. CASE pair.out \notin {pair.in, err}
  <2>1. u = Close(s, pair.out)
    BY <1>3, <1>4, <1>6
  <2>2. /\ u \in Table /\ u[pair.out] = Closed
        /\ \A fd \in Fd \ {pair.out} : u[fd] = s[fd]
    <3>1. PICK o \in Fd, z \in Table : o = pair.out /\ z = s
      BY <1>1, <1>2
    <3>2. Close(z, o) \in Table /\ Close(z, o)[o] = Closed
      BY CloseTable, Zenon
    <3>3. \A fd \in Fd \ {o} : Close(z, o)[fd] = z[fd]
      BY CloseTable, Zenon
    <3>4. u = Close(z, o)
      BY <2>1, <3>1, Zenon
    <3> QED
      BY <3>1, <3>2, <3>3, <3>4, Zenon
  <2> QED
    BY <1>1, <1>2, <1>6, <2>2
<1> QED
  BY <1>5, <1>6

(* A reference goes away: what it means for the descriptors.                *)
LEMMA FreedTable ==
  ASSUME TypeOK, Ground, NEW t \in Table, NEW o \in Object, Opened(o), NEW err \in Fd,
         NEW u, u = Freed(t, o, err)
  PROVE  /\ u \in Table
         /\ \A fd \in Fd : u[fd] = t[fd] \/ u[fd] = Closed
         /\ \A fd \in Fd \ {fds[o].in, fds[o].out} : u[fd] = t[fd]
         /\ u[err] = t[err]
         /\ refs[o] # 1 => u = t
         /\ refs[o] = 1 => \A fd \in {fds[o].in, fds[o].out} : fd # err => u[fd] = Closed
<1>1. fds[o] \in Pair /\ fds[o].in \notin Standard /\ fds[o].out \notin Standard
  BY ArgumentTypes DEF TypeOK, Ground
<1>2. CASE refs[o] = 1
  <2>1. u = Released(t, fds[o], err)
    BY <1>2 DEF Freed
  <2> QED
    BY <1>1, <1>2, <2>1, ReleasedTable
<1>3. CASE refs[o] # 1
  BY <1>3 DEF Freed
<1> QED
  BY <1>2, <1>3

-----------------------------------------------------------------------------
(* Steps                                                                    *)

LEMMA InitBase == Init => Base
<1> SUFFICES ASSUME Init PROVE Base
  OBVIOUS
<1>0. /\ \A fd \in Standard : table[fd] = Tty
      /\ \A fd \in Fd \ Standard : table[fd] = Closed
  BY StandardFd DEF Init, InitialTable
<1>1. TypeOK
  <2>1. fds \in [Argument -> Pair]
    BY StandardFd DEF Init, Pair, NoPair
  <2>2. refs \in [Argument -> 0 .. MaxRefs]
    BY FilesAssumption DEF Init
  <2>3. child.table \in Table
    BY InitialTableType DEF Init, NoChild
  <2> QED
    BY <2>1, <2>2, <2>3, StandardFd, InitialTableType DEF Init, TypeOK
<1>2. \A o \in Object : ~Opened(o)
  BY ArgumentTypes DEF Init, Opened
<1>3. Ground
  <2>1. refs[Stdio] = 1 /\ refs[Stderr] = 1
    BY ArgumentTypes DEF Init
  <2>2. fds[Stdio] = [in |-> 0, out |-> 1] /\ fds[Stderr] = [in |-> 0, out |-> 2]
    BY ArgumentTypes DEF Init, Stdio, Stderr
  <2>3. handler # 0 /\ target.end \in {"tty", "file", "write"}
    BY DEF Init, TtyTarget
  <2> QED
    BY <1>0, <1>2, <2>1, <2>2, <2>3 DEF Ground
<1>4. Keeps
  <2>1. ASSUME NEW o \in Live
        PROVE  /\ fds[o].in \in Standard /\ fds[o].out \in Standard
               /\ Means(o, "read") = TtyTarget /\ Means(o, "write") = TtyTarget
    <3>1. o \in {Stdio, Stderr}
      BY <1>2, ArgumentTypes DEF Live
    <3> QED
      BY <1>1, <1>3, <3>1, MeansTypes, ArgumentTypes DEF Ground, Standard
  <2>2. \A fd \in Standard : Is(table[fd], TtyTarget)
    BY <1>0 DEF Is, Tty, TtyTarget
  <2> QED
    BY <2>1, <2>2 DEF Keeps, Init, Standard
<1>5. NoDescriptorLost
  BY <1>0 DEF NoDescriptorLost, Open
<1> QED
  BY <1>1, <1>3, <1>4, <1>5, KeepsAgain DEF Base

(* A new object: its descriptors were free, and everything else is as it    *)
(* was.                                                                     *)
LEMMA NewObjectBase ==
  ASSUME Base, NEW o \in Fresh, NEW t \in Table, NEW pair \in Pair,
         NewObject(o, t, pair),
         pair.in \in Free(table), pair.out \in Free(table),
         \A fd \in Fd \ {pair.in, pair.out} : t[fd] = table[fd],
         t[pair.in].cloexec = TRUE, t[pair.out].cloexec = TRUE,
         t[pair.in].of = o, t[pair.out].of = o,
         IF pair.in = pair.out THEN t[pair.in].end = "file"
         ELSE t[pair.in].end = "read" /\ t[pair.out].end = "write"
  PROVE  Base'
<1>0. /\ TypeOK /\ Ground /\ KeepsItsFile /\ NoDescriptorLost
      /\ o \in Object /\ o \in Argument /\ refs[o] = 0
      /\ table' = t /\ fds' = [fds EXCEPT ![o] = pair] /\ refs' = [refs EXCEPT ![o] = 1]
      /\ child' = NoChild /\ UNCHANGED <<handler, target, undercut>>
      /\ pair.in \in Fd /\ pair.out \in Fd
  BY ArgumentTypes DEF Base, Fresh, NewObject, Pair
<1>1. /\ fds'[o] = pair /\ refs'[o] = 1
      /\ \A p \in Argument \ {o} : fds'[p] = fds[p] /\ refs'[p] = refs[p]
  BY <1>0 DEF TypeOK
<1>2. TypeOK'
  <2>1. child'.table \in Table
    BY <1>0, InitialTableType DEF NoChild
  <2>2. refs' \in [Argument -> 0 .. MaxRefs]
    BY <1>0, FilesAssumption DEF TypeOK
  <2> QED
    BY <1>0, <2>1, <2>2 DEF TypeOK
<1>3. pair.in \notin Standard /\ pair.out \notin Standard
  BY <1>0, EntryTypes DEF Ground, Free, Open
<1>4. Ground'
  <2>1. \A fd \in Standard : t[fd] = Tty
    BY <1>0, <1>3, StandardFd DEF Ground
  <2>2. \A fd \in Fd \ Standard : t[fd] # Closed => t[fd].cloexec = TRUE
    BY <1>0 DEF Ground
  <2>3. \A p \in Object : Opened(p)' =>
          fds'[p].in \notin Standard /\ fds'[p].out \notin Standard
    BY <1>0, <1>1, <1>3, ArgumentTypes DEF Ground, Opened
  <2>4. \A p \in {Stdio, Stderr} : refs'[p] = 1 /\ fds'[p] = fds[p]
    BY <1>0, <1>1, ArgumentTypes DEF Ground
  <2> QED
    BY <1>0, <2>1, <2>2, <2>3, <2>4 DEF Ground
<1>5. ASSUME ~undercut PROVE Keeps'
  <2>0. Keeps
    BY <1>0, <1>5, KeepsAgain
  <2>1. ASSUME NEW fd \in Fd, NEW what, Is(table[fd], what), what.end # "none"
        PROVE  Is(t[fd], what)
    <3>1. fd \notin Free(table)
      BY <2>1, SomethingIsOpen DEF Free, Open
    <3> QED
      BY <2>1, <3>1
  <2>2. ASSUME NEW p \in Live'
        PROVE  /\ Is(t[fds'[p].in], Means(p, "read")')
               /\ Is(t[fds'[p].out], Means(p, "write")')
    <3>1. CASE p = o
      BY <1>0, <1>1, <3>1 DEF Means, Is
    <3>2. CASE p # o
      <4>1. p \in Live /\ p \in Argument /\ fds'[p] = fds[p] /\ fds[p] \in Pair
        BY <1>0, <1>1, <2>2, <3>2 DEF Live, Opened, TypeOK
      <4>2. /\ Means(p, "read")' = Means(p, "read") /\ Means(p, "write")' = Means(p, "write")
            /\ Means(p, "read").end # "none" /\ Means(p, "write").end # "none"
        BY <1>0, <4>1, MeansKept, MeansTypes
      <4>3. fds[p].in \in Fd /\ fds[p].out \in Fd
        BY <4>1 DEF Pair
      <4> QED
        BY <2>0, <2>1, <4>1, <4>2, <4>3 DEF Keeps
    <3> QED
      BY <3>1, <3>2
  <2>3. Is(t[handler], target)
    BY <1>0, <2>0, <2>1 DEF Keeps, Ground, TypeOK
  <2> QED
    BY <1>0, <2>2, <2>3 DEF Keeps
<1>6. NoDescriptorLost'
  <2> SUFFICES ASSUME NEW fd \in Open(t) \ Standard PROVE fd = handler \/ InUse(fd)'
    BY <1>0 DEF NoDescriptorLost
  <2>1. CASE fd \in {pair.in, pair.out}
    BY <1>0, <1>1, <2>1 DEF InUse, Live, Opened
  <2>2. CASE fd \notin {pair.in, pair.out}
    <3>1. fd \in Open(table) \ Standard
      BY <2>2 DEF Open
    <3>2. CASE InUse(fd)
      <4>1. PICK p \in Live : fd \in {fds[p].in, fds[p].out}
        BY <3>2 DEF InUse
      <4>2. p \in Live' /\ fds'[p] = fds[p]
        BY <1>0, <1>1, <4>1 DEF Live, Opened
      <4> QED
        BY <4>1, <4>2 DEF InUse
    <3> QED
      BY <1>0, <3>1, <3>2 DEF NoDescriptorLost
  <2> QED
    BY <2>1, <2>2
<1> QED
  BY <1>0, <1>2, <1>4, <1>5, <1>6, KeepsAgain DEF Base, KeepsItsFile, Keeps

LEMMA NextObjectIsFresh ==
  ASSUME Fresh # {}
  PROVE  NextObject \in Fresh /\ NextObject \in 0 .. MaxFile
<1>1. Fresh \in SUBSET Nat
  BY DEF Fresh, Object
<1>2. \E o \in Fresh : \A p \in Fresh : o <= p
  BY <1>1, LeastElement
<1>3. NextObject \in Fresh
  BY <1>2 DEF NextObject
<1>4. NextObject \in 1 .. MaxFile
  BY <1>3, ArgumentTypes DEF Fresh
<1> QED
  BY <1>3, <1>4, DescriptorAssumption

LEMMA OpenFileBase ==
  ASSUME Base, OpenFile
  PROVE  Base'
<1>1. PICK o : o = NextObject
  OBVIOUS
<1>2. PICK fd : fd = Lowest(table)
  OBVIOUS
<1>3. PICK yes \in BOOLEAN : yes = TRUE
  OBVIOUS
<1>4. PICK end \in {"tty", "file", "read", "write"} : end = "file"
  OBVIOUS
<1>5. PICK t : t = Install(table, end, o, yes)
  OBVIOUS
<1>6. PICK pair : pair = [in |-> fd, out |-> fd]
  OBVIOUS
<1>7. o \in Fresh /\ o \in 0 .. MaxFile
  BY <1>1, NextObjectIsFresh DEF OpenFile
<1>8. table \in Table /\ Free(table) # {}
  BY DEF OpenFile, Base, TypeOK
<1>9. fd \in Fd /\ fd \in Free(table)
  BY <1>2, <1>8, LowestFree
<1>10. /\ t \in Table
       /\ t[fd] = [end |-> end, of |-> o, cloexec |-> yes]
       /\ \A other \in Fd \ {fd} : t[other] = table[other]
  BY <1>2, <1>5, <1>7, <1>8, InstallTable
<1>11. t[fd].end = "file" /\ t[fd].of = o /\ t[fd].cloexec = TRUE
  BY <1>3, <1>4, <1>10
<1>12. pair \in Pair /\ pair.in = fd /\ pair.out = fd
  BY <1>6, <1>9 DEF Pair
<1>13. NewObject(o, t, pair)
  BY <1>1, <1>2, <1>3, <1>4, <1>5, <1>6, Zenon DEF OpenFile
<1> QED
  BY <1>7, <1>9, <1>10, <1>11, <1>12, <1>13, NewObjectBase

LEMMA OpenStringBase ==
  ASSUME Base, OpenString
  PROVE  Base'
<1>1. PICK o : o = NextObject
  OBVIOUS
<1>2. PICK yes \in BOOLEAN : yes = TRUE
  OBVIOUS
<1>3. PICK r : r = Lowest(table)
  OBVIOUS
<1>4. PICK w : w = Lowest(Install(table, "read", o, yes))
  OBVIOUS
<1>5. PICK t : t = NewPipe(table, o, yes)
  OBVIOUS
<1>6. PICK pair : pair = [in |-> r, out |-> w]
  OBVIOUS
<1>7. o \in Fresh /\ o \in 0 .. MaxFile
  BY <1>1, NextObjectIsFresh DEF OpenString
<1>8. table \in Table /\ Cardinality(Free(table)) >= 2
  BY DEF OpenString, Base, TypeOK
<1>9. /\ t \in Table /\ r \in Free(table) /\ w \in Free(table) /\ r # w
      /\ t[r] = [end |-> "read", of |-> o, cloexec |-> yes]
      /\ t[w] = [end |-> "write", of |-> o, cloexec |-> yes]
      /\ \A fd \in Fd \ {r, w} : t[fd] = table[fd]
  BY <1>3, <1>4, <1>5, <1>7, <1>8, PipeTable
<1>10. /\ t[r].end = "read" /\ t[r].of = o /\ t[r].cloexec = TRUE
       /\ t[w].end = "write" /\ t[w].of = o /\ t[w].cloexec = TRUE
  BY <1>2, <1>9
<1>11. pair \in Pair /\ pair.in = r /\ pair.out = w
  BY <1>6, <1>9 DEF Pair, Free
<1>12. NewObject(o, t, pair)
  BY <1>1, <1>2, <1>3, <1>4, <1>5, <1>6, Zenon DEF OpenString
<1> QED
  BY <1>7, <1>9, <1>10, <1>11, <1>12, NewObjectBase
(* Nothing appears: every other step leaves the objects their descriptors,  *)
(* gives a reference only to what has one, and at most closes descriptors,  *)
(* none of them the terminal's.                                             *)
LEMMA NothingNewBase ==
  ASSUME Base, fds' = fds, refs' \in [Argument -> 0 .. MaxRefs],
         \A p \in Argument : Opened(p)' => Opened(p),
         refs'[Stdio] = 1, refs'[Stderr] = 1,
         table' \in Table,
         \A fd \in Fd : table'[fd] = table[fd] \/ table'[fd] = Closed,
         \A fd \in Standard : table'[fd] = table[fd],
         handler' \in Fd, handler' # 0, target'.end \in {"tty", "file", "write"},
         undercut' \in BOOLEAN, child'.table \in Table,
         ~undercut' => /\ ~undercut
                       /\ \A p \in Live' : /\ table'[fds[p].in] = table[fds[p].in]
                                           /\ table'[fds[p].out] = table[fds[p].out]
                       /\ Is(table'[handler'], target'),
         \A fd \in Open(table') \ Standard :
           fd = handler' \/ \E p \in Live' : fd \in {fds[p].in, fds[p].out}
  PROVE  Base'
<1>0. TypeOK /\ Ground /\ KeepsItsFile /\ NoDescriptorLost
  BY DEF Base
<1>1. TypeOK'
  BY <1>0 DEF TypeOK
<1>2. Ground'
  <2>1. \A fd \in Standard : table'[fd] = Tty
    BY <1>0 DEF Ground
  <2>2. \A fd \in Fd \ Standard : table'[fd] # Closed => table'[fd].cloexec = TRUE
    BY <1>0 DEF Ground
  <2>3. \A o \in Object : Opened(o)' =>
          fds'[o].in \notin Standard /\ fds'[o].out \notin Standard
    BY <1>0, ArgumentTypes DEF Ground
  <2>4. fds'[Stdio] = [in |-> 0, out |-> 1] /\ fds'[Stderr] = [in |-> 0, out |-> 2]
    BY <1>0 DEF Ground
  <2> QED
    BY <2>1, <2>2, <2>3, <2>4 DEF Ground
<1>3. ASSUME ~undercut' PROVE Keeps'
  <2>1. Keeps
    BY <1>0, <1>3, KeepsAgain
  <2>2. ASSUME NEW p \in Live'
        PROVE  /\ Is(table'[fds'[p].in], Means(p, "read")')
               /\ Is(table'[fds'[p].out], Means(p, "write")')
    <3>1. p \in Live
      BY <2>2 DEF Live
    <3>2. Means(p, "read")' = Means(p, "read") /\ Means(p, "write")' = Means(p, "write")
      BY MeansKept
    <3> QED
      BY <1>3, <2>1, <2>2, <3>1, <3>2 DEF Keeps
  <2> QED
    BY <1>3, <2>2 DEF Keeps
<1>4. NoDescriptorLost'
  BY DEF NoDescriptorLost, InUse
<1> QED
  BY <1>1, <1>2, <1>3, <1>4, KeepsAgain DEF Base, KeepsItsFile, Keeps

LEMMA CopyBase ==
  ASSUME Base, NEW o \in Object, Copy(o)
  PROVE  Base'
<1>0. /\ TypeOK /\ Ground /\ KeepsItsFile /\ NoDescriptorLost /\ o \in Argument
      /\ o # Stdio /\ o # Stderr
      /\ Opened(o) /\ refs[o] < MaxRefs /\ refs' = [refs EXCEPT ![o] = @ + 1]
      /\ child' = NoChild /\ UNCHANGED <<table, fds, handler, target, undercut>>
  BY ArgumentTypes DEF Base, Copy
<1>1. /\ refs' \in [Argument -> 0 .. MaxRefs]
      /\ refs'[Stdio] = 1 /\ refs'[Stderr] = 1
  BY <1>0, ArgumentTypes, FilesAssumption DEF TypeOK, Ground
<1>2. \A p \in Argument : Opened(p)' <=> Opened(p)
  BY <1>0, FilesAssumption DEF TypeOK, Opened
<1>3. Live' = Live
  BY <1>2 DEF Live
<1>4. child'.table \in Table
  BY <1>0, InitialTableType DEF NoChild
<1>5. ~undercut' => Is(table'[handler'], target')
  BY <1>0 DEF KeepsItsFile
<1>6. \A fd \in Open(table') \ Standard :
        fd = handler' \/ \E p \in Live' : fd \in {fds[p].in, fds[p].out}
  BY <1>0, <1>3 DEF NoDescriptorLost, InUse
<1>7. /\ table' \in Table /\ handler' \in Fd /\ handler' # 0
      /\ target'.end \in {"tty", "file", "write"} /\ undercut' \in BOOLEAN
  BY <1>0 DEF TypeOK, Ground
<1> QED
  BY <1>0, <1>1, <1>2, <1>4, <1>5, <1>6, <1>7, NothingNewBase

(* A reference goes away, whatever became of the handler before: t is the   *)
(* table by then and err the handler's descriptor.                          *)
LEMMA DroppedBase ==
  ASSUME Base, NEW o \in Object, Opened(o), fds' = fds,
         refs' = [refs EXCEPT ![o] = @ - 1], child'.table \in Table,
         NEW t \in Table, NEW err \in Fd, err # 0, handler' = err,
         table' = Freed(t, o, err),
         \A fd \in Fd : t[fd] = table[fd] \/ t[fd] = Closed,
         \A fd \in Standard : t[fd] = table[fd],
         target'.end \in {"tty", "file", "write"}, undercut' \in BOOLEAN,
         ~undercut' => /\ ~undercut
                       /\ \A p \in Live : /\ t[fds[p].in] = table[fds[p].in]
                                          /\ t[fds[p].out] = table[fds[p].out]
                       /\ Is(t[err], target'),
         \A fd \in Open(t) \ Standard : fd = err \/ InUse(fd)
  PROVE  Base'
<1>0. /\ TypeOK /\ Ground /\ KeepsItsFile /\ o \in Argument
      /\ o # Stdio /\ o # Stderr
      /\ fds[o].in \in Fd \ Standard /\ fds[o].out \in Fd \ Standard
  BY ArgumentTypes DEF Base, Ground, TypeOK, Pair
<1>1. /\ refs' \in [Argument -> 0 .. MaxRefs]
      /\ refs'[Stdio] = 1 /\ refs'[Stderr] = 1
      /\ refs'[o] = refs[o] - 1
      /\ \A p \in Argument \ {o} : refs'[p] = refs[p]
  <2>1. refs[o] \in 1 .. MaxRefs /\ MaxRefs \in Nat
    BY <1>0, FilesAssumption DEF TypeOK, Opened
  <2>2. refs'[o] = refs[o] - 1 /\ \A p \in Argument \ {o} : refs'[p] = refs[p]
    BY <1>0 DEF TypeOK
  <2>3. refs[o] - 1 \in 0 .. MaxRefs
    BY <2>1
  <2>4. refs' \in [Argument -> 0 .. MaxRefs]
    BY <1>0, <2>3 DEF TypeOK
  <2> QED
    BY <1>0, <2>2, <2>4, ArgumentTypes DEF Ground
<1>2. \A p \in Argument : /\ Opened(p)' => Opened(p)
                          /\ Opened(p) => (Opened(p)' \/ (p = o /\ refs[o] = 1))
  BY <1>0, <1>1, FilesAssumption DEF TypeOK, Opened
<1>3. /\ Live' \subseteq Live
      /\ \A p \in Live : p \in Live' \/ (p = o /\ refs[o] = 1)
      /\ refs[o] = 1 => o \notin Live'
  BY <1>1, <1>2 DEF Live, Opened
<1>4. /\ table' \in Table
      /\ \A fd \in Fd : table'[fd] = t[fd] \/ table'[fd] = Closed
      /\ \A fd \in Fd \ {fds[o].in, fds[o].out} : table'[fd] = t[fd]
      /\ table'[err] = t[err]
      /\ refs[o] # 1 => table' = t
      /\ refs[o] = 1 => \A fd \in {fds[o].in, fds[o].out} : fd # err => table'[fd] = Closed
  BY <1>0, FreedTable
<1>5. \A fd \in Fd : table'[fd] = table[fd] \/ table'[fd] = Closed
  BY <1>4
<1>6. \A fd \in Standard : table'[fd] = table[fd]
  BY <1>0, <1>4, StandardFd
<1>7. ASSUME ~undercut', NEW p \in Live'
      PROVE  table'[fds[p].in] = table[fds[p].in] /\ table'[fds[p].out] = table[fds[p].out]
  <2>1. p \in Live /\ p \in Argument /\ Opened(p)
    BY <1>3, <1>7 DEF Live
  <2>2. CASE refs[o] # 1
    BY <1>4, <1>7, <2>1, <2>2
  <2>3. CASE refs[o] = 1
    <3>1. Keeps
      BY <1>0, <1>7, KeepsAgain
    <3>2. p # o
      BY <1>3, <1>7, <2>3
    <3>3. fds[p].in \notin {fds[o].in, fds[o].out} /\ fds[p].out \notin {fds[o].in, fds[o].out}
      BY <1>0, <2>1, <3>1, <3>2, Apart
    <3>4. fds[p].in \in Fd /\ fds[p].out \in Fd
      BY <1>0, <2>1 DEF TypeOK, Pair
    <3> QED
      BY <1>4, <1>7, <2>1, <3>3, <3>4
  <2> QED
    BY <2>2, <2>3
<1>8. ~undercut' => Is(table'[handler'], target')
  BY <1>4
<1>9. ASSUME NEW fd \in Open(table') \ Standard
      PROVE  fd = handler' \/ \E p \in Live' : fd \in {fds[p].in, fds[p].out}
  <2>1. fd \in Fd /\ table'[fd] # Closed
    BY <1>9 DEF Open
  <2>2. fd \in Open(t) \ Standard
    BY <1>4, <1>9, <2>1 DEF Open
  <2>3. CASE fd = err
    BY <2>3
  <2>4. CASE fd # err
    <3>1. PICK p \in Live : fd \in {fds[p].in, fds[p].out}
      BY <2>2, <2>4 DEF InUse
    <3>2. p \in Live'
      BY <1>3, <1>4, <2>1, <2>4, <3>1
    <3> QED
      BY <3>1, <3>2
  <2> QED
    BY <2>3, <2>4
<1> QED
  BY <1>1, <1>2, <1>4, <1>5, <1>6, <1>7, <1>8, <1>9, NothingNewBase

LEMMA DropBase ==
  ASSUME Base, NEW o \in Object, Drop(o)
  PROVE  Base'
<1>0. /\ TypeOK /\ Ground /\ KeepsItsFile /\ NoDescriptorLost
      /\ Opened(o) /\ table' = Freed(table, o, handler) /\ refs' = [refs EXCEPT ![o] = @ - 1]
      /\ child' = NoChild /\ UNCHANGED <<fds, handler, target, undercut>>
  BY DEF Base, Drop
<1>1. child'.table \in Table
  BY <1>0, InitialTableType DEF NoChild
<1>2. /\ table \in Table /\ handler \in Fd /\ handler # 0
      /\ target'.end \in {"tty", "file", "write"} /\ undercut' \in BOOLEAN
  BY <1>0 DEF TypeOK, Ground
<1>3. ~undercut' => ~undercut /\ Is(table[handler], target')
  BY <1>0 DEF KeepsItsFile
<1>4. \A fd \in Open(table) \ Standard : fd = handler \/ InUse(fd)
  BY <1>0 DEF NoDescriptorLost
<1> QED
  BY <1>0, <1>1, <1>2, <1>3, <1>4, DroppedBase
LEMMA StderrHandlerBase ==
  ASSUME Base, NEW o \in Argument, NEW pop \in BOOLEAN, StderrHandler(o, pop)
  PROVE  Base'
<1>1. PICK err : err = fds[o].out
  OBVIOUS
<1>2. PICK t : t = ClosedHandler(table)
  OBVIOUS
<1>0. /\ TypeOK /\ Ground /\ KeepsItsFile /\ NoDescriptorLost
      /\ Opened(o) /\ (pop => o \in Object) /\ handler' = err /\ target' = Means(o, "write")
      /\ undercut' = (undercut \/ (handler \notin {1, 2} /\ InUse(handler)))
      /\ table' = (IF pop THEN Freed(t, o, err) ELSE t)
      /\ refs' = (IF pop THEN [refs EXCEPT ![o] = @ - 1] ELSE refs)
      /\ child' = NoChild /\ fds' = fds
  BY <1>1, <1>2, Zenon DEF Base, StderrHandler
<1>3. /\ handler \in Fd /\ handler # 0
      /\ t \in Table
      /\ \A fd \in Fd \ {handler} : t[fd] = table[fd]
      /\ handler \in {1, 2} => t = table
      /\ handler \notin {1, 2} => t[handler] = Closed
  BY <1>0, <1>2, CloseTable DEF ClosedHandler, TypeOK, Ground
<1>4. \A fd \in Fd : t[fd] = table[fd] \/ t[fd] = Closed
  BY <1>3
<1>5. \A fd \in Standard : t[fd] = table[fd]
  BY <1>3, StandardFd DEF Standard
<1>6. err \in Fd /\ err # 0 /\ o \in Live
  <2>1. err \in Fd /\ o \in Live
    BY <1>0, <1>1 DEF TypeOK, Pair, Live
  <2>2. err # 0
    <3>1. CASE o \in Object
      BY <1>0, <1>1, <3>1 DEF Ground, Standard
    <3>2. CASE o \notin Object
      BY <1>0, <1>1, <3>2, ArgumentTypes DEF Ground
    <3> QED
      BY <3>1, <3>2
  <2> QED
    BY <2>1, <2>2
<1>7. target'.end \in {"tty", "file", "write"}
  BY <1>0, MeansTypes
<1>8. undercut' \in BOOLEAN
  BY <1>0, Zenon DEF TypeOK
<1>9. child'.table \in Table
  BY <1>0, InitialTableType DEF NoChild
<1>10. ASSUME ~undercut'
       PROVE  /\ ~undercut
              /\ \A p \in Live : /\ t[fds[p].in] = table[fds[p].in]
                                 /\ t[fds[p].out] = table[fds[p].out]
              /\ Is(t[err], target')
  <2>1. ~undercut /\ (handler \in {1, 2} \/ ~InUse(handler))
    BY <1>0, <1>10
  <2>2. Keeps
    BY <1>0, <2>1, KeepsAgain
  <2>3. ASSUME NEW p \in Live
        PROVE  t[fds[p].in] = table[fds[p].in] /\ t[fds[p].out] = table[fds[p].out]
    <3>1. fds[p].in \in Fd /\ fds[p].out \in Fd
      BY <1>0 DEF TypeOK, Live, Pair
    <3>2. CASE handler \in {1, 2}
      BY <1>3, <3>2
    <3>3. CASE ~InUse(handler)
      BY <1>3, <3>1, <3>3 DEF InUse
    <3> QED
      BY <2>1, <3>2, <3>3
  <2>4. Is(t[err], target')
    BY <1>0, <1>1, <1>6, <2>2, <2>3 DEF Keeps
  <2> QED
    BY <2>1, <2>3, <2>4
<1>11. ASSUME NEW fd \in Open(t) \ Standard PROVE InUse(fd)
  <2>1. fd \in Fd /\ t[fd] # Closed
    BY <1>11 DEF Open
  <2>2. fd # handler
    BY <1>3, <1>11, <2>1 DEF Standard
  <2>3. fd \in Open(table) \ Standard
    BY <1>3, <1>11, <2>1, <2>2 DEF Open
  <2> QED
    BY <1>0, <2>2, <2>3 DEF NoDescriptorLost
<1>12. CASE pop
  <2>1. o \in Object /\ table' = Freed(t, o, err) /\ refs' = [refs EXCEPT ![o] = @ - 1]
    BY <1>0, <1>12
  <2> QED
    BY <1>0, <1>3, <1>4, <1>5, <1>6, <1>7, <1>8, <1>9, <1>10, <1>11, <2>1, DroppedBase
<1>13. CASE ~pop
  <2>1. table' = t /\ refs' = refs /\ (\A p \in Argument : Opened(p)' <=> Opened(p))
    BY <1>0, <1>13 DEF Opened
  <2>2. refs' \in [Argument -> 0 .. MaxRefs] /\ refs'[Stdio] = 1 /\ refs'[Stderr] = 1
    BY <1>0, <2>1 DEF TypeOK, Ground
  <2>3. Live' = Live
    BY <2>1 DEF Live
  <2>4. \A fd \in Open(table') \ Standard : \E p \in Live' : fd \in {fds[p].in, fds[p].out}
    BY <1>11, <2>1, <2>3 DEF InUse
  <2> QED
    BY <1>0, <1>3, <1>4, <1>5, <1>6, <1>7, <1>8, <1>9, <1>10, <2>1, <2>2, <2>3, <2>4,
       NothingNewBase
<1> QED
  BY <1>12, <1>13

-----------------------------------------------------------------------------
(* run                                                                      *)

(* What holds of a descriptor a live object names.                          *)
LEMMA NamedDescriptor ==
  ASSUME Base, ~undercut, NEW o \in Argument, Opened(o)
  PROVE  /\ Keeps /\ o \in Live
         /\ fds[o].in \in Fd /\ fds[o].out \in Fd
         /\ fds[o].in \notin {1, 2} /\ fds[o].out # 0
         /\ Is(table[fds[o].in], Means(o, "read")) /\ table[fds[o].in].end # "none"
         /\ Is(table[fds[o].out], Means(o, "write")) /\ table[fds[o].out].end # "none"
<1>1. TypeOK /\ Ground /\ Keeps /\ o \in Live
  BY KeepsAgain DEF Base, Live
<1>2. fds[o].in \in Fd /\ fds[o].out \in Fd
  BY <1>1 DEF TypeOK, Pair
<1>3. fds[o].in \notin {1, 2} /\ fds[o].out # 0
  <2>1. CASE o \in Object
    BY <1>1, <2>1 DEF Ground, Standard
  <2>2. CASE o \notin Object
    BY <1>1, <2>2, ArgumentTypes DEF Ground
  <2> QED
    BY <2>1, <2>2
<1>4. Is(table[fds[o].in], Means(o, "read")) /\ Is(table[fds[o].out], Means(o, "write"))
  BY <1>1 DEF Keeps
<1>5. Means(o, "read").end # "none" /\ Means(o, "write").end # "none"
  BY <1>1, MeansTypes
<1> QED
  BY <1>1, <1>2, <1>3, <1>4, <1>5 DEF Is

LEMMA RunBase ==
  ASSUME Base, NEW i \in Argument, NEW o \in Argument, Run(i, o), child'.table \in Table
  PROVE  Base'
<1>0. TypeOK /\ Ground /\ KeepsItsFile /\ NoDescriptorLost
      /\ UNCHANGED <<table, fds, refs, handler, target, undercut>>
  BY DEF Base, Run
<1>1. \A p \in Argument : Opened(p)' <=> Opened(p)
  BY <1>0 DEF Opened
<1>2. Live' = Live
  BY <1>1 DEF Live
<1>3. TypeOK' /\ Ground'
  BY <1>0, <1>1, ArgumentTypes DEF TypeOK, Ground
<1>4. KeepsItsFile'
  BY <1>0, <1>2 DEF KeepsItsFile, Means
<1>5. NoDescriptorLost'
  BY <1>0, <1>2 DEF NoDescriptorLost, InUse
<1> QED
  BY <1>3, <1>4, <1>5 DEF Base
LEMMA RunStep ==
  ASSUME Base, NEW i \in Argument, NEW o \in Argument, Run(i, o)
  PROVE  child'.table \in Table /\ RunConnects'
<1>1. PICK s : s = ChildTable(table, fds[i].in, fds[o].out)
  OBVIOUS
<1>2. /\ TypeOK /\ Ground /\ Opened(i) /\ Opened(o)
      /\ UNCHANGED <<table, fds, refs, handler, target, undercut>>
      /\ child'.ran = s.ok /\ child'.table = Execed(s.table)
      /\ child'.in = Means(i, "read") /\ child'.out = Means(o, "write")
      /\ child'.err = IF handler = 1 THEN Means(o, "write") ELSE target
      /\ child'.clash = Clash(fds[i].in, fds[o].out)
  BY <1>1, Zenon DEF Base, Run
<1>3. /\ s = Redirected(table, fds[i].in, fds[o].out, handler)
      /\ table \in Table /\ handler \in Fd /\ handler # 0
      /\ fds[i].in \in Fd /\ fds[o].out \in Fd
  BY <1>1, <1>2 DEF ChildTable, TypeOK, Ground, Pair
<1>4. child'.table \in Table
  BY <1>2, <1>3, RedirectedType, ExecedTable
<1>5. ASSUME ~undercut
      PROVE  IF child'.ran THEN /\ Open(child'.table) = Standard
                                /\ Is(child'.table[0], child'.in)
                                /\ Is(child'.table[1], child'.out)
                                /\ Is(child'.table[2], child'.err)
             ELSE child'.clash
  <2>1. /\ Keeps
        /\ fds[i].in \notin {1, 2} /\ fds[o].out # 0
        /\ Is(table[fds[i].in], Means(i, "read")) /\ table[fds[i].in].end # "none"
        /\ Is(table[fds[o].out], Means(o, "write")) /\ table[fds[o].out].end # "none"
    BY <1>2, <1>5, NamedDescriptor
  <2>2. Is(table[handler], target) /\ table[handler].end # "none"
    BY <1>2, <2>1 DEF Keeps, Ground, Is
  <2>3. /\ \A fd \in Standard : table[fd] = Tty
        /\ \A fd \in Fd \ Standard : table[fd] # Closed => table[fd].cloexec = TRUE
    BY <1>2 DEF Ground
  <2>4. \/ s = Failed /\ Twice(fds[i].in, fds[o].out, handler)
        \/ s.ok /\ Carries(Execed(s.table), table, fds[i].in, fds[o].out, handler)
    BY <1>3, <2>1, <2>2, <2>3, RedirectedTable
  <2>5. CASE s = Failed /\ Clash(fds[i].in, fds[o].out)
    <3>1. ~s.ok
      BY <2>5 DEF Failed
    <3> QED
      BY <1>2, <2>5, <3>1, Zenon
  <2>6. CASE /\ s.ok /\ Open(Execed(s.table)) = Standard
             /\ Is(Execed(s.table)[0], Means(i, "read"))
             /\ Is(Execed(s.table)[1], Means(o, "write"))
             /\ Is(Execed(s.table)[2], IF handler = 1 THEN Means(o, "write") ELSE target)
    BY <1>2, <2>6, Zenon
  <2> QED
    BY <2>1, <2>2, <2>4, <2>5, <2>6 DEF Clash, Is, Twice, Carries
<1>6. RunConnects'
  BY <1>2, <1>5, Zenon DEF RunConnects
<1> QED
  BY <1>4, <1>6

-----------------------------------------------------------------------------
(* Theorems                                                                 *)

LEMMA NextInv == Inv /\ [Next]_vars => Inv'
<1> SUFFICES ASSUME Inv, [Next]_vars PROVE Inv'
  OBVIOUS
<1>0. Base /\ RunConnects
  BY DEF Inv
<1>1. ASSUME child' = NoChild PROVE RunConnects'
  <2>1. child'.asked = FALSE
    BY <1>1 DEF NoChild
  <2> QED
    BY <2>1, Zenon DEF RunConnects
<1>2. CASE OpenFile
  BY <1>0, <1>1, <1>2, OpenFileBase DEF Inv, OpenFile, NewObject
<1>3. CASE OpenString
  BY <1>0, <1>1, <1>3, OpenStringBase DEF Inv, OpenString, NewObject
<1>4. ASSUME NEW o \in Object, Copy(o) PROVE Inv'
  BY <1>0, <1>1, <1>4, CopyBase DEF Inv, Copy
<1>5. ASSUME NEW o \in Object, Drop(o) PROVE Inv'
  BY <1>0, <1>1, <1>5, DropBase DEF Inv, Drop
<1>6. ASSUME NEW o \in Argument, NEW pop \in BOOLEAN, StderrHandler(o, pop) PROVE Inv'
  BY <1>0, <1>1, <1>6, StderrHandlerBase DEF Inv, StderrHandler
<1>7. ASSUME NEW i \in Argument, NEW o \in Argument, Run(i, o) PROVE Inv'
  BY <1>0, <1>7, RunStep, RunBase DEF Inv
<1>8. CASE UNCHANGED vars
  <2>1. TypeOK' /\ Ground'
    BY <1>0, <1>8 DEF Base, TypeOK, Ground, Opened, vars
  <2>2. KeepsItsFile' /\ NoDescriptorLost'
    BY <1>0, <1>8 DEF Base, KeepsItsFile, NoDescriptorLost, InUse, Live, Opened, Means, vars
  <2>3. RunConnects'
    BY <1>0, <1>8 DEF RunConnects, vars
  <2> QED
    BY <2>1, <2>2, <2>3 DEF Inv, Base
<1> QED
  BY <1>2, <1>3, <1>4, <1>5, <1>6, <1>7, <1>8 DEF Next

LEMMA Invariance == Spec => []Inv
<1>1. Init => Inv
  <2>1. Init => child.asked = FALSE
    BY DEF Init, NoChild
  <2> QED
    BY <2>1, InitBase DEF Inv, RunConnects
<1> QED
  BY <1>1, NextInv, PTL DEF Spec

(* The descriptor table, the file objects and the handler keep their types. *)
THEOREM TypeCorrect == Spec => []TypeOK
<1>1. Inv => TypeOK
  BY DEF Inv, Base
<1> QED
  BY <1>1, Invariance, PTL

(* An object names the file it was opened for as long as it has an owner,   *)
(* and the handler survives the objects that named it, unless               *)
(* stderr-handler replaced a descriptor still in use.                       *)
THEOREM FilesKept == Spec => []KeepsItsFile
<1>1. Inv => KeepsItsFile
  BY DEF Inv, Base
<1> QED
  BY <1>1, Invariance, PTL

(* No descriptor outlives the objects that named it and the handler.        *)
THEOREM NothingLost == Spec => []NoDescriptorLost
<1>1. Inv => NoDescriptorLost
  BY DEF Inv, Base
<1> QED
  BY <1>1, Invariance, PTL

(* A child that runs has the three files it was given and no more; one that *)
(* does not was given a descriptor twice.                                   *)
THEOREM ChildrenConnected == Spec => []RunConnects
<1>1. Inv => RunConnects
  BY DEF Inv
<1> QED
  BY <1>1, Invariance, PTL
=============================================================================
