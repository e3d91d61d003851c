------------------------------- MODULE Files -------------------------------
(***************************************************************************)
(* File objects of esh: the pairs of descriptors that file-open makes,     *)
(* that lists share by counting references, that the last reference closes *)
(* (ls_free_all), that run hands to children and that stderr-handler makes *)
(* the standard error of all of them.                                      *)
(*                                                                         *)
(* Every built-in runs to its end before the next, so an action is a whole *)
(* built-in together with the release of its arguments.  A child is only   *)
(* seen up to exec: the table it runs with, or that it did not run.        *)
(*                                                                         *)
(* As in JobControl, Bug... is a fault for the mutants of PROJECT.json.    *)
(***************************************************************************)
EXTENDS Descriptors

CONSTANTS MaxObject,  \* bound on the file objects opened
          MaxRefs     \* bound on the references to one

ASSUME FilesAssumption ==
  /\ MaxObject \in Nat \ {0} /\ MaxObject <= MaxFile
  /\ MaxRefs \in Nat \ {0}

Object   == 1 .. MaxObject
Stdio    == 0              \* ls_stdio and ls_stderr, which are never freed
Stderr   == -1
Argument == Object \cup {Stdio, Stderr}

VARIABLES table,    \* the descriptors of the shell
          fds,      \* fds[o]: the pair of descriptors of object o
          refs,     \* refs[o]: its reference count
          handler,  \* stderr_handler_fd
          target,   \* history: the file the last stderr-handler was given
          undercut, \* history: stderr-handler closed a descriptor in use
          child     \* history: the last child run

vars == <<table, fds, refs, handler, target, undercut, child>>

Pair   == [in : Fd, out : Fd]
NoPair == [in |-> 0, out |-> 0]
BugFreedTwice(o) == refs[o] >= 0
Opened(o)  == refs[o] > 0
Live       == {o \in Argument : Opened(o)}
Fresh      == {o \in Object : refs[o] = 0 /\ fds[o] = NoPair}
NextObject == CHOOSE o \in Fresh : \A p \in Fresh : o <= p

(* What object o is the file of: file o, the terminal for the standard ones. *)
Means(o, ends) ==
  [end |-> IF o \notin Object THEN "tty"
           ELSE IF fds[o].in = fds[o].out THEN "file" ELSE ends,
   of  |-> IF o \in Object THEN o ELSE 0]
Is(entry, what) == entry.end = what.end /\ entry.of = what.of
TtyTarget == [end |-> "tty", of |-> 0]

NoChild == [asked |-> FALSE, ran |-> FALSE, table |-> NoTable,
            in |-> TtyTarget, out |-> TtyTarget, err |-> TtyTarget,
            clash |-> FALSE]

Init ==
  /\ table = InitialTable
  /\ fds   = [o \in Argument |->
                IF o = Stdio THEN [in |-> 0, out |-> 1]
                ELSE IF o = Stderr THEN [in |-> 0, out |-> 2] ELSE NoPair]
  /\ refs  = [o \in Argument |-> IF o \in Object THEN 0 ELSE 1]
  /\ handler  = 2
  /\ target   = TtyTarget
  /\ undercut = FALSE
  /\ child    = NoChild

-----------------------------------------------------------------------------
(* file-open: one descriptor for a regular file, two for a string.  When    *)
(* there is none left it returns an empty list.                             *)

NewObject(o, t, pair) ==
  /\ table' = t
  /\ fds'   = [fds EXCEPT ![o] = pair]
  /\ refs'  = [refs EXCEPT ![o] = 1]
  /\ child' = NoChild
  /\ UNCHANGED <<handler, target, undercut>>

OpenFile ==
  LET fd == Lowest(table) IN
  /\ Fresh # {} /\ Free(table) # {}
  /\ NewObject(NextObject, Install(table, "file", NextObject, TRUE),
               [in |-> fd, out |-> fd])

OpenString ==
  LET in  == Lowest(table)
      out == Lowest(Install(table, "read", NextObject, TRUE))
  IN /\ Fresh # {} /\ Cardinality(Free(table)) >= 2
     /\ NewObject(NextObject, NewPipe(table, NextObject, TRUE),
                  [in |-> in, out |-> out])

-----------------------------------------------------------------------------
(* References                                                               *)

Copy(o) ==
  /\ Opened(o) /\ refs[o] < MaxRefs
  /\ refs' = [refs EXCEPT ![o] = @ + 1]
  /\ child' = NoChild
  /\ UNCHANGED <<table, fds, handler, target, undercut>>

(* The table once the last reference to o is gone, err being the handler's  *)
(* descriptor at that time.                                                 *)
BugKeepsOut(t, pair, err) ==
  IF pair.in \notin {0, err} THEN Close(t, pair.in) ELSE t
Released(t, pair, err) ==
  LET s == IF pair.in \notin {0, err} THEN Close(t, pair.in) ELSE t
  IN IF pair.out \notin {1, 2, pair.in, err} THEN Close(s, pair.out) ELSE s

(* The last reference, or one of several.                                   *)
BugAnyReference(t, o, err) == Released(t, fds[o], err)
Freed(t, o, err) == IF refs[o] = 1 THEN Released(t, fds[o], err) ELSE t

Drop(o) ==
  /\ o \in Object /\ Opened(o)
  /\ table' = Freed(table, o, handler)
  /\ refs'  = [refs EXCEPT ![o] = @ - 1]
  /\ child' = NoChild
  /\ UNCHANGED <<fds, handler, target, undercut>>

-----------------------------------------------------------------------------
(* stderr-handler                                                           *)

InUse(fd) == \E o \in Live : fd \in {fds[o].in, fds[o].out}

ClosedHandler(t) == IF handler \in {1, 2} THEN t ELSE Close(t, handler)

(* pop: the argument was the last user of its reference, which goes away    *)
(* after the call.                                                          *)
StderrHandler(o, pop) ==
  /\ Opened(o) /\ (pop => o \in Object)
  /\ handler'  = fds[o].out
  /\ target'   = Means(o, "write")
  /\ undercut' = (undercut \/ (handler \notin {1, 2} /\ InUse(handler)))
  /\ LET t == ClosedHandler(table)
     IN table' = IF pop THEN Freed(t, o, fds[o].out) ELSE t
  /\ refs' = IF pop THEN [refs EXCEPT ![o] = @ - 1] ELSE refs
  /\ child' = NoChild
  /\ UNCHANGED fds

-----------------------------------------------------------------------------
(* run with in and out as its files: do_pipe forks, exec_aux redirects.  A  *)
(* handler that is the standard output is the child's own by then.          *)

BugErrFirst(t, in, out) ==
  Dup2Aux(Dup2Aux(Dup2Aux([ok |-> TRUE, table |-> t], handler, 2), in, 0), out, 1)
ChildTable(t, in, out) == Redirected(t, in, out, handler)

(* Two of the three descriptors a child redirects are one, and not the      *)
(* terminal's: dup2_aux closes it after the first use.                      *)
Clash(in, out) ==
  \E fd \in Fd \ Standard : \/ fd = in /\ fd \in {out, handler}
                            \/ fd = out /\ fd = handler

Run(i, o) ==
  LET s == ChildTable(table, fds[i].in, fds[o].out) IN
  /\ Opened(i) /\ Opened(o)
  /\ child' = [asked |-> TRUE, ran |-> s.ok, table |-> Execed(s.table),
               in |-> Means(i, "read"), out |-> Means(o, "write"),
               err |-> IF handler = 1 THEN Means(o, "write") ELSE target,
               clash |-> Clash(fds[i].in, fds[o].out)]
  /\ UNCHANGED <<table, fds, refs, handler, target, undercut>>

Next ==
  \/ OpenFile \/ OpenString
  \/ \E o \in Object : Copy(o) \/ Drop(o)
  \/ \E o \in Argument, pop \in BOOLEAN : StderrHandler(o, pop)
  \/ \E i, o \in Argument : Run(i, o)

Spec == Init /\ [][Next]_vars

-----------------------------------------------------------------------------
(* Properties                                                               *)

(* The variables keep their types.                                          *)
TypeOK ==
  /\ table \in Table
  /\ fds \in [Argument -> Pair]
  /\ refs \in [Argument -> 0 .. MaxRefs]
  /\ handler \in Fd
  /\ undercut \in BOOLEAN
  /\ child.table \in Table

(* A file object names the file it was opened for as long as it has an      *)
(* owner, whatever other objects are dropped and whatever handlers are set, *)
(* unless stderr-handler replaced a handler some object still names; and    *)
(* the descriptor of the handler survives the objects that named it.        *)
KeepsItsFile ==
  ~undercut =>
    /\ \A o \in Live : /\ Is(table[fds[o].in],  Means(o, "read"))
                       /\ Is(table[fds[o].out], Means(o, "write"))
    /\ Is(table[handler], target)

(* No descriptor outlives its owners: each is the terminal's, an object's   *)
(* or the handler's.                                                        *)
NoDescriptorLost ==
  \A fd \in Open(table) \ Standard : fd = handler \/ InUse(fd)

(* A child runs with the files it was given and no other; it fails to run   *)
(* only when two of them are one descriptor.                                *)
RunConnects ==
  child.asked /\ ~undercut =>
    IF child.ran THEN /\ Open(child.table) = Standard
                      /\ Is(child.table[0], child.in)
                      /\ Is(child.table[1], child.out)
                      /\ Is(child.table[2], child.err)
    ELSE child.clash
==============================================================================
