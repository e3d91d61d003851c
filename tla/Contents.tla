------------------------------ MODULE Contents ------------------------------
(***************************************************************************)
(* Reading and writing file objects: file-open of a string, file-read,     *)
(* file-read-block and file-write (builtins.c), with file_read and         *)
(* file_write (esh.c).  They change the flags of file descriptions, which  *)
(* processes share: a script that is run by a shell has the shell's        *)
(* standard files for its own, and changes the same flags.                 *)
(*                                                                         *)
(* A step is one system call of one shell; other programs read and write   *)
(* the files meanwhile.  Characters are counted, not told apart.  A        *)
(* regular file is a queue that others empty or fill in time; which        *)
(* descriptors an object has is the matter of module Files.                *)
(*                                                                         *)
(* As in JobControl, Bug... is a fault for the mutants of PROJECT.json.    *)
(***************************************************************************)
EXTENDS Naturals

CONSTANTS Shell,   \* the processes that run esh
          Owner,   \* the one of them that opens strings
          Room,    \* how many characters a pipe takes
          MaxText  \* bound on the length of what is written at once

ASSUME ContentsAssumption ==
  Owner \in Shell /\ Room \in Nat \ {0} /\ MaxText \in Nat

Object == {"stdio", "string"}
Desc   == {"stdin", "stdout", "read", "write"}
Queue  == {"input", "output", "string"}
Flag   == {"nonblock", "append"}

VARIABLES flags,   \* the flags of the file descriptions
          one,     \* standard input and output are one file description
          queue,   \* how many characters wait in each queue
          ended,   \* nobody writes to the standard input any more
          opened,  \* the string object is there
          call,    \* the built-in each shell runs
          first,   \* history: the flags at the start
          crossed  \* history: two shells were changing the same flags

vars == <<flags, one, queue, ended, opened, call, first, crossed>>

(* pc: flag before O_NONBLOCK is set, copy while characters are copied,     *)
(* back before the flags are restored.                                      *)
Op   == {"none", "file-open", "file-read", "file-read-block", "file-write"}
Call == [op : Op, pc : {"flag", "copy", "back"}, obj : Object, saved : SUBSET Flag,
         size : 0 .. MaxText, left : 0 .. MaxText]
Idle == [op |-> "none", pc |-> "copy", obj |-> "stdio", saved |-> {}, size |-> 0, left |-> 0]

(* The two file descriptions of an object, and where its characters go to   *)
(* and come from.                                                           *)
In(o)   == IF o = "string" THEN "read" ELSE "stdin"
Out(o)  == IF o = "string" THEN "write" ELSE IF one THEN "stdin" ELSE "stdout"
From(o) == IF o = "string" THEN "string" ELSE "input"
To(o)   == IF o = "string" THEN "string" ELSE "output"

Init ==
  /\ one \in BOOLEAN
  /\ flags \in [Desc -> SUBSET Flag]
  /\ flags["read"] = {} /\ flags["write"] = {} /\ (one => flags["stdout"] = {})
  /\ first = flags
  /\ queue = [q \in Queue |-> 0]
  /\ ended = FALSE /\ opened = FALSE /\ crossed = FALSE
  /\ call = [s \in Shell |-> Idle]

-----------------------------------------------------------------------------
(* The built-ins                                                            *)

Owns(s, o)    == o = "stdio" \/ (s = Owner /\ opened)
InWindow(s)   == call[s].op \in {"file-read", "file-write"}
Reads(s)      == call[s].op \in {"file-read", "file-read-block"}
Set(s, c)     == call' = [call EXCEPT ![s] = c]
Files         == UNCHANGED <<one, ended, first>>

(* file-read, file-write: flags = fcntl(fd[0], F_GETFL).                    *)
GetFlags(s, op, o, n) ==
  /\ call[s] = Idle /\ Owns(s, o)
  /\ op \in {"file-read", "file-write"} /\ (op = "file-read" => n = 0)
  /\ Set(s, [op |-> op, pc |-> "flag", obj |-> o, saved |-> flags[In(o)],
             size |-> n, left |-> n])
  /\ crossed' = (crossed \/ \E t \in Shell : InWindow(t) /\ call[t].obj = o)
  /\ UNCHANGED <<flags, queue, opened>> /\ Files

(* The description whose flags are set, to those of fd[0] in any case.      *)
Changed(c) == IF c.op = "file-read" THEN In(c.obj) ELSE Out(c.obj)

BugNonblock(c) == c.saved
Nonblock(c)    == c.saved \cup {"nonblock"}
SetFlags(s) ==
  /\ InWindow(s) /\ call[s].pc = "flag"
  /\ flags' = [flags EXCEPT ![Changed(call[s])] = Nonblock(call[s])]
  /\ Set(s, [call[s] EXCEPT !.pc = "copy"])
  /\ UNCHANGED <<queue, opened, crossed>> /\ Files

BugRestored(c) == In(c.obj)
Restored(c)    == Changed(c)
Restore(s) ==
  /\ call[s].pc = "back"
  /\ flags' = [flags EXCEPT ![Restored(call[s])] = call[s].saved]
  /\ Set(s, Idle)
  /\ UNCHANGED <<queue, opened, crossed>> /\ Files

ReadBlock(s, o) ==
  /\ call[s] = Idle /\ Owns(s, o)
  /\ Set(s, [Idle EXCEPT !.op = "file-read-block", !.obj = o])
  /\ UNCHANGED <<flags, queue, opened, crossed>> /\ Files

(* A new pipe, which nobody else has yet.                                   *)
OpenString(n) ==
  /\ call[Owner] = Idle /\ opened' = FALSE
  /\ flags' = [flags EXCEPT !["read"] = {}, !["write"] = {}]
  /\ queue' = [queue EXCEPT !["string"] = 0]
  /\ Set(Owner, [op |-> "file-open", pc |-> "copy", obj |-> "string", saved |-> {},
                 size |-> n, left |-> n])
  /\ UNCHANGED crossed /\ Files

(* file_read and file_write: one character, or the end, or what read and    *)
(* write return where they would otherwise wait.                            *)
BugFull(q) == queue[q] > Room
Full(q)    == queue[q] >= Room
Copying(s) == call[s].op # "none" /\ call[s].pc = "copy"

ReadOne(s) ==
  /\ Copying(s) /\ Reads(s)
  /\ LET q == From(call[s].obj)
     IN queue[q] > 0 /\ queue' = [queue EXCEPT ![q] = @ - 1]
  /\ UNCHANGED <<flags, opened, call, crossed>> /\ Files

WriteOne(s) ==
  /\ Copying(s) /\ ~Reads(s) /\ call[s].left > 0
  /\ LET q == To(call[s].obj)
     IN ~Full(q) /\ queue' = [queue EXCEPT ![q] = @ + 1]
  /\ Set(s, [call[s] EXCEPT !.left = @ - 1])
  /\ UNCHANGED <<flags, opened, crossed>> /\ Files

(* The shell has both ends of a string's pipe, which therefore never ends.  *)
AtEnd(c)   == c.obj = "stdio" /\ ended
Nothing(c) == queue[From(c.obj)] = 0
Waits(s) ==
  /\ Copying(s)
  /\ LET c == call[s] IN
     IF Reads(s) THEN Nothing(c) /\ ~AtEnd(c) /\ "nonblock" \notin flags[In(c.obj)]
     ELSE c.left > 0 /\ Full(To(c.obj)) /\ "nonblock" \notin flags[Out(c.obj)]

(* What is left of a text for which there is no room is dropped.            *)
CopyEnd(s) ==
  /\ Copying(s) /\ ~Waits(s)
  /\ LET c == call[s] IN
     /\ IF Reads(s) THEN Nothing(c) ELSE c.left = 0 \/ Full(To(c.obj))
     /\ Set(s, IF InWindow(s) THEN [c EXCEPT !.pc = "back"] ELSE Idle)
     /\ opened' = (opened \/ c.op = "file-open")
  /\ UNCHANGED <<flags, queue, crossed>> /\ Files

-----------------------------------------------------------------------------
(* Other programs: a writer of the standard input, a reader of the standard *)
(* output, and children that were run with the string object.               *)
Programs ==
  /\ \/ ended' = TRUE /\ UNCHANGED queue
     \/ UNCHANGED ended /\ \E q \in Queue :
          /\ q = "string" => opened
          /\ \/ (q = "input" => ~ended) /\ q # "output" /\ queue[q] < Room
                  /\ queue' = [queue EXCEPT ![q] = @ + 1]
             \/ q # "input" /\ queue[q] > 0 /\ queue' = [queue EXCEPT ![q] = @ - 1]
  /\ UNCHANGED <<flags, one, opened, call, first, crossed>>

Next ==
  \/ Programs
  \/ \E n \in 0 .. MaxText : OpenString(n)
  \/ \E s \in Shell :
       \/ \E op \in Op, o \in Object, n \in 0 .. MaxText : GetFlags(s, op, o, n)
       \/ \E o \in Object : ReadBlock(s, o)
       \/ SetFlags(s) \/ ReadOne(s) \/ WriteOne(s) \/ CopyEnd(s) \/ Restore(s)

Spec == Init /\ [][Next]_vars

-----------------------------------------------------------------------------
(* Properties                                                               *)

(* The variables keep their types.                                          *)
TypeOK ==
  /\ flags \in [Desc -> SUBSET Flag] /\ one \in BOOLEAN
  /\ queue \in [Queue -> 0 .. Room]
  /\ ended \in BOOLEAN /\ opened \in BOOLEAN /\ crossed \in BOOLEAN
  /\ call \in [Shell -> Call]

(* A shell waits in the middle of a built-in, where C-c does not reach it,  *)
(* only in file-read-block and in file-open of a text its pipe has no room  *)
(* for: file-read and file-write return at once, as long as no other shell  *)
(* restores the flags of the same description meanwhile.                    *)
OnlyWaitsToBlock ==
  \A s \in Shell : Waits(s) =>
    \/ call[s].op = "file-read-block"
    \/ call[s].op = "file-open" /\ call[s].size > Room
    \/ crossed

(* file-read, file-write: afterwards the standard files have the flags they *)
(* had, those of the output possibly replaced by those of the input, from   *)
(* which file-write takes them; so the next read of the prompt, of a script *)
(* or of a child waits for its input instead of failing.                    *)
FlagsComeBack ==
  ~crossed /\ (\A s \in Shell : ~InWindow(s)) =>
    /\ flags["read"] = {} /\ flags["write"] = {}
    /\ flags["stdin"] = first["stdin"]
    /\ flags["stdout"] \in {first["stdout"], first["stdin"]}
=============================================================================
