------------------------------ MODULE Pipeline ------------------------------
(***************************************************************************)
(* The plumbing of esh: who holds which end of which pipe while do_pipe    *)
(* forks the stages of a pipeline, each stage redirects itself in exec_aux *)
(* and runs, and the shell waits for the last of them or, in gobble, reads *)
(* its output.                                                             *)
(*                                                                         *)
(* Process 0 is the shell; the children are numbered in the order of their *)
(* forks.  A child's redirections and its exec are one step: its table is  *)
(* its own, and nobody sees the order in which it changes.  Programs copy: *)
(* they read an item, write one, end at the end of their input, or just    *)
(* end.  Process groups, stops and the handler are in JobControl; all that *)
(* is left of them here is that a hang-up kills a job whose last stage     *)
(* ended.                                                                  *)
(*                                                                         *)
(* As in JobControl, Bug... is a fault for the mutants of PROJECT.json.    *)
(***************************************************************************)
EXTENDS Descriptors

CONSTANTS MaxChild,  \* bound on the children forked
          MaxStages, \* bound on the stages of a pipeline
          Capacity,  \* items a pipe can hold
          Redirections \* how files are given to parse_pipe

ASSUME PipelineAssumption ==
  /\ MaxChild \in Nat \ {0} /\ MaxStages \in Nat \ {0}
  /\ Capacity \in Nat \ {0}
  /\ Redirections \subseteq {"none", "file", "bad"}

Shell == 0
Child == 1 .. MaxChild
Proc  == {Shell} \cup Child
Pipe  == 1 .. MaxFile

VARIABLES interactive,
          table,    \* table[p]: the descriptors of process p
          data,     \* data[n]: items in pipe n
          stage,    \* stage[c]: what do_pipe and exec_aux told child c
          state,    \* state[c]: how far child c is
          last,     \* last[j]: last stage of the job whose first stage is j
          forked,   \* children forked so far
          made,     \* pipes made so far
          pc,       \* where the shell is
          call,     \* the variables of do_pipe and of its caller
          leaked    \* history: descriptors nobody will close

shellState == <<interactive, forked, made, pc, call, leaked>>
vars == <<table, data, stage, state, last, shellState>>

(* left: stages to fork; input: input_src; rd: pipes[0]; sink: output_sink; *)
(* src, out: f_src, f_out; pfd: what gobble reads; own: the pipe the stage  *)
(* forked last writes to; first: the first child.                           *)
Descriptor == Fd \cup {Invalid}
Call   == [goal : {"none", "parse", "run", "gobble"},
           left : 0 .. MaxStages, bg : BOOLEAN, destructive : BOOLEAN,
           input : Descriptor, rd : Descriptor, sink : Descriptor,
           src : Descriptor, out : Descriptor, pfd : Descriptor,
           own : {0} \cup Pipe, first : Proc]
NoCall == [goal |-> "none", left |-> 0, bg |-> FALSE, destructive |-> FALSE,
           input |-> Invalid, rd |-> Invalid, sink |-> Invalid,
           src |-> Invalid, out |-> Invalid, pfd |-> Invalid,
           own |-> 0, first |-> 0]

(* in, out: the arguments of exec_aux; from, to: the pipes the stage is     *)
(* meant to read and write, 0 if none; job: the first stage of its job.     *)
Stage   == [in : Descriptor, out : Descriptor, from : {0} \cup Pipe,
            to : {0} \cup Pipe, job : Proc]
NoStage == [in |-> Invalid, out |-> Invalid, from |-> 0, to |-> 0, job |-> 0]

(* "read": about to read; "write": has an item to write; "end": saw the end *)
(* of its input.                                                            *)
Programs == {"read", "write", "end"}
State   == {"free", "forked", "ended"} \cup Programs

Init ==
  /\ interactive \in BOOLEAN
  /\ table  = [p \in Proc |-> IF p = Shell THEN InitialTable ELSE NoTable]
  /\ data   = [n \in Pipe |-> 0]
  /\ stage  = [c \in Child |-> NoStage]
  /\ state  = [c \in Child |-> "free"]
  /\ last   = [c \in Child |-> 0]
  /\ forked = 0 /\ made = 0
  /\ pc = "eval" /\ call = NoCall /\ leaked = {}

Members(j) == {c \in Child : stage[c].job = j}
Ended(c)   == state[c] = "ended"
SetShell(t) == table' = [table EXCEPT ![Shell] = t]
children   == <<stage, state, last>>

-----------------------------------------------------------------------------
(* The callers of do_pipe                                                   *)

Start(goal, n, bg, destructive, src, out, pfd) ==
  /\ pc = "eval" /\ pc' = "stage"
  /\ call' = [NoCall EXCEPT !.goal = goal, !.left = n, !.bg = bg,
                !.destructive = destructive, !.input = src, !.src = src,
                !.out = out, !.pfd = pfd]
  /\ UNCHANGED <<interactive, data, children, forked, leaked>>

(* open_read_aux and open_write_aux; a failure is reported and passed on.   *)
OpenAux(t, redirection, standard) ==
  IF redirection = "none" THEN [table |-> t, fd |-> standard]
  ELSE IF redirection = "bad" \/ Free(t) = {} THEN [table |-> t, fd |-> Invalid]
  ELSE [table |-> Install(t, "file", 0, TRUE), fd |-> Lowest(t)]

ParsePipe(n, f_in, f_out) ==
  LET in  == OpenAux(table[Shell], f_in, 0)
      out == OpenAux(in.table, f_out, 1)
  IN /\ interactive
     /\ SetShell(out.table)
     /\ Start("parse", n, FALSE, FALSE, in.fd, out.fd, Invalid)
     /\ UNCHANGED made

(* run, run-simple with the standard files.                                 *)
Run(n, bg) ==
  /\ Start("run", n, bg, FALSE, 0, 1, Invalid)
  /\ UNCHANGED <<table, made>>

BugInheritedPipe(t, n) == NewPipe(t, n, FALSE)
GobblePipe(t, n) == NewPipe(t, n, TRUE)

Gobble(n) ==
  LET t == GobblePipe(table[Shell], made + 1)
      r == Lowest(table[Shell])
      w == Lowest(Install(table[Shell], "read", made + 1, TRUE))
  IN /\ Cardinality(Free(table[Shell])) >= 2
     /\ made < MaxFile
     /\ made' = made + 1
     /\ SetShell(t)
     /\ Start("gobble", n, TRUE, TRUE, 0, w, r)

-----------------------------------------------------------------------------
(* do_pipe                                                                  *)

(* pipe_aux ends the shell when there is no descriptor left.                *)
PipeFails ==
  /\ pc = "stage" /\ call.left > 1
  /\ Cardinality(Free(table[Shell])) < 2
  /\ SetShell(NoTable)
  /\ pc' = "exited"
  /\ UNCHANGED <<interactive, data, children, forked, made, call, leaked>>

(* Fork a stage; it inherits every descriptor the shell has open, its own   *)
(* pipe's read end included.                                                *)
ForkStage(c, t, sink, to) ==
  /\ c = forked + 1 /\ forked' = c
  /\ table' = [table EXCEPT ![Shell] = t, ![c] = t]
  /\ state' = [state EXCEPT ![c] = "forked"]
  /\ stage' = [stage EXCEPT ![c] =
       [in |-> call.input, out |-> sink, from |-> call.own, to |-> to,
        job |-> IF call.first = 0 THEN c ELSE call.first]]
  /\ pc' = "close"
  /\ UNCHANGED <<interactive, data, last, leaked>>

ForkPiped(c) ==
  LET t == NewPipe(table[Shell], made + 1, FALSE)
      r == Lowest(table[Shell])
      w == Lowest(Install(table[Shell], "read", made + 1, FALSE))
  IN /\ pc = "stage" /\ call.left > 1
     /\ Cardinality(Free(table[Shell])) >= 2
     /\ made' = made + 1
     /\ ForkStage(c, t, w, made + 1)
     /\ call' = [call EXCEPT !.rd = r, !.sink = w, !.own = made + 1,
                   !.first = IF @ = 0 THEN c ELSE @]

ForkLast(c) ==
  /\ pc = "stage" /\ call.left = 1
  /\ ForkStage(c, table[Shell], call.out,
               IF call.out \in Fd THEN table[Shell][call.out].of ELSE 0)
  /\ call' = [call EXCEPT !.sink = call.out,
                !.first = IF @ = 0 THEN c ELSE @]
  /\ UNCHANGED made

(* The shell's copies, after each fork.                                     *)
BugKeepsSink(t) ==
  IF call.input # call.src THEN CloseAux(t, call.input) ELSE t
ClosedEnds(t) ==
  LET s == IF call.input # call.src THEN CloseAux(t, call.input) ELSE t
  IN IF call.sink # call.out \/ call.destructive
     THEN CloseAux(s, call.sink) ELSE s

CloseEnds ==
  /\ pc = "close"
  /\ SetShell(ClosedEnds(table[Shell]))
  /\ IF call.left > 1
     THEN /\ pc' = "stage"
          /\ call' = [call EXCEPT !.left = @ - 1, !.input = call.rd]
          /\ UNCHANGED last
     ELSE /\ pc' = IF ~call.bg THEN "wait"
                   ELSE IF call.goal = "gobble" THEN "gobble" ELSE "return"
          /\ call' = [call EXCEPT !.left = 0]
          /\ last' = [last EXCEPT ![call.first] = forked]
  /\ UNCHANGED <<interactive, data, stage, state, forked, made, leaked>>

(* goto done: the end of the pipe the next stage would have read, and both  *)
(* ends of gobble's, stay open.                                             *)
NullCommand ==
  /\ pc = "stage"
  /\ pc' = "return"
  /\ leaked' = leaked
       \cup (IF call.first # 0 THEN {call.input} ELSE {})
       \cup (IF call.goal = "gobble" THEN {call.pfd, call.out} ELSE {})
  /\ UNCHANGED <<interactive, table, data, children, forked, made, call>>

(* job_wait: at a terminal the rest of the group is hung up and waited for. *)
Wait ==
  /\ pc = "wait"
  /\ Ended(last[call.first])
  /\ interactive => \A c \in Members(call.first) : Ended(c)
  /\ pc' = "return"
  /\ UNCHANGED <<interactive, table, data, children, forked, made, call, leaked>>

(* parse_pipe closes the files it opened.                                   *)
BugForgets(t) == t
ClosedFiles(t) ==
  IF call.goal = "parse" THEN CloseAux(CloseAux(t, call.src), call.out) ELSE t

Return ==
  /\ pc = "return" /\ pc' = "eval"
  /\ SetShell(ClosedFiles(table[Shell]))
  /\ call' = NoCall
  /\ UNCHANGED <<interactive, data, children, forked, made, leaked>>

(* file_read on gobble's pipe, one item at a time, and what follows it: the *)
(* write end was closed by do_pipe, and is closed again.                    *)
BugIgnoresResult(n) == TRUE
ReadGives(n) == data[n] > 0

GobbleRead ==
  LET n == table[Shell][call.pfd].of
  IN /\ pc = "gobble"
     /\ ReadGives(n)
     /\ data' = [data EXCEPT ![n] = @ - 1]
     /\ UNCHANGED <<table, children, shellState>>

Written(n) == \E p \in Proc : Holds(table[p], "write", n)

GobbleEnd ==
  LET n == table[Shell][call.pfd].of
  IN /\ pc = "gobble"
     /\ data[n] = 0 /\ ~Written(n)
     /\ SetShell(Close(Close(table[Shell], call.pfd), call.out))
     /\ pc' = "return"
     /\ UNCHANGED <<interactive, data, children, forked, made, call, leaked>>

-----------------------------------------------------------------------------
(* The children                                                             *)

ChildStep(c, new) ==
  /\ state' = [state EXCEPT ![c] = new]
  /\ UNCHANGED <<stage, last, shellState>>
End(c) ==
  /\ ChildStep(c, "ended")
  /\ table' = [table EXCEPT ![c] = NoTable]
  /\ UNCHANGED data

BugSwapped(t, c) == Redirected(t, stage[c].out, stage[c].in, 2)
Redirection(t, c) == Redirected(t, stage[c].in, stage[c].out, 2)

(* exec_aux; it fails when a file could not be opened.                      *)
Exec(c) ==
  /\ state[c] = "forked"
  /\ \E r \in {Redirection(table[c], c)} :
       IF r.ok THEN /\ ChildStep(c, "read")
                    /\ table' = [table EXCEPT ![c] = Execed(r.table)]
                    /\ UNCHANGED data
       ELSE End(c)

Input(c)  == table[c][0]
Output(c) == table[c][1]
Piped(e)  == e.end \in {"read", "write"}

(* The program reads an item; a terminal or a file always has one, or none. *)
ReadItem(c) ==
  /\ state[c] = "read"
  /\ ChildStep(c, "write")
  /\ IF Piped(Input(c))
     THEN /\ data[Input(c).of] > 0
          /\ data' = [data EXCEPT ![Input(c).of] = @ - 1]
     ELSE UNCHANGED data
  /\ UNCHANGED table

SeeEnd(c) ==
  /\ state[c] = "read"
  /\ Piped(Input(c)) => data[Input(c).of] = 0 /\ ~Written(Input(c).of)
  /\ ChildStep(c, "end")
  /\ UNCHANGED <<table, data>>

(* It writes the item once there is room.                                   *)
WriteItem(c) ==
  /\ state[c] = "write"
  /\ ChildStep(c, "read")
  /\ IF Piped(Output(c))
     THEN /\ data[Output(c).of] < Capacity
          /\ data' = [data EXCEPT ![Output(c).of] = @ + 1]
     ELSE UNCHANGED data
  /\ UNCHANGED table

(* A program that saw the end of its input, or writes to a pipe that nobody *)
(* reads, ends; any program may.                                            *)
Broken(c) == /\ state[c] = "write" /\ Output(c).end = "write"
             /\ \A p \in Proc : ~Holds(table[p], "read", Output(c).of)
Done(c) == (state[c] = "end" \/ Broken(c)) /\ End(c)
Quit(c) == state[c] \in {"forked"} \cup Programs /\ End(c)

(* SIGPIPE to the members of a job whose last stage ended: from job_wait    *)
(* for the job in the foreground, from babysit for any other.               *)
HangUp(j) ==
  LET m == {c \in Members(j) : state[c] # "ended"}
  IN /\ interactive /\ pc # "exited"
     /\ last[j] # 0 /\ Ended(last[j])
     /\ m # {}
     /\ state' = [c \in Child |-> IF c \in m THEN "ended" ELSE state[c]]
     /\ table' = [p \in Proc |-> IF p \in m THEN NoTable ELSE table[p]]
     /\ UNCHANGED <<data, stage, last, shellState>>

Main ==
  \/ \E c \in Child : ForkPiped(c) \/ ForkLast(c)
  \/ PipeFails \/ CloseEnds \/ Wait \/ Return
  \/ GobbleRead \/ GobbleEnd
User ==
  \E n \in 1 .. MaxStages :
     /\ n <= MaxChild - forked /\ n - 1 <= MaxFile - made
     /\ \/ \E i, o \in Redirections : ParsePipe(n, i, o)
        \/ \E b \in BOOLEAN : Run(n, b)
        \/ n <= MaxFile - made /\ Gobble(n)
Program(c) == Exec(c) \/ ReadItem(c) \/ SeeEnd(c) \/ WriteItem(c) \/ Done(c)

Next ==
  \/ User \/ Main \/ NullCommand
  \/ \E c \in Child : Program(c) \/ Quit(c) \/ HangUp(c)

(* The shell runs; a program reads, writes and ends as it can; the group of *)
(* the job in the foreground is hung up when its last stage ended.          *)
Fairness ==
  /\ WF_vars(Main)
  /\ \A c \in Child : WF_vars(Program(c))
  /\ WF_vars(pc = "wait" /\ HangUp(call.first))

Spec == Init /\ [][Next]_vars /\ Fairness

-----------------------------------------------------------------------------
(* Properties                                                               *)

(* The variables keep their types.                                          *)
TypeOK ==
  /\ interactive \in BOOLEAN
  /\ table  \in [Proc -> Table]
  /\ data   \in [Pipe -> 0 .. Capacity]
  /\ stage  \in [Child -> Stage]
  /\ state  \in [Child -> State]
  /\ last   \in [Child -> {0} \cup Child]
  /\ forked \in {0} \cup Child
  /\ made   \in 0 .. MaxFile
  /\ pc     \in {"eval", "stage", "close", "wait", "gobble", "return", "exited"}
  /\ call   \in Call
  /\ leaked \subseteq Fd

Running(c) == state[c] \in Programs

(* A running program holds the write end of no pipe but the one it writes   *)
(* to, and of the read ends only the one it reads, the one of its own pipe  *)
(* (do_pipe does not mark it for closing) and what do_pipe lost track of:   *)
(* so the end of a stage is the end of its successor's input.               *)
HoldsOnlyItsEnds ==
  \A c \in Child : Running(c) =>
    \A fd \in Open(table[c]) :
      LET e == table[c][fd] IN
      /\ e.end = "write" => fd = 1 /\ e.of = stage[c].to
      /\ e.end = "read"  => \/ fd = 0 /\ e.of = stage[c].from
                            \/ e.of = stage[c].to
                            \/ fd \in leaked

(* The stages of a pipeline are connected: each program's standard input    *)
(* and output are the ends do_pipe meant, and a stage reads what the stage  *)
(* before it writes.                                                        *)
Connected ==
  \A c \in Child :
    /\ Running(c) =>
         /\ IF stage[c].from = 0 THEN ~Piped(Input(c))
            ELSE Input(c).end = "read" /\ Input(c).of = stage[c].from
         /\ IF stage[c].to = 0 THEN ~Piped(Output(c))
            ELSE Output(c).end = "write" /\ Output(c).of = stage[c].to
    /\ \A d \in Members(stage[c].job) :
         c + 1 = d /\ stage[c].job # 0 => stage[d].from = stage[c].to

(* Between commands the shell has open what it started with and what do_pipe *)
(* and gobble forget when they give up; only because of those does it run   *)
(* out of descriptors.                                                      *)
NoStrayDescriptor ==
  /\ pc = "eval" => Open(table[Shell]) = Standard \cup leaked
  /\ pc = "exited" => leaked # {}

(* gobble returns once the last stage of its pipeline ended, even if an     *)
(* earlier one never does.                                                  *)
GobbleReturns ==
  (pc = "gobble" /\ Ended(last[call.first])) ~> (pc = "eval")

(* The wait for a pipeline ends once its first stage ended, when the others *)
(* end at the end of their input.                                           *)
WaitEnds ==
  (pc = "wait" /\ Ended(call.first)) ~> (pc = "eval")

(* Nobody is left to read what c writes, and it is not told, because it     *)
(* holds the read end itself.                                               *)
Blocked(c) ==
  /\ state[c] = "write" /\ Output(c).end = "write"
  /\ data[Output(c).of] = Capacity
  /\ \A d \in Child : stage[d].from = stage[c].to => Ended(d)

(* The end of a stage reaches the next one, which ends unless it is blocked. *)
EndReaches ==
  \A d \in 2 .. MaxChild :
    (stage[d].from # 0 /\ Ended(d - 1)) ~> (Ended(d) \/ Blocked(d))
==============================================================================
