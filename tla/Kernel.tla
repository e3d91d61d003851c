------------------------------- MODULE Kernel -------------------------------
(***************************************************************************)
(* What job control in esh.c relies on from the operating system: process  *)
(* states as waitpid reports them, process groups, the terminal's          *)
(* foreground group, and the disposition and pending flag of the shell's   *)
(* SIGCHLD.  Everything here but ChildExec (esh.c, exec_aux) lies outside  *)
(* the repository; it is modelled from how esh.c calls it.                 *)
(*                                                                         *)
(* Abstractions: a process identifier is never reused, nobody but the      *)
(* shell sends SIGCONT, and a child does not change its group after exec.  *)
(***************************************************************************)
EXTENDS Integers, FiniteSets

CONSTANTS Pid,         \* identifiers of the processes the shell may fork
          Shell,       \* the process group of the shell itself
          ExitCodes,   \* the exit statuses programs use
          Signalled,   \* wait status: terminated by a signal
          Stopped,     \* wait status: stopped by a signal
          MaxStops     \* bound on the number of stop signals delivered

ASSUME KernelAssumption ==
  /\ Shell \notin Pid
  /\ ExitCodes \subseteq 0 .. 255
  /\ Signalled \notin 0 .. 255
  /\ Stopped \notin (0 .. 255) \cup {Signalled}
  /\ MaxStops \in Nat

VARIABLES proc,     \* proc[p]: the state of process p
          pgrp,     \* pgrp[p]: its process group
          leader,   \* leader[p]: the group its creator gave to exec_aux
          code,     \* code[p]: the wait status of a terminated process
          sigpipe,  \* sigpipe[p]: a SIGPIPE was sent to p
          stops,    \* stop signals delivered so far
          tty,      \* foreground process group of the terminal
          disp,     \* disposition of SIGCHLD in the shell
          sigchld   \* SIGCHLD is pending in the shell

processes == <<proc, pgrp, leader, code, sigpipe, stops>>
signals   == <<disp, sigchld>>

(* "stopped" is a stop that waitpid has not reported yet, "halted" one it   *)
(* has; "forked" is a child that has not reached exec.                      *)
LiveState == {"forked", "running", "stopped", "halted"}
ProcState == {"free", "zombie", "reaped"} \cup LiveState
Status    == ExitCodes \cup {Signalled}

KernelTypeOK ==
  /\ proc    \in [Pid -> ProcState]
  /\ pgrp    \in [Pid -> Pid \cup {Shell}]
  /\ leader  \in [Pid -> Pid \cup {Shell}]
  /\ code    \in [Pid -> Status]
  /\ sigpipe \in [Pid -> BOOLEAN]
  /\ stops   \in 0 .. MaxStops
  /\ tty     \in Pid \cup {Shell}
  /\ disp    \in {"babysit", "default"}
  /\ sigchld \in BOOLEAN

KernelInit ==
  /\ proc    = [p \in Pid |-> "free"]
  /\ pgrp    = [p \in Pid |-> Shell]
  /\ leader  = [p \in Pid |-> Shell]
  /\ code    = [p \in Pid |-> Signalled]
  /\ sigpipe = [p \in Pid |-> FALSE]
  /\ stops   = 0
  /\ tty     = Shell
  /\ sigchld = FALSE

-----------------------------------------------------------------------------
(* System calls of the shell, as state functions and action fragments.      *)

Members(g)     == {p \in Pid : pgrp[p] = g /\ proc[p] \notin {"free", "reaped"}}
LiveMembers(g) == {p \in Members(g) : proc[p] \in LiveState}
Reportable(S)  == {p \in S : proc[p] \in {"stopped", "zombie"}}

(* The status waitpid stores for p, and the state p is in after the report. *)
WaitStatus(p) == IF proc[p] = "zombie" THEN code[p] ELSE Stopped
Report(p) ==
  proc' = [proc EXCEPT ![p] = IF @ = "zombie" THEN "reaped" ELSE "halted"]

(* kill(-g, SIGPIPE) and kill(-g, SIGCONT).                                 *)
SendSigpipe(g) ==
  sigpipe' = [p \in Pid |-> sigpipe[p] \/ p \in LiveMembers(g)]
SendSigcont(g) ==
  proc' = [p \in Pid |-> IF p \in Members(g) /\ proc[p] \in {"stopped", "halted"}
                         THEN "running" ELSE proc[p]]

(* tcsetpgrp fails, and changes nothing, when the group has no process.     *)
SetTerminal(g) == tty' = IF g = Shell \/ Members(g) # {} THEN g ELSE tty

(* SIGCHLD reaches the shell only while babysit is installed: its default   *)
(* disposition discards it.                                                 *)
RaiseSigchld == sigchld' = (sigchld \/ disp = "babysit") /\ UNCHANGED disp

-----------------------------------------------------------------------------
(* Steps of the children.                                                   *)

(* exec_aux in the child: join the group asked for, then execvp.            *)
ChildExec(p) ==
  /\ proc[p] = "forked"
  /\ proc' = [proc EXCEPT ![p] = "running"]
  /\ pgrp' = [pgrp EXCEPT ![p] = leader[p]]
  /\ UNCHANGED <<leader, code, sigpipe, stops, tty, disp, sigchld>>

Terminate(p, status) ==
  /\ proc' = [proc EXCEPT ![p] = "zombie"]
  /\ code' = [code EXCEPT ![p] = status]
  /\ RaiseSigchld
  /\ UNCHANGED <<pgrp, leader, sigpipe, stops, tty>>

Exit(p, c) == proc[p] = "running" /\ Terminate(p, c)

(* A fatal signal from outside: C-c, kill, a fault.                         *)
Killed(p) == proc[p] \in LiveState /\ Terminate(p, Signalled)

(* The default action of a SIGPIPE sent earlier; a stopped process keeps it *)
(* pending.                                                                 *)
DieOfSigpipe(p) ==
  /\ sigpipe[p]
  /\ proc[p] \in {"forked", "running"}
  /\ Terminate(p, Signalled)

(* C-z, SIGTTIN, SIGTTOU or kill -STOP.                                     *)
Stop(p) ==
  /\ proc[p] = "running"
  /\ stops < MaxStops
  /\ proc' = [proc EXCEPT ![p] = "stopped"]
  /\ stops' = stops + 1
  /\ RaiseSigchld
  /\ UNCHANGED <<pgrp, leader, code, sigpipe, tty>>

Child(p) ==
  \/ ChildExec(p)
  \/ \E c \in ExitCodes : Exit(p, c)
  \/ Killed(p)
  \/ DieOfSigpipe(p)
  \/ Stop(p)
=============================================================================
