----------------------------- MODULE JobControl -----------------------------
(***************************************************************************)
(* Job control of esh: do_pipe forks a pipeline and registers it as a job, *)
(* job_foreground / job_wait give it the terminal and wait, fg and bg act  *)
(* on the list of jobs, arrange_funeral drops the dead ones between        *)
(* commands, and babysit, the SIGCHLD handler, runs between any two of     *)
(* those steps and changes the same jobs.                                  *)
(*                                                                         *)
(* The main program is at the place pc names; it moves only while the      *)
(* handler is not running (hpos = 0).  A job is named by the first process *)
(* forked for it, which is also its process group when the shell is        *)
(* interactive.                                                            *)
(*                                                                         *)
(* A definition whose name starts with Bug is a deliberate fault: it stands *)
(* just before the definition it is a faulty version of, and nothing uses  *)
(* it but the mutants PROJECT.json lists.                                  *)
(***************************************************************************)
EXTENDS Kernel, Sequences, SequencesExt

CONSTANTS MaxStages,   \* bound on the commands of one pipeline
          Junk,        \* an uninitialised wait status of no known kind
          None         \* no process

ASSUME JobAssumption ==
  /\ MaxStages \in Nat \ {0}
  /\ Junk \notin Status \cup {Stopped}
  /\ None \notin Pid \cup {Shell}

VARIABLES interactive,  \* esh.c: interactive, set once by init_shell
          jobs,         \* esh.c: jobs, the list of registered jobs
          job,          \* job[j]: the fields of the job_t of job j
          unburied,     \* arrange_funeral: the part of jobs still to visit
          jnew,         \* arrange_funeral: jnew
          pc, hpos,     \* where main is; the position of babysit in jobs
          cur,          \* the job main works on
          left,         \* do_pipe: commands still to fork
          bg,           \* do_pipe: the argument bg
          caller,       \* who called job_foreground
          reports       \* history: show_status calls after the last process ended

control == <<pc, hpos, cur, left, bg, caller>>
funeral == <<unburied, jnew>>
vars    == <<processes, tty, signals, interactive, jobs, job, funeral,
             control, reports>>

JobState == {"running", "stopped", "dead"}
(* No job_t, or one under construction; a freed one keeps the status "none". *)
NoJob    == [last |-> None, status |-> "none", value |-> 0]
Value    == -128 .. 127      \* a char
Job      == [last : Pid \cup {None}, status : JobState \cup {"none"}, value : Value]

Places == {"eval", "fork", "setpgid", "register", "abort", "abortwait",
           "tty", "check", "cont", "run", "dfl", "wait", "group", "restore",
           "back", "bcheck", "bcont", "brun", "bury", "swap", "reap",
           "nulljob", "wild"}
Crashed == {"nulljob", "wild"}

Init ==
  /\ KernelInit
  /\ interactive \in BOOLEAN
  /\ disp = IF interactive THEN "babysit" ELSE "default"
  /\ jobs = <<>>
  /\ job = [j \in Pid |-> NoJob]
  /\ unburied = <<>> /\ jnew = <<>>
  /\ pc = "eval" /\ hpos = 0
  /\ cur = None /\ left = 0 /\ bg = FALSE /\ caller = "none"
  /\ reports = [j \in Pid |-> 0]

(* Main goes from one place to the next. *)
At(place) == pc = place /\ hpos = 0
Goto(place) == pc' = place /\ UNCHANGED <<hpos, cur, left, bg, caller>>
Return == /\ pc' = "eval" /\ cur' = None /\ left' = 0 /\ bg' = FALSE
          /\ caller' = "none" /\ UNCHANGED hpos

-----------------------------------------------------------------------------
(* do_pipe                                                                  *)

StartPipe(n, b) ==
  /\ At("eval")
  /\ n <= Cardinality({p \in Pid : proc[p] = "free"})
  /\ pc' = "fork" /\ left' = n /\ bg' = b /\ caller' = "pipe"
  /\ UNCHANGED <<hpos, cur, processes, tty, signals, interactive, jobs, job,
                 funeral, reports>>

(* The child gets the group as an argument of exec_aux; the parent repeats  *)
(* setpgid in a step of its own.                                            *)
Fork(p) ==
  LET lead == IF cur = None THEN p ELSE cur IN
  /\ At("fork")
  /\ left > 0
  /\ proc[p] = "free"
  /\ proc' = [proc EXCEPT ![p] = "forked"]
  /\ leader' = [leader EXCEPT ![p] = IF interactive THEN lead ELSE Shell]
  /\ job' = [job EXCEPT ![lead].last = p]
  /\ pc' = "setpgid" /\ cur' = lead /\ left' = left - 1
  /\ UNCHANGED <<hpos, bg, caller, pgrp, code, sigpipe, stops, tty, signals,
                 interactive, jobs, funeral, reports>>

BugChildOnly(p) == UNCHANGED pgrp
ParentSetpgid(p) == pgrp' = [pgrp EXCEPT ![p] = leader[p]]

SetPgid ==
  /\ At("setpgid")
  /\ ParentSetpgid(job[cur].last)
  /\ Goto(IF left > 0 THEN "fork" ELSE "register")
  /\ UNCHANGED <<proc, leader, code, sigpipe, stops, tty, signals, interactive,
                 jobs, job, funeral, reports>>

(* A stage that is no list, or that globs to nothing: goto done.  Stages    *)
(* forked before it belong to no job.                                       *)
NullCommand ==
  /\ At("fork")
  /\ left > 0
  /\ job' = [j \in Pid |-> IF j = cur THEN NoJob ELSE job[j]]
  /\ IF bg THEN Return
     ELSE /\ pc' = "abort" /\ cur' = None /\ left' = 0 /\ caller' = "abort"
          /\ UNCHANGED <<hpos, bg>>
  /\ UNCHANGED <<processes, tty, signals, interactive, jobs, funeral, reports>>

(* signal(SIGCHLD, SIG_DFL); a pending SIGCHLD is discarded. *)
BugKeepBabysit == UNCHANGED signals
DefaultSigchld == disp' = "default" /\ sigchld' = FALSE

(* job_foreground on a job_t whose fields were never written.  The garbage  *)
(* group is no group (tcsetpgrp and kill fail) and the garbage last_pid no  *)
(* child, or 0: any child of the shell's own group.                         *)
AbortForeground ==
  /\ At("abort")
  /\ \/ interactive /\ Return /\ UNCHANGED signals
     \/ DefaultSigchld /\ Goto("abortwait")
  /\ UNCHANGED <<processes, tty, interactive, jobs, job, funeral, reports>>

AbortWait ==
  /\ At("abortwait")
  /\ \/ UNCHANGED proc
     \/ \E p \in Reportable(Members(Shell)) : Report(p)
  /\ Goto("restore")
  /\ UNCHANGED <<pgrp, leader, code, sigpipe, stops, tty, signals, interactive,
                 jobs, job, funeral, reports>>

(* The end of do_pipe: the job_t is filled in and, interactively, listed.   *)
Register ==
  LET filled == [job[cur] EXCEPT !.status = "running", !.value = 0] IN
  /\ At("register")
  /\ jobs' = IF interactive THEN <<cur>> \o jobs ELSE jobs
  /\ job' = [job EXCEPT ![cur] = IF bg /\ ~interactive THEN NoJob ELSE filled]
  /\ IF bg THEN Return ELSE Goto(IF interactive THEN "tty" ELSE "run")
  /\ UNCHANGED <<processes, tty, signals, interactive, funeral, reports>>

-----------------------------------------------------------------------------
(* job_foreground and job_wait                                              *)

ForegroundTty ==
  /\ At("tty")
  /\ SetTerminal(cur)
  /\ Goto("check")
  /\ UNCHANGED <<processes, signals, interactive, jobs, job, funeral, reports>>

ForegroundCheck ==
  /\ At("check")
  /\ \/ job[cur].status = "stopped" /\ Goto("cont")
     \/ job[cur].status = "dead" /\ Return
     \/ job[cur].status \notin {"stopped", "dead"} /\ Goto("run")
  /\ UNCHANGED <<processes, tty, signals, interactive, jobs, job, funeral, reports>>

(* kill(-pgid, SIGCONT), which fails when the group is empty. *)
Continue(place) ==
  /\ IF Members(cur) = {} THEN Return /\ UNCHANGED proc
     ELSE SendSigcont(cur) /\ Goto(place)
  /\ UNCHANGED <<pgrp, leader, code, sigpipe, stops, tty, signals, interactive,
                 jobs, job, funeral, reports>>

ForegroundCont == At("cont") /\ Continue("run")

ForegroundRun ==
  /\ At("run")
  /\ job' = [job EXCEPT ![cur].status = "running"]
  /\ Goto("dfl")
  /\ UNCHANGED <<processes, tty, signals, interactive, jobs, funeral, reports>>

WaitDefault ==
  /\ At("dfl")
  /\ DefaultSigchld
  /\ Goto("wait")
  /\ UNCHANGED <<processes, tty, interactive, jobs, job, funeral, reports>>

(* WEXITSTATUS stored in a char. *)
BugUnsigned(c) == c
AsChar(c) == IF c > 127 THEN c - 256 ELSE c

(* show_status: what the job becomes, given a wait status. *)
Shown(j, status) ==
  CASE status \in ExitCodes -> [job[j] EXCEPT !.status = "dead", !.value = AsChar(status)]
    [] status = Stopped     -> [job[j] EXCEPT !.status = "stopped"]
    [] status = Signalled   -> [job[j] EXCEPT !.status = "dead"]
    [] OTHER                -> job[j]

(* kill(-pgid, SIGPIPE) to a job that is dead. *)
BugNoHangUp(j, status) == UNCHANGED sigpipe
HangUp(j, status) == IF status = "dead" THEN SendSigpipe(j) ELSE UNCHANGED sigpipe

ShowAndHangUp(j, status) ==
  /\ job' = [job EXCEPT ![j] = Shown(j, status)]
  /\ HangUp(j, Shown(j, status).status)
  /\ reports' = IF proc[job[j].last] \in {"zombie", "reaped"} /\ reports[j] < 2
                THEN [reports EXCEPT ![j] = @ + 1] ELSE reports

(* The blocking waitpid on one process; it fails when that was reaped.      *)
BugNoHang(p) == IF p \in Reportable(Pid) THEN Report(p) ELSE UNCHANGED proc
WaitFor(p) == IF proc[p] = "reaped" THEN UNCHANGED proc
              ELSE p \in Reportable(Pid) /\ Report(p)

(* When last_pid was reaped before, show_status reads a wait status that    *)
(* nobody wrote.                                                            *)
WaitLast ==
  LET last == job[cur].last IN
  /\ At("wait")
  /\ WaitFor(last)
  /\ IF interactive
     THEN \E status \in IF proc[last] = "reaped" THEN Status \cup {Stopped, Junk}
                        ELSE {WaitStatus(last)} :
            /\ ShowAndHangUp(cur, status)
            /\ Goto(IF Shown(cur, status).status = "dead" THEN "group" ELSE "restore")
     ELSE Goto("restore") /\ UNCHANGED <<job, sigpipe, reports>>
  /\ UNCHANGED <<pgrp, leader, code, stops, tty, signals, interactive, jobs, funeral>>

(* The blocking waitpid(-pgid), until the group has no child left. *)
WaitGroup ==
  /\ At("group")
  /\ IF Members(cur) = {} THEN Goto("restore") /\ UNCHANGED proc
     ELSE /\ \E p \in Reportable(Members(cur)) : Report(p)
          /\ UNCHANGED control
  /\ UNCHANGED <<pgrp, leader, code, sigpipe, stops, tty, signals, interactive,
                 jobs, job, funeral, reports>>

(* signal(SIGCHLD, oldsig); a script frees the job_t and is done. *)
WaitRestore ==
  /\ At("restore")
  /\ disp' = IF interactive THEN "babysit" ELSE "default"
  /\ IF interactive THEN Goto("back") /\ UNCHANGED job
     ELSE Return /\ job' = [j \in Pid |-> IF j = cur THEN NoJob ELSE job[j]]
  /\ UNCHANGED <<processes, tty, sigchld, interactive, jobs, funeral, reports>>

BugKeepTerminal == UNCHANGED tty
TakeTerminal == SetTerminal(Shell)

ForegroundBack ==
  /\ At("back")
  /\ TakeTerminal
  /\ Return
  /\ UNCHANGED <<processes, signals, interactive, jobs, job, funeral, reports>>

-----------------------------------------------------------------------------
(* The commands fg and bg; i is the job number, counted from 0.  nth_job    *)
(* dereferences the end of the list when i is the length.                   *)

Command(i, place) ==
  /\ At("eval")
  /\ jobs # <<>>
  /\ IF i = Len(jobs) THEN pc' = "nulljob" /\ UNCHANGED <<cur, caller>>
     ELSE pc' = place /\ cur' = jobs[i + 1] /\ caller' = "builtin"
  /\ UNCHANGED <<hpos, left, bg, processes, tty, signals, interactive, jobs, job,
                 funeral, reports>>

Fg(i) == Command(i, "tty")
Bg(i) == Command(i, "bcheck")

BackgroundCheck ==
  /\ At("bcheck")
  /\ \/ job[cur].status = "stopped" /\ Goto("bcont")
     \/ job[cur].status = "dead" /\ Return
     \/ job[cur].status \notin {"stopped", "dead"} /\ Goto("brun")
  /\ UNCHANGED <<processes, tty, signals, interactive, jobs, job, funeral, reports>>

BackgroundCont == At("bcont") /\ Continue("brun")

BackgroundRun ==
  /\ At("brun")
  /\ job' = [job EXCEPT ![cur].status = "running"]
  /\ Return
  /\ UNCHANGED <<processes, tty, signals, interactive, jobs, funeral, reports>>

-----------------------------------------------------------------------------
(* arrange_funeral, called between two command lines                        *)

EndLine ==
  /\ At("eval")
  /\ IF interactive
     THEN /\ \E j \in Range(jobs) : job[j].status = "dead"
          /\ unburied' = jobs
          /\ Goto("bury")
     ELSE Goto("reap") /\ UNCHANGED unburied
  /\ UNCHANGED <<jnew, processes, tty, signals, interactive, jobs, job, reports>>

(* One turn of the second loop: free a dead job, keep any other. *)
Bury ==
  /\ At("bury")
  /\ unburied # <<>>
  /\ unburied' = Tail(unburied)
  /\ IF job[Head(unburied)].status = "dead"
     THEN job' = [job EXCEPT ![Head(unburied)].status = "none"] /\ UNCHANGED jnew
     ELSE jnew' = <<Head(unburied)>> \o jnew /\ UNCHANGED job
  /\ UNCHANGED <<control, processes, tty, signals, interactive, jobs, reports>>

FreeList ==
  /\ At("bury")
  /\ unburied = <<>>
  /\ Goto("swap")
  /\ UNCHANGED <<processes, tty, signals, interactive, jobs, job, funeral, reports>>

BugNotReversed == jnew
BugOldList     == jobs
Survivors      == Reverse(jnew)

SwapJobs ==
  /\ At("swap")
  /\ jobs' = Survivors
  /\ jnew' = <<>>
  /\ Goto("eval")
  /\ UNCHANGED <<processes, tty, signals, interactive, job, unburied, reports>>

(* A script reaps every child that ended or stopped: waitpid(0, WNOHANG).   *)
BugNothing  == {}
ScriptReaps == Reportable(Members(Shell))

ReapAll ==
  /\ At("reap")
  /\ IF ScriptReaps = {} THEN Goto("eval") /\ UNCHANGED proc
     ELSE /\ \E p \in ScriptReaps : Report(p)
          /\ UNCHANGED control
  /\ UNCHANGED <<pgrp, leader, code, sigpipe, stops, tty, signals, interactive,
                 jobs, job, funeral, reports>>

-----------------------------------------------------------------------------
(* babysit                                                                  *)

Deliver ==
  /\ sigchld /\ disp = "babysit" /\ hpos = 0 /\ pc \notin Crashed
  /\ hpos' = 1
  /\ sigchld' = FALSE
  /\ UNCHANGED <<pc, cur, left, bg, caller, processes, tty, disp, interactive,
                 jobs, job, funeral, reports>>

(* The list, or the job_t, that babysit is about to read was freed. *)
StaleRead == pc = "swap" \/ job[jobs[hpos]].status = "none"

(* waitpid(-job->pgid, WNOHANG) finds a child to report. *)
BugLastOnly(j) == Reportable({job[j].last})
Waited(j)      == Reportable(Members(j))

BugAnyProcess(p, j) == TRUE
IsLast(p, j)        == p = job[j].last

BabysitReap(p) ==
  LET j == jobs[hpos] IN
  /\ hpos \in 1 .. Len(jobs)
  /\ job[j].status # "none"
  /\ p \in Waited(j)
  /\ Report(p)
  /\ IF IsLast(p, j) THEN ShowAndHangUp(j, WaitStatus(p))
     ELSE HangUp(j, job[j].status) /\ UNCHANGED <<job, reports>>
  /\ UNCHANGED <<control, pgrp, leader, code, stops, tty, signals, interactive,
                 jobs, funeral>>

BabysitNext ==
  /\ hpos \in 1 .. Len(jobs)
  /\ StaleRead \/ Waited(jobs[hpos]) = {}
  /\ hpos' = hpos + 1
  /\ UNCHANGED <<pc, cur, left, bg, caller, processes, tty, signals, interactive,
                 jobs, job, funeral, reports>>

(* Reading freed memory may end the shell. *)
BabysitCrash ==
  /\ hpos \in 1 .. Len(jobs)
  /\ StaleRead
  /\ pc' = "wild" /\ hpos' = 0
  /\ UNCHANGED <<cur, left, bg, caller, processes, tty, signals, interactive,
                 jobs, job, funeral, reports>>

BabysitReturn ==
  /\ hpos = Len(jobs) + 1
  /\ hpos' = 0
  /\ disp' = "babysit"
  /\ UNCHANGED <<pc, cur, left, bg, caller, processes, tty, sigchld, interactive,
                 jobs, job, funeral, reports>>

-----------------------------------------------------------------------------
Launching  == \/ \E p \in Pid : Fork(p)
              \/ SetPgid \/ NullCommand \/ AbortForeground \/ AbortWait \/ Register
Foreground == \/ ForegroundTty \/ ForegroundCheck \/ ForegroundCont \/ ForegroundRun
              \/ WaitDefault \/ WaitLast \/ WaitGroup \/ WaitRestore \/ ForegroundBack
Background == BackgroundCheck \/ BackgroundCont \/ BackgroundRun
Funeral    == Bury \/ FreeList \/ SwapJobs \/ ReapAll
Babysit    == \/ Deliver \/ BabysitNext \/ BabysitCrash \/ BabysitReturn
              \/ \E p \in Pid : BabysitReap(p)

(* What the user types or the script says. *)
Request == \/ \E n \in 1 .. MaxStages, b \in BOOLEAN : StartPipe(n, b)
           \/ \E i \in 0 .. Len(jobs) : Fg(i) \/ Bg(i)
           \/ EndLine

Main == Launching \/ Foreground \/ Background \/ Funeral

Children == /\ \E p \in Pid : Child(p)
            /\ UNCHANGED <<interactive, jobs, job, funeral, control, reports>>

Next == Request \/ Main \/ Babysit \/ Children

Spec == Init /\ [][Next]_vars

(* The shell and its handler keep running, a new child reaches exec, and    *)
(* SIGPIPE is delivered; nothing makes a program end, and nothing makes the *)
(* user type.                                                               *)
ChildStep(A(_), p) ==
  A(p) /\ UNCHANGED <<interactive, jobs, job, funeral, control, reports>>

Fairness ==
  /\ WF_vars(Main)
  /\ WF_vars(Babysit)
  /\ \A p \in Pid : WF_vars(ChildStep(ChildExec, p)) /\ WF_vars(ChildStep(DieOfSigpipe, p))

FairSpec == Spec /\ Fairness

-----------------------------------------------------------------------------
(* Properties                                                               *)

(* Every variable stays in its range; a listed job is a process. *)
TypeOK ==
  /\ KernelTypeOK
  /\ interactive \in BOOLEAN
  /\ jobs \in Seq(Pid) /\ unburied \in Seq(Pid) /\ jnew \in Seq(Pid)
  /\ job \in [Pid -> Job]
  /\ pc \in Places
  /\ hpos \in 0 .. Len(jobs) + 1
  /\ cur \in Pid \cup {None}
  /\ left \in 0 .. MaxStages
  /\ bg \in BOOLEAN
  /\ caller \in {"none", "pipe", "abort", "builtin"}
  /\ reports \in [Pid -> 0 .. 2]

Listed == Range(jobs)

(* The status DEAD that show_status writes, even from a wait status nobody  *)
(* wrote, is true: the last process of the pipeline ended and was collected *)
(* (so arrange_funeral never forgets a job that is still running).          *)
DeadMeansLastReaped ==
  \A j \in Pid : job[j].status = "dead" => proc[job[j].last] = "reaped"

(* The members of a dead job that are still alive were sent SIGPIPE, by     *)
(* babysit or by job_wait, whichever saw the last process end.              *)
DeadJobIsHungUp ==
  \A j \in Listed : job[j].status = "dead" =>
    \A p \in LiveMembers(j) : sigpipe[p]

(* Parent and child both call setpgid, so once do_pipe is past a fork the   *)
(* process is in the group of its pipeline, however late the child runs:    *)
(* waitpid(-pgid) and kill(-pgid) never miss it.                            *)
GroupComplete ==
  \A p \in Pid : proc[p] # "free" /\ ~(pc = "setpgid" /\ job[cur].last = p)
                 => pgrp[p] = leader[p]

(* Outside arrange_funeral the list holds each job once, and no freed one.  *)
NoDanglingJob ==
  /\ pc \notin {"bury", "swap", "wild"} =>
       \A j \in Listed : job[j].status # "none"
  /\ \A m, n \in 1 .. Len(jobs) : jobs[m] = jobs[n] => m = n

(* While job_wait waits for a group that still has a process, that group    *)
(* owns the terminal and babysit cannot run and take its wait status.       *)
WaitIsExclusive ==
  pc \in {"wait", "group"} =>
    /\ hpos = 0 /\ disp = "default"
    /\ interactive /\ Members(cur) # {} => tty = cur

(* The shell reads the next command without the terminal only after         *)
(* job_foreground refused a job whose last process had been collected.      *)
StrayTerminalOnlyAfterDeath ==
  pc = "eval" /\ tty # Shell => tty \in Pid /\ proc[job[tty].last] = "reaped"

(* do_pipe is about to return from a pipeline it ran in the foreground. *)
PipeReturns == caller = "pipe" /\ pc # "eval" /\ pc' = "eval" /\ ~bg /\ cur # None

(* A foreground do_pipe returns only once the last process of the pipeline  *)
(* ended or stopped and was reported, in a script as at a terminal.         *)
ForegroundWaits ==
  [][PipeReturns => proc[job[cur].last] \notin {"forked", "running", "stopped"}]_vars

(* The value do_pipe returns from an interactive foreground pipeline is the *)
(* exit status as a char, or 0 if a signal ended or stopped the last        *)
(* process, whenever that end was shown once.                               *)
ForegroundValue ==
  [][PipeReturns /\ interactive /\ reports[cur] <= 1 =>
       LET last == job[cur].last IN
       job[cur].value = IF proc[last] = "reaped" /\ code[last] # Signalled
                        THEN ((code[last] + 128) % 256) - 128 ELSE 0]_vars

(* PATCH: without the signal calls in job_wait, show_status() is likely to  *)
(* be called twice for each process run in the foreground.                  *)
ShownOnce == \A j \in Pid : reports[j] <= 1

(* The list of jobs is the abstract table, its last processes collected.    *)
Table == INSTANCE JobTable WITH
  Id    <- Pid,
  table <- jobs,
  over  <- {j \in Pid : interactive /\ job[j].last # None /\ proc[job[j].last] = "reaped"},
  gone  <- {j \in Pid : /\ interactive /\ job[j].last # None
                        /\ job[j].status = "none" /\ j \notin Listed \cup {cur}}
ImplementsTable == Table!Spec

(* The loop of job_wait that collects the rest of a dead foreground job     *)
(* ends, unless a member is stopped: SIGPIPE ends the others.               *)
ForegroundReturns ==
  pc = "group" ~> (pc # "group" \/ \E p \in Members(cur) : proc[p] \in {"stopped", "halted"})

(* A child of a listed job that ended while SIGCHLD was pending is          *)
(* collected, unless a job_wait meanwhile discarded the signal, or a        *)
(* funeral dropped the job or had babysit walk a list being freed.          *)
PendingChildIsReaped ==
  \A p \in Pid :
    (sigchld /\ proc[p] = "zombie" /\ pgrp[p] \in Listed) ~>
      \/ proc[p] = "reaped"
      \/ disp = "default" \/ pgrp[p] \notin Listed
      \/ pc \in {"bury", "swap"} \cup Crashed

(* A script whose command lines keep ending collects every child.           *)
ScriptCollects ==
  []<>(pc = "reap") => \A p \in Pid : proc[p] = "zombie" ~> proc[p] = "reaped"
=============================================================================
