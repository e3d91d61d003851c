-------------------------- MODULE JobControl_proofs --------------------------
(* Theorems about JobControl, for every value of its constants. *)
EXTENDS JobControl, TLAPS

Building == {"fork", "setpgid", "register"}
Working  == {"setpgid", "register", "tty", "check", "cont", "run", "dfl", "wait",
             "group", "bcheck", "bcont", "brun"}
Idle     == {"eval", "bury", "swap", "reap"}

(* The jobs that some list names. *)
Named == Range(jobs) \cup Range(unburied) \cup Range(jnew)

(* What holds of the job_t records: a process never forked has none; a job  *)
(* with a status or a place on a list has a last process; the job main      *)
(* works on is one of them, and is on no list while do_pipe builds it; a    *)
(* script has no list.                                                      *)
Records ==
  /\ \A p \in Pid : proc[p] = "free" => job[p] = NoJob
  /\ \A j \in Pid : job[j].status # "none" => job[j].last \in Pid
  /\ \A j \in Named : job[j].last \in Pid
  /\ pc \in Working => cur \in Pid /\ job[cur].last \in Pid
  /\ pc \in Idle => cur = None
  /\ pc \in Building /\ cur # None =>
       cur \notin Named /\ job[cur].status = "none" /\ job[cur].last \in Pid
  /\ ~interactive => Named = {}

(* The elements of a sequence, and of the sequences built from it.          *)
LEMMA RangeSeq ==
  ASSUME NEW S, NEW s \in Seq(S)
  PROVE  Range(s) = {s[i] : i \in 1 .. Len(s)} /\ Range(s) \subseteq S
<1>1. DOMAIN s = 1 .. Len(s) /\ \A i \in 1 .. Len(s) : s[i] \in S
  OBVIOUS
<1> QED BY <1>1 DEF Range

LEMMA RangeCons ==
  ASSUME NEW S, NEW s \in Seq(S), NEW x \in S
  PROVE  /\ <<x>> \o s \in Seq(S)
         /\ Range(<<x>> \o s) = {x} \cup Range(s)
<1> DEFINE t == <<x>> \o s
<1>1. t \in Seq(S) /\ Len(t) = Len(s) + 1 /\ Len(s) \in Nat
  OBVIOUS
<1>2. t[1] = x /\ \A i \in 1 .. Len(s) : t[i + 1] = s[i]
  OBVIOUS
<1> HIDE DEF t
<1>3. Range(t) = {t[i] : i \in 1 .. Len(s) + 1} /\ Range(s) = {s[i] : i \in 1 .. Len(s)}
  BY <1>1, RangeSeq
<1>4. \A i \in 1 .. Len(s) + 1 : i = 1 \/ (i - 1 \in 1 .. Len(s) /\ t[i] = s[i - 1])
  BY <1>1, <1>2
<1>5. Range(t) \subseteq {x} \cup Range(s)
  BY <1>2, <1>3, <1>4
<1>6. {x} \cup Range(s) \subseteq Range(t)
  BY <1>1, <1>2, <1>3
<1> QED BY <1>1, <1>5, <1>6 DEF t

LEMMA RangeTail ==
  ASSUME NEW S, NEW s \in Seq(S), s # <<>>
  PROVE  /\ Tail(s) \in Seq(S) /\ Head(s) \in Range(s)
         /\ Range(Tail(s)) \subseteq Range(s)
<1>1. /\ Len(s) \in Nat \ {0} /\ Head(s) = s[1]
      /\ Tail(s) \in Seq(S) /\ Len(Tail(s)) = Len(s) - 1
  OBVIOUS
<1>2. \A i \in 1 .. Len(Tail(s)) : Tail(s)[i] = s[i + 1] /\ i + 1 \in 1 .. Len(s)
  BY <1>1
<1>3. /\ Range(Tail(s)) = {Tail(s)[i] : i \in 1 .. Len(Tail(s))}
      /\ Range(s) = {s[i] : i \in 1 .. Len(s)}
  BY <1>1, RangeSeq
<1> QED BY <1>1, <1>2, <1>3

LEMMA RangeReverse ==
  ASSUME NEW S, NEW s \in Seq(S)
  PROVE  Reverse(s) \in Seq(S) /\ Range(Reverse(s)) = Range(s)
<1> DEFINE t == Reverse(s)
<1>1. /\ t \in Seq(S) /\ Len(t) = Len(s) /\ Len(s) \in Nat
      /\ \A i \in 1 .. Len(s) : t[i] = s[(Len(s) - i) + 1]
  BY DEF Reverse
<1> HIDE DEF t
<1>2. \A i \in 1 .. Len(s) : (Len(s) - i) + 1 \in 1 .. Len(s) /\ s[i] = t[(Len(s) - i) + 1]
  BY <1>1
<1>3. Range(t) = {t[i] : i \in 1 .. Len(s)} /\ Range(s) = {s[i] : i \in 1 .. Len(s)}
  BY <1>1, RangeSeq
<1>4. Range(t) = Range(s)
  BY <1>1, <1>2, <1>3
<1> QED BY <1>1, <1>4 DEF t

-----------------------------------------------------------------------------
(* The parts of TypeOK, apart because the Boolean ones suit another prover. *)
FlagsOK == /\ interactive \in BOOLEAN /\ bg \in BOOLEAN /\ sigchld \in BOOLEAN
           /\ sigpipe \in [Pid -> BOOLEAN]
ProcsOK == /\ proc \in [Pid -> ProcState]
           /\ pgrp \in [Pid -> Pid \cup {Shell}]
           /\ leader \in [Pid -> Pid \cup {Shell}]
           /\ code \in [Pid -> Status]
           /\ tty \in Pid \cup {Shell}
PlaceOK == /\ disp \in {"babysit", "default"}
           /\ pc \in Places
           /\ caller \in {"none", "pipe", "abort", "builtin"}
           /\ cur \in Pid \cup {None}
CountOK == /\ stops \in 0 .. MaxStops
           /\ left \in 0 .. MaxStages
           /\ hpos \in 0 .. Len(jobs) + 1
           /\ reports \in [Pid -> 0 .. 2]
ListsOK == /\ jobs \in Seq(Pid) /\ unburied \in Seq(Pid) /\ jnew \in Seq(Pid)
           /\ job \in [Pid -> Job]

LEMMA TypeParts ==
  /\ TypeOK <=> FlagsOK /\ ProcsOK /\ PlaceOK /\ CountOK /\ ListsOK
  /\ TypeOK' <=> FlagsOK' /\ ProcsOK' /\ PlaceOK' /\ CountOK' /\ ListsOK'
BY Zenon DEF TypeOK, KernelTypeOK, FlagsOK, ProcsOK, PlaceOK, CountOK, ListsOK

TypeInv == TypeOK /\ Records

LEMMA InitTypeInv == Init => TypeInv
<1> SUFFICES ASSUME Init PROVE TypeInv
    OBVIOUS
<1> USE KernelAssumption, JobAssumption DEF Init, KernelInit
<1>1. FlagsOK
  BY Zenon DEF FlagsOK
<1>2. ProcsOK
  BY DEF ProcsOK, ProcState, Status
<1>3. PlaceOK
  BY DEF PlaceOK, Places
<1>4. ListsOK
  BY DEF ListsOK, Job, NoJob, Value
<1>5. CountOK
  BY <1>4 DEF CountOK, ListsOK
<1>6. Named = {}
  BY RangeSeq DEF Named, Range
<1>7. Records
  BY <1>6 DEF Records, NoJob, Working, Building, Idle
<1> QED BY <1>1, <1>2, <1>3, <1>4, <1>5, <1>7, TypeParts DEF TypeInv

LEMMA ChildrenTypeInv == TypeInv /\ Children => TypeInv'
<1> SUFFICES ASSUME TypeInv, Children PROVE TypeInv'
    OBVIOUS
<1>1. PICK p \in Pid : Child(p)
  BY DEF Children
<1>2. UNCHANGED <<interactive, jobs, job, funeral, control, reports>>
  BY DEF Children
<1>3. FlagsOK /\ ProcsOK /\ PlaceOK /\ CountOK /\ ListsOK
  BY TypeParts DEF TypeInv
<1> USE <1>1, <1>2, <1>3 DEF Child, ChildExec, Exit, Killed, DieOfSigpipe, Stop,
            Terminate, RaiseSigchld, control, funeral
<1>4. FlagsOK'
  BY Zenon DEF FlagsOK
<1>5. ProcsOK'
  BY DEF ProcsOK, ProcState, LiveState, Status
<1>6. PlaceOK' /\ ListsOK'
  BY DEF PlaceOK, ListsOK
<1>7. CountOK'
  <2>1. stops' = stops \/ (stops < MaxStops /\ stops' = stops + 1)
    BY Zenon
  <2>2. stops \in 0 .. MaxStops /\ MaxStops \in Nat
    BY KernelAssumption DEF CountOK
  <2>3. stops' \in 0 .. MaxStops
    BY ONLY <2>1, <2>2
  <2> QED BY <2>3 DEF CountOK
<1>8. Named' = Named /\ \A q \in Pid : proc'[q] = "free" => proc[q] = "free"
  BY DEF Named, ProcsOK, LiveState
<1>9. Records'
  BY <1>8 DEF Records, TypeInv
<1> QED BY <1>4, <1>5, <1>6, <1>7, <1>9, TypeParts DEF TypeInv

LEMMA JobFields ==
  ASSUME NEW r \in Job
  PROVE  /\ r.last \in Pid \cup {None} /\ r.status \in JobState \cup {"none"} /\ r.value \in Value
         /\ \A x \in JobState \cup {"none"} : [r EXCEPT !.status = x] \in Job
         /\ \A x \in Pid : [r EXCEPT !.last = x] \in Job
         /\ \A x \in JobState, v \in Value :
              LET e == [r EXCEPT !.status = x, !.value = v] IN
              e \in Job /\ e.last = r.last /\ e.status = x
BY DEF Job
LEMMA NoJobFields == NoJob \in Job /\ NoJob.last = None /\ NoJob.status = "none"
BY DEF NoJob, Job, Value
LEMMA ShownJob ==
  ASSUME NEW j \in Pid, NEW status, job[j] \in Job
  PROVE  /\ Shown(j, status) \in Job
         /\ Shown(j, status).last = job[j].last
         /\ Shown(j, status).status = "none" => job[j].status = "none"
<1>1. \A c \in ExitCodes : AsChar(c) \in Value
  BY KernelAssumption DEF AsChar, Value
<1>2. CASE status \in ExitCodes
  BY <1>1, <1>2 DEF Shown, Job, JobState
<1>3. CASE status \notin ExitCodes /\ status = Stopped
  BY <1>3 DEF Shown, Job, JobState
<1>4. CASE status \notin ExitCodes \cup {Stopped} /\ status = Signalled
  BY <1>4 DEF Shown, Job, JobState
<1>5. CASE status \notin ExitCodes \cup {Stopped, Signalled}
  BY <1>5 DEF Shown, Job, JobState
<1> QED BY <1>2, <1>3, <1>4, <1>5

LEMMA ForkProcs ==
  ASSUME NEW p \in Pid, Fork(p), ProcsOK, PlaceOK
  PROVE  ProcsOK'
<1> DEFINE g == IF interactive THEN IF cur = None THEN p ELSE cur ELSE Shell
<1>1. leader' = [leader EXCEPT ![p] = g] /\ g \in Pid \cup {Shell}
  BY DEF Fork, PlaceOK
<1>2. leader' \in [Pid -> Pid \cup {Shell}]
  BY ONLY <1>1, ProcsOK DEF ProcsOK
<1> QED BY <1>2 DEF Fork, ProcsOK, ProcState, LiveState

LEMMA ForkLists ==
  ASSUME NEW p \in Pid, Fork(p), ListsOK, PlaceOK
  PROVE  ListsOK'
<1> DEFINE lead == IF cur = None THEN p ELSE cur
<1>1. lead \in Pid /\ job' = [job EXCEPT ![lead] = [@ EXCEPT !.last = p]]
  BY DEF Fork, PlaceOK
<1>2. job[lead] \in Job /\ [job[lead] EXCEPT !.last = p] \in Job
  BY <1>1, JobFields DEF ListsOK
<1>3. job' \in [Pid -> Job]
  BY ONLY <1>1, <1>2, ListsOK DEF ListsOK
<1> QED BY <1>3 DEF ListsOK, Fork, funeral

LEMMA NullCommandRecords ==
  ASSUME NullCommand, ListsOK, Records, PlaceOK
  PROVE  Records'
<1>1. Named' = Named /\ interactive' = interactive /\ proc' = proc /\ ~(pc' \in Working \cup Building)
      /\ cur' = None
  BY DEF NullCommand, Return, funeral, Named, processes, Working, Building, Idle, Idle
<1>2. \A j \in Pid : job'[j] = job[j] \/ (j = cur /\ job'[j] = NoJob)
  BY DEF NullCommand
<1>3. Named \subseteq Pid
  BY RangeSeq DEF Named, ListsOK
<1>4. cur \notin Named
  BY <1>3, JobAssumption DEF NullCommand, At, Records, Building, PlaceOK
<1> QED BY <1>1, <1>2, <1>3, <1>4, NoJobFields DEF Records


LEMMA RegisterLists ==
  ASSUME Register, ListsOK, Records
  PROVE  /\ ListsOK'
         /\ cur \in Pid /\ (interactive => jobs' = <<cur>> \o jobs) /\ (~interactive => jobs' = jobs)
         /\ \A j \in Pid : j # cur => job'[j] = job[j]
         /\ job'[cur].last = job[cur].last \/ (~interactive /\ pc' = "eval" /\ job'[cur] = NoJob)
         /\ job'[cur].status = "running" \/ (~interactive /\ pc' = "eval" /\ job'[cur] = NoJob)
<1> DEFINE r == IF bg /\ ~interactive THEN NoJob ELSE [job[cur] EXCEPT !.status = "running", !.value = 0]
<1>1. cur \in Pid /\ job[cur] \in Job /\ 0 \in Value /\ job' = [job EXCEPT ![cur] = r]
  BY DEF Register, At, Records, Working, ListsOK, Value
<1>2. CASE bg /\ ~interactive
  <2>1. r = NoJob /\ pc' = "eval"
    BY <1>2 DEF Register, Return
  <2> QED BY <1>1, <1>2, <2>1, NoJobFields DEF ListsOK, Register, funeral
<1>3. CASE ~(bg /\ ~interactive)
  <2>1. r = [job[cur] EXCEPT !.status = "running", !.value = 0]
    BY <1>3
  <2>2. r \in Job /\ r.last = job[cur].last /\ r.status = "running"
    <3>1. \A q \in Job : LET e == [q EXCEPT !.status = "running", !.value = 0] IN
                          e \in Job /\ e.last = q.last /\ e.status = "running"
      BY <1>1 DEF Job, JobState
    <3> QED BY <1>1, <2>1, <3>1
  <2>3. jobs' \in Seq(Pid)
    BY <1>1, RangeCons DEF Register, ListsOK
  <2> HIDE DEF r
  <2> QED BY <1>1, <2>2, <2>3 DEF ListsOK, Register, funeral
<1> QED BY <1>2, <1>3

LEMMA RegisterRecords ==
  ASSUME Register, ListsOK, Records
  PROVE  Records'
<1>1. Named' = Named \cup (IF interactive THEN {cur} ELSE {})
  BY RegisterLists, RangeCons DEF Register, ListsOK, funeral, Named
<1>2. cur \in Pid /\ job[cur].last \in Pid
  BY DEF Register, At, Records, Working, ListsOK
<1>3. interactive' = interactive /\ proc' = proc /\ proc[cur] # "free"
  BY <1>2, NoJobFields, JobAssumption DEF Register, Records, processes
<1>4. pc' \in {"eval", "tty", "run"} /\ (cur' = cur \/ pc' = "eval")
      /\ (pc' = "eval" => cur' = None)
  BY DEF Register, Return, Goto
<1>5. Named \subseteq Pid
  BY RangeSeq DEF Named, ListsOK
<1> QED BY RegisterLists, <1>1, <1>2, <1>3, <1>4, <1>5, NoJobFields DEF Records, Working, Building, Idle

LEMMA WaitRestoreLists ==
  ASSUME WaitRestore, ListsOK
  PROVE  ListsOK'
<1>1. job' = job \/ \A j \in Pid : job'[j] \in {job[j], NoJob}
  BY DEF WaitRestore
<1>2. job' \in [Pid -> Job]
  BY <1>1, NoJobFields DEF WaitRestore, ListsOK
<1> QED BY <1>2 DEF WaitRestore, ListsOK, funeral

LEMMA WaitRestoreRecords ==
  ASSUME WaitRestore, ListsOK, Records
  PROVE  Records'
<1>1. Named' = Named /\ interactive' = interactive /\ proc' = proc
  BY DEF WaitRestore, funeral, Named, processes
<1>2. ~interactive \/ job' = job
  BY DEF WaitRestore
<1>3. \A j \in Pid : job'[j] \in {job[j], NoJob}
  BY DEF WaitRestore
<1>4. (pc' = "eval" /\ cur' = None) \/ pc' = "back"
  BY DEF WaitRestore, Goto, Return
<1> QED BY <1>1, <1>2, <1>3, <1>4, NoJobFields DEF Records, Working, Building, Idle

LEMMA WaitLastJob ==
  ASSUME WaitLast, ListsOK, Records
  PROVE  cur \in Pid /\ (job' = job \/ \E status : job' = [job EXCEPT ![cur] = Shown(cur, status)])
BY DEF WaitLast, ShowAndHangUp, Records, Working, At

LEMMA ShowLists ==
  ASSUME NEW j \in Pid, NEW status, ListsOK, job' = [job EXCEPT ![j] = Shown(j, status)]
  PROVE  /\ job' \in [Pid -> Job]
         /\ \A i \in Pid : /\ job'[i].last = job[i].last
                           /\ job'[i].status = "none" => job[i].status = "none"
                           /\ i # j => job'[i] = job[i]
<1>1. job[j] \in Job
  BY DEF ListsOK
<1> QED BY <1>1, ShownJob DEF ListsOK

LEMMA WaitLastCount ==
  ASSUME WaitLast, CountOK, ListsOK, Records
  PROVE  CountOK'
<1>1. hpos' = hpos /\ left' = left /\ stops' = stops /\ jobs' = jobs
  BY DEF WaitLast, Goto
<1>2. reports' = reports \/ (reports[cur] < 2 /\ reports' = [reports EXCEPT ![cur] = @ + 1])
  BY DEF WaitLast, ShowAndHangUp
<1>3. reports' \in [Pid -> 0 .. 2]
  BY <1>2 DEF CountOK
<1> QED BY <1>1, <1>3 DEF CountOK

LEMMA BuryLists ==
  ASSUME Bury, ListsOK, Records
  PROVE  ListsOK' /\ Named' \subseteq Named
<1> DEFINE h == Head(unburied)
<1>1. h \in Pid /\ h \in Named /\ Tail(unburied) \in Seq(Pid) /\ Range(Tail(unburied)) \subseteq Range(unburied)
  BY RangeTail, RangeSeq DEF Bury, ListsOK, Named
<1>2. job[h] \in Job /\ (job' = job \/ job' = [job EXCEPT ![h] = [job[h] EXCEPT !.status = "none"]])
  BY <1>1 DEF Bury, ListsOK
<1>3. job' \in [Pid -> Job]
  <2>1. [job[h] EXCEPT !.status = "none"] \in Job
    BY <1>2, JobFields
  <2> QED BY ONLY <1>1, <1>2, <2>1, ListsOK DEF ListsOK
<1>4. <<h>> \o jnew \in Seq(Pid) /\ Range(<<h>> \o jnew) = {h} \cup Range(jnew)
  BY <1>1, RangeCons DEF ListsOK
<1>5. unburied' = Tail(unburied) /\ jobs' = jobs /\ jnew' \in {jnew, <<h>> \o jnew}
  BY DEF Bury
<1> HIDE DEF h
<1>6. ListsOK'
  BY <1>1, <1>3, <1>4, <1>5 DEF ListsOK
<1>7. Named' \subseteq Named
  BY <1>1, <1>4, <1>5 DEF Named
<1> QED BY <1>6, <1>7

LEMMA SwapLists ==
  ASSUME SwapJobs, ListsOK, Records
  PROVE  ListsOK' /\ Named' \subseteq Named
<1>0. <<>> \in Seq(Pid) /\ Range(<<>>) = {}
  BY DEF Range
<1>1. Survivors \in Seq(Pid) /\ Range(Survivors) = Range(jnew)
  BY RangeReverse DEF Survivors, ListsOK
<1>2. ListsOK'
  BY <1>0, <1>1 DEF SwapJobs, ListsOK
<1>3. Named' \subseteq Named
  BY <1>0, <1>1 DEF SwapJobs, Named
<1> QED BY <1>2, <1>3

LEMMA StartRecords ==
  ASSUME NEW n \in 1 .. MaxStages, NEW b \in BOOLEAN, StartPipe(n, b), Records
  PROVE  Records'
<1>1. Named' = Named /\ interactive' = interactive /\ proc' = proc /\ job' = job /\ cur' = cur
      /\ pc = "eval" /\ pc' = "fork"
  BY DEF StartPipe, At, processes, funeral, Named
<1> QED BY <1>1 DEF Records, Working, Building, Idle

(* A step that keeps each record, or only writes its status, keeps Records. *)
LEMMA RecordsFrame ==
  ASSUME Records, Named' \subseteq Named, Named \subseteq Pid, interactive' = interactive,
         \A q \in Pid : proc'[q] = "free" => proc[q] = "free" /\ job'[q] = job[q],
         \A j \in Pid : /\ job'[j].last = job[j].last
                        /\ job'[j].status = "none" \/ job[j].status # "none"
                             \/ job'[j].status = job[j].status,
         pc' \in Working => cur' \in Pid /\ job[cur'].last \in Pid,
         pc' \notin Building, pc' \in Idle => cur' = None
  PROVE  Records'
BY DEF Records

LEMMA NamedInPid == ASSUME ListsOK PROVE Named \subseteq Pid
BY RangeSeq DEF ListsOK, Named

LEMMA BuryRecords ==
  ASSUME Bury, ListsOK, ProcsOK, Records
  PROVE  Records'
<1> DEFINE h == Head(unburied)
<1>1. h \in Pid /\ h \in Named
  BY RangeTail, RangeSeq DEF Bury, ListsOK, Named
<1>2. job' = job \/ job' = [job EXCEPT ![h] = [job[h] EXCEPT !.status = "none"]]
  BY DEF Bury
<1>3. proc[h] # "free"
  BY <1>1, NoJobFields, JobAssumption DEF Records
<1>4. job[h] \in Job
  BY <1>1 DEF ListsOK
<1>5. \A j \in Pid : /\ job'[j].last = job[j].last
                     /\ job'[j] = job[j] \/ (j = h /\ job'[j].status = "none")
  <2>1. [job[h] EXCEPT !.status = "none"].last = job[h].last
        /\ [job[h] EXCEPT !.status = "none"].status = "none"
    BY <1>4 DEF Job
  <2> QED BY ONLY <1>1, <1>2, <2>1, ListsOK DEF ListsOK
<1>6. Named' \subseteq Named
  BY BuryLists
<1>7. proc' = proc /\ interactive' = interactive /\ cur' = cur /\ pc' = pc /\ pc = "bury"
  BY DEF Bury, processes, control, At
<1> HIDE DEF h
<1> QED BY ONLY <1>1, <1>3, <1>5, <1>6, <1>7, Records, NamedInPid, ListsOK DEF Records, Working, Building, Idle

LEMMA SwapRecords ==
  ASSUME SwapJobs, ListsOK, Records
  PROVE  Records'
<1>1. Named' \subseteq Named /\ Named \subseteq Pid
  BY SwapLists, NamedInPid
<1>2. proc' = proc /\ interactive' = interactive /\ cur' = cur /\ pc' = "eval" /\ pc = "swap"
      /\ job' = job
  BY DEF SwapJobs, processes, Goto, At
<1> QED BY <1>1, <1>2 DEF Records, Working, Building, Idle

LEMMA WaitLastRecords ==
  ASSUME WaitLast, ListsOK, ProcsOK, Records
  PROVE  ListsOK' /\ Records'
<1>1. cur \in Pid /\ job[cur].last \in Pid /\ job[cur].last # None
  BY JobAssumption DEF WaitLast, Records, Working, At
<1>2. job' \in [Pid -> Job] /\ \A i \in Pid : job'[i].last = job[i].last /\ (i # cur => job'[i] = job[i])
  BY WaitLastJob, ShowLists DEF ListsOK
<1>3. proc[cur] # "free"
  BY <1>1, NoJobFields DEF Records
<1>4. Named' = Named /\ interactive' = interactive /\ jobs' = jobs /\ unburied' = unburied /\ jnew' = jnew
  BY DEF WaitLast, funeral, Named
<1>5. \A q \in Pid : proc'[q] = "free" => proc[q] = "free"
  BY DEF WaitLast, WaitFor, Report, Reportable, ProcsOK
<1>6. pc' \in {"group", "restore"} /\ cur' = cur
  BY DEF WaitLast, Goto
<1>7. ListsOK'
  BY <1>2, <1>4 DEF ListsOK
<1>8. Named \subseteq Pid
  BY NamedInPid
<1>9. Records'
  BY <1>1, <1>2, <1>3, <1>4, <1>5, <1>6, <1>8 DEF Records, Working, Building, Idle
<1> QED BY <1>7, <1>9

LEMMA ReapRecords ==
  ASSUME NEW p \in Pid, BabysitReap(p), ListsOK, ProcsOK, PlaceOK, Records
  PROVE  ListsOK' /\ Records'
<1> DEFINE j == jobs[hpos]
<1>1. j \in Pid /\ job[j].status # "none"
  BY DEF BabysitReap, ListsOK
<1>2. job' = job \/ \E status : job' = [job EXCEPT ![j] = Shown(j, status)]
  BY DEF BabysitReap, ShowAndHangUp
<1> HIDE DEF j
<1>3. /\ job' \in [Pid -> Job]
      /\ \A i \in Pid : /\ job'[i].last = job[i].last
                        /\ job'[i].status = "none" => job[i].status = "none"
                        /\ i # j => job'[i] = job[i]
  BY <1>1, <1>2, ShowLists DEF ListsOK
<1>4. proc[j] # "free"
  BY <1>1, NoJobFields DEF Records
<1>5. Named' = Named /\ interactive' = interactive /\ jobs' = jobs /\ unburied' = unburied /\ jnew' = jnew
      /\ pc' = pc /\ cur' = cur
  BY DEF BabysitReap, funeral, Named, control
<1>6. \A q \in Pid : proc'[q] = "free" => proc[q] = "free"
  BY DEF BabysitReap, Report, ProcsOK
<1>7. ListsOK'
  BY <1>3, <1>5 DEF ListsOK
<1>8. Named \subseteq Pid
  BY NamedInPid
<1>9. cur \in Pid \cup {None}
  BY DEF PlaceOK
<1>10. Records'
  BY <1>1, <1>3, <1>4, <1>5, <1>6, <1>8, <1>9 DEF Records, Working, Building, Idle
<1> QED BY <1>7, <1>10

LEMMA CommandRecords ==
  ASSUME NEW i \in 0 .. Len(jobs), NEW place \in {"tty", "bcheck"}, Command(i, place), ListsOK, Records
  PROVE  Records'
<1>1. Named' = Named /\ interactive' = interactive /\ proc' = proc /\ job' = job /\ pc = "eval"
  BY DEF Command, At, processes, funeral, Named
<1>2. \/ pc' = "nulljob" /\ cur' = cur
      \/ pc' = place /\ cur' = jobs[i + 1] /\ i + 1 \in 1 .. Len(jobs)
  BY DEF Command, ListsOK
<1>3. \A k \in 1 .. Len(jobs) : jobs[k] \in Pid /\ jobs[k] \in Named
  BY RangeSeq DEF ListsOK, Named
<1> QED BY <1>1, <1>2, <1>3 DEF Records, Working, Building, Idle

LEMMA LaunchingTypeInv == TypeInv /\ Launching => TypeInv'
<1> SUFFICES ASSUME TypeInv, Launching PROVE TypeInv'
    OBVIOUS
<1>1. FlagsOK /\ ProcsOK /\ PlaceOK /\ CountOK /\ ListsOK /\ Records
  BY TypeParts DEF TypeInv
<1>2. CASE \E p \in Pid : Fork(p)
  <2>7. PICK p \in Pid : Fork(p)
    BY <1>2
  <2> USE <2>7 DEF Fork, At, Goto, Return, control, funeral, processes, signals
  <2>1. FlagsOK'
    BY <1>1, Zenon DEF FlagsOK
  <2>2. ProcsOK'
    BY ONLY <2>7, <1>1, ForkProcs
  <2>3. PlaceOK'
    BY <1>1 DEF PlaceOK, Places, ListsOK
  <2>4. CountOK'
    BY <1>1, JobAssumption DEF CountOK, ListsOK
  <2>5. ListsOK'
    BY ONLY <2>7, <1>1, ForkLists
  <2>6. Records'
    BY <1>1, JobAssumption DEF Records, Building, Working, Named, NoJob, ListsOK, ProcsOK, Job, PlaceOK, Idle
  <2> QED BY ONLY <2>1, <2>2, <2>3, <2>4, <2>5, <2>6, TypeParts DEF TypeInv
<1>3. CASE SetPgid
  <2> USE <1>3 DEF SetPgid, ParentSetpgid, At, Goto, Return, control, funeral, processes, signals
  <2>1. FlagsOK'
    BY <1>1, Zenon DEF FlagsOK
  <2>2. ProcsOK'
    BY <1>1 DEF ProcsOK, ProcState, LiveState, Records, Working
  <2>3. PlaceOK'
    BY <1>1 DEF PlaceOK, Places, ListsOK
  <2>4. CountOK'
    BY <1>1, JobAssumption DEF CountOK, ListsOK
  <2>5. ListsOK'
    BY <1>1, JobAssumption DEF ListsOK, Job, NoJob, Value, JobState, Records, Working
  <2>6. Records'
    BY <1>1, JobAssumption DEF Records, Building, Working, Named, NoJob, ListsOK, ProcsOK, Job, PlaceOK, Idle
  <2> QED BY ONLY <2>1, <2>2, <2>3, <2>4, <2>5, <2>6, TypeParts DEF TypeInv
<1>4. CASE NullCommand
  <2> USE <1>4 DEF NullCommand, At, Goto, Return, control, funeral, processes, signals
  <2>1. FlagsOK'
    BY <1>1, Zenon DEF FlagsOK
  <2>2. ProcsOK'
    BY <1>1 DEF ProcsOK, ProcState, LiveState, Records, Working
  <2>3. PlaceOK'
    BY <1>1 DEF PlaceOK, Places, ListsOK
  <2>4. CountOK'
    BY <1>1, JobAssumption DEF CountOK, ListsOK
  <2>5. ListsOK'
    BY <1>1, JobAssumption DEF ListsOK, Job, NoJob, Value, JobState, Records, Working
  <2>6. Records'
    BY ONLY <1>4, <1>1, NullCommandRecords
  <2> QED BY ONLY <2>1, <2>2, <2>3, <2>4, <2>5, <2>6, TypeParts DEF TypeInv
<1>5. CASE AbortForeground
  <2> USE <1>5 DEF AbortForeground, DefaultSigchld, At, Goto, Return, control, funeral, processes, signals
  <2>1. FlagsOK'
    BY <1>1, Zenon DEF FlagsOK
  <2>2. ProcsOK'
    BY <1>1 DEF ProcsOK, ProcState, LiveState, Records, Working
  <2>3. PlaceOK'
    BY <1>1 DEF PlaceOK, Places, ListsOK
  <2>4. CountOK'
    BY <1>1, JobAssumption DEF CountOK, ListsOK
  <2>5. ListsOK'
    BY <1>1, JobAssumption DEF ListsOK, Job, NoJob, Value, JobState, Records, Working
  <2>6. Records'
    BY <1>1, JobAssumption DEF Records, Building, Working, Named, NoJob, ListsOK, ProcsOK, Job, PlaceOK, Idle
  <2> QED BY ONLY <2>1, <2>2, <2>3, <2>4, <2>5, <2>6, TypeParts DEF TypeInv
<1>6. CASE AbortWait
  <2> USE <1>6 DEF AbortWait, Report, Reportable, Members, At, Goto, Return, control, funeral, processes, signals
  <2>1. FlagsOK'
    BY <1>1, Zenon DEF FlagsOK
  <2>2. ProcsOK'
    BY <1>1 DEF ProcsOK, ProcState, LiveState, Records, Working
  <2>3. PlaceOK'
    BY <1>1 DEF PlaceOK, Places, ListsOK
  <2>4. CountOK'
    BY <1>1, JobAssumption DEF CountOK, ListsOK
  <2>5. ListsOK'
    BY <1>1, JobAssumption DEF ListsOK, Job, NoJob, Value, JobState, Records, Working
  <2>6. Records'
    BY <1>1, JobAssumption DEF Records, Building, Working, Named, NoJob, ListsOK, ProcsOK, Job, PlaceOK, Idle
  <2> QED BY ONLY <2>1, <2>2, <2>3, <2>4, <2>5, <2>6, TypeParts DEF TypeInv
<1>7. CASE Register
  <2> USE <1>7 DEF Register, At, Goto, Return, control, funeral, processes, signals
  <2>1. FlagsOK'
    BY <1>1, Zenon DEF FlagsOK
  <2>2. ProcsOK'
    BY <1>1 DEF ProcsOK, ProcState, LiveState, Records, Working
  <2>3. PlaceOK'
    BY <1>1 DEF PlaceOK, Places, ListsOK
  <2>4. CountOK'
    BY <1>1, JobAssumption DEF CountOK, ListsOK
  <2>5. ListsOK'
    BY ONLY <1>7, <1>1, RegisterLists
  <2>6. Records'
    BY ONLY <1>7, <1>1, RegisterRecords
  <2> QED BY ONLY <2>1, <2>2, <2>3, <2>4, <2>5, <2>6, TypeParts DEF TypeInv
<1> QED BY ONLY Launching, <1>2, <1>3, <1>4, <1>5, <1>6, <1>7 DEF Launching

LEMMA ForegroundTypeInv == TypeInv /\ Foreground => TypeInv'
<1> SUFFICES ASSUME TypeInv, Foreground PROVE TypeInv'
    OBVIOUS
<1>1. FlagsOK /\ ProcsOK /\ PlaceOK /\ CountOK /\ ListsOK /\ Records
  BY TypeParts DEF TypeInv
<1>2. CASE ForegroundTty
  <2> USE <1>2 DEF ForegroundTty, SetTerminal, At, Goto, Return, control, funeral, processes, signals
  <2>1. FlagsOK'
    BY <1>1, Zenon DEF FlagsOK
  <2>2. ProcsOK'
    BY <1>1 DEF ProcsOK, ProcState, LiveState, Records, Working
  <2>3. PlaceOK'
    BY <1>1 DEF PlaceOK, Places, ListsOK
  <2>4. CountOK'
    BY <1>1, JobAssumption DEF CountOK, ListsOK
  <2>5. ListsOK'
    BY <1>1, JobAssumption DEF ListsOK, Job, NoJob, Value, JobState, Records, Working
  <2>6. Records'
    BY <1>1, JobAssumption DEF Records, Building, Working, Named, NoJob, ListsOK, ProcsOK, Job, PlaceOK, Idle
  <2> QED BY ONLY <2>1, <2>2, <2>3, <2>4, <2>5, <2>6, TypeParts DEF TypeInv
<1>3. CASE ForegroundCheck
  <2> USE <1>3 DEF ForegroundCheck, At, Goto, Return, control, funeral, processes, signals
  <2>1. FlagsOK'
    BY <1>1, Zenon DEF FlagsOK
  <2>2. ProcsOK'
    BY <1>1 DEF ProcsOK, ProcState, LiveState, Records, Working
  <2>3. PlaceOK'
    BY <1>1 DEF PlaceOK, Places, ListsOK
  <2>4. CountOK'
    BY <1>1, JobAssumption DEF CountOK, ListsOK
  <2>5. ListsOK'
    BY <1>1, JobAssumption DEF ListsOK, Job, NoJob, Value, JobState, Records, Working
  <2>6. Records'
    BY <1>1, JobAssumption DEF Records, Building, Working, Named, NoJob, ListsOK, ProcsOK, Job, PlaceOK, Idle
  <2> QED BY ONLY <2>1, <2>2, <2>3, <2>4, <2>5, <2>6, TypeParts DEF TypeInv
<1>4. CASE ForegroundCont
  <2> USE <1>4 DEF ForegroundCont, Continue, SendSigcont, At, Goto, Return, control, funeral, processes, signals
  <2>1. FlagsOK'
    BY <1>1, Zenon DEF FlagsOK
  <2>2. ProcsOK'
    BY <1>1 DEF ProcsOK, ProcState, LiveState, Records, Working
  <2>3. PlaceOK'
    BY <1>1 DEF PlaceOK, Places, ListsOK
  <2>4. CountOK'
    BY <1>1, JobAssumption DEF CountOK, ListsOK
  <2>5. ListsOK'
    BY <1>1, JobAssumption DEF ListsOK, Job, NoJob, Value, JobState, Records, Working
  <2>6. Records'
    BY <1>1, JobAssumption DEF Records, Building, Working, Named, NoJob, ListsOK, ProcsOK, Job, PlaceOK, Idle
  <2> QED BY ONLY <2>1, <2>2, <2>3, <2>4, <2>5, <2>6, TypeParts DEF TypeInv
<1>5. CASE ForegroundRun
  <2> USE <1>5 DEF ForegroundRun, At, Goto, Return, control, funeral, processes, signals
  <2>1. FlagsOK'
    BY <1>1, Zenon DEF FlagsOK
  <2>2. ProcsOK'
    BY <1>1 DEF ProcsOK, ProcState, LiveState, Records, Working
  <2>3. PlaceOK'
    BY <1>1 DEF PlaceOK, Places, ListsOK
  <2>4. CountOK'
    BY <1>1, JobAssumption DEF CountOK, ListsOK
  <2>5. ListsOK'
    BY <1>1, JobFields DEF ListsOK, Records, Working, JobState
  <2>6. Records'
    BY <1>1, JobAssumption DEF Records, Building, Working, Named, NoJob, ListsOK, ProcsOK, Job, PlaceOK, Idle
  <2> QED BY ONLY <2>1, <2>2, <2>3, <2>4, <2>5, <2>6, TypeParts DEF TypeInv
<1>6. CASE WaitDefault
  <2> USE <1>6 DEF WaitDefault, DefaultSigchld, At, Goto, Return, control, funeral, processes, signals
  <2>1. FlagsOK'
    BY <1>1, Zenon DEF FlagsOK
  <2>2. ProcsOK'
    BY <1>1 DEF ProcsOK, ProcState, LiveState, Records, Working
  <2>3. PlaceOK'
    BY <1>1 DEF PlaceOK, Places, ListsOK
  <2>4. CountOK'
    BY <1>1, JobAssumption DEF CountOK, ListsOK
  <2>5. ListsOK'
    BY <1>1, JobAssumption DEF ListsOK, Job, NoJob, Value, JobState, Records, Working
  <2>6. Records'
    BY <1>1, JobAssumption DEF Records, Building, Working, Named, NoJob, ListsOK, ProcsOK, Job, PlaceOK, Idle
  <2> QED BY ONLY <2>1, <2>2, <2>3, <2>4, <2>5, <2>6, TypeParts DEF TypeInv
<1>7. CASE WaitLast
  <2> USE <1>7 DEF WaitLast, WaitFor, Report, Reportable, ShowAndHangUp, HangUp, SendSigpipe, Shown, AsChar, At, Goto, Return, control, funeral, processes, signals
  <2>1. FlagsOK'
    BY <1>1, Zenon DEF FlagsOK
  <2>2. ProcsOK'
    BY <1>1 DEF ProcsOK, ProcState, LiveState, Records, Working
  <2>3. PlaceOK'
    BY <1>1 DEF PlaceOK, Places, ListsOK
  <2>4. CountOK'
    BY ONLY <1>7, <1>1, WaitLastCount
  <2>5. ListsOK'
    BY ONLY <1>7, <1>1, WaitLastRecords
  <2>6. Records'
    BY ONLY <1>7, <1>1, WaitLastRecords
  <2> QED BY ONLY <2>1, <2>2, <2>3, <2>4, <2>5, <2>6, TypeParts DEF TypeInv
<1>8. CASE WaitGroup
  <2> USE <1>8 DEF WaitGroup, Report, Reportable, Members, At, Goto, Return, control, funeral, processes, signals
  <2>1. FlagsOK'
    BY <1>1, Zenon DEF FlagsOK
  <2>2. ProcsOK'
    BY <1>1 DEF ProcsOK, ProcState, LiveState, Records, Working
  <2>3. PlaceOK'
    BY <1>1 DEF PlaceOK, Places, ListsOK
  <2>4. CountOK'
    BY <1>1, JobAssumption DEF CountOK, ListsOK
  <2>5. ListsOK'
    BY <1>1, JobAssumption DEF ListsOK, Job, NoJob, Value, JobState, Records, Working
  <2>6. Records'
    BY <1>1, JobAssumption DEF Records, Building, Working, Named, NoJob, ListsOK, ProcsOK, Job, PlaceOK, Idle
  <2> QED BY ONLY <2>1, <2>2, <2>3, <2>4, <2>5, <2>6, TypeParts DEF TypeInv
<1>9. CASE WaitRestore
  <2> USE <1>9 DEF WaitRestore, At, Goto, Return, control, funeral, processes, signals
  <2>1. FlagsOK'
    BY <1>1, Zenon DEF FlagsOK
  <2>2. ProcsOK'
    BY <1>1 DEF ProcsOK, ProcState, LiveState, Records, Working
  <2>3. PlaceOK'
    BY <1>1 DEF PlaceOK, Places, ListsOK
  <2>4. CountOK'
    BY <1>1, JobAssumption DEF CountOK, ListsOK
  <2>5. ListsOK'
    BY ONLY <1>9, <1>1, WaitRestoreLists
  <2>6. Records'
    BY ONLY <1>9, <1>1, WaitRestoreRecords
  <2> QED BY ONLY <2>1, <2>2, <2>3, <2>4, <2>5, <2>6, TypeParts DEF TypeInv
<1>10. CASE ForegroundBack
  <2> USE <1>10 DEF ForegroundBack, TakeTerminal, SetTerminal, At, Goto, Return, control, funeral, processes, signals
  <2>1. FlagsOK'
    BY <1>1, Zenon DEF FlagsOK
  <2>2. ProcsOK'
    BY <1>1 DEF ProcsOK, ProcState, LiveState, Records, Working
  <2>3. PlaceOK'
    BY <1>1 DEF PlaceOK, Places, ListsOK
  <2>4. CountOK'
    BY <1>1, JobAssumption DEF CountOK, ListsOK
  <2>5. ListsOK'
    BY <1>1, JobAssumption DEF ListsOK, Job, NoJob, Value, JobState, Records, Working
  <2>6. Records'
    BY <1>1, JobAssumption DEF Records, Building, Working, Named, NoJob, ListsOK, ProcsOK, Job, PlaceOK, Idle
  <2> QED BY ONLY <2>1, <2>2, <2>3, <2>4, <2>5, <2>6, TypeParts DEF TypeInv
<1> QED BY ONLY Foreground, <1>2, <1>3, <1>4, <1>5, <1>6, <1>7, <1>8, <1>9, <1>10 DEF Foreground

LEMMA BackgroundTypeInv == TypeInv /\ Background => TypeInv'
<1> SUFFICES ASSUME TypeInv, Background PROVE TypeInv'
    OBVIOUS
<1>1. FlagsOK /\ ProcsOK /\ PlaceOK /\ CountOK /\ ListsOK /\ Records
  BY TypeParts DEF TypeInv
<1>2. CASE BackgroundCheck
  <2> USE <1>2 DEF BackgroundCheck, At, Goto, Return, control, funeral, processes, signals
  <2>1. FlagsOK'
    BY <1>1, Zenon DEF FlagsOK
  <2>2. ProcsOK'
    BY <1>1 DEF ProcsOK, ProcState, LiveState, Records, Working
  <2>3. PlaceOK'
    BY <1>1 DEF PlaceOK, Places, ListsOK
  <2>4. CountOK'
    BY <1>1, JobAssumption DEF CountOK, ListsOK
  <2>5. ListsOK'
    BY <1>1, JobAssumption DEF ListsOK, Job, NoJob, Value, JobState, Records, Working
  <2>6. Records'
    BY <1>1, JobAssumption DEF Records, Building, Working, Named, NoJob, ListsOK, ProcsOK, Job, PlaceOK, Idle
  <2> QED BY ONLY <2>1, <2>2, <2>3, <2>4, <2>5, <2>6, TypeParts DEF TypeInv
<1>3. CASE BackgroundCont
  <2> USE <1>3 DEF BackgroundCont, Continue, SendSigcont, At, Goto, Return, control, funeral, processes, signals
  <2>1. FlagsOK'
    BY <1>1, Zenon DEF FlagsOK
  <2>2. ProcsOK'
    BY <1>1 DEF ProcsOK, ProcState, LiveState, Records, Working
  <2>3. PlaceOK'
    BY <1>1 DEF PlaceOK, Places, ListsOK
  <2>4. CountOK'
    BY <1>1, JobAssumption DEF CountOK, ListsOK
  <2>5. ListsOK'
    BY <1>1, JobAssumption DEF ListsOK, Job, NoJob, Value, JobState, Records, Working
  <2>6. Records'
    BY <1>1, JobAssumption DEF Records, Building, Working, Named, NoJob, ListsOK, ProcsOK, Job, PlaceOK, Idle
  <2> QED BY ONLY <2>1, <2>2, <2>3, <2>4, <2>5, <2>6, TypeParts DEF TypeInv
<1>4. CASE BackgroundRun
  <2> USE <1>4 DEF BackgroundRun, At, Goto, Return, control, funeral, processes, signals
  <2>1. FlagsOK'
    BY <1>1, Zenon DEF FlagsOK
  <2>2. ProcsOK'
    BY <1>1 DEF ProcsOK, ProcState, LiveState, Records, Working
  <2>3. PlaceOK'
    BY <1>1 DEF PlaceOK, Places, ListsOK
  <2>4. CountOK'
    BY <1>1, JobAssumption DEF CountOK, ListsOK
  <2>5. ListsOK'
    BY <1>1, JobFields DEF ListsOK, Records, Working, JobState
  <2>6. Records'
    BY <1>1, JobAssumption DEF Records, Building, Working, Named, NoJob, ListsOK, ProcsOK, Job, PlaceOK, Idle
  <2> QED BY ONLY <2>1, <2>2, <2>3, <2>4, <2>5, <2>6, TypeParts DEF TypeInv
<1> QED BY ONLY Background, <1>2, <1>3, <1>4 DEF Background

LEMMA FuneralTypeInv == TypeInv /\ Funeral => TypeInv'
<1> SUFFICES ASSUME TypeInv, Funeral PROVE TypeInv'
    OBVIOUS
<1>1. FlagsOK /\ ProcsOK /\ PlaceOK /\ CountOK /\ ListsOK /\ Records
  BY TypeParts DEF TypeInv
<1>2. CASE Bury
  <2> USE <1>2 DEF Bury, At, Goto, Return, control, funeral, processes, signals
  <2>1. FlagsOK'
    BY <1>1, Zenon DEF FlagsOK
  <2>2. ProcsOK'
    BY <1>1 DEF ProcsOK, ProcState, LiveState, Records, Working
  <2>3. PlaceOK'
    BY <1>1 DEF PlaceOK, Places, ListsOK
  <2>4. CountOK'
    BY <1>1, JobAssumption DEF CountOK, ListsOK
  <2>5. ListsOK'
    BY ONLY <1>2, <1>1, BuryLists
  <2>6. Records'
    BY ONLY <1>2, <1>1, BuryRecords
  <2> QED BY ONLY <2>1, <2>2, <2>3, <2>4, <2>5, <2>6, TypeParts DEF TypeInv
<1>3. CASE FreeList
  <2> USE <1>3 DEF FreeList, At, Goto, Return, control, funeral, processes, signals
  <2>1. FlagsOK'
    BY <1>1, Zenon DEF FlagsOK
  <2>2. ProcsOK'
    BY <1>1 DEF ProcsOK, ProcState, LiveState, Records, Working
  <2>3. PlaceOK'
    BY <1>1 DEF PlaceOK, Places, ListsOK
  <2>4. CountOK'
    BY <1>1, JobAssumption DEF CountOK, ListsOK
  <2>5. ListsOK'
    BY <1>1, JobAssumption DEF ListsOK, Job, NoJob, Value, JobState, Records, Working
  <2>6. Records'
    BY <1>1, JobAssumption DEF Records, Building, Working, Named, NoJob, ListsOK, ProcsOK, Job, PlaceOK, Idle
  <2> QED BY ONLY <2>1, <2>2, <2>3, <2>4, <2>5, <2>6, TypeParts DEF TypeInv
<1>4. CASE SwapJobs
  <2> USE <1>4 DEF SwapJobs, Survivors, At, Goto, Return, control, funeral, processes, signals
  <2>1. FlagsOK'
    BY <1>1, Zenon DEF FlagsOK
  <2>2. ProcsOK'
    BY <1>1 DEF ProcsOK, ProcState, LiveState, Records, Working
  <2>3. PlaceOK'
    BY <1>1 DEF PlaceOK, Places, ListsOK
  <2>4. CountOK'
    BY <1>1, JobAssumption DEF CountOK, ListsOK
  <2>5. ListsOK'
    BY ONLY <1>4, <1>1, SwapLists
  <2>6. Records'
    BY ONLY <1>4, <1>1, SwapRecords
  <2> QED BY ONLY <2>1, <2>2, <2>3, <2>4, <2>5, <2>6, TypeParts DEF TypeInv
<1>5. CASE ReapAll
  <2> USE <1>5 DEF ReapAll, ScriptReaps, Report, Reportable, Members, At, Goto, Return, control, funeral, processes, signals
  <2>1. FlagsOK'
    BY <1>1, Zenon DEF FlagsOK
  <2>2. ProcsOK'
    BY <1>1 DEF ProcsOK, ProcState, LiveState, Records, Working
  <2>3. PlaceOK'
    BY <1>1 DEF PlaceOK, Places, ListsOK
  <2>4. CountOK'
    BY <1>1, JobAssumption DEF CountOK, ListsOK
  <2>5. ListsOK'
    BY <1>1, JobAssumption DEF ListsOK, Job, NoJob, Value, JobState, Records, Working
  <2>6. Records'
    BY <1>1, JobAssumption DEF Records, Building, Working, Named, NoJob, ListsOK, ProcsOK, Job, PlaceOK, Idle
  <2> QED BY ONLY <2>1, <2>2, <2>3, <2>4, <2>5, <2>6, TypeParts DEF TypeInv
<1> QED BY ONLY Funeral, <1>2, <1>3, <1>4, <1>5 DEF Funeral

LEMMA BabysitTypeInv == TypeInv /\ Babysit => TypeInv'
<1> SUFFICES ASSUME TypeInv, Babysit PROVE TypeInv'
    OBVIOUS
<1>1. FlagsOK /\ ProcsOK /\ PlaceOK /\ CountOK /\ ListsOK /\ Records
  BY TypeParts DEF TypeInv
<1>2. CASE Deliver
  <2> USE <1>2 DEF Deliver, At, Goto, Return, control, funeral, processes, signals
  <2>1. FlagsOK'
    BY <1>1, Zenon DEF FlagsOK
  <2>2. ProcsOK'
    BY <1>1 DEF ProcsOK, ProcState, LiveState, Records, Working
  <2>3. PlaceOK'
    BY <1>1 DEF PlaceOK, Places, ListsOK
  <2>4. CountOK'
    BY <1>1, JobAssumption DEF CountOK, ListsOK
  <2>5. ListsOK'
    BY <1>1, JobAssumption DEF ListsOK, Job, NoJob, Value, JobState, Records, Working
  <2>6. Records'
    BY <1>1, JobAssumption DEF Records, Building, Working, Named, NoJob, ListsOK, ProcsOK, Job, PlaceOK, Idle
  <2> QED BY ONLY <2>1, <2>2, <2>3, <2>4, <2>5, <2>6, TypeParts DEF TypeInv
<1>3. CASE BabysitNext
  <2> USE <1>3 DEF BabysitNext, At, Goto, Return, control, funeral, processes, signals
  <2>1. FlagsOK'
    BY <1>1, Zenon DEF FlagsOK
  <2>2. ProcsOK'
    BY <1>1 DEF ProcsOK, ProcState, LiveState, Records, Working
  <2>3. PlaceOK'
    BY <1>1 DEF PlaceOK, Places, ListsOK
  <2>4. CountOK'
    BY <1>1, JobAssumption DEF CountOK, ListsOK
  <2>5. ListsOK'
    BY <1>1, JobAssumption DEF ListsOK, Job, NoJob, Value, JobState, Records, Working
  <2>6. Records'
    BY <1>1, JobAssumption DEF Records, Building, Working, Named, NoJob, ListsOK, ProcsOK, Job, PlaceOK, Idle
  <2> QED BY ONLY <2>1, <2>2, <2>3, <2>4, <2>5, <2>6, TypeParts DEF TypeInv
<1>4. CASE BabysitCrash
  <2> USE <1>4 DEF BabysitCrash, At, Goto, Return, control, funeral, processes, signals
  <2>1. FlagsOK'
    BY <1>1, Zenon DEF FlagsOK
  <2>2. ProcsOK'
    BY <1>1 DEF ProcsOK, ProcState, LiveState, Records, Working
  <2>3. PlaceOK'
    BY <1>1 DEF PlaceOK, Places, ListsOK
  <2>4. CountOK'
    BY <1>1, JobAssumption DEF CountOK, ListsOK
  <2>5. ListsOK'
    BY <1>1, JobAssumption DEF ListsOK, Job, NoJob, Value, JobState, Records, Working
  <2>6. Records'
    BY <1>1, JobAssumption DEF Records, Building, Working, Named, NoJob, ListsOK, ProcsOK, Job, PlaceOK, Idle
  <2> QED BY ONLY <2>1, <2>2, <2>3, <2>4, <2>5, <2>6, TypeParts DEF TypeInv
<1>5. CASE BabysitReturn
  <2> USE <1>5 DEF BabysitReturn, At, Goto, Return, control, funeral, processes, signals
  <2>1. FlagsOK'
    BY <1>1, Zenon DEF FlagsOK
  <2>2. ProcsOK'
    BY <1>1 DEF ProcsOK, ProcState, LiveState, Records, Working
  <2>3. PlaceOK'
    BY <1>1 DEF PlaceOK, Places, ListsOK
  <2>4. CountOK'
    BY <1>1, JobAssumption DEF CountOK, ListsOK
  <2>5. ListsOK'
    BY <1>1, JobAssumption DEF ListsOK, Job, NoJob, Value, JobState, Records, Working
  <2>6. Records'
    BY <1>1, JobAssumption DEF Records, Building, Working, Named, NoJob, ListsOK, ProcsOK, Job, PlaceOK, Idle
  <2> QED BY ONLY <2>1, <2>2, <2>3, <2>4, <2>5, <2>6, TypeParts DEF TypeInv
<1>6. CASE \E p \in Pid : BabysitReap(p)
  <2>7. PICK p \in Pid : BabysitReap(p)
    BY <1>6
  <2> USE <2>7 DEF BabysitReap, Waited, IsLast, WaitStatus, Report, Reportable, Members, ShowAndHangUp, HangUp, SendSigpipe, Shown, AsChar, At, Goto, Return, control, funeral, processes, signals
  <2>1. FlagsOK'
    BY <1>1, Zenon DEF FlagsOK
  <2>2. ProcsOK'
    BY <1>1 DEF ProcsOK, ProcState, LiveState, Records, Working
  <2>3. PlaceOK'
    BY <1>1 DEF PlaceOK, Places, ListsOK
  <2>4. CountOK'
    BY <1>1, JobAssumption DEF CountOK, ListsOK
  <2>5. ListsOK'
    BY ONLY <2>7, <1>1, ReapRecords
  <2>6. Records'
    BY ONLY <2>7, <1>1, ReapRecords
  <2> QED BY ONLY <2>1, <2>2, <2>3, <2>4, <2>5, <2>6, TypeParts DEF TypeInv
<1> QED BY ONLY Babysit, <1>2, <1>3, <1>4, <1>5, <1>6 DEF Babysit

LEMMA RequestTypeInv == TypeInv /\ Request => TypeInv'
<1> SUFFICES ASSUME TypeInv, Request PROVE TypeInv'
    OBVIOUS
<1>1. FlagsOK /\ ProcsOK /\ PlaceOK /\ CountOK /\ ListsOK /\ Records
  BY TypeParts DEF TypeInv
<1>2. CASE \E n \in 1 .. MaxStages, b \in BOOLEAN : StartPipe(n, b)
  <2> USE <1>2 DEF StartPipe, At, Goto, Return, control, funeral, processes, signals
  <2>1. FlagsOK'
    BY <1>1, Zenon DEF FlagsOK
  <2>2. ProcsOK'
    BY <1>1 DEF ProcsOK, ProcState, LiveState, Records, Working
  <2>3. PlaceOK'
    BY <1>1 DEF PlaceOK, Places, ListsOK
  <2>4. CountOK'
    BY <1>1, JobAssumption DEF CountOK, ListsOK
  <2>5. ListsOK'
    BY <1>1, JobAssumption DEF ListsOK, Job, NoJob, Value, JobState, Records, Working
  <2>6. Records'
    BY <1>1, StartRecords
  <2> QED BY ONLY <2>1, <2>2, <2>3, <2>4, <2>5, <2>6, TypeParts DEF TypeInv
<1>3. CASE \E i \in 0 .. Len(jobs) : Fg(i) \/ Bg(i)
  <2> USE <1>3 DEF Command, Fg, Bg, At, Goto, Return, control, funeral, processes, signals
  <2>1. FlagsOK'
    BY <1>1, Zenon DEF FlagsOK
  <2>2. ProcsOK'
    BY <1>1 DEF ProcsOK, ProcState, LiveState, Records, Working
  <2>3. PlaceOK'
    BY <1>1 DEF PlaceOK, Places, ListsOK
  <2>4. CountOK'
    BY <1>1, JobAssumption DEF CountOK, ListsOK
  <2>5. ListsOK'
    BY <1>1, JobAssumption DEF ListsOK, Job, NoJob, Value, JobState, Records, Working
  <2>6. Records'
    BY <1>1, CommandRecords DEF Fg, Bg
  <2> QED BY ONLY <2>1, <2>2, <2>3, <2>4, <2>5, <2>6, TypeParts DEF TypeInv
<1>4. CASE EndLine
  <2> USE <1>4 DEF EndLine, At, Goto, Return, control, funeral, processes, signals
  <2>1. FlagsOK'
    BY <1>1, Zenon DEF FlagsOK
  <2>2. ProcsOK'
    BY <1>1 DEF ProcsOK, ProcState, LiveState, Records, Working
  <2>3. PlaceOK'
    BY <1>1 DEF PlaceOK, Places, ListsOK
  <2>4. CountOK'
    BY <1>1, JobAssumption DEF CountOK, ListsOK
  <2>5. ListsOK'
    BY <1>1, JobAssumption DEF ListsOK, Job, NoJob, Value, JobState, Records, Working
  <2>6. Records'
    BY <1>1, JobAssumption DEF Records, Building, Working, Named, NoJob, ListsOK, ProcsOK, Job, PlaceOK, Idle
  <2> QED BY ONLY <2>1, <2>2, <2>3, <2>4, <2>5, <2>6, TypeParts DEF TypeInv
<1> QED BY ONLY Request, <1>2, <1>3, <1>4 DEF Request

LEMMA NextTypeInv == TypeInv /\ [Next]_vars => TypeInv'
<1>1. CASE Next
  BY <1>1, ChildrenTypeInv, LaunchingTypeInv, ForegroundTypeInv, BackgroundTypeInv,
     FuneralTypeInv, BabysitTypeInv, RequestTypeInv DEF Next, Main
<1>2. CASE UNCHANGED vars
  <2>1. TypeOK /\ UNCHANGED vars => TypeOK'
    BY DEF TypeOK, KernelTypeOK, vars, processes, signals, control, funeral
  <2>2. Records /\ UNCHANGED vars => Records'
    BY DEF Records, Named, vars, processes, signals, control, funeral
  <2> QED BY <1>2, <2>1, <2>2 DEF TypeInv
<1> QED BY <1>1, <1>2

(* Type correctness of job control, with what the lists of jobs name. *)
THEOREM TypeCorrect == Spec => []TypeOK
<1>1. Init => TypeInv
  BY InitTypeInv
<1>2. TypeInv /\ [Next]_vars => TypeInv'
  BY NextTypeInv
<1>3. TypeInv => TypeOK
  BY DEF TypeInv
<1> QED BY <1>1, <1>2, <1>3, PTL DEF Spec

THEOREM TypeInvariant == Spec => []TypeInv
<1> QED BY InitTypeInv, NextTypeInv, PTL DEF Spec

-----------------------------------------------------------------------------
(* A dead job's last process was collected.                                 *)

(* A process that was collected stays so, whatever step is taken.           *)
LEMMA ReapedStays ==
  ASSUME TypeInv, [Next]_vars, NEW p \in Pid, proc[p] = "reaped"
  PROVE  proc'[p] = "reaped"
<1>1. ProcsOK
  BY TypeParts DEF TypeInv
<1>2. CASE Children
  <2>1. PICK q \in Pid : Child(q)
    BY <1>2 DEF Children
  <2> QED BY <1>1, <2>1 DEF ProcsOK, Child, ChildExec, Exit, Killed, DieOfSigpipe,
             Stop, Terminate, LiveState
<1>3. CASE Launching
  BY <1>1, <1>3 DEF ProcsOK, Launching, Fork, SetPgid, NullCommand, AbortForeground, AbortWait,
     Register, Report, Reportable, Members, processes
<1>4. CASE Foreground
  BY <1>1, <1>4 DEF ProcsOK, Foreground, ForegroundTty, ForegroundCheck, ForegroundCont,
     Continue, SendSigcont, ForegroundRun, WaitDefault, WaitLast, WaitFor, WaitGroup,
     WaitRestore, ForegroundBack, Report, Reportable, Members, processes
<1>5. CASE Background
  BY <1>1, <1>5 DEF ProcsOK, Background, BackgroundCheck, BackgroundCont, BackgroundRun,
     Continue, SendSigcont, processes
<1>6. CASE Funeral
  BY <1>1, <1>6 DEF ProcsOK, Funeral, Bury, FreeList, SwapJobs, ReapAll, ScriptReaps,
     Report, Reportable, Members, processes
<1>7. CASE Babysit
  BY <1>1, <1>7 DEF ProcsOK, Babysit, Deliver, BabysitNext, BabysitCrash, BabysitReturn,
     BabysitReap, Waited, Report, Reportable, Members, processes
<1>8. CASE Request
  BY <1>8 DEF Request, StartPipe, Fg, Bg, Command, EndLine, processes
<1>9. CASE UNCHANGED vars
  BY <1>9 DEF vars, processes
<1> QED BY <1>2, <1>3, <1>4, <1>5, <1>6, <1>7, <1>8, <1>9 DEF Next, Main

(* A job becomes dead only in a step that finds its last process collected. *)
BecomesDead ==
  \A j \in Pid : job'[j].status = "dead" =>
    \/ job[j].status = "dead" /\ job'[j].last = job[j].last
    \/ proc'[job'[j].last] = "reaped"

LEMMA ShownDead ==
  ASSUME TypeInv, NEW j \in Pid, NEW status,
         job' = [job EXCEPT ![j] = Shown(j, status)],
         status = Stopped \/ status = Junk \/ proc'[job[j].last] = "reaped"
  PROVE  BecomesDead
<1>1. job[j] \in Job /\ job' = [job EXCEPT ![j] = Shown(j, status)]
  BY TypeParts DEF TypeInv, ListsOK
<1>2. \A i \in Pid : i # j => job'[i] = job[i]
  BY TypeParts DEF TypeInv, ListsOK
<1>3. job'[j] = Shown(j, status) /\ job'[j].last = job[j].last
  BY <1>1, ShownJob, TypeParts DEF TypeInv, ListsOK
<1>4. CASE status = Stopped
  BY <1>1, <1>2, <1>3, <1>4, KernelAssumption DEF Shown, BecomesDead, Job
<1>5. CASE status = Junk
  <2>1. Shown(j, status) = job[j]
    BY <1>5, JobAssumption DEF Shown, Status
  <2> QED BY <1>2, <1>3, <2>1 DEF BecomesDead
<1> QED BY <1>2, <1>3, <1>4, <1>5 DEF BecomesDead

LEMMA NextBecomesDead ==
  ASSUME TypeInv, [Next]_vars
  PROVE  BecomesDead
<1>1. ProcsOK /\ ListsOK /\ Records /\ PlaceOK
  BY TypeParts DEF TypeInv
<1>2. CASE UNCHANGED job
  BY <1>2 DEF BecomesDead
<1>3. ASSUME NEW p \in Pid, Fork(p) PROVE BecomesDead
  <2> DEFINE lead == IF cur = None THEN p ELSE cur
  <2>1. lead \in Pid /\ job' = [job EXCEPT ![lead] = [@ EXCEPT !.last = p]]
    BY <1>1, <1>3 DEF Fork, PlaceOK
  <2>2. job[lead].status = "none" /\ job[lead] \in Job
    BY <1>1, <1>3, <2>1, NoJobFields DEF Fork, At, Records, Building, ListsOK
  <2>3. [job[lead] EXCEPT !.last = p].status = "none"
    BY <2>2 DEF Job
  <2> QED BY <1>1, <2>1, <2>3 DEF BecomesDead, ListsOK
<1>4. CASE NullCommand
  BY <1>4, NoJobFields DEF NullCommand, BecomesDead
<1>5. CASE Register
  BY <1>1, <1>5, RegisterLists, NoJobFields DEF BecomesDead
<1>6. CASE ForegroundRun \/ BackgroundRun
  <2>1. cur \in Pid /\ job[cur] \in Job
    BY <1>1, <1>6 DEF ForegroundRun, BackgroundRun, At, Records, Working, ListsOK
  <2>2. job' = [job EXCEPT ![cur] = [job[cur] EXCEPT !.status = "running"]]
        /\ [job[cur] EXCEPT !.status = "running"].status = "running"
    BY <1>6, <2>1 DEF ForegroundRun, BackgroundRun, Job
  <2> QED BY ONLY <1>1, <2>1, <2>2 DEF BecomesDead, ListsOK
<1>7. CASE WaitLast
  <2>1. cur \in Pid /\ job[cur].last \in Pid
    BY <1>1, <1>7 DEF WaitLast, At, Records, Working
  <2>2. CASE UNCHANGED job
    BY <2>2, <1>2
  <2>3. CASE \E status : /\ job' = [job EXCEPT ![cur] = Shown(cur, status)]
                         /\ proc[job[cur].last] = "reaped" \/ status = WaitStatus(job[cur].last)
    <3>1. proc'[job[cur].last] = "reaped" \/ WaitStatus(job[cur].last) = Stopped
      BY <1>1, <1>7, <2>1 DEF WaitLast, WaitFor, Report, WaitStatus, ProcsOK
    <3>2. proc[job[cur].last] = "reaped" => proc'[job[cur].last] = "reaped"
      BY <1>7 DEF WaitLast, WaitFor
    <3> QED BY <2>1, <2>3, <3>1, <3>2, ShownDead
  <2> QED BY <1>7, <2>2, <2>3 DEF WaitLast, ShowAndHangUp
<1>8. CASE WaitRestore
  BY <1>8, NoJobFields DEF WaitRestore, BecomesDead
<1>9. CASE Bury
  <2> DEFINE h == Head(unburied)
  <2>1. h \in Pid
    BY <1>1, <1>9, RangeTail, RangeSeq DEF Bury, ListsOK
  <2>2. job[h] \in Job /\ (job' = job \/ job' = [job EXCEPT ![h] = [job[h] EXCEPT !.status = "none"]])
    BY <1>1, <1>9, <2>1 DEF Bury, ListsOK
  <2>3. [job[h] EXCEPT !.status = "none"].status = "none"
    BY <2>2 DEF Job
  <2> QED BY ONLY <1>1, <2>1, <2>2, <2>3 DEF BecomesDead, ListsOK
<1>10. ASSUME NEW p \in Pid, BabysitReap(p) PROVE BecomesDead
  <2> DEFINE j == jobs[hpos]
  <2>1. j \in Pid
    BY <1>1, <1>10 DEF BabysitReap, ListsOK
  <2>2. CASE IsLast(p, j)
    <3>1. job' = [job EXCEPT ![j] = Shown(j, WaitStatus(p))] /\ p = job[j].last
      BY <1>10, <2>2 DEF BabysitReap, ShowAndHangUp, IsLast
    <3>2. proc'[p] = "reaped" \/ WaitStatus(p) = Stopped
      BY <1>1, <1>10 DEF BabysitReap, Report, WaitStatus, ProcsOK
    <3> HIDE DEF j
    <3> QED BY <2>1, <3>1, <3>2, ShownDead
  <2>3. CASE ~IsLast(p, j)
    BY <1>2, <1>10, <2>3 DEF BabysitReap
  <2> QED BY <2>2, <2>3
<1>11. CASE Next
  <2>1. CASE Children
    BY <1>2, <2>1 DEF Children
  <2>2. CASE Launching
    BY <1>2, <1>3, <1>4, <1>5, <2>2 DEF Launching, SetPgid, AbortForeground, AbortWait
  <2>3. CASE Foreground
    BY <1>2, <1>6, <1>7, <1>8, <2>3 DEF Foreground, ForegroundTty, ForegroundCheck,
       ForegroundCont, Continue, WaitDefault, WaitGroup, ForegroundBack
  <2>4. CASE Background
    BY <1>2, <1>6, <2>4 DEF Background, BackgroundCheck, BackgroundCont, Continue
  <2>5. CASE Funeral
    BY <1>2, <1>9, <2>5 DEF Funeral, FreeList, SwapJobs, ReapAll
  <2>6. CASE Babysit
    BY <1>2, <1>10, <2>6 DEF Babysit, Deliver, BabysitNext, BabysitCrash, BabysitReturn
  <2>7. CASE Request
    BY <1>2, <2>7 DEF Request, StartPipe, Fg, Bg, Command, EndLine
  <2> QED BY <1>11, <2>1, <2>2, <2>3, <2>4, <2>5, <2>6, <2>7 DEF Next, Main
<1> QED BY <1>2, <1>11 DEF vars

(* The status DEAD is true: arrange_funeral, which frees exactly the dead   *)
(* jobs, never forgets a pipeline whose last process has not ended.         *)
THEOREM DeadIsReaped == Spec => []DeadMeansLastReaped
<1>1. Init => DeadMeansLastReaped
  BY NoJobFields DEF Init, DeadMeansLastReaped
<1>2. TypeInv /\ DeadMeansLastReaped /\ [Next]_vars => DeadMeansLastReaped'
  <2> SUFFICES ASSUME TypeInv, DeadMeansLastReaped, [Next]_vars, NEW j \in Pid,
                      job'[j].status = "dead"
               PROVE  proc'[job'[j].last] = "reaped"
      BY DEF DeadMeansLastReaped
  <2>1. CASE job[j].status = "dead" /\ job'[j].last = job[j].last
    <3>1. job[j].last \in Pid
      BY <2>1 DEF TypeInv, Records
    <3> QED BY <2>1, <3>1, ReapedStays DEF DeadMeansLastReaped
  <2> QED BY <2>1, NextBecomesDead DEF BecomesDead
<1> QED BY <1>1, <1>2, TypeInvariant, PTL DEF Spec

-----------------------------------------------------------------------------
(* The safety properties that rest on where main is, on what               *)
(* arrange_funeral has done so far, on process groups and on the terminal,  *)
(* and the refinement of JobTable.                                          *)

Serving  == {"tty", "check", "cont", "run", "dfl", "wait", "group",
             "bcheck", "bcont", "brun"}
Terminal == {"tty", "check", "cont", "group", "back", "bcheck", "bcont", "brun",
             "bury", "swap"}

(* What the place main is at says of its variables: who called, that the    *)
(* job it serves is listed, and that babysit is off while it waits.  Only a *)
(* shell at a terminal reaches the places of Terminal; a script never gives *)
(* the terminal away nor catches SIGCHLD.                                   *)
Control ==
  /\ pc \in Idle => caller = "none"
  /\ pc \in {"bcheck", "bcont", "brun"} => caller = "builtin"
  /\ pc \in {"abort", "abortwait"} => cur = None
  /\ pc \in Terminal => interactive
  /\ pc = "reap" => ~interactive
  /\ interactive /\ pc \in Serving => cur \in Listed
  /\ interactive /\ pc \in {"restore", "back"} => cur \in Listed \cup {None}
  /\ ~interactive => tty = Shell /\ disp = "default"
  /\ pc \in {"wait", "group", "abortwait"} => hpos = 0 /\ disp = "default"
  /\ hpos # 0 => interactive

LEMMA ControlStep == TypeInv /\ Control /\ [Next]_vars => Control'
<1> SUFFICES ASSUME TypeInv, Control, [Next]_vars PROVE Control'
    OBVIOUS
<1>1. PlaceOK /\ ListsOK /\ Records /\ CountOK
  BY TypeParts DEF TypeInv
<1> USE DEF Control, Listed, Idle, Serving, Terminal, At, Goto, Return, control
<1>2. CASE Children
  BY <1>2 DEF Children, Child, ChildExec, Exit, Killed, DieOfSigpipe, Stop, Terminate, RaiseSigchld
<1>3. CASE Launching
  <2>1. CASE Register
    <3>1. cur \in Pid /\ (interactive => jobs' = <<cur>> \o jobs)
      BY <1>1, <2>1, RegisterLists
    <3>2. interactive => cur \in Range(jobs')
      BY <1>1, <3>1, RangeCons DEF ListsOK
    <3> QED BY <1>1, <2>1, <3>2 DEF Register, signals
  <2>2. CASE SetPgid \/ NullCommand \/ AbortForeground \/ AbortWait \/ \E p \in Pid : Fork(p)
    BY <1>1, <2>2 DEF Fork, SetPgid, NullCommand, AbortForeground, AbortWait, DefaultSigchld,
       signals
  <2> QED BY <1>3, <2>1, <2>2 DEF Launching
<1>4. CASE Foreground
  BY <1>1, <1>4 DEF Foreground, ForegroundTty, SetTerminal, ForegroundCheck, ForegroundCont,
     Continue, ForegroundRun, WaitDefault, DefaultSigchld, WaitLast, WaitGroup,
     WaitRestore, ForegroundBack, TakeTerminal, signals
<1>5. CASE Background
  BY <1>1, <1>5 DEF Background, BackgroundCheck, BackgroundCont, BackgroundRun, Continue, signals
<1>6. CASE Funeral
  BY <1>1, <1>6 DEF Funeral, Bury, FreeList, SwapJobs, ReapAll, signals
<1>7. CASE Babysit
  BY <1>1, <1>7 DEF Babysit, Deliver, BabysitNext, BabysitCrash, BabysitReturn,
     BabysitReap, signals
<1>8. CASE Request
  <2>1. ASSUME NEW i \in 0 .. Len(jobs), NEW place \in {"tty", "bcheck"}, Command(i, place)
        PROVE  Control'
    <3>1. Listed' = Listed /\ Listed = {jobs[k] : k \in 1 .. Len(jobs)}
      BY <1>1, <2>1, RangeSeq DEF Command, ListsOK
    <3>2. i = Len(jobs) \/ i + 1 \in 1 .. Len(jobs)
      BY <1>1 DEF ListsOK
    <3>3. Named' = Named /\ interactive' = interactive
      BY <2>1 DEF Command, Named, funeral
    <3>4. interactive
      <4>1. jobs \in Seq(Pid) /\ jobs # <<>>
        BY <1>1, <2>1 DEF Command, ListsOK
      <4>2. Head(jobs) \in Named
        BY <4>1, RangeTail DEF Named
      <4> QED BY <1>1, <4>2 DEF Records
    <3> QED BY <1>1, <2>1, <3>1, <3>2, <3>3, <3>4 DEF Command, signals
  <2>2. CASE \E n \in 1 .. MaxStages, b \in BOOLEAN : StartPipe(n, b)
    BY <1>1, <2>2 DEF StartPipe, signals
  <2>3. CASE EndLine
    BY <1>1, <2>3 DEF EndLine, signals
  <2> QED BY <1>8, <2>1, <2>2, <2>3 DEF Request, Fg, Bg
<1>9. CASE UNCHANGED vars
  BY <1>9 DEF vars, signals
<1> QED BY <1>2, <1>3, <1>4, <1>5, <1>6, <1>7, <1>8, <1>9 DEF Next, Main

-----------------------------------------------------------------------------
(* The lists of arrange_funeral.                                            *)

Burying == {"bury", "swap", "wild"}

(* Half way through the second loop of arrange_funeral: unburied is what    *)
(* follows the first Done jobs; of those, jnew has the ones not freed, the  *)
(* last one first; the freed ones had ended.                                *)
Done == Len(jobs) - Len(unburied)
Kept == {k \in 1 .. Done : job[jobs[k]].status # "none"}
Burial ==
  /\ pc \notin {"bury", "wild"} => unburied = <<>>
  /\ pc \notin Burying => jnew = <<>>
  /\ pc \in {"bury", "swap"} =>
       /\ Done \in 0 .. Len(jobs)
       /\ \A i \in 1 .. Len(unburied) :
            unburied[i] = jobs[Done + i] /\ job[unburied[i]].status # "none"
       /\ Range(jnew) = {jobs[k] : k \in Kept}
       /\ \A m, n \in 1 .. Len(jnew) : m < n =>
            \E a, b \in 1 .. Done : a < b /\ jnew[n] = jobs[a] /\ jnew[m] = jobs[b]
       /\ \A j \in Listed : job[j].status = "none" => proc[job[j].last] = "reaped"
Lists == Burial /\ NoDanglingJob

Quiet ==
  /\ UNCHANGED <<jobs, unburied, jnew>>
  /\ \/ pc' = "wild" \/ pc' = pc
     \/ pc \notin Burying /\ pc' \notin Burying
     \/ pc = "bury" /\ pc' = "swap" /\ unburied = <<>>

LEMMA ListSteps ==
  ASSUME TypeInv, Control, [Next]_vars
  PROVE  (Register /\ interactive) \/ (EndLine /\ interactive) \/ Bury \/ SwapJobs \/ Quiet
<1> USE DEF At, Goto, Return, funeral, control, Quiet, Burying
<1>2. CASE Children
  BY <1>2 DEF Children
<1>3. CASE Launching
  BY <1>3 DEF Launching, Fork, SetPgid, NullCommand, AbortForeground, AbortWait, Register
<1>4. CASE Foreground
  BY <1>4 DEF Foreground, ForegroundTty, ForegroundCheck, ForegroundCont,
     Continue, ForegroundRun, WaitDefault, WaitLast, WaitGroup, WaitRestore, ForegroundBack
<1>5. CASE Background
  BY <1>5 DEF Background, BackgroundCheck, BackgroundCont, BackgroundRun, Continue
<1>6. CASE Funeral
  BY <1>6 DEF Funeral, FreeList, ReapAll
<1>7. CASE Babysit
  BY <1>7 DEF Babysit, Deliver, BabysitNext, BabysitCrash, BabysitReturn, BabysitReap
<1>8. CASE Request
  BY <1>8 DEF Request, StartPipe, Fg, Bg, Command, EndLine
<1>9. CASE UNCHANGED vars
  BY <1>9 DEF vars
<1> QED BY <1>2, <1>3, <1>4, <1>5, <1>6, <1>7, <1>8, <1>9 DEF Next, Main

(* A listed job keeps its last process, and is freed only by arrange_funeral. *)
Steady ==
  \A j \in Named : /\ job'[j].last = job[j].last
                   /\ (job'[j].status = "none") <=> (job[j].status = "none")

(* One record changed, no other job's, and that one neither freed nor       *)
(* made a job.                                                              *)
LEMMA SteadyShown ==
  ASSUME ListsOK, NEW j \in Pid, NEW status, job[j].status # "none",
         job' = [job EXCEPT ![j] = Shown(j, status)]
  PROVE  Steady
<1>1. \A i \in Pid : /\ job'[i].last = job[i].last
                     /\ job'[i].status = "none" => job[i].status = "none"
                     /\ i # j => job'[i] = job[i]
  BY ShowLists
<1> QED BY <1>1, NamedInPid DEF Steady

LEMMA StatusSteady ==
  ASSUME TypeInv, Control, NoDanglingJob, [Next]_vars, ~Bury
  PROVE  Steady
<1>1. PlaceOK /\ ListsOK /\ Records /\ Named \subseteq Pid /\ Listed \subseteq Named
  BY TypeParts, NamedInPid DEF TypeInv, Listed, Named
<1>2. CASE UNCHANGED job
  BY <1>2 DEF Steady
<1>3. CASE ~interactive
  BY <1>1, <1>3 DEF Steady, Records
<1>4. ASSUME NEW p \in Pid, Fork(p) PROVE Steady
  <2>1. (IF cur = None THEN p ELSE cur) \notin Named
    BY <1>1, <1>4, NoJobFields, JobAssumption DEF Fork, At, Records, Building
  <2>2. \A j \in Named : job'[j] = job[j]
    BY <1>1, <1>4, <2>1 DEF Fork, ListsOK
  <2> QED BY <2>2 DEF Steady
<1>5. CASE NullCommand
  <2>1. cur \notin Named
    BY <1>1, <1>5, JobAssumption DEF NullCommand, At, Records, Building
  <2> QED BY <1>1, <1>5, <2>1 DEF NullCommand, Steady
<1>6. CASE Register
  <2>1. cur \notin Named
    BY <1>1, <1>6, JobAssumption DEF Register, At, Records, Building, Working
  <2> QED BY <1>1, <1>6, <2>1, RegisterLists DEF Steady
<1>7. CASE interactive /\ (ForegroundRun \/ BackgroundRun)
  <2>1. cur \in Listed /\ job[cur].status # "none"
    BY <1>7 DEF Control, Serving, NoDanglingJob, ForegroundRun, BackgroundRun, At
  <2>2. cur \in Pid /\ job[cur] \in Job
    BY <1>1, <2>1 DEF ListsOK
  <2>3. job' = [job EXCEPT ![cur] = [job[cur] EXCEPT !.status = "running"]]
    BY <1>7 DEF ForegroundRun, BackgroundRun
  <2>4. [job[cur] EXCEPT !.status = "running"].status = "running"
        /\ [job[cur] EXCEPT !.status = "running"].last = job[cur].last
    BY <2>2 DEF Job
  <2> QED BY ONLY <1>1, <2>1, <2>2, <2>3, <2>4 DEF Steady, ListsOK
<1>8. CASE interactive /\ WaitLast
  <2>1. cur \in Listed /\ job[cur].status # "none"
    BY <1>8 DEF Control, Serving, NoDanglingJob, WaitLast, At
  <2>2. \E status : job' = [job EXCEPT ![cur] = Shown(cur, status)]
    BY <1>8 DEF WaitLast, ShowAndHangUp
  <2> QED BY <1>1, <2>1, <2>2, SteadyShown
<1>9. ASSUME NEW p \in Pid, BabysitReap(p) PROVE Steady
  <2>1. jobs[hpos] \in Pid /\ job[jobs[hpos]].status # "none"
    BY <1>1, <1>9 DEF BabysitReap, ListsOK
  <2>2. UNCHANGED job \/ \E status : job' = [job EXCEPT ![jobs[hpos]] = Shown(jobs[hpos], status)]
    BY <1>9 DEF BabysitReap, ShowAndHangUp
  <2> QED BY <1>1, <1>2, <2>1, <2>2, SteadyShown
<1>10. CASE Next
  <2>1. CASE Children
    BY <1>2, <2>1 DEF Children
  <2>2. CASE Launching
    BY <1>2, <1>4, <1>5, <1>6, <2>2 DEF Launching, SetPgid, AbortForeground, AbortWait
  <2>3. CASE Foreground /\ interactive
    BY <1>2, <1>7, <1>8, <2>3 DEF Foreground, ForegroundTty, ForegroundCheck,
       ForegroundCont, Continue, WaitDefault, WaitGroup, WaitRestore, ForegroundBack
  <2>4. CASE Background /\ interactive
    BY <1>2, <1>7, <2>4 DEF Background, BackgroundCheck, BackgroundCont, Continue
  <2>5. CASE Funeral
    BY <1>2, <2>5 DEF Funeral, FreeList, SwapJobs, ReapAll
  <2>6. CASE Babysit
    BY <1>2, <1>9, <2>6 DEF Babysit, Deliver, BabysitNext, BabysitCrash, BabysitReturn
  <2>7. CASE Request
    BY <1>2, <2>7 DEF Request, StartPipe, Fg, Bg, Command, EndLine
  <2> QED BY <1>3, <1>10, <2>1, <2>2, <2>3, <2>4, <2>5, <2>6, <2>7 DEF Next, Main
<1> QED BY <1>2, <1>10 DEF vars

LEMMA InitLists == Init => Lists
<1> SUFFICES ASSUME Init PROVE Lists
    OBVIOUS
<1>1. Len(jobs) = 0 /\ Listed = {}
  BY RangeSeq DEF Init, Listed, Range
<1> QED BY <1>1 DEF Init, Lists, Burial, NoDanglingJob

LEMMA RegisterKeepsLists ==
  ASSUME TypeInv, Control, Lists, Register, interactive, Steady
  PROVE  Lists'
<1>1. ListsOK /\ Records /\ PlaceOK /\ jobs \in Seq(Pid)
  BY TypeParts DEF TypeInv, ListsOK
<1>2. cur \in Pid /\ cur \notin Named /\ job'[cur].status = "running"
  BY <1>1, RegisterLists, JobAssumption DEF Register, At, Records, Building
<1>3. jobs' = <<cur>> \o jobs /\ unburied' = unburied /\ jnew' = jnew /\ pc = "register"
      /\ pc' \notin Burying
  BY DEF Register, funeral, At, Goto, Return, Burying
<1>4. Burial'
  BY <1>3 DEF Lists, Burial, Burying
<1>5. Listed' = {cur} \cup Listed /\ Listed \subseteq Named
  BY <1>1, <1>2, <1>3, RangeCons DEF Listed, Named
<1>6. \A j \in Listed' : job'[j].status # "none"
  BY <1>2, <1>3, <1>5 DEF Lists, NoDanglingJob, Steady
<1>7. \A m, n \in 1 .. Len(jobs') : jobs'[m] = jobs'[n] => m = n
  <2>1. Len(jobs') = Len(jobs) + 1 /\ Len(jobs) \in Nat /\ jobs'[1] = cur
    BY <1>1, <1>2, <1>3
  <2>2. \A m \in 1 .. Len(jobs') : m = 1 \/ (m - 1 \in 1 .. Len(jobs) /\ jobs'[m] = jobs[m - 1])
    BY <1>1, <1>2, <1>3
  <2>3. \A m \in 1 .. Len(jobs) : jobs[m] # cur
    BY <1>1, <1>2, RangeSeq DEF Named
  <2> HIDE <1>3
  <2> QED BY <2>1, <2>2, <2>3 DEF Lists, NoDanglingJob
<1> QED BY <1>4, <1>6, <1>7 DEF Lists, NoDanglingJob

LEMMA QuietKeepsLists ==
  ASSUME TypeInv, Control, Lists, Quiet, Steady,
         \A p \in Pid : proc[p] = "reaped" => proc'[p] = "reaped"
  PROVE  Lists'
<1>1. UNCHANGED <<jobs, unburied, jnew>> /\ Listed' = Listed
  BY DEF Quiet, Listed
<1>2. \A j \in Listed : job'[j].last = job[j].last /\ job[j].last \in Pid
                        /\ ((job'[j].status = "none") <=> (job[j].status = "none"))
  BY DEF TypeInv, Records, Steady, Listed, Named
<1>3. \A i \in 1 .. Len(unburied) : (job'[unburied[i]].status = "none") <=> (job[unburied[i]].status = "none")
  BY RangeSeq, TypeParts DEF TypeInv, Steady, Named, ListsOK
<1>4. Done' = Done /\ Kept' = Kept
  <2>1. \A k \in 1 .. Len(jobs) : jobs[k] \in Listed
    BY RangeSeq, TypeParts DEF TypeInv, ListsOK, Listed
  <2>2. pc \in {"bury", "swap"} => Done \in 0 .. Len(jobs)
    BY DEF Lists, Burial
  <2>3. Len(unburied) \in Nat /\ Len(jobs) \in Nat
    BY TypeParts DEF TypeInv, ListsOK
  <2>4. \A k \in 1 .. Done : k \in 1 .. Len(jobs)
    BY <2>3 DEF Done
  <2> QED BY <1>1, <1>2, <2>1, <2>4 DEF Done, Kept
<1>5. NoDanglingJob'
  BY <1>1, <1>2 DEF Lists, NoDanglingJob, Quiet, Burying
<1>6. CASE pc' \notin {"bury", "swap"}
  BY <1>1, <1>5, <1>6 DEF Lists, Burial, Quiet, Burying
<1>7. CASE pc \in {"bury", "swap"} /\ pc' \in {"bury", "swap"}
  <2>1. (\A j \in Listed : job[j].status = "none" => proc[job[j].last] = "reaped")'
    BY <1>1, <1>2, <1>7 DEF Lists, Burial
  <2>2. pc' # "bury" => unburied' = <<>>
    BY <1>1, <1>7 DEF Quiet, Lists, Burial, Burying
  <2> QED BY <1>1, <1>3, <1>4, <1>5, <1>7, <2>1, <2>2 DEF Lists, Burial, Burying
<1> QED BY <1>6, <1>7 DEF Quiet, Burying

LEMMA EndLineKeepsLists ==
  ASSUME TypeInv, Control, Lists, EndLine, interactive
  PROVE  Lists'
<1>1. ListsOK /\ jobs \in Seq(Pid) /\ Len(jobs) \in Nat
  BY TypeParts DEF TypeInv, ListsOK
<1>2. /\ jobs' = jobs /\ job' = job /\ proc' = proc /\ unburied' = jobs /\ jnew' = jnew
      /\ pc = "eval" /\ pc' = "bury"
  BY DEF EndLine, At, Goto, processes
<1>3. jnew = <<>> /\ Range(jnew) = {} /\ Len(jnew) = 0
  BY <1>2, RangeSeq DEF Lists, Burial, Burying, Range
<1>4. Done' = 0 /\ Kept' = {}
  BY <1>1, <1>2 DEF Done, Kept
<1>5. \A k \in 1 .. Len(jobs) : job[jobs[k]].status # "none"
  BY <1>1, <1>2, RangeSeq DEF Lists, NoDanglingJob, Listed, Burying
<1>6. Range(jnew') = {jobs'[k] : k \in Kept'}
  BY <1>2, <1>3, <1>4
<1>7. \A j \in Listed' : job'[j].status # "none"
  BY <1>2 DEF Lists, NoDanglingJob, Listed
<1>8. Burial'
  BY <1>1, <1>2, <1>3, <1>4, <1>5, <1>6, <1>7 DEF Burial, Burying
<1> QED BY <1>2, <1>8 DEF Lists, NoDanglingJob, Burying

(* What Bury does to the element it visits. *)
LEMMA BuryVisits ==
  ASSUME TypeInv, Lists, Bury
  PROVE  /\ Done \in 0 .. Len(jobs) - 1 /\ Done' = Done + 1
         /\ jobs[Done + 1] \in Listed /\ job[jobs[Done + 1]].status # "none"
         /\ \A i \in 1 .. Len(unburied') : unburied'[i] = unburied[i + 1] /\ i + 1 \in 1 .. Len(unburied)
         /\ \/ /\ job[jobs[Done + 1]].status = "dead" /\ jnew' = jnew
               /\ job'[jobs[Done + 1]].status = "none"
            \/ jnew' = <<jobs[Done + 1]>> \o jnew /\ job' = job
         /\ \A j \in Pid : /\ job'[j].last = job[j].last
                           /\ j # jobs[Done + 1] => job'[j] = job[j]
<1>1. ListsOK /\ jobs \in Seq(Pid) /\ unburied \in Seq(Pid) /\ jnew \in Seq(Pid)
  BY TypeParts DEF TypeInv, ListsOK
<1>2. pc = "bury" /\ unburied # <<>> /\ unburied' = Tail(unburied) /\ jobs' = jobs
  BY DEF Bury, At
<1>3. /\ Len(unburied) \in Nat \ {0} /\ Head(unburied) = unburied[1]
      /\ Len(unburied') = Len(unburied) - 1
      /\ \A i \in 1 .. Len(unburied') : unburied'[i] = unburied[i + 1] /\ i + 1 \in 1 .. Len(unburied)
  BY <1>1, <1>2
<1>4. Done \in 0 .. Len(jobs) /\ Len(jobs) \in Nat
      /\ \A i \in 1 .. Len(unburied) : unburied[i] = jobs[Done + i] /\ job[unburied[i]].status # "none"
  BY <1>1, <1>2 DEF Lists, Burial
<1>5. Done \in 0 .. Len(jobs) - 1 /\ Done' = Done + 1
  BY <1>2, <1>3, <1>4 DEF Done
<1>6. PICK h \in Pid : h = jobs[Done + 1] /\ h = Head(unburied)
  BY <1>1, <1>3, <1>4, <1>5
<1>7. h \in Listed /\ job[h].status # "none" /\ job[h] \in Job
  BY <1>1, <1>3, <1>4, <1>5, <1>6, RangeSeq DEF Listed, ListsOK
<1>8. IF job[h].status = "dead"
      THEN job' = [job EXCEPT ![h] = [job[h] EXCEPT !.status = "none"]] /\ jnew' = jnew
      ELSE jnew' = <<h>> \o jnew /\ job' = job
  BY <1>6 DEF Bury
<1>9. [job[h] EXCEPT !.status = "none"].last = job[h].last
      /\ [job[h] EXCEPT !.status = "none"].status = "none"
  BY <1>7 DEF Job
<1>10. \/ job[h].status = "dead" /\ jnew' = jnew /\ job'[h].status = "none"
       \/ jnew' = <<h>> \o jnew /\ job' = job
  BY ONLY <1>1, <1>8, <1>9, ListsOK DEF ListsOK
<1>11. \A j \in Pid : job'[j].last = job[j].last /\ (j # h => job'[j] = job[j])
  BY ONLY <1>1, <1>8, <1>9, ListsOK DEF ListsOK
<1> QED BY <1>3, <1>5, <1>6, <1>7, <1>10, <1>11

LEMMA BuryKeepsLists ==
  ASSUME TypeInv, Control, DeadMeansLastReaped, Lists, Bury
  PROVE  Lists'
<1>1. jobs \in Seq(Pid) /\ Len(jobs) \in Nat /\ jnew \in Seq(Pid) /\ Listed \subseteq Pid
  BY TypeParts, RangeSeq DEF TypeInv, ListsOK, Listed
<1>2. /\ jobs' = jobs /\ Listed' = Listed /\ proc' = proc /\ pc' = pc /\ pc = "bury"
  BY DEF Bury, At, control, processes, Listed
<1>3. PICK d \in 0 .. Len(jobs) - 1 : d = Done
  BY BuryVisits
<1>4. PICK h \in Pid : h = jobs[d + 1]
  BY <1>1
<1>5. /\ Done' = d + 1 /\ h \in Listed /\ job[h].status # "none"
      /\ \A i \in 1 .. Len(unburied') : unburied'[i] = unburied[i + 1] /\ i + 1 \in 1 .. Len(unburied)
      /\ \A j \in Pid : job'[j].last = job[j].last /\ (j # h => job'[j] = job[j])
      /\ \/ job[h].status = "dead" /\ jnew' = jnew /\ job'[h].status = "none"
         \/ jnew' = <<h>> \o jnew /\ job' = job
  BY <1>3, <1>4, BuryVisits
<1>6. \A k, l \in 1 .. Len(jobs) : jobs[k] = jobs[l] => k = l
  BY DEF Lists, NoDanglingJob
<1>7. \A i \in 1 .. Len(unburied) : /\ unburied[i] = jobs[d + i] /\ d + i \in 1 .. Len(jobs)
                                    /\ job[unburied[i]].status # "none"
  <2>1. Len(unburied) \in Nat /\ d = Len(jobs) - Len(unburied)
    BY <1>1, <1>3, TypeParts DEF TypeInv, ListsOK, Done
  <2> QED BY <1>1, <1>2, <1>3, <2>1 DEF Lists, Burial
<1>8. \A k \in 1 .. d : jobs[k] # h /\ jobs[k] \in Pid /\ job'[jobs[k]] = job[jobs[k]]
  BY <1>1, <1>4, <1>5, <1>6
<1>9. \A i \in 1 .. Len(unburied') : /\ unburied'[i] = jobs'[Done' + i]
                                     /\ job'[unburied'[i]].status # "none"
  <2> TAKE i \in 1 .. Len(unburied')
  <2>1. i \in Nat /\ unburied'[i] = unburied[i + 1] /\ i + 1 \in 1 .. Len(unburied)
    <3>1. Len(unburied') \in Nat
      BY TypeParts, RangeTail DEF TypeInv, ListsOK, Bury
    <3> QED BY <1>5, <3>1
  <2>2. unburied'[i] = jobs[d + (i + 1)] /\ d + (i + 1) \in 1 .. Len(jobs) /\ d + (i + 1) = (d + 1) + i
    BY <1>7, <2>1
  <2>3. unburied'[i] # h /\ unburied'[i] \in Pid /\ job[unburied'[i]].status # "none"
    <3>1. d + (i + 1) # d + 1 /\ d + 1 \in 1 .. Len(jobs)
      BY <1>1, <1>3, <2>1
    <3>2. jobs[d + (i + 1)] # h /\ jobs[d + (i + 1)] \in Pid
      BY <1>1, <1>4, <1>6, <2>2, <3>1
    <3> QED BY <1>7, <2>1, <2>2, <3>2
  <2> QED BY <1>2, <1>5, <2>2, <2>3
<1>10. Range(jnew') = {jobs'[k] : k \in Kept'}
  <2>1. Range(jnew) = {jobs[k] : k \in Kept}
    BY <1>2 DEF Lists, Burial
  <2>2. CASE jnew' = jnew /\ job'[h].status = "none"
    <3>1. Kept' = Kept
      BY <1>1, <1>2, <1>3, <1>4, <1>5, <1>8, <2>2 DEF Kept
    <3> QED BY <1>2, <2>1, <2>2, <3>1
  <2>3. CASE jnew' = <<h>> \o jnew /\ job' = job
    <3>1. Kept' = Kept \cup {d + 1}
      BY <1>1, <1>2, <1>3, <1>4, <1>5, <2>3 DEF Kept
    <3>2. Range(jnew') = {h} \cup Range(jnew)
      BY <1>1, <2>3, RangeCons
    <3> QED BY <1>2, <1>4, <2>1, <3>1, <3>2
  <2> QED BY <1>5, <2>2, <2>3
<1>11. \A m, n \in 1 .. Len(jnew') : m < n =>
         \E a, b \in 1 .. Done' : a < b /\ jnew'[n] = jobs'[a] /\ jnew'[m] = jobs'[b]
  <2>1. \A m, n \in 1 .. Len(jnew) : m < n =>
          \E a, b \in 1 .. d : a < b /\ jnew[n] = jobs[a] /\ jnew[m] = jobs[b]
    <3>1. \A m, n \in 1 .. Len(jnew) : m < n =>
            \E a, b \in 1 .. Done : a < b /\ jnew[n] = jobs[a] /\ jnew[m] = jobs[b]
      BY <1>2 DEF Lists, Burial
    <3> QED BY ONLY <1>3, <3>1
  <2>2. \A a \in 1 .. d : a \in 1 .. d + 1 /\ a < d + 1
    BY <1>3, <1>1
  <2>3. CASE jnew' = jnew
    BY <1>2, <1>5, <2>1, <2>2, <2>3
  <2>4. CASE jnew' = <<h>> \o jnew
    <3>1. /\ Len(jnew') = Len(jnew) + 1 /\ Len(jnew) \in Nat /\ jnew'[1] = h
          /\ \A i \in 1 .. Len(jnew') : i = 1 \/ (i - 1 \in 1 .. Len(jnew) /\ jnew'[i] = jnew[i - 1])
      BY <1>1, <2>4
    <3>2. \A i \in 1 .. Len(jnew) : \E a \in 1 .. d : jnew[i] = jobs[a]
      <4>1. Range(jnew) = {jobs[k] : k \in Kept}
        BY <1>2 DEF Lists, Burial
      <4>2. Kept \subseteq 1 .. d
        BY <1>3 DEF Kept
      <4>3. \A i \in 1 .. Len(jnew) : jnew[i] \in Range(jnew)
        BY <1>1, RangeSeq
      <4> QED BY ONLY <4>1, <4>2, <4>3
    <3> SUFFICES ASSUME NEW m \in 1 .. Len(jnew'), NEW n \in 1 .. Len(jnew'), m < n
                 PROVE  \E a, b \in 1 .. d + 1 : a < b /\ jnew'[n] = jobs[a] /\ jnew'[m] = jobs[b]
        BY <1>2, <1>5
    <3>3. n - 1 \in 1 .. Len(jnew) /\ jnew'[n] = jnew[n - 1] /\ m \in Nat /\ n \in Nat
      BY <3>1
    <3>4. CASE m = 1
      <4>1. PICK a \in 1 .. d : jnew'[n] = jobs[a]
        BY <3>2, <3>3
      <4>2. a < d + 1 /\ a \in 1 .. d + 1 /\ d + 1 \in 1 .. d + 1 /\ jnew'[m] = jobs[d + 1]
        BY <1>3, <1>4, <2>2, <3>1, <3>4
      <4> QED BY <4>1, <4>2
    <3>5. CASE m # 1
      <4>1. m - 1 \in 1 .. Len(jnew) /\ jnew'[m] = jnew[m - 1] /\ m - 1 < n - 1
        BY <3>1, <3>3, <3>5
      <4>2. PICK a \in 1 .. d, b \in 1 .. d : a < b /\ jnew[n - 1] = jobs[a] /\ jnew[m - 1] = jobs[b]
        BY <2>1, <3>3, <4>1
      <4> QED BY <2>2, <3>3, <4>1, <4>2
    <3> QED BY <3>4, <3>5
  <2> QED BY <1>5, <2>3, <2>4
<1>12. \A j \in Listed' : job'[j].status = "none" => proc'[job'[j].last] = "reaped"
  BY <1>1, <1>2, <1>5 DEF Lists, Burial, DeadMeansLastReaped
<1>13. Done' \in 0 .. Len(jobs')
  BY <1>1, <1>2, <1>3, <1>5
<1>14. Burial'
  BY <1>2, <1>9, <1>10, <1>11, <1>12, <1>13 DEF Burial, Burying
<1> QED BY <1>2, <1>6, <1>14 DEF Lists, NoDanglingJob

(* The list that arrange_funeral leaves: the jobs it did not free, in the   *)
(* order they had.                                                          *)
LEMMA SurvivorsOf ==
  ASSUME TypeInv, Lists, SwapJobs
  PROVE  /\ jobs' \in Seq(Pid)
         /\ Range(jobs') = {j \in Listed : job[j].status # "none"}
         /\ \A m, n \in 1 .. Len(jobs') : m < n =>
              \E a, b \in 1 .. Len(jobs) : a < b /\ jobs'[m] = jobs[a] /\ jobs'[n] = jobs[b]
<1>1. jobs \in Seq(Pid) /\ Len(jobs) \in Nat /\ jnew \in Seq(Pid) /\ unburied \in Seq(Pid)
  BY TypeParts DEF TypeInv, ListsOK
<1>2. pc = "swap" /\ jobs' = Reverse(jnew) /\ unburied = <<>>
  BY DEF SwapJobs, At, Survivors, Lists, Burial
<1>3. Len(unburied) = 0
  BY <1>2
<1>4. Done = Len(jobs)
  BY <1>1, <1>3 DEF Done
<1>5. Range(jnew) = {jobs[k] : k \in Kept}
  BY <1>2 DEF Lists, Burial
<1>6. Range(jnew) = {j \in Listed : job[j].status # "none"}
  BY <1>1, <1>4, <1>5, RangeSeq DEF Kept, Listed
<1>7. /\ Len(jobs') = Len(jnew) /\ Len(jnew) \in Nat
      /\ \A i \in 1 .. Len(jnew) : jobs'[i] = jnew[(Len(jnew) - i) + 1]
  BY <1>1, <1>2 DEF Reverse
<1>8. \A m, n \in 1 .. Len(jnew) : m < n =>
        \E a, b \in 1 .. Len(jobs) : a < b /\ jnew[n] = jobs[a] /\ jnew[m] = jobs[b]
  <2>1. \A m, n \in 1 .. Len(jnew) : m < n =>
          \E a, b \in 1 .. Done : a < b /\ jnew[n] = jobs[a] /\ jnew[m] = jobs[b]
    BY <1>2 DEF Lists, Burial
  <2> QED BY ONLY <1>4, <2>1
<1>9. ASSUME NEW m \in 1 .. Len(jobs'), NEW n \in 1 .. Len(jobs'), m < n
      PROVE  \E a, b \in 1 .. Len(jobs) : a < b /\ jobs'[m] = jobs[a] /\ jobs'[n] = jobs[b]
  <2>1. PICK x \in 1 .. Len(jnew) : x = (Len(jnew) - m) + 1
    BY <1>7
  <2>2. PICK y \in 1 .. Len(jnew) : y = (Len(jnew) - n) + 1
    BY <1>7
  <2>3. y < x /\ jobs'[m] = jnew[x] /\ jobs'[n] = jnew[y]
    BY <1>7, <1>9, <2>1, <2>2
  <2> QED BY <1>8, <2>3
<1>10. jobs' \in Seq(Pid) /\ Range(jobs') = Range(jnew)
  BY <1>1, <1>2, RangeReverse
<1> QED BY <1>6, <1>9, <1>10

LEMMA SwapKeepsLists ==
  ASSUME TypeInv, Control, Lists, SwapJobs
  PROVE  Lists'
<1>1. /\ job' = job /\ pc' = "eval" /\ jnew' = <<>> /\ unburied' = unburied /\ unburied = <<>>
  BY DEF SwapJobs, At, Goto, Lists, Burial
<1>2. Burial'
  BY <1>1 DEF Burial, Burying
<1>3. \A j \in Listed' : job'[j].status # "none"
  BY <1>1, SurvivorsOf DEF Listed
<1>4. \A k, l \in 1 .. Len(jobs) : jobs[k] = jobs[l] => k = l
  BY DEF Lists, NoDanglingJob
<1>5. Len(jobs') \in Nat /\ Len(jobs) \in Nat
  BY SurvivorsOf, TypeParts DEF TypeInv, ListsOK
<1>6. \A m, n \in 1 .. Len(jobs') : m < n => jobs'[m] # jobs'[n]
  <2> SUFFICES ASSUME NEW m \in 1 .. Len(jobs'), NEW n \in 1 .. Len(jobs'), m < n
               PROVE  jobs'[m] # jobs'[n]
      OBVIOUS
  <2>1. PICK a \in 1 .. Len(jobs), b \in 1 .. Len(jobs) :
          a < b /\ jobs'[m] = jobs[a] /\ jobs'[n] = jobs[b]
    BY SurvivorsOf
  <2>2. a # b
    BY <1>5, <2>1
  <2> QED BY <1>4, <2>1, <2>2
<1>7. \A m, n \in 1 .. Len(jobs') : m < n \/ n < m \/ m = n
  BY <1>5
<1>8. \A m, n \in 1 .. Len(jobs') : jobs'[m] = jobs'[n] => m = n
  BY <1>6, <1>7
<1> QED BY <1>2, <1>3, <1>8 DEF Lists, NoDanglingJob

LEMMA ListsStep == TypeInv /\ Control /\ DeadMeansLastReaped /\ Lists /\ [Next]_vars => Lists'
<1> SUFFICES ASSUME TypeInv, Control, DeadMeansLastReaped, Lists, [Next]_vars PROVE Lists'
    OBVIOUS
<1>1. CASE Bury
  BY <1>1, BuryKeepsLists
<1>2. CASE ~Bury
  <2>1. Steady
    BY <1>2, StatusSteady DEF Lists
  <2>2. \A p \in Pid : proc[p] = "reaped" => proc'[p] = "reaped"
    BY ReapedStays
  <2> QED BY <1>2, <2>1, <2>2, ListSteps, RegisterKeepsLists, EndLineKeepsLists, SwapKeepsLists,
             QuietKeepsLists
<1> QED BY <1>1, <1>2

PlacesInv == TypeInv /\ DeadMeansLastReaped /\ Control /\ Lists

LEMMA InitControl == Init => Control
BY DEF Init, KernelInit, Control, Idle, Serving, Terminal

(* Wherever main is in do_pipe, job_foreground or arrange_funeral, and      *)
(* whatever babysit did meanwhile: at a terminal the job it serves is       *)
(* listed, the handler is off while it waits, and each list of              *)
(* arrange_funeral has the jobs it still has to visit or has kept.          *)
THEOREM PlacesInvariant == Spec => []PlacesInv
<1>1. Init => Control /\ Lists
  BY InitControl, InitLists
<1>2. TypeInv /\ DeadMeansLastReaped /\ (Control /\ Lists) /\ [Next]_vars => (Control /\ Lists)'
  BY ControlStep, ListsStep
<1>3. Spec => [](Control /\ Lists)
  BY <1>1, <1>2, TypeInvariant, DeadIsReaped, PTL DEF Spec
<1>4. TypeInv /\ DeadMeansLastReaped /\ (Control /\ Lists) => PlacesInv
  BY DEF PlacesInv
<1> QED BY <1>3, <1>4, TypeInvariant, DeadIsReaped, PTL

(* babysit and main never meet a job that was freed, except in the window   *)
(* arrange_funeral leaves open, and the list never names a job twice.       *)
THEOREM NothingDangles == Spec => []NoDanglingJob
<1>1. PlacesInv => NoDanglingJob
  BY DEF PlacesInv, Lists
<1> QED BY <1>1, PlacesInvariant, PTL

-----------------------------------------------------------------------------
(* Process groups.                                                          *)

(* A process is in the group its creator chose, or still in the shell's;    *)
(* the last process of a job was started for the group of that job.         *)
Group(j) == IF interactive THEN j ELSE Shell
Leads ==
  /\ \A p \in Pid : /\ pgrp[p] \in {Shell, leader[p]}
                    /\ proc[p] = "free" => pgrp[p] = Shell
  /\ \A j \in Pid : job[j].last \in Pid =>
       proc[job[j].last] # "free" /\ leader[job[j].last] = Group(j)
Groups == Leads /\ GroupComplete

(* What one step does to a process: only Fork creates one, in the shell's   *)
(* group, and nothing changes the group its creator chose.                  *)
Born(p) == /\ pc = "fork" /\ pc' = "setpgid"
           /\ proc[p] = "free" /\ proc'[p] = "forked" /\ pgrp'[p] = pgrp[p]
           /\ leader'[p] = Group(cur') /\ cur' \in Pid /\ job'[cur'].last = p
Old(p) == /\ leader'[p] = leader[p] /\ (proc'[p] = "free" <=> proc[p] = "free")
          /\ \/ pgrp'[p] = pgrp[p]
             \/ pgrp'[p] = leader[p] /\ proc[p] # "free"

LEMMA ProcessStep ==
  ASSUME TypeInv, Leads, [Next]_vars, NEW p \in Pid
  PROVE  Old(p) \/ Born(p)
<1> USE DEF Old, At, Goto
<1>1. ProcsOK /\ PlaceOK /\ ListsOK /\ Records
  BY TypeParts DEF TypeInv
<1>2. CASE Children
  <2>1. PICK q \in Pid : Child(q)
    BY <1>2 DEF Children
  <2> QED BY <1>1, <2>1 DEF ProcsOK, Child, ChildExec, Exit, Killed, DieOfSigpipe,
             Stop, Terminate, LiveState
<1>3. CASE \E q \in Pid : Fork(q)
  <2>1. PICK q \in Pid : Fork(q)
    BY <1>3
  <2>2. CASE p # q
    BY <1>1, <2>1, <2>2 DEF Fork, ProcsOK
  <2>3. CASE p = q
    <3> DEFINE lead == IF cur = None THEN p ELSE cur
    <3>1. lead \in Pid /\ cur' = lead /\ job' = [job EXCEPT ![lead] = [@ EXCEPT !.last = p]]
          /\ interactive' = interactive
      BY <1>1, <2>1, <2>3 DEF Fork, PlaceOK
    <3>2. job'[lead].last = p
      <4>1. job[lead] \in Job
        BY <1>1, <3>1 DEF ListsOK
      <4>2. [job[lead] EXCEPT !.last = p].last = p
        BY <4>1 DEF Job
      <4> QED BY ONLY <1>1, <3>1, <4>2 DEF ListsOK
    <3>3. leader'[p] = Group(lead)
      BY <1>1, <2>1, <2>3 DEF Fork, ProcsOK, Group
    <3> HIDE DEF lead
    <3>4. leader'[p] = Group(cur')
      BY <3>1, <3>3
    <3>5. proc'[p] = "forked" /\ proc[p] = "free" /\ pgrp'[p] = pgrp[p] /\ pc = "fork" /\ pc' = "setpgid"
      BY <1>1, <2>1, <2>3 DEF Fork, ProcsOK
    <3> QED BY <3>1, <3>2, <3>4, <3>5 DEF Born
  <2> QED BY <2>2, <2>3
<1>4. CASE SetPgid
  <2>1. job[cur].last \in Pid /\ proc[job[cur].last] # "free"
    BY <1>1, <1>4 DEF SetPgid, Records, Working, Leads
  <2> QED BY <1>1, <1>4, <2>1 DEF SetPgid, ParentSetpgid, ProcsOK
<1>5. CASE NullCommand \/ AbortForeground \/ AbortWait \/ Register
  BY <1>1, <1>5 DEF ProcsOK, NullCommand, AbortForeground, AbortWait,
     Register, Report, Reportable, Members, processes
<1>6. CASE Foreground
  BY <1>1, <1>6 DEF ProcsOK, Foreground, ForegroundTty, ForegroundCheck, ForegroundCont,
     Continue, SendSigcont, ForegroundRun, WaitDefault, WaitLast, WaitFor, WaitGroup,
     WaitRestore, ForegroundBack, Report, Reportable, Members, processes
<1>7. CASE Background
  BY <1>1, <1>7 DEF ProcsOK, Background, BackgroundCheck, BackgroundCont, BackgroundRun,
     Continue, SendSigcont, processes
<1>8. CASE Funeral
  BY <1>1, <1>8 DEF ProcsOK, Funeral, Bury, FreeList, SwapJobs, ReapAll, ScriptReaps,
     Report, Reportable, Members, processes
<1>9. CASE Babysit
  BY <1>1, <1>9 DEF ProcsOK, Babysit, Deliver, BabysitNext, BabysitCrash, BabysitReturn,
     BabysitReap, Waited, Report, Reportable, Members, processes
<1>10. CASE Request
  BY <1>10 DEF Request, StartPipe, Fg, Bg, Command, EndLine, processes
<1>11. CASE UNCHANGED vars
  BY <1>11 DEF vars, processes
<1> QED BY <1>2, <1>3, <1>4, <1>5, <1>6, <1>7, <1>8, <1>9, <1>10, <1>11 DEF Next, Main, Launching

(* Only do_pipe, while it builds a job, changes its last process, and only  *)
(* there, or in a script, is a job_t thrown away.                           *)
LastKept(j) == \/ job'[j].last = job[j].last
               \/ /\ job'[j] = NoJob /\ j = cur
                  /\ pc \in Building \/ (WaitRestore /\ ~interactive)
LEMMA LastStep ==
  ASSUME TypeInv, [Next]_vars, NEW j \in Pid
  PROVE  \/ LastKept(j)
         \/ /\ j = cur' /\ pc = "fork" /\ \E p \in Pid : Fork(p) /\ job'[j].last = p
<1>1. PlaceOK /\ ListsOK /\ Records /\ Named \subseteq Pid
  BY TypeParts, NamedInPid DEF TypeInv
<1>2. CASE UNCHANGED job
  BY <1>2 DEF LastKept
<1>3. ASSUME NEW p \in Pid, Fork(p) PROVE LastKept(j) \/ (j = cur' /\ pc = "fork" /\ job'[j].last = p)
  <2> DEFINE lead == IF cur = None THEN p ELSE cur
  <2>1. lead \in Pid /\ cur' = lead /\ job' = [job EXCEPT ![lead] = [@ EXCEPT !.last = p]] /\ pc = "fork"
    BY <1>1, <1>3 DEF Fork, PlaceOK, At
  <2>2. job[lead] \in Job
    BY <1>1, <2>1 DEF ListsOK
  <2>3. [job[lead] EXCEPT !.last = p].last = p
    BY <2>2 DEF Job
  <2> QED BY <1>1, <2>1, <2>3 DEF ListsOK, LastKept
<1>4. CASE NullCommand
  BY <1>1, <1>4, NoJobFields DEF NullCommand, LastKept, At, Building
<1>5. CASE Register
  BY <1>1, <1>5, RegisterLists, NoJobFields DEF Register, LastKept, At, Building
<1>6. CASE ForegroundRun \/ BackgroundRun
  <2>1. cur \in Pid /\ job[cur] \in Job
    BY <1>1, <1>6 DEF ForegroundRun, BackgroundRun, At, Records, Working, ListsOK
  <2>2. job' = [job EXCEPT ![cur] = [job[cur] EXCEPT !.status = "running"]]
        /\ [job[cur] EXCEPT !.status = "running"].last = job[cur].last
    BY <1>6, <2>1 DEF ForegroundRun, BackgroundRun, Job
  <2> QED BY ONLY <1>1, <2>1, <2>2, j \in Pid DEF LastKept, ListsOK
<1>7. CASE WaitLast
  BY <1>1, <1>7, WaitLastJob, ShowLists DEF LastKept
<1>8. CASE WaitRestore
  BY <1>8, NoJobFields DEF WaitRestore, LastKept
<1>9. CASE Bury
  <2> DEFINE h == Head(unburied)
  <2>1. h \in Pid
    BY <1>1, <1>9, RangeTail, RangeSeq DEF Bury, ListsOK
  <2>2. job[h] \in Job /\ (job' = job \/ job' = [job EXCEPT ![h] = [job[h] EXCEPT !.status = "none"]])
    BY <1>1, <1>9, <2>1 DEF Bury, ListsOK
  <2>3. [job[h] EXCEPT !.status = "none"].last = job[h].last
    BY <2>2 DEF Job
  <2> QED BY ONLY <1>1, <2>1, <2>2, <2>3, j \in Pid DEF LastKept, ListsOK
<1>10. ASSUME NEW p \in Pid, BabysitReap(p) PROVE LastKept(j)
  <2>1. jobs[hpos] \in Pid
    BY <1>1, <1>10 DEF BabysitReap, ListsOK
  <2>2. UNCHANGED job \/ \E status : job' = [job EXCEPT ![jobs[hpos]] = Shown(jobs[hpos], status)]
    BY <1>10 DEF BabysitReap, ShowAndHangUp
  <2> QED BY <1>1, <1>2, <2>1, <2>2, ShowLists DEF LastKept
<1>11. CASE Next
  <2>1. CASE Children
    BY <1>2, <2>1 DEF Children
  <2>2. CASE Launching
    BY <1>2, <1>3, <1>4, <1>5, <2>2 DEF Launching, SetPgid, AbortForeground, AbortWait
  <2>3. CASE Foreground
    BY <1>2, <1>6, <1>7, <1>8, <2>3 DEF Foreground, ForegroundTty, ForegroundCheck,
       ForegroundCont, Continue, WaitDefault, WaitGroup, ForegroundBack
  <2>4. CASE Background
    BY <1>2, <1>6, <2>4 DEF Background, BackgroundCheck, BackgroundCont, Continue
  <2>5. CASE Funeral
    BY <1>2, <1>9, <2>5 DEF Funeral, FreeList, SwapJobs, ReapAll
  <2>6. CASE Babysit
    BY <1>2, <1>10, <2>6 DEF Babysit, Deliver, BabysitNext, BabysitCrash, BabysitReturn
  <2>7. CASE Request
    BY <1>2, <2>7 DEF Request, StartPipe, Fg, Bg, Command, EndLine
  <2> QED BY <1>11, <2>1, <2>2, <2>3, <2>4, <2>5, <2>6, <2>7 DEF Next, Main
<1> QED BY <1>2, <1>11 DEF vars

(* While do_pipe is between a fork and its setpgid, main, if it moves, ends *)
(* that, and babysit keeps to the place and the job.                        *)
LEMMA SetPgidStep ==
  ASSUME PlacesInv, [Next]_vars, pc = "setpgid"
  PROVE  \/ SetPgid
         \/ pc' = "setpgid" /\ cur' = cur /\ job'[cur].last = job[cur].last
<1>1. TypeInv /\ PlaceOK /\ ListsOK /\ Records /\ Lists
  BY TypeParts DEF TypeInv, PlacesInv
<1>2. cur \in Pid /\ job[cur].last # None
  BY <1>1, JobAssumption DEF Records, Working
<1>3. Next => SetPgid \/ Children \/ Babysit
  BY DEF Next, Main, Launching, Fork, NullCommand, AbortForeground, AbortWait, Register, Foreground,
     ForegroundTty, ForegroundCheck, ForegroundCont, ForegroundRun, WaitDefault, WaitLast,
     WaitGroup, WaitRestore, ForegroundBack, Background, BackgroundCheck, BackgroundCont,
     BackgroundRun, Funeral, Bury, FreeList, SwapJobs, ReapAll, Request, StartPipe, Fg, Bg,
     Command, EndLine, At
<1>4. ~BabysitCrash
  <2>1. \A i \in 1 .. Len(jobs) : jobs[i] \in Listed
    BY <1>1, RangeSeq DEF ListsOK, Listed
  <2> QED BY <1>1, <2>1 DEF BabysitCrash, StaleRead, Lists, NoDanglingJob
<1>5. CASE Children
  BY <1>5 DEF Children, control
<1>6. CASE Babysit
  <2>1. pc' = pc /\ cur' = cur
    BY <1>4, <1>6 DEF Babysit, Deliver, BabysitNext, BabysitReturn, BabysitReap, control
  <2>2. CASE UNCHANGED job
    BY <2>1, <2>2
  <2>3. CASE \E p \in Pid : BabysitReap(p)
    <3>1. jobs[hpos] \in Pid
      BY <1>1, <2>3 DEF BabysitReap, ListsOK
    <3>2. UNCHANGED job \/ \E status : job' = [job EXCEPT ![jobs[hpos]] = Shown(jobs[hpos], status)]
      BY <2>3 DEF BabysitReap, ShowAndHangUp
    <3>3. job'[cur].last = job[cur].last
      BY <1>1, <1>2, <3>1, <3>2, ShowLists
    <3> QED BY <2>1, <3>3
  <2> QED BY <1>6, <2>2, <2>3, <1>4 DEF Babysit, Deliver, BabysitNext, BabysitReturn
<1>7. CASE UNCHANGED vars
  BY <1>7 DEF vars, control
<1> QED BY <1>3, <1>5, <1>6, <1>7

LEMMA InteractiveStays == [Next]_vars => interactive' = interactive
<1>1. CASE Children
  BY <1>1 DEF Children
<1>2. CASE Launching
  BY <1>2 DEF Launching, Fork, SetPgid, NullCommand, AbortForeground, AbortWait, Register
<1>3. CASE Foreground
  BY <1>3 DEF Foreground, ForegroundTty, ForegroundCheck, ForegroundCont,
     Continue, ForegroundRun, WaitDefault, WaitLast, WaitGroup, WaitRestore, ForegroundBack
<1>4. CASE Background
  BY <1>4 DEF Background, BackgroundCheck, BackgroundCont, BackgroundRun, Continue
<1>5. CASE Funeral
  BY <1>5 DEF Funeral, Bury, FreeList, SwapJobs, ReapAll
<1>6. CASE Babysit
  BY <1>6 DEF Babysit, Deliver, BabysitNext, BabysitCrash, BabysitReturn, BabysitReap
<1>7. CASE Request
  BY <1>7 DEF Request, StartPipe, Fg, Bg, Command, EndLine
<1>8. CASE UNCHANGED vars
  BY <1>8 DEF vars
<1> QED BY <1>1, <1>2, <1>3, <1>4, <1>5, <1>6, <1>7, <1>8 DEF Next, Main

LEMMA LeadsStep ==
  ASSUME PlacesInv, Leads, [Next]_vars
  PROVE  Leads'
<1>1. TypeInv /\ PlaceOK /\ ListsOK
  BY TypeParts DEF PlacesInv, TypeInv
<1>2. ASSUME NEW p \in Pid
      PROVE  pgrp'[p] \in {Shell, leader'[p]} /\ (proc'[p] = "free" => pgrp'[p] = Shell)
  BY <1>1, ProcessStep DEF Leads, Old, Born
<1>3. ASSUME NEW j \in Pid, job'[j].last \in Pid
      PROVE  proc'[job'[j].last] # "free" /\ leader'[job'[j].last] = Group(j)'
  <2>1. Group(j)' = Group(j)
    BY InteractiveStays DEF Group
  <2>2. CASE LastKept(j)
    <3>1. job[j].last \in Pid /\ job'[j].last = job[j].last
      BY <1>3, <2>2, JobAssumption, NoJobFields DEF LastKept
    <3> QED BY <1>1, <2>1, <3>1, ProcessStep DEF Leads, Old, Born
  <2>3. ASSUME j = cur', NEW p \in Pid, Fork(p), job'[j].last = p
        PROVE  proc'[p] # "free" /\ leader'[p] = Group(j)
    <3>1. proc[p] = "free" /\ proc'[p] = "forked" /\ interactive' = interactive
      BY <1>1, <2>3, TypeParts DEF Fork, TypeInv, ProcsOK
    <3>2. Born(p)
      BY <1>1, <3>1, ProcessStep DEF Old
    <3> QED BY <2>3, <3>1, <3>2 DEF Born
  <2> QED BY <1>1, <2>1, <2>2, <2>3, LastStep
<1> QED BY <1>2, <1>3 DEF Leads

LEMMA GroupStep ==
  ASSUME PlacesInv, Groups, [Next]_vars
  PROVE  GroupComplete'
<1>1. TypeInv /\ Records /\ ProcsOK
  BY TypeParts DEF PlacesInv, TypeInv
<1>2. SUFFICES ASSUME NEW p \in Pid, proc'[p] # "free",
                      ~(pc' = "setpgid" /\ job'[cur'].last = p)
               PROVE  pgrp'[p] = leader'[p]
  BY DEF GroupComplete
<1>3. ~Born(p)
  BY <1>2 DEF Born
<1>4. leader'[p] = leader[p] /\ proc[p] # "free" /\ pgrp'[p] \in {pgrp[p], leader[p]}
  BY <1>1, <1>2, <1>3, ProcessStep DEF Groups, Old
<1>5. CASE pgrp[p] = leader[p]
  BY <1>4, <1>5
<1>6. CASE pc = "setpgid" /\ job[cur].last = p
  <2>1. SetPgid => pgrp'[p] = leader[p]
    BY <1>1, <1>6 DEF SetPgid, ParentSetpgid, ProcsOK
  <2> QED BY <1>2, <1>4, <1>6, <2>1, SetPgidStep
<1> QED BY <1>4, <1>5, <1>6 DEF Groups, GroupComplete

GroupsInv == PlacesInv /\ Groups

(* A process is in the shell's group or in the one do_pipe chose for it, in *)
(* the latter from the parent's setpgid on; the last process of a job was   *)
(* started for the group of that job.                                       *)
THEOREM GroupsInvariant == Spec => []GroupsInv
<1>1. Init => Groups
  BY NoJobFields, JobAssumption DEF Init, KernelInit, Groups, Leads, GroupComplete
<1>2. PlacesInv /\ Groups /\ [Next]_vars => Groups'
  BY LeadsStep, GroupStep DEF Groups
<1>3. Spec => []Groups
  BY <1>1, <1>2, PlacesInvariant, PTL DEF Spec
<1> QED BY <1>3, PlacesInvariant, PTL DEF GroupsInv

(* Once do_pipe is past a fork, the process is in the group of its          *)
(* pipeline, however late the child itself runs.                            *)
THEOREM GroupsAreComplete == Spec => []GroupComplete
<1>1. GroupsInv => GroupComplete
  BY DEF GroupsInv, Groups
<1> QED BY <1>1, GroupsInvariant, PTL

-----------------------------------------------------------------------------
(* The members of a group, and those still alive, only grow while do_pipe   *)
(* puts a new process into it.                                              *)
LEMMA ZombieStays ==
  ASSUME TypeInv, [Next]_vars, NEW p \in Pid, proc[p] = "zombie"
  PROVE  proc'[p] \in {"zombie", "reaped"}
<1>1. ProcsOK
  BY TypeParts DEF TypeInv
<1>2. CASE Children
  <2>1. PICK q \in Pid : Child(q)
    BY <1>2 DEF Children
  <2> QED BY <1>1, <2>1 DEF ProcsOK, Child, ChildExec, Exit, Killed, DieOfSigpipe,
             Stop, Terminate, LiveState
<1>3. CASE Launching
  BY <1>1, <1>3 DEF ProcsOK, Launching, Fork, SetPgid, NullCommand, AbortForeground, AbortWait,
     Register, Report, Reportable, Members, processes
<1>4. CASE Foreground
  BY <1>1, <1>4 DEF ProcsOK, Foreground, ForegroundTty, ForegroundCheck, ForegroundCont,
     Continue, SendSigcont, ForegroundRun, WaitDefault, WaitLast, WaitFor, WaitGroup,
     WaitRestore, ForegroundBack, Report, Reportable, Members, processes
<1>5. CASE Background
  BY <1>1, <1>5 DEF ProcsOK, Background, BackgroundCheck, BackgroundCont, BackgroundRun,
     Continue, SendSigcont, processes
<1>6. CASE Funeral
  BY <1>1, <1>6 DEF ProcsOK, Funeral, Bury, FreeList, SwapJobs, ReapAll, ScriptReaps,
     Report, Reportable, Members, processes
<1>7. CASE Babysit
  BY <1>1, <1>7 DEF ProcsOK, Babysit, Deliver, BabysitNext, BabysitCrash, BabysitReturn,
     BabysitReap, Waited, Report, Reportable, Members, processes
<1>8. CASE Request
  BY <1>8 DEF Request, StartPipe, Fg, Bg, Command, EndLine, processes
<1>9. CASE UNCHANGED vars
  BY <1>9 DEF vars, processes
<1> QED BY <1>2, <1>3, <1>4, <1>5, <1>6, <1>7, <1>8, <1>9 DEF Next, Main

LEMMA MembersShrink ==
  ASSUME GroupsInv, [Next]_vars, NEW g \in Pid, ~(pc = "setpgid" /\ g = cur)
  PROVE  Members(g)' \subseteq Members(g) /\ LiveMembers(g)' \subseteq LiveMembers(g)
<1>1. TypeInv /\ Leads /\ Records /\ ProcsOK /\ ProcsOK'
  BY NextTypeInv, TypeParts DEF GroupsInv, PlacesInv, Groups, TypeInv
<1>2. ASSUME NEW p \in Pid, pgrp'[p] = g, proc'[p] \notin {"free", "reaped"}
      PROVE  p \in Members(g)
  <2>1. ~Born(p)
    BY <1>1, <1>2, KernelAssumption DEF Born, Leads
  <2>2. proc[p] # "free" /\ proc[p] # "reaped" /\ pgrp'[p] \in {pgrp[p], leader[p]}
    BY <1>1, <1>2, <2>1, ProcessStep, ReapedStays DEF Old
  <2>3. CASE pgrp[p] = leader[p]
    BY <1>2, <2>2, <2>3 DEF Members
  <2>4. CASE pgrp[p] # leader[p]
    <3>1. pc = "setpgid" /\ job[cur].last = p /\ cur \in Pid
      BY <1>1, <2>2, <2>4 DEF GroupsInv, Groups, GroupComplete, Records, Working
    <3>2. leader[p] \in {cur, Shell}
      BY <1>1, <3>1 DEF Leads, Group
    <3> QED BY <1>2, <2>2, <3>1, <3>2, KernelAssumption DEF Members
  <2> QED BY <2>3, <2>4
<1>3. Members(g)' \subseteq Members(g)
  BY <1>2 DEF Members
<1>4. \A p \in Pid : proc'[p] \in LiveState /\ p \in Members(g) => proc[p] \in LiveState
  BY <1>1, ZombieStays DEF ProcsOK, ProcState, LiveState, Members
<1> QED BY <1>3, <1>4 DEF LiveMembers, Members

-----------------------------------------------------------------------------
(* The terminal while job_wait waits.                                       *)

Fore == {"check", "cont", "run", "dfl", "wait", "group"}
Owns == interactive /\ pc \in Fore /\ Members(cur) # {} => tty = cur

(* From the moment job_foreground has set the terminal to the moment        *)
(* job_wait is over, main stays with the job it serves.                     *)
LEMMA ForeStep ==
  ASSUME TypeInv, Control, [Next]_vars, interactive, pc' \in Fore
  PROVE  \/ ForegroundTty
         \/ pc \in Fore /\ cur' = cur /\ tty' = tty
<1> USE DEF Fore, At, Goto, Return, control
<1>1. CASE Children
  BY <1>1 DEF Children, Child, ChildExec, Exit, Killed, DieOfSigpipe, Stop, Terminate
<1>2. CASE Launching
  BY <1>2 DEF Launching, Fork, SetPgid, NullCommand, AbortForeground, AbortWait, Register
<1>3. CASE Foreground
  BY <1>3 DEF Foreground, ForegroundCheck, ForegroundCont,
     Continue, ForegroundRun, WaitDefault, WaitLast, WaitGroup, WaitRestore, ForegroundBack
<1>4. CASE Background
  BY <1>4 DEF Background, BackgroundCheck, BackgroundCont, BackgroundRun, Continue
<1>5. CASE Funeral
  BY <1>5 DEF Funeral, Bury, FreeList, SwapJobs, ReapAll
<1>6. CASE Babysit
  BY <1>6 DEF Babysit, Deliver, BabysitNext, BabysitCrash, BabysitReturn, BabysitReap
<1>7. CASE Request
  BY <1>7 DEF Request, StartPipe, Fg, Bg, Command, EndLine
<1>8. CASE UNCHANGED vars
  BY <1>8 DEF vars
<1> QED BY <1>1, <1>2, <1>3, <1>4, <1>5, <1>6, <1>7, <1>8 DEF Next, Main

LEMMA OwnsStep ==
  ASSUME GroupsInv, Owns, [Next]_vars
  PROVE  Owns'
<1>1. TypeInv /\ Control /\ Records
  BY DEF GroupsInv, PlacesInv, TypeInv
<1>2. SUFFICES ASSUME interactive, pc' \in Fore, Members(cur)' # {}
               PROVE  tty' = cur'
  BY InteractiveStays DEF Owns
<1>3. CASE ForegroundTty
  <2>1. cur' = cur /\ proc' = proc /\ pgrp' = pgrp
    BY <1>3 DEF ForegroundTty, Goto, processes
  <2>2. Members(cur)' = Members(cur)
    BY <2>1 DEF Members
  <2> QED BY <1>2, <1>3, <2>1, <2>2 DEF ForegroundTty, SetTerminal
<1>4. CASE pc \in Fore /\ cur' = cur /\ tty' = tty
  <2>1. cur \in Pid /\ pc # "setpgid"
    BY <1>1, <1>4 DEF Fore, Records, Working
  <2>2. Members(cur)' \subseteq Members(cur)
    <3>1. PICK g \in Pid : g = cur
      BY <2>1
    <3>2. Members(g)' \subseteq Members(g)
      BY <2>1, MembersShrink
    <3> QED BY <1>4, <3>1, <3>2 DEF Members
  <2> QED BY <1>2, <1>4, <2>2 DEF Owns
<1> QED BY <1>1, <1>2, <1>3, <1>4, ForeStep

(* While job_wait waits for a group that still has a process, that group    *)
(* owns the terminal, and babysit, whose signal is at its default, cannot   *)
(* take the wait status job_wait is blocked for.                            *)
THEOREM WaitsAlone == Spec => []WaitIsExclusive
<1>1. Init => Owns
  BY DEF Init, Owns, Fore
<1>2. GroupsInv /\ Owns /\ [Next]_vars => Owns'
  BY OwnsStep
<1>3. GroupsInv /\ Owns => WaitIsExclusive
  BY DEF GroupsInv, PlacesInv, Control, Owns, Fore, WaitIsExclusive
<1> QED BY <1>1, <1>2, <1>3, GroupsInvariant, PTL DEF Spec

-----------------------------------------------------------------------------
(* Dead jobs are hung up.                                                   *)

(* A SIGPIPE that was sent is not taken back.                               *)
LEMMA SigpipeStays ==
  ASSUME TypeInv, [Next]_vars, NEW p \in Pid, sigpipe[p]
  PROVE  sigpipe'[p]
<1>1. CASE UNCHANGED sigpipe
  BY <1>1
<1>2. ASSUME NEW g, SendSigpipe(g) PROVE sigpipe'[p]
  BY <1>2, Zenon DEF SendSigpipe
<1>3. CASE Children
  BY <1>1, <1>3 DEF Children, Child, ChildExec, Exit, Killed, DieOfSigpipe, Stop, Terminate
<1>4. CASE Launching
  BY <1>1, <1>4 DEF Launching, Fork, SetPgid, NullCommand, AbortForeground, AbortWait, Register,
     processes
<1>5. CASE WaitLast
  BY <1>1, <1>2, <1>5 DEF WaitLast, ShowAndHangUp, HangUp
<1>6. CASE Foreground /\ ~WaitLast
  BY <1>1, <1>6 DEF Foreground, ForegroundTty, ForegroundCheck, ForegroundCont,
     Continue, ForegroundRun, WaitDefault, WaitGroup, WaitRestore, ForegroundBack, processes
<1>7. CASE Background
  BY <1>1, <1>7 DEF Background, BackgroundCheck, BackgroundCont, BackgroundRun, Continue, processes
<1>8. CASE Funeral
  BY <1>1, <1>8 DEF Funeral, Bury, FreeList, SwapJobs, ReapAll, processes
<1>9. CASE \E q \in Pid : BabysitReap(q)
  BY <1>1, <1>2, <1>9 DEF BabysitReap, ShowAndHangUp, HangUp
<1>10. CASE Deliver \/ BabysitNext \/ BabysitCrash \/ BabysitReturn
  BY <1>1, <1>10 DEF Deliver, BabysitNext, BabysitCrash, BabysitReturn, processes
<1>11. CASE Request
  BY <1>1, <1>11 DEF Request, StartPipe, Fg, Bg, Command, EndLine, processes
<1>12. CASE UNCHANGED vars
  BY <1>1, <1>12 DEF vars, processes
<1> QED BY <1>3, <1>4, <1>5, <1>6, <1>7, <1>8, <1>9, <1>10, <1>11, <1>12 DEF Next, Main, Babysit

(* Whoever marks a job dead hangs it up in the same step.                   *)
DiesHungUp ==
  \A j \in Pid : job'[j].status = "dead" =>
    \/ job[j].status = "dead"
    \/ \A p \in LiveMembers(j) : sigpipe'[p]

LEMMA ShownHungUp ==
  ASSUME ListsOK, NEW j \in Pid, NEW status, ShowAndHangUp(j, status)
  PROVE  DiesHungUp
<1>1. job' = [job EXCEPT ![j] = Shown(j, status)]
  BY DEF ShowAndHangUp
<1>2. \A i \in Pid : i # j => job'[i] = job[i]
  BY <1>1, ShowLists
<1>3. job'[j] = Shown(j, status)
  BY <1>1 DEF ListsOK
<1>4. CASE Shown(j, status).status = "dead"
  <2>1. sigpipe' = [p \in Pid |-> sigpipe[p] \/ p \in LiveMembers(j)]
    BY <1>4 DEF ShowAndHangUp, HangUp, SendSigpipe
  <2>2. LiveMembers(j) \subseteq Pid
    BY DEF LiveMembers, Members
  <2>3. \A p \in LiveMembers(j) : sigpipe'[p]
    BY ONLY <2>1, <2>2, Zenon
  <2> QED BY <1>2, <2>3 DEF DiesHungUp
<1>5. CASE Shown(j, status).status # "dead"
  BY <1>2, <1>3, <1>5 DEF DiesHungUp
<1> QED BY <1>4, <1>5

LEMMA NextDiesHungUp ==
  ASSUME TypeInv, [Next]_vars, interactive
  PROVE  DiesHungUp
<1>1. ProcsOK /\ ListsOK /\ Records /\ PlaceOK
  BY TypeParts DEF TypeInv
<1>2. CASE UNCHANGED job
  BY <1>2 DEF DiesHungUp
<1>3. ASSUME NEW p \in Pid, Fork(p) PROVE DiesHungUp
  <2> DEFINE lead == IF cur = None THEN p ELSE cur
  <2>1. lead \in Pid /\ job' = [job EXCEPT ![lead] = [@ EXCEPT !.last = p]]
    BY <1>1, <1>3 DEF Fork, PlaceOK
  <2>2. job[lead].status = "none" /\ job[lead] \in Job
    BY <1>1, <1>3, <2>1, NoJobFields DEF Fork, At, Records, Building, ListsOK
  <2>3. [job[lead] EXCEPT !.last = p].status = "none"
    BY <2>2 DEF Job
  <2> QED BY <1>1, <2>1, <2>3 DEF DiesHungUp, ListsOK
<1>4. CASE NullCommand
  BY <1>4, NoJobFields DEF NullCommand, DiesHungUp
<1>5. CASE Register
  BY <1>1, <1>5, RegisterLists, NoJobFields DEF DiesHungUp
<1>6. CASE ForegroundRun \/ BackgroundRun
  <2>1. cur \in Pid /\ job[cur] \in Job
    BY <1>1, <1>6 DEF ForegroundRun, BackgroundRun, At, Records, Working, ListsOK
  <2>2. job' = [job EXCEPT ![cur] = [job[cur] EXCEPT !.status = "running"]]
        /\ [job[cur] EXCEPT !.status = "running"].status = "running"
    BY <1>6, <2>1 DEF ForegroundRun, BackgroundRun, Job
  <2> QED BY ONLY <1>1, <2>1, <2>2 DEF DiesHungUp, ListsOK
<1>7. CASE WaitLast
  <2>1. cur \in Pid
    BY <1>1, <1>7 DEF WaitLast, At, Records, Working
  <2> QED BY <1>1, <1>7, <2>1, ShownHungUp DEF WaitLast
<1>8. CASE WaitRestore
  BY <1>8, NoJobFields DEF WaitRestore, DiesHungUp
<1>9. CASE Bury
  <2> DEFINE h == Head(unburied)
  <2>1. h \in Pid
    BY <1>1, <1>9, RangeTail, RangeSeq DEF Bury, ListsOK
  <2>2. job[h] \in Job /\ (job' = job \/ job' = [job EXCEPT ![h] = [job[h] EXCEPT !.status = "none"]])
    BY <1>1, <1>9, <2>1 DEF Bury, ListsOK
  <2>3. [job[h] EXCEPT !.status = "none"].status = "none"
    BY <2>2 DEF Job
  <2> QED BY ONLY <1>1, <2>1, <2>2, <2>3 DEF DiesHungUp, ListsOK
<1>10. ASSUME NEW p \in Pid, BabysitReap(p) PROVE DiesHungUp
  <2>1. jobs[hpos] \in Pid
    BY <1>1, <1>10 DEF BabysitReap, ListsOK
  <2>2. UNCHANGED job \/ \E status : ShowAndHangUp(jobs[hpos], status)
    BY <1>10 DEF BabysitReap
  <2> QED BY <1>1, <1>2, <2>1, <2>2, ShownHungUp
<1>11. CASE Next
  <2>1. CASE Children
    BY <1>2, <2>1 DEF Children
  <2>2. CASE Launching
    BY <1>2, <1>3, <1>4, <1>5, <2>2 DEF Launching, SetPgid, AbortForeground, AbortWait
  <2>3. CASE Foreground
    BY <1>2, <1>6, <1>7, <1>8, <2>3 DEF Foreground, ForegroundTty, ForegroundCheck,
       ForegroundCont, Continue, WaitDefault, WaitGroup, ForegroundBack
  <2>4. CASE Background
    BY <1>2, <1>6, <2>4 DEF Background, BackgroundCheck, BackgroundCont, Continue
  <2>5. CASE Funeral
    BY <1>2, <1>9, <2>5 DEF Funeral, FreeList, SwapJobs, ReapAll
  <2>6. CASE Babysit
    BY <1>2, <1>10, <2>6 DEF Babysit, Deliver, BabysitNext, BabysitCrash, BabysitReturn
  <2>7. CASE Request
    BY <1>2, <2>7 DEF Request, StartPipe, Fg, Bg, Command, EndLine
  <2> QED BY <1>11, <2>1, <2>2, <2>3, <2>4, <2>5, <2>6, <2>7 DEF Next, Main
<1> QED BY <1>2, <1>11 DEF vars

(* A job is listed when it is registered, alive.                            *)
LEMMA ListedStep ==
  ASSUME PlacesInv, [Next]_vars, NEW j \in Listed'
  PROVE  j \in Listed \/ (j = cur /\ pc = "register" /\ interactive /\ job'[j].status = "running")
<1>1. TypeInv /\ ListsOK /\ Records
  BY TypeParts DEF PlacesInv, TypeInv
<1>2. CASE Register /\ interactive
  <2>1. cur \in Pid /\ jobs' = <<cur>> \o jobs /\ job'[cur].status = "running"
    BY <1>1, <1>2, RegisterLists
  <2>2. Listed' = {cur} \cup Listed
    BY <1>1, <2>1, RangeCons DEF Listed, ListsOK
  <2> QED BY <1>2, <2>1, <2>2 DEF Register, At
<1>3. CASE SwapJobs
  BY <1>1, <1>3, SurvivorsOf DEF PlacesInv, Listed
<1>4. CASE EndLine \/ Bury \/ Quiet
  BY <1>4 DEF EndLine, Bury, Quiet, Listed
<1> QED BY <1>1, <1>2, <1>3, <1>4, ListSteps DEF PlacesInv

LEMMA HungUpStep ==
  ASSUME GroupsInv, DeadJobIsHungUp, [Next]_vars
  PROVE  DeadJobIsHungUp'
<1>1. TypeInv /\ ListsOK /\ Records /\ PlacesInv
  BY TypeParts DEF GroupsInv, PlacesInv, TypeInv
<1>2. SUFFICES ASSUME NEW j \in Listed', job'[j].status = "dead", NEW p \in LiveMembers(j)'
               PROVE  sigpipe'[p]
  BY DEF DeadJobIsHungUp
<1>3. j \in Listed
  BY <1>1, <1>2, ListedStep
<1>4. j \in Pid /\ j \in Named /\ interactive
  BY <1>1, <1>3, NamedInPid DEF Listed, Named, Records
<1>5. ~(pc = "setpgid" /\ j = cur)
  BY <1>1, <1>4, JobAssumption DEF Records, Building
<1>6. p \in LiveMembers(j)
  BY <1>2, <1>4, <1>5, MembersShrink
<1>7. p \in Pid
  BY <1>6 DEF LiveMembers, Members
<1>8. CASE job[j].status = "dead"
  BY <1>1, <1>3, <1>6, <1>7, <1>8, SigpipeStays DEF DeadJobIsHungUp
<1>9. CASE \A q \in LiveMembers(j) : sigpipe'[q]
  BY <1>6, <1>9
<1> QED BY <1>1, <1>2, <1>4, <1>8, <1>9, NextDiesHungUp DEF DiesHungUp

(* The members of a dead job that are still alive were sent SIGPIPE,        *)
(* whether babysit or job_wait saw the last process end.                    *)
THEOREM DeadJobsAreHungUp == Spec => []DeadJobIsHungUp
<1>1. Init => DeadJobIsHungUp
  BY NoJobFields, RangeSeq DEF Init, DeadJobIsHungUp, Listed, Range
<1>2. GroupsInv /\ DeadJobIsHungUp /\ [Next]_vars => DeadJobIsHungUp'
  BY HungUpStep
<1> QED BY <1>1, <1>2, GroupsInvariant, PTL DEF Spec

-----------------------------------------------------------------------------
(* The terminal between two commands.                                       *)

Holding == Fore \cup {"restore", "back"}
Stray == tty # Shell =>
  /\ tty \in Pid /\ job[tty].last \in Pid
  /\ pc \in Building => tty # cur
  /\ \/ proc[job[tty].last] = "reaped"
     \/ cur = tty /\ pc \in Holding
     \/ pc = "wild"

LEMMA EmptyGroup ==
  ASSUME GroupsInv, interactive, pc # "setpgid",
         NEW j \in Pid, job[j].last \in Pid, Members(j) = {}
  PROVE  proc[job[j].last] = "reaped"
BY DEF GroupsInv, Groups, Leads, Group, GroupComplete, Members

LEMMA LastFixed ==
  ASSUME PlacesInv, [Next]_vars, interactive, NEW j \in Pid, job[j].last \in Pid,
         ~(pc \in Building /\ j = cur)
  PROVE  job'[j].last = job[j].last
<1>1. TypeInv /\ Records
  BY DEF PlacesInv, TypeInv
<1>2. ASSUME NEW p \in Pid, Fork(p), j = cur', pc = "fork" PROVE FALSE
  <2>1. j = p /\ proc[p] = "free"
    BY <1>2 DEF Fork, Building
  <2> QED BY <1>1, <2>1, NoJobFields, JobAssumption DEF Records
<1> QED BY <1>1, <1>2, LastStep DEF LastKept

LEMMA BuildingStep ==
  ASSUME TypeInv, [Next]_vars, pc' \in Building, cur' # None
  PROVE  \/ pc \in Building /\ cur' = cur
         \/ cur = None /\ Fork(cur') /\ proc[cur'] = "free" /\ job[cur'] = NoJob
<1> USE DEF Building, At, Goto, Return, control
<1>0. Records
  BY DEF TypeInv
<1>1. CASE Children
  BY <1>1 DEF Children
<1>2. CASE Launching
  <2>1. ASSUME NEW p \in Pid, Fork(p)
        PROVE  \/ pc \in Building /\ cur' = cur
               \/ cur = None /\ Fork(cur') /\ proc[cur'] = "free" /\ job[cur'] = NoJob
    <3>1. pc = "fork" /\ (cur # None => cur' = cur) /\ (cur = None => cur' = p) /\ proc[p] = "free"
      BY <2>1 DEF Fork
    <3>2. Fork(p)
      BY <2>1
    <3> QED BY ONLY <1>0, <3>1, <3>2 DEF Records, Building
  <2>2. CASE ~ \E p \in Pid : Fork(p)
    BY <1>2, <2>2 DEF Launching, SetPgid, NullCommand, AbortForeground, AbortWait, Register
  <2> QED BY <2>1, <2>2
<1>3. CASE Foreground
  BY <1>3 DEF Foreground, ForegroundTty, ForegroundCheck, ForegroundCont,
     Continue, ForegroundRun, WaitDefault, WaitLast, WaitGroup, WaitRestore, ForegroundBack
<1>4. CASE Background
  BY <1>4 DEF Background, BackgroundCheck, BackgroundCont, BackgroundRun, Continue
<1>5. CASE Funeral
  BY <1>5 DEF Funeral, Bury, FreeList, SwapJobs, ReapAll
<1>6. CASE Babysit
  BY <1>6 DEF Babysit, Deliver, BabysitNext, BabysitCrash, BabysitReturn, BabysitReap
<1>7. CASE Request
  BY <1>0, <1>7 DEF Request, StartPipe, Fg, Bg, Command, EndLine, Records, Idle
<1>8. CASE UNCHANGED vars
  BY <1>8 DEF vars
<1> QED BY <1>1, <1>2, <1>3, <1>4, <1>5, <1>6, <1>7, <1>8 DEF Next, Main

(* How main leaves the places where a job may hold the terminal.            *)
LEMMA HoldingStep ==
  ASSUME [Next]_vars, interactive, pc \in Holding
  PROVE  \/ pc' = "wild"
         \/ pc' \in Holding /\ cur' = cur
         \/ ForegroundBack
         \/ ForegroundCheck /\ job[cur].status = "dead"
         \/ ForegroundCont /\ Members(cur) = {}
<1> USE DEF Holding, Fore, At, Goto, Return, control
<1>1. CASE Children
  BY <1>1 DEF Children
<1>2. CASE Launching
  BY <1>2 DEF Launching, Fork, SetPgid, NullCommand, AbortForeground, AbortWait, Register
<1>3. CASE Foreground
  BY <1>3 DEF Foreground, ForegroundTty, ForegroundCheck, ForegroundCont,
     Continue, ForegroundRun, WaitDefault, WaitLast, WaitGroup, WaitRestore
<1>4. CASE Background
  BY <1>4 DEF Background, BackgroundCheck, BackgroundCont, BackgroundRun, Continue
<1>5. CASE Funeral
  BY <1>5 DEF Funeral, Bury, FreeList, SwapJobs, ReapAll
<1>6. CASE Babysit
  BY <1>6 DEF Babysit, Deliver, BabysitNext, BabysitCrash, BabysitReturn, BabysitReap
<1>7. CASE Request
  BY <1>7 DEF Request, StartPipe, Fg, Bg, Command, EndLine
<1>8. CASE UNCHANGED vars
  BY <1>8 DEF vars
<1> QED BY <1>1, <1>2, <1>3, <1>4, <1>5, <1>6, <1>7, <1>8 DEF Next, Main

LEMMA WildStep == [Next]_vars /\ pc = "wild" => pc' = "wild"
<1> USE DEF At, Goto, Return, control
<1> SUFFICES ASSUME [Next]_vars, pc = "wild" PROVE pc' = "wild"
    OBVIOUS
<1>1. CASE Children
  BY <1>1 DEF Children
<1>2. CASE Launching
  BY <1>2 DEF Launching, Fork, SetPgid, NullCommand, AbortForeground, AbortWait, Register
<1>3. CASE Foreground
  BY <1>3 DEF Foreground, ForegroundTty, ForegroundCheck, ForegroundCont,
     Continue, ForegroundRun, WaitDefault, WaitLast, WaitGroup, WaitRestore, ForegroundBack
<1>4. CASE Background
  BY <1>4 DEF Background, BackgroundCheck, BackgroundCont, BackgroundRun, Continue
<1>5. CASE Funeral
  BY <1>5 DEF Funeral, Bury, FreeList, SwapJobs, ReapAll
<1>6. CASE Babysit
  BY <1>6 DEF Babysit, Deliver, BabysitNext, BabysitCrash, BabysitReturn, BabysitReap
<1>7. CASE Request
  BY <1>7 DEF Request, StartPipe, Fg, Bg, Command, EndLine
<1>8. CASE UNCHANGED vars
  BY <1>8 DEF vars
<1> QED BY <1>1, <1>2, <1>3, <1>4, <1>5, <1>6, <1>7, <1>8 DEF Next, Main

LEMMA TerminalStep == [Next]_vars => tty' = tty \/ ForegroundTty \/ (ForegroundBack /\ tty' = Shell)
<1>1. CASE Children
  BY <1>1 DEF Children, Child, ChildExec, Exit, Killed, DieOfSigpipe, Stop, Terminate
<1>2. CASE Launching
  BY <1>2 DEF Launching, Fork, SetPgid, NullCommand, AbortForeground, AbortWait, Register
<1>3. CASE Foreground
  BY <1>3 DEF Foreground, ForegroundCheck, ForegroundCont, Continue, ForegroundRun, WaitDefault,
     WaitLast, WaitGroup, WaitRestore, ForegroundBack, TakeTerminal, SetTerminal
<1>4. CASE Background
  BY <1>4 DEF Background, BackgroundCheck, BackgroundCont, BackgroundRun, Continue
<1>5. CASE Funeral
  BY <1>5 DEF Funeral, Bury, FreeList, SwapJobs, ReapAll
<1>6. CASE Babysit
  BY <1>6 DEF Babysit, Deliver, BabysitNext, BabysitCrash, BabysitReturn, BabysitReap
<1>7. CASE Request
  BY <1>7 DEF Request, StartPipe, Fg, Bg, Command, EndLine
<1>8. CASE UNCHANGED vars
  BY <1>8 DEF vars
<1> QED BY <1>1, <1>2, <1>3, <1>4, <1>5, <1>6, <1>7, <1>8 DEF Next, Main

LEMMA StrayStep ==
  ASSUME GroupsInv, Stray, [Next]_vars
  PROVE  Stray'
<1>1. TypeInv /\ Records /\ Control /\ DeadMeansLastReaped /\ PlacesInv /\ PlaceOK
  BY TypeParts DEF GroupsInv, PlacesInv, TypeInv
<1>2. SUFFICES ASSUME tty' # Shell PROVE Stray'
  BY DEF Stray
<1>3. interactive
  BY <1>1, <1>2, ControlStep, InteractiveStays DEF Control
<1>4. CASE ForegroundTty /\ tty' = cur
  <2>1. cur \in Pid /\ job[cur].last \in Pid /\ job' = job /\ cur' = cur /\ pc' = "check"
    BY <1>1, <1>4 DEF ForegroundTty, At, Goto, Records, Working
  <2> QED BY <1>4, <2>1 DEF Stray, Holding, Fore, Building
<1>5. CASE tty' = tty /\ ~(ForegroundBack /\ tty' = Shell)
  <2>1. tty \in Pid /\ job[tty].last \in Pid /\ (pc \in Building => tty # cur)
    BY <1>2, <1>5 DEF Stray
  <2>2. job'[tty].last = job[tty].last
    BY <1>1, <1>3, <2>1, LastFixed
  <2>3. pc' \in Building => tty # cur'
    BY <1>1, <2>1, BuildingStep, JobAssumption, NoJobFields
  <2>4. CASE proc[job[tty].last] = "reaped"
    BY <1>1, <1>5, <2>1, <2>2, <2>3, <2>4, ReapedStays DEF Stray
  <2>5. CASE pc = "wild"
    BY <1>5, <2>1, <2>2, <2>3, <2>5, WildStep DEF Stray
  <2>6. CASE cur = tty /\ pc \in Holding
    <3>1. (ForegroundCheck /\ job[cur].status = "dead") => proc[job[tty].last] = "reaped"
      BY <1>1, <2>1, <2>6 DEF DeadMeansLastReaped
    <3>2. (ForegroundCont /\ Members(cur) = {}) => proc[job[tty].last] = "reaped"
      BY <1>3, <2>1, <2>6, EmptyGroup DEF Holding, Fore
    <3>3. ForegroundBack => tty' = Shell
      BY DEF ForegroundBack, TakeTerminal, SetTerminal
    <3>4. CASE pc' = "wild" \/ (pc' \in Holding /\ cur' = cur)
      BY <1>5, <2>1, <2>2, <2>3, <2>6, <3>4 DEF Stray
    <3> QED BY <1>2, <1>3, <2>4, <2>6, <3>1, <3>2, <3>3, <3>4, HoldingStep
  <2> QED BY <1>2, <1>5, <2>4, <2>5, <2>6 DEF Stray
<1>6. ForegroundTty => tty' = cur \/ tty' = tty
  BY DEF ForegroundTty, SetTerminal
<1> QED BY <1>2, <1>4, <1>5, <1>6, TerminalStep

(* The shell reads the next command without the terminal only after         *)
(* job_foreground refused a job whose last process had been collected.      *)
THEOREM TerminalComesBack == Spec => []StrayTerminalOnlyAfterDeath
<1>1. Init => Stray
  BY DEF Init, KernelInit, Stray
<1>2. GroupsInv /\ Stray /\ [Next]_vars => Stray'
  BY StrayStep
<1>3. Stray => StrayTerminalOnlyAfterDeath
  BY DEF Stray, StrayTerminalOnlyAfterDeath, Holding, Fore
<1> QED BY <1>1, <1>2, <1>3, GroupsInvariant, PTL DEF Spec

-----------------------------------------------------------------------------
(* What a foreground do_pipe returns.                                       *)

(* Past the wait for it, the last process of the job has ended or stopped,  *)
(* and its end or stop was reported.                                        *)
After == {"group", "restore", "back"}
Settled == pc \in After /\ cur # None =>
  /\ job[cur].last \in Pid
  /\ proc[job[cur].last] \in {"reaped", "halted", "zombie"}
  /\ pc = "group" => proc[job[cur].last] = "reaped"

LEMMA AfterStep ==
  ASSUME Control, [Next]_vars, pc' \in After, cur' # None
  PROVE  cur' = cur /\ (WaitLast \/ (pc \in After /\ (pc' = "group" => pc = "group")))
<1> USE DEF After, At, Goto, Return, control
<1>1. CASE Children
  BY <1>1 DEF Children
<1>2. CASE Launching
  BY <1>2 DEF Launching, Fork, SetPgid, NullCommand, AbortForeground, AbortWait, Register, Control
<1>3. CASE Foreground
  BY <1>3 DEF Foreground, ForegroundTty, ForegroundCheck, ForegroundCont, Continue, ForegroundRun,
     WaitDefault, WaitGroup, WaitRestore, ForegroundBack, WaitLast
<1>4. CASE Background
  BY <1>4 DEF Background, BackgroundCheck, BackgroundCont, BackgroundRun, Continue
<1>5. CASE Funeral
  BY <1>5 DEF Funeral, Bury, FreeList, SwapJobs, ReapAll
<1>6. CASE Babysit
  BY <1>6 DEF Babysit, Deliver, BabysitNext, BabysitCrash, BabysitReturn, BabysitReap
<1>7. CASE Request
  BY <1>7 DEF Request, StartPipe, Fg, Bg, Command, EndLine
<1>8. CASE UNCHANGED vars
  BY <1>8 DEF vars
<1> QED BY <1>1, <1>2, <1>3, <1>4, <1>5, <1>6, <1>7, <1>8 DEF Next, Main

(* A process whose stop was reported goes on only after a SIGCONT.          *)
LEMMA HaltedStays ==
  ASSUME TypeInv, [Next]_vars, pc \in After, NEW p \in Pid, proc[p] = "halted"
  PROVE  proc'[p] \in {"halted", "zombie", "reaped"}
<1> USE DEF After, At
<1>1. ProcsOK
  BY TypeParts DEF TypeInv
<1>2. CASE Children
  <2>1. PICK q \in Pid : Child(q)
    BY <1>2 DEF Children
  <2> QED BY <1>1, <2>1 DEF ProcsOK, Child, ChildExec, Exit, Killed, DieOfSigpipe,
             Stop, Terminate, LiveState
<1>3. CASE Launching
  BY <1>1, <1>3 DEF ProcsOK, Launching, Fork, SetPgid, NullCommand, AbortForeground, AbortWait,
     Register, Report, Reportable, Members, processes
<1>4. CASE Foreground
  BY <1>1, <1>4 DEF ProcsOK, Foreground, ForegroundTty, ForegroundCheck, ForegroundCont,
     ForegroundRun, WaitDefault, WaitLast, WaitFor, WaitGroup,
     WaitRestore, ForegroundBack, Report, Reportable, Members, processes
<1>5. CASE Background
  BY <1>1, <1>5 DEF ProcsOK, Background, BackgroundCheck, BackgroundCont, BackgroundRun, processes
<1>6. CASE Funeral
  BY <1>1, <1>6 DEF ProcsOK, Funeral, Bury, FreeList, SwapJobs, ReapAll, ScriptReaps,
     Report, Reportable, Members, processes
<1>7. CASE Babysit
  BY <1>1, <1>7 DEF ProcsOK, Babysit, Deliver, BabysitNext, BabysitCrash, BabysitReturn,
     BabysitReap, Waited, Report, Reportable, Members, processes
<1>8. CASE Request
  BY <1>8 DEF Request, StartPipe, Fg, Bg, Command, EndLine, processes
<1>9. CASE UNCHANGED vars
  BY <1>9 DEF vars, processes
<1> QED BY <1>2, <1>3, <1>4, <1>5, <1>6, <1>7, <1>8, <1>9 DEF Next, Main

LEMMA SettledStep ==
  ASSUME PlacesInv, Settled, [Next]_vars
  PROVE  Settled'
<1>1. TypeInv /\ Records /\ Control /\ DeadMeansLastReaped /\ ListsOK /\ ProcsOK /\ PlaceOK
  BY TypeParts DEF PlacesInv, TypeInv
<1>2. SUFFICES ASSUME pc' \in After, cur' # None
               PROVE  /\ job'[cur'].last \in Pid
                      /\ proc'[job'[cur'].last] \in {"reaped", "halted", "zombie"}
                      /\ pc' = "group" => proc'[job'[cur'].last] = "reaped"
  BY DEF Settled
<1>3. CASE WaitLast
  <2>1. cur \in Pid /\ job[cur].last \in Pid /\ cur' = cur
    BY <1>1, <1>3 DEF WaitLast, At, Goto, Records, Working
  <2>2. job'[cur].last = job[cur].last
    BY <1>1, <1>3, <2>1, WaitLastJob, ShowLists
  <2>3. proc'[job[cur].last] \in {"reaped", "halted"}
    BY <1>1, <1>3, <2>1 DEF WaitLast, WaitFor, Report, ProcsOK
  <2>4. CASE pc' = "group"
    <3>1. PICK status : /\ job' = [job EXCEPT ![cur] = Shown(cur, status)]
                        /\ Shown(cur, status).status = "dead"
      BY <1>3, <2>4 DEF WaitLast, ShowAndHangUp, Goto
    <3>2. job'[cur].status = "dead"
      BY <1>1, <2>1, <3>1 DEF ListsOK
    <3>3. proc'[job[cur].last] = "reaped"
      BY <1>1, <2>1, <2>2, <3>2, NextBecomesDead, ReapedStays DEF BecomesDead, DeadMeansLastReaped
    <3> QED BY <2>1, <2>2, <3>3
  <2> QED BY <2>1, <2>2, <2>3, <2>4
<1>4. CASE pc \in After /\ cur' = cur /\ (pc' = "group" => pc = "group")
  <2>1. cur \in Pid /\ job[cur].last \in Pid
    BY <1>1, <1>2, <1>4 DEF Settled, PlaceOK
  <2>2. job'[cur].last = job[cur].last
    <3>1. ~(WaitRestore /\ ~interactive)
      BY <1>2, <1>4 DEF WaitRestore, Return, After
    <3>2. pc \notin Building /\ pc # "fork"
      BY <1>4 DEF After, Building
    <3> QED BY <1>1, <2>1, <3>1, <3>2, LastStep DEF LastKept
  <2>3. proc'[job[cur].last] \in {"reaped", "halted", "zombie"}
    BY <1>1, <1>2, <1>4, <2>1, HaltedStays, ReapedStays, ZombieStays DEF Settled
  <2>4. pc' = "group" => proc'[job[cur].last] = "reaped"
    BY <1>1, <1>2, <1>4, <2>1, ReapedStays DEF Settled, After
  <2> QED BY <1>4, <2>1, <2>2, <2>3, <2>4
<1> QED BY <1>1, <1>2, <1>3, <1>4, AfterStep

SettledInv == GroupsInv /\ Settled

(* When job_wait is over, or collects the rest of the group, the last       *)
(* process of the job was seen to end or to stop.                           *)
THEOREM SettledInvariant == Spec => []SettledInv
<1>1. Init => Settled
  BY DEF Init, Settled, After
<1>2. GroupsInv /\ Settled /\ [Next]_vars => Settled'
  BY SettledStep DEF GroupsInv
<1>3. Spec => []Settled
  BY <1>1, <1>2, GroupsInvariant, PTL DEF Spec
<1> QED BY <1>3, GroupsInvariant, PTL DEF SettledInv

(* How a foreground do_pipe returns.                                        *)
LEMMA ReturnSteps ==
  ASSUME Control, [Next]_vars, PipeReturns
  PROVE  \/ ForegroundCheck /\ job[cur].status = "dead" /\ pc = "check"
         \/ ForegroundCont /\ Members(cur) = {} /\ pc = "cont"
         \/ WaitRestore /\ pc = "restore" /\ ~interactive
         \/ ForegroundBack /\ pc = "back"
<1> USE DEF PipeReturns, Control, Idle, At, Goto, Return, control
<1>1. CASE Children
  BY <1>1 DEF Children
<1>2. CASE Launching
  BY <1>2 DEF Launching, Fork, SetPgid, NullCommand, AbortForeground, AbortWait, Register
<1>3. CASE Foreground
  BY <1>3 DEF Foreground, ForegroundTty, ForegroundCheck, ForegroundCont, Continue, ForegroundRun,
     WaitDefault, WaitGroup, WaitRestore, ForegroundBack, WaitLast
<1>4. CASE Background
  BY <1>4 DEF Background, BackgroundCheck, BackgroundCont, BackgroundRun, Continue
<1>5. CASE Funeral
  BY <1>5 DEF Funeral, Bury, FreeList, SwapJobs, ReapAll
<1>6. CASE Babysit
  BY <1>6 DEF Babysit, Deliver, BabysitNext, BabysitCrash, BabysitReturn, BabysitReap
<1>7. CASE Request
  BY <1>7 DEF Request, StartPipe, Fg, Bg, Command, EndLine
<1>8. CASE UNCHANGED vars
  BY <1>8 DEF vars
<1> QED BY <1>1, <1>2, <1>3, <1>4, <1>5, <1>6, <1>7, <1>8 DEF Next, Main

LEMMA ReturnsSettled ==
  ASSUME SettledInv, [Next]_vars, PipeReturns
  PROVE  job[cur].last \in Pid /\ proc[job[cur].last] \in {"reaped", "halted", "zombie"}
<1>1. GroupsInv /\ TypeInv /\ Records /\ Control /\ DeadMeansLastReaped /\ PlaceOK
  BY TypeParts DEF SettledInv, GroupsInv, PlacesInv, TypeInv
<1>2. CASE pc = "check" /\ job[cur].status = "dead"
  BY <1>1, <1>2 DEF Records, Working, DeadMeansLastReaped
<1>3. CASE pc = "cont" /\ Members(cur) = {}
  BY <1>1, <1>3, EmptyGroup DEF Records, Working, Control, Terminal
<1>4. CASE pc \in {"restore", "back"}
  BY <1>4 DEF SettledInv, Settled, After, PipeReturns
<1> QED BY <1>1, <1>2, <1>3, <1>4, ReturnSteps

(* A foreground do_pipe returns only once the last process of the pipeline  *)
(* ended or stopped and was reported, in a script as at a terminal.         *)
THEOREM PipelinesAreWaitedFor == Spec => ForegroundWaits
<1>1. SettledInv /\ [Next]_vars =>
        [PipeReturns => proc[job[cur].last] \notin {"forked", "running", "stopped"}]_vars
  BY ReturnsSettled
<1> QED BY <1>1, SettledInvariant, PTL DEF Spec, ForegroundWaits

-----------------------------------------------------------------------------
(* Who collects the last process of a job, and what is shown of it.         *)

(* The five places that call waitpid.                                       *)
LEMMA ReapingSteps ==
  ASSUME TypeInv, [Next]_vars, NEW p \in Pid, proc[p] # "reaped", proc'[p] = "reaped"
  PROVE  \/ AbortWait /\ p \in Members(Shell)
         \/ WaitLast /\ p = job[cur].last
         \/ WaitGroup /\ p \in Members(cur)
         \/ ReapAll
         \/ BabysitReap(p)
<1>1. ProcsOK
  BY TypeParts DEF TypeInv
<1>2. ~Children
  <2>1. ASSUME NEW q \in Pid, Child(q) PROVE FALSE
    BY <1>1, <2>1 DEF ProcsOK, Child, ChildExec, Exit, Killed, DieOfSigpipe, Stop, Terminate, LiveState
  <2> QED BY <2>1 DEF Children
<1>3. CASE Launching
  BY <1>1, <1>3 DEF ProcsOK, Launching, Fork, SetPgid, NullCommand, AbortForeground, AbortWait,
     Register, Report, Reportable, Members, processes
<1>4. CASE Foreground
  BY <1>1, <1>4 DEF ProcsOK, Foreground, ForegroundTty, ForegroundCheck, ForegroundCont,
     Continue, SendSigcont, ForegroundRun, WaitDefault, WaitLast, WaitFor, WaitGroup,
     WaitRestore, ForegroundBack, Report, Reportable, Members, processes
<1>5. CASE Background
  BY <1>1, <1>5 DEF ProcsOK, Background, BackgroundCheck, BackgroundCont, BackgroundRun,
     Continue, SendSigcont, processes
<1>6. CASE Funeral
  BY <1>1, <1>6 DEF ProcsOK, Funeral, Bury, FreeList, SwapJobs, processes
<1>7. CASE Babysit
  <2>1. ASSUME NEW q \in Pid, BabysitReap(q) PROVE BabysitReap(p)
    BY <1>1, <2>1 DEF ProcsOK, BabysitReap, Report
  <2>2. CASE ~ \E q \in Pid : BabysitReap(q)
    BY <1>7, <2>2 DEF Babysit, Deliver, BabysitNext, BabysitCrash, BabysitReturn, processes
  <2> QED BY <2>1, <2>2
<1>8. CASE Request
  BY <1>8 DEF Request, StartPipe, Fg, Bg, Command, EndLine, processes
<1>9. CASE UNCHANGED vars
  BY <1>9 DEF vars, processes
<1> QED BY <1>2, <1>3, <1>4, <1>5, <1>6, <1>7, <1>8, <1>9 DEF Next, Main

(* At a terminal, a process is the last one of at most one job.             *)
LEMMA LastUnique ==
  ASSUME Leads, interactive, NEW i \in Pid, NEW j \in Pid,
         job[i].last \in Pid, job[i].last = job[j].last
  PROVE  i = j
BY DEF Leads, Group

(* At a terminal, the last process of a job is collected by a job_wait on   *)
(* that job or by babysit visiting it, and so is always shown.              *)
LEMMA LastIsShown ==
  ASSUME SettledInv, [Next]_vars, interactive, NEW j \in Pid, job[j].last \in Pid,
         proc[job[j].last] # "reaped", proc'[job[j].last] = "reaped"
  PROVE  \/ WaitLast /\ j = cur
         \/ BabysitReap(job[j].last) /\ j = jobs[hpos] /\ hpos \in 1 .. Len(jobs)
<1>1. GroupsInv /\ TypeInv /\ Records /\ Control /\ Leads /\ ListsOK /\ PlaceOK
  BY TypeParts DEF SettledInv, GroupsInv, PlacesInv, TypeInv, Groups
<1>2. PICK p \in Pid : p = job[j].last
  OBVIOUS
<1>3. proc[p] # "free" /\ leader[p] = j /\ pgrp[p] \in {Shell, leader[p]} /\ Shell # j
  BY <1>1, <1>2, KernelAssumption DEF Leads, Group
<1>4. CASE AbortWait /\ p \in Members(Shell)
  <2>1. pgrp[p] = leader[p]
    BY <1>3, <1>4 DEF AbortWait, At, SettledInv, GroupsInv, Groups, GroupComplete
  <2> QED BY <1>3, <1>4, <2>1 DEF Members
<1>5. CASE WaitLast /\ p = job[cur].last
  <2>1. cur \in Pid
    BY <1>1, <1>5 DEF WaitLast, At, Records, Working
  <2> QED BY <1>1, <1>2, <1>5, <2>1, LastUnique
<1>6. CASE WaitGroup /\ p \in Members(cur)
  <2>1. cur \in Pid /\ pc = "group"
    BY <1>1, <1>6 DEF WaitGroup, At, Records, Working
  <2>2. cur = j
    BY <1>3, <1>6, <2>1, KernelAssumption DEF Members
  <2>3. proc[p] = "reaped"
    BY <1>2, <2>1, <2>2, JobAssumption DEF SettledInv, Settled, After
  <2> QED BY <1>2, <2>3
<1>7. ~ReapAll
  BY <1>1 DEF ReapAll, At, Control
<1>8. CASE BabysitReap(p)
  <2>1. hpos \in 1 .. Len(jobs) /\ p \in Members(jobs[hpos]) /\ jobs[hpos] \in Pid
    BY <1>1, <1>8 DEF BabysitReap, Waited, Reportable, ListsOK
  <2>2. jobs[hpos] = j
    BY <1>3, <2>1, KernelAssumption DEF Members
  <2> QED BY <1>2, <1>8, <2>1, <2>2
<1> QED BY <1>1, <1>2, <1>4, <1>5, <1>6, <1>7, <1>8, ReapingSteps

(* The exit status as the char that job_t keeps.                            *)
Signed(c) == IF c = Signalled THEN 0 ELSE ((c + 128) % 256) - 128

(* What is known of the value of a job, by how often its end was shown; an  *)
(* end that was shown twice may have stored anything.                       *)
Truth(j) ==
  /\ reports[j] = 0 => proc[job[j].last] # "reaped" /\ job[j].value = 0
  /\ reports[j] = 1 => proc[job[j].last] = "reaped" /\ job[j].value = Signed(code[job[j].last])
Valued ==
  /\ \A p \in Pid : proc[p] = "free" => reports[p] = 0
  /\ pc \in Building /\ cur # None => reports[cur] = 0
  /\ interactive => \A j \in Pid : job[j].last \in Pid => Truth(j)

LEMMA AsCharSigned ==
  ASSUME NEW c \in Status
  PROVE  /\ c \in ExitCodes => AsChar(c) = Signed(c)
         /\ c \notin ExitCodes => c = Signalled /\ Signed(c) = 0
<1>1. CASE c \in ExitCodes
  <2>1. c \in 0 .. 255 /\ c # Signalled
    BY <1>1, KernelAssumption
  <2>2. IF c > 127 THEN ((c + 128) % 256) = c - 128 ELSE ((c + 128) % 256) = c + 128
    BY <2>1
  <2>3. AsChar(c) = ((c + 128) % 256) - 128
    BY <2>1, <2>2 DEF AsChar
  <2> QED BY <1>1, <2>1, <2>3 DEF Signed
<1>2. CASE c \notin ExitCodes
  BY <1>2 DEF Status, Signed
<1> QED BY <1>1, <1>2

(* What a step does to what is shown of a job.                              *)
Unseen(j) == job'[j].value = job[j].value /\ reports'[j] = reports[j]
LEMMA ShownElsewhere ==
  ASSUME ListsOK, CountOK, NEW i \in Pid, NEW status, ShowAndHangUp(i, status), NEW j \in Pid, j # i
  PROVE  Unseen(j)
<1>1. job'[j] = job[j]
  BY ShowLists DEF ShowAndHangUp
<1>2. reports'[j] = reports[j]
  BY DEF ShowAndHangUp, CountOK
<1> QED BY <1>1, <1>2 DEF Unseen

LEMMA ValueStep ==
  ASSUME TypeInv, [Next]_vars, interactive, NEW j \in Pid
  PROVE  \/ Unseen(j)
         \/ Register /\ j = cur /\ job'[j].value = 0 /\ reports'[j] = reports[j]
         \/ job'[j] = NoJob /\ reports'[j] = reports[j]
         \/ WaitLast /\ j = cur
         \/ \E p \in Pid : BabysitReap(p) /\ j = jobs[hpos] /\ IsLast(p, j)
<1>1. PlaceOK /\ ListsOK /\ Records /\ CountOK
  BY TypeParts DEF TypeInv
<1>2. CASE UNCHANGED <<job, reports>>
  BY <1>2 DEF Unseen
<1>3. ASSUME NEW p \in Pid, Fork(p) PROVE Unseen(j)
  <2> DEFINE lead == IF cur = None THEN p ELSE cur
  <2>1. lead \in Pid /\ job' = [job EXCEPT ![lead] = [@ EXCEPT !.last = p]] /\ reports' = reports
    BY <1>1, <1>3 DEF Fork, PlaceOK
  <2>2. job[lead] \in Job
    BY <1>1, <2>1 DEF ListsOK
  <2>3. [job[lead] EXCEPT !.last = p].value = job[lead].value
    BY <2>2 DEF Job
  <2> QED BY ONLY <1>1, <2>1, <2>3, j \in Pid DEF Unseen, ListsOK
<1>4. CASE NullCommand
  BY <1>4 DEF NullCommand, Unseen
<1>5. CASE Register
  <2>1. cur \in Pid /\ job[cur] \in Job /\ reports' = reports
        /\ job' = [job EXCEPT ![cur] = [job[cur] EXCEPT !.status = "running", !.value = 0]]
    BY <1>1, <1>5 DEF Register, At, Records, Working, ListsOK
  <2>2. \A r \in Job : [r EXCEPT !.status = "running", !.value = 0].value = 0
    BY DEF Job
  <2>3. job'[j].value = 0 \/ j # cur
    BY ONLY <1>1, <2>1, <2>2, j \in Pid DEF ListsOK
  <2>4. j # cur => job'[j] = job[j]
    BY ONLY <1>1, <2>1, j \in Pid DEF ListsOK
  <2> QED BY <1>5, <2>1, <2>3, <2>4 DEF Unseen
<1>6. CASE ForegroundRun \/ BackgroundRun
  <2>1. cur \in Pid /\ job[cur] \in Job
    BY <1>1, <1>6 DEF ForegroundRun, BackgroundRun, At, Records, Working, ListsOK
  <2>2. job' = [job EXCEPT ![cur] = [job[cur] EXCEPT !.status = "running"]] /\ reports' = reports
    BY <1>6, <2>1 DEF ForegroundRun, BackgroundRun
  <2>3. [job[cur] EXCEPT !.status = "running"].value = job[cur].value
    BY <2>1 DEF Job
  <2> QED BY ONLY <1>1, <2>1, <2>2, <2>3, j \in Pid DEF Unseen, ListsOK
<1>7. CASE WaitLast
  <2>1. cur \in Pid /\ \E status : ShowAndHangUp(cur, status)
    BY <1>1, <1>7 DEF WaitLast, At, Records, Working
  <2> QED BY <1>1, <1>7, <2>1, ShownElsewhere
<1>8. CASE WaitRestore
  BY <1>8 DEF WaitRestore, Unseen
<1>9. CASE Bury
  <2> DEFINE h == Head(unburied)
  <2>1. h \in Pid /\ reports' = reports
    BY <1>1, <1>9, RangeTail, RangeSeq DEF Bury, ListsOK
  <2>2. job[h] \in Job /\ (job' = job \/ job' = [job EXCEPT ![h] = [job[h] EXCEPT !.status = "none"]])
    BY <1>1, <1>9, <2>1 DEF Bury, ListsOK
  <2>3. [job[h] EXCEPT !.status = "none"].value = job[h].value
    BY <2>2 DEF Job
  <2> QED BY ONLY <1>1, <2>1, <2>2, <2>3, j \in Pid DEF Unseen, ListsOK
<1>10. ASSUME NEW p \in Pid, BabysitReap(p), ~(j = jobs[hpos] /\ IsLast(p, j)) PROVE Unseen(j)
  <2>1. jobs[hpos] \in Pid
    BY <1>1, <1>10 DEF BabysitReap, ListsOK
  <2>2. UNCHANGED <<job, reports>> \/ (j # jobs[hpos] /\ \E status : ShowAndHangUp(jobs[hpos], status))
    BY <1>10 DEF BabysitReap
  <2>3. CASE UNCHANGED <<job, reports>>
    BY <2>3 DEF Unseen
  <2>4. ASSUME NEW status, j # jobs[hpos], ShowAndHangUp(jobs[hpos], status) PROVE Unseen(j)
    <3>1. PICK i \in Pid : i = jobs[hpos]
      BY <2>1
    <3> QED BY <1>1, <2>4, <3>1, ShownElsewhere
  <2> QED BY <2>2, <2>3, <2>4
<1>11. CASE Next
  <2>1. CASE Children
    BY <1>2, <2>1 DEF Children
  <2>2. CASE Launching
    BY <1>2, <1>3, <1>4, <1>5, <2>2 DEF Launching, SetPgid, AbortForeground, AbortWait
  <2>3. CASE Foreground
    BY <1>2, <1>6, <1>7, <1>8, <2>3 DEF Foreground, ForegroundTty, ForegroundCheck,
       ForegroundCont, Continue, WaitDefault, WaitGroup, ForegroundBack
  <2>4. CASE Background
    BY <1>2, <1>6, <2>4 DEF Background, BackgroundCheck, BackgroundCont, Continue
  <2>5. CASE Funeral
    BY <1>2, <1>9, <2>5 DEF Funeral, FreeList, SwapJobs, ReapAll
  <2>6. CASE Babysit
    BY <1>2, <1>10, <2>6 DEF Babysit, Deliver, BabysitNext, BabysitCrash, BabysitReturn
  <2>7. CASE Request
    BY <1>2, <2>7 DEF Request, StartPipe, Fg, Bg, Command, EndLine
  <2> QED BY <1>11, <2>1, <2>2, <2>3, <2>4, <2>5, <2>6, <2>7 DEF Next, Main
<1> QED BY <1>2, <1>11 DEF vars

LEMMA CodeStays ==
  ASSUME TypeInv, [Next]_vars, NEW p \in Pid, proc[p] = "reaped"
  PROVE  code'[p] = code[p]
<1>1. ProcsOK
  BY TypeParts DEF TypeInv
<1>2. CASE Children
  <2>1. PICK q \in Pid : Child(q)
    BY <1>2 DEF Children
  <2> QED BY <1>1, <2>1 DEF ProcsOK, Child, ChildExec, Exit, Killed, DieOfSigpipe,
             Stop, Terminate, LiveState
<1>3. CASE Launching
  BY <1>3 DEF Launching, Fork, SetPgid, NullCommand, AbortForeground, AbortWait, Register, processes
<1>4. CASE Foreground
  BY <1>4 DEF Foreground, ForegroundTty, ForegroundCheck, ForegroundCont,
     Continue, ForegroundRun, WaitDefault, WaitLast, WaitGroup, WaitRestore, ForegroundBack, processes
<1>5. CASE Background
  BY <1>5 DEF Background, BackgroundCheck, BackgroundCont, BackgroundRun, Continue, processes
<1>6. CASE Funeral
  BY <1>6 DEF Funeral, Bury, FreeList, SwapJobs, ReapAll, processes
<1>7. CASE Babysit
  BY <1>7 DEF Babysit, Deliver, BabysitNext, BabysitCrash, BabysitReturn, BabysitReap, processes
<1>8. CASE Request
  BY <1>8 DEF Request, StartPipe, Fg, Bg, Command, EndLine, processes
<1>9. CASE UNCHANGED vars
  BY <1>9 DEF vars, processes
<1> QED BY <1>2, <1>3, <1>4, <1>5, <1>6, <1>7, <1>8, <1>9 DEF Next, Main

LEMMA ShownValue ==
  ASSUME NEW j \in Pid, NEW status, job[j] \in Job
  PROVE  /\ status \in ExitCodes => Shown(j, status).value = AsChar(status)
         /\ status \notin ExitCodes => Shown(j, status).value = job[j].value
<1>1. CASE status \in ExitCodes
  <2>1. Shown(j, status) = [job[j] EXCEPT !.status = "dead", !.value = AsChar(status)]
    BY <1>1, KernelAssumption DEF Shown
  <2>2. \A r \in Job : \A v : [r EXCEPT !.status = "dead", !.value = v].value = v
    BY DEF Job
  <2> QED BY <1>1, <2>1, <2>2
<1>2. CASE status \notin ExitCodes
  BY <1>2 DEF Shown, Job
<1> QED BY <1>1, <1>2

(* The report of an end or a stop that waitpid returns is the truth.        *)
LEMMA ShownTruth ==
  ASSUME TypeInv, NEW j \in Pid, NEW p \in Pid, p = job[j].last, proc[p] \in {"stopped", "zombie"},
         Report(p), code' = code, ShowAndHangUp(j, WaitStatus(p)), Truth(j)
  PROVE  Truth(j)'
<1>1. ListsOK /\ ProcsOK /\ CountOK /\ job[j] \in Job /\ code[p] \in Status
  BY TypeParts DEF TypeInv, ListsOK, ProcsOK
<1>2. job' = [job EXCEPT ![j] = Shown(j, WaitStatus(p))] /\ reports[j] \in 0 .. 2
      /\ reports' = IF proc[p] = "zombie" /\ reports[j] < 2 THEN [reports EXCEPT ![j] = @ + 1] ELSE reports
  BY <1>1 DEF ShowAndHangUp, CountOK
<1>3. job'[j].last = p /\ job'[j] = Shown(j, WaitStatus(p))
  BY <1>1, <1>2, ShowLists DEF ListsOK
<1>4. proc'[p] = IF proc[p] = "zombie" THEN "reaped" ELSE "halted"
  BY <1>1 DEF Report, ProcsOK
<1>5. reports[j] # 1
  BY DEF Truth
<1>6. CASE proc[p] = "stopped"
  <2>1. WaitStatus(p) = Stopped /\ Stopped \notin ExitCodes
    BY <1>6, KernelAssumption DEF WaitStatus
  <2>2. job'[j].value = job[j].value /\ reports' = reports
    BY <1>1, <1>2, <1>3, <1>6, <2>1, ShownValue
  <2> QED BY <1>3, <1>4, <1>5, <1>6, <2>2 DEF Truth
<1>7. CASE proc[p] = "zombie"
  <2>1. WaitStatus(p) = code[p]
    BY <1>7 DEF WaitStatus
  <2>2. reports'[j] = IF reports[j] = 0 THEN 1 ELSE 2
    BY <1>1, <1>2, <1>5, <1>7 DEF CountOK
  <2>3. reports[j] = 0 => job'[j].value = Signed(code[p])
    BY <1>1, <1>3, <2>1, ShownValue, AsCharSigned DEF Truth
  <2>4. proc'[p] = "reaped" /\ reports'[j] # 0 /\ (reports'[j] = 1 => reports[j] = 0)
    BY <1>2, <1>4, <1>7, <2>2
  <2> QED BY <1>3, <2>3, <2>4 DEF Truth
<1> QED BY <1>6, <1>7

(* An end that babysit collected before job_wait is shown a second time.    *)
LEMMA ShownTwice ==
  ASSUME TypeInv, NEW j \in Pid, NEW status, proc[job[j].last] = "reaped",
         ShowAndHangUp(j, status), Truth(j)
  PROVE  Truth(j)'
<1>1. reports[j] \in 1 .. 2 /\ reports \in [Pid -> 0 .. 2]
  BY TypeParts DEF Truth, TypeInv, CountOK
<1>2. reports' = IF reports[j] < 2 THEN [reports EXCEPT ![j] = @ + 1] ELSE reports
  BY DEF ShowAndHangUp
<1>3. reports'[j] = 2
  BY <1>1, <1>2
<1> QED BY <1>3 DEF Truth

LEMMA TruthStep ==
  ASSUME SettledInv, Valued, [Next]_vars, interactive, NEW j \in Pid, job'[j].last \in Pid
  PROVE  Truth(j)'
<1>1. TypeInv /\ Records /\ ProcsOK /\ ListsOK /\ PlaceOK /\ PlacesInv /\ GroupsInv
  BY TypeParts DEF SettledInv, GroupsInv, PlacesInv, TypeInv
<1>2. CASE WaitLast /\ j = cur
  <2>1. PICK p \in Pid : p = job[j].last
    BY <1>1, <1>2 DEF WaitLast, At, Records, Working
  <2>2. Truth(j) /\ code' = code
    BY <1>2, <2>1 DEF Valued, WaitLast
  <2>3. PICK status : ShowAndHangUp(j, status) /\ (proc[p] = "reaped" \/ status = WaitStatus(p))
    BY <1>2, <2>1 DEF WaitLast
  <2>4. CASE proc[p] = "reaped"
    BY <1>1, <2>1, <2>2, <2>3, <2>4, ShownTwice
  <2>5. CASE proc[p] # "reaped"
    <3>1. Report(p) /\ proc[p] \in {"stopped", "zombie"}
      BY <1>2, <2>1, <2>5 DEF WaitLast, WaitFor, Reportable
    <3> QED BY <1>1, <2>1, <2>2, <2>3, <2>5, <3>1, ShownTruth
  <2> QED BY <2>4, <2>5
<1>3. ASSUME NEW p \in Pid, BabysitReap(p), j = jobs[hpos], IsLast(p, j) PROVE Truth(j)'
  <2>1. ShowAndHangUp(j, WaitStatus(p)) /\ code' = code /\ Report(p) /\ proc[p] \in {"stopped", "zombie"}
    BY <1>3 DEF BabysitReap, Waited, Reportable
  <2>2. p = job[j].last
    BY <1>3 DEF IsLast
  <2> QED BY <1>1, <2>1, <2>2, ShownTruth DEF Valued
<1>4. CASE /\ ~(WaitLast /\ j = cur)
           /\ ~ \E p \in Pid : BabysitReap(p) /\ j = jobs[hpos] /\ IsLast(p, j)
  <2>1. \/ Unseen(j)
        \/ j = cur /\ pc = "register" /\ job'[j].value = 0 /\ reports'[j] = reports[j]
    BY <1>1, <1>4, ValueStep, NoJobFields, JobAssumption DEF Register, At
  <2>2. reports'[j] = reports[j]
    BY <2>1 DEF Unseen
  <2>3. CASE job'[j].last = job[j].last
    <3>1. PICK p \in Pid : p = job[j].last
      BY <2>3
    <3>2. Truth(j) /\ (pc = "register" /\ j = cur => reports[j] = 0)
      BY <3>1, JobAssumption DEF Valued, Building
    <3>3. proc'[p] = "reaped" <=> proc[p] = "reaped"
      BY <1>1, <1>4, <3>1, LastIsShown, ReapedStays DEF IsLast
    <3>4. proc[p] = "reaped" => code'[p] = code[p]
      BY <1>1, CodeStays
    <3>5. CASE reports[j] = 0
      BY <2>1, <2>2, <2>3, <3>1, <3>2, <3>3, <3>5 DEF Truth, Unseen
    <3>6. CASE reports[j] = 1
      BY <2>1, <2>2, <2>3, <3>1, <3>2, <3>3, <3>4, <3>6 DEF Truth, Unseen
    <3> QED BY <2>2, <3>5, <3>6 DEF Truth
  <2>4. ASSUME NEW p \in Pid, Fork(p), j = cur', pc = "fork", job'[j].last = p
        PROVE  Truth(j)'
    <3>1. proc'[p] = "forked" /\ Unseen(j)
      BY <1>1, <2>1, <2>4 DEF Fork, ProcsOK
    <3>2. reports[j] = 0 /\ job[j].value = 0
      <4>1. CASE cur = None
        <5>1. j = p /\ proc[p] = "free"
          BY <2>4, <4>1 DEF Fork
        <5> QED BY <1>1, <5>1 DEF Valued, Records, NoJob
      <4>2. CASE cur # None
        <5>1. j = cur
          BY <2>4, <4>2 DEF Fork
        <5>2. job[j].last \in Pid
          BY <1>1, <2>4, <4>2, <5>1 DEF Records, Building
        <5> QED BY <2>4, <4>2, <5>1, <5>2 DEF Valued, Building, Truth
      <4> QED BY <4>1, <4>2
    <3> QED BY <2>4, <3>1, <3>2 DEF Truth, Unseen
  <2> QED BY <1>1, <2>3, <2>4, LastStep, NoJobFields, JobAssumption DEF LastKept
<1> QED BY <1>2, <1>3, <1>4

(* A script shows nothing.                                                  *)
LEMMA ScriptShowsNothing == Control /\ [Next]_vars /\ ~interactive => reports' = reports
<1> SUFFICES ASSUME Control, [Next]_vars, ~interactive PROVE reports' = reports
    OBVIOUS
<1>1. CASE Children
  BY <1>1 DEF Children
<1>2. CASE Launching
  BY <1>2 DEF Launching, Fork, SetPgid, NullCommand, AbortForeground, AbortWait, Register
<1>3. CASE Foreground
  BY <1>3 DEF Foreground, ForegroundTty, ForegroundCheck, ForegroundCont,
     Continue, ForegroundRun, WaitDefault, WaitLast, WaitGroup, WaitRestore, ForegroundBack
<1>4. CASE Background
  BY <1>4 DEF Background, BackgroundCheck, BackgroundCont, BackgroundRun, Continue
<1>5. CASE Funeral
  BY <1>5 DEF Funeral, Bury, FreeList, SwapJobs, ReapAll
<1>6. CASE Babysit
  BY <1>6 DEF Babysit, Deliver, BabysitNext, BabysitCrash, BabysitReturn, BabysitReap, Control
<1>7. CASE Request
  BY <1>7 DEF Request, StartPipe, Fg, Bg, Command, EndLine
<1>8. CASE UNCHANGED vars
  BY <1>8 DEF vars
<1> QED BY <1>1, <1>2, <1>3, <1>4, <1>5, <1>6, <1>7, <1>8 DEF Next, Main

LEMMA ReportsStep ==
  ASSUME PlacesInv, [Next]_vars, NEW j \in Pid, reports'[j] # reports[j]
  PROVE  (pc = "wait" /\ j = cur) \/ j \in Named
<1>1. TypeInv /\ Control /\ ListsOK
  BY TypeParts DEF PlacesInv, TypeInv
<1>2. interactive
  BY <1>1, ScriptShowsNothing
<1>3. ASSUME NEW p \in Pid, BabysitReap(p), j = jobs[hpos] PROVE j \in Named
  BY <1>1, <1>3, RangeSeq DEF BabysitReap, Named, ListsOK
<1>4. WaitLast => pc = "wait"
  BY DEF WaitLast, At
<1> QED BY <1>1, <1>2, <1>3, <1>4, ValueStep DEF Unseen

LEMMA ValuedStep ==
  ASSUME SettledInv, Valued, [Next]_vars
  PROVE  Valued'
<1>1. TypeInv /\ Records /\ ListsOK /\ PlaceOK /\ PlacesInv /\ Leads /\ PlaceOK' /\ CountOK
  BY NextTypeInv, TypeParts DEF SettledInv, GroupsInv, PlacesInv, TypeInv, Groups
<1>2. ASSUME NEW p \in Pid, proc'[p] = "free" PROVE reports'[p] = 0
  <2>1. proc[p] = "free"
    BY <1>1, <1>2, ProcessStep DEF Old, Born
  <2>2. job[p].last \notin Pid
    BY <1>1, <2>1, NoJobFields, JobAssumption DEF Records
  <2>3. ~((pc = "wait" /\ p = cur) \/ p \in Named)
    BY <1>1, <2>2 DEF Records, Working
  <2> QED BY <1>1, <2>1, <2>3, ReportsStep DEF Valued
<1>3. ASSUME pc' \in Building, cur' # None PROVE reports'[cur'] = 0
  <2>1. cur' \in Pid
    BY <1>1, <1>3 DEF PlaceOK
  <2>2. CASE pc \in Building /\ cur' = cur
    <3>1. reports[cur] = 0 /\ cur \notin Named /\ pc # "wait"
      BY <1>1, <1>3, <2>2 DEF Valued, Records, Building
    <3>2. PICK j \in Pid : j = cur
      BY <2>1, <2>2
    <3> QED BY <1>1, <2>2, <3>1, <3>2, ReportsStep
  <2>3. CASE Fork(cur') /\ proc[cur'] = "free"
    BY <2>1, <2>3 DEF Fork, Valued
  <2> QED BY <1>1, <1>3, <2>2, <2>3, BuildingStep
<1>4. interactive' = interactive
  BY InteractiveStays
<1>5. ASSUME NEW j \in Pid, interactive, job'[j].last \in Pid PROVE Truth(j)'
  BY <1>5, TruthStep
<1>6. (\A p \in Pid : proc[p] = "free" => reports[p] = 0)'
  BY <1>2
<1>7. (pc \in Building /\ cur # None => reports[cur] = 0)'
  BY <1>3
<1>8. (interactive => \A j \in Pid : job[j].last \in Pid => Truth(j))'
  BY <1>4, <1>5
<1> QED BY <1>6, <1>7, <1>8 DEF Valued

ValuedInv == SettledInv /\ Valued

(* At a terminal, what show_status has stored of a job is the exit status   *)
(* of its last process as a char, if it was called once for the end of that *)
(* process, and 0 if it was not called for it.                              *)
THEOREM ValuedInvariant == Spec => []ValuedInv
<1>1. Init => Valued
  BY NoJobFields, JobAssumption DEF Init, KernelInit, Valued, Building
<1>2. SettledInv /\ Valued /\ [Next]_vars => Valued'
  BY ValuedStep
<1>3. Spec => []Valued
  BY <1>1, <1>2, SettledInvariant, PTL DEF Spec
<1> QED BY <1>3, SettledInvariant, PTL DEF ValuedInv

LEMMA ReturnsValue ==
  ASSUME ValuedInv, [Next]_vars, PipeReturns, interactive, reports[cur] <= 1
  PROVE  job[cur].value = IF proc[job[cur].last] = "reaped" /\ code[job[cur].last] # Signalled
                          THEN ((code[job[cur].last] + 128) % 256) - 128 ELSE 0
<1>1. SettledInv /\ TypeInv /\ PlaceOK /\ CountOK
  BY TypeParts DEF ValuedInv, SettledInv, GroupsInv, PlacesInv, TypeInv
<1>2. PICK j \in Pid : j = cur
  BY <1>1 DEF PlaceOK, PipeReturns
<1>3. job[j].last \in Pid
  BY <1>1, <1>2, ReturnsSettled
<1>4. Truth(j)
  BY <1>3 DEF ValuedInv, Valued
<1>5. reports[j] = 0 \/ reports[j] = 1
  BY <1>1, <1>2 DEF CountOK
<1> QED BY <1>2, <1>4, <1>5 DEF Truth, Signed

(* The value do_pipe returns from an interactive foreground pipeline is the *)
(* exit status as a char, or 0 if a signal ended or stopped the last        *)
(* process, whenever that end was shown once.                               *)
THEOREM PipelineValue == Spec => ForegroundValue
<1>1. ValuedInv /\ [Next]_vars =>
        [PipeReturns /\ interactive /\ reports[cur] <= 1 =>
           LET last == job[cur].last IN
           job[cur].value = IF proc[last] = "reaped" /\ code[last] # Signalled
                            THEN ((code[last] + 128) % 256) - 128 ELSE 0]_vars
  BY ReturnsValue
<1> QED BY <1>1, ValuedInvariant, PTL DEF Spec, ForegroundValue

-----------------------------------------------------------------------------
(* The list of jobs implements JobTable.                                    *)

Over == {j \in Pid : interactive /\ job[j].last # None /\ proc[job[j].last] = "reaped"}
Gone == {j \in Pid : /\ interactive /\ job[j].last # None
                     /\ job[j].status = "none" /\ j \notin Listed \cup {cur}}

(* A script's table stays empty.                                            *)
LEMMA ScriptTable ==
  ASSUME TypeInv, Control, [Next]_vars, ~interactive
  PROVE  UNCHANGED <<jobs, Over, Gone>>
<1>1. interactive' = interactive
  BY InteractiveStays
<1>2. Named = {} /\ Named' = {}
  <2>1. TypeInv'
    BY NextTypeInv
  <2>2. Records /\ Records'
    BY <2>1 DEF TypeInv
  <2>3. (~interactive => Named = {}) /\ (~interactive' => Named' = {})
    BY <2>2 DEF Records
  <2> QED BY <1>1, <2>3
<1>3. jobs' = jobs
  <2>1. jobs \in Seq(Pid) /\ jobs' \in Seq(Pid)
    BY NextTypeInv, TypeParts DEF TypeInv, ListsOK
  <2>2. Range(jobs) = {} /\ Range(jobs') = {}
    BY <1>2 DEF Named
  <2>3. \A s \in Seq(Pid) : Range(s) = {} => s = <<>>
    BY RangeTail
  <2> QED BY <2>1, <2>2, <2>3
<1> QED BY <1>1, <1>3 DEF Over, Gone

(* Who is over: one more job when its last process is collected, and no     *)
(* other step adds or takes one.                                            *)
LEMMA OverSame ==
  ASSUME ValuedInv, [Next]_vars, interactive,
         \A j \in Pid : job[j].last \in Pid => (proc'[job[j].last] = "reaped" => proc[job[j].last] = "reaped")
  PROVE  Over' = Over
<1>1. TypeInv /\ Records /\ ListsOK /\ ListsOK' /\ Leads /\ PlacesInv /\ PlaceOK /\ ProcsOK
  BY NextTypeInv, TypeParts DEF ValuedInv, SettledInv, GroupsInv, PlacesInv, TypeInv, Groups
<1>2. \A j \in Pid : /\ job[j].last # None => job[j].last \in Pid
                     /\ job'[j].last # None => job'[j].last \in Pid
  BY <1>1, JobFields DEF ListsOK
<1>3. interactive' = interactive
  BY InteractiveStays
<1>4. ASSUME NEW j \in Pid PROVE j \in Over' <=> j \in Over
  <2>1. CASE job'[j].last = job[j].last
    BY <1>1, <1>2, <1>3, <2>1, ReapedStays DEF Over
  <2>2. CASE job'[j] = NoJob /\ j = cur /\ pc \in Building
    <3>1. reports[j] = 0 /\ job'[j].last = None
      BY <2>2, NoJobFields, JobAssumption DEF ValuedInv, Valued
    <3>2. j \notin Over
      BY <1>2, <3>1 DEF Over, ValuedInv, Valued, Truth
    <3> QED BY <3>1, <3>2 DEF Over
  <2>3. ASSUME NEW p \in Pid, Fork(p), j = cur', pc = "fork", job'[j].last = p
        PROVE  j \in Over' <=> j \in Over
    <3>1. proc'[p] = "forked"
      BY <1>1, <2>3 DEF Fork, ProcsOK
    <3>2. j \notin Over'
      BY <2>3, <3>1 DEF Over
    <3>3. reports[j] = 0
      <4>1. CASE cur = None
        BY <2>3, <4>1 DEF Fork, ValuedInv, Valued
      <4>2. CASE cur # None
        BY <2>3, <4>2 DEF Fork, ValuedInv, Valued, Building
      <4> QED BY <4>1, <4>2
    <3>4. j \notin Over
      BY <1>2, <3>3 DEF Over, ValuedInv, Valued, Truth
    <3> QED BY <3>2, <3>4
  <2> QED BY <1>1, <2>1, <2>2, <2>3, LastStep DEF LastKept
<1>5. Over \subseteq Pid /\ Over' \subseteq Pid
  BY DEF Over
<1> QED BY <1>4, <1>5

(* How main takes up a job and leaves it: what it leaves is listed, or was  *)
(* never made.                                                              *)
LEMMA CurStep ==
  ASSUME TypeInv, Control, [Next]_vars, interactive
  PROVE  \/ cur' = cur
         \/ cur \in Listed \cup {None} /\ cur' \in Listed \cup {None}
         \/ cur = None /\ cur' \in Pid /\ proc[cur'] = "free"
         \/ NullCommand /\ cur' = None
         \/ Register /\ cur' = None
<1>1. ListsOK
  BY TypeParts DEF TypeInv
<1> USE DEF At, Goto, Return, control, Control, Serving
<1>2. CASE Children
  BY <1>2 DEF Children
<1>3. ASSUME NEW p \in Pid, Fork(p) PROVE cur' = cur \/ (cur = None /\ cur' \in Pid /\ proc[cur'] = "free")
  BY <1>3 DEF Fork
<1>4. CASE Launching
  BY <1>3, <1>4 DEF Launching, SetPgid, NullCommand, AbortForeground, AbortWait, Register
<1>5. CASE Foreground
  BY <1>5 DEF Foreground, ForegroundTty, ForegroundCheck, ForegroundCont,
     Continue, ForegroundRun, WaitDefault, WaitLast, WaitGroup, WaitRestore, ForegroundBack
<1>6. CASE Background
  BY <1>6 DEF Background, BackgroundCheck, BackgroundCont, BackgroundRun, Continue
<1>7. CASE Funeral
  BY <1>7 DEF Funeral, Bury, FreeList, SwapJobs, ReapAll
<1>8. CASE Babysit
  BY <1>8 DEF Babysit, Deliver, BabysitNext, BabysitCrash, BabysitReturn, BabysitReap
<1>9. ASSUME NEW i \in 0 .. Len(jobs), NEW place, Command(i, place)
      PROVE  cur' = cur \/ (cur \in Listed \cup {None} /\ cur' \in Listed \cup {None})
  <2>1. cur = None
    BY <1>9 DEF Command, TypeInv, Records, Idle
  <2>2. CASE i = Len(jobs)
    BY <1>9, <2>2 DEF Command
  <2>3. CASE i # Len(jobs)
    <3>1. i + 1 \in 1 .. Len(jobs) /\ Len(jobs) \in Nat /\ jobs \in Seq(Pid)
      BY <1>1, <1>9, <2>3 DEF ListsOK
    <3>2. jobs[i + 1] \in Listed
      BY <3>1, RangeSeq DEF Listed
    <3> QED BY <1>9, <2>1, <2>3, <3>2 DEF Command
  <2> QED BY <2>2, <2>3
<1>10. CASE Request
  <2>1. CASE \E n \in 1 .. MaxStages, b \in BOOLEAN : StartPipe(n, b)
    BY <2>1 DEF StartPipe
  <2>2. CASE EndLine
    BY <2>2 DEF EndLine
  <2>3. CASE \E i \in 0 .. Len(jobs) : Fg(i) \/ Bg(i)
    BY <1>9, <2>3 DEF Fg, Bg
  <2> QED BY <1>10, <2>1, <2>2, <2>3 DEF Request
<1>11. CASE UNCHANGED vars
  BY <1>11 DEF vars
<1> QED BY <1>2, <1>4, <1>5, <1>6, <1>7, <1>8, <1>10, <1>11 DEF Next, Main

(* At a terminal only the jobs on the list and the one main works on        *)
(* change.                                                                  *)
LEMMA RecordStep ==
  ASSUME PlacesInv, [Next]_vars, interactive, NEW j \in Pid, j \notin Listed, j # cur, j # cur'
  PROVE  job'[j] = job[j]
<1>1. TypeInv /\ PlaceOK /\ ListsOK /\ Records /\ Control /\ Lists
  BY TypeParts DEF TypeInv, PlacesInv
<1>2. CASE UNCHANGED job
  BY <1>2
<1>3. ASSUME NEW p \in Pid, Fork(p) PROVE job'[j] = job[j]
  <2> DEFINE lead == IF cur = None THEN p ELSE cur
  <2>1. cur' = lead /\ job' = [job EXCEPT ![lead] = [@ EXCEPT !.last = p]]
    BY <1>3 DEF Fork
  <2> QED BY ONLY <1>1, <2>1, j \in Pid, j # cur' DEF ListsOK
<1>4. CASE NullCommand
  BY <1>4 DEF NullCommand
<1>5. CASE Register
  BY <1>1, <1>5, RegisterLists
<1>6. CASE ForegroundRun \/ BackgroundRun
  BY <1>1, <1>6 DEF ForegroundRun, BackgroundRun, ListsOK
<1>7. CASE WaitLast
  BY <1>1, <1>7 DEF WaitLast, ShowAndHangUp, ListsOK
<1>8. CASE Bury
  BY <1>1, <1>8, BuryVisits
<1>9. ASSUME NEW p \in Pid, BabysitReap(p) PROVE job'[j] = job[j]
  <2>1. jobs[hpos] \in Listed
    BY <1>1, <1>9, RangeSeq DEF BabysitReap, ListsOK, Listed
  <2>2. UNCHANGED job \/ \E status : job' = [job EXCEPT ![jobs[hpos]] = Shown(jobs[hpos], status)]
    BY <1>9 DEF BabysitReap, ShowAndHangUp
  <2> QED BY <1>1, <2>1, <2>2 DEF ListsOK
<1>10. CASE Next
  <2>1. CASE Children
    BY <1>2, <2>1 DEF Children
  <2>2. CASE Launching
    BY <1>2, <1>3, <1>4, <1>5, <2>2 DEF Launching, SetPgid, AbortForeground, AbortWait
  <2>3. CASE Foreground
    BY <1>2, <1>6, <1>7, <2>3 DEF Foreground, ForegroundTty, ForegroundCheck,
       ForegroundCont, Continue, WaitDefault, WaitGroup, WaitRestore, ForegroundBack
  <2>4. CASE Background
    BY <1>2, <1>6, <2>4 DEF Background, BackgroundCheck, BackgroundCont, Continue
  <2>5. CASE Funeral
    BY <1>2, <1>8, <2>5 DEF Funeral, FreeList, SwapJobs, ReapAll
  <2>6. CASE Babysit
    BY <1>2, <1>9, <2>6 DEF Babysit, Deliver, BabysitNext, BabysitCrash, BabysitReturn
  <2>7. CASE Request
    BY <1>2, <2>7 DEF Request, StartPipe, Fg, Bg, Command, EndLine
  <2> QED BY <1>10, <2>1, <2>2, <2>3, <2>4, <2>5, <2>6, <2>7 DEF Next, Main
<1> QED BY <1>2, <1>10 DEF vars

(* Only SwapJobs takes a job out of the table.                              *)
LEMMA GoneSame ==
  ASSUME PlacesInv, [Next]_vars, interactive, ~SwapJobs
  PROVE  Gone' = Gone
<1>1. TypeInv /\ Records /\ ListsOK /\ PlaceOK /\ Control /\ Lists
  BY TypeParts DEF PlacesInv, TypeInv
<1>2. interactive' = interactive
  BY InteractiveStays
<1>3. \A j \in Listed : j \in Listed'
  <2>1. CASE Register
    <3>1. cur \in Pid /\ jobs' = <<cur>> \o jobs
      BY <1>1, <2>1, RegisterLists
    <3> QED BY <1>1, <3>1, RangeCons DEF Listed, ListsOK
  <2>2. CASE EndLine \/ Bury \/ Quiet
    BY <2>2 DEF EndLine, Bury, Quiet, Listed
  <2> QED BY <1>1, <2>1, <2>2, ListSteps
<1>4. Register => cur \in Listed'
  <2> SUFFICES ASSUME Register PROVE cur \in Listed'
      OBVIOUS
  <2>1. cur \in Pid /\ jobs' = <<cur>> \o jobs
    BY <1>1, RegisterLists
  <2> QED BY <1>1, <2>1, RangeCons DEF Listed, ListsOK
<1>5. ASSUME NEW j \in Pid, j \notin Listed, j \notin Listed', j = cur, j # cur'
      PROVE  job'[j].last = None
  <2>1. NullCommand
    BY <1>1, <1>4, <1>5, CurStep, JobAssumption
  <2>2. job'[j] = NoJob
    BY <1>5, <2>1 DEF NullCommand
  <2> QED BY <2>2, NoJobFields
<1>6. ASSUME NEW j \in Pid, j \notin Listed, j = cur', j # cur
      PROVE  job[j].last = None
  <2>1. proc[j] = "free"
    BY <1>1, <1>6, CurStep, JobAssumption
  <2> QED BY <1>1, <2>1, NoJobFields DEF Records
<1>7. ASSUME NEW j \in Pid PROVE j \in Gone' <=> j \in Gone
  <2>1. CASE j \in Listed'
    BY <1>3, <2>1, ListedStep, JobAssumption DEF Gone
  <2>2. CASE j \notin Listed'
    <3>1. j \notin Listed
      BY <1>3, <2>2
    <3>2. CASE j = cur
      BY <1>5, <2>2, <3>1, <3>2 DEF Gone
    <3>3. CASE j # cur /\ j = cur'
      BY <1>6, <3>1, <3>3 DEF Gone
    <3>4. CASE j # cur /\ j # cur'
      <4>1. job'[j] = job[j]
        BY <3>1, <3>4, RecordStep
      <4> QED BY <1>2, <2>2, <3>1, <3>4, <4>1 DEF Gone
    <3> QED BY <3>2, <3>3, <3>4
  <2> QED BY <2>1, <2>2
<1>8. Gone \subseteq Pid /\ Gone' \subseteq Pid
  BY DEF Gone
<1> QED BY <1>7, <1>8

(* The step that collects the last process of a job reports no other, and   *)
(* changes no list.                                                         *)
LEMMA FinishStep ==
  ASSUME ValuedInv, [Next]_vars, interactive, NEW j \in Pid, job[j].last \in Pid,
         proc[job[j].last] # "reaped", proc'[job[j].last] = "reaped"
  PROVE  /\ jobs' = jobs /\ ~SwapJobs
         /\ \A p \in Pid : p # job[j].last => proc'[p] = proc[p]
         /\ \A i \in Pid : job'[i].last = job[i].last
<1>1. SettledInv /\ TypeInv /\ ListsOK /\ PlaceOK /\ ProcsOK
  BY TypeParts DEF ValuedInv, SettledInv, GroupsInv, PlacesInv, TypeInv
<1>2. CASE WaitLast /\ j = cur
  <2>1. jobs' = jobs /\ ~SwapJobs
    BY <1>2 DEF WaitLast, SwapJobs, At
  <2>2. Report(job[j].last)
    BY <1>2 DEF WaitLast, WaitFor
  <2>3. \A i \in Pid : job'[i].last = job[i].last
    <3>1. UNCHANGED job \/ \E status : job' = [job EXCEPT ![cur] = Shown(cur, status)]
      BY <1>2 DEF WaitLast, ShowAndHangUp
    <3> QED BY <1>1, <1>2, <3>1, ShowLists
  <2> QED BY <1>1, <2>1, <2>2, <2>3 DEF Report, ProcsOK
<1>3. CASE BabysitReap(job[j].last) /\ j = jobs[hpos]
  <2>1. jobs' = jobs /\ ~SwapJobs
    BY <1>3 DEF BabysitReap, SwapJobs, At
  <2>2. Report(job[j].last)
    BY <1>3 DEF BabysitReap
  <2>3. \A i \in Pid : job'[i].last = job[i].last
    <3>1. UNCHANGED job \/ \E status : job' = [job EXCEPT ![j] = Shown(j, status)]
      BY <1>3 DEF BabysitReap, ShowAndHangUp
    <3> QED BY <1>1, <3>1, ShowLists
  <2> QED BY <1>1, <2>1, <2>2, <2>3 DEF Report, ProcsOK
<1> QED BY <1>1, <1>2, <1>3, LastIsShown

LEMMA Finishes ==
  ASSUME ValuedInv, [Next]_vars, interactive, NEW j \in Pid, job[j].last \in Pid,
         proc[job[j].last] # "reaped", proc'[job[j].last] = "reaped"
  PROVE  Table!Finish(j)
<1>1. PlacesInv /\ ListsOK /\ Leads
  BY TypeParts DEF ValuedInv, SettledInv, GroupsInv, PlacesInv, TypeInv, Groups
<1>2. interactive' = interactive
  BY InteractiveStays
<1>3. jobs' = jobs /\ Gone' = Gone
  BY <1>1, FinishStep, GoneSame
<1>4. j \notin Over
  BY DEF Over
<1>5. \A i \in Pid : job[i].last # None => job[i].last \in Pid
  BY <1>1, JobFields DEF ListsOK
<1>6. ASSUME NEW i \in Pid PROVE i \in Over' <=> (i \in Over \/ i = j)
  <2>1. job'[i].last = job[i].last
    BY FinishStep
  <2>2. CASE i = j
    BY <1>2, <2>1, <2>2, JobAssumption DEF Over
  <2>3. CASE i # j /\ job[i].last = None
    BY <2>1, <2>3 DEF Over
  <2>4. CASE i # j /\ job[i].last # None
    <3>1. job[i].last \in Pid /\ job[i].last # job[j].last
      BY <1>1, <1>5, <2>4, LastUnique
    <3>2. proc'[job[i].last] = proc[job[i].last]
      BY <3>1, FinishStep
    <3> QED BY <1>2, <2>1, <2>4, <3>2 DEF Over
  <2> QED BY <2>2, <2>3, <2>4
<1>7. Over' = Over \cup {j}
  BY <1>6 DEF Over
<1> QED BY <1>3, <1>4, <1>7 DEF Table!Finish, Over, Gone

(* Register lists a job that was never listed before.                       *)
LEMMA Launches ==
  ASSUME ValuedInv, Register, [Next]_vars, interactive
  PROVE  cur \in Pid /\ Table!Launch(cur)
<1>1. PlacesInv /\ TypeInv /\ ListsOK /\ Records
  BY TypeParts DEF ValuedInv, SettledInv, GroupsInv, PlacesInv, TypeInv
<1>2. cur \in Pid /\ jobs' = <<cur>> \o jobs
  BY <1>1, RegisterLists
<1>3. cur \notin Gone \cup Range(jobs)
  BY <1>1, <1>2, JobAssumption DEF Gone, Records, Named, Building, Register, At
<1>4. Over' = Over
  BY <1>1, OverSame DEF Register, processes
<1>5. Gone' = Gone
  BY <1>1, GoneSame DEF Register, SwapJobs, At
<1> QED BY <1>2, <1>3, <1>4, <1>5 DEF Table!Launch, Table!Range, Range, Over, Gone

(* SwapJobs drops the freed jobs, whose last processes were collected, and  *)
(* keeps the others in order.                                               *)
LEMMA Drops ==
  ASSUME ValuedInv, SwapJobs, [Next]_vars, interactive
  PROVE  \E dead \in SUBSET Pid : Table!Drop(dead)
<1>1. PlacesInv /\ TypeInv /\ ListsOK /\ Records /\ Lists /\ Control
  BY TypeParts DEF ValuedInv, SettledInv, GroupsInv, PlacesInv, TypeInv
<1>2. Named \subseteq Pid /\ Listed \subseteq Named
  BY <1>1, NamedInPid DEF Named, Listed
<1>3. /\ pc = "swap" /\ cur = None /\ cur' = None /\ job' = job /\ proc' = proc
      /\ interactive' = interactive
  BY <1>1 DEF SwapJobs, At, Goto, processes, Records, Idle
<1>4. PICK dead \in SUBSET Pid : dead = {j \in Listed : job[j].status = "none"}
  BY <1>2
<1>5. dead \subseteq Over \cap Range(jobs)
  BY <1>1, <1>2, <1>3, <1>4, JobAssumption DEF Lists, Burial, Records, Over, Listed
<1>6. /\ jobs' \in Seq(Pid)
      /\ Range(jobs') = Range(jobs) \ dead
      /\ Table!InOrder(jobs', jobs)
  <2>1. Range(jobs') = {j \in Listed : job[j].status # "none"}
    BY <1>1, SurvivorsOf
  <2>2. Range(jobs') = Range(jobs) \ dead
    BY <1>4, <2>1 DEF Listed
  <2>3. Table!InOrder(jobs', jobs)
    BY <1>1, SurvivorsOf DEF Table!InOrder
  <2> QED BY <1>1, <2>2, <2>3, SurvivorsOf
<1>7. Gone' = Gone \cup dead
  BY <1>1, <1>2, <1>3, <1>4, <1>6, JobAssumption DEF Gone, Listed, Records
<1>8. Over' = Over
  BY <1>3 DEF Over
<1>9. Table!Drop(dead)
  BY <1>5, <1>6, <1>7, <1>8 DEF Table!Drop, Table!Range, Range, Over, Gone
<1> QED BY <1>9

LEMMA TableStep ==
  ASSUME ValuedInv, [Next]_vars
  PROVE  Table!Next \/ UNCHANGED <<jobs, Over, Gone>>
<1>1. PlacesInv /\ TypeInv /\ ListsOK /\ Control
  BY TypeParts DEF ValuedInv, SettledInv, GroupsInv, PlacesInv, TypeInv
<1>2. CASE ~interactive
  BY <1>1, <1>2, ScriptTable
<1>3. CASE interactive /\ SwapJobs
  BY <1>3, Drops DEF Table!Next
<1>4. CASE interactive /\ Register
  BY <1>4, Launches DEF Table!Next
<1>5. ASSUME interactive, NEW j \in Pid, job[j].last \in Pid,
             proc[job[j].last] # "reaped", proc'[job[j].last] = "reaped"
      PROVE  Table!Next
  BY <1>5, Finishes DEF Table!Next
<1>6. CASE /\ interactive /\ ~SwapJobs /\ ~Register
           /\ \A j \in Pid : job[j].last \in Pid =>
                (proc'[job[j].last] = "reaped" => proc[job[j].last] = "reaped")
  <2>1. Over' = Over /\ Gone' = Gone
    BY <1>1, <1>6, OverSame, GoneSame
  <2>2. jobs' = jobs
    BY <1>1, <1>6, ListSteps DEF EndLine, Bury, Quiet
  <2> QED BY <2>1, <2>2
<1> QED BY <1>2, <1>3, <1>4, <1>5, <1>6

(* Whatever babysit and main do between them, a job enters the list at its  *)
(* head, once, and leaves it only after its last process was collected, the *)
(* others keeping their order.                                              *)
THEOREM RefinesTable == Spec => ImplementsTable
<1>1. Init => Table!Init
  <2> SUFFICES ASSUME Init PROVE jobs = <<>> /\ Over = {} /\ Gone = {}
      BY DEF Table!Init, Over, Gone
  <2> QED BY NoJobFields DEF Init, Over, Gone
<1>2. ValuedInv /\ [Next]_vars =>
        [Table!Next]_<<jobs, {j \in Pid : interactive /\ job[j].last # None /\ proc[job[j].last] = "reaped"},
                       {j \in Pid : /\ interactive /\ job[j].last # None
                                    /\ job[j].status = "none" /\ j \notin Listed \cup {cur}}>>
  BY TableStep DEF Over, Gone
<1> QED BY <1>1, <1>2, ValuedInvariant, PTL DEF Spec, ImplementsTable, Table!Spec
=============================================================================
