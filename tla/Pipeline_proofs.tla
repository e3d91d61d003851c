--------------------------- MODULE Pipeline_proofs ---------------------------
(* Theorems about Pipeline, for every value of its constants. *)
EXTENDS Pipeline, Descriptors_proofs

-----------------------------------------------------------------------------
(* What the shell has open, and what for.                                   *)

Sh      == table[Shell]
Extra   == Fd \ Standard
InPipe  == {"stage", "close"}
OnFile(t, fd) == fd \in Extra /\ t[fd] = [end |-> "file", of |-> 0, cloexec |-> TRUE]
OnRead(t, fd, n, cloexec)  == fd \in Extra /\ t[fd] = [end |-> "read", of |-> n, cloexec |-> cloexec]
OnWrite(t, fd, n, cloexec) == fd \in Extra /\ t[fd] = [end |-> "write", of |-> n, cloexec |-> cloexec]

(* The descriptors, apart from the first three and the lost ones, that      *)
(* somebody will close: parse_pipe its files, gobble and do_pipe its pipe,  *)
(* and do_pipe the ends it passes to the stages.                            *)
Held ==
  (IF call.goal = "parse" THEN {call.src, call.out} \cap Extra ELSE {})
  \cup (IF call.goal = "gobble" /\ pc \in InPipe \cup {"gobble"} THEN {call.pfd} ELSE {})
  \cup (IF call.goal = "gobble" /\ pc \in InPipe THEN {call.out} ELSE {})
  \cup (IF pc \in InPipe /\ call.input # call.src THEN {call.input} ELSE {})
  \cup (IF pc = "close" /\ call.left > 1 THEN {call.rd, call.sink} ELSE {})

(* Which caller of do_pipe is where, and the pipes it may still make.       *)
Roles ==
  /\ pc = "eval" => call.goal = "none"
  /\ pc \in InPipe => call.goal # "none"
  /\ pc = "gobble" => call.goal = "gobble"
  /\ pc = "wait" => ~call.bg
  /\ call.goal = "gobble" => call.bg /\ call.destructive
  /\ call.destructive => call.goal = "gobble"
Budget ==
  /\ pc \in InPipe => call.left >= 1
  /\ pc = "stage" => call.left - 1 <= MaxFile - made
  /\ pc = "close" => call.left - 2 <= MaxFile - made
Goals == Roles /\ Budget

(* What the caller gave do_pipe to read and to write, in table t.           *)
GivenOK(t) ==
  /\ call.src \in {0, Invalid} \/ (call.goal = "parse" /\ OnFile(t, call.src))
  /\ call.goal # "gobble" =>
       call.out \in {1, Invalid} \/ (call.goal = "parse" /\ OnFile(t, call.out))
  /\ call.src = call.out => call.src = Invalid
  /\ call.goal = "gobble" /\ pc \in InPipe \cup {"gobble"} =>
       \E n \in Pipe : /\ OnRead(t, call.pfd, n, TRUE)
                       /\ pc \in InPipe => OnWrite(t, call.out, n, TRUE)
  /\ pc = "gobble" => call.out \in Extra /\ t[call.out] = Closed

(* The ends of the pipes between stages: input is the one the stage forked  *)
(* next, or just now, reads; rd and sink those of its own pipe.             *)
EndsOK(t) ==
  /\ pc \in InPipe /\ call.input # call.src => \E n \in Pipe : OnRead(t, call.input, n, FALSE)
  /\ pc = "stage" => IF call.own = 0 THEN call.input = call.src
                     ELSE call.input # call.src /\ OnRead(t, call.input, call.own, FALSE)
  /\ pc = "close" /\ call.left > 1 =>
       /\ call.own # 0 /\ call.rd # call.input
       /\ OnRead(t, call.rd, call.own, FALSE) /\ OnWrite(t, call.sink, call.own, FALSE)
  /\ pc = "close" /\ call.left = 1 => call.sink = call.out

ShellOK ==
  pc # "exited" =>
    /\ \A fd \in Standard : Sh[fd] = Tty
    /\ Open(Sh) = Standard \cup leaked \cup Held
    /\ leaked \cap Held = {}
    /\ leaked \subseteq Extra
    /\ \A fd \in leaked : Sh[fd].cloexec = TRUE \/ Sh[fd].end = "read"
    /\ GivenOK(Sh) /\ EndsOK(Sh)

(* The children in the order of their forks, and their jobs.                *)
Orders ==
  /\ \A c \in Child : c > forked => state[c] = "free" /\ stage[c] = NoStage
  /\ \A c \in Child : c <= forked => stage[c].job \in 1 .. c
  /\ \A c, d \in Child : d = c + 1 /\ d <= forked /\ stage[c].job = stage[d].job =>
       stage[d].from = stage[c].to
  /\ pc \in InPipe /\ call.first # 0 => forked # 0 /\ stage[forked].job = call.first
  /\ pc = "stage" /\ call.first # 0 => call.own # 0 /\ stage[forked].to = call.own
  /\ pc = "close" /\ call.left > 1 => stage[forked].to = call.own
  /\ pc = "stage" /\ call.first = 0 => call.own = 0
  /\ pc = "close" => call.first # 0

(* What a child inherits, before exec_aux: its input and output, what exec  *)
(* will close, and the read ends that stay.                                 *)
ForkedOK(t, s) ==
  /\ \A fd \in Standard : t[fd] = Tty
  /\ IF s.from = 0 THEN s.in \in {0, Invalid} \/ OnFile(t, s.in)
     ELSE OnRead(t, s.in, s.from, FALSE)
  /\ IF s.to = 0 THEN s.out \in {1, Invalid} \/ OnFile(t, s.out)
     ELSE \E x \in BOOLEAN : OnWrite(t, s.out, s.to, x)
  /\ s.in = s.out => s.in = Invalid
  /\ \A fd \in Extra : t[fd] # Closed =>
       \/ fd \in {s.in, s.out}
       \/ t[fd].cloexec = TRUE
       \/ t[fd].end = "read" /\ (t[fd].of = s.to \/ fd \in leaked)

ChildrenOK == \A c \in Child : state[c] = "forked" => ForkedOK(table[c], stage[c])

Waiting  == Goals /\ ShellOK /\ Orders
Children == ChildrenOK /\ HoldsOnlyItsEnds /\ Connected
PlumbInv == TypeOK /\ Waiting /\ Children

-----------------------------------------------------------------------------
(* The records that do_pipe's variables go through.                         *)
LEMMA StartCall ==
  ASSUME NEW goal \in {"parse", "run", "gobble"}, NEW n \in 0 .. MaxStages,
         NEW bg, NEW destructive, bg \in BOOLEAN, destructive \in BOOLEAN,
         NEW src \in Descriptor, NEW out \in Descriptor, NEW pfd \in Descriptor,
         Start(goal, n, bg, destructive, src, out, pfd)
  PROVE  /\ call' \in Call
         /\ call'.goal = goal /\ call'.left = n /\ call'.bg = bg /\ call'.destructive = destructive
         /\ call'.input = src /\ call'.src = src /\ call'.out = out /\ call'.pfd = pfd
         /\ call'.own = 0 /\ call'.first = 0
<1>1. PICK k : k = call'
  OBVIOUS
<1>2. k = [NoCall EXCEPT !.goal = goal, !.left = n, !.bg = bg,
             !.destructive = destructive, !.input = src, !.src = src,
             !.out = out, !.pfd = pfd]
  BY <1>1, Zenon DEF Start
<1>3. /\ k \in Call
      /\ k.goal = goal /\ k.left = n /\ k.bg = bg /\ k.destructive = destructive
      /\ k.input = src /\ k.src = src /\ k.out = out /\ k.pfd = pfd
      /\ k.own = 0 /\ k.first = 0
  BY <1>2 DEF NoCall, Call, Descriptor, Invalid, Proc, Shell
<1> QED BY <1>1, <1>3, Zenon

LEMMA EndCall ==
  ASSUME NEW k \in Call, NEW e, e = [k EXCEPT !.left = 0]
  PROVE  /\ e \in Call /\ e.left = 0
         /\ e.goal = k.goal /\ e.bg = k.bg /\ e.destructive = k.destructive
         /\ e.input = k.input /\ e.src = k.src /\ e.out = k.out /\ e.pfd = k.pfd
BY PipelineAssumption DEF Call

LEMMA NoCallType == NoCall \in Call /\ NoCall.goal = "none"
BY PipelineAssumption DEF NoCall, Call, Descriptor, Invalid, Proc, Shell

-----------------------------------------------------------------------------
(* The tables that do_pipe's descriptors go through.                        *)
LEMMA InvalidFd == Invalid \notin Fd /\ Invalid \notin Standard /\ Extra \subseteq Fd
BY StandardFd DEF Invalid, Fd, Standard, Extra

LEMMA OpenAuxTable ==
  ASSUME NEW t \in Table, NEW redirection \in {"none", "file", "bad"},
         NEW standard \in Standard, \A fd \in Standard : t[fd] = Tty,
         NEW r, r = OpenAux(t, redirection, standard)
  PROVE  /\ r.table \in Table
         /\ \/ r.fd \in {standard, Invalid} /\ r.table = t
            \/ /\ OnFile(r.table, r.fd) /\ t[r.fd] = Closed
               /\ \A fd \in Fd \ {r.fd} : r.table[fd] = t[fd]
<1>1. CASE redirection = "file" /\ Free(t) # {}
  <2>1. r.table = Install(t, "file", 0, TRUE) /\ r.fd = Lowest(t)
    BY <1>1 DEF OpenAux
  <2>2. Lowest(t) \in Fd /\ t[Lowest(t)] = Closed
    BY <1>1, LowestFree
  <2>3. Lowest(t) \notin Standard
    BY <2>2, EntryTypes
  <2>4. 0 \in 0 .. MaxFile
    BY DescriptorAssumption
  <2>5. /\ r.table \in Table
        /\ r.table[r.fd] = [end |-> "file", of |-> 0, cloexec |-> TRUE]
        /\ \A fd \in Fd \ {r.fd} : r.table[fd] = t[fd]
    <3>1. "file" \in {"tty", "file", "read", "write"} /\ TRUE \in BOOLEAN
      OBVIOUS
    <3>2. /\ Install(t, "file", 0, TRUE) \in Table
          /\ Install(t, "file", 0, TRUE)[Lowest(t)] = [end |-> "file", of |-> 0, cloexec |-> TRUE]
          /\ \A fd \in Fd \ {Lowest(t)} : Install(t, "file", 0, TRUE)[fd] = t[fd]
      BY <1>1, <2>4, <3>1, InstallTable, Zenon
    <3> QED BY <2>1, <3>2
  <2> QED BY <2>1, <2>2, <2>3, <2>5 DEF OnFile, Extra
<1>2. CASE ~(redirection = "file" /\ Free(t) # {})
  BY <1>2 DEF OpenAux
<1> QED BY <1>1, <1>2

(* A new pipe gets two descriptors that were free, so none of the first     *)
(* three.                                                                   *)
LEMMA ShellPipe ==
  ASSUME NEW t \in Table, Cardinality(Free(t)) >= 2, \A fd \in Standard : t[fd] = Tty,
         NEW n \in Pipe, NEW x \in BOOLEAN, NEW r, NEW w, NEW u,
         r = Lowest(t), w = Lowest(Install(t, "read", n, x)), u = NewPipe(t, n, x)
  PROVE  /\ u \in Table /\ OnRead(u, r, n, x) /\ OnWrite(u, w, n, x) /\ r # w
         /\ r \in Extra /\ w \in Extra /\ t[r] = Closed /\ t[w] = Closed
         /\ u[r] # Closed /\ u[w] # Closed
         /\ \A fd \in Fd \ {r, w} : u[fd] = t[fd]
<1>1. n \in 0 .. MaxFile
  BY DescriptorAssumption DEF Pipe
<1>2. /\ u \in Table /\ r \in Free(t) /\ w \in Free(t) /\ r # w
      /\ u[r] = [end |-> "read", of |-> n, cloexec |-> x]
      /\ u[w] = [end |-> "write", of |-> n, cloexec |-> x]
      /\ \A fd \in Fd \ {r, w} : u[fd] = t[fd]
  BY <1>1, PipeTable
<1>3. r \in Extra /\ w \in Extra /\ t[r] = Closed /\ t[w] = Closed
  BY <1>2, EntryTypes DEF Free, Open, Extra
<1>4. u[r].end = "read" /\ u[w].end = "write" /\ Closed.end = "none"
  BY <1>2 DEF Closed
<1> QED BY <1>2, <1>3, <1>4 DEF OnRead, OnWrite

LEMMA CloseAuxAny ==
  ASSUME NEW t \in Table, NEW fd \in Descriptor, NEW u, u = CloseAux(t, fd)
  PROVE  /\ u \in Table
         /\ \A other \in Fd \ {fd} : u[other] = t[other]
         /\ fd \in Extra => u[fd] = Closed
         /\ fd \notin Extra => u = t
BY CloseTable, InvalidFd DEF CloseAux, Close, Descriptor, Extra

(* What the redirections of exec_aux make of t.                             *)
Carried(t, in, out, v) ==
  /\ v[0].end = t[in].end /\ v[0].of = t[in].of
  /\ v[1].end = t[out].end /\ v[1].of = t[out].of
  /\ v[0].cloexec = FALSE /\ v[1].cloexec = FALSE /\ v[2] = Tty
  /\ \A fd \in Extra : v[fd] = IF fd \in {in, out} THEN Closed ELSE t[fd]

(* They succeed on what do_pipe hands down.                                 *)
LEMMA StageTable ==
  ASSUME NEW t \in Table, NEW in \in {0} \cup Extra, NEW out \in {1} \cup Extra,
         in # out, t[in] # Closed, t[out] # Closed, \A fd \in Standard : t[fd] = Tty,
         NEW s, s = Redirected(t, in, out, 2)
  PROVE  s.ok /\ s.table \in Table /\ Carried(t, in, out, s.table)
<1>1. /\ 0 \in Standard /\ 1 \in Standard /\ 2 \in Standard /\ in \in Fd /\ out \in Fd /\ 2 \in Fd
      /\ 0 \in Fd /\ 1 \in Fd
  BY StandardFd, InvalidFd DEF Standard
<1>2. Tty # Closed /\ Closed.end = "none" /\ Tty.cloexec = FALSE
  BY EntryTypes DEF Closed, Tty
<1> DEFINE a == Dup2Aux(Fine(t), in, 0)
<1>3. PICK ta : ta = a.table
  OBVIOUS
<1>4. a.ok /\ a = Fine(ta) /\ ta \in Table /\ Moved(t, in, 0, ta)
  BY <1>1, <1>3, Dup2Works
<1> HIDE DEF a
<1>5. ta[out] = t[out] /\ ta[1] = Tty /\ ta[2] = Tty
  BY <1>1, <1>4 DEF Moved, Extra
<1> DEFINE b == Dup2Aux(Fine(ta), out, 1)
<1>6. PICK tb : tb = b.table
  OBVIOUS
<1>7. b.ok /\ b = Fine(tb) /\ tb \in Table /\ Moved(ta, out, 1, tb)
  BY <1>1, <1>4, <1>5, <1>6, Dup2Works
<1> HIDE DEF b
<1>8. s = b
  <2>1. s = Dup2Aux(Dup2Aux(a, out, 1), 2, 2)
    BY DEF Redirected, a, Fine
  <2> QED BY <1>4, <1>7, <2>1 DEF b, Dup2Aux
<1>9. s.table = tb /\ s.ok
  BY <1>6, <1>7, <1>8
<1>10. tb[0] = ta[0] /\ tb[2] = Tty
  BY <1>1, <1>5, <1>7 DEF Moved, Extra
<1>11. ASSUME NEW fd \in Extra PROVE tb[fd] = IF fd \in {in, out} THEN Closed ELSE t[fd]
  <2>1. fd \in Fd /\ fd \notin {0, 1, 2}
    BY <1>1, <1>11 DEF Extra
  <2>2. ta[fd] = IF fd = in THEN Closed ELSE t[fd]
    BY <1>1, <1>4, <2>1 DEF Moved, Extra
  <2>3. tb[fd] = IF fd = out THEN Closed ELSE ta[fd]
    BY <1>1, <1>7, <2>1 DEF Moved, Extra
  <2> QED BY <2>2, <2>3
<1>12. ta[0].cloexec = FALSE /\ tb[1].cloexec = FALSE
  BY <1>1, <1>2, <1>4, <1>5, <1>7 DEF Moved
<1>13. Carried(t, in, out, tb)
  BY <1>4, <1>5, <1>7, <1>10, <1>11, <1>12 DEF Moved, Carried
<1> QED BY <1>7, <1>9, <1>13

LEMMA StageFails ==
  ASSUME NEW t \in Table, NEW in \in Descriptor, NEW out \in Descriptor,
         in = Invalid \/ out = Invalid,
         NEW s, s = Redirected(t, in, out, 2)
  PROVE  ~s.ok
<1>1. Invalid # 0 /\ Invalid # 1
  BY DEF Invalid
<1> DEFINE a == Dup2Aux(Fine(t), in, 0)
<1>2. s = Dup2Aux(Dup2Aux(a, out, 1), 2, 2)
  BY DEF Redirected, Fine
<1>3. \A x \in Table : Invalid \notin Open(x)
  BY InvalidFd DEF Open
<1>4. ~Failed.ok
  BY DEF Failed
<1>5. CASE in = Invalid
  <2>1. a = Failed
    BY <1>1, <1>3, <1>5 DEF Dup2Aux, Fine
  <2> QED BY <1>2, <1>4, <2>1, Dup2AfterFailure
<1>6. CASE out = Invalid
  <2>1. ~a.ok \/ Invalid \notin Open(a.table)
    BY InvalidFd DEF Open
  <2>2. ~Dup2Aux(a, out, 1).ok
    BY <1>1, <1>4, <1>6, <2>1 DEF Dup2Aux
  <2> QED BY <1>2, <1>4, <2>2 DEF Dup2Aux
<1> QED BY <1>5, <1>6

-----------------------------------------------------------------------------
(* The steps of the shell.                                                  *)

(* The parts of TypeOK.                                                     *)
FlagOK   == interactive \in BOOLEAN
TablesOK == table \in [Proc -> Table]
DataOK   == data \in [Pipe -> 0 .. Capacity]
KidsOK   == /\ stage \in [Child -> Stage] /\ state \in [Child -> State]
            /\ last \in [Child -> {0} \cup Child] /\ forked \in {0} \cup Child
MainOK   == /\ made \in 0 .. MaxFile /\ call \in Call /\ leaked \subseteq Fd
            /\ pc \in {"eval", "stage", "close", "wait", "gobble", "return", "exited"}

LEMMA PlumbTypes ==
  /\ TypeOK <=> FlagOK /\ TablesOK /\ DataOK /\ KidsOK /\ MainOK
  /\ TypeOK' <=> FlagOK' /\ TablesOK' /\ DataOK' /\ KidsOK' /\ MainOK'
BY Zenon DEF TypeOK, FlagOK, TablesOK, DataOK, KidsOK, MainOK

LEMMA ProcFacts == /\ Shell \in Proc /\ Child \subseteq Proc /\ Shell \notin Child /\ Shell = 0
                   /\ \A c \in Child : c \in Nat /\ c >= 1
BY PipelineAssumption DEF Proc, Child, Shell

LEMMA SetShellTable ==
  ASSUME TablesOK, NEW t \in Table, SetShell(t)
  PROVE  TablesOK' /\ Sh' = t /\ \A c \in Child : table'[c] = table[c]
BY ProcFacts DEF TablesOK, SetShell, Sh

(* A step of the shell leaves its children as they are.                     *)
LEMMA ChildrenKept ==
  ASSUME ChildrenOK, HoldsOnlyItsEnds, Connected, stage' = stage, state' = state,
         leaked \subseteq leaked', \A c \in Child : table'[c] = table[c]
  PROVE  ChildrenOK' /\ HoldsOnlyItsEnds' /\ Connected'
<1>1. ChildrenOK'
  <2> SUFFICES ASSUME NEW c \in Child, state[c] = "forked"
               PROVE  ForkedOK(table[c], stage[c])'
    BY DEF ChildrenOK
  <2>1. ForkedOK(table[c], stage[c]) /\ table'[c] = table[c] /\ stage'[c] = stage[c]
    BY DEF ChildrenOK
  <2> QED BY <2>1 DEF ForkedOK
<1>2. HoldsOnlyItsEnds'
  BY DEF HoldsOnlyItsEnds, Running, Open
<1>3. Connected'
  BY DEF Connected, Running, Input, Output, Piped, Members
<1> QED BY <1>1, <1>2, <1>3

PlumbStep == TypeOK' /\ Waiting'

LEMMA CallFields ==
  ASSUME NEW k \in Call
  PROVE  /\ k.goal \in {"none", "parse", "run", "gobble"} /\ k.left \in 0 .. MaxStages
         /\ k.input \in Descriptor /\ k.rd \in Descriptor /\ k.sink \in Descriptor
         /\ k.src \in Descriptor /\ k.out \in Descriptor /\ k.pfd \in Descriptor
         /\ k.own \in {0} \cup Pipe /\ k.first \in Proc
BY DEF Call

LEMMA AtEval ==
  ASSUME TypeOK, Waiting, pc = "eval"
  PROVE  /\ Held = {} /\ Open(Sh) = Standard \cup leaked /\ leaked \subseteq Extra
         /\ Sh \in Table /\ \A fd \in Standard : Sh[fd] = Tty
         /\ \A fd \in Fd : Sh[fd] = Closed => fd \notin leaked
<1>1. Held = {}
  BY DEF Waiting, Goals, Roles, Held, InPipe
<1> QED BY <1>1, PlumbTypes, ProcFacts DEF Waiting, ShellOK, Open, Sh, TablesOK

LEMMA RunStep ==
  ASSUME TypeOK, Waiting, NEW n \in 1 .. MaxStages, n - 1 <= MaxFile - made,
         NEW b \in BOOLEAN, Run(n, b)
  PROVE  PlumbStep
<1>1. FlagOK /\ TablesOK /\ DataOK /\ KidsOK /\ MainOK
  BY PlumbTypes
<1>2. /\ pc = "eval" /\ pc' = "stage" /\ table' = table /\ made' = made /\ leaked' = leaked
      /\ interactive' = interactive /\ data' = data /\ stage' = stage /\ state' = state
      /\ last' = last /\ forked' = forked
  BY DEF Run, Start, children
<1>3. 0 \in Descriptor /\ 1 \in Descriptor /\ Invalid \in Descriptor /\ n \in 0 .. MaxStages
  BY StandardFd DEF Descriptor
<1>4. /\ call' \in Call
      /\ call'.goal = "run" /\ call'.left = n /\ call'.bg = b /\ call'.destructive = FALSE
      /\ call'.input = 0 /\ call'.src = 0 /\ call'.out = 1
      /\ call'.own = 0 /\ call'.first = 0
  <2>1. Start("run", n, b, FALSE, 0, 1, Invalid)
    BY DEF Run
  <2>2. "run" \in {"parse", "run", "gobble"} /\ FALSE \in BOOLEAN
    OBVIOUS
  <2>3. PICK src \in Descriptor, out \in Descriptor, pfd \in Descriptor :
          src = 0 /\ out = 1 /\ pfd = Invalid
    BY <1>3
  <2>4. Start("run", n, b, FALSE, src, out, pfd)
    BY <2>1, <2>3
  <2>5. /\ call' \in Call
        /\ call'.goal = "run" /\ call'.left = n /\ call'.bg = b /\ call'.destructive = FALSE
        /\ call'.input = src /\ call'.src = src /\ call'.out = out
        /\ call'.own = 0 /\ call'.first = 0
    BY ONLY <1>3, <2>2, <2>4, n \in 1 .. MaxStages, b \in BOOLEAN, StartCall, Zenon
  <2> QED BY <2>3, <2>5
<1>5. TypeOK'
  BY <1>1, <1>2, <1>4, PlumbTypes DEF FlagOK, TablesOK, DataOK, KidsOK, MainOK
<1>6. Goals'
  BY <1>2, <1>4 DEF Goals, Roles, Budget, InPipe
<1>7. Orders'
  BY <1>2, <1>4 DEF Waiting, Orders, InPipe
<1>8. Held' = {} /\ Sh' = Sh
  BY <1>2, <1>4 DEF Held, InPipe, Sh
<1>9. GivenOK(Sh)' /\ EndsOK(Sh)'
  BY <1>2, <1>4 DEF GivenOK, EndsOK, Invalid
<1>10. ShellOK'
  BY <1>2, <1>8, <1>9, AtEval DEF ShellOK, Open, Waiting
<1> QED BY <1>5, <1>6, <1>7, <1>10 DEF PlumbStep, Waiting

LEMMA ParsePipeStep ==
  ASSUME TypeOK, Waiting, NEW n \in 1 .. MaxStages, n - 1 <= MaxFile - made,
         NEW i \in Redirections, NEW o \in Redirections, ParsePipe(n, i, o)
  PROVE  PlumbStep
<1>1. FlagOK /\ TablesOK /\ DataOK /\ KidsOK /\ MainOK
  BY PlumbTypes
<1>2. PICK in : in = OpenAux(Sh, i, 0)
  OBVIOUS
<1>3. PICK out : out = OpenAux(in.table, o, 1)
  OBVIOUS
<1>4. /\ pc = "eval" /\ pc' = "stage" /\ made' = made /\ leaked' = leaked
      /\ interactive' = interactive /\ data' = data /\ stage' = stage /\ state' = state
      /\ last' = last /\ forked' = forked /\ SetShell(out.table)
  BY <1>2, <1>3 DEF ParsePipe, Start, children, Sh
<1>5. /\ Held = {} /\ Open(Sh) = Standard \cup leaked /\ leaked \subseteq Extra
      /\ Sh \in Table /\ \A fd \in Standard : Sh[fd] = Tty
      /\ \A fd \in Fd : Sh[fd] = Closed => fd \notin leaked
  BY <1>4, AtEval
<1>6. 0 \in Standard /\ 1 \in Standard /\ i \in {"none", "file", "bad"} /\ o \in {"none", "file", "bad"}
      /\ Standard \subseteq Fd /\ Tty # Closed
  BY PipelineAssumption, StandardFd, EntryTypes DEF Standard
<1>7. /\ in.table \in Table
      /\ \/ in.fd \in {0, Invalid} /\ in.table = Sh
         \/ /\ OnFile(in.table, in.fd) /\ Sh[in.fd] = Closed
            /\ \A fd \in Fd \ {in.fd} : in.table[fd] = Sh[fd]
  BY <1>2, <1>5, <1>6, OpenAuxTable
<1>8. \A fd \in Standard : in.table[fd] = Tty
  BY <1>5, <1>6, <1>7 DEF OnFile, Extra
<1>9. /\ out.table \in Table
      /\ \/ out.fd \in {1, Invalid} /\ out.table = in.table
         \/ /\ OnFile(out.table, out.fd) /\ in.table[out.fd] = Closed
            /\ \A fd \in Fd \ {out.fd} : out.table[fd] = in.table[fd]
  BY <1>3, <1>6, <1>7, <1>8, OpenAuxTable
<1>10. in.fd \in Descriptor /\ out.fd \in Descriptor /\ Invalid \in Descriptor /\ n \in 0 .. MaxStages
  BY <1>6, <1>7, <1>9 DEF OnFile, Extra, Descriptor
<1>11. /\ call' \in Call
       /\ call'.goal = "parse" /\ call'.left = n /\ call'.bg = FALSE /\ call'.destructive = FALSE
       /\ call'.input = in.fd /\ call'.src = in.fd /\ call'.out = out.fd
       /\ call'.own = 0 /\ call'.first = 0
  <2>1. Start("parse", n, FALSE, FALSE, in.fd, out.fd, Invalid)
    BY <1>2, <1>3 DEF ParsePipe, Sh
  <2>2. "parse" \in {"parse", "run", "gobble"} /\ FALSE \in BOOLEAN
    OBVIOUS
  <2>3. PICK x \in Descriptor, y \in Descriptor : x = in.fd /\ y = out.fd
    BY <1>10
  <2>4. Start("parse", n, FALSE, FALSE, x, y, Invalid)
    BY <2>1, <2>3
  <2>5. /\ call' \in Call
        /\ call'.goal = "parse" /\ call'.left = n /\ call'.bg = FALSE /\ call'.destructive = FALSE
        /\ call'.input = x /\ call'.src = x /\ call'.out = y
        /\ call'.own = 0 /\ call'.first = 0
    BY <1>10, <2>2, <2>4, StartCall, Zenon
  <2> QED BY <2>3, <2>5, Zenon
<1>12. TablesOK' /\ Sh' = out.table
  BY <1>1, <1>4, <1>9, SetShellTable
<1>13. TypeOK'
  BY <1>1, <1>4, <1>11, <1>12, PlumbTypes DEF FlagOK, DataOK, KidsOK, MainOK
<1>14. Goals'
  BY <1>4, <1>11 DEF Goals, Roles, Budget, InPipe
<1>15. Orders'
  BY <1>4, <1>11 DEF Waiting, Orders, InPipe
<1>16. Held' = {in.fd, out.fd} \cap Extra
  BY <1>4, <1>11 DEF Held, InPipe
<1>17. /\ in.fd \in {0, Invalid} \/ OnFile(out.table, in.fd)
       /\ out.fd \in {1, Invalid} \/ OnFile(out.table, out.fd)
       /\ in.fd = out.fd => in.fd = Invalid
  <2>1. [end |-> "file", of |-> 0, cloexec |-> TRUE] # Closed
    BY DEF Closed
  <2>2. 0 # Invalid /\ 1 # Invalid /\ 0 \notin Extra /\ 1 \notin Extra /\ Extra \subseteq Fd
        /\ Invalid \notin Extra
    BY InvalidFd, <1>6 DEF Invalid, Extra
  <2> QED BY <1>7, <1>9, <2>1, <2>2 DEF OnFile
<1>18. GivenOK(Sh)' /\ EndsOK(Sh)'
  BY <1>4, <1>11, <1>12, <1>17 DEF GivenOK, EndsOK
<1>19. /\ \A fd \in Fd \ Held' : out.table[fd] = Sh[fd]
       /\ \A fd \in Held' : fd \in Extra /\ Sh[fd] = Closed /\ out.table[fd] # Closed
  <2>1. [end |-> "file", of |-> 0, cloexec |-> TRUE] # Closed
    BY DEF Closed
  <2>2. 0 \notin Extra /\ 1 \notin Extra /\ Extra \subseteq Fd /\ Invalid \notin Extra
    BY InvalidFd, <1>6 DEF Extra
  <2> QED BY <1>7, <1>9, <1>16, <1>17, <2>1, <2>2 DEF OnFile
<1>20. ShellOK'
  <2>1. \A fd \in Standard : Sh'[fd] = Tty
    BY <1>5, <1>6, <1>12, <1>19 DEF Extra
  <2>2. Open(Sh') = Open(Sh) \cup Held'
    BY <1>12, <1>19, InvalidFd DEF Open
  <2>3. leaked' \cap Held' = {} /\ \A fd \in leaked' : Sh'[fd] = Sh[fd]
    BY <1>4, <1>5, <1>12, <1>19, InvalidFd
  <2> QED BY <1>4, <1>5, <1>18, <2>1, <2>2, <2>3 DEF ShellOK, Waiting
<1> QED BY <1>13, <1>14, <1>15, <1>20 DEF PlumbStep, Waiting

LEMMA GobbleStep ==
  ASSUME TypeOK, Waiting, NEW n \in 1 .. MaxStages, n <= MaxFile - made, Gobble(n)
  PROVE  PlumbStep
<1>1. FlagOK /\ TablesOK /\ DataOK /\ KidsOK /\ MainOK
  BY PlumbTypes
<1>2. /\ pc = "eval" /\ pc' = "stage" /\ made' = made + 1 /\ leaked' = leaked /\ made < MaxFile
      /\ interactive' = interactive /\ data' = data /\ stage' = stage /\ state' = state
      /\ last' = last /\ forked' = forked /\ Cardinality(Free(Sh)) >= 2
  BY DEF Gobble, Start, children, Sh
<1>3. PICK m \in Pipe : m = made + 1
  BY <1>1, <1>2, DescriptorAssumption DEF MainOK, Pipe
<1>4. PICK yes \in BOOLEAN : yes = TRUE
  OBVIOUS
<1>5. PICK r, w, u : r = Lowest(Sh) /\ w = Lowest(Install(Sh, "read", m, yes)) /\ u = NewPipe(Sh, m, yes)
  OBVIOUS
<1>6. SetShell(u) /\ Start("gobble", n, TRUE, TRUE, 0, w, r)
  BY <1>3, <1>4, <1>5 DEF Gobble, GobblePipe, Sh
<1>7. /\ Held = {} /\ Open(Sh) = Standard \cup leaked /\ leaked \subseteq Extra
      /\ Sh \in Table /\ \A fd \in Standard : Sh[fd] = Tty
      /\ \A fd \in Fd : Sh[fd] = Closed => fd \notin leaked
  BY <1>2, AtEval
<1>8. /\ u \in Table /\ OnRead(u, r, m, yes) /\ OnWrite(u, w, m, yes) /\ r # w
      /\ r \in Extra /\ w \in Extra /\ Sh[r] = Closed /\ Sh[w] = Closed
      /\ u[r] # Closed /\ u[w] # Closed
      /\ \A fd \in Fd \ {r, w} : u[fd] = Sh[fd]
  BY <1>2, <1>5, <1>7, ShellPipe
<1>9. 0 \in Descriptor /\ r \in Descriptor /\ w \in Descriptor /\ n \in 0 .. MaxStages /\ TRUE \in BOOLEAN
  BY <1>8, StandardFd, InvalidFd DEF Descriptor
<1>10. /\ call' \in Call
       /\ call'.goal = "gobble" /\ call'.left = n /\ call'.bg = TRUE /\ call'.destructive = TRUE
       /\ call'.input = 0 /\ call'.src = 0 /\ call'.out = w /\ call'.pfd = r
       /\ call'.own = 0 /\ call'.first = 0
  <2>1. "gobble" \in {"parse", "run", "gobble"}
    OBVIOUS
  <2>2. PICK src \in Descriptor : src = 0
    BY <1>9
  <2>3. Start("gobble", n, TRUE, TRUE, src, w, r)
    BY <1>6, <2>2
  <2>4. /\ call' \in Call
        /\ call'.goal = "gobble" /\ call'.left = n /\ call'.bg = TRUE /\ call'.destructive = TRUE
        /\ call'.input = src /\ call'.src = src /\ call'.out = w /\ call'.pfd = r
        /\ call'.own = 0 /\ call'.first = 0
    BY ONLY <1>9, <2>1, <2>3, StartCall, Zenon
  <2> QED BY <2>2, <2>4
<1>11. TablesOK' /\ Sh' = u
  BY <1>1, <1>6, <1>8, SetShellTable
<1>12. TypeOK'
  BY <1>1, <1>2, <1>3, <1>10, <1>11, PlumbTypes, DescriptorAssumption DEF FlagOK, DataOK, KidsOK, MainOK
<1>13. Goals'
  <2>1. Roles'
    BY <1>2, <1>10, Zenon DEF Roles, InPipe
  <2>2. Budget'
    BY <1>1, <1>2, <1>10, PipelineAssumption, DescriptorAssumption DEF Budget, InPipe, MainOK
  <2> QED BY <2>1, <2>2 DEF Goals
<1>14. Orders'
  BY <1>2, <1>10 DEF Waiting, Orders, InPipe
<1>15. Held' = {r, w}
  BY <1>2, <1>10 DEF Held, InPipe
<1>16. GivenOK(Sh)' /\ EndsOK(Sh)'
  <2>1. 0 \notin Extra /\ 0 # w
    BY <1>8, StandardFd DEF Extra, Standard
  <2> QED BY <1>2, <1>4, <1>8, <1>10, <1>11, <2>1 DEF GivenOK, EndsOK
<1>17. ShellOK'
  <2>1. \A fd \in Standard : Sh'[fd] = Tty
    BY <1>7, <1>8, <1>11, StandardFd DEF Extra
  <2>2. Open(Sh') = Open(Sh) \cup Held'
    BY <1>8, <1>11, <1>15, InvalidFd DEF Open
  <2>3. leaked' \cap Held' = {} /\ \A fd \in leaked' : Sh'[fd] = Sh[fd]
    BY <1>2, <1>7, <1>8, <1>11, <1>15, InvalidFd
  <2> QED BY <1>2, <1>7, <1>16, <2>1, <2>2, <2>3 DEF ShellOK, Waiting
<1> QED BY <1>12, <1>13, <1>14, <1>17 DEF PlumbStep, Waiting

LEMMA PipeFailsStep ==
  ASSUME TypeOK, Waiting, PipeFails
  PROVE  PlumbStep
<1>1. FlagOK /\ TablesOK /\ DataOK /\ KidsOK /\ MainOK
  BY PlumbTypes
<1>2. /\ pc' = "exited" /\ pc = "stage" /\ made' = made /\ call' = call /\ leaked' = leaked
      /\ interactive' = interactive /\ data' = data /\ stage' = stage /\ state' = state
      /\ last' = last /\ forked' = forked /\ SetShell(NoTable)
  BY DEF PipeFails, children
<1>3. TablesOK'
  BY <1>1, <1>2, SetShellTable, InitialTableType
<1>4. TypeOK'
  BY <1>1, <1>2, <1>3, PlumbTypes DEF FlagOK, DataOK, KidsOK, MainOK
<1>5. Goals' /\ Orders' /\ ShellOK'
  BY <1>2 DEF Waiting, Goals, Roles, Budget, Orders, ShellOK, InPipe
<1> QED BY <1>4, <1>5 DEF PlumbStep, Waiting

LEMMA WaitStep ==
  ASSUME TypeOK, Waiting, Wait
  PROVE  PlumbStep
<1>1. FlagOK /\ TablesOK /\ DataOK /\ KidsOK /\ MainOK
  BY PlumbTypes
<1>2. /\ pc = "wait" /\ pc' = "return" /\ made' = made /\ call' = call /\ leaked' = leaked
      /\ interactive' = interactive /\ data' = data /\ stage' = stage /\ state' = state
      /\ last' = last /\ forked' = forked /\ table' = table
  BY DEF Wait, children
<1>3. TypeOK'
  BY <1>1, <1>2, PlumbTypes DEF FlagOK, DataOK, KidsOK, MainOK, TablesOK
<1>4. Goals' /\ Orders'
  BY <1>2 DEF Waiting, Goals, Roles, Budget, Orders, InPipe
<1>5. Sh' = Sh /\ Held' = Held
  BY <1>2 DEF Sh, Held, InPipe
<1>6. GivenOK(Sh)' /\ EndsOK(Sh)'
  <2>1. call.goal # "gobble"
    BY <1>2 DEF Waiting, Goals, Roles
  <2> QED BY <1>2, <1>5, <2>1 DEF Waiting, ShellOK, GivenOK, EndsOK, InPipe
<1>7. ShellOK'
  BY <1>2, <1>5, <1>6 DEF Waiting, ShellOK, Open
<1> QED BY <1>3, <1>4, <1>7 DEF PlumbStep, Waiting

LEMMA EntryFields ==
  ASSUME NEW t, NEW fd
  PROVE  /\ OnFile(t, fd) => fd \in Extra /\ t[fd].end = "file" /\ t[fd].of = 0 /\ t[fd] # Closed
                             /\ t[fd].cloexec = TRUE
         /\ \A n, x : OnRead(t, fd, n, x) =>
              fd \in Extra /\ t[fd].end = "read" /\ t[fd].of = n /\ t[fd].cloexec = x /\ t[fd] # Closed
         /\ \A n, x : OnWrite(t, fd, n, x) =>
              fd \in Extra /\ t[fd].end = "write" /\ t[fd].of = n /\ t[fd].cloexec = x /\ t[fd] # Closed
BY DEF OnFile, OnRead, OnWrite, Closed

(* The descriptors of the shell in a pipeline differ from each other.       *)
LEMMA Distinct ==
  ASSUME ShellOK, pc # "exited"
  PROVE  /\ call.src \in Extra => OnFile(Sh, call.src)
         /\ call.goal # "gobble" /\ call.out \in Extra => OnFile(Sh, call.out)
         /\ call.goal = "gobble" => call.src \notin Extra
         /\ pc \in InPipe /\ call.input # call.src =>
              /\ call.input \in Extra /\ call.input # call.out
              /\ call.goal = "gobble" => call.input # call.pfd
         /\ pc = "close" /\ call.left > 1 =>
              /\ call.rd \in Extra /\ call.sink \in Extra
              /\ call.rd # call.sink /\ call.rd # call.input /\ call.sink # call.input
              /\ call.rd # call.src /\ call.rd # call.out /\ call.sink # call.src /\ call.sink # call.out
              /\ call.goal = "gobble" => call.rd # call.pfd /\ call.sink # call.pfd
         /\ call.goal = "gobble" /\ pc \in InPipe => call.pfd # call.out /\ call.out \in Extra
         /\ call.goal = "gobble" /\ pc \in InPipe \cup {"gobble"} => call.pfd \in Extra
<1>1. GivenOK(Sh) /\ EndsOK(Sh)
  BY DEF ShellOK
<1>2. 0 \notin Extra /\ 1 \notin Extra /\ Invalid \notin Extra
  BY StandardFd, InvalidFd DEF Extra, Standard
<1>3. \A fd : /\ OnFile(Sh, fd) => fd \in Extra /\ Sh[fd].end = "file"
              /\ \A n, x : OnRead(Sh, fd, n, x) => fd \in Extra /\ Sh[fd].end = "read" /\ Sh[fd].cloexec = x
              /\ \A n, x : OnWrite(Sh, fd, n, x) => fd \in Extra /\ Sh[fd].end = "write" /\ Sh[fd].cloexec = x
  BY EntryFields
<1>4. \A fd, gd, m, n :
        /\ OnRead(Sh, fd, m, TRUE) /\ OnRead(Sh, gd, n, FALSE) => fd # gd
        /\ OnWrite(Sh, fd, m, TRUE) /\ OnWrite(Sh, gd, n, FALSE) => fd # gd
  <2>1. \A fd : /\ \A n, x : OnRead(Sh, fd, n, x) => Sh[fd].cloexec = x
               /\ \A n, x : OnWrite(Sh, fd, n, x) => Sh[fd].cloexec = x
    BY EntryFields, Zenon
  <2> QED BY <2>1, Zenon
<1>5. /\ call.src \in Extra => OnFile(Sh, call.src)
      /\ call.goal # "gobble" /\ call.out \in Extra => OnFile(Sh, call.out)
      /\ call.goal = "gobble" => call.src \notin Extra
  BY <1>1, <1>2 DEF GivenOK
<1>6. ASSUME pc \in InPipe, call.input # call.src
      PROVE  /\ call.input \in Extra /\ call.input # call.out
             /\ call.goal = "gobble" => call.input # call.pfd
  <2>1. PICK n \in Pipe : OnRead(Sh, call.input, n, FALSE)
    BY <1>1, <1>6 DEF EndsOK
  <2>2. call.input \in Extra /\ Sh[call.input].end = "read"
    BY <1>3, <2>1
  <2>3. CASE call.goal = "gobble"
    <3>1. PICK m \in Pipe : OnRead(Sh, call.pfd, m, TRUE) /\ OnWrite(Sh, call.out, m, TRUE)
      BY <1>1, <1>6, <2>3 DEF GivenOK
    <3>2. Sh[call.out].end = "write"
      BY <1>3, <3>1
    <3> QED BY <1>4, <2>1, <2>2, <3>1, <3>2
  <2>4. CASE call.goal # "gobble"
    BY <1>3, <1>5, <2>2, <2>4
  <2> QED BY <2>3, <2>4
<1>7. ASSUME call.goal = "gobble"
      PROVE  /\ pc \in InPipe => call.pfd # call.out /\ call.out \in Extra
             /\ pc \in InPipe \cup {"gobble"} => call.pfd \in Extra
  BY <1>1, <1>3, <1>7 DEF GivenOK
<1>8. ASSUME pc = "close", call.left > 1
      PROVE  /\ call.rd \in Extra /\ call.sink \in Extra
             /\ call.rd # call.sink /\ call.rd # call.input /\ call.sink # call.input
             /\ call.rd # call.src /\ call.rd # call.out /\ call.sink # call.src /\ call.sink # call.out
             /\ call.goal = "gobble" => call.rd # call.pfd /\ call.sink # call.pfd
  <2>1. OnRead(Sh, call.rd, call.own, FALSE) /\ OnWrite(Sh, call.sink, call.own, FALSE) /\ call.rd # call.input
    BY <1>1, <1>8 DEF EndsOK
  <2>2. pc \in InPipe
    BY <1>8 DEF InPipe
  <2>3. call.sink # call.src /\ call.rd # call.src
    BY <1>3, <1>5, <2>1
  <2>4. call.sink # call.input
    BY <1>1, <1>3, <2>1, <2>2, <2>3 DEF EndsOK
  <2>5. CASE call.goal = "gobble"
    <3>1. PICK m \in Pipe : OnRead(Sh, call.pfd, m, TRUE) /\ OnWrite(Sh, call.out, m, TRUE)
      BY <1>1, <2>2, <2>5 DEF GivenOK
    <3>2. call.rd # call.pfd /\ call.sink # call.out
      BY <1>4, <2>1, <3>1
    <3> QED BY <1>3, <2>1, <2>3, <2>4, <3>1, <3>2
  <2>6. CASE call.goal # "gobble"
    BY <1>3, <1>5, <2>1, <2>3, <2>4, <2>6
  <2> QED BY <2>5, <2>6
<1> QED BY <1>5, <1>6, <1>7, <1>8

(* A step that closes some descriptors of the shell and opens none.         *)
LEMMA Shutting ==
  ASSUME ShellOK, pc # "exited", NEW S, S \subseteq Extra, S \cap leaked = {},
         \A fd \in Fd : Sh'[fd] = IF fd \in S THEN Closed ELSE Sh[fd],
         leaked' = leaked, Held' = Held \ S, GivenOK(Sh)', EndsOK(Sh)'
  PROVE  ShellOK'
<1>1. \A fd \in Standard : Sh'[fd] = Tty
  BY StandardFd DEF ShellOK, Extra
<1>2. Open(Sh') = Open(Sh) \ S
  BY DEF Open
<1>3. \A fd \in leaked' : Sh'[fd] = Sh[fd]
  BY InvalidFd DEF ShellOK
<1>4. /\ Open(Sh) = Standard \cup leaked \cup Held /\ leaked \cap Held = {} /\ leaked \subseteq Extra
      /\ \A fd \in leaked : Sh[fd].cloexec = TRUE \/ Sh[fd].end = "read"
  BY DEF ShellOK
<1>5. Open(Sh') = Standard \cup leaked' \cup Held'
  BY <1>2, <1>4 DEF Extra
<1> QED BY <1>1, <1>3, <1>4, <1>5 DEF ShellOK

(* The copies of the ends that do_pipe closes after a fork.                 *)
Shut == (IF call.input # call.src THEN {call.input} ELSE {})
        \cup (IF call.sink # call.out \/ call.destructive THEN {call.sink} ELSE {})

LEMMA ShutTable ==
  ASSUME TypeOK, Waiting, pc = "close"
  PROVE  /\ Shut \subseteq Extra \cap Held
         /\ ClosedEnds(Sh) \in Table
         /\ \A fd \in Fd : ClosedEnds(Sh)[fd] = IF fd \in Shut THEN Closed ELSE Sh[fd]
<1>1. call \in Call /\ Sh \in Table /\ call.input \in Descriptor /\ call.sink \in Descriptor
  BY PlumbTypes, ProcFacts, CallFields DEF TablesOK, MainOK, Sh
<1>2. pc \in InPipe /\ call.left >= 1 /\ call.left \in Nat
  BY <1>1, CallFields, PipelineAssumption DEF Waiting, Goals, Budget, InPipe
<1>3. EndsOK(Sh)
  BY DEF Waiting, ShellOK
<1>4. call.left = 1 => call.sink = call.out
  BY <1>3 DEF EndsOK
<1>5. call.destructive => call.goal = "gobble"
  BY DEF Waiting, Goals, Roles
<1>6. Shut \subseteq Extra \cap Held
  <2>1. call.input # call.src => call.input \in Extra /\ call.input \in Held
    BY <1>2, Distinct DEF Waiting, Held
  <2>2. CASE call.left > 1
    BY <2>1, <2>2, Distinct DEF Waiting, Held, Shut
  <2>3. CASE call.left = 1
    BY <1>2, <1>4, <1>5, <2>1, <2>3, Distinct DEF Waiting, Held, Shut
  <2> QED BY <1>2, <2>2, <2>3
<1>7. PICK u : u = IF call.input # call.src THEN CloseAux(Sh, call.input) ELSE Sh
  OBVIOUS
<1>8. u \in Table /\ \A fd \in Fd : u[fd] = IF call.input # call.src /\ fd = call.input THEN Closed ELSE Sh[fd]
  <2>1. CASE call.input # call.src
    <3>1. call.input \in Extra
      BY <1>6, <2>1 DEF Shut
    <3> QED BY <1>1, <1>7, <2>1, <3>1, CloseAuxAny
  <2>2. CASE call.input = call.src
    BY <1>1, <1>7, <2>2
  <2> QED BY <2>1, <2>2
<1>9. ClosedEnds(Sh) = IF call.sink # call.out \/ call.destructive THEN CloseAux(u, call.sink) ELSE u
  BY <1>7 DEF ClosedEnds
<1>10. CASE call.sink # call.out \/ call.destructive
  <2>1. call.sink \in Extra
    BY <1>6, <1>10 DEF Shut
  <2>2. /\ ClosedEnds(Sh) \in Table
        /\ \A fd \in Fd : ClosedEnds(Sh)[fd] = IF fd = call.sink THEN Closed ELSE u[fd]
    BY <1>1, <1>8, <1>9, <1>10, <2>1, CloseAuxAny
  <2> QED BY <1>6, <1>8, <1>10, <2>2 DEF Shut
<1>11. CASE ~(call.sink # call.out \/ call.destructive)
  BY <1>6, <1>8, <1>9, <1>11 DEF Shut
<1> QED BY <1>10, <1>11

LEMMA CloseEndsStep ==
  ASSUME TypeOK, Waiting, CloseEnds
  PROVE  PlumbStep
<1>1. FlagOK /\ TablesOK /\ DataOK /\ KidsOK /\ MainOK /\ call \in Call
  BY PlumbTypes DEF MainOK
<1>2. /\ pc = "close" /\ made' = made /\ leaked' = leaked /\ interactive' = interactive
      /\ data' = data /\ stage' = stage /\ state' = state /\ forked' = forked
      /\ SetShell(ClosedEnds(Sh))
  BY DEF CloseEnds, Sh
<1>3. /\ Shut \subseteq Extra \cap Held
      /\ ClosedEnds(Sh) \in Table
      /\ \A fd \in Fd : ClosedEnds(Sh)[fd] = IF fd \in Shut THEN Closed ELSE Sh[fd]
  BY <1>2, ShutTable
<1>4. TablesOK' /\ Sh' = ClosedEnds(Sh)
  BY <1>1, <1>2, <1>3, SetShellTable
<1>5. /\ GivenOK(Sh) /\ EndsOK(Sh) /\ leaked \cap Held = {} /\ ShellOK
      /\ call.left \in Nat /\ call.left >= 1 /\ pc \in InPipe
  BY <1>1, <1>2, CallFields, PipelineAssumption DEF Waiting, ShellOK, Goals, Budget, InPipe
<1>6. /\ call.destructive => call.goal = "gobble"
      /\ call.goal = "gobble" => call.destructive /\ call.bg
      /\ call.left = 1 => call.sink = call.out
      /\ call.goal # "none"
  BY <1>2, <1>5 DEF Waiting, Goals, Roles, EndsOK, InPipe
<1>7. call.first \in Child
  BY <1>1, <1>2, CallFields DEF Waiting, Orders, Proc, Shell
<1>8. ASSUME NEW fd, fd \notin Shut
      PROVE  /\ OnFile(Sh, fd) => OnFile(Sh', fd)
             /\ \A n, x : OnRead(Sh, fd, n, x) => OnRead(Sh', fd, n, x)
             /\ \A n, x : OnWrite(Sh, fd, n, x) => OnWrite(Sh', fd, n, x)
  BY <1>3, <1>4, <1>8, InvalidFd DEF OnFile, OnRead, OnWrite
<1>9. CASE call.left > 1
  <2>1. pc' = "stage" /\ last' = last /\ call' = [call EXCEPT !.left = @ - 1, !.input = call.rd]
    BY <1>9 DEF CloseEnds
  <2>2. /\ call' \in Call /\ call'.left = call.left - 1 /\ call'.input = call.rd
        /\ call'.goal = call.goal /\ call'.bg = call.bg /\ call'.destructive = call.destructive
        /\ call'.src = call.src /\ call'.out = call.out /\ call'.pfd = call.pfd
        /\ call'.rd = call.rd /\ call'.own = call.own /\ call'.first = call.first
    <3>1. PICK e : e = call'
      OBVIOUS
    <3>2. PICK n \in 0 .. MaxStages : n = call.left - 1
      BY <1>1, <1>9, CallFields, PipelineAssumption
    <3>3. PICK k \in Call, r \in Descriptor : k = call /\ r = call.rd
      BY <1>1, CallFields
    <3>4. e = [k EXCEPT !.left = n, !.input = r]
      BY <2>1, <3>1, <3>2, <3>3
    <3>5. /\ e \in Call /\ e.left = n /\ e.input = r
          /\ e.goal = k.goal /\ e.bg = k.bg /\ e.destructive = k.destructive
          /\ e.src = k.src /\ e.out = k.out /\ e.pfd = k.pfd
          /\ e.rd = k.rd /\ e.own = k.own /\ e.first = k.first
      BY ONLY <3>4, k \in Call, r \in Descriptor, n \in 0 .. MaxStages DEF Call
    <3> QED BY <3>1, <3>2, <3>3, <3>5
  <2>3. TypeOK'
    BY <1>1, <1>2, <1>4, <2>1, <2>2, PlumbTypes DEF FlagOK, DataOK, KidsOK, MainOK
  <2>4. Roles'
    BY <1>2, <1>6, <2>1, <2>2, Zenon DEF Waiting, Goals, Roles, InPipe
  <2>5. Budget'
    BY <1>1, <1>2, <1>5, <1>9, <2>1, <2>2, DescriptorAssumption
       DEF Waiting, Goals, Budget, InPipe, MainOK
  <2>6. Orders'
    BY <1>2, <1>5, <1>9, <2>1, <2>2 DEF Waiting, Orders, EndsOK, InPipe
  <2>7. /\ call.rd # call.sink /\ call.rd # call.input /\ call.sink # call.input
        /\ call.rd # call.src /\ call.rd # call.out /\ call.sink # call.src /\ call.sink # call.out
        /\ call.goal = "gobble" => call.rd # call.pfd /\ call.sink # call.pfd
        /\ call.input # call.src => call.input # call.out
        /\ call.goal = "gobble" /\ call.input # call.src => call.input # call.pfd
    BY <1>2, <1>5, <1>9, Distinct
  <2>8. Shut = (IF call.input # call.src THEN {call.input} ELSE {}) \cup {call.sink}
    BY <2>7 DEF Shut
  <2>9. Held' = Held \ Shut
    BY <1>2, <1>9, <2>1, <2>2, <2>7, <2>8 DEF Held, InPipe
  <2>10. GivenOK(Sh)'
    BY <1>2, <1>5, <1>8, <2>1, <2>2, <2>7, <2>8 DEF GivenOK, InPipe
  <2>11. EndsOK(Sh)'
    <3>1. OnRead(Sh, call.rd, call.own, FALSE) /\ call.own # 0 /\ call.rd \notin Shut
      BY <1>2, <1>5, <1>9, <2>7, <2>8 DEF EndsOK
    <3>2. OnRead(Sh', call.rd, call.own, FALSE) /\ call.own \in Pipe
      BY <1>1, <1>8, <3>1, CallFields
    <3> QED BY <2>1, <2>2, <2>7, <3>1, <3>2 DEF EndsOK
  <2>12. ShellOK'
    BY <1>2, <1>3, <1>4, <1>5, <2>9, <2>10, <2>11, Shutting
  <2> QED BY <2>3, <2>4, <2>5, <2>6, <2>12 DEF PlumbStep, Waiting, Goals
<1>10. CASE call.left = 1
  <2>1. /\ pc' = IF ~call.bg THEN "wait" ELSE IF call.goal = "gobble" THEN "gobble" ELSE "return"
        /\ call' = [call EXCEPT !.left = 0] /\ last' = [last EXCEPT ![call.first] = forked]
    BY <1>10 DEF CloseEnds
  <2>2. /\ call' \in Call /\ call'.left = 0
        /\ call'.goal = call.goal /\ call'.bg = call.bg /\ call'.destructive = call.destructive
        /\ call'.src = call.src /\ call'.out = call.out /\ call'.pfd = call.pfd
    BY <1>1, <2>1, EndCall, Zenon
  <2>3. pc' \in {"wait", "gobble", "return"}
    BY <2>1
  <2>4. TypeOK'
    BY <1>1, <1>2, <1>4, <1>7, <2>1, <2>2, <2>3, PlumbTypes DEF FlagOK, DataOK, KidsOK, MainOK
  <2>5. Roles'
    BY <1>6, <2>1, <2>2, <2>3, Zenon DEF Roles, InPipe
  <2>6. Budget' /\ EndsOK(Sh)'
    BY <2>3 DEF Budget, InPipe, EndsOK
  <2>7. Orders'
    BY <1>2, <2>3 DEF Waiting, Orders, InPipe
  <2>8. call.goal = "gobble" <=> pc' = "gobble"
    BY <1>6, <2>1
  <2>9. /\ call.src # call.out \/ call.src = Invalid
        /\ call.input # call.src => call.input # call.out
        /\ call.goal = "gobble" => call.pfd # call.out
        /\ call.goal = "gobble" /\ call.input # call.src => call.input # call.pfd
        /\ call.input # call.src => call.input \in Extra
        /\ call.src \in Extra => call.goal = "parse"
        /\ call.goal # "gobble" /\ call.out \in Extra => call.goal = "parse"
    <3>1. 0 \notin Extra /\ 1 \notin Extra /\ Invalid \notin Extra
      BY StandardFd, InvalidFd DEF Extra, Standard
    <3> QED BY <1>2, <1>5, <3>1, Distinct DEF GivenOK
  <2>10. Shut = (IF call.input # call.src THEN {call.input} ELSE {})
                \cup (IF call.goal = "gobble" THEN {call.out} ELSE {})
    BY <1>6, <1>10 DEF Shut
  <2>11. Held' = Held \ Shut
    <3>1. Held = (IF call.goal = "parse" THEN {call.src, call.out} \cap Extra ELSE {})
                 \cup (IF call.goal = "gobble" THEN {call.pfd, call.out} ELSE {})
                 \cup (IF call.input # call.src THEN {call.input} ELSE {})
      BY <1>2, <1>10 DEF Held, InPipe
    <3>2. Held' = (IF call.goal = "parse" THEN {call.src, call.out} \cap Extra ELSE {})
                  \cup (IF call.goal = "gobble" THEN {call.pfd} ELSE {})
      BY <2>2, <2>3, <2>8 DEF Held, InPipe
    <3> QED BY <2>9, <2>10, <3>1, <3>2
  <2>12. GivenOK(Sh)'
    <3>1. pc' = "gobble" => call'.out \in Extra /\ Sh'[call'.out] = Closed
      BY <1>3, <1>4, <2>2, <2>8, <2>10, InvalidFd
    <3> QED BY <1>2, <1>5, <1>8, <2>2, <2>3, <2>9, <2>10, <3>1 DEF GivenOK, InPipe
  <2>13. ShellOK'
    BY <1>2, <1>3, <1>4, <1>5, <2>6, <2>11, <2>12, Shutting
  <2> QED BY <2>4, <2>5, <2>6, <2>7, <2>13 DEF PlumbStep, Waiting, Goals
<1> QED BY <1>5, <1>9, <1>10

LEMMA NullCommandStep ==
  ASSUME TypeOK, Waiting, NullCommand
  PROVE  PlumbStep
<1>1. FlagOK /\ TablesOK /\ DataOK /\ KidsOK /\ MainOK /\ call \in Call
  BY PlumbTypes DEF MainOK
<1> DEFINE Lost == (IF call.first # 0 THEN {call.input} ELSE {})
                   \cup (IF call.goal = "gobble" THEN {call.pfd, call.out} ELSE {})
<1>2. /\ pc = "stage" /\ pc' = "return" /\ leaked' = leaked \cup Lost /\ table' = table
      /\ interactive' = interactive /\ data' = data /\ stage' = stage /\ state' = state
      /\ last' = last /\ forked' = forked /\ made' = made /\ call' = call
  BY DEF NullCommand, children
<1>3. /\ GivenOK(Sh) /\ EndsOK(Sh) /\ leaked \cap Held = {} /\ ShellOK
      /\ pc \in InPipe /\ (call.first # 0 <=> call.input # call.src)
  BY <1>2 DEF Waiting, ShellOK, Orders, EndsOK, InPipe
<1>4. /\ call.src \in Extra => call.goal # "gobble"
      /\ call.input # call.src => call.input \in Extra /\ call.input # call.out
      /\ call.goal = "gobble" => call.pfd \in Extra /\ call.out \in Extra
  BY <1>2, <1>3, Distinct
<1>5. Lost \subseteq Extra
  BY <1>3, <1>4
<1>6. \A fd \in Lost : Sh[fd].cloexec = TRUE \/ Sh[fd].end = "read"
  <2>1. call.input # call.src => Sh[call.input].end = "read"
    BY <1>3, EntryFields DEF EndsOK
  <2>2. call.goal = "gobble" => Sh[call.pfd].end = "read" /\ Sh[call.out].cloexec = TRUE
    <3>1. ASSUME call.goal = "gobble"
          PROVE  \E n \in Pipe : OnRead(Sh, call.pfd, n, TRUE) /\ OnWrite(Sh, call.out, n, TRUE)
      BY <1>3, <3>1 DEF GivenOK
    <3>2. /\ \A fd, n, x : OnRead(Sh, fd, n, x) => Sh[fd].end = "read"
          /\ \A fd, n, x : OnWrite(Sh, fd, n, x) => Sh[fd].cloexec = x
      BY EntryFields, Zenon
    <3> QED BY <3>1, <3>2, Zenon
  <2> QED BY <1>3, <2>1, <2>2
<1>7. Held = Held' \cup Lost /\ Held' \cap Lost = {}
  <2>1. Held = (IF call.goal = "parse" THEN {call.src, call.out} \cap Extra ELSE {}) \cup Lost
    BY <1>2, <1>3 DEF Held, InPipe
  <2>2. Held' = (IF call.goal = "parse" THEN {call.src, call.out} \cap Extra ELSE {})
    BY <1>2 DEF Held, InPipe
  <2> QED BY <1>3, <1>4, <2>1, <2>2
<1>8. TypeOK'
  BY <1>1, <1>2, <1>5, InvalidFd, PlumbTypes DEF FlagOK, TablesOK, DataOK, KidsOK, MainOK
<1>9. Goals' /\ Orders'
  BY <1>2 DEF Waiting, Goals, Roles, Budget, Orders, InPipe
<1>10. Sh' = Sh
  BY <1>2 DEF Sh
<1>11. GivenOK(Sh)' /\ EndsOK(Sh)'
  BY <1>2, <1>3, <1>10 DEF GivenOK, EndsOK, InPipe
<1> HIDE DEF Lost
<1>12. ShellOK'
  BY <1>2, <1>5, <1>6, <1>7, <1>10, <1>11 DEF Waiting, ShellOK, Open
<1> QED BY <1>8, <1>9, <1>12 DEF PlumbStep, Waiting

LEMMA ReturnStep ==
  ASSUME TypeOK, Waiting, Return
  PROVE  PlumbStep
<1>1. FlagOK /\ TablesOK /\ DataOK /\ KidsOK /\ MainOK /\ call \in Call
  BY PlumbTypes DEF MainOK
<1>2. /\ pc = "return" /\ pc' = "eval" /\ leaked' = leaked /\ SetShell(ClosedFiles(Sh))
      /\ interactive' = interactive /\ data' = data /\ stage' = stage /\ state' = state
      /\ last' = last /\ forked' = forked /\ made' = made /\ call' = NoCall
  BY DEF Return, children, Sh
<1>3. Sh \in Table /\ call.src \in Descriptor /\ call.out \in Descriptor
  BY <1>1, ProcFacts, CallFields DEF TablesOK, Sh
<1>4. /\ ClosedFiles(Sh) \in Table
      /\ \A fd \in Fd : ClosedFiles(Sh)[fd] = IF fd \in Held THEN Closed ELSE Sh[fd]
  <2>1. Held = IF call.goal = "parse" THEN {call.src, call.out} \cap Extra ELSE {}
    BY <1>2 DEF Held, InPipe
  <2>2. CASE call.goal = "parse"
    <3>1. PICK u : u = CloseAux(Sh, call.src)
      OBVIOUS
    <3>2. PICK v : v = CloseAux(u, call.out)
      OBVIOUS
    <3>3. u \in Table /\ \A fd \in Fd : u[fd] = IF fd = call.src /\ fd \in Extra THEN Closed ELSE Sh[fd]
      BY <1>3, <3>1, CloseAuxAny
    <3>4. v \in Table /\ \A fd \in Fd : v[fd] = IF fd = call.out /\ fd \in Extra THEN Closed ELSE u[fd]
      BY <1>3, <3>2, <3>3, CloseAuxAny
    <3>5. ClosedFiles(Sh) = v
      BY <2>2, <3>1, <3>2 DEF ClosedFiles
    <3> QED BY <2>1, <2>2, <3>3, <3>4, <3>5
  <2>3. CASE call.goal # "parse"
    BY <1>3, <2>1, <2>3 DEF ClosedFiles
  <2> QED BY <2>2, <2>3
<1>5. TablesOK' /\ Sh' = ClosedFiles(Sh)
  BY <1>1, <1>2, <1>4, SetShellTable
<1>6. TypeOK'
  BY <1>1, <1>2, <1>5, NoCallType, PlumbTypes DEF FlagOK, DataOK, KidsOK, MainOK
<1>7. Roles'
  BY <1>2, NoCallType, Zenon DEF Roles, InPipe, NoCall
<1>8. Budget' /\ Orders'
  BY <1>2 DEF Waiting, Budget, Orders, InPipe
<1>9. Held' = {}
  BY <1>2, NoCallType DEF Held, InPipe
<1>10. GivenOK(Sh)' /\ EndsOK(Sh)'
  BY <1>2 DEF GivenOK, EndsOK, InPipe, NoCall
<1>11. Held \subseteq Extra /\ Held \cap leaked = {} /\ ShellOK
  BY <1>2 DEF Waiting, ShellOK, Held, InPipe
<1>12. Held' = Held \ Held
  BY <1>9
<1>13. PICK S : S = Held
  OBVIOUS
<1>14. ShellOK'
  BY <1>2, <1>4, <1>5, <1>10, <1>11, <1>12, <1>13, Shutting
<1> QED BY <1>6, <1>7, <1>8, <1>14 DEF PlumbStep, Waiting, Goals

LEMMA GobbleReadStep ==
  ASSUME TypeOK, Waiting, GobbleRead
  PROVE  PlumbStep
<1>1. FlagOK /\ TablesOK /\ DataOK /\ KidsOK /\ MainOK /\ call \in Call
  BY PlumbTypes DEF MainOK
<1>2. PICK n : n = Sh[call.pfd].of
  OBVIOUS
<1>3. /\ pc = "gobble" /\ data[n] > 0 /\ data' = [data EXCEPT ![n] = @ - 1] /\ table' = table
      /\ stage' = stage /\ state' = state /\ last' = last /\ interactive' = interactive
      /\ forked' = forked /\ made' = made /\ pc' = pc /\ call' = call /\ leaked' = leaked
  BY <1>2 DEF GobbleRead, ReadGives, children, shellState, Sh
<1>4. n \in Pipe
  <2>1. PICK m \in Pipe : OnRead(Sh, call.pfd, m, TRUE)
    BY <1>3 DEF Waiting, Goals, Roles, ShellOK, GivenOK
  <2> QED BY <1>2, <2>1, EntryFields
<1>5. DataOK'
  BY <1>1, <1>3, <1>4, PipelineAssumption DEF DataOK
<1>6. TypeOK'
  BY <1>1, <1>3, <1>5, PlumbTypes DEF FlagOK, TablesOK, KidsOK, MainOK
<1>7. Goals' /\ Orders'
  BY <1>3 DEF Waiting, Goals, Roles, Budget, Orders
<1>8. ShellOK'
  BY <1>3 DEF Waiting, ShellOK, Sh, Open, Held, GivenOK, EndsOK
<1> QED BY <1>6, <1>7, <1>8 DEF PlumbStep, Waiting

LEMMA GobbleEndStep ==
  ASSUME TypeOK, Waiting, GobbleEnd
  PROVE  PlumbStep
<1>1. FlagOK /\ TablesOK /\ DataOK /\ KidsOK /\ MainOK /\ call \in Call
  BY PlumbTypes DEF MainOK
<1>2. PICK u : u = Close(Close(Sh, call.pfd), call.out)
  OBVIOUS
<1>3. /\ pc = "gobble" /\ pc' = "return" /\ leaked' = leaked /\ SetShell(u)
      /\ interactive' = interactive /\ data' = data /\ stage' = stage /\ state' = state
      /\ last' = last /\ forked' = forked /\ made' = made /\ call' = call
  BY <1>2 DEF GobbleEnd, children, Sh
<1>4. call.goal = "gobble" /\ GivenOK(Sh) /\ ShellOK /\ Sh \in Table
  BY <1>1, <1>3, ProcFacts DEF Waiting, Goals, Roles, ShellOK, TablesOK, Sh
<1>5. call.pfd \in Extra /\ call.out \in Extra /\ Sh[call.out] = Closed
  BY <1>3, <1>4, Distinct DEF GivenOK
<1>6. u \in Table /\ \A fd \in Fd : u[fd] = IF fd \in {call.pfd} THEN Closed ELSE Sh[fd]
  <2>1. PICK v : v = Close(Sh, call.pfd)
    OBVIOUS
  <2>2. v \in Table /\ \A fd \in Fd : v[fd] = IF fd = call.pfd THEN Closed ELSE Sh[fd]
    BY <1>4, <1>5, <2>1, InvalidFd, EntryTypes DEF Close, Table
  <2>3. u \in Table /\ \A fd \in Fd : u[fd] = IF fd = call.out THEN Closed ELSE v[fd]
    BY <1>2, <1>5, <2>1, <2>2, InvalidFd, EntryTypes DEF Close, Table
  <2> QED BY <1>5, <2>2, <2>3
<1>7. TablesOK' /\ Sh' = u
  BY <1>1, <1>3, <1>6, SetShellTable
<1>8. TypeOK'
  BY <1>1, <1>3, <1>7, PlumbTypes DEF FlagOK, DataOK, KidsOK, MainOK
<1>9. Goals' /\ Orders'
  BY <1>3 DEF Waiting, Goals, Roles, Budget, Orders, InPipe
<1>10. Held = {call.pfd} /\ Held' = {}
  BY <1>3, <1>4 DEF Held, InPipe
<1>11. GivenOK(Sh)' /\ EndsOK(Sh)'
  <2>1. call.src \in {0, Invalid}
    BY <1>4 DEF GivenOK
  <2>2. call.src # call.out
    BY <1>5, <2>1, StandardFd, InvalidFd DEF Extra, Standard
  <2> QED BY <1>3, <1>4, <2>1, <2>2 DEF GivenOK, EndsOK, InPipe
<1>12. Held' = Held \ {call.pfd} /\ {call.pfd} \cap leaked = {}
  BY <1>3, <1>4, <1>10 DEF ShellOK
<1>13. PICK S : S = {call.pfd}
  OBVIOUS
<1>14. ShellOK'
  BY <1>3, <1>4, <1>5, <1>6, <1>7, <1>11, <1>12, <1>13, Shutting
<1> QED BY <1>8, <1>9, <1>14 DEF PlumbStep, Waiting

-----------------------------------------------------------------------------
(* The forks.                                                               *)

(* The first child of the job that the stage forked next belongs to.        *)
First(c) == IF call.first = 0 THEN c ELSE call.first

LEMMA Forks ==
  ASSUME TypeOK, Waiting, pc = "stage", NEW c \in Child, NEW t \in Table,
         NEW sink \in Descriptor, NEW to \in {0} \cup Pipe, ForkStage(c, t, sink, to)
  PROVE  /\ c = forked + 1 /\ forked' = c /\ pc' = "close" /\ interactive' = interactive
         /\ data' = data /\ last' = last /\ leaked' = leaked
         /\ TablesOK' /\ KidsOK' /\ Sh' = t
         /\ table'[c] = t /\ state'[c] = "forked"
         /\ stage'[c].in = call.input /\ stage'[c].out = sink
         /\ stage'[c].from = call.own /\ stage'[c].to = to /\ stage'[c].job = First(c)
         /\ \A d \in Child \ {c} : table'[d] = table[d] /\ stage'[d] = stage[d] /\ state'[d] = state[d]
<1>1. FlagOK /\ TablesOK /\ DataOK /\ KidsOK /\ MainOK /\ call \in Call
  BY PlumbTypes DEF MainOK
<1>2. PICK s : s = [in |-> call.input, out |-> sink, from |-> call.own, to |-> to, job |-> First(c)]
  OBVIOUS
<1>3. /\ c = forked + 1 /\ forked' = c /\ pc' = "close" /\ interactive' = interactive
      /\ data' = data /\ last' = last /\ leaked' = leaked
      /\ table' = [table EXCEPT ![Shell] = t, ![c] = t]
      /\ state' = [state EXCEPT ![c] = "forked"] /\ stage' = [stage EXCEPT ![c] = s]
  BY <1>2 DEF ForkStage, First
<1>4. /\ s \in Stage /\ s.in = call.input /\ s.out = sink
      /\ s.from = call.own /\ s.to = to /\ s.job = First(c)
  <2>1. First(c) \in Proc /\ call.input \in Descriptor /\ call.own \in {0} \cup Pipe
    BY <1>1, CallFields, ProcFacts DEF First
  <2> QED BY <1>2, <2>1 DEF Stage
<1>5. TablesOK' /\ Sh' = t /\ table'[c] = t /\ \A d \in Child \ {c} : table'[d] = table[d]
  BY <1>1, <1>3, ProcFacts DEF TablesOK, Sh
<1>6. /\ KidsOK' /\ state'[c] = "forked" /\ stage'[c] = s
      /\ \A d \in Child \ {c} : stage'[d] = stage[d] /\ state'[d] = state[d]
  <2>1. "forked" \in State
    BY DEF State
  <2> QED BY <1>1, <1>3, <1>4, <2>1 DEF KidsOK
<1> QED BY <1>3, <1>4, <1>5, <1>6

(* A fork extends the order of the children by one stage, which reads what  *)
(* the stage before it writes.                                              *)
LEMMA ForkOrders ==
  ASSUME TypeOK, Waiting, pc = "stage", NEW c \in Child, NEW t \in Table,
         NEW sink \in Descriptor, NEW to \in {0} \cup Pipe, ForkStage(c, t, sink, to),
         call'.first = First(c), call'.left > 1 => call'.own = to
  PROVE  Orders'
<1>1. FlagOK /\ TablesOK /\ DataOK /\ KidsOK /\ MainOK /\ call \in Call
  BY PlumbTypes DEF MainOK
<1>2. /\ c = forked + 1 /\ forked' = c /\ pc' = "close" /\ state'[c] = "forked"
      /\ stage'[c].from = call.own /\ stage'[c].to = to /\ stage'[c].job = First(c)
      /\ \A d \in Child \ {c} : stage'[d] = stage[d] /\ state'[d] = state[d]
  BY Forks
<1>3. Orders /\ forked \in Nat /\ c >= 1 /\ \A d \in Child : d \in Nat /\ d >= 1
  BY <1>1, ProcFacts DEF Waiting, KidsOK
<1>4. First(c) # 0 /\ First(c) \in 1 .. c
  <2>1. call.first # 0 => forked \in Child /\ stage[forked].job = call.first /\ call.first \in 1 .. forked
    BY <1>1, <1>3 DEF Orders, InPipe, KidsOK
  <2> QED BY <1>2, <1>3, <2>1 DEF First
<1>5. ASSUME NEW d \in Child, d > forked'
      PROVE  state'[d] = "free" /\ stage'[d] = NoStage
  BY <1>2, <1>3, <1>5 DEF Orders
<1>6. ASSUME NEW d \in Child, d <= forked'
      PROVE  stage'[d].job \in 1 .. d
  <2>1. CASE d = c
    BY <1>2, <1>4, <2>1
  <2>2. CASE d # c
    <3>1. d <= forked
      BY <1>2, <1>3, <1>6, <2>2
    <3> QED BY <1>2, <1>3, <2>2, <3>1 DEF Orders
  <2> QED BY <2>1, <2>2
<1>7. ASSUME NEW b \in Child, NEW d \in Child, d = b + 1, d <= forked', stage'[b].job = stage'[d].job
      PROVE  stage'[d].from = stage'[b].to
  <2>1. b # c /\ b <= forked
    <3>1. forked \in Nat /\ b \in Nat /\ c = forked + 1 /\ b + 1 <= c
      BY <1>2, <1>3, <1>7
    <3> QED BY ONLY <3>1
  <2>2. stage'[b] = stage[b] /\ stage[b].job \in 1 .. b
    BY <1>2, <1>3, <2>1 DEF Orders
  <2>3. CASE d = c
    <3>1. b = forked
      BY <1>2, <1>3, <1>7, <2>3
    <3>2. First(c) # c
      BY <1>2, <1>3, <1>7, <2>1, <2>2, <2>3
    <3>3. call.first # 0
      BY <3>2 DEF First
    <3> QED BY <1>2, <1>3, <2>2, <2>3, <3>1, <3>3 DEF Orders
  <2>4. CASE d # c
    <3>1. d <= forked /\ stage'[d] = stage[d]
      BY <1>2, <1>3, <1>7, <2>4
    <3> QED BY <1>3, <1>7, <2>2, <3>1 DEF Orders
  <2> QED BY <2>3, <2>4
<1> QED BY <1>2, <1>3, <1>4, <1>5, <1>6, <1>7 DEF Orders, InPipe

(* What a child inherits from the shell, for the stage that do_pipe means.  *)
LEMMA Inherits ==
  ASSUME TypeOK, Waiting, pc = "stage", NEW c \in Child, NEW t \in Table,
         NEW sink \in Descriptor, NEW to \in {0} \cup Pipe, ForkStage(c, t, sink, to),
         \A fd \in Fd : Sh[fd] # Closed => t[fd] = Sh[fd],
         \A fd \in Fd : Sh[fd] = Closed /\ t[fd] # Closed =>
           fd = sink \/ (t[fd].end = "read" /\ t[fd].of = to),
         to = 0 => sink \in {1, Invalid} \/ OnFile(t, sink),
         to # 0 => \E x \in BOOLEAN : OnWrite(t, sink, to, x),
         sink = call.input => sink = Invalid
  PROVE  ForkedOK(t, stage'[c])
<1>1. FlagOK /\ TablesOK /\ DataOK /\ KidsOK /\ MainOK /\ call \in Call
  BY PlumbTypes DEF MainOK
<1>2. /\ leaked' = leaked /\ table'[c] = t
      /\ stage'[c].in = call.input /\ stage'[c].out = sink
      /\ stage'[c].from = call.own /\ stage'[c].to = to
  BY Forks
<1>3. /\ \A fd \in Standard : Sh[fd] = Tty
      /\ Open(Sh) = Standard \cup leaked \cup Held
      /\ \A fd \in leaked : Sh[fd].cloexec = TRUE \/ Sh[fd].end = "read"
      /\ GivenOK(Sh) /\ EndsOK(Sh) /\ leaked \subseteq Extra
  BY DEF Waiting, ShellOK
<1>4. \A fd \in Standard : t[fd] = Tty
  BY <1>3, StandardFd, EntryTypes
<1>5. ASSUME NEW fd \in Extra, Sh[fd] # Closed
      PROVE  t[fd] = Sh[fd]
  BY <1>5, InvalidFd
<1>6. IF call.own = 0 THEN call.input \in {0, Invalid} \/ OnFile(t, call.input)
      ELSE OnRead(t, call.input, call.own, FALSE)
  <2>1. CASE call.own = 0
    <3>1. call.input \in {0, Invalid} \/ OnFile(Sh, call.input)
      BY <1>3, <2>1 DEF GivenOK, EndsOK
    <3>2. OnFile(Sh, call.input) => OnFile(t, call.input)
      <4>1. OnFile(Sh, call.input) => call.input \in Extra /\ Sh[call.input] # Closed
        BY EntryFields
      <4> QED BY <1>5, <4>1 DEF OnFile
    <3> QED BY <2>1, <3>1, <3>2
  <2>2. CASE call.own # 0
    <3>1. OnRead(Sh, call.input, call.own, FALSE)
      BY <1>3, <2>2 DEF EndsOK
    <3>2. call.input \in Extra /\ Sh[call.input] # Closed
      BY <3>1, EntryFields
    <3>3. t[call.input] = Sh[call.input]
      BY <1>5, <3>2
    <3> QED BY <2>2, <3>1, <3>3 DEF OnRead
  <2> QED BY <2>1, <2>2
<1>7. ASSUME NEW fd \in Held
      PROVE  fd = call.input \/ Sh[fd].cloexec = TRUE
  <2>1. CASE call.goal = "parse" /\ fd \in {call.src, call.out} \cap Extra
    <3>1. OnFile(Sh, fd)
      BY <2>1, Distinct DEF Waiting
    <3> QED BY <3>1, EntryFields
  <2>2. CASE call.goal = "gobble" /\ fd \in {call.pfd, call.out}
    <3>1. PICK n \in Pipe : OnRead(Sh, call.pfd, n, TRUE) /\ OnWrite(Sh, call.out, n, TRUE)
      BY <1>3, <2>2 DEF GivenOK, InPipe
    <3>2. Sh[call.pfd].cloexec = TRUE /\ Sh[call.out].cloexec = TRUE
      BY <3>1 DEF OnRead, OnWrite
    <3> QED BY <2>2, <3>1, <3>2
  <2> QED BY <2>1, <2>2, <1>7 DEF Held, InPipe
<1>8. ASSUME NEW fd \in Extra, t[fd] # Closed
      PROVE  \/ fd \in {call.input, sink}
             \/ t[fd].cloexec = TRUE
             \/ t[fd].end = "read" /\ (t[fd].of = to \/ fd \in leaked)
  <2>1. CASE Sh[fd] = Closed
    BY <1>8, <2>1, InvalidFd
  <2>2. CASE Sh[fd] # Closed
    <3>1. t[fd] = Sh[fd] /\ fd \in Open(Sh)
      BY <1>5, <2>2, InvalidFd DEF Open
    <3>2. fd \in leaked \/ fd \in Held
      BY <1>3, <1>8, <3>1 DEF Extra
    <3> QED BY <1>3, <1>7, <3>1, <3>2
  <2> QED BY <2>1, <2>2
<1> QED BY <1>2, <1>4, <1>6, <1>8 DEF ForkedOK

-----------------------------------------------------------------------------
(* What the properties say of one child, and of two neighbours.             *)

OwnEnds(c) ==
  Running(c) =>
    \A fd \in Open(table[c]) :
      LET e == table[c][fd] IN
      /\ e.end = "write" => fd = 1 /\ e.of = stage[c].to
      /\ e.end = "read"  => \/ fd = 0 /\ e.of = stage[c].from
                            \/ e.of = stage[c].to
                            \/ fd \in leaked
Plugged(c) ==
  Running(c) =>
    /\ IF stage[c].from = 0 THEN ~Piped(Input(c))
       ELSE Input(c).end = "read" /\ Input(c).of = stage[c].from
    /\ IF stage[c].to = 0 THEN ~Piped(Output(c))
       ELSE Output(c).end = "write" /\ Output(c).of = stage[c].to
Kid(c) ==
  /\ state[c] = "forked" => ForkedOK(table[c], stage[c])
  /\ OwnEnds(c) /\ Plugged(c)
Linked ==
  \A c \in Child : \A d \in Members(stage[c].job) :
    c + 1 = d /\ stage[c].job # 0 => stage[d].from = stage[c].to

LEMMA KidParts ==
  /\ ChildrenOK /\ HoldsOnlyItsEnds /\ Connected <=> Linked /\ \A c \in Child : Kid(c)
  /\ ChildrenOK' /\ HoldsOnlyItsEnds' /\ Connected' <=> Linked' /\ \A c \in Child : Kid(c)'
<1>1. ChildrenOK /\ HoldsOnlyItsEnds /\ Connected <=> Linked /\ \A c \in Child : Kid(c)
  BY Zenon DEF ChildrenOK, HoldsOnlyItsEnds, Connected, Linked, Kid, OwnEnds, Plugged
<1>2. ChildrenOK' /\ HoldsOnlyItsEnds' /\ Connected' <=> Linked' /\ \A c \in Child : Kid(c)'
  BY Zenon DEF ChildrenOK, HoldsOnlyItsEnds, Connected, Linked, Kid, OwnEnds, Plugged
<1> QED BY <1>1, <1>2

LEMMA KidKept ==
  ASSUME NEW c \in Child, Kid(c), table'[c] = table[c], stage'[c] = stage[c],
         state'[c] = state[c], leaked \subseteq leaked'
  PROVE  Kid(c)'
<1>1. state'[c] = "forked" => ForkedOK(table[c], stage[c])'
  BY DEF Kid, ForkedOK
<1>2. OwnEnds(c)'
  BY DEF Kid, OwnEnds, Running
<1>3. Plugged(c)'
  BY DEF Kid, Plugged, Running, Input, Output, Piped
<1> QED BY <1>1, <1>2, <1>3 DEF Kid

(* A child that does not run holds nothing that matters.                    *)
LEMMA KidIdle ==
  ASSUME NEW c \in Child, state'[c] \in {"free", "ended"}
  PROVE  Kid(c)'
BY DEF Kid, OwnEnds, Plugged, Running, Programs

LEMMA Links ==
  ASSUME Orders', KidsOK'
  PROVE  Linked'
<1>1. SUFFICES ASSUME NEW c \in Child, NEW d \in Child, stage'[d].job = stage'[c].job,
                      c + 1 = d, stage'[c].job # 0
               PROVE  stage'[d].from = stage'[c].to
  BY DEF Linked, Members
<1>2. NoStage.job = 0
  BY DEF NoStage
<1>3. d <= forked'
  BY <1>1, <1>2, ProcFacts DEF Orders, KidsOK
<1> QED BY <1>1, <1>3 DEF Orders

LEMMA ForkChildren ==
  ASSUME TypeOK, Waiting, Children, pc = "stage", NEW c \in Child, NEW t \in Table,
         NEW sink \in Descriptor, NEW to \in {0} \cup Pipe, ForkStage(c, t, sink, to),
         Orders', ForkedOK(t, stage'[c])
  PROVE  Children'
<1>1. /\ leaked' = leaked /\ state'[c] = "forked" /\ KidsOK' /\ table'[c] = t
      /\ \A d \in Child \ {c} : table'[d] = table[d] /\ stage'[d] = stage[d] /\ state'[d] = state[d]
  BY Forks
<1>2. Kid(c)'
  <2>1. ForkedOK(table[c], stage[c])'
    BY <1>1 DEF ForkedOK
  <2> QED BY <1>1, <2>1 DEF Kid, OwnEnds, Plugged, Running, Programs
<1>3. ASSUME NEW d \in Child, d # c
      PROVE  Kid(d)'
  BY <1>1, <1>3, KidParts, KidKept DEF Children
<1>4. Linked'
  BY <1>1, Links
<1> QED BY <1>2, <1>3, <1>4, KidParts, Zenon DEF Children

LEMMA InputOpen ==
  ASSUME ShellOK, pc = "stage"
  PROVE  call.input \in Extra => Sh[call.input] # Closed
<1>1. call.input \in Extra /\ call.input = call.src => OnFile(Sh, call.input)
  BY Distinct
<1>2. call.input # call.src => Sh[call.input] # Closed
  BY EntryFields DEF ShellOK, EndsOK
<1> QED BY <1>1, <1>2, EntryFields

LEMMA ForkPipedStep ==
  ASSUME TypeOK, Waiting, Children, NEW c \in Child, ForkPiped(c)
  PROVE  PlumbStep /\ Children'
<1>1. FlagOK /\ TablesOK /\ DataOK /\ KidsOK /\ MainOK /\ call \in Call
  BY PlumbTypes DEF MainOK
<1>2. /\ pc = "stage" /\ call.left > 1 /\ Cardinality(Free(Sh)) >= 2 /\ made' = made + 1
      /\ pc \in InPipe
  BY DEF ForkPiped, Sh, InPipe
<1>3. PICK m \in Pipe : m = made + 1
  <2>1. call.left \in Nat
    BY <1>1, CallFields, PipelineAssumption
  <2> QED BY <1>1, <1>2, <2>1, DescriptorAssumption DEF MainOK, Pipe, Waiting, Goals, Budget
<1>4. PICK no \in BOOLEAN : no = FALSE
  OBVIOUS
<1>5. PICK r, w, u : r = Lowest(Sh) /\ w = Lowest(Install(Sh, "read", m, no)) /\ u = NewPipe(Sh, m, no)
  OBVIOUS
<1>6. /\ ForkStage(c, u, w, m)
      /\ call' = [call EXCEPT !.rd = r, !.sink = w, !.own = m, !.first = First(c)]
  BY <1>3, <1>4, <1>5 DEF ForkPiped, Sh, First
<1>7. /\ \A fd \in Standard : Sh[fd] = Tty
      /\ Open(Sh) = Standard \cup leaked \cup Held /\ leaked \cap Held = {}
      /\ \A fd \in leaked : Sh[fd].cloexec = TRUE \/ Sh[fd].end = "read"
      /\ GivenOK(Sh) /\ EndsOK(Sh) /\ leaked \subseteq Extra /\ Sh \in Table
  BY <1>1, <1>2, ProcFacts DEF Waiting, ShellOK, Sh, TablesOK
<1>8. /\ u \in Table /\ OnRead(u, r, m, no) /\ OnWrite(u, w, m, no) /\ r # w
      /\ r \in Extra /\ w \in Extra /\ Sh[r] = Closed /\ Sh[w] = Closed
      /\ u[r] # Closed /\ u[w] # Closed
      /\ \A fd \in Fd \ {r, w} : u[fd] = Sh[fd]
  BY <1>2, <1>5, <1>7, ShellPipe
<1>9. w \in Descriptor /\ r \in Descriptor /\ m \in {0} \cup Pipe /\ m # 0
  BY <1>8, InvalidFd DEF Descriptor, Pipe
<1>10. /\ c = forked + 1 /\ forked' = c /\ pc' = "close" /\ interactive' = interactive
       /\ data' = data /\ last' = last /\ leaked' = leaked /\ TablesOK' /\ KidsOK' /\ Sh' = u
  BY <1>2, <1>6, <1>8, <1>9, Forks
<1>11. /\ call' \in Call /\ call'.rd = r /\ call'.sink = w /\ call'.own = m /\ call'.first = First(c)
       /\ call'.goal = call.goal /\ call'.left = call.left /\ call'.bg = call.bg
       /\ call'.destructive = call.destructive /\ call'.input = call.input
       /\ call'.src = call.src /\ call'.out = call.out /\ call'.pfd = call.pfd
  <2>1. PICK f \in Proc : f = First(c)
    BY <1>1, CallFields, ProcFacts DEF First
  <2>2. PICK k \in Call : k = call
    BY <1>1
  <2>3. PICK e : e = call'
    OBVIOUS
  <2>4. e = [k EXCEPT !.rd = r, !.sink = w, !.own = m, !.first = f]
    BY <1>6, <2>1, <2>2, <2>3
  <2>5. /\ e \in Call /\ e.rd = r /\ e.sink = w /\ e.own = m /\ e.first = f
        /\ e.goal = k.goal /\ e.left = k.left /\ e.bg = k.bg
        /\ e.destructive = k.destructive /\ e.input = k.input
        /\ e.src = k.src /\ e.out = k.out /\ e.pfd = k.pfd
    BY ONLY <1>9, <2>4, k \in Call, f \in Proc DEF Call
  <2> QED BY <2>1, <2>2, <2>3, <2>5
<1>12. TypeOK'
  BY <1>1, <1>2, <1>3, <1>10, <1>11, PlumbTypes, DescriptorAssumption DEF FlagOK, DataOK, MainOK, Pipe
<1>13. Goals'
  <2>1. Roles'
    BY <1>2, <1>10, <1>11, Zenon DEF Waiting, Goals, Roles, InPipe
  <2>2. Budget'
    BY <1>1, <1>2, <1>10, <1>11, CallFields, PipelineAssumption, DescriptorAssumption
       DEF Waiting, Goals, Budget, InPipe, MainOK
  <2> QED BY <2>1, <2>2 DEF Goals
<1>14. Orders'
  BY <1>2, <1>6, <1>8, <1>9, <1>11, ForkOrders
<1>15. ASSUME NEW fd \in Extra, Sh[fd] # Closed
       PROVE  u[fd] = Sh[fd] /\ fd \notin {r, w}
  BY <1>8, <1>15, InvalidFd
<1>16. /\ \A fd : OnFile(Sh, fd) => OnFile(u, fd)
       /\ \A fd, n, x : OnRead(Sh, fd, n, x) => OnRead(u, fd, n, x)
       /\ \A fd, n, x : OnWrite(Sh, fd, n, x) => OnWrite(u, fd, n, x)
  <2>1. \A fd \in Extra : Sh[fd] = Closed \/ u[fd] = Sh[fd]
    BY <1>15
  <2>2. /\ \A n, x : [end |-> "read", of |-> n, cloexec |-> x] # Closed
        /\ \A n, x : [end |-> "write", of |-> n, cloexec |-> x] # Closed
        /\ [end |-> "file", of |-> 0, cloexec |-> TRUE] # Closed
    BY DEF Closed
  <2> QED BY <2>1, <2>2, Zenon DEF OnFile, OnRead, OnWrite
<1>17. Held' = Held \cup {r, w}
  BY <1>2, <1>10, <1>11 DEF Held, InPipe
<1>18. GivenOK(Sh)'
  BY <1>2, <1>7, <1>10, <1>11, <1>16 DEF GivenOK, InPipe
<1>19. EndsOK(Sh)'
  <2>1. r # call.input
    BY <1>2, <1>8, InputOpen DEF Waiting
  <2>2. OnRead(u, r, m, FALSE) /\ OnWrite(u, w, m, FALSE)
    BY <1>4, <1>8
  <2>3. call.input # call.src => \E n \in Pipe : OnRead(u, call.input, n, FALSE)
    BY <1>2, <1>7, <1>16 DEF EndsOK
  <2>4. call'.rd # call'.input /\ OnRead(Sh', call'.rd, call'.own, FALSE)
        /\ OnWrite(Sh', call'.sink, call'.own, FALSE) /\ call'.own # 0
    BY <1>9, <1>10, <1>11, <2>1, <2>2
  <2>5. call'.input # call'.src => \E n \in Pipe : OnRead(Sh', call'.input, n, FALSE)
    BY <1>10, <1>11, <2>3
  <2>6. call'.left # 1 /\ pc' = "close"
    BY <1>2, <1>10, <1>11
  <2> QED BY <2>4, <2>5, <2>6, Zenon DEF EndsOK
<1>20. ShellOK'
  <2>1. \A fd \in Standard : Sh'[fd] = Tty
    BY <1>7, <1>8, <1>10, StandardFd DEF Extra
  <2>2. Open(Sh') = Open(Sh) \cup {r, w}
    BY <1>8, <1>10, InvalidFd DEF Open
  <2>3. leaked \cap {r, w} = {} /\ \A fd \in leaked : u[fd] = Sh[fd]
    BY <1>7, <1>8 DEF Open
  <2> QED BY <1>7, <1>10, <1>17, <1>18, <1>19, <2>1, <2>2, <2>3 DEF ShellOK
<1>21. ForkedOK(u, stage'[c])
  <2>1. \A fd \in Fd : Sh[fd] # Closed => u[fd] = Sh[fd]
    BY <1>8
  <2>2. \A fd \in Fd : Sh[fd] = Closed /\ u[fd] # Closed =>
          fd = w \/ (u[fd].end = "read" /\ u[fd].of = m)
    BY <1>8 DEF OnRead
  <2>3. m # 0 /\ \E x \in BOOLEAN : OnWrite(u, w, m, x)
    BY <1>8, <1>9
  <2>4. w = call.input => w = Invalid
    BY <1>2, <1>8, InputOpen DEF Waiting
  <2> QED BY <1>2, <1>6, <1>8, <1>9, <2>1, <2>2, <2>3, <2>4, Inherits
<1>22. Children'
  BY <1>2, <1>6, <1>8, <1>9, <1>14, <1>21, ForkChildren
<1> QED BY <1>12, <1>13, <1>14, <1>20, <1>22 DEF PlumbStep, Waiting

LEMMA ForkLastStep ==
  ASSUME TypeOK, Waiting, Children, NEW c \in Child, ForkLast(c)
  PROVE  PlumbStep /\ Children'
<1>1. FlagOK /\ TablesOK /\ DataOK /\ KidsOK /\ MainOK /\ call \in Call
  BY PlumbTypes DEF MainOK
<1>2. pc = "stage" /\ call.left = 1 /\ made' = made /\ pc \in InPipe
  BY DEF ForkLast, InPipe
<1>3. PICK to : to = IF call.out \in Fd THEN Sh[call.out].of ELSE 0
  OBVIOUS
<1>4. /\ ForkStage(c, Sh, call.out, to)
      /\ call' = [call EXCEPT !.sink = call.out, !.first = First(c)]
  BY <1>3 DEF ForkLast, Sh, First
<1>5. /\ \A fd \in Standard : Sh[fd] = Tty
      /\ GivenOK(Sh) /\ EndsOK(Sh) /\ Sh \in Table /\ ShellOK
      /\ call.out \in Descriptor
  BY <1>1, <1>2, ProcFacts, CallFields DEF Waiting, ShellOK, Sh, TablesOK
<1>6. /\ to \in {0} \cup Pipe
      /\ to = 0 => call.out \in {1, Invalid} \/ OnFile(Sh, call.out)
      /\ to # 0 => \E x \in BOOLEAN : OnWrite(Sh, call.out, to, x)
  <2>1. CASE call.goal = "gobble"
    <3>1. PICK n \in Pipe : OnWrite(Sh, call.out, n, TRUE)
      BY <1>2, <1>5, <2>1 DEF GivenOK
    <3>2. call.out \in Extra /\ Sh[call.out].of = n /\ n # 0
      BY <3>1 DEF OnWrite, Pipe
    <3>3. to = n
      BY <1>3, <3>2, InvalidFd
    <3> QED BY <3>1, <3>2, <3>3
  <2>2. CASE call.goal # "gobble"
    <3>1. call.out \in {1, Invalid} \/ OnFile(Sh, call.out)
      BY <1>5, <2>2 DEF GivenOK
    <3>2. Sh[1].of = 0 /\ (OnFile(Sh, call.out) => Sh[call.out].of = 0)
      <4>1. 1 \in Standard /\ Tty.of = 0
        BY DEF Standard, Tty
      <4> QED BY <1>5, <4>1 DEF OnFile
    <3>3. to = 0
      BY <1>3, <3>1, <3>2, InvalidFd
    <3> QED BY <3>1, <3>3
  <2> QED BY <2>1, <2>2
<1>7. /\ c = forked + 1 /\ forked' = c /\ pc' = "close" /\ interactive' = interactive
      /\ data' = data /\ last' = last /\ leaked' = leaked /\ TablesOK' /\ KidsOK' /\ Sh' = Sh
  BY <1>2, <1>4, <1>5, <1>6, Forks
<1>8. /\ call' \in Call /\ call'.sink = call.out /\ call'.first = First(c)
      /\ call'.goal = call.goal /\ call'.left = call.left /\ call'.bg = call.bg
      /\ call'.destructive = call.destructive /\ call'.input = call.input
      /\ call'.src = call.src /\ call'.out = call.out /\ call'.pfd = call.pfd
  <2>1. PICK f \in Proc : f = First(c)
    BY <1>1, CallFields, ProcFacts DEF First
  <2>2. PICK k \in Call, o \in Descriptor : k = call /\ o = call.out
    BY <1>1, <1>5
  <2>3. PICK e : e = call'
    OBVIOUS
  <2>4. e = [k EXCEPT !.sink = o, !.first = f]
    BY <1>4, <2>1, <2>2, <2>3
  <2>5. /\ e \in Call /\ e.sink = o /\ e.first = f
        /\ e.goal = k.goal /\ e.left = k.left /\ e.bg = k.bg
        /\ e.destructive = k.destructive /\ e.input = k.input
        /\ e.src = k.src /\ e.out = k.out /\ e.pfd = k.pfd
    BY ONLY <2>4, k \in Call, f \in Proc, o \in Descriptor DEF Call
  <2> QED BY <2>1, <2>2, <2>3, <2>5
<1>9. TypeOK'
  BY <1>1, <1>2, <1>7, <1>8, PlumbTypes DEF FlagOK, DataOK, MainOK
<1>10. Goals'
  <2>1. Roles'
    BY <1>2, <1>7, <1>8, Zenon DEF Waiting, Goals, Roles, InPipe
  <2>2. Budget'
    BY <1>1, <1>2, <1>7, <1>8, DescriptorAssumption DEF Budget, InPipe, MainOK
  <2> QED BY <2>1, <2>2 DEF Goals
<1>11. Orders'
  BY <1>2, <1>4, <1>5, <1>6, <1>8, ForkOrders
<1>12. Held' = Held
  BY <1>2, <1>7, <1>8 DEF Held, InPipe
<1>13. GivenOK(Sh)'
  BY <1>2, <1>5, <1>7, <1>8 DEF GivenOK, InPipe
<1>14. EndsOK(Sh)'
  <2>1. call'.input # call'.src => \E n \in Pipe : OnRead(Sh', call'.input, n, FALSE)
    BY <1>2, <1>5, <1>7, <1>8 DEF EndsOK
  <2>2. pc' = "close" /\ ~(call'.left > 1) /\ call'.sink = call'.out
    BY <1>2, <1>7, <1>8
  <2> QED BY <2>1, <2>2, Zenon DEF EndsOK
<1>15. ShellOK'
  BY <1>2, <1>5, <1>7, <1>12, <1>13, <1>14 DEF ShellOK, Open
<1>16. ForkedOK(Sh, stage'[c])
  <2>1. call.out = call.input => call.out = Invalid
    BY <1>2, <1>5, Distinct DEF GivenOK
  <2> QED BY <1>2, <1>4, <1>5, <1>6, <2>1, Inherits
<1>17. Children'
  BY <1>2, <1>4, <1>5, <1>6, <1>11, <1>16, ForkChildren
<1> QED BY <1>9, <1>10, <1>11, <1>15, <1>17 DEF PlumbStep, Waiting

-----------------------------------------------------------------------------
(* The steps of the children.                                               *)

LEMMA ShellUntouched ==
  ASSUME TypeOK, Waiting, shellState' = shellState, stage' = stage, Sh' = Sh,
         TablesOK', DataOK', KidsOK',
         \A c \in Child : c > forked => state'[c] = "free"
  PROVE  PlumbStep
<1>1. /\ interactive' = interactive /\ forked' = forked /\ made' = made
      /\ pc' = pc /\ call' = call /\ leaked' = leaked
  BY DEF shellState
<1>2. TypeOK'
  BY <1>1, PlumbTypes DEF FlagOK, MainOK
<1>3. Goals' /\ Orders'
  BY <1>1 DEF Waiting, Goals, Roles, Budget, Orders
<1>4. ShellOK'
  BY <1>1 DEF Waiting, ShellOK, Open, Held, GivenOK, EndsOK
<1> QED BY <1>2, <1>3, <1>4 DEF PlumbStep, Waiting

LEMMA ChildMoves ==
  ASSUME TypeOK, Waiting, Children, NEW c \in Child, NEW new \in State, ChildStep(c, new),
         state[c] # "free", NEW t \in Table, table' = [table EXCEPT ![c] = t], DataOK',
         Kid(c)'
  PROVE  PlumbStep /\ Children'
<1>1. FlagOK /\ TablesOK /\ DataOK /\ KidsOK /\ MainOK
  BY PlumbTypes
<1>2. /\ state' = [state EXCEPT ![c] = new] /\ stage' = stage /\ last' = last
      /\ shellState' = shellState /\ leaked' = leaked /\ forked' = forked
  BY DEF ChildStep, shellState
<1>3. TablesOK' /\ Sh' = Sh /\ \A d \in Child \ {c} : table'[d] = table[d]
  BY <1>1, ProcFacts DEF TablesOK, Sh
<1>4. KidsOK' /\ \A d \in Child \ {c} : state'[d] = state[d]
  BY <1>1, <1>2 DEF KidsOK
<1>5. PlumbStep
  <2>1. \A d \in Child : d > forked => state'[d] = "free"
    BY <1>4 DEF Waiting, Orders
  <2> QED BY <1>2, <1>3, <1>4, <2>1, ShellUntouched
<1>6. ASSUME NEW d \in Child, d # c
      PROVE  Kid(d)'
  BY <1>2, <1>3, <1>4, <1>6, KidParts, KidKept DEF Children
<1>7. Linked'
  BY <1>2, KidParts DEF Children, Linked, Members
<1> QED BY <1>5, <1>6, <1>7, KidParts, Zenon DEF Children

LEMMA EndStep ==
  ASSUME TypeOK, Waiting, Children, NEW c \in Child, state[c] # "free", End(c)
  PROVE  PlumbStep /\ Children'
<1>1. FlagOK /\ TablesOK /\ DataOK /\ KidsOK /\ MainOK
  BY PlumbTypes
<1>2. /\ ChildStep(c, "ended") /\ table' = [table EXCEPT ![c] = NoTable] /\ data' = data
      /\ state' = [state EXCEPT ![c] = "ended"]
  BY DEF End, ChildStep
<1>3. DataOK' /\ state'[c] = "ended"
  BY <1>1, <1>2 DEF DataOK, KidsOK
<1>4. Kid(c)'
  BY <1>3, KidIdle
<1>5. NoTable \in Table /\ "ended" \in State
  BY InitialTableType DEF State
<1> QED BY <1>2, <1>3, <1>4, <1>5, ChildMoves

(* A program that goes on keeps its descriptors.                            *)
LEMMA GoesOn ==
  ASSUME TypeOK, Waiting, Children, NEW c \in Child, Running(c), NEW new \in Programs,
         ChildStep(c, new), table' = table, DataOK'
  PROVE  PlumbStep /\ Children'
<1>1. FlagOK /\ TablesOK /\ DataOK /\ KidsOK /\ MainOK
  BY PlumbTypes
<1>2. /\ state' = [state EXCEPT ![c] = new] /\ stage' = stage /\ leaked' = leaked
  BY DEF ChildStep, shellState
<1>3. state'[c] = new /\ new \in State /\ new # "forked" /\ state[c] # "free"
  BY <1>1, <1>2 DEF KidsOK, State, Programs, Running
<1>4. Kid(c)
  BY KidParts DEF Children
<1>5. Kid(c)'
  <2>1. OwnEnds(c)'
    BY <1>2, <1>4 DEF Kid, OwnEnds
  <2>2. Plugged(c)'
    BY <1>2, <1>4 DEF Kid, Plugged, Input, Output, Piped
  <2> QED BY <1>3, <2>1, <2>2 DEF Kid
<1>6. PICK t \in Table : t = table[c]
  BY <1>1, ProcFacts DEF TablesOK
<1>7. table' = [table EXCEPT ![c] = t]
  BY <1>1, <1>6, ProcFacts DEF TablesOK
<1> QED BY <1>3, <1>5, <1>6, <1>7, ChildMoves

LEMMA ReadItemStep ==
  ASSUME TypeOK, Waiting, Children, NEW c \in Child, ReadItem(c)
  PROVE  PlumbStep /\ Children'
<1>1. FlagOK /\ TablesOK /\ DataOK /\ KidsOK /\ MainOK
  BY PlumbTypes
<1>2. Running(c) /\ "write" \in Programs /\ ChildStep(c, "write") /\ table' = table
  BY DEF ReadItem, Running, Programs
<1>3. Plugged(c)
  BY KidParts DEF Children, Kid
<1>4. DataOK'
  <2>1. CASE Piped(Input(c))
    <3>1. PICK n \in Pipe : n = Input(c).of
      BY <1>1, <1>2, <1>3, <2>1 DEF Plugged, KidsOK, Stage
    <3>2. data[n] > 0 /\ data' = [data EXCEPT ![n] = @ - 1]
      BY <2>1, <3>1 DEF ReadItem
    <3> QED BY <1>1, <3>2, PipelineAssumption DEF DataOK
  <2>2. CASE ~Piped(Input(c))
    BY <1>1, <2>2 DEF ReadItem, DataOK
  <2> QED BY <2>1, <2>2
<1> QED BY <1>2, <1>4, GoesOn

LEMMA WriteItemStep ==
  ASSUME TypeOK, Waiting, Children, NEW c \in Child, WriteItem(c)
  PROVE  PlumbStep /\ Children'
<1>1. FlagOK /\ TablesOK /\ DataOK /\ KidsOK /\ MainOK
  BY PlumbTypes
<1>2. Running(c) /\ "read" \in Programs /\ ChildStep(c, "read") /\ table' = table
  BY DEF WriteItem, Running, Programs
<1>3. Plugged(c)
  BY KidParts DEF Children, Kid
<1>4. DataOK'
  <2>1. CASE Piped(Output(c))
    <3>1. PICK n \in Pipe : n = Output(c).of
      BY <1>1, <1>2, <1>3, <2>1 DEF Plugged, KidsOK, Stage
    <3>2. data[n] < Capacity /\ data' = [data EXCEPT ![n] = @ + 1]
      BY <2>1, <3>1 DEF WriteItem
    <3> QED BY <1>1, <3>2, PipelineAssumption DEF DataOK
  <2>2. CASE ~Piped(Output(c))
    BY <1>1, <2>2 DEF WriteItem, DataOK
  <2> QED BY <2>1, <2>2
<1> QED BY <1>2, <1>4, GoesOn

LEMMA SeeEndStep ==
  ASSUME TypeOK, Waiting, Children, NEW c \in Child, SeeEnd(c)
  PROVE  PlumbStep /\ Children'
<1>1. DataOK'
  BY PlumbTypes DEF SeeEnd, DataOK
<1>2. Running(c) /\ "end" \in Programs /\ ChildStep(c, "end") /\ table' = table
  BY DEF SeeEnd, Running, Programs
<1> QED BY <1>1, <1>2, GoesOn

(* exec_aux: the child becomes a program that holds only its ends, or ends. *)
LEMMA ExecStep ==
  ASSUME TypeOK, Waiting, Children, NEW c \in Child, Exec(c)
  PROVE  PlumbStep /\ Children'
<1>1. FlagOK /\ TablesOK /\ DataOK /\ KidsOK /\ MainOK
  BY PlumbTypes
<1>2. PICK t \in Table : t = table[c]
  BY <1>1, ProcFacts DEF TablesOK
<1>3. PICK s \in Stage : s = stage[c]
  BY <1>1 DEF KidsOK
<1>4. PICK r : r = Redirected(t, s.in, s.out, 2)
  OBVIOUS
<1>5. /\ state[c] = "forked"
      /\ IF r.ok THEN /\ ChildStep(c, "read")
                      /\ table' = [table EXCEPT ![c] = Execed(r.table)]
                      /\ UNCHANGED data
         ELSE End(c)
  BY <1>2, <1>3, <1>4 DEF Exec, Redirection
<1>6. ForkedOK(t, s)
  BY <1>2, <1>3, <1>5, KidParts DEF Children, Kid
<1>7. s.in \in Descriptor /\ s.out \in Descriptor
  BY DEF Stage
<1>8. CASE s.in = Invalid \/ s.out = Invalid
  <2>1. ~r.ok
    BY <1>4, <1>7, <1>8, StageFails
  <2> QED BY <1>5, <2>1, EndStep
<1>9. CASE s.in # Invalid /\ s.out # Invalid
  <2>1. /\ s.in \in {0} \cup Extra /\ s.out \in {1} \cup Extra /\ s.in # s.out
        /\ \A fd \in Standard : t[fd] = Tty
        /\ \A fd \in Extra : t[fd] # Closed =>
             \/ fd \in {s.in, s.out}
             \/ t[fd].cloexec = TRUE
             \/ t[fd].end = "read" /\ (t[fd].of = s.to \/ fd \in leaked)
    BY <1>6, <1>9 DEF ForkedOK, OnFile, OnRead, OnWrite
  <2>2. /\ Tty # Closed /\ Tty.end = "tty" /\ 0 \in Standard /\ 1 \in Standard
        /\ Closed.end = "none"
    BY EntryTypes DEF Tty, Closed, Standard
  <2>3. /\ t[s.in] # Closed
        /\ IF s.from = 0 THEN t[s.in].end \in {"tty", "file"}
           ELSE t[s.in].end = "read" /\ t[s.in].of = s.from
    <3>1. CASE s.from = 0
      <4>1. s.in = 0 \/ OnFile(t, s.in)
        BY <1>6, <1>9, <3>1 DEF ForkedOK
      <4>2. OnFile(t, s.in) => t[s.in].end = "file" /\ t[s.in] # Closed
        BY EntryFields
      <4> QED BY <2>1, <2>2, <3>1, <4>1, <4>2
    <3>2. CASE s.from # 0
      <4>1. OnRead(t, s.in, s.from, FALSE)
        BY <1>6, <3>2 DEF ForkedOK
      <4> QED BY <2>2, <3>2, <4>1 DEF OnRead
    <3> QED BY <3>1, <3>2
  <2>4. /\ t[s.out] # Closed
        /\ IF s.to = 0 THEN t[s.out].end \in {"tty", "file"}
           ELSE t[s.out].end = "write" /\ t[s.out].of = s.to
    <3>1. CASE s.to = 0
      <4>1. s.out = 1 \/ OnFile(t, s.out)
        BY <1>6, <1>9, <3>1 DEF ForkedOK
      <4>2. OnFile(t, s.out) => t[s.out].end = "file" /\ t[s.out] # Closed
        BY EntryFields
      <4> QED BY <2>1, <2>2, <3>1, <4>1, <4>2
    <3>2. CASE s.to # 0
      <4>1. PICK x \in BOOLEAN : OnWrite(t, s.out, s.to, x)
        BY <1>6, <3>2 DEF ForkedOK
      <4> QED BY <2>2, <3>2, <4>1 DEF OnWrite
    <3> QED BY <3>1, <3>2
  <2>5. PICK v : v = r.table
    OBVIOUS
  <2>6. /\ r.ok /\ v \in Table
        /\ v[0].end = t[s.in].end /\ v[0].of = t[s.in].of
        /\ v[1].end = t[s.out].end /\ v[1].of = t[s.out].of
        /\ v[0].cloexec = FALSE /\ v[1].cloexec = FALSE /\ v[2] = Tty
        /\ \A fd \in Extra : v[fd] = IF fd \in {s.in, s.out} THEN Closed ELSE t[fd]
    <3>1. PICK in \in {0} \cup Extra, out \in {1} \cup Extra : in = s.in /\ out = s.out
      BY <2>1
    <3>2. /\ in # out /\ t[in] # Closed /\ t[out] # Closed /\ r = Redirected(t, in, out, 2)
          /\ \A fd \in Standard : t[fd] = Tty
      BY <1>4, <2>1, <2>3, <2>4, <3>1
    <3>3. r.ok /\ r.table \in Table /\ Carried(t, in, out, r.table)
      BY ONLY <3>2, t \in Table, in \in {0} \cup Extra, out \in {1} \cup Extra, StageTable
    <3> QED BY <2>5, <3>1, <3>3 DEF Carried
  <2>7. PICK u \in Table : u = Execed(v)
    BY <2>6, ExecedTable
  <2>8. /\ ChildStep(c, "read") /\ table' = [table EXCEPT ![c] = u] /\ data' = data
    BY <1>5, <2>5, <2>6, <2>7
  <2>9. /\ table'[c] = u /\ stage'[c] = s /\ leaked' = leaked /\ state'[c] = "read"
    BY <1>1, <1>3, <2>8, ProcFacts DEF TablesOK, KidsOK, ChildStep, shellState
  <2>10. \A fd \in Fd : u[fd] = IF v[fd].cloexec THEN Closed ELSE v[fd]
    BY <2>7 DEF Execed
  <2>11. u[0] = v[0] /\ u[1] = v[1] /\ 0 \in Fd /\ 1 \in Fd /\ 2 \in Fd
    BY <2>6, <2>10, StandardFd
  <2>12. ASSUME NEW fd \in Fd, u[fd] # Closed
         PROVE  /\ u[fd].end = "write" => fd = 1 /\ u[fd].of = s.to
                /\ u[fd].end = "read"  => \/ fd = 0 /\ u[fd].of = s.from
                                          \/ u[fd].of = s.to
                                          \/ fd \in leaked
    <3>1. CASE fd = 0
      BY <2>3, <2>6, <2>11, <3>1
    <3>2. CASE fd = 1
      BY <2>4, <2>6, <2>11, <3>2
    <3>3. CASE fd = 2
      <4>1. u[2] \in {Tty, Closed}
        BY <2>6, <2>10, <2>11
      <4> QED BY <2>2, <3>3, <4>1
    <3>4. CASE fd \in Extra
      <4>1. u[fd] = v[fd] /\ v[fd].cloexec # TRUE
        BY <2>10, <2>12
      <4>2. fd \notin {s.in, s.out} /\ v[fd] = t[fd]
        BY <2>6, <2>12, <3>4, <4>1
      <4>3. t[fd].end = "read" /\ (t[fd].of = s.to \/ fd \in leaked)
        BY <2>1, <2>12, <3>4, <4>1, <4>2
      <4> QED BY <4>1, <4>2, <4>3
    <3> QED BY <3>1, <3>2, <3>3, <3>4 DEF Extra, Standard
  <2>13. OwnEnds(c)'
    BY <2>9, <2>12 DEF OwnEnds, Open
  <2>14. Plugged(c)'
    <3>1. Input(c)' = u[0] /\ Output(c)' = u[1]
      BY <2>9 DEF Input, Output
    <3>2. /\ IF s.from = 0 THEN u[0].end \notin {"read", "write"}
             ELSE u[0].end = "read" /\ u[0].of = s.from
          /\ IF s.to = 0 THEN u[1].end \notin {"read", "write"}
             ELSE u[1].end = "write" /\ u[1].of = s.to
      BY <2>3, <2>4, <2>6, <2>11
    <3> QED BY <2>9, <3>1, <3>2 DEF Plugged, Piped
  <2>15. Kid(c)'
    BY <2>9, <2>13, <2>14 DEF Kid
  <2>16. DataOK' /\ "read" \in State /\ state[c] # "free"
    BY <1>1, <1>5, <2>8 DEF DataOK, State, Programs
  <2> QED BY <2>8, <2>15, <2>16, ChildMoves
<1> QED BY <1>8, <1>9

LEMMA HangUpStep ==
  ASSUME TypeOK, Waiting, Children, NEW j \in Child, HangUp(j)
  PROVE  PlumbStep /\ Children'
<1>1. FlagOK /\ TablesOK /\ DataOK /\ KidsOK /\ MainOK
  BY PlumbTypes
<1>2. PICK m : m = {c \in Members(j) : state[c] # "ended"}
  OBVIOUS
<1>3. /\ state' = [c \in Child |-> IF c \in m THEN "ended" ELSE state[c]]
      /\ table' = [p \in Proc |-> IF p \in m THEN NoTable ELSE table[p]]
      /\ data' = data /\ stage' = stage /\ last' = last /\ shellState' = shellState
  BY <1>2 DEF HangUp
<1>4. m \subseteq Child /\ "ended" \in State /\ NoTable \in Table
  BY <1>2, InitialTableType DEF Members, State
<1>5. TablesOK' /\ Sh' = Sh /\ KidsOK' /\ DataOK'
  BY <1>1, <1>3, <1>4, ProcFacts DEF TablesOK, Sh, KidsOK, DataOK, shellState
<1>6. ASSUME NEW c \in Child, c > forked
      PROVE  state'[c] = "free"
  <2>1. state[c] = "free" /\ stage[c].job = 0
    <3>1. state[c] = "free" /\ stage[c] = NoStage
      BY <1>6, Zenon DEF Waiting, Orders
    <3> QED BY <3>1 DEF NoStage
  <2>2. c \notin m
    BY <1>2, <2>1, ProcFacts DEF Members
  <2> QED BY <1>3, <2>1, <2>2
<1>7. PlumbStep
  BY <1>3, <1>5, <1>6, ShellUntouched
<1>8. ASSUME NEW c \in Child
      PROVE  Kid(c)'
  <2>1. CASE c \in m
    BY <1>3, <2>1, KidIdle
  <2>2. CASE c \notin m
    <3>1. /\ table'[c] = table[c] /\ state'[c] = state[c] /\ stage'[c] = stage[c]
          /\ leaked \subseteq leaked'
      BY <1>3, <2>2, ProcFacts DEF shellState
    <3> QED BY <3>1, KidParts, KidKept DEF Children
  <2> QED BY <2>1, <2>2
<1>9. Linked'
  BY <1>3, KidParts DEF Children, Linked, Members
<1> QED BY <1>7, <1>8, <1>9, KidParts, Zenon DEF Children

-----------------------------------------------------------------------------
(* The theorems.                                                            *)

LEMMA PlumbStart == Init => PlumbInv
<1> SUFFICES ASSUME Init PROVE PlumbInv
  OBVIOUS
<1>1. /\ interactive \in BOOLEAN /\ forked = 0 /\ made = 0 /\ pc = "eval"
      /\ call = NoCall /\ leaked = {}
      /\ table = [p \in Proc |-> IF p = Shell THEN InitialTable ELSE NoTable]
      /\ data = [n \in Pipe |-> 0] /\ stage = [c \in Child |-> NoStage]
      /\ state = [c \in Child |-> "free"] /\ last = [c \in Child |-> 0]
  BY DEF Init
<1>2. TablesOK /\ Sh = InitialTable
  BY <1>1, InitialTableType, ProcFacts DEF TablesOK, Sh
<1>3. NoStage \in Stage /\ NoStage.job = 0
  BY DEF NoStage, Stage, Descriptor, Invalid, Proc, Shell
<1>4. TypeOK
  BY <1>1, <1>2, <1>3, NoCallType, PipelineAssumption, DescriptorAssumption, PlumbTypes
     DEF FlagOK, DataOK, KidsOK, MainOK, State
<1>5. Roles
  BY <1>1, NoCallType, Zenon DEF Roles, InPipe, NoCall
<1>6. Budget /\ Orders
  BY <1>1, ProcFacts DEF Budget, InPipe, Orders
<1>7. ShellOK
  <2>1. Held = {}
    BY <1>1, NoCallType DEF Held, InPipe
  <2>2. Open(Sh) = Standard /\ \A fd \in Standard : Sh[fd] = Tty
    BY <1>2, StandardFd, EntryTypes DEF Open, InitialTable
  <2>3. GivenOK(Sh) /\ EndsOK(Sh)
    BY <1>1 DEF GivenOK, EndsOK, InPipe, NoCall
  <2> QED BY <1>1, <2>1, <2>2, <2>3 DEF ShellOK
<1>8. Children
  <2>1. \A c \in Child : state[c] = "free" /\ stage[c].job = 0
    BY <1>1, <1>3
  <2>2. ChildrenOK /\ HoldsOnlyItsEnds
    BY <2>1 DEF ChildrenOK, HoldsOnlyItsEnds, Running, Programs
  <2>3. Connected
    BY <2>1 DEF Connected, Running, Programs
  <2> QED BY <2>2, <2>3 DEF Children
<1> QED BY <1>4, <1>5, <1>6, <1>7, <1>8 DEF PlumbInv, Waiting, Goals

LEMMA UserStep ==
  ASSUME TypeOK, Waiting, Children, User
  PROVE  PlumbStep /\ Children'
<1>1. PICK n \in 1 .. MaxStages :
        /\ n <= MaxChild - forked /\ n - 1 <= MaxFile - made
        /\ \/ \E i, o \in Redirections : ParsePipe(n, i, o)
           \/ \E b \in BOOLEAN : Run(n, b)
           \/ n <= MaxFile - made /\ Gobble(n)
  BY DEF User
<1>2. PlumbStep
  BY <1>1, ParsePipeStep, RunStep, GobbleStep
<1>3. TablesOK
  BY PlumbTypes
<1>4. /\ stage' = stage /\ state' = state /\ leaked' = leaked
      /\ \E t : SetShell(t) \/ table' = table
  BY <1>1, Zenon DEF ParsePipe, Run, Gobble, Start, children
<1>5. \A c \in Child : table'[c] = table[c]
  BY <1>3, <1>4, ProcFacts DEF TablesOK, SetShell
<1>6. leaked \subseteq leaked'
  BY <1>4
<1> QED BY <1>2, <1>4, <1>5, <1>6, ChildrenKept DEF Children

LEMMA ShellSteps ==
  ASSUME TypeOK, Waiting, Children,
         PipeFails \/ CloseEnds \/ Wait \/ Return \/ GobbleRead \/ GobbleEnd \/ NullCommand
  PROVE  PlumbStep /\ Children'
<1>1. PlumbStep
  BY PipeFailsStep, CloseEndsStep, WaitStep, ReturnStep, GobbleReadStep, GobbleEndStep,
     NullCommandStep, Zenon
<1>2. TablesOK
  BY PlumbTypes
<1>3. /\ stage' = stage /\ state' = state /\ leaked \subseteq leaked'
      /\ \E t : SetShell(t) \/ table' = table
  BY DEF PipeFails, CloseEnds, Wait, Return, GobbleRead, GobbleEnd, NullCommand, children,
         shellState
<1>4. \A c \in Child : table'[c] = table[c]
  BY <1>2, <1>3, ProcFacts DEF TablesOK, SetShell
<1> QED BY <1>1, <1>3, <1>4, ChildrenKept DEF Children

LEMMA PlumbNext == PlumbInv /\ [Next]_vars => PlumbInv'
<1> SUFFICES ASSUME TypeOK, Waiting, Children, [Next]_vars
             PROVE  PlumbStep /\ Children'
  BY DEF PlumbInv, PlumbStep
<1>1. CASE User
  BY <1>1, UserStep
<1>2. CASE Main \/ NullCommand
  BY <1>2, ShellSteps, ForkPipedStep, ForkLastStep DEF Main
<1>3. ASSUME NEW c \in Child, Program(c) \/ Quit(c)
      PROVE  PlumbStep /\ Children'
  <2>1. CASE Done(c) \/ Quit(c)
    BY <2>1, EndStep DEF Done, Quit, Broken, Programs
  <2> QED BY <1>3, <2>1, ExecStep, ReadItemStep, SeeEndStep, WriteItemStep DEF Program
<1>4. ASSUME NEW j \in Child, HangUp(j)
      PROVE  PlumbStep /\ Children'
  BY <1>4, HangUpStep
<1>5. CASE UNCHANGED vars
  <2>1. /\ shellState' = shellState /\ table' = table /\ data' = data
        /\ stage' = stage /\ state' = state /\ last' = last
    BY <1>5 DEF vars
  <2>2. forked' = forked /\ leaked' = leaked
    BY <2>1 DEF shellState
  <2>3. TablesOK' /\ DataOK' /\ KidsOK' /\ Sh' = Sh
    BY <2>1, <2>2, PlumbTypes DEF TablesOK, DataOK, KidsOK, Sh
  <2>4. \A c \in Child : c > forked => state'[c] = "free"
    BY <2>1 DEF Waiting, Orders
  <2>5. leaked \subseteq leaked' /\ \A c \in Child : table'[c] = table[c]
    BY <2>1, <2>2
  <2> QED BY <2>1, <2>3, <2>4, <2>5, ShellUntouched, ChildrenKept DEF Children
<1> QED BY <1>1, <1>2, <1>3, <1>4, <1>5 DEF Next

(* At every moment of a pipeline everything the shell has open is one of    *)
(* its first three descriptors, an end that do_pipe, gobble or parse_pipe   *)
(* will still close, or lost for good; a child that was forked but has not  *)
(* redirected itself yet has the ends do_pipe meant for it, and of others   *)
(* only what exec closes and read ends that stay.                           *)
THEOREM PlumbInvariant == Spec => []PlumbInv
<1> QED BY PlumbStart, PlumbNext, PTL DEF Spec

(* The variables of do_pipe, of its callers and of the children keep their  *)
(* types: no pipe holds more than its capacity, no descriptor out of range  *)
(* is used.                                                                 *)
THEOREM PipelineTypes == Spec => []TypeOK
<1>1. PlumbInv => TypeOK
  BY DEF PlumbInv
<1> QED BY PlumbInvariant, <1>1, PTL

(* do_pipe and exec_aux leave a running program no write end but the one it *)
(* writes to, for pipelines of any length, any redirections and any point   *)
(* at which the shell or another stage gave up.                             *)
THEOREM ProgramsHoldTheirEnds == Spec => []HoldsOnlyItsEnds
<1>1. PlumbInv => HoldsOnlyItsEnds
  BY DEF PlumbInv, Children
<1> QED BY PlumbInvariant, <1>1, PTL

(* The stages of a pipeline of any length are connected one to the next.    *)
THEOREM StagesAreConnected == Spec => []Connected
<1>1. PlumbInv => Connected
  BY DEF PlumbInv, Children
<1> QED BY PlumbInvariant, <1>1, PTL

-----------------------------------------------------------------------------
(* The descriptors of the shell do not run out by themselves.               *)

GivesUp == pc = "exited" => leaked # {}

LEMMA FreeFinite == IsFiniteSet(Free(Sh)) /\ Cardinality(Free(Sh)) \in Nat
<1>1. IsFiniteSet(Fd)
  BY FS_Interval, DescriptorAssumption DEF Fd
<1>2. IsFiniteSet(Free(Sh))
  BY <1>1, FS_Subset DEF Free
<1> QED BY <1>2, FS_CardinalityType

(* do_pipe, its caller and the terminal take six descriptors at most, of    *)
(* eight; so a pipe finds two, unless some were lost before.                *)
LEMMA RoomForPipe ==
  ASSUME MaxFd >= 7, TypeOK, Waiting, pc = "stage", leaked = {}
  PROVE  Cardinality(Free(Sh)) >= 2
<1>1. Open(Sh) = Standard \cup Held
  BY DEF Waiting, ShellOK
<1>2. PICK a, b, d : Held \subseteq {a, b, d}
  <2>1. Held \subseteq (IF call.goal = "parse" THEN {call.src, call.out, call.input}
                        ELSE {call.pfd, call.out, call.input})
    BY DEF Held, InPipe
  <2> QED BY <2>1
<1>3. Open(Sh) \subseteq {0, 1, 2, a, b, d}
  BY <1>1, <1>2 DEF Standard
<1>4. {3, 4, 5, 6, 7} \subseteq Fd
  BY DescriptorAssumption DEF Fd
<1>5. PICK x \in Free(Sh), y \in Free(Sh) : x # y
  <2>1. \E x, y \in {3, 4, 5, 6, 7} : x # y /\ x \notin {a, b, d} /\ y \notin {a, b, d}
    OBVIOUS
  <2> QED BY <1>3, <1>4, <2>1 DEF Free
<1>6. IsFiniteSet(Free(Sh))
  BY FreeFinite
<1>7. IsFiniteSet({x}) /\ Cardinality({x}) = 1
  BY FS_Singleton
<1>8. Cardinality({x} \cup {y}) = 2
  BY <1>5, <1>7, FS_AddElement
<1>9. Cardinality({x} \cup {y}) <= Cardinality(Free(Sh))
  <2>1. {x} \cup {y} \subseteq Free(Sh)
    BY <1>5
  <2> QED BY <1>6, <2>1, FS_Subset
<1> QED BY <1>6, <1>8, <1>9, FS_CardinalityType

(* Between commands the shell has open its first three descriptors and what *)
(* do_pipe and gobble lost by a null command; where a process may have at   *)
(* least eight descriptors, only a shell that lost some can fail to make a  *)
(* pipe and end, however long the pipeline.                                 *)
THEOREM NoStrayDescriptors ==
  ASSUME MaxFd >= 7
  PROVE  Spec => []NoStrayDescriptor
<1>1. Init => GivesUp
  BY DEF Init, GivesUp
<1>2. PlumbInv /\ GivesUp /\ [Next]_vars => GivesUp'
  <2> SUFFICES ASSUME TypeOK, Waiting, Children, GivesUp, [Next]_vars
               PROVE  GivesUp'
    BY DEF PlumbInv
  <2>1. CASE PipeFails
    <3>1. leaked # {}
      <4>1. pc = "stage" /\ Cardinality(Free(Sh)) < 2
        BY <2>1 DEF PipeFails, Sh
      <4>2. ~(Cardinality(Free(Sh)) >= 2)
        BY <4>1, FreeFinite
      <4> QED BY <4>1, <4>2, RoomForPipe
    <3> QED BY <2>1, <3>1 DEF PipeFails, GivesUp
  <2>2. CASE User \/ NullCommand \/ CloseEnds \/ Wait \/ Return \/ GobbleEnd
    <3>1. pc' # "exited"
      BY <2>2 DEF User, ParsePipe, Run, Gobble, Start, NullCommand, CloseEnds, Wait, Return, GobbleEnd
    <3> QED BY <3>1 DEF GivesUp
  <2>3. CASE \E c \in Child : ForkPiped(c) \/ ForkLast(c)
    BY <2>3 DEF ForkPiped, ForkLast, ForkStage, GivesUp
  <2>4. CASE GobbleRead \/ (\E c \in Child : Program(c) \/ Quit(c) \/ HangUp(c)) \/ UNCHANGED vars
    <3>1. shellState' = shellState
      BY <2>4 DEF GobbleRead, Program, Exec, ReadItem, SeeEnd, WriteItem, Done, Quit, End, HangUp,
                  ChildStep, vars
    <3> QED BY <3>1 DEF shellState, GivesUp
  <2> QED BY <2>1, <2>2, <2>3, <2>4 DEF Next, Main
<1>3. PlumbInv /\ GivesUp => NoStrayDescriptor
  BY AtEval DEF PlumbInv, GivesUp, NoStrayDescriptor, Sh
<1> QED BY PlumbInvariant, <1>1, <1>2, <1>3, PTL DEF Spec
=============================================================================
