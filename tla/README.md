# esh in TLA+

esh is a Unix shell with Lisp-like syntax: about 5000 lines of C, single threaded but for one
asynchronous signal handler. This directory holds its specification: TLA+ modules translated from
the C source, TLC configurations that check them on small instances, and TLAPS proofs for every
instance. `PROJECT.json` lists the runs, the deliberate faults each property is known to catch,
the source lines behind each definition, the hazards, the findings and the theorems.

## The system

| component | source | state | operations | what makes it correct |
|---|---|---|---|---|
| job control | esh.c 529-920, builtins.c 910-1004, job.h | `jobs`, each `job_t`, SIGCHLD disposition, the terminal's group | do_pipe, job_foreground, job_wait, fg, bg, arrange_funeral, babysit | a job is dead only if its last process is; the list has no freed job; the prompt returns |
| pipeline plumbing | do_pipe, exec_aux, dup2_aux, close_aux, parse_pipe, gobble | the shell's descriptors, each child's | pipe, fork, dup2, close | a reader sees end of file once its writers are done; no descriptor is leaked or closed twice |
| type checker | builtins.c 31-164 | none | typecheck, fancy_typecheck | the pattern language of the built-ins |
| memory | gc.c, list.c, hash.c and every built-in that stores a list | reference counts | gc_alloc, gc_inc_ref, gc_free, ls_*, hash_* | no use after free; a count equals the number of owners |
| hash table | hash.c | buckets | hash_put, hash_get, hash_keys ... | behaves as a map |
| evaluator | builtins.c 414-503, do_builtin, my_while, filter, exec ... | `stack`, `exception_flag`, bindings | eval, do_builtin, push, pop, rot ... | the stack is restored, the result is owned once, C-c unwinds |
| tokenizer and parser | esh.c 153-273, 959-1423 | the text, parenthesis depth | next_token, parse_builtin, parse_pipe, parse_file ... | what is evaluated is what was written |
| file objects | esh.c 462-527, list.c 75-95, builtins.c 1693-1849, 2070-2096 | open descriptors and their flags, `stderr_handler_fd` | file-open, file-read, file-write, stderr-handler, the TYPE_FD free | each descriptor is closed once, by its last owner; flags come back; only what says so blocks |
| environment and directory | builtins.c 325-393, 515-575 | environ, PWD, OLDPWD | set, get, cd | OLDPWD is the previous PWD |
| arithmetic, comparison, strings | builtins.c 748-895, 2426-2475 | none | + - * / = < chars, substring ... | integer semantics |
| growing buffers | read-stdio.c, ls_strcat, file_read, parse_file, next_token | buffer, length | append with doubling | no write past the end, nothing lost when it grows |
| line input, completion, bold, emacs mode | read-rl.c, bold.c, emacs/ | readline's | none of the shell's own | input and output only |

How they interact. `main` alternates `arrange_funeral`, the prompt and `parse_command`; a script
goes through `do_file` / `parse_file` and calls `arrange_funeral` after every expression. The parser
turns text into lists, `eval` and `do_builtin` turn lists into calls of built-ins, and three of
those (`run`, `run-simple`, `gobble`) and `parse_pipe` reach `do_pipe`, where job control begins.
The only concurrency inside the process is `babysit`, which SIGCHLD starts between any two
instructions of `main` and which writes the same `job_t` records `main` reads; the children are
concurrent too, and talk to the shell through wait statuses, process groups and pipes.
`exception`, the SIGINT handler, only sets a flag.

Hard behaviours: the handler against job_foreground, job_wait and arrange_funeral; a SIGCHLD that is
discarded while job_wait holds the default disposition; fork against setpgid; do_pipe giving up half
way; pipes whose ends are inherited by more processes than use them; reference counts shared between
the stack, aliases, definitions and hash tables; file objects that share a descriptor with the
stderr handler; commands that run while the text they are in is still being read; flags of file
descriptions that other processes share. `PROJECT.json` lists them as hazards, line by line.

## Modules

| module | what it is |
|---|---|
| `Kernel` | processes, groups, wait statuses, the terminal and SIGCHLD as esh.c relies on them (external), and exec_aux's setpgid in the child |
| `JobControl` | job control: one action per step of do_pipe, job_foreground, job_wait, job_background, arrange_funeral, fg, bg and babysit; properties and fairness |
| `JobTable` | abstract specification of the list of jobs, by the order of what enters and leaves; `JobControl` implements it |
| `JobControl_proofs` | theorems about `JobControl`: types, dead jobs, lists, groups, the terminal, values, `JobTable` |
| `MCJobControl` | the instance TLC checks (symmetry of processes) |
| `Descriptors` | tables of file descriptors: open, pipe, close, dup2, exec (external), close_aux, dup2_aux and exec_aux's redirections |
| `Descriptors_proofs` | what the operators of `Descriptors` return, as lemmas |
| `Pipeline` | who holds which end of which pipe while do_pipe forks stages that read, write, block and end; parse_pipe, run, gobble |
| `Pipeline_proofs` | theorems about `Pipeline` |
| `Files` | file objects: file-open, shared references, the last release, stderr-handler, run |
| `Files_proofs` | theorems about `Files` |
| `Typecheck` | typecheck_aux turn by turn, and what a specification means |
| `MCTypecheck` | the specifications and arguments TLC takes |
| `Typecheck_proofs` | theorems about `Typecheck` |
| `Heap` | memory: chunks with counts, what each call of gc.c, list.c and hash.c does to them |
| `Evaluator` | parse_builtin, eval_aux, do_builtin and the built-ins that move lists about, on a `Heap`, inside the loop of main |
| `MCEvaluator` | the start-up script and the typed lines of the instance TLC checks |
| `Buffer` | a buffer that grows while characters are read into it, with what strcpy finds in memory |
| `Syntax` | what a text says, as a property of its characters: pieces, matching parentheses, delays, pipelines |
| `Reader` | next_token, parse_builtin, parse_pipe, parse_command, parse_file, read_read, parse and split, a character or a token at a time |
| `Reader_proofs` | theorems about `Reader`: its buffers, its indices, how far a script is read, and `Expressions` |
| `Expressions` | abstract specification of reading; `Reader` implements it |
| `MCReader` | the texts TLC reads |
| `Environment` | set, cd and register_chdir in a tree of directories that others change |
| `MCEnvironment` | the tree of the instance TLC checks |
| `Environment_proofs` | theorems about `Environment` |
| `Contents` | file-open of a string, file-read, file-read-block and file-write, by the system call, in shells that share their standard files |
| `Contents_proofs` | theorems about `Contents` |

`Heap` is extended by `Evaluator`. `Descriptors` is extended by `Pipeline` and `Files`; `Pipeline` and
`JobControl` are two views of do_pipe, one of its descriptors and one of its processes. Where they
meet, `Pipeline` takes from `JobControl` only that the members of a job are hung up when its last stage
ended (`DeadJobIsHungUp`), and `JobControl` takes nothing from `Pipeline`: when a program ends is not
its concern. `Reader` extends `Buffer` and `Syntax`; `Expressions`, which also extends `Syntax`, is
instantiated in it. `Reader` and `Evaluator` are two views of parse_builtin: one of the text it reads,
with an evaluated list standing for its value, and one of the lists it builds, with the text given as
a tree. `Files` has which descriptors an object owns, `Contents` what goes through them.

### Job control

`pc` names where `main` is. A step is everything between two points at which the handler's
interference would make a difference: the assignment of the terminal, the test of `job->status`, the
assignment of RUNNING, the signal call, each waitpid, the terminal again. `hpos` is babysit's place
in the list; while it is not 0 `main` does not move, but the children do. Each call of
waitpid in babysit, with the show_status and the kill that follow it, is one step: `main` cannot run
in between and nothing a child does there can tell the difference. A job is named by the first
process forked for it, which is its process group at a terminal. `interactive` is chosen by `Init` and
never changes, as in init_shell; in a script every process stays in the shell's group, SIGCHLD is
never caught and no job is listed.

Undefined behaviour is a choice. job_wait shows an uninitialised wait status when the last process
was reaped before it (`WaitLast`: any status, or `Junk` that is none). A handler that meets a freed
`job_t` or list node ends the shell or passes over it (`BabysitCrash`, `BabysitNext`). do_pipe's
error exit runs job_foreground on a `job_t` nobody filled in: its status is any of the three, and its
group and process are assumed to name nobody (`AbortForeground`, `AbortWait`).

Left out: process identifiers are not reused; nobody but the shell sends SIGCONT, and the SIGCHLD a
continued child raises (it could only make babysit run once more) is not raised; terminal modes; the
messages of show_status; a failing fork or pipe, which ends the shell.

### Pipelines

A process is a table from descriptors to what they refer to: the terminal, a file, or an end of a
pipe, and whether it closes at exec. `Open` picks the lowest free number, so numbers are reused as
in the real shell. The shell's steps are those between which a child can notice a difference: the
fork (with the pipe made just before it), the closing of the shell's own copies, the wait, the reads
of gobble. A child's three redirections and its exec are one step, because its table is its own.
Programs copy items one by one, block on an empty or a full pipe, see the end of their input when no
process holds the write end any more, and may end at any moment. `leaked` is a history variable: the
descriptors that `goto done` in do_pipe, and gobble after it, leave open for good.

What comes out: a running stage holds no write end but its own (`HoldsOnlyItsEnds`), which is why
the end of input travels down a pipeline (`EndReaches`, `WaitEnds`) and gobble returns although an
earlier stage still runs (`GobbleReturns`; it needs the close-on-exec flag gobble sets). It does
hold the read end of its own output, which do_pipe does not mark: so no stage is ever told that its
reader ended. At a terminal the hang-up of the job makes up for that; in a script such a stage stays
blocked (`Blocked` in `EndReaches`). The shell forgets descriptors only when do_pipe gives up,
and only then can it run out of them and exit (`NoStrayDescriptor`).

### File objects

An action of `Files` is a whole built-in with the release of its arguments: there is no concurrency
here, the difficulty is the order of legal calls. A file object is a pair of descriptors with a
count; its last release closes them, unless they are the terminal's or the handler's. stderr-handler
closes the handler it replaces even when a file object still names it: `undercut` records that, and
`KeepsItsFile` and `RunConnects` are stated for histories without it. `run` is
taken up to exec: what the child's table is, or that a redirection failed.

### The type checker

A step is one turn of the loop of typecheck_aux, or a return; `data` is the stack of what the nested
calls have left and `i` the position they share. What a specification means is defined apart from
that, over its structure (`Described`: for each position of the specification, the lists that what
follows it describes): `Matches` allows a repetition any number of arguments, `MatchesGreedily` all
there are and at least one. The code accepts exactly the latter (`AcceptsGreedily`), which is
less than the manual says (doc/esh.texi:1083-1090, "Match any number"), but never anything the
manual's meaning excludes, and that is what the built-ins rely on: `AcceptsGreedily` states both.
Every letter is there in both its forms, the repetition of lists too (`L`, which run, run-simple and
gobble use): it takes the arguments a `(` after it might have asked for. What may be an argument is a constant,
of which is assumed only that the elements of a list are arguments again; so lists nest to any depth,
as typecheck_aux recurses to any. A return goes on in the caller, wherever that is in turn nested,
after a position it moved itself, even past the terminating zero; `TypeOK` bounds by how much.

### Memory and the evaluator

A `Heap` is a function from chunk numbers to chunks with a count; its operators take a heap to a
heap. ls_copy copies nothing: it adds a share to everything below a list, and ls_free_all takes one
away. So a cell below a table that has three owners has a count of three, which is the reason for
hash_put_inc_ref and hash_inc_ref, and what `SharesFromHeap` counts. A free chunk is given out again,
lowest first. A hash table is one chunk here and two in the code, which always counts them together;
so is an entry and the cell that links it. An entry is in the bucket its key had when it was put, whatever
becomes of the key: chop! and chop-nl! cut strings where they are, and hash-keys gives out the keys
of the table itself, so an entry may no longer be found under the key it has, nor replaced by it. A
bucket is named by that first key: that two keys share one, and the hash function, are left out.

`Evaluator` unfolds the recursion of the C functions: `frames` is the C stack, a frame per call, with
the lists its local variables own, and `out` is the value of the call that has just returned. A step
is one element of a list in parse_builtin or eval_aux, or one built-in together with the release of
its arguments by its caller; C-c (`Interrupt`) comes between any two. A `walk` frame (eval_aux)
owns what it builds but not the list it walks, as in the code. When that list is freed under it the
run has ended (`Undefined`): what the C program then does is anything, from the test of gc.c that ends
it to reading a chunk in use for something else. So it has when hash-put puts a table below itself
(`at = "overflow"`), where hash_inc_ref calls itself until the C stack is used up. No invariant but
`NeverCorrupted` says anything of a state after that.

What comes out: counts are exactly owners in every state of every interleaving with C-c, whatever
the built-ins move between the stack, the definitions, the aliases, the prompt and the tables
(`CountsAreShares`). The exceptions are the three places that evaluate a list the evaluated commands
may replace: do_builtin with a definition, parse_pipe with an alias, get_prompt with the prompt
(`OnlyReplacedDies`; the run `redefinition` has the finding). After C-c nothing a command would have
done is done (`InterruptedDoesNothing`), and every loop and nested command gives way (`Unwinds`).

repeat and filter are loops of their own: repeat goes on after C-c through what is left of its count,
evaluating nothing, and filter makes each character the stack of an evaluation, also after C-c, then
puts the old stack back; `InterruptedDoesNothing` says so of filter.

The built-ins are those that store, share, take apart, join, cut, copy, compare or evaluate lists and
strings. Left out are parse (in `Reader`), script, substring? and match, and those on numbers; file
objects, whose counts are in `Files`; the arguments of the shell itself, which start the stack: here
it starts empty. A script given on standard input is not modelled: there exception_flag is never
cleared. A command names a built-in by its C function.

### Reading

A text is a sequence of characters, and its characters are known by their positions. So a buffer
holds positions, a list is known by its parentheses, and what the parser does can be compared with
what is written without a second parser: `Syntax` says of any text which of its characters begin a
piece, which parentheses match, how often a list is delayed. `$` is `~`, `|` is `,`, and a tab is a
blank; the backquote is `\`, the other character that is special and has no meaning.

A step is a character of parse_file or read_read, or a token of a parser. `frames` are the nested calls of
parse_builtin, whose recursion goes through the same text with one `pos`. An evaluated list is a
`value` in the list around it, put in `lists` at the moment the code calls do_builtin: what it does
is `Evaluator`'s. A parenthesis that is missing gives an `empty` item in the place of the list and
the caller goes on, as in the code.

The buffers are modelled because they are copied before they are ended (esh.c:1404, 501,
read-stdio.c:52): strcpy takes the old characters and whatever follows them up to the first zero, and
a cell nobody wrote is `Junk`, which may be one. When no cell is, strcpy reads and writes past the end
of both buffers, which is undefined: the run has ended there (`Overrun`, `at = "undefined"`), and
nothing is said of what follows. In every other case the copy is good: that a cell is left
for the next character and one for the final zero, and that what was read is still there and in its
order, is `StaysInside`.

What comes out: the lists of a text are completed one by one in the order in which they close, each
exactly once and as it is written, a nested one before the one it is in, a delayed one with its
nested ones unevaluated (`ReadsAsWritten`, a refinement of `Expressions`); a text is read without
an error exactly when it is well formed, and then a pipeline has the stages, words and
redirections that are written (`ReadsWholeText`); and a script is read no further than
the parenthesis that completes the expression being evaluated (`LeavesTheRest`), which is why a
command can read the rest of `esh < script`. All three exempt a script that ends inside a comment:
the loop that skips it leaves its last character in `chr`, and parse_file then takes it for part of
the script.

### Environment and directory

`env` has the three variables cd looks at. A directory stands for its path; others may remove
empty directories (`Remove`), also the current one, and getcwd has no answer there nor where the path
is longer than the 256 characters of register_chdir (`Deep`). register_chdir takes OLDPWD
from PWD. That is where the shell was only if PWD was right: `misled` records that it is not, because
it was set or because getcwd gave no answer at the last cd, and `strayed` that OLDPWD is not right,
because it was set or PWD was wrong at the last cd. `TracksDirectory` says that nothing else
can come between: not a cd that fails, to a removed directory or to an OLDPWD that names none, and not
the start, whatever environment the shell was given.

### The content of file objects

`Contents` has what `Files` leaves out: the characters, counted, and the flags of the file descriptions.
Flags belong to the description and so to every process that has it; a shell started from a script
has the same standard files as its parent. file-read and file-write read the flags, set O_NONBLOCK,
copy and restore, four system calls or more, and a step is one of them, in any of the shells.

What comes out: one shell by itself never waits inside a built-in except in file-read-block and in
file-open of a string longer than the pipe it is put into, where C-c does not help
(`OnlyWaitsToBlock`), and leaves the standard files without O_NONBLOCK (`FlagsComeBack`). Two shells
at once (`crossed`) do neither: the second reads the flags while the first has O_NONBLOCK set, and
restores that last. The terminal then stays non-blocking, and the next read of a prompt or a script
without input looks like its end. And file-write gives the output the flags it read from the
input, for good: an output opened to append may append no longer. Both properties say exactly that much.

### Runs

| run | instance | what it shows |
|---|---|---|
| `jobs_safety` | 3 processes, pipelines of up to 2 commands, exit status 200, one stop | the type invariant, six state invariants, two action properties, and that the list of jobs implements `JobTable` |
| `jobs_liveness` | 2 processes, otherwise the same, with fairness | the foreground wait ends; a pending child is collected; a script collects its children |
| `double_report` | 2 processes | PATCH says show_status is no longer called twice for a foreground process: it still can be |
| `pipeline_safety` | 3 children, up to 3 stages, pipes of one item, 8 descriptors, every kind of redirection | who holds which descriptor, what is forgotten |
| `pipeline_liveness` | the same with 2 pipes and no redirections, under fairness | ends of input travel, the wait and gobble return |
| `files` | 3 objects, 2 references each, 7 descriptors | file objects keep their files, nothing is lost, children get theirs |
| `evaluator` | a start-up script, then any two of 23 lines, C-c at any point, 56 chunks | counts are owners, only a replaced list dies, an interrupted evaluation does nothing and ends |
| `redefinition` | the same with one line | a definition, an alias or a prompt that replaces itself is freed while it is evaluated |
| `typecheck` | specifications of up to 4 characters and five of up to 8, lists of up to 4 arguments, those in lists counted, so up to four deep; one type of atom | what is accepted is the greedy reading |
| `reader` | all scripts of up to 5 characters, lines and strings of up to 4, and longer ones; buffers of 4 | reading implements `Expressions`, is right about errors, reads no further than it must and stays in its buffers |
| `environment` | /, /a, /a/b and a path too long; any variables at the start | PWD and OLDPWD say where the shell is and was |
| `contents` | 2 shells, a pipe of one character, texts of up to 2 | what waits, and that flags come back |

Bounds of job control. Three processes make the cases that matter: a pipeline with a survivor besides another job,
and three jobs of which one dies, so that the order of the other two shows. Two are enough for each
liveness property, which is about one job and one survivor. 200 is a status that does not fit a
signed char. One stop signal (`MaxStops`) stops either a foreground job, its survivor, or a
background job; further stops repeat those states. Deadlock is not checked because the shell really
can stop: it crashes in two places, and job_wait may wait for a process that was stopped, or whose
stop babysit already collected.

Bounds of the others. Three stages are the first pipeline with a stage that has both a predecessor
and a successor; one item fills a pipe. Eight descriptors are exactly what the largest call needs,
so any forgotten one can be missed later. Three file objects with four descriptors above the
terminal's make numbers be reused. Four characters hold a parenthesised repetition, a
repetition of lists before a sublist, or a sublist within a sublist followed by another argument of the outer one; the longer
specifications add the closing parentheses (two returns in a row, and arguments in between) and the
manual's example, `H(ss)s`, with the one type of atom there is. Four arguments are enough to satisfy
it, or to nest lists four deep; that is the bound of the run, not of the theorems.

The reader's alphabets have every character the code tells apart, and five characters hold a nested
list, a delayed one, a quoted parenthesis, a comment with one, or a stray one, with something after
it. Buffers of 4 (256 and 80 in the code) grow once or twice in texts of that length. The longer
texts have expressions after one another in one buffer and errors inside nested lists. Four
directories are enough for one to be left, removed and found missing by `cd -` or `cd ..`, with a
parent to stay. One character fills a pipe and two do not fit; two shells are the least
that disturb each other.

The evaluator's script and lines contain every built-in modelled, each definition, alias and prompt that replaces
itself, a table with two owners, nested and endless loops. Two lines are what it takes for one to
leave on the stack, or in a table, what the other works on. 56 chunks are never all in use: an
allocation without one is an error of the run, not a state left out. The run stops at the end of the
input, so deadlock is checked.

Fairness of job control. `Main` and `Babysit` are weakly fair: the shell is scheduled, and a pending SIGCHLD is
delivered. So are a child's exec and the death of a process that was sent SIGPIPE. Nothing makes a program end, stop
or continue, and nothing makes the user type a command, so no property relies on that.

Fairness of pipelines. The shell is scheduled; a program execs, reads, writes and ends at the end of
its input when it can (a program that does otherwise may keep its pipeline for ever, whatever the
shell does); the job in the foreground is hung up, as `jobs_liveness` shows. A background job's
hang-up is not assumed: babysit may have missed it.

Fairness of the evaluator. The shell runs on unless it waits for a line; nobody has to type one, or
C-c. This is weak fairness of `Step`, written with `Running` in place of `ENABLED Step` (which TLC takes
too long to evaluate). The two agree: a state that is `Running` without a step would be a deadlock
when nobody types C-c, and there is none.

### Proofs

`JobControl_proofs` proves, for any set of processes, any bound on stages and stops and any exit
statuses in 0..255:

* `TypeCorrect`: `Spec => []TypeOK`. `TypeOK` is not inductive: `<<cur>> \o jobs` is a list of
  processes only because `cur` is one whenever do_pipe registers a job. The strengthening is
  `Records`: a process never forked has no job record; a job with a status or a place on `jobs`,
  `unburied` or `jnew` has a last process; the job `main` works on is a process; while do_pipe builds
  a job it is on no list and has no status; between commands there is none; a script has no list.
* `DeadIsReaped`: `Spec => []DeadMeansLastReaped`. It rests on two lemmas over all steps: a
  collected process stays collected (`ReapedStays`), and a step that makes a job dead finds its last
  process collected (`NextBecomesDead`), which for job_wait is the case even when waitpid failed and
  show_status read garbage, because waitpid fails only for a process collected before.

Their assumptions are `KernelAssumption` and `JobAssumption`: the shell, the wait statuses and the
absent value are distinct from processes and exit statuses, and the bounds are natural numbers.

The rest goes on from there, under the same assumptions. Its invariants are layers, each
proved from the ones before (`PlacesInvariant`, `GroupsInvariant`, `SettledInvariant`,
`ValuedInvariant`):

* `NothingDangles`: `Spec => []NoDanglingJob`. That no listed job was freed is not inductive, because
  arrange_funeral frees jobs while they are listed. `Control` ties `pc` to the rest: a shell at a
  terminal serves a listed job, waits with babysit off, and a script has no list. `Burial` is the
  invariant of arrange_funeral's second loop: `unburied` is the end of `jobs`, `jnew` has those passed
  and not freed, the last one first, and whatever was freed had its last process collected. So the
  list that replaces `jobs` has no freed one and none twice.
* `GroupsAreComplete`: `Spec => []GroupComplete`. `Leads` adds where a process can be that is not
  yet in its group, in the shell's, and that a job's last process was started for its own group.
* `WaitsAlone`: `Spec => []WaitIsExclusive`. `Owns` extends the claim backwards, from job_wait to the
  moment job_foreground sets the terminal: while a member is left, the terminal stays.
* `DeadJobsAreHungUp`: `Spec => []DeadJobIsHungUp`. Every step that makes a job dead hangs up what is
  left of it (`DiesHungUp`), and no process joins it later: do_pipe forks only for a job that has no
  status yet.
* `TerminalComesBack`: `Spec => []StrayTerminalOnlyAfterDeath`. `Stray` says of all places what it says
  of the prompt: whoever has the terminal, it is the job main holds at that moment, or one whose last
  process was collected.
* `PipelinesAreWaitedFor` and `PipelineValue`, the action properties `ForegroundWaits` and
  `ForegroundValue`. The first needs `Settled`: past its wait the last process ended or stopped. The second
  needs `Valued`, which follows show_status through babysit and job_wait: a job whose end was not shown
  has the value 0, and one whose end was shown once the exit status as a signed char.
* `RefinesTable`: `Spec => ImplementsTable`, the refinement itself. Registering a job is `Launch`, the
  collection of its last process `Finish`, the swap of the lists `Drop`, and everything else stutters;
  that `Drop` keeps the order is what `Burial` says of `jnew`.

`Pipeline_proofs` proves, for any number of children, stages, pipes and descriptors and pipes of any
size (`PipelineAssumption`, `DescriptorAssumption`):

* `PipelineTypes`, `ProgramsHoldTheirEnds` and `StagesAreConnected`: `TypeOK`, `HoldsOnlyItsEnds` and
  `Connected` always hold. What a program holds at exec is what the shell had open at its fork, so the
  inductive invariant is about the shell (`ShellOK`): what it has open is the terminal, what it lost
  (`leaked`) and `Held`, the descriptors that some variable of do_pipe, parse_pipe or gobble names and will
  close, each with the end or file it should have. What was lost closes at exec or is a read end, so
  nobody gets a write end by way of it. `ForkedOK` says the same of a child before
  exec_aux, and `Orders` that the children of a job are forked one after the other, each to read what
  the one before writes. `Budget` only says that the bound on pipes leaves one for every stage to come.
* `NoStrayDescriptors`: `Spec => []NoStrayDescriptor` where `MaxFd >= 7`. Its first half is `ShellOK`
  between commands. The second, that a shell can fail to make a pipe only after it lost descriptors,
  counts: the terminal and `Held` are at most six, so a pipe finds its two. Hence the hypothesis: a
  process may have eight descriptors, where a real one may have hundreds; with fewer it is false.

`Reader_proofs` proves, for scripts and lines of any length and a first buffer of any size
(`ReaderAssumption`: the first buffer is not empty, texts are sequences of characters, none of which is the
end, and zero and what malloc leaves are not positions):

* `BufferHolds`: `Spec => []StaysInside`. Not inductive as it stands: the characters are positions
  in increasing order up to `offset` (`Kept`), there is one cell more than characters (`Room`), and
  an expression starts again at the first cell. `RoomyBuffer` is what strcpy does: it ends at the first
  zero or unwritten cell, which is behind the characters, so it takes all of them.
* `TypeCorrect`: `Spec => []TypeOK`: the position the parsers share and the parentheses in `frames` and
  `lists` stay inside the text. The heart is `TokenGood`: a call of next_token from inside the
  buffer ends inside it, behind where it began. `Tokens` is a recursive function of the index, and
  the induction theorems of the library cannot be used, so the induction is on sets: a set of natural
  numbers that is not empty has a least element (`Least`), so a set that has k whenever it has
  everything above k is all of them (`Downward`). `TypeInv` adds that the cells up to the zero
  hold characters, and what each phase leaves alone.
* `ReadsNoFurther`: `Spec => []LeavesTheRest`. parse_file counts parentheses, quotes and comments by itself;
  next_token has rules of its own; `Syntax` has a third description, by pieces. The proof places
  parse_file among the pieces of the text after every character (`PlaceOutside`, `PlaceInQuote`,
  `PlaceComment`): its depth is the depth of the pieces, and it is in a quote exactly inside a quoted
  piece. `FirstToken` does the same for next_token, which sees the buffer and not the text: the buffer
  begins behind what earlier expressions took, and a comment in it is only its newline. `ScanInv` ties
  the two: while an expression is read its first parenthesis, once there, is open, and when it is parsed
  the first parenthesis next_token finds is the one that the last character of the buffer closes. TLC
  checked `ScanInv` before it was proved.
* `ReadsWhatIsWritten`: `Spec => ReadsAsWritten`, the refinement of `Expressions`. `Complete` is its `Evaluate`
  as long as nothing was wrong, and every step that finds an error its `Fail`. The proof has four layers, each
  over texts of any length, and none needs an induction over data:
  - `TokenReads`: every token is the next piece of the text, with its characters (`Reads`), though
    next_token sees the buffer, from which parse_file left out the comments (`Follows`). `Bound` is the
    place in the text that an index of the buffer stands for.
  - `Core`: what the calls of parse_builtin hold when the text is read up to b. The calls are the lists open
    at b, outermost first (`Stacked`); a call's delay counts the tildes before its list and those around
    it (`Delayed`); its items are the elements of the list so far (`Listed`). There is a lemma for each
    kind of piece: `CoreWord`, `CoreTilde`, `CoreOpen`, `CoreClose` and `CoreUnder`, the caller's side.
  - `StandInv`, the inductive invariant. While a list is parsed and nothing was wrong (`Parses`), there is a
    place b in the text that the index stands for, `Core` holds there, with at most one call more that waits for its
    parenthesis and has the tildes before it (`Standing`), and the lists taken are those
    closed before b (`Told`). Between two expressions of a script (`Collecting`) everything before some b was taken
    and the buffer follows b. `ReadsAsWritten` says nothing of `frames`, so without this it is not inductive.
  - that `Told` makes the list taken next the one that `IsNext` asks for, and that an error is never taken
    back (`AmissStays`). The first needs `ListUnique`; that parse_file stops where the list ends is `ScanInv`.

  TLC checked `Parses` and `Collecting` on small texts before they were proved.

`Typecheck_proofs` proves, for specifications and arguments of any length, lists nested to any depth
and any types of atoms (`TypecheckAssumption`: "list" is none of them; an argument is an atom or a list whose
elements are arguments; the specifications are made of the characters, and the lists to check of arguments):

* `TypeCorrect`: `Spec => []TypeOK`, with the bound on the nested calls and on the position. It is inductive as
  it stands, but for the return, which needs that every pending call has the list left that it called for.
* `AcceptsExactly`: `Spec => []AcceptsGreedily`. The inductive invariant
  says what is still to be decided at every turn, for a stack of calls of any height (`Resumes`,
  `Awaited`): the arguments match greedily if and only if what is left of the innermost list is described
  from position `i` on, and, for each caller, what follows the list it is in from the position after
  the parenthesis that closes that list; once a call failed, that they do not match. A turn moves the
  last of these positions, `(` adds one and a return drops one. `AfterAll` takes all that a repetition
  can, which is why the meaning is the greedy one (`CountsMany`), and what is described greedily is
  described as the manual means it (the lemma `GreedyIsLiberal`, by induction over the positions of the
  specification, from its end, done with sets as in `Reader_proofs`).

`Environment_proofs` proves, for any tree of directories, any of them too long for getcwd, and any
environment at the start (`EnvironmentAssumption`: the root is a directory, each has a parent, and the
names `..`, `-` and the absent value are none):

* `TypeCorrect`: `Spec => []TypeOK`.
* `DirectoryTracked`: `Spec => []TracksDirectory`. Its inductive invariant adds the types, and that
  before init_shell called register_chdir nothing is trusted and the shell has not moved: without that
  the first registration could take the PWD the shell was given for a directory it was in. `RegisterOld`
  is the heart: register_chdir makes OLDPWD what PWD was, so it is right when PWD was.

`Files_proofs` proves, for any number of file objects, of references to each and of descriptors
(`DescriptorAssumption`: there are at least the terminal's three; `FilesAssumption`: a table can name
every object's file):

* `TypeCorrect`, `FilesKept`, `NothingLost` and `ChildrenConnected`: `TypeOK`, `KeepsItsFile`,
  `NoDescriptorLost` and `RunConnects` always hold. Together they are not inductive. `Ground` adds
  that the terminal's descriptors are never closed and no object has one of them, that every other one
  closes at exec, and that the handler is never descriptor 0. `Apart` then follows: while objects
  keep their files, no two have a descriptor in common, so the last release of one takes nothing from
  another. A release (`DroppedBase`) and every other step that opens nothing (`NothingNewBase`) are
  each shown once, and drop, copy and stderr-handler follow.
* `ChildrenConnected` rests on `RedirectedTable` of `Descriptors_proofs`: the three calls of dup2_aux
  in exec_aux fail only when a descriptor above 2 is wanted twice, and otherwise exec leaves the
  three files and nothing else.

`Contents_proofs` proves, for any number of shells, pipes of any size and texts of any length
(`ContentsAssumption`):

* `TypeCorrect`, `FlagsRestored` and `WaitsOnlyToBlock`: `TypeOK`, `FlagsComeBack` and
  `OnlyWaitsToBlock` always hold. The strengthening has two parts. `Places`: the
  opened string is in its pipe but for what is left to write. `Clean`, until two shells meet
  (`crossed`): a description has one shell between its F_GETFL and its last F_SETFL, that shell saved
  the flags the input had at the start, and a description nobody is at has its own, or those of the input where
  file-write has put them.

Model-checked only:

* Evaluator's properties: that counts are owners, that only a replaced list dies, and what C-c leaves alone.
  They rest on what the walks over the heap (`Chain`, `Reached`) compute, which are recursive
  along pointers, and on sums of counts over all chunks, for which the library has no theorems; and every
  allocation needs a free chunk, which only the run's bound gives.
* `ReadsWholeText`: that an error is reported exactly where the text is not well formed, and what a command line and
  split make of theirs. `StandInv` says where a text without errors is, not what is wrong with any other.
* Liveness, under fairness: `jobs_liveness`, `pipeline_liveness`, and that an interrupted evaluation ends.

## Differences from the documents

Two are findings with a run (`double_report`, `redefinition`). The others were met while
translating; the modules follow the code.

* A script gets 0 as the value of every foreground pipeline, although it is its exit status
  (doc/esh.texi:239-241): job_wait does not call show_status there (`ForegroundValue`).
* fg and bg one past the last job: nth_job stops one step late and takes the data of no cell
  (builtins.c:920). The state is in `JobControl` (`pc = "nulljob"`), and the shell ends there.
* Once a stderr handler is defined, all executables should use it (doc/esh.texi:894-896); one whose input
  or output is the handler's own file does not run, as its redirection fails (esh.c:433).
* `*` in a specification, and the capital letters, match any number of arguments
  (doc/esh.texi:1083-1090), but not none.
* chop! returns its argument according to CHANGELOG:34, but only when it was empty; otherwise nothing
  (builtins.c:2223).
* file-read returns the entire contents of a file (doc/esh.texi:727), but from the offset on that the
  descriptors of the file share, and of a pipe what is there; file-write drops what does not fit.
* A line that begins with a pipe symbol or a redirection is allowed by the grammar
  (doc/esh.texi:360-376) and is an error (parse_command); so are two redirections of one kind.
* A line with a quote that is not closed reports an error and runs what comes before the quote.
* After an error in a nested list the command around it still runs, with an empty list in its place.
* split loses a word that directly follows a closing quote.
* No document speaks of it, but growing a buffer depends on what malloc returned: see Reading on `Overrun`.
* A comment that the end of a script cuts short has its last character read as part of the script.

## Not modelled

* Arithmetic, comparison of numbers, substring? and match: pure functions of strings, with the widths of
  the C library's conversions. Nothing else depends on what they return.
* globbify, which evaluates the nested commands among a stage's words and expands patterns before exec:
  what evaluation does is `Evaluator`'s, glob is the library's.
* script and a script read from standard input: the former is parse_file inside do_builtin, both of
  which are modelled, but in two modules.
* The buffers of next_token and ls_strcat, which end their string before they copy it.
* The hash function, and keys that share a bucket.
* Commands that only look at state: jobs, alive?, get, file-type ...
* Line input by readline, completion, bold output, the Emacs mode: input and output, with no state of the
  shell's own.

## Plan

Done so far: job control with the proofs of all its invariants, of its action properties and of its
refinement; the plumbing with the proofs of all its invariants; file objects, their contents, the type
checker, environment and directory with the proofs of all their properties; memory and the evaluator; reading,
with the proofs of its types, its buffers, how far it reads and its refinement. What is left:

1. A composition of `Reader` with `Evaluator` (script inside a command), once there is an instance of it
   small enough to check.
2. Proofs about memory: an abstract specification of counts and owners that `Heap`'s calls implement.
   `Chain` and `Reached` are recursive over the heap, so what they compute stays with TLC, and the
   lemmas take them as given sequences.
