----------------------------- MODULE Descriptors -----------------------------
(***************************************************************************)
(* Tables of file descriptors, as Pipeline and Files use them: what open,  *)
(* pipe, close, dup2, fork and exec do to one (external), and the helpers  *)
(* close_aux and dup2_aux of esh.c with the three redirections exec_aux    *)
(* makes in a child.                                                       *)
(***************************************************************************)
EXTENDS Integers, FiniteSets

CONSTANTS MaxFd,    \* the largest descriptor a process may have
          MaxFile   \* bound on the open files besides the terminal

ASSUME DescriptorAssumption ==
  /\ MaxFd \in Nat /\ MaxFd >= 2
  /\ MaxFile \in Nat

Fd       == 0 .. MaxFd
Standard == 0 .. 2
Invalid  == -1              \* what a failed open returns

(* What a descriptor refers to: the terminal, or one end of file n, where a *)
(* regular file has the one end "file" and a pipe the ends "read", "write". *)
Entry  == [end : {"none", "tty", "file", "read", "write"},
           of : 0 .. MaxFile, cloexec : BOOLEAN]
Table  == [Fd -> Entry]
Closed == [end |-> "none", of |-> 0, cloexec |-> FALSE]
Tty    == [end |-> "tty", of |-> 0, cloexec |-> FALSE]

Open(t)      == {fd \in Fd : t[fd] # Closed}
Free(t)      == Fd \ Open(t)
Lowest(t)    == CHOOSE fd \in Free(t) : \A other \in Free(t) : fd <= other
Holds(t, end, n) == \E fd \in Fd : t[fd].end = end /\ t[fd].of = n

NoTable      == [fd \in Fd |-> Closed]
InitialTable == [fd \in Fd |-> IF fd \in Standard THEN Tty ELSE Closed]

(* open, pipe (the read end is allocated first), close and exec.            *)
Install(t, end, n, cloexec) ==
  [t EXCEPT ![Lowest(t)] = [end |-> end, of |-> n, cloexec |-> cloexec]]
NewPipe(t, n, cloexec) ==
  Install(Install(t, "read", n, cloexec), "write", n, cloexec)
Close(t, fd) == IF fd \in Fd THEN [t EXCEPT ![fd] = Closed] ELSE t
Execed(t)    == [fd \in Fd |-> IF t[fd].cloexec THEN Closed ELSE t[fd]]

CloseAux(t, fd) == IF fd \in Standard THEN t ELSE Close(t, fd)

(* The table after dup2_aux(old, new), or Failed: the process exits.  The   *)
(* copy stays open across exec even when the original would not.            *)
Failed == [ok |-> FALSE, table |-> NoTable]
Dup2Aux(s, old, new) ==
  IF ~s.ok \/ old = new THEN s
  ELSE IF old \notin Open(s.table) THEN Failed
  ELSE [ok |-> TRUE,
        table |-> CloseAux([s.table EXCEPT ![new] =
                              [s.table[old] EXCEPT !.cloexec = FALSE]], old)]

Redirected(t, in, out, err) ==
  Dup2Aux(Dup2Aux(Dup2Aux([ok |-> TRUE, table |-> t], in, 0), out, 1), err, 2)
==============================================================================
