------------------------------- MODULE Buffer -------------------------------
(***************************************************************************)
(* The buffers that grow under a loop reading one character at a time:     *)
(* parse_file of esh.c, read_read of read-stdio.c and file_read of esh.c   *)
(* share these lines.  A buffer is a sequence of cells; the characters     *)
(* stored are the first i cells.                                           *)
(*                                                                         *)
(* The copy into a larger buffer is strcpy's, although nothing has ended   *)
(* the string yet: it takes what follows the characters up to the first    *)
(* zero, and when no cell is one it runs past the end.  Memory fresh from  *)
(* malloc may hold anything, a zero too.                                   *)
(***************************************************************************)
LOCAL INSTANCE Naturals
LOCAL INSTANCE Sequences

CONSTANTS NUL,  \* the terminating zero
          Junk  \* the content of a cell never written

Fresh(len) == [k \in 1 .. len |-> Junk]

BugFull(b, i) == i > Len(b)
IsFull(b, i) == i + 2 >= Len(b)

(* Where strcpy may find the end of b.                                      *)
Ends(b) == {k \in 1 .. Len(b) : /\ b[k] \in {NUL, Junk}
                                /\ \A j \in 1 .. k - 1 : b[j] # NUL}
Unterminated(b) == \A k \in 1 .. Len(b) : b[k] # NUL

Copied(b, e) ==
  [k \in 1 .. 2 * Len(b) |-> IF k < e THEN b[k] ELSE IF k = e THEN NUL ELSE Junk]

(* The buffers in which the next character can be stored, after i of them;  *)
(* and whether the copy may run past the end instead.                       *)
Roomy(b, i)   == IF IsFull(b, i) THEN {Copied(b, e) : e \in Ends(b)} ELSE {b}
Overruns(b, i) == IsFull(b, i) /\ Unterminated(b)

Stored(b, i, c)  == [b EXCEPT ![i + 1] = c]
Terminated(b, i) == [b EXCEPT ![i + 1] = NUL]
==============================================================================
