------------------------------ MODULE JobTable ------------------------------
(***************************************************************************)
(* What the list of jobs promises, whoever changes it: a job enters at the *)
(* head, once; it leaves only after its last process has ended and been    *)
(* collected; and the jobs that stay keep their order.                     *)
(***************************************************************************)
EXTENDS Sequences, SequencesExt

CONSTANT Id

VARIABLES table,    \* the jobs the shell knows, the most recent one first
          over,     \* the jobs whose last process was collected
          gone      \* the jobs that left the table

Init == table = <<>> /\ over = {} /\ gone = {}

Launch(j) ==
  /\ j \notin gone \cup Range(table)
  /\ table' = <<j>> \o table
  /\ UNCHANGED <<over, gone>>

Finish(j) ==
  /\ j \notin over
  /\ over' = over \cup {j}
  /\ UNCHANGED <<table, gone>>

(* The elements of s come one after the other in t: with no repetition in   *)
(* t, s is t without some of its elements.                                  *)
InOrder(s, t) ==
  \A m, n \in 1 .. Len(s) : m < n =>
    \E k, l \in 1 .. Len(t) : k < l /\ s[m] = t[k] /\ s[n] = t[l]

Drop(dead) ==
  /\ dead \subseteq over \cap Range(table)
  /\ table' \in Seq(Id)
  /\ Range(table') = Range(table) \ dead
  /\ InOrder(table', table)
  /\ gone' = gone \cup dead
  /\ UNCHANGED over

Next ==
  \/ \E j \in Id : Launch(j) \/ Finish(j)
  \/ \E dead \in SUBSET Id : Drop(dead)

Spec == Init /\ [][Next]_<<table, over, gone>>
=============================================================================
