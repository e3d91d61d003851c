---------------------------- MODULE Expressions ----------------------------
(***************************************************************************)
(* What reading a text promises, without a parser: its lists are taken     *)
(* whole, each once, in the order in which their parentheses close, so     *)
(* that a nested command has run before the one it is an argument of.      *)
(* When an error was reported nothing is promised of the lists after it.   *)
(***************************************************************************)
EXTENDS Naturals, Sequences, Syntax

VARIABLES text, fancy,  \* what is read, and whether pipes are syntax in it
          lists,        \* the lists completed so far
          failed        \* an error was reported

Init == lists = <<>> /\ failed \in BOOLEAN

(* The next parenthesis that closes a list.                                 *)
IsNext(c) == \A b \in Closes(text, fancy) :
               b < c <=> \E n \in DOMAIN lists : lists[n].to = b

Evaluate ==
  /\ ~failed /\ UNCHANGED failed
  /\ \E c \in Closes(text, fancy), o \in Opens(text, fancy) :
       /\ IsNext(c) /\ IsList(text, fancy, o, c)
       /\ lists' = Append(lists, ListAt(text, fancy, o, c))

Fail == ~failed /\ failed' = TRUE /\ UNCHANGED lists

AfterFailure ==
  /\ failed /\ UNCHANGED failed
  /\ Len(lists') = Len(lists) + 1 /\ SubSeq(lists', 1, Len(lists)) = lists

Next == Evaluate \/ Fail \/ AfterFailure

Spec == Init /\ [][Next]_<<lists, failed>> /\ [][UNCHANGED text]_text
==============================================================================
