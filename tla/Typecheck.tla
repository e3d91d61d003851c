----------------------------- MODULE Typecheck -----------------------------
(***************************************************************************)
(* typecheck_aux of builtins.c, which every built-in calls before it takes *)
(* its arguments apart: it walks a type specification and a list of        *)
(* arguments together, calls itself for a sublist, and the call shares the *)
(* position in the specification with its caller.  A step is one turn of   *)
(* the loop, or a return.                                                  *)
(*                                                                         *)
(* Against it, what a specification means is defined over its structure:   *)
(* Matches as the manual has it, MatchesGreedily as the code does.         *)
(*                                                                         *)
(* As in JobControl, Bug... is a fault for the mutants of PROJECT.json.    *)
(***************************************************************************)
EXTENDS Integers, Sequences

CONSTANTS Types,     \* types of arguments other than lists
          Argument,  \* what may be an argument, or an element of one
          Specs,     \* the specifications to check
          Arguments  \* the lists of arguments to check

(* The characters of a specification: s, l, h, b, f and p name one type, S, *)
(* L, H, B, F and P any number of a type, and the others are themselves.    *)
One(t)  == [kind |-> "one", type |-> t]
Many(t) == [kind |-> "many", type |-> t]
Sign(k) == [kind |-> k, type |-> "none"]
Token   == {One(t) : t \in Types \cup {"list"}}
             \cup {Many(t) : t \in Types \cup {"list"}}
             \cup {Sign(k) : k \in {"any", "rest", "open", "close", "bad"}}

(* An argument has a type, and its data if it is a list: arguments again,   *)
(* so that lists nest to whatever depth.                                    *)
ASSUME TypecheckAssumption ==
  /\ "list" \notin Types
  /\ \A a \in Argument : /\ a.type \in Types \cup {"list"}
                         /\ a.type = "list" => a.data \in Seq(Argument)
  /\ Specs \subseteq Seq(Token)
  /\ Arguments \subseteq Seq(Argument)

VARIABLES tspec,  \* the specification
          arg,    \* the list given to typecheck
          i,      \* the position shared by all calls
          data,   \* data[k]: what the k-th of the nested calls has left
          err,    \* err of the innermost call, or the value it returned
          done    \* typecheck returned

vars == <<tspec, arg, i, data, err, done>>

Init ==
  /\ tspec \in Specs
  /\ arg \in Arguments
  /\ i = 1 /\ data = <<arg>> /\ err = 0 /\ done = FALSE

(* The terminating zero of the string ends a specification.                 *)
SpecAt(s, n) == IF n <= Len(s) THEN s[n] ELSE Sign("end")
Char  == SpecAt(tspec, i)
Left  == data[Len(data)]
SetLeft(d) == data' = [data EXCEPT ![Len(data)] = d]
Inside == ~done /\ err = 0 /\ i <= Len(tspec) + 1 /\ Left # <<>>
Same   == UNCHANGED <<tspec, arg, done>>

-----------------------------------------------------------------------------
(* One turn of the loop, by the character and the first argument left       *)

Fail(e) == err' = e /\ i' = i + 1 /\ UNCHANGED data /\ Same

CheckOne ==
  /\ Inside /\ Char.kind = "one"
  /\ IF Head(Left).type = Char.type
     THEN SetLeft(Tail(Left)) /\ i' = i + 1 /\ UNCHANGED err /\ Same
     ELSE Fail(1)

CheckAny ==
  /\ Inside /\ Char.kind = "any"
  /\ SetLeft(Tail(Left)) /\ i' = i + 1 /\ UNCHANGED err /\ Same

CheckRest ==
  /\ Inside /\ Char.kind = "rest"
  /\ SetLeft(<<>>) /\ i' = i + 1 /\ UNCHANGED err /\ Same

(* The arguments after the leading ones of type t.                          *)
BugOne(d, t) == Tail(d)
AfterAll(d, t) ==
  LET n == CHOOSE k \in 0 .. Len(d) :
             /\ \A j \in 1 .. k : d[j].type = t
             /\ k < Len(d) => d[k + 1].type # t
  IN SubSeq(d, n + 1, Len(d))

CheckMany ==
  /\ Inside /\ Char.kind = "many"
  /\ IF Head(Left).type = Char.type
     THEN /\ SetLeft(AfterAll(Left, Char.type))
          /\ i' = i + 1 /\ UNCHANGED err /\ Same
     ELSE Fail(1)

CheckClose == Inside /\ Char.kind \in {"close", "end"} /\ Fail(2)
CheckBad   == Inside /\ Char.kind = "bad" /\ Fail(4)

(* A sublist is checked by a call that starts after the parenthesis.        *)
CheckOpen ==
  /\ Inside /\ Char.kind = "open"
  /\ IF Head(Left).type = "list"
     THEN /\ data' = Append(data, Head(Left).data)
          /\ i' = i + 1 /\ UNCHANGED err /\ Same
     ELSE Fail(1)

(* What a call returns when it cannot go on: err, or the reason it stopped. *)
Outcome(e) ==
  IF e # 0 THEN e
  ELSE IF Left # <<>> THEN 2
  ELSE IF i <= Len(tspec) /\ Char.kind # "close" THEN 3
  ELSE 0

(* The caller goes on after the list and after the parenthesis that closed  *)
(* it, where the shared position is.                                        *)
BugSkips(n) == n + 2
Resumed(n) == n + 1

ReturnFrom ==
  /\ ~done
  /\ err # 0 \/ Left = <<>> \/ i > Len(tspec) + 1
  /\ err' = Outcome(err)
  /\ UNCHANGED <<tspec, arg>>
  /\ IF Len(data) = 1
     THEN done' = TRUE /\ UNCHANGED <<i, data>>
     ELSE /\ i' = Resumed(i)
          /\ data' = [k \in 1 .. Len(data) - 1 |->
                        IF k = Len(data) - 1 THEN Tail(data[k]) ELSE data[k]]
          /\ UNCHANGED done

Next == \/ CheckOne \/ CheckAny \/ CheckRest \/ CheckMany \/ CheckOpen
        \/ CheckClose \/ CheckBad \/ ReturnFrom

Spec == Init /\ [][Next]_vars

-----------------------------------------------------------------------------
(* What a specification means                                               *)

(* f[n], for every position n of a specification s, is what is said of it   *)
(* by what follows it.  This one: the position after the parenthesis that   *)
(* closes the list n is in, or after the end.                               *)
Past(s, f, n) ==
  CASE SpecAt(s, n).kind = "end"   -> n
    [] SpecAt(s, n).kind = "close" -> n + 1
    [] SpecAt(s, n).kind = "open"  -> f[f[n + 1]]
    [] OTHER -> f[n + 1]
AfterClose(s) == LET f[n \in 1 .. Len(s) + 1] == Past(s, f, n) IN f

Rest(d, k) == SubSeq(d, k + 1, Len(d))

(* How many of d the repetition c may take: any number, or, greedily, all   *)
(* the leading ones of its type and at least one.                           *)
Repeats(c, a) == c.kind = "rest" \/ a.type = c.type
Counts(d, c, greedy) ==
  LET may == {k \in 0 .. Len(d) : \A j \in 1 .. k : Repeats(c, d[j])}
  IN IF greedy THEN {k \in may \ {0} : \A j \in may : j <= k} ELSE may

(* The specification from n on, up to the end of its list, describes d.     *)
Fits(s, f, n, d, greedy) ==
  LET c == SpecAt(s, n) IN
  \/ c.kind \in {"end", "close"} /\ d = <<>>
  \/ /\ c.kind \in {"many", "rest"}
     /\ \E k \in Counts(d, c, greedy) : Rest(d, k) \in f[n + 1]
  \/ c.kind = "any" /\ d # <<>> /\ Tail(d) \in f[n + 1]
  \/ c.kind = "one" /\ d # <<>> /\ Head(d).type = c.type /\ Tail(d) \in f[n + 1]
  \/ /\ c.kind = "open" /\ d # <<>> /\ Head(d).type = "list"
     /\ Head(d).data \in f[n + 1]
     /\ Tail(d) \in f[AfterClose(s)[n + 1]]
Described(s, greedy) ==
  LET f[n \in 1 .. Len(s) + 1] == {d \in Seq(Argument) : Fits(s, f, n, d, greedy)} IN f

Matches(d)         == d \in Described(tspec, FALSE)[1]
MatchesGreedily(d) == d \in Described(tspec, TRUE)[1]

-----------------------------------------------------------------------------
(* Properties                                                               *)

(* The variables keep their types.  A call starts after the parenthesis of  *)
(* its list and a return moves the position, so the calls never nest deeper *)
(* than the position is far, and it never passes the terminating zero by    *)
(* more than the specification is long and one.                             *)
TypeOK ==
  /\ data \in Seq(Seq(Argument)) /\ Len(data) \in 1 .. i
  /\ i \in Nat /\ i + Len(data) <= 2 * Len(tspec) + 3
  /\ err \in 0 .. 4
  /\ done \in BOOLEAN

(* The check accepts exactly what the specification describes when every    *)
(* repetition takes all the arguments it can, and at least one; so what     *)
(* passes matches the specification as the manual defines it, which every   *)
(* built-in relies on when it takes its arguments apart.                    *)
AcceptsGreedily ==
  done => /\ err = 0 <=> MatchesGreedily(arg)
          /\ err = 0 => Matches(arg)
==============================================================================
