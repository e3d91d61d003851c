---------------------------- MODULE MCEvaluator ----------------------------
(***************************************************************************)
(* Commands for Evaluator: W is a word, L a list and D a list with a tilde.*)
(***************************************************************************)
EXTENDS Evaluator

W(t) == [kind |-> "word", text |-> t, items |-> <<>>]
L(i) == [kind |-> "list", text |-> "", items |-> i]
D(i) == [kind |-> "delayed", text |-> "", items |-> i]

(* ~/.eshrc: a command h that returns a table, a command f that takes one   *)
(* value off its stack, an alias g, and a line with the rest of the list    *)
(* built-ins.                                                               *)
MCScript == <<
  <<W("define"), W("h"), L(<<W("my_hash_make")>>)>>,
  <<W("define"), W("f"), D(<<W("pop")>>)>>,
  <<W("alias"), W("g"), D(<<W("push"), L(<<W("top")>>)>>)>>,
  <<W("my_list"), L(<<W("my_hash_keys"), L(<<W("alias_hash")>>)>>),
    L(<<W("my_car"), D(<<W("a")>>)>>), L(<<W("cdr"), L(<<W("list_cdr"), D(<<W("c"), W("a"), W("b")>>)>>)>>),
    L(<<W("unlist"), D(<<W("a"), W("b")>>)>>),
    L(<<W("builtin"), W("reverse"), L(<<W("my_null")>>), L(<<W("my_void")>>), W("a")>>)>>,
  <<W("my_list"), L(<<W("squish"), W("a"), L(<<W("my_list"), W("b")>>), L(<<W("chars"), W("ab")>>)>>),
    L(<<W("equal_p"), W("a"), L(<<W("my_clone"), W("a"), W("1")>>)>>),
    L(<<W("not"), L(<<W("my_null_p"), L(<<W("my_list")>>)>>)>>),
    L(<<W("my_not_null_p"), L(<<W("my_car_l"), W("a"), W("b")>>)>>),
    L(<<W("chop_nl"), L(<<W("squish")>>)>>), L(<<W("chop_nl"), W("a\n")>>)>> >>

MCLines == {
  <<W("f"), W("a"), W("b")>>,
  \* a command that replaces itself, before its last element
  <<W("define"), W("f"), D(<<W("define"), W("f"), W("a")>>), W("b")>>,
  \* the same for the prompt
  <<W("set_prompt"), D(<<W("set_prompt"), W("a")>>)>>,
  \* values on the stack, and the stack among its own values
  <<W("push"), D(<<W("f"), D(<<W("f")>>)>>)>>,
  <<W("push"), L(<<W("list_stack")>>)>>,
  <<W("pop")>>,
  <<W("rot")>>,
  \* a table with two owners
  <<W("push"), L(<<W("h")>>)>>,
  <<W("my_hash_put"), L(<<W("h")>>), W("a"), L(<<W("my_stack")>>), W("b")>>,
  <<W("my_hash_get"), L(<<W("top")>>), W("a")>>,
  \* the table of aliases
  <<W("push"), L(<<W("alias_hash")>>)>>,
  <<W("my_hash_put"), L(<<W("alias_hash")>>), W("g"), D(<<W("alias"), W("g"), D(<<W("f")>>)>>)>>,
  \* evaluation
  <<W("my_eval"), D(<<W("begin"), L(<<W("f"), W("a")>>), D(<<W("b")>>)>>)>>,
  <<W("exec"), D(<<W("a"), W("b")>>), D(<<W("rot")>>), D(<<W("pop")>>)>>,
  <<W("my_if"), L(<<W("pop")>>), D(<<W("top")>>), W("a")>>,
  <<W("my_while"), D(<<W("top")>>), D(<<W("pop")>>), L(<<W("my_true")>>), L(<<W("my_false")>>)>>,
  <<W("my_while"), D(<<W("rot")>>), D(<<W("f"), L(<<W("top")>>)>>), W("a"), W("b")>>,
  <<W("and"), D(<<W("pop")>>), D(<<W("defined_p"), W("e")>>), W("a")>>,
  <<W("or"), D(<<W("my_false")>>), D(<<W("f")>>)>>,
  <<W("repeat"), W("2"), D(<<W("push"), L(<<W("my_clone"), W("a"), W("2")>>)>>)>>,
  <<W("filter"), W("ab"), D(<<W("push"), L(<<W("pop")>>), L(<<W("top")>>)>>)>>,
  \* the keys of a table, cut where they are
  <<W("chop"), L(<<W("my_hash_keys"), L(<<W("alias_hash")>>)>>)>> }

MCNumeral == [t \in {"1", "2"} |-> IF t = "1" THEN 1 ELSE 2]

MCTyped == {<<"g", "a">>}
=============================================================================
