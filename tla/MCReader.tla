----------------------------- MODULE MCReader -----------------------------
(***************************************************************************)
(* The texts TLC reads with module Reader: all the short ones, and some    *)
(* longer.                                                                 *)
(***************************************************************************)
EXTENDS Reader

CONSTANTS MaxScript, MaxLine, MaxString  \* bounds on the length of a text

Texts(S, n) == UNION {[1 .. k -> S] : k \in 0 .. n}

(* Longer ones: expressions after one another in one buffer, lists delayed  *)
(* in delayed lists, and errors within lists.                               *)
Long == {
  <<"(", "a", ")", "#", ")", "\n", "(", "(", "a", ")", "a", ")", " ", "(", ")">>,
  <<"(", "~", "(", "a", "~", "(", ")", ")", "(", "a", ")", "'", ")", "'", ")">>,
  <<"(", "(", "~", " ", "(", "(", ")", ")", ")", "(", "a", "\"", "(", "\"", ")", ")">>,
  <<"(", "a", "(", "a", "\\", "a", ")", "a", ")", "(", "a", ")">>,
  <<"(", "~", "a", "(", "a", ")", ")", ")", "(", "a", ")">>,
  <<"(", "'", "a", "#", "\"", "'", "a", "#", "'", "\n", ")", "a">>}

MCScripts  == Long \cup Texts({"(", ")", "~", "'", "#", "\n", "a"}, MaxScript)
MCCmdLines == Texts({"(", ")", "'", " ", "a", ",", "<", ">"}, MaxLine)
                \cup {<<"a", " ", "a", ",", "a", "<", "'", "a", "'", ">", "a">>,
                      <<"a", "<", "a", "<", "a">>, <<"a", "<", "a", " ", "a", ">", "a">>}
MCStrings  == Long \cup Texts({"(", ")", "~", "\\", "\"", " ", ",", "a"}, MaxString)
==============================================================================
