------------------------------- MODULE Syntax -------------------------------
(***************************************************************************)
(* The syntax of esh as the characters of a text have it, without a        *)
(* parser: the grammar of doc/esh.texi:345-376 and the quotes and comments *)
(* of its chapter on quoting.  A text is a sequence of characters.  fancy  *)
(* says whether pipes and redirections are part of the syntax, as they are *)
(* on a command line.                                                      *)
(***************************************************************************)
EXTENDS Integers, Sequences, FiniteSets

Blank  == {" ", "\n"}
Quotes == {"'", "\""}
Fancy  == {",", "<", ">"}
Special(fancy) ==
  {"(", ")", "~", "\\", "#"} \cup Quotes \cup (IF fancy THEN Fancy ELSE {})

(* The first position from k on that holds one of S, or the end of s.       *)
Until(s, S, k) ==
  CHOOSE e \in k .. Len(s) + 1 :
    /\ \A j \in k .. e - 1 : s[j] \notin S
    /\ e <= Len(s) => s[e] \in S

(* The position after the piece of s that starts at k: a quoted string, a   *)
(* comment, a plain word, or one blank or special character.                *)
After(s, fancy, k) ==
  CASE s[k] \in Quotes -> Until(s, {s[k]}, k + 1) + 1
    [] s[k] = "#"      -> Until(s, {"\n"}, k)
    [] s[k] \in (Blank \cup Special(fancy)) \ (Quotes \cup {"#"}) -> k + 1
    [] OTHER           -> Until(s, Blank \cup Special(fancy), k)

(* The positions where a piece that means something starts.                 *)
PiecesFrom(s, fancy) ==
  LET from[k \in 1 .. Len(s) + 2] ==
        IF k > Len(s) THEN {}
        ELSE from[After(s, fancy, k)]
               \cup (IF s[k] \in Blank \cup {"#"} THEN {} ELSE {k})
  IN from
Pieces(s, fancy) == PiecesFrom(s, fancy)[1]

IsWord(s, fancy, p) == s[p] \notin Special(fancy) \ Quotes
OpenQuote(s, fancy) == \E p \in Pieces(s, fancy) :
                         s[p] \in Quotes /\ After(s, fancy, p) > Len(s) + 1
OpenComment(s, fancy) == \E k \in 1 .. Len(s) :
  /\ s[k] = "#" /\ Until(s, {"\n"}, k) > Len(s)
  /\ \A p \in Pieces(s, fancy) : p < k => After(s, fancy, p) <= k

(* The positions of the characters of the word at p.                        *)
Word(s, fancy, p) ==
  LET quoted == s[p] \in Quotes
      from == IF quoted THEN p + 1 ELSE p
      to   == After(s, fancy, p) - (IF quoted THEN 2 ELSE 1)
  IN [k \in 1 .. to - from + 1 |-> from + k - 1]

(* The elements of a set of positions, in order.                            *)
InOrder(P) == [n \in 1 .. Cardinality(P) |->
                 CHOOSE p \in P : Cardinality({q \in P : q < p}) = n - 1]

Opens(s, fancy)  == {p \in Pieces(s, fancy) : s[p] = "("}
Closes(s, fancy) == {p \in Pieces(s, fancy) : s[p] = ")"}
Depth(s, fancy, p) == Cardinality({o \in Opens(s, fancy) : o < p})
                        - Cardinality({c \in Closes(s, fancy) : c < p})

(* A list is the parenthesis at o with the one at c that closes it.         *)
IsList(s, fancy, o, c) ==
  /\ o \in Opens(s, fancy) /\ c \in Closes(s, fancy) /\ o < c
  /\ Depth(s, fancy, c) = Depth(s, fancy, o) + 1
  /\ \A p \in Opens(s, fancy) : o < p /\ p < c => Depth(s, fancy, p) > Depth(s, fancy, o)

(* The piece after the tilde at t, and the tildes that delay the list at o: *)
(* its own and those of the lists around it.                                *)
PieceAfter(s, fancy, t) == CHOOSE p \in Pieces(s, fancy) \cup {Len(s) + 1} :
  t < p /\ \A q \in Pieces(s, fancy) : t < q => p <= q
Delay(s, fancy, o) ==
  Cardinality({t \in Pieces(s, fancy) :
    /\ s[t] = "~" /\ t < o
    /\ LET e == PieceAfter(s, fancy, t)
       IN e <= o /\ \A c \in Closes(s, fancy) : c < o => ~IsList(s, fancy, e, c)})

(* What is in a list: words, the lists that are kept, and in the place of   *)
(* any other list its value.                                                *)
Item(kind, at, flag) == [kind |-> kind, at |-> at, flag |-> flag]
Element(s, fancy, p) ==
  IF IsWord(s, fancy, p) THEN Item("word", Word(s, fancy, p), 0)
  ELSE LET d == Delay(s, fancy, p)
       IN Item(IF d = 0 THEN "value" ELSE "list", <<p>>, d)
ListAt(s, fancy, o, c) ==
  LET inside == {p \in Pieces(s, fancy) :
                   /\ o < p /\ p < c /\ s[p] \notin {")", "~"}
                   /\ Depth(s, fancy, p) = Depth(s, fancy, o) + 1}
      items  == InOrder(inside)
  IN [from |-> o, to |-> c, delay |-> Delay(s, fancy, o),
      items |-> [n \in DOMAIN items |-> Element(s, fancy, items[n])]]

-----------------------------------------------------------------------------
(* Well-formed texts                                                        *)

(* Parentheses match, a tilde stands in a list and before another, and the  *)
(* characters that mean nothing in a list are not in one.                   *)
GoodLists(s, fancy) ==
  /\ ~OpenQuote(s, fancy)
  /\ \A o \in Opens(s, fancy) : \E c \in Closes(s, fancy) : IsList(s, fancy, o, c)
  /\ \A p \in Pieces(s, fancy) :
       IF Depth(s, fancy, p) > 0
       THEN /\ s[p] \notin {"\\"} \cup (IF fancy THEN Fancy ELSE {})
            /\ s[p] = "~" => PieceAfter(s, fancy, p) \in Opens(s, fancy)
       ELSE s[p] # ")"

(* A script is lists; what follows the last of them is read by nobody.      *)
IsScript(s) ==
  /\ GoodLists(s, FALSE)
  /\ \A p \in Pieces(s, FALSE) \ Opens(s, FALSE) :
       Depth(s, FALSE, p) = 0 => \A o \in Opens(s, FALSE) : o < p

StartsList(s) == \E o \in Opens(s, TRUE) : \A p \in Pieces(s, TRUE) : o <= p
IsOneList(s, fancy) ==
  /\ GoodLists(s, fancy) /\ StartsList(s)
  /\ \A p \in Pieces(s, fancy) :
       Depth(s, fancy, p) = 0 <=> \A q \in Pieces(s, fancy) : p <= q

(* A pipeline: words, the first piece one of them, with commas between the  *)
(* stages, and at the end at most one redirection each way.                 *)
Signs(s, S) == {p \in Pieces(s, TRUE) : s[p] \in S}
IsPipe(s) ==
  /\ \A p \in Pieces(s, TRUE) : IsWord(s, TRUE, p) \/ s[p] \in Fancy
  /\ ~OpenQuote(s, TRUE)
  /\ \A p \in Signs(s, Fancy) : \E w \in Pieces(s, TRUE) : w < p /\ IsWord(s, TRUE, w)
  /\ \A g \in {"<", ">"} : Cardinality(Signs(s, {g})) <= 1
  /\ \A p \in Signs(s, {"<", ">"}) :
       LET files == {q \in Pieces(s, TRUE) : q > p /\ \A r \in Signs(s, Fancy) :
                                                        r > p => q < r}
       IN Cardinality(files) = 1 /\ \A c \in Signs(s, {","}) : c < p

WordsIn(s, P) == LET w == InOrder({p \in P : IsWord(s, TRUE, p)})
                 IN [n \in DOMAIN w |-> Word(s, TRUE, w[n])]
Stages(s) ==
  LET P     == Pieces(s, TRUE)
      comma(p) == Cardinality({c \in Signs(s, {","}) : c < p})
      plain == {p \in P : \A r \in Signs(s, {"<", ">"}) : p < r}
  IN [n \in 1 .. Cardinality(Signs(s, {","})) + 1 |->
        WordsIn(s, {p \in plain : comma(p) = n - 1})]
FileAfter(s, r) == Word(s, TRUE, PieceAfter(s, TRUE, r))

(* The words of a text without quotes and comments.                         *)
BlankRuns(s) ==
  LET starts == {k \in 1 .. Len(s) : s[k] \notin Blank /\ (k = 1 \/ s[k - 1] \in Blank)}
      w == InOrder(starts)
  IN [n \in DOMAIN w |-> [k \in 1 .. Until(s, Blank, w[n]) - w[n] |-> w[n] + k - 1]]
==============================================================================
