-------------------------------- MODULE Heap --------------------------------
(***************************************************************************)
(* The memory of esh: chunks with reference counts (gc.c), the lists made  *)
(* of them (list.c) and the hash tables (hash.c).  A heap is a value; the  *)
(* operators say what a call of the C function does to it.                 *)
(*                                                                         *)
(* ls_copy copies nothing: it takes a share of every cell, string, table   *)
(* and entry below the list, and ls_free_all gives these shares back.  A   *)
(* chunk with no share left is free, and may be allocated again.           *)
(*                                                                         *)
(* A table is one chunk here (the code has two, always counted together),  *)
(* and so is an entry with the cell that links it into its bucket.  A      *)
(* bucket is the hash of a key when it was put, and here that key: two     *)
(* keys are never taken to share one, and no hash is negative.             *)
(***************************************************************************)
EXTENDS Integers, Sequences, FiniteSets, SequencesExt, FiniteSetsExt

CONSTANT MaxNode  \* bound on the chunks allocated at a time

ASSUME HeapAssumption == MaxNode \in Nat /\ MaxNode >= 5

Id  == 1 .. MaxNode
Nil == 0
Pointer == Id \cup {Nil}

(* A chunk.  A cell has a type, a flag, data and a next cell; an entry has  *)
(* its key as data, its list as next and its bucket as text.  text holds    *)
(* the characters of a string, and the value of a Boolean.                  *)
Node == [kind : {"free", "cell", "string", "table", "entry"}, refs : Int,
         type : {"none", "string", "list", "hash", "bool", "void"}, flag : Nat,
         text : STRING, data : Pointer, next : Pointer, entries : SUBSET Id]

Free == [kind |-> "free", refs |-> 0, type |-> "none", flag |-> 0, text |-> "",
         data |-> Nil, next |-> Nil, entries |-> {}]
Cell(type, flag, data, next) ==
  [Free EXCEPT !.kind = "cell", !.refs = 1, !.type = type, !.flag = flag,
               !.data = data, !.next = next]
String(t) == [Free EXCEPT !.kind = "string", !.refs = 1, !.text = t]
Table     == [Free EXCEPT !.kind = "table", !.refs = 1]
Entry(bucket, key, list, n) ==
  [Free EXCEPT !.kind = "entry", !.refs = n, !.text = bucket, !.data = key, !.next = list]

(* The chunks that are free, in the order allocations get them: any order   *)
(* would do, here from the lowest.                                          *)
FreeIds(h) == SelectSeq([i \in Id |-> i], LAMBDA i : h[i].kind = "free")
NewId(h)   == Head(FreeIds(h))
Alloc(h, node) == [h EXCEPT ![NewId(h)] = node]

(* gc_inc_ref, gc_add_ref and gc_free: n more shares of each of the nodes.  *)
Bump(h, nodes, n) ==
  [i \in Id |->
     LET r == h[i].refs + n * Cardinality({k \in DOMAIN nodes : nodes[k] = i})
     IN IF r = h[i].refs THEN h[i] ELSE IF r = 0 THEN Free ELSE [h[i] EXCEPT !.refs = r]]

(* The cells of a list, and all that ls_copy and ls_free_all reach from it. *)
Chain(h, p) ==
  LET c[i \in Pointer] == IF i = Nil THEN <<>> ELSE <<i>> \o c[h[i].next] IN c[p]
Reached(h, p) ==
  LET r[i \in Pointer] ==
        IF i = Nil THEN <<>>
        ELSE FoldSet(LAMBDA e, s : s \o r[e], <<>>, h[i].entries)
               \o <<i>> \o r[h[i].data] \o r[h[i].next]
  IN r[p]

(* n calls of ls_copy, or of ls_free_all when n is negative.                *)
Share(h, p, n)  == Bump(h, Reached(h, p), n)
FreeAll(h, p)   == Share(h, p, -1)
FreeShallow(h, p) == Bump(h, Chain(h, p), -1)

(* A new cell in front of tail with what cell i holds: its own share of it, *)
(* or the share i had.                                                      *)
Moved(h, i, tail) == Alloc(h, [h[i] EXCEPT !.refs = 1, !.next = tail])
Taken(h, i, tail) == Moved(Share(h, h[i].data, 1), i, tail)

(* A heap with a list in it, which is what most calls produce.              *)
With(h, p)       == [heap |-> h, list |-> p]
Consed(h, node)  == With(Alloc(h, node), NewId(h))
(* The same one by one for several cells: the last one ends up in front.    *)
MoveAll(h, cells, onto) ==
  LET ids == FreeIds(h)
      new == SubSeq(<<onto>> \o ids, 1, Len(cells) + 1)
      made(i) == {k \in DOMAIN cells : ids[k] = i}
  IN With([i \in Id |->
             IF made(i) = {} THEN h[i]
             ELSE LET k == CHOOSE k \in made(i) : TRUE
                  IN [h[cells[k]] EXCEPT !.refs = 1, !.next = new[k]]],
          Last(new))

Reversed(h, p) ==
  LET m == MoveAll(h, Chain(h, p), Nil) IN With(FreeShallow(m.heap, p), m.list)

(* car: a list of what the first cell holds.                                *)
Car(h, p) == IF p = Nil THEN With(h, Nil) ELSE With(Taken(h, p, Nil), NewId(h))

(* What eval_aux and parse_builtin do with the values of a nested command:  *)
(* they become elements of the list under way; no values are an empty list. *)
Spliced(h, p, onto) ==
  IF p = Nil THEN Consed(h, Cell("list", 0, Nil, onto))
  ELSE LET m == MoveAll(h, SelectSeq(Chain(h, p), LAMBDA i : h[i].type # "void"), onto)
       IN With(FreeShallow(m.heap, p), m.list)

-----------------------------------------------------------------------------
(* Hash tables                                                              *)

Hits(h, t, text) == {e \in h[t].entries : h[e].text = text /\ h[h[e].data].text = text}
HashGet(h, t, text) ==
  IF Hits(h, t, text) = {} THEN Nil
  ELSE h[CHOOSE e \in Hits(h, t, text) : TRUE].next

(* hash_put_aux: the list that was there, if any.  Everything below a table *)
(* has a share for each owner of the table, so when it may have several     *)
(* (hash_put_inc_ref) the new list gets as many and the old one loses them, *)
(* all but the one that is put and the one that is returned.                *)
HashPut(h, t, key, list, incRef) ==
  LET more == IF incRef THEN h[t].refs - 1 ELSE 0
      hits == Hits(h, t, h[key].text)
      e    == CHOOSE x \in hits : TRUE
      old  == IF hits = {} THEN Nil ELSE h[e].next
      put  == IF hits = {}
              THEN [Bump(Alloc(h, Entry(h[key].text, key, list, 1 + more)), <<key>>, more)
                      EXCEPT ![t].entries = @ \cup {NewId(h)}]
              ELSE [h EXCEPT ![e].next = list]
  IN With(Share(Share(put, list, more), old, -more), old)

(* hash_keys: the keys as a list, each with a share.                        *)
HashKeys(h, t) ==
  FoldSet(LAMBDA e, g : Consed(Bump(g.heap, <<h[e].data>>, 1), Cell("string", 0, h[e].data, g.list)),
          With(h, Nil), h[t].entries)

-----------------------------------------------------------------------------
(* Strings                                                                  *)

(* ls_strcat: all the strings of a list and of the lists in it.             *)
StrCat(h, p) ==
  LET s[i \in Pointer] ==
        IF i = Nil THEN ""
        ELSE (CASE h[i].type = "string" -> h[h[i].data].text
                [] h[i].type = "list"   -> s[h[i].data]
                [] OTHER                -> "") \o s[h[i].next]
  IN s[p]

(* The character at position i of a text: none when the text was cut since. *)
CharAt(text, i) == IF i <= Len(text) THEN SubSeq(text, i, i) ELSE ""
Chopped(text) == IF text = "" THEN "" ELSE SubSeq(text, 1, Len(text) - 1)

(* A list of fresh strings.                                                 *)
Strings(h, texts) ==
  FoldRight(LAMBDA t, g : Consed(Alloc(g.heap, String(t)),
                                 Cell("string", 0, NewId(g.heap), g.list)),
            texts, With(h, Nil))

-----------------------------------------------------------------------------
(* How many shares of chunk i the other chunks account for: each share of a *)
(* chunk is a share of what it points to.                                   *)
SharesFromHeap(h, i) ==
  MapThenSumSet(LAMBDA j : h[j].refs * ((IF h[j].next = i THEN 1 ELSE 0)
                                          + (IF h[j].data = i THEN 1 ELSE 0)
                                          + (IF i \in h[j].entries THEN 1 ELSE 0)),
                {j \in Id : h[j].next = i \/ h[j].data = i \/ i \in h[j].entries})
=============================================================================
