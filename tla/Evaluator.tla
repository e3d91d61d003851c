----------------------------- MODULE Evaluator -----------------------------
(***************************************************************************)
(* The evaluator of esh, on the heap of module Heap: parse_builtin reads a *)
(* command and runs nested ones as it meets them, do_builtin runs a        *)
(* defined command or a built-in, eval_aux walks a list and runs the lists *)
(* in it.  They call each other; frames is the C stack, a frame for each   *)
(* call under way, with the lists its local variables own.  Around them is *)
(* the loop of main, with the start-up script and the prompt.              *)
(*                                                                         *)
(* A step is one element of a list, or one built-in with the release of    *)
(* its arguments.  C-c may come between any two.                           *)
(*                                                                         *)
(* The words of a command name built-ins by their C functions.             *)
(* As in JobControl, Bug... is a fault for the mutants of PROJECT.json.    *)
(***************************************************************************)
EXTENDS Heap

CONSTANTS Script,   \* the commands of ~/.eshrc
          Lines,    \* the commands that may be typed
          Typed,    \* the command lines (of words) that may be typed
          Numeral,  \* Numeral[t]: the number text t spells, if it is one
          MaxLines  \* bound on the lines typed

ASSUME EvaluatorAssumption == MaxLines \in Nat

VARIABLES heap,
          stack,          \* the stack of the command running
          prompt,         \* the list get_prompt evaluates
          exception_flag, \* C-c was typed
          frames,         \* the calls under way, outermost first
          out,            \* the value of the call that returned last
          at,             \* where main is: script, prompt, read, line or done;
                          \* overflow when the C stack is used up
          script,         \* what is left of Script
          typed           \* how many lines were typed

vars == <<heap, stack, prompt, exception_flag, frames, out, at, script, typed>>

(* The global lists and tables, as init_shell allocates them.               *)
True    == 1
False   == 2
Void    == 3
aliases == 4
defines == 5

Init ==
  /\ heap = [i \in Id |->
       CASE i = True  -> [Cell("bool", 0, Nil, Nil) EXCEPT !.text = "true"]
         [] i = False -> [Cell("bool", 0, Nil, Nil) EXCEPT !.text = "false"]
         [] i = Void  -> Cell("void", 0, Nil, Nil)
         [] i \in {aliases, defines} -> Table
         [] OTHER -> Free]
  /\ stack = Nil /\ prompt = Nil /\ exception_flag = FALSE
  /\ frames = <<>> /\ out = [full |-> FALSE, list |-> Nil]
  /\ at = "script" /\ script = Script /\ typed = 0

-----------------------------------------------------------------------------
(* Frames.  list is the list being built, or the command being run; saved   *)
(* is the stack to go back to; parts are further lists held.                *)

Frame(op) == [op |-> op, items |-> <<>>, iter |-> Nil, list |-> Nil, mode |-> 0,
              strength |-> 0, saved |-> Nil, parts |-> <<>>]
Parse(items, liter, delay) ==
  [Frame("parse") EXCEPT !.items = items, !.mode = liter, !.strength = delay]
Walk(p, mode, strength) ==
  [Frame("walk") EXCEPT !.iter = p, !.mode = mode, !.strength = strength]
Apply(command) == [Frame("apply") EXCEPT !.iter = command, !.list = command]

Value(p) == [full |-> TRUE, list |-> p]
NoValue  == [full |-> FALSE, list |-> Nil]

Top   == Last(frames)
Under == Front(frames)
SetTop(f)    == frames' = Append(Under, f)
Enter(f, fs) == frames' = Append(Under, f) \o fs
Main == UNCHANGED <<prompt, exception_flag, at, script, typed>>

(* The list of a walk was freed under it: whatever follows is undefined.    *)
Lost(f) == f.op = "walk" /\ f.iter # Nil /\ heap[f.iter].refs <= 0
Undefined == \E k \in DOMAIN frames : Lost(frames[k])
Halted    == at \in {"done", "overflow"} \/ Undefined

(* The innermost call runs op, or the call it made has returned to it.      *)
In(op)   == frames # <<>> /\ Top.op = op /\ ~out.full /\ ~Halted
Back(op) == frames # <<>> /\ Top.op = op /\ out.full /\ ~Halted

-----------------------------------------------------------------------------
(* parse_builtin, from the tree of its text: mode is liter, strength delay  *)

ParseWord ==
  /\ In("parse") /\ Top.items # <<>> /\ Head(Top.items).kind = "word"
  /\ LET s == Alloc(heap, String(Head(Top.items).text))
         c == Consed(s, Cell("string", 0, NewId(heap), Top.list))
     IN heap' = c.heap /\ SetTop([Top EXCEPT !.list = c.list, !.items = Tail(@)])
  /\ UNCHANGED <<stack, out>> /\ Main

ParseNested ==
  /\ In("parse") /\ Top.items # <<>> /\ Head(Top.items).kind # "word"
  /\ LET e == Head(Top.items)
     IN frames' = Append(frames, IF e.kind = "delayed"
                                 THEN Parse(e.items, 1, Top.strength + 1)
                                 ELSE Parse(e.items, Top.mode, Top.strength))
  /\ UNCHANGED <<heap, stack, out>> /\ Main

ParseTake ==
  /\ Back("parse")
  /\ LET e == Head(Top.items)
         quoted == e.kind = "delayed"
         c == IF quoted \/ Top.mode = 1
              THEN Consed(heap, Cell("list", Top.strength + (IF quoted THEN 1 ELSE 0),
                                     out.list, Top.list))
              ELSE Spliced(heap, out.list, Top.list)
     IN heap' = c.heap /\ SetTop([Top EXCEPT !.list = c.list, !.items = Tail(@)])
  /\ out' = NoValue
  /\ UNCHANGED stack /\ Main

ParseEnd ==
  /\ In("parse") /\ Top.items = <<>>
  /\ LET r == Reversed(heap, Top.list)
     IN /\ heap' = r.heap
        /\ IF Top.mode = 1 THEN frames' = Under /\ out' = Value(r.list)
           ELSE SetTop(Apply(r.list)) /\ UNCHANGED out
  /\ UNCHANGED stack /\ Main

-----------------------------------------------------------------------------
(* eval_aux: at the top (mode 0) it takes on the strength of the lists it   *)
(* meets; a list of a greater strength is kept, any other is a command.     *)

Strength ==
  IF Top.mode = 0 THEN Max({Top.strength, heap[Top.iter].flag}) ELSE Top.strength
IsCommand == heap[Top.iter].type = "list" /\ Strength >= heap[Top.iter].flag

WalkKeep ==
  /\ In("walk") /\ Top.iter # Nil /\ ~IsCommand
  /\ heap' = Taken(heap, Top.iter, Top.list)
  /\ SetTop([Top EXCEPT !.list = NewId(heap), !.iter = heap[@].next])
  /\ UNCHANGED <<stack, out>> /\ Main

WalkNested ==
  /\ In("walk") /\ Top.iter # Nil /\ IsCommand
  /\ Enter([Top EXCEPT !.strength = Strength], <<Walk(heap[Top.iter].data, 1, Strength)>>)
  /\ UNCHANGED <<heap, stack, out>> /\ Main

WalkTake ==
  /\ Back("walk")
  /\ LET c == Spliced(heap, out.list, Top.list)
     IN heap' = c.heap /\ SetTop([Top EXCEPT !.list = c.list, !.iter = heap[@].next])
  /\ out' = NoValue
  /\ UNCHANGED stack /\ Main

WalkEnd ==
  /\ In("walk") /\ Top.iter = Nil
  /\ LET r == Reversed(heap, Top.list)
     IN /\ heap' = r.heap
        /\ IF Top.mode = 0 THEN frames' = Under /\ out' = Value(r.list)
           ELSE SetTop(Apply(r.list)) /\ UNCHANGED out
  /\ UNCHANGED stack /\ Main

-----------------------------------------------------------------------------
(* do_builtin, and the release of the command by its callers                *)

Text(c)  == heap[heap[c].data].text
Named    == Top.iter # Nil /\ heap[Top.iter].type = "string"
Args     == Tail(Chain(heap, Top.iter))
ArgList  == heap[Top.iter].next
Defined  == IF Top.mode = 1 THEN Nil ELSE HashGet(heap, defines, Text(Top.iter))

(* The type specifications of the built-ins; any means no check is made.    *)
SpecOf ==
  [pop |-> <<>>, push |-> <<"?">>, rot |-> <<>>, top |-> <<>>, my_stack |-> <<>>,
   list_stack |-> <<>>, begin |-> <<"any">>, my_list |-> <<"*">>, reverse |-> <<"*">>,
   my_car |-> <<"l">>, cdr |-> <<"l">>, list_cdr |-> <<"l">>, unlist |-> <<"l">>,
   my_true |-> <<"any">>, my_false |-> <<"any">>, my_void |-> <<"any">>, my_null |-> <<"any">>, my_hash_make |-> <<>>,
   my_hash_get |-> <<"h", "s">>, my_hash_put |-> <<"h", "s", "*">>, my_hash_keys |-> <<"h">>,
   alias_hash |-> <<>>, define |-> <<"s", "*">>, alias |-> <<"s", "A">>,
   defined_p |-> <<"s">>, set_prompt |-> <<"*">>, my_eval |-> <<"*">>,
   exec |-> <<"l", "*">>, my_if |-> <<"?", "?", "?">>, my_while |-> <<"l", "l", "*">>,
   and |-> <<"*">>, or |-> <<"*">>, begin_last |-> <<"*">>, builtin |-> <<"s", "*">>,
   my_car_l |-> <<"*">>, my_null_p |-> <<"?">>, my_not_null_p |-> <<"?">>, not |-> <<"b">>,
   equal_p |-> <<"s", "s">>, squish |-> <<"*">>, chars |-> <<"s">>, my_clone |-> <<"s", "s">>,
   chop |-> <<"s">>, chop_nl |-> <<"s">>, repeat |-> <<"s", "*">>, filter |-> <<"s", "l">>]

Types == {"string", "list", "hash", "bool", "void"}
Sign(s) == CASE s = "s" -> {"string"} [] s = "l" -> {"list"} [] s = "h" -> {"hash"}
             [] s = "b" -> {"bool"} [] s = "A" -> {"string", "list"} [] OTHER -> Types

(* What typecheck_aux accepts of these: * takes one or more, and so does A, *)
(* for the L and S of alias: all of them lists, or all strings.             *)
Accepts(spec, args) ==
  IF spec = <<"any">> THEN TRUE
  ELSE LET n    == Len(spec)
           last == IF n = 0 THEN "none" ELSE spec[n]
           type(j) == heap[args[j]].type
       IN /\ Len(args) >= n
          /\ last \in {"*", "A"} \/ Len(args) = n
          /\ \A j \in 1 .. Len(args) : type(j) \in Sign(IF j <= n THEN spec[j] ELSE last)
          /\ last = "A" => \A j \in n .. Len(args) : type(j) = type(n)

BugInterrupted == FALSE
Interrupted == Top.mode = 0 /\ exception_flag
Runs(name) == /\ In("apply") /\ ~Interrupted
              /\ Named
              /\ Defined = Nil /\ Text(Top.iter) = name
              /\ IF Accepts(SpecOf[name], Args) THEN TRUE ELSE FALSE

(* The built-in returns list p with heap h; the caller frees the command.   *)
Return(h, p) == /\ heap' = FreeAll(h, Top.list)
                /\ frames' = Under /\ out' = Value(p) /\ Main
Give(r) == Return(r.heap, r.list) /\ UNCHANGED stack

Refuse ==
  /\ In("apply")
  /\ IF Interrupted \/ ~Named THEN TRUE
     ELSE /\ Defined = Nil
          /\ IF Text(Top.iter) \in DOMAIN SpecOf
             THEN ~Accepts(SpecOf[Text(Top.iter)], Args) ELSE TRUE
  /\ Give(With(heap, Nil))

(* A defined command runs on a stack of its arguments.  Nothing holds the   *)
(* definition meanwhile but the table.                                      *)
Call ==
  /\ In("apply") /\ ~Interrupted
  /\ Named /\ Defined # Nil
  /\ heap' = Share(heap, ArgList, 1) /\ stack' = ArgList
  /\ Enter(Top, <<[Frame("call") EXCEPT !.saved = stack], Walk(Defined, 0, 0)>>)
  /\ UNCHANGED out /\ Main

Exec ==
  /\ Runs("exec")
  /\ heap' = Share(heap, heap[ArgList].data, 1) /\ stack' = heap[ArgList].data
  /\ Enter(Top, <<[Frame("exec") EXCEPT !.saved = stack], Walk(heap[ArgList].next, 0, 0)>>)
  /\ UNCHANGED out /\ Main

CallEnd ==
  /\ Back("call") \/ Back("exec")
  /\ heap' = FreeAll(heap, stack) /\ stack' = Top.saved
  /\ frames' = Under
  /\ UNCHANGED out /\ Main

(* A built-in that evaluated something returns; its caller frees.           *)
ApplyEnd == Back("apply") /\ Give(With(heap, out.list))

BugEval ==
  /\ Runs("my_eval")
  /\ heap' = FreeAll(heap, ArgList)
  /\ frames' = Append(frames, Walk(ArgList, 0, 0))
  /\ UNCHANGED <<stack, out>> /\ Main
Eval ==
  /\ Runs("my_eval")
  /\ frames' = Append(frames, Walk(ArgList, 0, 0))
  /\ UNCHANGED <<heap, stack, out>> /\ Main

(* builtin runs the command after it without a look at the definitions.     *)
Builtin ==
  /\ Runs("builtin")
  /\ IF Text(ArgList) \in DOMAIN SpecOf
     THEN /\ SetTop([Top EXCEPT !.iter = ArgList, !.mode = 1])
          /\ UNCHANGED <<heap, stack, out>> /\ Main
     ELSE Give(With(heap, Nil))

-----------------------------------------------------------------------------
(* The stack *)

BugPop(h, s) == Moved(h, s, Nil)
Popped(h, s) == Bump(Moved(h, s, Nil), <<s>>, -1)
Pop ==
  /\ Runs("pop")
  /\ IF stack = Nil THEN Give(With(heap, Nil))
     ELSE stack' = heap[stack].next /\ Return(Popped(heap, stack), NewId(heap))

BugPush ==
  /\ Runs("push")
  /\ stack' = NewId(heap)
  /\ Return(Bump(Moved(heap, ArgList, stack), <<ArgList>>, -1), Nil)
Push ==
  /\ Runs("push")
  /\ LET h == Share(heap, ArgList, 1)
     IN stack' = NewId(h) /\ Return(Bump(Moved(h, ArgList, stack), <<ArgList>>, -1), Nil)

Rot ==
  /\ Runs("rot")
  /\ IF Len(Chain(heap, stack)) < 2 THEN Give(With(heap, Nil))
     ELSE LET below == heap[stack].next
              m == MoveAll(heap, <<stack, below>>, heap[below].next)
              c == Car(Bump(m.heap, <<below, stack>>, -1), m.list)
          IN stack' = m.list /\ Return(c.heap, c.list)

TopOf == Runs("top") /\ Give(Car(heap, stack))
MyStack == Runs("my_stack") /\ Give(With(Share(heap, stack, 1), stack))
ListStack ==
  Runs("list_stack") /\ Give(Consed(Share(heap, stack, 1), Cell("list", 0, stack, Nil)))

-----------------------------------------------------------------------------
(* Lists and constants                                                      *)

Second == heap[ArgList].next
Begin   == Runs("begin") /\ Give(With(Share(heap, ArgList, 1), ArgList))
List    == Runs("my_list") /\ Give(Consed(Share(heap, ArgList, 1), Cell("list", 0, ArgList, Nil)))
ReverseArgs == Runs("reverse") /\ Give(Reversed(Share(heap, ArgList, 1), ArgList))
MyCar   == Runs("my_car") /\ Give(Car(heap, heap[ArgList].data))
Unlist  == /\ Runs("unlist")
           /\ Give(With(Share(heap, heap[ArgList].data, 1), heap[ArgList].data))

Rest == IF heap[ArgList].data = Nil THEN Nil ELSE heap[heap[ArgList].data].next
Cdr  == Runs("cdr") /\ Give(With(Share(heap, Rest, 1), Rest))
ListCdr ==
  /\ Runs("list_cdr")
  /\ Give(IF heap[ArgList].data = Nil THEN With(heap, Nil)
          ELSE Consed(Share(heap, Rest, 1), Cell("list", 0, Rest, Nil)))

Constant(name, p) == Runs(name) /\ Give(With(Share(heap, p, 1), p))
Constants == \/ Constant("my_true", True) \/ Constant("my_false", False)
             \/ Constant("my_void", Void) \/ Constant("my_null", Nil)

MyCarL == Runs("my_car_l") /\ Give(Car(heap, ArgList))

(* Tests.  An empty list has no data, and neither has false nor void.       *)
Answer(b) == LET p == IF b THEN True ELSE False IN Give(With(Share(heap, p, 1), p))
HasData(p) == heap[p].data # Nil \/ heap[p].text = "true"
Tests == \/ Runs("my_null_p")     /\ Answer(~HasData(ArgList))
         \/ Runs("my_not_null_p") /\ Answer(HasData(ArgList))
         \/ Runs("not")           /\ Answer(~HasData(ArgList))
         \/ Runs("equal_p")       /\ Answer(Text(ArgList) = Text(Second))

-----------------------------------------------------------------------------
(* Strings.  chop! changes the characters where they are, whoever else has  *)
(* a share of them: a definition, a table that has them for a key.          *)

Squish == Runs("squish") /\ Give(Strings(heap, <<StrCat(heap, ArgList)>>))
Chars  == /\ Runs("chars")
          /\ LET s == Text(ArgList)
             IN Give(Strings(heap, [i \in 1 .. Len(s) |-> CharAt(s, i)]))

Chop ==
  /\ Runs("chop")
  /\ IF Text(ArgList) = "" THEN Give(With(Share(heap, ArgList, 1), ArgList))
     ELSE Give(With([heap EXCEPT ![heap[ArgList].data].text = Chopped(@)], Nil))

ChopNl ==
  /\ Runs("chop_nl")
  /\ LET s == Text(ArgList)
         h == IF s # "" /\ CharAt(s, Len(s)) = "\n"
              THEN [heap EXCEPT ![heap[ArgList].data].text = Chopped(s)] ELSE heap
     IN Give(With(Share(h, ArgList, 1), ArgList))

(* clone: one string, with a share for each element of the list.            *)
IsNumber(p) == Text(p) \in DOMAIN Numeral
Clone ==
  /\ Runs("my_clone")
  /\ LET s == heap[ArgList].data
         n == IF IsNumber(Second) THEN Numeral[Text(Second)] ELSE 0
     IN Give(FoldLeft(LAMBDA g, i : Consed(Bump(g.heap, <<s>>, 1), Cell("string", 0, s, g.list)),
                      With(heap, Nil), [i \in 1 .. n |-> i]))

-----------------------------------------------------------------------------
(* Tables: a key and a list are taken from the arguments, and whoever puts  *)
(* them frees what was there.                                               *)

HashMake ==
  /\ Runs("my_hash_make")
  /\ Give(Consed(Alloc(heap, Table), Cell("hash", 0, NewId(heap), Nil)))

MyHashGet ==
  /\ Runs("my_hash_get")
  /\ LET p == HashGet(heap, heap[ArgList].data, Text(Second))
     IN Give(With(Share(heap, p, 1), p))

(* A table that is put below itself has no end for hash_inc_ref, which      *)
(* calls itself until the C stack is used up.                               *)
Put(h, t, key, list)    == HashPut(h, t, key, list, TRUE)

FreeOld(put, key) ==
  IF put.list = Nil THEN put.heap ELSE FreeAll(Bump(put.heap, <<key>>, -1), put.list)

MyHashPut ==
  /\ Runs("my_hash_put")
  /\ LET t    == heap[ArgList].data
         key  == heap[Second].data
         list == heap[Second].next
         held == Bump(Share(heap, list, 1), <<key>>, 1)
     IN IF t \in Range(Reached(heap, list))
        THEN at' = "overflow"
             /\ UNCHANGED <<heap, stack, prompt, exception_flag, frames, out, script, typed>>
        ELSE Give(With(FreeOld(Put(held, t, key, list), key), Nil))

MyHashKeys == Runs("my_hash_keys") /\ Give(HashKeys(heap, heap[ArgList].data))
AliasHash ==
  /\ Runs("alias_hash")
  /\ Give(Consed(Bump(heap, Reached(heap, aliases), 1), Cell("hash", 0, aliases, Nil)))

(* define and alias take all of the arguments and free the cell of the name.*)
Defines(put) ==
  LET key == heap[ArgList].data
  IN Give(With(Bump(FreeOld(put, key), <<ArgList>>, -1), Nil))
Held == Share(heap, ArgList, 1)
Define ==
  Runs("define") /\ Defines(HashPut(Held, defines, heap[ArgList].data, Second, FALSE))
Alias == Runs("alias") /\ Defines(Put(Held, aliases, heap[ArgList].data, Second))

DefinedP ==
  /\ Runs("defined_p")
  /\ LET p == IF HashGet(heap, defines, Text(ArgList)) = Nil THEN False ELSE True
     IN Give(With(Share(heap, p, 1), p))

SetPrompt ==
  /\ Runs("set_prompt")
  /\ prompt' = ArgList
  /\ heap' = FreeAll(Share(FreeAll(heap, prompt), ArgList, 1), Top.list)
  /\ frames' = Under /\ out' = Value(Nil)
  /\ UNCHANGED <<stack, exception_flag, at, script, typed>>

-----------------------------------------------------------------------------
(* Control: a frame holds the lists the C function copied for itself        *)

IsFalse(p) == p # Nil /\ heap[p].type = "bool" /\ heap[p].text = "false"
Again(f, h, p) == heap' = h /\ Enter(f, <<Walk(p, 0, 0)>>) /\ out' = NoValue

(* my_if puts each argument into a list of its own.                         *)
If ==
  /\ Runs("my_if")
  /\ LET h0 == Share(heap, ArgList, 1)
         h1 == Moved(h0, Args[1], Nil)
         h2 == Moved(h1, Args[2], Nil)
         h3 == Moved(h2, Args[3], Nil)
         parts == <<NewId(h0), NewId(h1), NewId(h2)>>
     IN /\ heap' = FreeShallow(h3, ArgList)
        /\ Enter(Top, <<[Frame("if") EXCEPT !.parts = parts], Walk(parts[1], 0, 0)>>)
  /\ UNCHANGED <<stack, out>> /\ Main

IfBranch ==
  /\ Back("if") /\ Top.mode = 0
  /\ Again([Top EXCEPT !.mode = 1, !.list = out.list],
           heap, Top.parts[IF IsFalse(out.list) THEN 3 ELSE 2])
  /\ UNCHANGED stack /\ Main

IfEnd ==
  /\ Back("if") /\ Top.mode = 1
  /\ heap' = FoldLeft(FreeAll, heap, <<Top.list>> \o Top.parts)
  /\ frames' = Under
  /\ UNCHANGED <<stack, out>> /\ Main

(* while runs on a stack of its further arguments.                          *)
While ==
  /\ Runs("my_while")
  /\ LET s == heap[Second].next
         c == Car(Share(heap, s, 1), ArgList)
         a == Car(c.heap, Second)
     IN /\ heap' = a.heap /\ stack' = s
        /\ Enter(Top, <<[Frame("while") EXCEPT !.saved = stack, !.parts = <<c.list, a.list>>],
                        Walk(c.list, 0, 0)>>)
  /\ UNCHANGED out /\ Main

BugStops == IsFalse(out.list)
Stops == exception_flag \/ IsFalse(out.list)
WhileBody ==
  /\ Back("while") /\ Top.mode = 0 /\ ~Stops
  /\ Again([Top EXCEPT !.mode = 1], FreeAll(heap, out.list), Top.parts[2])
  /\ UNCHANGED stack /\ Main

WhileCond ==
  /\ Back("while") /\ Top.mode = 1
  /\ Again([Top EXCEPT !.mode = 0], FreeAll(heap, out.list), Top.parts[1])
  /\ UNCHANGED stack /\ Main

WhileEnd ==
  /\ Back("while") /\ Top.mode = 0 /\ Stops
  /\ heap' = FoldLeft(FreeAll, heap, <<out.list, stack>> \o Top.parts)
  /\ stack' = Top.saved /\ frames' = Under /\ out' = Value(Nil) /\ Main

(* and, or and begin-last evaluate one argument after the other, each in a  *)
(* list of its own; and keeps that list and the last value until the next.  *)
InTurn == {"and", "or", "begin_last"}

EachBegin ==
  \E op \in InTurn :
    /\ Runs(op)
    /\ LET c == Car(heap, ArgList)
       IN /\ heap' = c.heap
          /\ Enter(Top, <<[Frame(op) EXCEPT !.iter = ArgList, !.list = c.list],
                          Walk(c.list, 0, 0)>>)
    /\ UNCHANGED <<stack, out>> /\ Main

Decided ==
  CASE Top.op = "and" -> IsFalse(out.list)
    [] Top.op = "or"  -> out.list = Nil \/ heap[out.list].type # "bool" \/ ~IsFalse(out.list)
    [] OTHER -> FALSE
AtLast == heap[Top.iter].next = Nil
InEach == \E op \in InTurn : Back(op)

EachNext ==
  /\ InEach /\ ~Decided /\ ~AtLast
  /\ LET h == FreeAll(FreeAll(heap, Top.list), out.list)
         c == Car(h, heap[Top.iter].next)
     IN Again([Top EXCEPT !.iter = heap[@].next, !.list = c.list], c.heap, c.list)
  /\ UNCHANGED stack /\ Main

EachEnd ==
  /\ InEach /\ (Decided \/ AtLast)
  /\ LET h == FreeAll(heap, Top.list)
     IN IF Top.op \in {"and", "or"} /\ (Top.op = "and") = Decided
        THEN /\ heap' = Share(FreeAll(h, out.list), False, 1)
             /\ out' = Value(False)
        ELSE heap' = h /\ UNCHANGED out
  /\ frames' = Under
  /\ UNCHANGED stack /\ Main

(* repeat evaluates its further arguments a number of times; strength is    *)
(* how many are left.                                                       *)
Repeat ==
  /\ Runs("repeat")
  /\ LET n == IF IsNumber(ArgList) THEN Numeral[Text(ArgList)] ELSE 0
     IN IF n <= 0 THEN Give(With(heap, Nil))
        ELSE /\ Enter(Top, <<[Frame("repeat") EXCEPT !.iter = Second, !.strength = n - 1],
                             Walk(Second, 0, 0)>>)
             /\ UNCHANGED <<heap, stack, out>> /\ Main

RepeatNext ==
  /\ Back("repeat")
  /\ LET h == FreeAll(heap, out.list)
     IN IF Top.strength > 0
        THEN Again([Top EXCEPT !.strength = @ - 1], h, Top.iter)
        ELSE heap' = h /\ frames' = Under /\ out' = Value(Nil)
  /\ UNCHANGED stack /\ Main

(* filter evaluates its second argument once for each character of the      *)
(* first, from the last to the first, each time on a stack of that          *)
(* character alone, C-c or not; list is what the evaluations returned.      *)
OnChar(f, h, i) ==
  LET s == Strings(h, <<CharAt(heap[f.iter].text, i)>>)
  IN /\ heap' = s.heap /\ stack' = s.list
     /\ Enter([f EXCEPT !.strength = i - 1], <<Walk(f.parts[1], 0, 0)>>)
     /\ out' = NoValue

Filter ==
  /\ Runs("filter")
  /\ LET s == heap[ArgList].data
         c == Car(heap, Second)
         f == [Frame("filter") EXCEPT !.iter = s, !.saved = stack, !.parts = <<c.list>>]
     IN IF heap[s].text = "" THEN Give(Strings(heap, <<"">>))
        ELSE LET g == Strings(c.heap, <<CharAt(heap[s].text, Len(heap[s].text))>>)
             IN /\ heap' = g.heap /\ stack' = g.list
                /\ Enter(Top, <<[f EXCEPT !.strength = Len(heap[s].text) - 1],
                                Walk(c.list, 0, 0)>>)
                /\ UNCHANGED out /\ Main

FilterNext ==
  /\ Back("filter")
  /\ LET g == Consed(heap, Cell("list", 0, out.list, Top.list))
         h == FreeAll(g.heap, stack)
     IN IF Top.strength > 0
        THEN OnChar([Top EXCEPT !.list = g.list], h, Top.strength)
        ELSE LET s == Strings(h, <<StrCat(h, g.list)>>)
             IN /\ heap' = FreeAll(FreeAll(s.heap, g.list), Top.parts[1])
                /\ stack' = Top.saved
                /\ frames' = Under /\ out' = Value(s.list)
  /\ Main

-----------------------------------------------------------------------------
(* The loop of main                                                         *)

Idle == frames = <<>> /\ ~out.full

(* A line of ~/.eshrc, and a command in parentheses typed at the prompt.    *)
ScriptLine ==
  /\ at = "script" /\ Idle
  /\ IF script = <<>>
     THEN at' = "prompt" /\ UNCHANGED <<frames, script>>
     ELSE /\ frames' = <<Parse(Head(script), 0, 0)>>
          /\ script' = Tail(script)
          /\ UNCHANGED at
  /\ UNCHANGED <<heap, stack, prompt, exception_flag, out, typed>>

Prompt ==
  /\ at = "prompt" /\ Idle
  /\ exception_flag' = FALSE
  /\ IF prompt = Nil THEN at' = "read" /\ UNCHANGED frames
     ELSE frames' = <<Walk(prompt, 0, 0)>> /\ UNCHANGED at
  /\ UNCHANGED <<heap, stack, prompt, out, script, typed>>

Read ==
  /\ at = "read" /\ typed < MaxLines
  /\ \E line \in Lines : frames' = <<Parse(line, 0, 0)>>
  /\ at' = "line" /\ typed' = typed + 1
  /\ UNCHANGED <<heap, stack, prompt, exception_flag, out, script>>

(* Words without parentheses whose first is an alias for lists: parse_pipe  *)
(* evaluates them on a stack of the other words.                            *)
ReadWords ==
  /\ at = "read" /\ typed < MaxLines
  /\ \E texts \in Typed :
       LET w == Strings(heap, texts)
           l == HashGet(heap, aliases, texts[1])
       IN /\ l # Nil /\ heap[l].type = "list"
          /\ stack' = w.heap[w.list].next
          /\ heap' = Share(w.heap, stack', 1)
          /\ frames' = <<[Frame("alias") EXCEPT !.saved = stack, !.list = w.list],
                         Walk(l, 0, 0)>>
  /\ at' = "line" /\ typed' = typed + 1
  /\ UNCHANGED <<prompt, exception_flag, out, script>>

AliasEnd ==
  /\ Back("alias")
  /\ heap' = FoldLeft(FreeAll, heap, <<stack, out.list, Top.list>>)
  /\ stack' = Top.saved /\ frames' = Under /\ out' = Value(Nil) /\ Main

(* The value of a line is printed, that of the prompt becomes the prompt.   *)
LineEnd ==
  /\ frames = <<>> /\ out.full
  /\ heap' = FreeAll(heap, out.list) /\ out' = NoValue
  /\ at' = CASE at = "script" -> "script"
             [] at = "prompt" -> "read"
             [] at = "line"   -> "prompt"
  /\ UNCHANGED <<stack, prompt, exception_flag, frames, script, typed>>

EndOfInput ==
  /\ at = "read" /\ at' = "done"
  /\ UNCHANGED <<heap, stack, prompt, exception_flag, frames, out, script, typed>>

(* exception, the handler of SIGINT.                                        *)
Interrupt ==
  /\ ~exception_flag /\ ~Halted
  /\ exception_flag' = TRUE
  /\ UNCHANGED <<heap, stack, prompt, frames, out, at, script, typed>>

-----------------------------------------------------------------------------
Parsing   == ParseWord \/ ParseNested \/ ParseTake \/ ParseEnd
Walking   == WalkKeep \/ WalkNested \/ WalkTake \/ WalkEnd
Applying  == Refuse \/ Call \/ Exec \/ CallEnd \/ ApplyEnd \/ Eval \/ Builtin
OnStack   == Pop \/ Push \/ Rot \/ TopOf \/ MyStack \/ ListStack
OnLists   == Begin \/ List \/ ReverseArgs \/ MyCar \/ Unlist
               \/ Cdr \/ ListCdr \/ Constants \/ MyCarL \/ Tests
OnStrings == Squish \/ Chars \/ Chop \/ ChopNl \/ Clone
OnTables  == HashMake \/ MyHashGet \/ MyHashPut \/ MyHashKeys \/ AliasHash
               \/ Define \/ Alias \/ DefinedP \/ SetPrompt
Branching == If \/ IfBranch \/ IfEnd \/ While \/ WhileBody \/ WhileCond \/ WhileEnd
               \/ EachBegin \/ EachNext \/ EachEnd
               \/ Repeat \/ RepeatNext \/ Filter \/ FilterNext

Step == \/ Parsing \/ Walking \/ Applying \/ OnStack \/ OnLists \/ OnStrings \/ OnTables
        \/ Branching \/ ScriptLine \/ Prompt \/ AliasEnd \/ LineEnd

Running == ~Halted /\ ~(at = "read" /\ Idle)

Stay == Halted /\ UNCHANGED vars
Next == Step \/ Read \/ ReadWords \/ EndOfInput \/ Interrupt \/ Stay

(* The shell runs on; nothing makes the user type.  This is WF_vars(Step)   *)
(* with Running for ENABLED Step, which TLC is too slow to evaluate.        *)
Fairness == []<>(~Running) \/ []<><<Step>>_vars
Spec == Init /\ [][Next]_vars /\ Fairness

-----------------------------------------------------------------------------
(* Properties                                                               *)

FrameOK(f) ==
  /\ f.op \in {"parse", "walk", "apply", "call", "exec", "alias", "if", "while",
              "repeat", "filter"} \cup InTurn
  /\ f.iter \in Pointer /\ f.list \in Pointer /\ f.saved \in Pointer
  /\ f.mode \in {0, 1} /\ f.strength \in Nat
  /\ \A k \in DOMAIN f.parts : f.parts[k] \in Pointer

(* The variables keep their types; no count is negative.                    *)
TypeOK ==
  /\ heap \in [Id -> Node] /\ \A i \in Id : heap[i].refs >= 0
  /\ stack \in Pointer /\ prompt \in Pointer /\ exception_flag \in BOOLEAN
  /\ out \in [full : BOOLEAN, list : Pointer]
  /\ \A k \in DOMAIN frames : FrameOK(frames[k])
  /\ at \in {"script", "prompt", "read", "line", "done", "overflow"} /\ typed \in 0 .. MaxLines

(* The lists the variables of the C program own a share of.                 *)
Owners == <<stack, prompt, out.list>> \o <<True, False, Void, aliases, defines>>
            \o FlattenSeq([k \in DOMAIN frames |->
                  <<frames[k].list, frames[k].saved>> \o frames[k].parts])

(* gc.c, list.c, hash.c: every count is the number of owners, by whatever   *)
(* way a list, a table or an entry is reached: no built-in, call, interrupt *)
(* or replaced definition leaks a chunk or frees one that is still owned.   *)
CountsAreShares ==
  ~Halted =>
    LET owners == Owners IN \A i \in Id :
      heap[i].refs = SharesFromHeap(heap, i) + Cardinality({k \in DOMAIN owners : owners[k] = i})

(* eval_aux holds no share of the list it walks, and its callers must: the  *)
(* only walks that can lose their list are those of a definition, an alias  *)
(* or the prompt, which the evaluated commands may replace.                 *)
OwnedByTable(k) ==
  IF k = 1 THEN at = "prompt" ELSE frames[k - 1].op \in {"call", "alias"}
OnlyReplacedDies ==
  \A k \in DOMAIN frames :
    Lost(frames[k]) => \E j \in 1 .. k : Lost(frames[j]) /\ OwnedByTable(j)

(* gc.c:45, 57, 75, 87 end the shell with "refcount is corrupted": no walk   *)
(* goes on from a chunk whose count is not positive.                        *)
NeverCorrupted == ~Undefined

(* do_builtin: after C-c no command takes effect until main clears the flag:*)
(* definitions, aliases, tables and the prompt stay, and the stack of a     *)
(* command changes only by giving way to its caller's, or to the next       *)
(* character of filter.  The command that builtin is about to call is under *)
(* way already: do_builtin looked at the flag before it called builtin.     *)
Contents(h, t) == {<<h[h[e].data].text, h[e].next>> : e \in h[t].entries}
InterruptedDoesNothing ==
  [][exception_flag /\ exception_flag' /\ frames # <<>> /\ ~(Top.op = "apply" /\ Top.mode = 1) =>
       /\ prompt' = prompt
       /\ \A t \in Id : heap[t].kind = "table" /\ heap'[t].kind = "table"
                        => Contents(heap, t) = Contents(heap', t)
       /\ \/ stack' = stack
          \/ frames' = Under /\ stack' = Top.saved
          \/ Top.op = "filter"]_vars

(* do_builtin, my_while: after C-c every evaluation, however nested and     *)
(* endless, gives way and main is back in its loop.                         *)
Unwinds == exception_flag ~> (Halted \/ frames = <<>>)
=============================================================================
