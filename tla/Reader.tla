------------------------------- MODULE Reader -------------------------------
(***************************************************************************)
(* How esh reads: the tokenizer (next_token), the parser of lists          *)
(* (parse_builtin), of command lines (parse_command, parse_pipe), of       *)
(* scripts (parse_file) and of strings (the built-ins parse and split),    *)
(* with the buffers characters are collected in.                           *)
(*                                                                         *)
(* text is what is read.  Its characters are named by their positions,     *)
(* from 1: the buffer holds positions, and a list is known by those of its *)
(* parentheses, so that what is evaluated can be compared with what was    *)
(* written (module Syntax).  A step is one character of parse_file or      *)
(* read_read, or one token of a parser; what an evaluated command does is  *)
(* not modelled, only which one it is and when.                            *)
(*                                                                         *)
(* As in JobControl, Bug... is a fault for the mutants of PROJECT.json.    *)
(***************************************************************************)
EXTENDS Integers, Sequences, SequencesExt, Buffer, Syntax

CONSTANTS Scripts,   \* texts of a script
          CmdLines,  \* lines typed at the prompt, without the newline
          Strings,   \* arguments of parse and split
          FirstLen   \* size of a new buffer: 256 for a script, 80 for a line

End == "end"  \* the kind of next_token's token at the end: no character

ASSUME ReaderAssumption ==
  /\ FirstLen \in Nat \ {0}
  /\ NUL \notin Nat /\ Junk \notin Nat /\ NUL # Junk
  /\ Scripts \cup CmdLines \cup Strings \subseteq Seq(STRING \ {End})

VARIABLES text,    \* the characters
          entry,   \* who reads them: script, line, parse or split
          fancy,   \* syntax_fancy: commas and redirections are syntax
          at,      \* read, start, list, after, stage, split, done or undefined
          offset,  \* how many characters were read
          buff, i, \* the buffer, and how many are stored in it
          parencount, did_one, inquote,  \* of parse_file
          pos,     \* the index the parsers pass to next_token
          frames,  \* the calls of parse_builtin under way, outermost first
          words,   \* the stages of a pipeline, or the result of split
          redirs,  \* the redirections of a pipeline: records of sign and file
          ran,     \* do_pipe was called
          lists,   \* the lists completed so far, in order
          failed   \* an error was reported

reading == <<text, entry, offset, buff, i, parencount, did_one, inquote>>
vars == <<reading, fancy, at, pos, frames, words, redirs, ran, lists, failed>>

(* parse_builtin before its opening parenthesis; liter is set in the code   *)
(* exactly when delay is not 0.                                             *)
Call(delay) == [from |-> 0, delay |-> delay, items |-> <<>>]

Whole(s) == [k \in 1 .. Len(s) + 1 |-> IF k <= Len(s) THEN k ELSE NUL]

Init ==
  /\ \/ /\ entry = "script" /\ text \in Scripts /\ fancy = FALSE /\ at = "read"
     \/ /\ entry = "line" /\ at = "read" /\ fancy = TRUE
        /\ text \in {s \o <<"\n">> : s \in CmdLines} \cup CmdLines
     \/ entry = "parse" /\ text \in Strings /\ fancy \in BOOLEAN /\ at = "list"
     \/ entry = "split" /\ text \in Strings /\ fancy = FALSE /\ at = "split"
  /\ buff = IF at = "read" THEN Fresh(FirstLen) ELSE Whole(text)
  /\ frames = IF at = "list" THEN <<Call(0)>> ELSE <<>>
  /\ offset = 0 /\ i = 0 /\ parencount = 0 /\ did_one = FALSE /\ inquote = "none"
  /\ pos = 0 /\ words = << <<>> >> /\ redirs = <<>> /\ ran = FALSE
  /\ lists = <<>> /\ failed = FALSE

-----------------------------------------------------------------------------
(* Reading characters                                                       *)

(* strcpy of the unterminated buffer ran past its end.                      *)
Overrun == /\ at = "read" /\ offset < Len(text) /\ Overruns(buff, i)
           /\ at' = "undefined"
           /\ UNCHANGED <<reading, fancy, pos, frames, words, redirs, ran, lists, failed>>

(* A comment is read to its newline, which is kept; at the end of the file  *)
(* chr is still the last character read.                                    *)
LineEnd(k) == LET e == Until(text, {"\n"}, k) IN IF e > Len(text) THEN Len(text) ELSE e

(* parse_file: one character, and the end of an expression.                 *)
BugDepth(chr) == CASE chr = "(" -> parencount + 1
                   [] chr = ")" -> parencount - 1
                   [] OTHER -> parencount
DepthAfter(chr) == IF inquote # "none" THEN parencount
                   ELSE CASE chr = "(" -> parencount + 1
                          [] chr = ")" -> parencount - 1
                          [] OTHER -> parencount
QuoteAfter(chr) == IF chr \in Quotes /\ inquote = chr THEN "none"
                   ELSE IF chr \in Quotes /\ inquote = "none" THEN chr ELSE inquote

FileChar ==
  /\ at = "read" /\ entry = "script" /\ offset < Len(text)
  /\ \E b \in Roomy(buff, i) :
       LET o     == IF inquote = "none" /\ text[offset + 1] = "#"
                    THEN LineEnd(offset + 1) ELSE offset + 1
           chr   == text[o]
           depth == DepthAfter(chr)
           one   == did_one \/ (inquote = "none" /\ chr = ")")
           full  == depth = 0 /\ one
       IN /\ offset' = o
          /\ IF full
             THEN /\ buff' = Terminated(Stored(b, i, o), i + 1)
                  /\ i' = 0 /\ parencount' = 0 /\ did_one' = FALSE /\ inquote' = "none"
                  /\ at' = "list" /\ pos' = 0 /\ frames' = <<Call(0)>>
             ELSE /\ buff' = Stored(b, i, o)
                  /\ i' = i + 1 /\ parencount' = depth /\ did_one' = one
                  /\ inquote' = QuoteAfter(chr)
                  /\ UNCHANGED <<at, pos, frames>>
  /\ UNCHANGED <<text, entry, fancy, words, redirs, ran, lists, failed>>

(* read_read: one character, up to and with the newline.                    *)
LineChar ==
  /\ at = "read" /\ entry = "line" /\ offset < Len(text)
  /\ \E b \in Roomy(buff, i) :
       LET s == Stored(b, i, offset + 1)
       IN IF text[offset + 1] = "\n"
          THEN buff' = Terminated(s, i + 1) /\ i' = 0 /\ at' = "start"
          ELSE buff' = s /\ i' = i + 1 /\ UNCHANGED at
  /\ offset' = offset + 1
  /\ UNCHANGED <<text, entry, parencount, did_one, inquote>>
  /\ UNCHANGED <<fancy, pos, frames, words, redirs, ran, lists, failed>>

EndOfFile ==
  /\ at = "read" /\ offset = Len(text)
  /\ at' = "done"
  /\ LET cut == entry = "script" /\ (parencount # 0 \/ inquote # "none")
     IN failed' = (failed \/ cut)
  /\ UNCHANGED <<reading, fancy, pos, frames, words, redirs, ran, lists>>

-----------------------------------------------------------------------------
(* next_token                                                               *)

Input(k) == IF buff[k + 1] = NUL THEN End ELSE text[buff[k + 1]]
IsSpecial(c) == IF entry = "split" THEN c = End
                ELSE c = End \/ c \in Special(fancy)

(* A token: its kind (a word, a special character or the end), the indices  *)
(* between which its characters are, the index after it, and whether the    *)
(* end came inside a quote.                                                 *)
Tok(kind, from, to, next, open) ==
  [kind |-> kind, chars |-> SubSeq(buff, from + 1, to), next |-> next, open |-> open]

(* The loop of next_token.  mode is skip before a token, word inside one    *)
(* (do_write), comment (ignore), or the quote (currquote); from is where    *)
(* the word begins; next is what the loop makes of what follows k.          *)
Modes == {"skip", "word", "comment"} \cup Quotes
EndToken(k, mode, from) ==
  IF mode = "word" THEN Tok("word", from, k, k, FALSE) ELSE Tok(End, k, k, k, mode \in Quotes)

Skip(next, k, from) ==
  LET c == Input(k) IN
  CASE c \in Quotes -> next[c][k + 1]
    [] c = "#"      -> next["comment"][from]
    [] c \in Blank  -> next["skip"][from]
    [] OTHER ->
         IF IsSpecial(c) THEN Tok(c, k, k, k + 1, FALSE)
         ELSE IF k = 0 \/ Input(k - 1) \in Blank \/ IsSpecial(Input(k - 1))
         THEN next["word"][k] ELSE next["skip"][from]

Turn(next, k, mode, from) ==
  LET c == Input(k) IN
  IF c = End THEN EndToken(k, mode, from)
  ELSE CASE mode = "skip"    -> Skip(next, k, from)
         [] mode = "comment" -> next[IF c = "\n" THEN "skip" ELSE mode][from]
         [] mode = "word"    -> IF c \in Quotes \cup Blank \cup {"#"} \/ IsSpecial(c)
                                THEN Tok("word", from, k, k, FALSE) ELSE next[mode][from]
         [] mode \in Quotes  -> IF c = mode THEN Tok("word", from, k, k + 1, FALSE)
                                ELSE next[mode][from]

Size == Until(buff, {NUL}, 1) - 1
Tokens ==
  LET f[k \in 0 .. Size] == [mode \in Modes |-> [from \in Nat |-> Turn(f[k + 1], k, mode, from)]]
  IN f
NextToken(start) == Tokens[start]["skip"][start]

Token == NextToken(pos)

-----------------------------------------------------------------------------
(* parse_builtin                                                            *)

Top   == Last(frames)
Under == Front(frames)
Parsing(kinds) == at = "list" /\ Token.kind \in kinds
Plain == UNCHANGED <<reading, fancy, words, redirs, ran>>

(* The innermost call returns: its caller takes what it was given, or main  *)
(* goes on.                                                                 *)
BugGiven(item) ==
  /\ frames' = IF Under = <<>> THEN <<>> ELSE Append(Front(Under), Call(0))
  /\ UNCHANGED at
Given(item) ==
  IF Under = <<>>
  THEN frames' = <<>> /\ at' = IF entry = "script" THEN "read" ELSE "after"
  ELSE /\ frames' = Append(Front(Under),
                           [Last(Under) EXCEPT !.items = Append(@, item)])
       /\ UNCHANGED at

Begin ==
  /\ at = "list" /\ Top.from = 0 /\ Token.kind = "("
  /\ frames' = Append(Under, [Top EXCEPT !.from = buff[Token.next]])
  /\ pos' = Token.next
  /\ UNCHANGED <<at, lists, failed>> /\ Plain

AddWord ==
  /\ at = "list" /\ Top.from # 0 /\ Token.kind = "word"
  /\ frames' = Append(Under, [Top EXCEPT !.items =
                                Append(@, Item("word", Token.chars, 0))])
  /\ pos' = Token.next
  /\ UNCHANGED <<at, lists, failed>> /\ Plain

(* A parenthesis is left for the call; a tilde is not.                      *)
BugDelay(d, kind) == IF kind = "~" THEN 1 ELSE d
DelayOf(d, kind)  == IF kind = "~" THEN d + 1 ELSE d

Nested ==
  /\ at = "list" /\ Top.from # 0 /\ Token.kind \in {"(", "~"}
  /\ frames' = Append(frames, Call(DelayOf(Top.delay, Token.kind)))
  /\ pos' = IF Token.kind = "(" THEN Token.next - 1 ELSE Token.next
  /\ UNCHANGED <<at, lists, failed>> /\ Plain

(* The list is complete: it is evaluated, unless it is a literal.           *)
Complete ==
  /\ at = "list" /\ Top.from # 0 /\ Token.kind = ")"
  /\ lists' = Append(lists, [from |-> Top.from, to |-> buff[Token.next],
                             delay |-> Top.delay, items |-> Top.items])
  /\ Given(Item(IF Top.delay = 0 THEN "value" ELSE "list", <<Top.from>>, Top.delay))
  /\ pos' = Token.next
  /\ UNCHANGED failed /\ Plain

(* An error: what was read of the list is released, and the caller goes on  *)
(* with an empty list in its place.                                         *)
GiveUp ==
  /\ at = "list"
  /\ IF Top.from = 0 THEN Token.kind # "("
     ELSE Token.kind \notin {"word", "(", "~", ")"}
  /\ Given(Item("empty", <<>>, Top.delay))
  /\ pos' = Token.next /\ failed' = TRUE
  /\ UNCHANGED lists /\ Plain

(* parse_command and parse: nothing may follow the list.                    *)
AfterList ==
  /\ at = "after"
  /\ at' = "done" /\ failed' = (failed \/ Token.kind # End \/ Token.open)
  /\ UNCHANGED <<pos, frames, lists>> /\ Plain

-----------------------------------------------------------------------------
(* parse_command and parse_pipe                                             *)

Start ==
  /\ at = "start"
  /\ LET t == NextToken(0) IN
     CASE t.kind = "(" ->
            /\ fancy' = FALSE /\ at' = "list" /\ frames' = <<Call(0)>>
            /\ UNCHANGED failed
       [] t.kind = "word" -> at' = "stage" /\ UNCHANGED <<fancy, frames, failed>>
       [] OTHER -> /\ at' = "done" /\ failed' = (t.kind # End \/ t.open)
                   /\ UNCHANGED <<fancy, frames>>
  /\ pos' = 0
  /\ UNCHANGED <<reading, words, redirs, ran, lists>>

InPipe == UNCHANGED <<reading, fancy, frames, lists>>

PipeWord ==
  /\ at = "stage" /\ redirs = <<>> /\ Token.kind = "word"
  /\ words' = Append(Front(words), Append(Last(words), Token.chars))
  /\ pos' = Token.next
  /\ UNCHANGED <<at, redirs, ran, failed>> /\ InPipe

PipeNext ==
  /\ at = "stage" /\ redirs = <<>> /\ Token.kind = ","
  /\ words' = Append(words, <<>>)
  /\ pos' = Token.next
  /\ UNCHANGED <<at, redirs, ran, failed>> /\ InPipe

(* One redirection each way at most, a word after each, and nothing else    *)
(* after the first of them.                                                 *)
BugTwice(sign) == TRUE
Unused(sign) == \A n \in DOMAIN redirs : redirs[n].sign # sign
MayRedirect == /\ Token.kind \in {"<", ">"} /\ Unused(Token.kind)
               /\ NextToken(Token.next).kind = "word"

Redirect ==
  /\ at = "stage" /\ MayRedirect
  /\ LET file == NextToken(Token.next)
     IN redirs' = Append(redirs, [sign |-> Token.kind, file |-> file.chars])
          /\ pos' = file.next
  /\ UNCHANGED <<at, words, ran, failed>> /\ InPipe

(* A quote that is not closed is reported; what comes before it runs.       *)
PipeRun ==
  /\ at = "stage" /\ Token.kind = End
  /\ ran' = TRUE /\ at' = "done" /\ failed' = (failed \/ Token.open)
  /\ UNCHANGED <<pos, words, redirs>> /\ InPipe

PipeFail ==
  /\ at = "stage" /\ Token.kind # End /\ ~MayRedirect
  /\ redirs # <<>> \/ Token.kind \notin {"word", ","}
  /\ at' = "done" /\ failed' = TRUE
  /\ UNCHANGED <<pos, words, redirs, ran>> /\ InPipe

(* split: parse_sequence without special characters.                        *)
SplitWord ==
  /\ at = "split" /\ Token.kind = "word"
  /\ words' = <<Append(words[1], Token.chars)>> /\ pos' = Token.next
  /\ UNCHANGED <<at, redirs, ran, failed>> /\ InPipe

SplitEnd ==
  /\ at = "split" /\ Token.kind = End
  /\ at' = "done" /\ failed' = (failed \/ Token.open)
  /\ UNCHANGED <<pos, words, redirs, ran>> /\ InPipe

Finished == at \in {"done", "undefined"} /\ UNCHANGED vars

Next == \/ FileChar \/ LineChar \/ Overrun \/ EndOfFile
        \/ Begin \/ AddWord \/ Nested \/ Complete \/ GiveUp \/ AfterList
        \/ Start \/ PipeWord \/ PipeNext \/ Redirect \/ PipeRun \/ PipeFail
        \/ SplitWord \/ SplitEnd
        \/ Finished

Spec == Init /\ [][Next]_vars

-----------------------------------------------------------------------------
(* Properties                                                               *)

TypeOK ==
  /\ at \in {"read", "start", "list", "after", "stage", "split", "done", "undefined"}
  /\ offset \in 0 .. Len(text) /\ i \in 0 .. Len(buff) /\ pos \in 0 .. Len(text)
  /\ \A k \in DOMAIN buff : buff[k] \in 1 .. Len(text) \cup {NUL, Junk}
  /\ \A n \in DOMAIN frames : frames[n].from \in 0 .. Len(text)
  /\ (at = "list") = (frames # <<>>)
  /\ failed \in BOOLEAN /\ ran \in BOOLEAN

(* While a script or a line is read the buffer, grown if need be, has room  *)
(* for the next character and the zero after the last; and it holds what    *)
(* was read before, in that order: growing it loses nothing.                *)
StaysInside ==
  at = "read" =>
    /\ offset < Len(text) => \A b \in Roomy(buff, i) : i + 2 <= Len(b)
    /\ \A k \in 1 .. i : /\ buff[k] \in 1 .. offset
                        /\ \A j \in 1 .. k - 1 : buff[j] < buff[k]
    /\ i > 0 => buff[i] = offset

(* When a list of a script is evaluated, nothing was read of the script     *)
(* beyond the parenthesis that closes the outermost list around it: a       *)
(* command that reads the file the script comes from (esh < script) finds   *)
(* what follows its own expression.                                         *)
LeavesTheRest ==
  /\ at = "list" /\ entry = "script" /\ ~failed /\ frames[1].from # 0
  /\ ~OpenComment(text, fancy)
  =>
    IsList(text, fancy, frames[1].from, offset)

(* What is evaluated is what is written (module Expressions).  A script     *)
(* that ends inside a comment is exempt: parse_file takes the last          *)
(* character of the comment for one of the script.                          *)
Written == INSTANCE Expressions WITH
  failed <- failed \/ (entry = "script" /\ OpenComment(text, fancy))
ReadsAsWritten == Written!Spec

(* Text is read without an error exactly when it is well formed; then a     *)
(* command line runs the pipeline that is written, and split returns the    *)
(* words of a text that has no quotes and no comments.                      *)
WellFormed ==
  CASE entry = "script" -> IsScript(text)
    [] entry = "parse"  -> IsOneList(text, fancy)
    [] entry = "line"   -> IF StartsList(text) THEN IsOneList(text, FALSE) ELSE IsPipe(text)

ReadsScript == ~OpenComment(text, fancy) => (failed <=> ~WellFormed)
ReadsLine ==
  IF text = <<>> \/ Last(text) # "\n" THEN ~failed /\ ~ran
  ELSE /\ failed <=> ~WellFormed
       /\ WellFormed /\ ~StartsList(text) /\ Pieces(text, TRUE) # {} =>
            /\ ran /\ words = Stages(text)
            /\ {redirs[n] : n \in DOMAIN redirs} =
                 {[sign |-> text[p], file |-> FileAfter(text, p)] : p \in Signs(text, {"<", ">"})}
ReadsWords ==
  (\A k \in 1 .. Len(text) : text[k] \notin Quotes \cup {"#"}) =>
    ~failed /\ words = <<BlankRuns(text)>>
ReadsWholeText ==
  at = "done" => CASE entry = "script" -> ReadsScript
                   [] entry = "line"   -> ReadsLine
                   [] entry = "parse"  -> failed <=> ~WellFormed
                   [] entry = "split"  -> ReadsWords
==============================================================================
