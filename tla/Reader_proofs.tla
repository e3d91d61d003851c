---------------------------- MODULE Reader_proofs ----------------------------
(***************************************************************************)
(* Theorems about Reader, for texts and buffers of any length: the loops   *)
(* that read one character at a time find room for it and lose nothing of  *)
(* what they read; the tokenizer stays inside the text; parse_file stops   *)
(* at the parenthesis where the parser does; and what is evaluated is what *)
(* is written, that is, Reader implements Expressions.                     *)
(***************************************************************************)
EXTENDS Reader, WellFoundedInduction, FiniteSetTheorems, TLAPS

Cells == 1 .. Len(text) \cup {NUL, Junk}

-----------------------------------------------------------------------------
(* The buffer                                                               *)

(* strcpy ends at a zero or where memory was never written, so behind the   *)
(* characters; the new buffer is twice as long.                             *)
LEMMA RoomyBuffer ==
  ASSUME NEW b \in Seq(Cells), Len(b) >= 1, NEW n \in Nat, n + 1 <= Len(b),
         Len(text) \in Nat, \A k \in 1 .. n : b[k] \in 1 .. Len(text), NEW c \in Roomy(b, n)
  PROVE  /\ c \in Seq(Cells) /\ Len(c) >= Len(b) /\ n + 2 <= Len(c)
         /\ \A k \in 1 .. n : c[k] = b[k]
<1>1. NUL \notin Nat /\ Junk \notin Nat /\ Len(b) \in Nat
  BY ReaderAssumption
<1>2. CASE ~IsFull(b, n)
  BY <1>1, <1>2 DEF Roomy, IsFull
<1>3. CASE IsFull(b, n)
  <2>1. PICK e \in 1 .. Len(b) : c = Copied(b, e) /\ b[e] \in {NUL, Junk}
    BY <1>3 DEF Roomy, Ends
  <2>2. n < e
    BY <1>1, <2>1
  <2>3. c = [k \in 1 .. 2 * Len(b) |-> IF k < e THEN b[k] ELSE IF k = e THEN NUL ELSE Junk]
    BY <2>1 DEF Copied
  <2>4. \A k \in 1 .. 2 * Len(b) : k < e => b[k] \in Cells
    BY <1>1, <2>1
  <2>5. c \in [1 .. 2 * Len(b) -> Cells] /\ 2 * Len(b) \in Nat
    BY <1>1, <2>3, <2>4 DEF Cells
  <2>6. c \in Seq(Cells) /\ Len(c) = 2 * Len(b)
    BY <2>5
  <2>7. \A k \in 1 .. n : c[k] = b[k]
    BY <1>1, <2>1, <2>2, <2>3
  <2> QED BY <1>1, <2>6, <2>7
<1> QED BY <1>2, <1>3

LEMMA StoredBuffer ==
  ASSUME NEW b \in Seq(Cells), NEW n \in Nat, n + 1 <= Len(b), NEW v \in Cells,
         NEW c, c = [b EXCEPT ![n + 1] = v]
  PROVE  /\ c \in Seq(Cells) /\ Len(c) = Len(b) /\ c[n + 1] = v
         /\ \A k \in 1 .. n : c[k] = b[k]
OBVIOUS

-----------------------------------------------------------------------------
(* The text                                                                 *)

(* A set of naturals has a least element.                                   *)
LEMMA Least ==
  ASSUME NEW T \in SUBSET Nat, T # {}
  PROVE  \E x \in T : \A y \in T : x <= y
<1>1. IsWellFoundedOn({ss \in Nat \X Nat : ss[1] < ss[2]}, Nat)
  BY NatLessThanWellFounded DEF OpToRel
<1>2. PICK x \in T : \A y \in T : ~(<<y, x>> \in {ss \in Nat \X Nat : ss[1] < ss[2]})
  BY <1>1, WFMin, Zenon
<1>3. \A y \in T : ~(y < x)
  BY <1>2
<1> QED BY <1>3

(* Induction over positions, from the last.                                 *)
LEMMA Downward ==
  ASSUME NEW a \in Nat, NEW N \in Nat, NEW T,
         \A k \in a .. N : (\A j \in k + 1 .. N : j \in T) => k \in T
  PROVE  \A k \in a .. N : k \in T
<1> SUFFICES ASSUME \E k \in a .. N : k \notin T PROVE FALSE
  OBVIOUS
<1> DEFINE M == {m \in Nat : m <= N /\ N - m >= a /\ (N - m) \notin T}
<1>1. PICK k \in a .. N : k \notin T
  OBVIOUS
<1>2. N - k \in M
  BY <1>1
<1>3. PICK m \in M : \A y \in M : m <= y
  <2> HIDE DEF M
  <2>1. M \in SUBSET Nat
    BY DEF M
  <2> QED BY <1>2, <2>1, Least
<1>4. ASSUME NEW j \in N - m + 1 .. N PROVE j \in T
  <2>1. N - j \in Nat /\ N - j < m /\ N - (N - j) = j /\ j >= a
    BY <1>3
  <2> QED BY <1>3, <2>1
<1>5. N - m \in a .. N /\ N - m \notin T
  BY <1>3
<1> QED BY <1>4, <1>5

(* The rest of a comment ends at a newline or at the end of the text.       *)
LEMMA LineEndRange ==
  ASSUME Len(text) \in Nat, NEW k \in 1 .. Len(text)
  PROVE  LineEnd(k) \in k .. Len(text)
<1>1. PICK n \in Nat : n = Len(text)
  OBVIOUS
<1> DEFINE T == {e \in k .. n + 1 : e <= n => text[e] \in {"\n"}}
<1>2. PICK e \in T : \A y \in T : e <= y
  <2>1. T \in SUBSET Nat /\ n + 1 \in T
    BY <1>1
  <2> HIDE DEF T
  <2> QED BY <2>1, Least
<1>3. /\ e \in k .. Len(text) + 1
      /\ \A j \in k .. e - 1 : text[j] \notin {"\n"}
      /\ e <= Len(text) => text[e] \in {"\n"}
  BY <1>1, <1>2
<1>4. Until(text, {"\n"}, k) \in k .. Len(text) + 1
  BY <1>3 DEF Until
<1> QED BY <1>1, <1>4 DEF LineEnd

-----------------------------------------------------------------------------
(* What the reading loops keep.                                             *)

Shape == /\ Len(text) \in Nat /\ buff \in Seq(Cells) /\ Len(buff) >= 1
         /\ offset \in 0 .. Len(text) /\ i \in 0 .. offset /\ i <= Len(buff)

(* One cell more than the characters; the next expression of a script       *)
(* starts again at the first.                                               *)
Room  == /\ at = "read" => i + 1 <= Len(buff)
         /\ at \in {"start", "list"} => i = 0

Order(b, n, o) == /\ \A k \in 1 .. n : /\ b[k] \in 1 .. o
                                      /\ \A j \in 1 .. k - 1 : b[j] < b[k]
                  /\ n > 0 => b[n] = o
Kept  == at = "read" => Order(buff, i, offset)

(* What the parsers read: n characters of the text and a zero.              *)
Holds(b, n) == /\ n + 1 <= Len(b) /\ n <= Len(text) /\ b[n + 1] = NUL
               /\ \A k \in 1 .. n : b[k] \in 1 .. Len(text)
Parsed == at \in {"start", "list", "after", "stage", "split"}
Closed == Parsed => \E n \in Nat : Holds(buff, n)

ReadInv == Shape /\ Room /\ Kept /\ Closed

LEMMA ReadStart == Init => ReadInv
<1> SUFFICES ASSUME Init PROVE ReadInv
  OBVIOUS
<1>1. /\ offset = 0 /\ i = 0
      /\ buff = IF at = "read" THEN Fresh(FirstLen) ELSE Whole(text)
  BY DEF Init
<1>2. Len(text) \in Nat
  <2>1. ASSUME NEW s \in CmdLines, NEW c PROVE Len(s \o <<c>>) \in Nat
    <3>1. s \in Seq((STRING \ {End}) \cup {c}) /\ <<c>> \in Seq((STRING \ {End}) \cup {c})
      BY ReaderAssumption
    <3> QED BY <3>1
  <2>2. \A s \in Scripts \cup CmdLines \cup Strings : Len(s) \in Nat
    BY ReaderAssumption
  <2> QED BY <2>1, <2>2 DEF Init
<1>3. Fresh(FirstLen) \in Seq(Cells) /\ Len(Fresh(FirstLen)) = FirstLen
  BY ReaderAssumption DEF Fresh, Cells
<1>4. Whole(text) \in Seq(Cells) /\ Len(Whole(text)) = Len(text) + 1
      /\ Holds(Whole(text), Len(text))
  BY <1>2 DEF Whole, Cells, Holds
<1>5. buff \in Seq(Cells) /\ Len(buff) >= 1
  BY <1>1, <1>2, <1>3, <1>4, ReaderAssumption
<1>6. Closed
  <2>1. at # "read" => Holds(buff, Len(text))
    BY <1>1, <1>4
  <2> QED BY <1>2, <2>1 DEF Closed, Parsed
<1>7. Room
  <2>1. at = "read" => Len(buff) = FirstLen
    BY <1>1, <1>3
  <2> QED BY <1>1, <2>1, ReaderAssumption DEF Room
<1> QED BY <1>1, <1>2, <1>5, <1>6, <1>7 DEF ReadInv, Shape, Kept, Order

(* Another character behind those stored, and the zero behind it.           *)
LEMMA Another ==
  ASSUME Shape, Room, Kept, at = "read", offset < Len(text), NEW b \in Roomy(buff, i),
         NEW o \in offset + 1 .. Len(text), NEW c, c = Stored(b, i, o)
  PROVE  /\ c \in Seq(Cells) /\ i + 2 <= Len(c) /\ Order(c, i + 1, o)
         /\ i + 1 <= o /\ Terminated(c, i + 1) \in Seq(Cells)
         /\ Holds(Terminated(c, i + 1), i + 1)
         /\ \A k \in 1 .. i : c[k] = buff[k] /\ Terminated(c, i + 1)[k] = buff[k]
         /\ c[i + 1] = o /\ Terminated(c, i + 1)[i + 1] = o
<1>1. /\ buff \in Seq(Cells) /\ i \in 0 .. offset /\ i + 1 <= Len(buff) /\ Len(buff) >= 1
      /\ i \in Nat /\ i + 1 <= o /\ offset \in 0 .. Len(text) /\ Len(text) \in Nat
      /\ \A k \in 1 .. i : buff[k] \in 1 .. offset /\ \A j \in 1 .. k - 1 : buff[j] < buff[k]
  BY DEF Shape, Room, Kept, Order
<1>2. /\ b \in Seq(Cells) /\ i + 2 <= Len(b) /\ \A k \in 1 .. i : b[k] = buff[k]
  <2>1. \A k \in 1 .. i : buff[k] \in 1 .. Len(text)
    BY <1>1
  <2> QED BY <1>1, <2>1, RoomyBuffer
<1>3. /\ c \in Seq(Cells) /\ Len(c) = Len(b) /\ c[i + 1] = o
      /\ \A k \in 1 .. i : c[k] = b[k]
  <2>1. o \in Cells /\ c = [b EXCEPT ![i + 1] = o] /\ i + 1 <= Len(b)
    BY <1>1, <1>2 DEF Cells, Stored
  <2> QED BY <1>1, <1>2, <2>1, StoredBuffer
<1>4. Order(c, i + 1, o)
  <2>1. ASSUME NEW k \in 1 .. i + 1
        PROVE  c[k] \in 1 .. o /\ \A j \in 1 .. k - 1 : c[j] < c[k]
    <3>1. CASE k = i + 1
      <4>1. \A j \in 1 .. i : c[j] \in 1 .. offset
        BY <1>1, <1>2, <1>3
      <4> QED BY <1>1, <1>3, <3>1, <4>1
    <3>2. CASE k # i + 1
      <4>1. k \in 1 .. i /\ \A j \in 1 .. k - 1 : j \in 1 .. i
        BY <1>1, <2>1, <3>2
      <4>2. c[k] = buff[k] /\ \A j \in 1 .. k - 1 : c[j] = buff[j]
        BY <1>2, <1>3, <4>1
      <4> QED BY <1>1, <4>1, <4>2
    <3> QED BY <3>1, <3>2
  <2> QED BY <1>3, <2>1 DEF Order
<1>5. /\ Terminated(c, i + 1) \in Seq(Cells) /\ Len(Terminated(c, i + 1)) = Len(c)
      /\ Terminated(c, i + 1)[(i + 1) + 1] = NUL
      /\ \A k \in 1 .. i + 1 : Terminated(c, i + 1)[k] = c[k]
  <2>1. NUL \in Cells /\ i + 1 \in Nat /\ (i + 1) + 1 <= Len(c)
    BY <1>1, <1>2, <1>3 DEF Cells
  <2>2. Terminated(c, i + 1) = [c EXCEPT ![(i + 1) + 1] = NUL]
    BY DEF Terminated
  <2> QED BY <1>3, <2>1, <2>2, StoredBuffer
<1>6. Holds(Terminated(c, i + 1), i + 1)
  <2>1. \A k \in 1 .. i + 1 : c[k] \in 1 .. Len(text)
    BY <1>1, <1>4 DEF Order
  <2> QED BY <1>1, <1>2, <1>3, <1>5, <2>1 DEF Holds
<1>7. \A k \in 1 .. i : c[k] = buff[k] /\ Terminated(c, i + 1)[k] = buff[k]
  <2>1. \A k \in 1 .. i : k \in 1 .. i + 1
    BY <1>1
  <2> QED BY <1>2, <1>3, <1>5, <2>1
<1> QED BY <1>1, <1>2, <1>3, <1>4, <1>5, <1>6, <1>7

LEMMA Ending ==
  ASSUME Len(text) \in Nat, text' = text, i \in Nat, NEW o \in 1 .. Len(text), offset' = o,
         NEW b, b \in Seq(Cells), Holds(b, i + 1), buff' = b, i' = 0, at' \in {"list", "start"}
  PROVE  ReadInv'
<1>1. Shape'
  BY DEF Shape, Cells, Holds
<1>2. Room' /\ Kept'
  BY DEF Room, Kept
<1>3. Closed'
  BY DEF Closed, Holds
<1> QED BY <1>1, <1>2, <1>3 DEF ReadInv

LEMMA Going ==
  ASSUME Len(text) \in Nat, text' = text, i \in Nat, NEW o \in 1 .. Len(text), offset' = o,
         NEW c \in Seq(Cells), i + 2 <= Len(c), i + 1 <= o, Order(c, i + 1, o),
         buff' = c, i' = i + 1, at' = "read"
  PROVE  ReadInv'
<1>1. Shape'
  BY DEF Shape, Cells
<1>2. Room'
  BY DEF Room
<1>3. Kept' /\ Closed'
  BY DEF Kept, Closed, Parsed, Order
<1> QED BY <1>1, <1>2, <1>3 DEF ReadInv

LEMMA FileCharStep ==
  ASSUME ReadInv, FileChar
  PROVE  ReadInv'
<1>1. /\ Shape /\ Room /\ Kept /\ at = "read" /\ offset < Len(text) /\ text' = text
      /\ Len(text) \in Nat /\ offset \in 0 .. Len(text) /\ i \in 0 .. offset
  BY DEF ReadInv, Shape, FileChar
<1>2. PICK b, o :
        /\ b \in Roomy(buff, i)
        /\ o = IF inquote = "none" /\ text[offset + 1] = "#" THEN LineEnd(offset + 1) ELSE offset + 1
        /\ offset' = o
        /\ \/ /\ buff' = Terminated(Stored(b, i, o), i + 1) /\ i' = 0 /\ at' = "list"
           \/ /\ buff' = Stored(b, i, o) /\ i' = i + 1 /\ at' = at
  BY Zenon DEF FileChar
<1>3. o \in offset + 1 .. Len(text)
  <2>1. offset + 1 \in 1 .. Len(text)
    BY <1>1
  <2> QED BY <1>1, <1>2, <2>1, LineEndRange
<1>4. PICK c : c = Stored(b, i, o)
  OBVIOUS
<1>5. /\ c \in Seq(Cells) /\ i + 2 <= Len(c) /\ Order(c, i + 1, o)
      /\ i + 1 <= o /\ Terminated(c, i + 1) \in Seq(Cells)
      /\ Holds(Terminated(c, i + 1), i + 1)
  BY <1>1, <1>2, <1>3, <1>4, Another
<1>6. CASE buff' = Terminated(c, i + 1) /\ i' = 0 /\ at' = "list"
  BY <1>1, <1>2, <1>3, <1>4, <1>5, <1>6, Ending
<1>7. CASE buff' = c /\ i' = i + 1 /\ at' = at
  BY <1>1, <1>2, <1>3, <1>4, <1>5, <1>7, Going
<1> QED BY <1>2, <1>4, <1>6, <1>7

LEMMA LineCharStep ==
  ASSUME ReadInv, LineChar
  PROVE  ReadInv'
<1>1. /\ Shape /\ Room /\ Kept /\ at = "read" /\ offset < Len(text) /\ text' = text
      /\ Len(text) \in Nat /\ offset \in 0 .. Len(text) /\ i \in 0 .. offset
  BY DEF ReadInv, Shape, LineChar
<1>2. PICK o \in offset + 1 .. Len(text) : o = offset + 1
  BY <1>1
<1>3. PICK b \in Roomy(buff, i) :
        \/ buff' = Terminated(Stored(b, i, o), i + 1) /\ i' = 0 /\ at' = "start"
        \/ buff' = Stored(b, i, o) /\ i' = i + 1 /\ at' = at
  BY <1>2 DEF LineChar
<1>4. PICK c : c = Stored(b, i, o)
  OBVIOUS
<1>5. /\ c \in Seq(Cells) /\ i + 2 <= Len(c) /\ Order(c, i + 1, o)
      /\ i + 1 <= o /\ Terminated(c, i + 1) \in Seq(Cells)
      /\ Holds(Terminated(c, i + 1), i + 1)
  BY <1>1, <1>4, Another
<1>6. offset' = o
  BY <1>2 DEF LineChar
<1>7. CASE buff' = Terminated(c, i + 1) /\ i' = 0 /\ at' = "start"
  BY <1>1, <1>4, <1>5, <1>6, <1>7, Ending
<1>8. CASE buff' = c /\ i' = i + 1 /\ at' = at
  BY <1>1, <1>4, <1>5, <1>6, <1>8, Going
<1> QED BY <1>3, <1>4, <1>7, <1>8

(* Every other step leaves the buffer alone, and the only one that goes     *)
(* back to reading is the end of a script's list.                           *)
LEMMA ParserStep ==
  ASSUME ReadInv, UNCHANGED <<text, offset, buff, i>>,
         at' = at \/ at' \in {"done", "undefined"}
           \/ (at' \in {"read", "list", "after", "stage"} /\ at \in {"start", "list"})
  PROVE  ReadInv'
<1>1. Shape'
  BY DEF ReadInv, Shape, Cells
<1>2. Room'
  BY DEF ReadInv, Shape, Room
<1>3. Kept'
  BY DEF ReadInv, Room, Kept, Order, Shape
<1>4. Closed'
  <2>1. Parsed' => Parsed
    BY DEF Parsed
  <2> QED BY <2>1 DEF ReadInv, Closed, Holds
<1> QED BY <1>1, <1>2, <1>3, <1>4 DEF ReadInv

LEMMA ReadNext == ReadInv /\ [Next]_vars => ReadInv'
<1> SUFFICES ASSUME ReadInv, [Next]_vars PROVE ReadInv'
  OBVIOUS
<1>1. CASE Overrun \/ EndOfFile \/ AfterList \/ PipeRun \/ PipeFail \/ SplitEnd
  BY <1>1, ParserStep DEF Overrun, EndOfFile, AfterList, PipeRun, PipeFail, SplitEnd,
                          reading, Plain, InPipe
<1>2. CASE Begin \/ AddWord \/ Nested \/ PipeWord \/ PipeNext \/ Redirect \/ SplitWord
  BY <1>2, ParserStep DEF Begin, AddWord, Nested, PipeWord, PipeNext, Redirect, SplitWord,
                          reading, Plain, InPipe
<1>3. CASE Complete \/ GiveUp
  <2>1. /\ UNCHANGED <<text, offset, buff, i>> /\ at = "list"
        /\ at' = at \/ at' \in {"read", "after"}
    BY <1>3, Zenon DEF Complete, GiveUp, Given, reading, Plain
  <2> QED BY <2>1, ParserStep
<1>4. CASE Start
  <2>1. /\ UNCHANGED <<text, offset, buff, i>> /\ at = "start" /\ at' \in {"list", "stage", "done"}
    BY <1>4 DEF Start, reading
  <2> QED BY <2>1, ParserStep
<1>5. CASE Finished \/ UNCHANGED vars
  BY <1>5, ParserStep DEF Finished, vars, reading
<1> QED BY <1>1, <1>2, <1>3, <1>4, <1>5, FileCharStep, LineCharStep DEF Next

(* For a script or a line of any length, and a first buffer of any size,    *)
(* parse_file and read_read store inside their buffer and lose nothing of   *)
(* what they read when it grows, unless strcpy ran past its end.            *)
THEOREM BufferHolds == Spec => []StaysInside
<1>1. ReadInv => StaysInside
  <2> SUFFICES ASSUME ReadInv, at = "read"
               PROVE  /\ offset < Len(text) => \A b \in Roomy(buff, i) : i + 2 <= Len(b)
                      /\ Order(buff, i, offset)
    BY DEF StaysInside, Order
  <2>1. /\ buff \in Seq(Cells) /\ Len(buff) >= 1 /\ i \in Nat /\ i + 1 <= Len(buff)
        /\ Order(buff, i, offset) /\ Len(text) \in Nat /\ offset \in 0 .. Len(text)
    BY DEF ReadInv, Shape, Room, Kept
  <2>2. \A k \in 1 .. i : buff[k] \in 1 .. Len(text)
    BY <2>1 DEF Order
  <2> QED BY <2>1, <2>2, RoomyBuffer
<1> QED BY ReadStart, ReadNext, <1>1, PTL DEF Spec

-----------------------------------------------------------------------------
(* The tokenizer, on a buffer that holds n characters                       *)

LEMMA SizeIs ==
  ASSUME Len(text) \in Nat, buff \in Seq(Cells), NEW n \in Nat, Holds(buff, n)
  PROVE  Size = n
<1>1. NUL \notin Nat /\ Len(buff) \in Nat
  BY ReaderAssumption
<1>2. \A k \in 1 .. n : buff[k] # NUL
  BY <1>1 DEF Holds
<1> DEFINE Fit(e) == /\ \A j \in 1 .. e - 1 : buff[j] \notin {NUL}
                     /\ e <= Len(buff) => buff[e] \in {NUL}
<1>3. n + 1 \in 1 .. Len(buff) + 1 /\ Fit(n + 1)
  BY <1>1, <1>2 DEF Holds
<1>4. ASSUME NEW e \in 1 .. Len(buff) + 1, Fit(e) PROVE e = n + 1
  <2>1. CASE e < n + 1
    <3>1. e \in 1 .. n /\ e <= Len(buff)
      BY <1>1, <1>3, <2>1
    <3> QED BY <1>2, <1>4, <3>1
  <2>2. CASE n + 1 < e
    <3>1. n + 1 \in 1 .. e - 1 /\ n + 1 <= Len(buff)
      BY <1>1, <1>3, <2>2
    <3> QED BY <1>3, <1>4, <3>1
  <2> QED BY <1>1, <2>1, <2>2
<1>5. Until(buff, {NUL}, 1) = n + 1
  BY <1>3, <1>4 DEF Until
<1> QED BY <1>5 DEF Size

LEMMA InputIs ==
  ASSUME Len(text) \in Nat, buff \in Seq(Cells), NEW n \in Nat, Holds(buff, n)
  PROVE  /\ Input(n) = End
         /\ \A k \in 0 .. n - 1 : Input(k) = text[buff[k + 1]]
<1>1. \A k \in 0 .. n - 1 : buff[k + 1] # NUL
  BY ReaderAssumption DEF Holds
<1> QED BY <1>1 DEF Input, Holds

LEMMA TurnLocal ==
  ASSUME NEW n \in Nat, Input(n) = End, NEW k \in 0 .. n, NEW mode, NEW w, NEW f, NEW g,
         \A j \in k + 1 .. n : f[j] = g[j]
  PROVE  Turn(f[k + 1], k, mode, w) = Turn(g[k + 1], k, mode, w)
<1>1. CASE k = n
  BY <1>1 DEF Turn
<1>2. CASE k # n
  <2>1. f[k + 1] = g[k + 1]
    BY <1>2
  <2> QED BY <2>1, Zenon
<1> QED BY <1>1, <1>2

LEMMA TokensExist ==
  ASSUME NEW n \in Nat, Input(n) = End
  PROVE  \E f : f = [k \in 0 .. n |->
                       [mode \in Modes |-> [from \in Nat |-> Turn(f[k + 1], k, mode, from)]]]
<1> DEFINE Row(f, k) == [mode \in Modes |-> [from \in Nat |-> Turn(f[k + 1], k, mode, from)]]
           Good(f, m) == \A k \in m .. n : f[k] = Row(f, k)
           T == {m \in 0 .. n : \E f : Good(f, m)}
<1>1. ASSUME NEW f, NEW g, NEW k \in 0 .. n, \A j \in k + 1 .. n : f[j] = g[j]
      PROVE  Row(f, k) = Row(g, k)
  <2>1. \A mode, w : Turn(f[k + 1], k, mode, w) = Turn(g[k + 1], k, mode, w)
    BY <1>1, TurnLocal
  <2>2. \A mode : [from \in Nat |-> Turn(f[k + 1], k, mode, from)] = [from \in Nat |-> Turn(g[k + 1], k, mode, from)]
    BY <2>1, Zenon
  <2> QED BY <2>2, Zenon
<1> HIDE DEF Row
<1>2. ASSUME NEW m \in 0 .. n, \A j \in m + 1 .. n : j \in T
      PROVE  m \in T
  <2>1. PICK g : Good(g, m + 1)
    <3>1. CASE m = n
      BY <3>1
    <3>2. CASE m # n
      <4>1. m + 1 \in m + 1 .. n
        BY <3>2
      <4> QED BY <1>2, <4>1
    <3> QED BY <3>1, <3>2
  <2>2. PICK h : h = [k \in 0 .. n |-> IF k = m THEN Row(g, m) ELSE g[k]]
    OBVIOUS
  <2>3. h[m] = Row(g, m) /\ \A k \in m + 1 .. n : h[k] = g[k]
    BY <2>2
  <2>4. ASSUME NEW k \in m .. n PROVE h[k] = Row(h, k)
    <3>1. k \in 0 .. n /\ \A j \in k + 1 .. n : g[j] = h[j]
      BY <2>3
    <3>2. Row(g, k) = Row(h, k)
      BY <1>1, <3>1
    <3>3. CASE k = m
      BY <2>3, <3>2, <3>3
    <3>4. CASE k # m
      <4>1. k \in m + 1 .. n
        BY <3>4
      <4> QED BY <2>1, <2>3, <3>2, <4>1
    <3> QED BY <3>3, <3>4
  <2> QED BY <2>4
<1>3. 0 \in T
  <2> HIDE DEF T
  <2>1. 0 \in 0 .. n /\ 0 \in Nat
    OBVIOUS
  <2> QED BY <1>2, <2>1, Downward
<1>4. PICK f : Good(f, 0)
  BY <1>3, Zenon
<1>5. PICK g : g = [k \in 0 .. n |-> f[k]]
  OBVIOUS
<1>6. \A k \in 0 .. n : Row(f, k) = Row(g, k) /\ g[k] = f[k]
  <2> TAKE k \in 0 .. n
  <2>1. \A j \in k + 1 .. n : f[j] = g[j]
    BY <1>5
  <2> QED BY <1>1, <1>5, <2>1
<1>7. g = [k \in 0 .. n |-> Row(g, k)]
  BY <1>4, <1>5, <1>6
<1> QED BY <1>7, Zenon DEF Row

LEMMA TokensAre ==
  ASSUME Len(text) \in Nat, buff \in Seq(Cells), NEW n \in Nat, Holds(buff, n),
         NEW k \in 0 .. n, NEW mode \in Modes, NEW w \in Nat
  PROVE  Tokens[k][mode][w] = Turn(Tokens[k + 1], k, mode, w)
<1>1. Size = n /\ Input(n) = End
  BY SizeIs, InputIs
<1>2. PICK f : f = Tokens
  OBVIOUS
<1>3. f = CHOOSE g : g = [j \in 0 .. Size |->
                            [m \in Modes |-> [from \in Nat |-> Turn(g[j + 1], j, m, from)]]]
  BY <1>2, Zenon DEF Tokens
<1>4. f = [j \in 0 .. n |-> [m \in Modes |-> [from \in Nat |-> Turn(f[j + 1], j, m, from)]]]
  <2>1. \E g : g = [j \in 0 .. n |->
                      [m \in Modes |-> [from \in Nat |-> Turn(g[j + 1], j, m, from)]]]
    <3>1. Input(n) = End
      BY <1>1
    <3> QED BY <3>1, TokensExist, Zenon
  <2>2. Size = n
    BY <1>1
  <2>3. f = CHOOSE g : g = [j \in 0 .. n |->
                              [m \in Modes |-> [from \in Nat |-> Turn(g[j + 1], j, m, from)]]]
    BY <1>3, <2>2, Zenon
  <2> QED BY <2>1, <2>3, Zenon
<1>5. f[k] = [m \in Modes |-> [from \in Nat |-> Turn(f[k + 1], k, m, from)]]
  BY <1>4, Zenon
<1>6. f[k][mode] = [from \in Nat |-> Turn(f[k + 1], k, mode, from)]
  BY <1>5, Zenon
<1> QED BY <1>2, <1>6, Zenon

(* One turn, by the mode and the character.                                 *)
LEMMA TurnEnd ==
  ASSUME NEW r, NEW k, NEW mode, NEW w, Input(k) = End
  PROVE  Turn(r, k, mode, w) = EndToken(k, mode, w)
BY Zenon DEF Turn

LEMMA TurnComment ==
  ASSUME NEW r, NEW k, NEW w, Input(k) # End
  PROVE  Turn(r, k, "comment", w) = r[IF Input(k) = "\n" THEN "skip" ELSE "comment"][w]
BY DEF Turn, Quotes

LEMMA TurnWord ==
  ASSUME NEW r, NEW k, NEW w, Input(k) # End
  PROVE  Turn(r, k, "word", w) \in {Tok("word", w, k, k, FALSE), r["word"][w]}
BY DEF Turn, Quotes

LEMMA TurnQuote ==
  ASSUME NEW r, NEW k, NEW mode \in Quotes, NEW w, Input(k) # End
  PROVE  Turn(r, k, mode, w) \in {Tok("word", w, k, k + 1, FALSE), r[mode][w]}
BY DEF Turn, Quotes

LEMMA TurnSkip ==
  ASSUME NEW r, NEW k \in Nat, NEW w \in Nat, Input(k) # End
  PROVE  /\ Input(k) \in Quotes => Turn(r, k, "skip", w) = r[Input(k)][k + 1]
         /\ Input(k) = "#" => Turn(r, k, "skip", w) = r["comment"][w]
         /\ Input(k) \in Blank => Turn(r, k, "skip", w) = r["skip"][w]
<1> PICK c : c = Input(k) /\ c # End
  OBVIOUS
<1>1. Turn(r, k, "skip", w) = Skip(r, k, w)
  BY DEF Turn, Quotes
<1>2. c \in Quotes => Skip(r, k, w) = r[c][k + 1]
  BY DEF Skip, Quotes, Blank
<1>3. c = "#" => Skip(r, k, w) = r["comment"][w]
  BY DEF Skip, Quotes, Blank
<1>4. c \in Blank => Skip(r, k, w) = r["skip"][w]
  BY DEF Skip, Quotes, Blank
<1> QED BY <1>1, <1>2, <1>3, <1>4

Other(c) == c \notin Quotes \cup {"#"} \cup Blank

LEMMA TurnSpecial ==
  ASSUME NEW r, NEW k, NEW w, Input(k) # End, Other(Input(k)), IsSpecial(Input(k))
  PROVE  Turn(r, k, "skip", w) = Tok(Input(k), k, k, k + 1, FALSE)
<1>1. Turn(r, k, "skip", w) = Skip(r, k, w)
  BY DEF Turn, Quotes
<1>2. Skip(r, k, w) = Tok(Input(k), k, k, k + 1, FALSE)
  BY Zenon DEF Skip, Other
<1> QED BY <1>1, <1>2, Zenon

LEMMA TurnLetter ==
  ASSUME NEW r, NEW k, NEW w, Input(k) # End, Other(Input(k)), ~IsSpecial(Input(k))
  PROVE  /\ Turn(r, k, "skip", w) \in {r["word"][k], r["skip"][w]}
         /\ k = 0 \/ Input(k - 1) \in Blank => Turn(r, k, "skip", w) = r["word"][k]
<1> DEFINE Starts == k = 0 \/ Input(k - 1) \in Blank \/ IsSpecial(Input(k - 1))
<1>1. Turn(r, k, "skip", w) = Skip(r, k, w)
  BY DEF Turn, Quotes
<1>2. Skip(r, k, w) = IF Starts THEN r["word"][k] ELSE r["skip"][w]
  BY Zenon DEF Skip, Other
<1>3. (k = 0 \/ Input(k - 1) \in Blank) => Starts
  BY Zenon
<1> HIDE DEF Starts
<1> QED BY <1>1, <1>2, <1>3

LEMMA PartOf ==
  ASSUME NEW S, NEW b \in Seq(S), NEW from \in Nat, NEW to \in Nat, to <= Len(b)
  PROVE  SubSeq(b, from + 1, to) \in Seq(S)
OBVIOUS

(* A token ends between where it was looked for and the end of the text; a  *)
(* special character is one of the text.                                    *)
Good(t, k, n) == /\ t.next \in k .. n
                 /\ t.kind \notin {"word", End} => t.next >= 1
                 /\ t.chars \in Seq(Cells) /\ t.open \in BOOLEAN

LEMMA TokGood ==
  ASSUME buff \in Seq(Cells), NEW n \in Nat, n <= Len(buff), NEW k \in 0 .. n, NEW w \in Nat,
         NEW to \in k .. n, NEW kind, NEW open \in BOOLEAN,
         to > 0 \/ kind \in {"word", End}
  PROVE  Good(Tok(kind, w, k, to, open), k, n)
<1>1. SubSeq(buff, w + 1, k) \in Seq(Cells)
  BY PartOf
<1>2. PICK t : t = Tok(kind, w, k, to, open)
  OBVIOUS
<1>3. t.next = to /\ t.chars = SubSeq(buff, w + 1, k) /\ t.open = open
  BY <1>2 DEF Tok
<1>4. t.kind = kind
  BY <1>2 DEF Tok
<1>5. t.next >= 1 \/ t.kind \in {"word", End}
  BY <1>3, <1>4
<1> QED BY <1>1, <1>2, <1>3, <1>5 DEF Good

LEMMA TokensGood ==
  ASSUME Len(text) \in Nat, buff \in Seq(Cells), NEW n \in Nat, Holds(buff, n),
         NEW k \in 0 .. n, NEW mode \in Modes, NEW w \in Nat
  PROVE  Good(Tokens[k][mode][w], k, n)
<1> DEFINE T == {j \in 0 .. n : \A m \in Modes, x \in Nat : Good(Tokens[j][m][x], j, n)}
<1>1. n <= Len(buff) /\ Len(buff) \in Nat /\ Input(n) = End
  BY InputIs DEF Holds
<1>2. ASSUME NEW j \in 0 .. n, \A l \in j + 1 .. n : l \in T
      PROVE  j \in T
  <2> SUFFICES ASSUME NEW m \in Modes, NEW x \in Nat PROVE Good(Tokens[j][m][x], j, n)
    OBVIOUS
  <2>1. PICK r : r = Tokens[j + 1]
    OBVIOUS
  <2>2. PICK t : t = Tokens[j][m][x] /\ t = Turn(r, j, m, x)
    BY <2>1, TokensAre
  <2>3. CASE Input(j) = End
    <3>1. t = EndToken(j, m, x)
      BY <2>2, <2>3, TurnEnd
    <3>2. j \in j .. n /\ j \in Nat /\ FALSE \in BOOLEAN /\ (m \in Quotes) \in BOOLEAN
      OBVIOUS
    <3>3. CASE m = "word"
      BY <1>1, <2>2, <3>1, <3>2, <3>3, TokGood DEF EndToken
    <3>4. CASE m # "word"
      BY <1>1, <2>2, <3>1, <3>2, <3>4, TokGood DEF EndToken
    <3> QED BY <3>3, <3>4
  <2>4. CASE Input(j) # End
    <3>1. j + 1 \in 0 .. n /\ j + 1 \in j .. n /\ j \in j .. n /\ j \in Nat /\ j + 1 > 0
      BY <1>1, <2>4
    <3>2. j + 1 \in T
      BY <1>2, <3>1
    <3>3. ASSUME NEW y \in Modes, NEW z \in Nat PROVE Good(r[y][z], j, n)
      <4>1. Good(r[y][z], j + 1, n)
        BY <2>1, <3>2
      <4> QED BY <3>1, <4>1 DEF Good
    <3>4. {"skip", "word", "comment"} \subseteq Modes /\ Quotes \subseteq Modes
      BY DEF Modes
    <3>5. CASE m = "comment"
      <4>1. t \in {r["skip"][x], r["comment"][x]}
        BY <2>2, <2>4, <3>5, TurnComment
      <4>2. Good(r["skip"][x], j, n) /\ Good(r["comment"][x], j, n)
        BY <3>3, <3>4
      <4> QED BY <2>2, <4>1, <4>2
    <3>6. CASE m = "word"
      <4>1. t \in {Tok("word", x, j, j, FALSE), r["word"][x]}
        BY <2>2, <2>4, <3>6, TurnWord
      <4>2. Good(r["word"][x], j, n)
        BY <3>3, <3>4
      <4>3. Good(Tok("word", x, j, j, FALSE), j, n)
        BY <1>1, <3>1, TokGood
      <4> QED BY <2>2, <4>1, <4>2, <4>3
    <3>7. CASE m \in Quotes
      <4>1. t \in {Tok("word", x, j, j + 1, FALSE), r[m][x]}
        <5>1. Turn(r, j, m, x) \in {Tok("word", x, j, j + 1, FALSE), r[m][x]}
          BY <2>4, <3>7, TurnQuote
        <5> QED BY <2>2, <5>1
      <4>2. Good(r[m][x], j, n)
        BY <3>3
      <4>3. Good(Tok("word", x, j, j + 1, FALSE), j, n)
        BY <1>1, <3>1, TokGood
      <4> QED BY <2>2, <4>1, <4>2, <4>3
    <3>8. CASE m = "skip"
      <4>1. t = Turn(r, j, "skip", x)
        BY <2>2, <3>8
      <4>2. CASE Input(j) \in Quotes
        <5>1. t = r[Input(j)][j + 1]
          BY <2>4, <3>1, <4>1, <4>2, TurnSkip
        <5>2. Good(r[Input(j)][j + 1], j, n)
          BY <3>1, <3>3, <3>4, <4>2
        <5> QED BY <2>2, <5>1, <5>2
      <4>3. CASE Input(j) \notin Quotes
        <5>1. t \in {r["comment"][x], r["skip"][x], r["word"][j], Tok(Input(j), j, j, j + 1, FALSE)}
          <6>1. CASE Input(j) = "#"
            <7>1. t = r["comment"][x]
              BY <2>4, <3>1, <4>1, <6>1, TurnSkip
            <7> QED BY <7>1, Zenon
          <6>2. CASE Input(j) \in Blank
            <7>1. t = r["skip"][x]
              BY <2>4, <3>1, <4>1, <6>2, TurnSkip
            <7> QED BY <7>1, Zenon
          <6>3. CASE Other(Input(j)) /\ IsSpecial(Input(j))
            <7>1. t = Tok(Input(j), j, j, j + 1, FALSE)
              BY <2>4, <4>1, <6>3, TurnSpecial, Zenon
            <7> QED BY <7>1, Zenon
          <6>4. CASE Other(Input(j)) /\ ~IsSpecial(Input(j))
            <7>1. t \in {r["word"][j], r["skip"][x]}
              BY <2>4, <4>1, <6>4, TurnLetter
            <7> QED BY <7>1, Zenon
          <6> QED BY <4>3, <6>1, <6>2, <6>3, <6>4, Zenon DEF Other
        <5>2. Good(r["comment"][x], j, n) /\ Good(r["skip"][x], j, n) /\ Good(r["word"][j], j, n)
          BY <3>1, <3>3, <3>4
        <5>3. Good(Tok(Input(j), j, j, j + 1, FALSE), j, n)
          BY <1>1, <3>1, TokGood
        <5> QED BY <2>2, <5>1, <5>2, <5>3
      <4> QED BY <4>2, <4>3
    <3> QED BY <3>5, <3>6, <3>7, <3>8 DEF Modes
  <2> QED BY <2>3, <2>4
<1>3. \A j \in 0 .. n : j \in T
  <2> HIDE DEF T
  <2>1. 0 \in Nat
    OBVIOUS
  <2> QED BY <1>2, <2>1, Downward
<1> QED BY <1>3

LEMMA TokenGood ==
  ASSUME Len(text) \in Nat, buff \in Seq(Cells), NEW n \in Nat, Holds(buff, n), NEW k \in 0 .. n
  PROVE  Good(NextToken(k), k, n)
BY TokensGood DEF NextToken, Modes

-----------------------------------------------------------------------------
(* The types of the parsers' variables                                      *)

LEMMA LastFront ==
  ASSUME NEW S, NEW s \in Seq(S), s # <<>>
  PROVE  /\ Last(s) \in S /\ Last(s) = s[Len(s)]
         /\ Front(s) \in Seq(S) /\ Len(Front(s)) = Len(s) - 1
         /\ \A k \in 1 .. Len(s) - 1 : Front(s)[k] = s[k]
         /\ Front(s) = <<>> <=> Len(s) = 1
<1>1. PICK n \in Nat : n = Len(s) /\ n >= 1
  OBVIOUS
<1>2. PICK f : f = Front(s) /\ f = SubSeq(s, 1, n - 1)
  BY <1>1 DEF Front
<1>3. f \in Seq(S) /\ Len(f) = n - 1
  BY <1>1, <1>2
<1>4. \A k \in 1 .. n - 1 : f[k] = s[k]
  BY <1>1, <1>2
<1>5. f = <<>> <=> n = 1
  BY <1>1, <1>3
<1>6. Last(s) = s[n] /\ s[n] \in S
  BY <1>1 DEF Last
<1> QED BY <1>1, <1>2, <1>3, <1>4, <1>5, <1>6

Phases == {"read", "start", "list", "after", "stage", "split", "done", "undefined"}
Items  == [kind : {"word", "value", "list", "empty"}, at : Seq(Nat \cup {NUL, Junk}), flag : Nat]
Calls  == [from : 0 .. Len(text), delay : Nat, items : Seq(Items)]

PosInv   == /\ pos \in 0 .. Len(text)
            /\ Parsed /\ at # "start" => \E n \in Nat : Holds(buff, n) /\ pos <= n
FrameInv == /\ frames \in Seq(Calls) /\ (at = "list" <=> frames # <<>>)
            /\ at \in Phases /\ failed \in BOOLEAN /\ ran \in BOOLEAN
TypeInv  == ReadInv /\ PosInv /\ FrameInv

LEMMA CallType ==
  ASSUME Len(text) \in Nat, NEW d \in Nat
  PROVE  Call(d) \in Calls /\ <<Call(d)>> \in Seq(Calls) /\ <<Call(d)>> # <<>>
<1>1. Call(d) \in Calls
  BY DEF Call, Calls
<1> QED BY <1>1

LEMMA CallAppended ==
  ASSUME NEW S, NEW s \in Seq(S), NEW c \in S
  PROVE  Append(s, c) \in Seq(S) /\ Append(s, c) # <<>>
<1>1. Len(Append(s, c)) = Len(s) + 1 /\ Len(s) \in Nat
  OBVIOUS
<1> QED BY <1>1

LEMMA CallTakes ==
  ASSUME Len(text) \in Nat, NEW c \in Calls, NEW item \in Items
  PROVE  [c EXCEPT !.items = Append(@, item)] \in Calls
<1>1. PICK its \in Seq(Items) : its = Append(c.items, item)
  <2>1. c.items \in Seq(Items)
    BY DEF Calls
  <2>2. Append(c.items, item) \in Seq(Items)
    BY <2>1, CallAppended
  <2> QED BY <2>2
<1>2. [c EXCEPT !.items = its] \in Calls
  BY DEF Calls
<1>3. [c EXCEPT !.items = Append(@, item)] = [c EXCEPT !.items = its]
  BY <1>1
<1> QED BY <1>2, <1>3

LEMMA TypeStart == Init => TypeInv
<1> SUFFICES ASSUME Init PROVE TypeInv
  OBVIOUS
<1>1. ReadInv
  BY ReadStart
<1>2. Len(text) \in Nat
  BY <1>1 DEF ReadInv, Shape
<1>3. PosInv
  <2>1. pos = 0
    BY DEF Init
  <2> QED BY <1>1, <1>2, <2>1 DEF PosInv, ReadInv, Closed
<1>4. frames \in Seq(Calls) /\ (at = "list" <=> frames # <<>>)
  <2>1. frames = IF at = "list" THEN <<Call(0)>> ELSE <<>>
    BY DEF Init
  <2>2. <<Call(0)>> \in Seq(Calls) /\ <<Call(0)>> # <<>> /\ <<>> \in Seq(Calls)
    BY <1>2, CallType
  <2> QED BY <2>1, <2>2, Zenon
<1>5. at \in Phases /\ failed = FALSE /\ ran = FALSE
  BY Zenon DEF Init, Phases
<1> QED BY <1>1, <1>3, <1>4, <1>5, Zenon DEF TypeInv, FrameInv

(* What a parser knows of its tokens.                                       *)
LEMMA Parsing1 ==
  ASSUME TypeInv, Parsed
  PROVE  \E n \in Nat : /\ Holds(buff, n) /\ n <= Len(text) /\ Len(text) \in Nat
                        /\ at # "start" => pos \in 0 .. n
                        /\ \A k \in 0 .. n : Good(NextToken(k), k, n)
<1>1. Len(text) \in Nat /\ buff \in Seq(Cells) /\ pos \in Nat
  BY DEF TypeInv, ReadInv, Shape, PosInv
<1>2. PICK n \in Nat : Holds(buff, n) /\ (at # "start" => pos <= n)
  <2>1. CASE at = "start"
    BY <2>1 DEF TypeInv, ReadInv, Closed
  <2>2. CASE at # "start"
    BY <2>2 DEF TypeInv, PosInv
  <2> QED BY <2>1, <2>2
<1>3. \A k \in 0 .. n : Good(NextToken(k), k, n)
  BY <1>1, <1>2, TokenGood
<1> QED BY <1>1, <1>2, <1>3 DEF Holds

(* A step of a parser leaves the position within the buffer.                *)
LEMMA ParserTypes ==
  ASSUME TypeInv, UNCHANGED <<text, offset, buff, i>>,
         at' = at \/ at' \in {"done", "undefined"}
           \/ (at' \in {"read", "list", "after", "stage"} /\ at \in {"start", "list"}),
         (pos' = pos /\ (at = "start" => at' = "start"))
           \/ \E n \in Nat : Holds(buff, n) /\ pos' \in 0 .. n,
         frames' \in Seq(Calls), at' = "list" <=> frames' # <<>>,
         failed' \in BOOLEAN, ran' \in BOOLEAN
  PROVE  TypeInv'
<1>1. ReadInv'
  BY ParserStep DEF TypeInv
<1>2. Calls' = Calls /\ \A n : Holds(buff, n)' = Holds(buff, n)
  BY DEF Calls, Holds, Items
<1>3. Parsed' => Parsed
  BY DEF Parsed
<1>4. PosInv'
  <2>1. CASE pos' = pos /\ (at = "start" => at' = "start")
    BY <1>2, <1>3, <2>1 DEF TypeInv, PosInv, Holds
  <2>2. CASE \E n \in Nat : Holds(buff, n) /\ pos' \in 0 .. n
    <3>1. PICK n \in Nat : Holds(buff, n) /\ pos' \in 0 .. n
      BY <2>2
    <3>2. Len(text) \in Nat /\ n <= Len(text) /\ Holds(buff, n)'
      BY <3>1 DEF TypeInv, ReadInv, Shape, Holds
    <3> QED BY <3>1, <3>2 DEF PosInv
  <2> QED BY <2>1, <2>2
<1>5. at' \in Phases
  BY DEF TypeInv, FrameInv, Phases
<1>6. FrameInv'
  BY <1>2, <1>5, Zenon DEF FrameInv, Phases
<1> QED BY <1>1, <1>4, <1>6 DEF TypeInv

LEMMA ReadingTypes ==
  ASSUME TypeInv, FileChar \/ LineChar
  PROVE  TypeInv'
<1>1. ReadInv'
  BY FileCharStep, LineCharStep DEF TypeInv
<1>2. Len(text) \in Nat /\ text' = text /\ at = "read" /\ frames = <<>>
  BY DEF TypeInv, ReadInv, Shape, FrameInv, FileChar, LineChar
<1>3. \/ at' = "list" /\ pos' = 0 /\ frames' = <<Call(0)>>
      \/ at' \in {"read", "start"} /\ pos' = pos /\ frames' = frames
  BY <1>2, Zenon DEF FileChar, LineChar
<1>4. Calls' = Calls /\ <<Call(0)>> \in Seq(Calls) /\ <<Call(0)>> # <<>>
  BY <1>2, CallType DEF Calls, Items
<1>5. at' \in Phases /\ failed' = failed /\ ran' = ran
  BY <1>3 DEF Phases, FileChar, LineChar
<1>6. FrameInv'
  <2>1. at' = "list" <=> frames' # <<>>
    BY <1>2, <1>3, <1>4
  <2>2. frames' \in Seq(Calls)
    BY <1>3, <1>4 DEF TypeInv, FrameInv
  <2> QED BY <1>4, <1>5, <2>1, <2>2, Zenon DEF TypeInv, FrameInv, Phases
<1>7. PosInv'
  <2>1. pos' = 0 \/ (at' \in {"read", "start"} /\ pos' = pos)
    BY <1>3
  <2>2. Parsed' /\ at' # "start" => at' = "list" /\ pos' = 0
    BY <1>3 DEF Parsed
  <2>3. Parsed' => \E n \in Nat : Holds(buff, n)'
    BY <1>1 DEF ReadInv, Closed
  <2> QED BY <1>2, <2>1, <2>2, <2>3 DEF PosInv, TypeInv
<1> QED BY <1>1, <1>6, <1>7 DEF TypeInv

(* The steps of parse_builtin: what they leave alone, and what Given does   *)
(* to the calls under way.                                                  *)
LEMMA ListTokens ==
  ASSUME TypeInv, at = "list"
  PROVE  /\ frames \in Seq(Calls) /\ frames # <<>> /\ Top \in Calls /\ Under \in Seq(Calls)
         /\ \E n \in Nat : /\ Holds(buff, n) /\ n <= Len(text) /\ Len(text) \in Nat
                           /\ Good(Token, pos, n) /\ pos \in 0 .. n
<1>1. frames \in Seq(Calls) /\ frames # <<>>
  BY DEF TypeInv, FrameInv
<1>2. Parsed
  BY DEF Parsed
<1>3. PICK n \in Nat : /\ Holds(buff, n) /\ n <= Len(text) /\ Len(text) \in Nat
                      /\ pos \in 0 .. n /\ \A k \in 0 .. n : Good(NextToken(k), k, n)
  BY <1>2, Parsing1
<1>4. Top \in Calls /\ Under \in Seq(Calls)
  BY <1>1, LastFront DEF Top, Under
<1> QED BY <1>1, <1>3, <1>4 DEF Token

LEMMA GivenTypes ==
  ASSUME TypeInv, at = "list", NEW item \in Items, Given(item)
  PROVE  /\ frames' \in Seq(Calls) /\ (at' = "list" <=> frames' # <<>>)
         /\ at' = at \/ at' \in {"read", "after"}
<1>1. Under \in Seq(Calls)
  BY ListTokens
<1>2. CASE Under = <<>>
  <2>1. frames' = <<>> /\ at' \in {"read", "after"}
    BY <1>2 DEF Given
  <2> QED BY <2>1
<1>3. CASE Under # <<>>
  <2>1. Last(Under) \in Calls /\ Front(Under) \in Seq(Calls)
    BY <1>1, <1>3, LastFront
  <2>2. PICK c : c = [Last(Under) EXCEPT !.items = Append(@, item)]
    OBVIOUS
  <2>3. c \in Calls
    BY <2>1, <2>2, CallTakes DEF TypeInv, ReadInv, Shape
  <2>4. frames' = Append(Front(Under), c) /\ at' = at
    BY <1>3, <2>2 DEF Given
  <2>5. Append(Front(Under), c) \in Seq(Calls) /\ Append(Front(Under), c) # <<>>
    BY <2>1, <2>3, CallAppended
  <2> QED BY <2>4, <2>5
<1> QED BY <1>2, <1>3

LEMMA ListTypes ==
  ASSUME TypeInv, Begin \/ AddWord \/ Nested \/ Complete \/ GiveUp
  PROVE  TypeInv'
<1>1. at = "list" /\ UNCHANGED <<text, offset, buff, i>> /\ ran' = ran
  BY DEF Begin, AddWord, Nested, Complete, GiveUp, Plain, reading
<1>2. frames \in Seq(Calls) /\ Top \in Calls /\ Under \in Seq(Calls)
  BY <1>1, ListTokens
<1>3. PICK n \in Nat : /\ Holds(buff, n) /\ n <= Len(text) /\ Len(text) \in Nat
                      /\ Good(Token, pos, n) /\ pos \in 0 .. n
  BY <1>1, ListTokens
<1>4. PICK next, kind, chars : next = Token.next /\ kind = Token.kind /\ chars = Token.chars
  OBVIOUS
<1>5. next \in 0 .. n /\ (kind \notin {"word", End} => next >= 1) /\ chars \in Seq(Cells)
  BY <1>3, <1>4 DEF Good
<1>6. \E m \in Nat : Holds(buff, m) /\ pos' \in 0 .. m
  <2>1. pos' = next \/ (pos' = next - 1 /\ next >= 1)
    <3>1. CASE Nested
      <4>1. kind = "(" => next >= 1
        BY <1>5 DEF End
      <4> QED BY <1>4, <3>1, <4>1, Zenon DEF Nested
    <3>2. CASE Begin \/ AddWord \/ Complete \/ GiveUp
      BY <1>4, <3>2, Zenon DEF Begin, AddWord, Complete, GiveUp
    <3> QED BY <3>1, <3>2
  <2>2. pos' \in 0 .. n
    BY <1>5, <2>1
  <2> QED BY <1>3, <2>2
<1>7. failed' \in BOOLEAN /\ ran' \in BOOLEAN
  BY <1>1 DEF TypeInv, FrameInv, Begin, AddWord, Nested, Complete, GiveUp
<1>8. Top.from \in 0 .. Len(text) /\ Top.delay \in Nat /\ Top.items \in Seq(Items)
  BY <1>2 DEF Calls
<1>9. /\ frames' \in Seq(Calls) /\ (at' = "list" <=> frames' # <<>>)
      /\ at' = at \/ at' \in {"read", "after"}
  <2>1. ASSUME NEW s \in Seq(Calls), NEW c \in Calls, frames' = Append(s, c), at' = at
        PROVE  /\ frames' \in Seq(Calls) /\ (at' = "list" <=> frames' # <<>>)
               /\ at' = at \/ at' \in {"read", "after"}
    BY <1>1, <2>1
  <2>2. CASE Begin
    <3>1. PICK c : c = [Top EXCEPT !.from = buff[Token.next]]
      OBVIOUS
    <3>2. buff[next] \in 0 .. Len(text)
      <4>1. kind = "("
        BY <1>4, <2>2 DEF Begin
      <4>2. next \in 1 .. n
        BY <1>5, <4>1 DEF End
      <4> QED BY <1>3, <4>2 DEF Holds
    <3>3. c \in Calls
      BY <1>2, <1>4, <3>1, <3>2 DEF Calls
    <3>4. frames' = Append(Under, c) /\ at' = at
      BY <2>2, <3>1 DEF Begin
    <3> QED BY <1>2, <2>1, <3>3, <3>4
  <2>3. CASE AddWord
    <3>1. PICK word : word = Item("word", Token.chars, 0)
      OBVIOUS
    <3>2. word \in Items
      <4>1. chars \in Seq(Nat \cup {NUL, Junk})
        BY <1>3, <1>5 DEF Cells
      <4> QED BY <1>4, <3>1, <4>1 DEF Item, Items
    <3>3. PICK c : c = [Top EXCEPT !.items = Append(@, word)]
      OBVIOUS
    <3>4. c \in Calls
      BY <1>2, <1>3, <3>2, <3>3, CallTakes
    <3>5. frames' = Append(Under, c) /\ at' = at
      BY <2>3, <3>1, <3>3 DEF AddWord
    <3> QED BY <1>2, <2>1, <3>4, <3>5
  <2>4. CASE Nested
    <3>1. PICK d : d = DelayOf(Top.delay, Token.kind)
      OBVIOUS
    <3>2. d \in Nat
      BY <1>8, <3>1 DEF DelayOf
    <3>3. Call(d) \in Calls
      BY <1>3, <3>2, CallType
    <3>4. frames' = Append(frames, Call(d)) /\ at' = at
      BY <2>4, <3>1 DEF Nested
    <3> QED BY <1>2, <2>1, <3>3, <3>4
  <2>5. CASE Complete
    <3>1. PICK item : item = Item(IF Top.delay = 0 THEN "value" ELSE "list", <<Top.from>>, Top.delay)
      OBVIOUS
    <3>2. item \in Items
      <4>1. <<Top.from>> \in Seq(Nat \cup {NUL, Junk})
        BY <1>3, <1>8
      <4> QED BY <1>8, <3>1, <4>1 DEF Item, Items
    <3>3. Given(item)
      BY <2>5, <3>1, Zenon DEF Complete
    <3> QED BY <1>1, <3>2, <3>3, GivenTypes
  <2>6. CASE GiveUp
    <3>1. PICK item : item = Item("empty", <<>>, Top.delay)
      OBVIOUS
    <3>2. item \in Items
      BY <1>8, <3>1 DEF Item, Items
    <3>3. Given(item)
      BY <2>6, <3>1, Zenon DEF GiveUp
    <3> QED BY <1>1, <3>2, <3>3, GivenTypes
  <2> QED BY <2>2, <2>3, <2>4, <2>5, <2>6
<1> QED BY <1>1, <1>6, <1>7, <1>9, ParserTypes

(* The steps of parse_pipe, of split and between the parsers.               *)
LEMMA PipeTypes ==
  ASSUME TypeInv, PipeWord \/ PipeNext \/ Redirect \/ SplitWord \/ Start
  PROVE  TypeInv'
<1>1. Parsed /\ UNCHANGED <<text, offset, buff, i>> /\ ran' = ran
  BY DEF Parsed, PipeWord, PipeNext, Redirect, SplitWord, Start, InPipe, reading
<1>2. PICK n \in Nat : /\ Holds(buff, n) /\ n <= Len(text) /\ Len(text) \in Nat
                      /\ (at # "start" => pos \in 0 .. n)
                      /\ \A k \in 0 .. n : Good(NextToken(k), k, n)
  BY <1>1, Parsing1
<1>3. \A k \in 0 .. n : NextToken(k).next \in 0 .. n /\ NextToken(k).open \in BOOLEAN
  BY <1>2 DEF Good
<1>4. frames \in Seq(Calls) /\ (at = "list" <=> frames # <<>>) /\ failed \in BOOLEAN /\ ran \in BOOLEAN
  BY DEF TypeInv, FrameInv
<1>5. CASE PipeWord \/ PipeNext \/ Redirect \/ SplitWord
  <2>1. at # "start" /\ at' = at /\ frames' = frames /\ failed' = failed
    BY <1>5 DEF PipeWord, PipeNext, Redirect, SplitWord, InPipe
  <2>2. pos' = NextToken(pos).next \/ pos' = NextToken(NextToken(pos).next).next
    BY <1>5, Zenon DEF PipeWord, PipeNext, Redirect, SplitWord, Token
  <2>3. pos' \in 0 .. n
    BY <1>2, <1>3, <2>1, <2>2
  <2> QED BY <1>1, <1>2, <1>4, <2>1, <2>3, ParserTypes
<1>6. CASE Start
  <2>1. pos' = 0 /\ at = "start"
    BY <1>6 DEF Start
  <2>2. \/ at' = "list" /\ frames' = <<Call(0)>> /\ failed' = failed
        \/ at' \in {"stage", "done"} /\ frames' = frames
           /\ (failed' = failed \/ failed' \in BOOLEAN)
    BY <1>6, Zenon DEF Start
  <2>3. <<Call(0)>> \in Seq(Calls) /\ <<Call(0)>> # <<>>
    BY <1>2, CallType
  <2>4. frames' \in Seq(Calls) /\ (at' = "list" <=> frames' # <<>>) /\ failed' \in BOOLEAN
    BY <1>4, <2>1, <2>2, <2>3
  <2>5. 0 \in 0 .. n
    BY <1>2
  <2> QED BY <1>1, <1>2, <1>4, <2>1, <2>2, <2>4, <2>5, ParserTypes
<1> QED BY <1>5, <1>6

LEMMA EndTypes ==
  ASSUME TypeInv, Overrun \/ EndOfFile \/ AfterList \/ PipeRun \/ PipeFail \/ SplitEnd
                    \/ Finished \/ UNCHANGED vars
  PROVE  TypeInv'
<1>1. UNCHANGED <<text, offset, buff, i>> /\ frames' = frames /\ pos' = pos
  BY DEF Overrun, EndOfFile, AfterList, PipeRun, PipeFail, SplitEnd, Finished, reading, vars,
         Plain, InPipe
<1>2. at' = at \/ (at' \in {"done", "undefined"} /\ at \in {"read", "after", "stage", "split"})
  BY DEF Overrun, EndOfFile, AfterList, PipeRun, PipeFail, SplitEnd, Finished, vars
<1>3. failed' \in BOOLEAN /\ ran' \in BOOLEAN
  <2>1. failed \in BOOLEAN /\ ran \in BOOLEAN
    BY DEF TypeInv, FrameInv
  <2>2. ran' = ran \/ ran' = TRUE
    BY DEF Overrun, EndOfFile, AfterList, PipeRun, PipeFail, SplitEnd, Finished, vars,
           Plain, InPipe
  <2>3. failed' = failed \/ failed' \in BOOLEAN
    BY Zenon DEF Overrun, EndOfFile, AfterList, PipeRun, PipeFail, SplitEnd, Finished, vars,
           Plain, InPipe
  <2> QED BY <2>1, <2>2, <2>3
<1>4. frames' \in Seq(Calls) /\ (at' = "list" <=> frames' # <<>>)
  BY <1>1, <1>2 DEF TypeInv, FrameInv
<1> QED BY <1>1, <1>2, <1>3, <1>4, ParserTypes

(* Every index the parsers use stays inside the text, whatever it is: the   *)
(* position next_token is called with, the parentheses of the lists under   *)
(* way, and the characters collected; and a list is parsed exactly while a  *)
(* call of parse_builtin is under way.                                      *)
THEOREM TypeCorrect == Spec => []TypeOK
<1>1. TypeInv /\ [Next]_vars => TypeInv'
  BY ReadingTypes, ListTypes, PipeTypes, EndTypes DEF Next
<1>2. TypeInv => TypeOK
  <2> SUFFICES ASSUME TypeInv PROVE TypeOK
    OBVIOUS
  <2>1. /\ offset \in 0 .. Len(text) /\ i \in 0 .. Len(buff) /\ pos \in 0 .. Len(text)
        /\ \A k \in DOMAIN buff : buff[k] \in 1 .. Len(text) \cup {NUL, Junk}
    BY DEF TypeInv, ReadInv, Shape, PosInv, Cells
  <2>2. \A m \in DOMAIN frames : frames[m].from \in 0 .. Len(text)
    <3>1. \A m \in DOMAIN frames : frames[m] \in Calls
      BY DEF TypeInv, FrameInv
    <3> QED BY <3>1 DEF Calls
  <2>3. /\ at \in Phases /\ failed \in BOOLEAN /\ ran \in BOOLEAN
        /\ (at = "list") = (frames # <<>>)
    BY DEF TypeInv, FrameInv
  <2> QED BY <2>1, <2>2, <2>3, Zenon DEF TypeOK, Phases
<1> QED BY TypeStart, <1>1, <1>2, PTL DEF Spec

-----------------------------------------------------------------------------
(* The pieces of a text (module Syntax)                                     *)

LEMMA UntilIs ==
  ASSUME NEW s, Len(s) \in Nat, NEW S, NEW k \in 1 .. Len(s) + 1
  PROVE  /\ Until(s, S, k) \in k .. Len(s) + 1
         /\ \A j \in k .. Until(s, S, k) - 1 : s[j] \notin S
         /\ Until(s, S, k) <= Len(s) => s[Until(s, S, k)] \in S
<1>1. PICK n \in Nat : n = Len(s)
  OBVIOUS
<1> DEFINE T == {e \in k .. n + 1 : e <= n => s[e] \in S}
<1>2. PICK e \in T : \A y \in T : e <= y
  <2>1. T \in SUBSET Nat /\ n + 1 \in T
    BY <1>1
  <2> HIDE DEF T
  <2> QED BY <2>1, Least
<1>3. /\ e \in k .. Len(s) + 1
      /\ \A j \in k .. e - 1 : s[j] \notin S
      /\ e <= Len(s) => s[e] \in S
  BY <1>1, <1>2
<1> QED BY <1>3 DEF Until

(* fy stands for syntax_fancy.                                              *)
Stops(fy) == Blank \cup Special(fy)
Marks(fy) == {"(", ")", "~", "\\"} \cup (IF fy THEN Fancy ELSE {})

LEMMA MarksAre ==
  ASSUME NEW fy
  PROVE  /\ Stops(fy) = Quotes \cup {"#"} \cup Blank \cup Marks(fy)
         /\ Special(fy) = Quotes \cup {"#"} \cup Marks(fy)
         /\ {"(", ")", "~", "\\"} \subseteq Marks(fy)
         /\ \A c \in Marks(fy) : c \notin Quotes \cup {"#"} \cup Blank \cup {End}
<1>1. PICK F : F = (IF fy THEN Fancy ELSE {}) /\ (F = Fancy \/ F = {})
  BY Zenon
<1>2. /\ Marks(fy) = {"(", ")", "~", "\\"} \cup F
      /\ Special(fy) = {"(", ")", "~", "\\", "#"} \cup Quotes \cup F
  BY <1>1, Zenon DEF Marks, Special
<1>3. Stops(fy) = Blank \cup Special(fy)
  BY DEF Stops
<1> QED BY <1>1, <1>2, <1>3 DEF Quotes, Blank, Fancy, End

LEMMA BehindQuote ==
  ASSUME NEW s, NEW fy, Len(s) \in Nat, NEW k \in 1 .. Len(s), s[k] \in Quotes
  PROVE  /\ After(s, fy, k) \in k + 2 .. Len(s) + 2
         /\ \A j \in k + 1 .. After(s, fy, k) - 2 : s[j] # s[k]
         /\ After(s, fy, k) - 1 <= Len(s) => s[After(s, fy, k) - 1] = s[k]
<1>1. k + 1 \in 1 .. Len(s) + 1
  OBVIOUS
<1>2. PICK u : u = Until(s, {s[k]}, k + 1)
  OBVIOUS
<1>3. /\ u \in k + 1 .. Len(s) + 1 /\ \A j \in k + 1 .. u - 1 : s[j] \notin {s[k]}
      /\ u <= Len(s) => s[u] \in {s[k]}
  BY <1>1, <1>2, UntilIs
<1>4. After(s, fy, k) = u + 1
  <2>1. s[k] # "#" /\ s[k] \notin (Blank \cup Special(fy)) \ (Quotes \cup {"#"})
    BY DEF Quotes
  <2> QED BY <1>2, <2>1, Zenon DEF After
<1> QED BY <1>3, <1>4

LEMMA BehindComment ==
  ASSUME NEW s, NEW fy, Len(s) \in Nat, NEW k \in 1 .. Len(s), s[k] = "#"
  PROVE  /\ After(s, fy, k) = Until(s, {"\n"}, k) /\ After(s, fy, k) \in k + 1 .. Len(s) + 1
         /\ After(s, fy, k) <= Len(s) => s[After(s, fy, k)] = "\n"
<1>1. k \in 1 .. Len(s) + 1
  OBVIOUS
<1>2. PICK u : u = Until(s, {"\n"}, k)
  OBVIOUS
<1>3. u \in k .. Len(s) + 1 /\ (u <= Len(s) => s[u] \in {"\n"})
  BY <1>1, <1>2, UntilIs
<1>4. After(s, fy, k) = u
  BY <1>2 DEF After, Quotes
<1>5. u # k
  BY <1>3
<1> QED BY <1>2, <1>3, <1>4, <1>5

LEMMA BehindOne ==
  ASSUME NEW s, NEW fy, Len(s) \in Nat, NEW k \in 1 .. Len(s), s[k] \in Blank \cup Marks(fy)
  PROVE  After(s, fy, k) = k + 1
<1>1. s[k] \notin Quotes /\ s[k] # "#"
  BY MarksAre DEF Quotes, Blank
<1>2. s[k] \in (Blank \cup Special(fy)) \ (Quotes \cup {"#"})
  BY <1>1, MarksAre
<1> QED BY <1>1, <1>2 DEF After

LEMMA BehindWord ==
  ASSUME NEW s, NEW fy, Len(s) \in Nat, NEW k \in 1 .. Len(s), s[k] \notin Stops(fy)
  PROVE  /\ After(s, fy, k) \in k + 1 .. Len(s) + 1
         /\ \A j \in k .. After(s, fy, k) - 1 : s[j] \notin Stops(fy)
<1>1. k \in 1 .. Len(s) + 1
  OBVIOUS
<1>2. PICK u : u = Until(s, Stops(fy), k)
  OBVIOUS
<1>3. /\ u \in k .. Len(s) + 1 /\ \A j \in k .. u - 1 : s[j] \notin Stops(fy)
      /\ u <= Len(s) => s[u] \in Stops(fy)
  BY <1>1, <1>2, UntilIs
<1>4. After(s, fy, k) = u
  <2>1. s[k] \notin Quotes /\ s[k] # "#"
    BY MarksAre
  <2>2. s[k] \notin (Blank \cup Special(fy)) \ (Quotes \cup {"#"})
    BY Zenon DEF Stops
  <2>3. Until(s, Blank \cup Special(fy), k) = u
    BY <1>2, Zenon DEF Stops
  <2> QED BY <2>1, <2>2, <2>3, Zenon DEF After
<1>5. u # k
  BY <1>3
<1> QED BY <1>3, <1>4, <1>5

LEMMA BehindRange ==
  ASSUME NEW s, NEW fy, Len(s) \in Nat, NEW k \in 1 .. Len(s)
  PROVE  After(s, fy, k) \in k + 1 .. Len(s) + 2
<1>1. CASE s[k] \in Quotes
  BY <1>1, BehindQuote
<1>2. CASE s[k] = "#"
  BY <1>2, BehindComment
<1>3. CASE s[k] \in Blank \cup Marks(fy)
  <2>1. After(s, fy, k) = k + 1
    BY <1>3, BehindOne
  <2> QED BY <2>1
<1>4. CASE s[k] \notin Stops(fy)
  BY <1>4, BehindWord
<1> QED BY <1>1, <1>2, <1>3, <1>4, MarksAre

(* The recursive function of PiecesFrom is one: every piece ends behind its *)
(* first character.                                                         *)
Here(s, k) == IF s[k] \in Blank \cup {"#"} THEN {} ELSE {k}
Pieced(s, fy, from, k) == IF k > Len(s) THEN {} ELSE from[After(s, fy, k)] \cup Here(s, k)

LEMMA PiecesExist ==
  ASSUME NEW s, NEW fy, Len(s) \in Nat
  PROVE  \E from : from = [k \in 1 .. Len(s) + 2 |-> Pieced(s, fy, from, k)]
<1>1. PICK n \in Nat : n = Len(s) + 2
  OBVIOUS
<1> DEFINE Fits(f, m) == \A k \in m .. n : f[k] = Pieced(s, fy, f, k)
           T == {m \in 1 .. n : \E f : Fits(f, m)}
<1>2. ASSUME NEW f, NEW g, NEW k \in 1 .. n, \A j \in k + 1 .. n : f[j] = g[j]
      PROVE  Pieced(s, fy, f, k) = Pieced(s, fy, g, k)
  <2>1. CASE k > Len(s)
    BY <2>1 DEF Pieced
  <2>2. CASE ~(k > Len(s))
    <3>1. k \in 1 .. Len(s)
      BY <1>1, <2>2
    <3>2. After(s, fy, k) \in k + 1 .. n
      BY <1>1, <3>1, BehindRange
    <3>3. f[After(s, fy, k)] = g[After(s, fy, k)]
      BY <1>2, <3>2
    <3> QED BY <3>3, Zenon DEF Pieced
  <2> QED BY <2>1, <2>2
<1>3. ASSUME NEW m \in 1 .. n, \A j \in m + 1 .. n : j \in T
      PROVE  m \in T
  <2>1. PICK g : Fits(g, m + 1)
    <3>1. CASE m = n
      BY <3>1
    <3>2. CASE m # n
      <4>1. m + 1 \in m + 1 .. n
        BY <3>2
      <4> QED BY <1>3, <4>1
    <3> QED BY <3>1, <3>2
  <2>2. PICK h : h = [k \in 1 .. n |-> IF k = m THEN Pieced(s, fy, g, m) ELSE g[k]]
    OBVIOUS
  <2>3. h[m] = Pieced(s, fy, g, m) /\ \A k \in m + 1 .. n : h[k] = g[k]
    BY <2>2
  <2>4. ASSUME NEW k \in m .. n PROVE h[k] = Pieced(s, fy, h, k)
    <3>1. k \in 1 .. n /\ \A j \in k + 1 .. n : g[j] = h[j]
      BY <2>3
    <3>2. Pieced(s, fy, g, k) = Pieced(s, fy, h, k)
      BY <1>2, <3>1
    <3>3. CASE k = m
      BY <2>3, <3>2, <3>3
    <3>4. CASE k # m
      <4>1. k \in m + 1 .. n
        BY <3>4
      <4> QED BY <2>1, <2>3, <3>2, <4>1
    <3> QED BY <3>3, <3>4
  <2> QED BY <2>4
<1>4. 1 \in T
  <2> HIDE DEF T
  <2>1. 1 \in 1 .. n /\ 1 \in Nat
    BY <1>1
  <2> QED BY <1>3, <2>1, Downward
<1>5. PICK f : Fits(f, 1)
  BY <1>4, Zenon
<1>6. PICK g : g = [k \in 1 .. n |-> f[k]]
  OBVIOUS
<1>7. \A k \in 1 .. n : Pieced(s, fy, f, k) = Pieced(s, fy, g, k) /\ g[k] = f[k]
  <2> TAKE k \in 1 .. n
  <2>1. \A j \in k + 1 .. n : f[j] = g[j]
    BY <1>6
  <2> QED BY <1>2, <1>6, <2>1
<1>8. g = [k \in 1 .. n |-> Pieced(s, fy, g, k)]
  BY <1>5, <1>6, <1>7
<1> QED BY <1>1, <1>8, Zenon

From(s, fy, k) == PiecesFrom(s, fy)[k]

LEMMA PiecesAre ==
  ASSUME NEW s, NEW fy, Len(s) \in Nat, NEW k \in 1 .. Len(s) + 2
  PROVE  From(s, fy, k) = IF k > Len(s) THEN {} ELSE From(s, fy, After(s, fy, k)) \cup Here(s, k)
<1>1. PICK f : f = PiecesFrom(s, fy)
  OBVIOUS
<1>2. f = CHOOSE g : g = [j \in 1 .. Len(s) + 2 |-> Pieced(s, fy, g, j)]
  BY <1>1, Zenon DEF PiecesFrom, Pieced, Here
<1>3. f = [j \in 1 .. Len(s) + 2 |-> Pieced(s, fy, f, j)]
  BY <1>2, PiecesExist, Zenon
<1>4. f[k] = Pieced(s, fy, f, k)
  BY <1>3, Zenon
<1> QED BY <1>1, <1>4, Zenon DEF From, Pieced

LEMMA PiecesBehind ==
  ASSUME NEW s, NEW fy, Len(s) \in Nat, NEW k \in 1 .. Len(s) + 2
  PROVE  From(s, fy, k) \subseteq k .. Len(s)
<1> DEFINE T == {j \in 1 .. Len(s) + 2 : From(s, fy, j) \subseteq j .. Len(s)}
<1>1. ASSUME NEW j \in 1 .. Len(s) + 2, \A m \in j + 1 .. Len(s) + 2 : m \in T
      PROVE  j \in T
  <2>1. CASE j > Len(s)
    BY <2>1, PiecesAre
  <2>2. CASE ~(j > Len(s))
    <3>1. j \in 1 .. Len(s)
      BY <2>2
    <3>2. PICK a \in j + 1 .. Len(s) + 2 : a = After(s, fy, j)
      BY <3>1, BehindRange
    <3>3. From(s, fy, a) \subseteq a .. Len(s)
      BY <1>1, <3>2
    <3>4. From(s, fy, j) = From(s, fy, a) \cup Here(s, j)
      BY <2>2, <3>2, PiecesAre
    <3>5. Here(s, j) \subseteq {j}
      BY DEF Here
    <3>6. a .. Len(s) \subseteq j .. Len(s) /\ j \in j .. Len(s)
      BY <3>1, <3>2
    <3> QED BY <3>3, <3>4, <3>5, <3>6
  <2> QED BY <2>1, <2>2
<1>2. \A j \in 1 .. Len(s) + 2 : j \in T
  <2> HIDE DEF T
  <2>1. 1 \in Nat /\ Len(s) + 2 \in Nat
    OBVIOUS
  <2> QED BY <1>1, <2>1, Downward
<1> QED BY <1>2

(* The depth counts the parentheses among the pieces passed.                *)
LEMMA StartsFinite ==
  ASSUME NEW s, NEW fy, Len(s) \in Nat
  PROVE  Pieces(s, fy) = From(s, fy, 1) /\ Pieces(s, fy) \subseteq 1 .. Len(s) /\ IsFiniteSet(Pieces(s, fy))
<1>1. Pieces(s, fy) = From(s, fy, 1)
  BY Zenon DEF Pieces, From
<1>2. From(s, fy, 1) \subseteq 1 .. Len(s)
  <2>1. 1 \in 1 .. Len(s) + 2
    OBVIOUS
  <2> QED BY <2>1, PiecesBehind
<1>3. IsFiniteSet(1 .. Len(s))
  BY FS_Interval
<1> QED BY <1>1, <1>2, <1>3, FS_Subset

LEMMA LevelIs ==
  ASSUME NEW s, NEW fy
  PROVE  /\ Opens(s, fy) = {p \in Pieces(s, fy) : s[p] = "("}
         /\ Closes(s, fy) = {p \in Pieces(s, fy) : s[p] = ")"}
         /\ \A p : Depth(s, fy, p) = Cardinality({o \in Opens(s, fy) : o < p})
                                 - Cardinality({c \in Closes(s, fy) : c < p})
<1>1. Opens(s, fy) = {p \in Pieces(s, fy) : s[p] = "("}
  BY Zenon DEF Opens
<1>2. Closes(s, fy) = {p \in Pieces(s, fy) : s[p] = ")"}
  BY Zenon DEF Closes
<1>3. ASSUME NEW p
      PROVE  Depth(s, fy, p) = Cardinality({o \in Opens(s, fy) : o < p})
                             - Cardinality({c \in Closes(s, fy) : c < p})
  BY Zenon DEF Depth
<1> QED BY <1>1, <1>2, <1>3

LEMMA LevelInt ==
  ASSUME NEW s, NEW fy, Len(s) \in Nat, NEW p
  PROVE  Depth(s, fy, p) \in Int
<1>1. /\ {o \in Opens(s, fy) : o < p} \subseteq Pieces(s, fy)
      /\ {c \in Closes(s, fy) : c < p} \subseteq Pieces(s, fy)
  BY LevelIs
<1>2. /\ IsFiniteSet({o \in Opens(s, fy) : o < p})
      /\ IsFiniteSet({c \in Closes(s, fy) : c < p})
  BY <1>1, StartsFinite, FS_Subset
<1>3. /\ Cardinality({o \in Opens(s, fy) : o < p}) \in Nat
      /\ Cardinality({c \in Closes(s, fy) : c < p}) \in Nat
  BY <1>2, FS_CardinalityType
<1>4. Depth(s, fy, p) = Cardinality({o \in Opens(s, fy) : o < p}) - Cardinality({c \in Closes(s, fy) : c < p})
  BY Zenon DEF Depth
<1> QED BY <1>3, <1>4

LEMMA LevelSame ==
  ASSUME NEW s, NEW fy, Len(s) \in Nat, NEW a \in Nat, NEW b \in Nat, a <= b,
         \A p \in Pieces(s, fy) : p \in a .. b - 1 => s[p] \notin {"(", ")"}
  PROVE  Depth(s, fy, b) = Depth(s, fy, a)
<1>1. Pieces(s, fy) \subseteq Nat
  BY StartsFinite
<1>2. {o \in Opens(s, fy) : o < b} = {o \in Opens(s, fy) : o < a}
  BY <1>1, LevelIs
<1>3. {c \in Closes(s, fy) : c < b} = {c \in Closes(s, fy) : c < a}
  BY <1>1, LevelIs
<1>4. /\ Depth(s, fy, a) = Cardinality({o \in Opens(s, fy) : o < a}) - Cardinality({c \in Closes(s, fy) : c < a})
      /\ Depth(s, fy, b) = Cardinality({o \in Opens(s, fy) : o < b}) - Cardinality({c \in Closes(s, fy) : c < b})
  BY Zenon DEF Depth
<1> QED BY ONLY <1>2, <1>3, <1>4, Zenon

LEMMA LevelNext ==
  ASSUME NEW s, NEW fy, Len(s) \in Nat, NEW k \in Pieces(s, fy)
  PROVE  /\ s[k] = "(" => Depth(s, fy, k + 1) = Depth(s, fy, k) + 1
         /\ s[k] = ")" => Depth(s, fy, k + 1) = Depth(s, fy, k) - 1
<1>1. Pieces(s, fy) \subseteq Nat /\ k \in Nat
  BY StartsFinite
<1> DEFINE O(p) == {o \in Opens(s, fy) : o < p}
           C(p) == {c \in Closes(s, fy) : c < p}
<1>2. O(k) \subseteq Pieces(s, fy) /\ C(k) \subseteq Pieces(s, fy)
  BY LevelIs
<1>3. IsFiniteSet(O(k)) /\ IsFiniteSet(C(k))
  <2> HIDE DEF O, C
  <2> QED BY <1>2, StartsFinite, FS_Subset
<1>4. k \notin O(k) /\ k \notin C(k)
  BY <1>1
<1>5. Cardinality(O(k)) \in Nat /\ Cardinality(C(k)) \in Nat
  <2> HIDE DEF O, C
  <2> QED BY <1>3, FS_CardinalityType
<1>6. /\ Cardinality(O(k) \cup {k}) = Cardinality(O(k)) + 1
      /\ Cardinality(C(k) \cup {k}) = Cardinality(C(k)) + 1
  <2> HIDE DEF O, C
  <2> QED BY <1>3, <1>4, FS_AddElement
<1>7. ASSUME s[k] = "(" PROVE O(k + 1) = O(k) \cup {k} /\ C(k + 1) = C(k)
  BY <1>1, <1>7, LevelIs
<1>8. ASSUME s[k] = ")" PROVE O(k + 1) = O(k) /\ C(k + 1) = C(k) \cup {k}
  BY <1>1, <1>8, LevelIs
<1>9. \A p : Depth(s, fy, p) = Cardinality(O(p)) - Cardinality(C(p))
  BY Zenon DEF Depth
<1>10. /\ Depth(s, fy, k) = Cardinality(O(k)) - Cardinality(C(k))
       /\ Depth(s, fy, k + 1) = Cardinality(O(k + 1)) - Cardinality(C(k + 1))
  BY <1>9, Zenon
<1> HIDE DEF O, C
<1>11. CASE s[k] = "("
  <2>1. Cardinality(O(k + 1)) = Cardinality(O(k)) + 1 /\ Cardinality(C(k + 1)) = Cardinality(C(k))
    BY <1>6, <1>7, <1>11, Zenon
  <2>2. Depth(s, fy, k + 1) = Depth(s, fy, k) + 1
    BY <1>5, <1>10, <2>1
  <2> QED BY <1>11, <2>2
<1>12. CASE s[k] = ")"
  <2>1. Cardinality(O(k + 1)) = Cardinality(O(k)) /\ Cardinality(C(k + 1)) = Cardinality(C(k)) + 1
    BY <1>6, <1>8, <1>12, Zenon
  <2>2. Depth(s, fy, k + 1) = Depth(s, fy, k) - 1
    BY <1>5, <1>10, <2>1
  <2> QED BY <1>12, <2>2
<1> QED BY <1>11, <1>12

-----------------------------------------------------------------------------
(* parse_file among the pieces: it has read the characters before b, the    *)
(* pieces from b on are those from e on, and in between is the rest of a    *)
(* word or of a quoted string.                                              *)
Later(s, fy, b) == {q \in Pieces(s, fy) : q >= b}
InWord(s, fy, b, e) == e <= Len(s) + 1 /\ \A j \in b .. e - 1 : s[j] \notin Stops(fy)
InQuote(s, b, e, q) == /\ q \in Quotes /\ b <= e - 1 /\ \A j \in b .. e - 2 : s[j] # q
                       /\ e - 1 <= Len(s) => s[e - 1] = q
Placed(s, fy, b, e, q) ==
  /\ e \in b .. Len(s) + 2 /\ Later(s, fy, b) = From(s, fy, e)
  /\ \A p \in Pieces(s, fy) : p < b => After(s, fy, p) <= e
  /\ (q = "none" /\ InWord(s, fy, b, e)) \/ InQuote(s, b, e, q)
Place(s, fy, b, q) == \E e \in b .. Len(s) + 2 : Placed(s, fy, b, e, q)

(* A character inside a piece, or the first one of a piece.                 *)
LEMMA Inside ==
  ASSUME NEW s, NEW fy, Len(s) \in Nat, NEW b \in 1 .. Len(s), NEW e \in b + 1 .. Len(s) + 2,
         Later(s, fy, b) = From(s, fy, e)
  PROVE  b \notin Pieces(s, fy) /\ Later(s, fy, b + 1) = From(s, fy, e) /\ Depth(s, fy, b + 1) = Depth(s, fy, b)
<1>1. From(s, fy, e) \subseteq e .. Len(s) /\ Pieces(s, fy) \subseteq Nat
  BY PiecesBehind, StartsFinite
<1>2. b \notin Pieces(s, fy)
  BY <1>1 DEF Later
<1>3. Later(s, fy, b + 1) = Later(s, fy, b)
  BY <1>1, <1>2 DEF Later
<1>4. Depth(s, fy, b + 1) = Depth(s, fy, b)
  <2>1. PICK c \in Nat : c = b + 1 /\ b \in Nat /\ b <= c
    OBVIOUS
  <2>2. \A p \in Pieces(s, fy) : p \in b .. c - 1 => s[p] \notin {"(", ")"}
    BY <1>1, <1>2, <2>1
  <2>3. Depth(s, fy, c) = Depth(s, fy, b)
    BY <2>1, <2>2, LevelSame
  <2> QED BY <2>1, <2>3
<1> QED BY <1>2, <1>3, <1>4

LEMMA First ==
  ASSUME NEW s, NEW fy, Len(s) \in Nat, NEW b \in 1 .. Len(s), Later(s, fy, b) = From(s, fy, b)
  PROVE  /\ Later(s, fy, b + 1) = From(s, fy, After(s, fy, b)) /\ After(s, fy, b) \in b + 1 .. Len(s) + 2
         /\ b \in Pieces(s, fy) <=> s[b] \notin Blank \cup {"#"}
         /\ s[b] \notin {"(", ")"} => Depth(s, fy, b + 1) = Depth(s, fy, b)
<1>1. PICK a \in b + 1 .. Len(s) + 2 : a = After(s, fy, b)
  BY BehindRange
<1>2. From(s, fy, a) \subseteq a .. Len(s) /\ Pieces(s, fy) \subseteq Nat
  BY <1>1, PiecesBehind, StartsFinite
<1>3. From(s, fy, b) = From(s, fy, a) \cup Here(s, b)
  BY <1>1, PiecesAre
<1>4. b \notin From(s, fy, a)
  BY <1>1, <1>2
<1>5. b \in Pieces(s, fy) <=> b \in Here(s, b)
  BY <1>2, <1>3, <1>4 DEF Later
<1>6. Here(s, b) \subseteq {b}
  BY DEF Here
<1>7. Later(s, fy, b + 1) = Later(s, fy, b) \ {b}
  BY <1>2 DEF Later
<1>8. Later(s, fy, b + 1) = From(s, fy, a)
  BY <1>3, <1>4, <1>6, <1>7
<1>9. ASSUME s[b] \notin {"(", ")"} PROVE Depth(s, fy, b + 1) = Depth(s, fy, b)
  <2>1. PICK c \in Nat : c = b + 1 /\ b \in Nat /\ b <= c
    OBVIOUS
  <2>2. \A p \in Pieces(s, fy) : p \in b .. c - 1 => s[p] \notin {"(", ")"}
    BY <1>2, <1>9, <2>1
  <2>3. Depth(s, fy, c) = Depth(s, fy, b)
    BY <2>1, <2>2, LevelSame
  <2> QED BY <2>1, <2>3
<1> QED BY <1>1, <1>5, <1>8, <1>9 DEF Here

(* A comment, which parse_file reads to its newline.                        *)
LEMMA PlaceComment ==
  ASSUME NEW s, NEW fy, Len(s) \in Nat, NEW b \in 1 .. Len(s), Place(s, fy, b, "none"), s[b] = "#",
         ~OpenComment(s, fy)
  PROVE  \E u \in b + 1 .. Len(s) :
           /\ u = Until(s, {"\n"}, b) /\ s[u] = "\n" /\ Place(s, fy, u + 1, "none")
           /\ \A p \in b .. u + 1 : Depth(s, fy, p) = Depth(s, fy, b)
<1>1. PICK e \in b .. Len(s) + 2 : Placed(s, fy, b, e, "none")
  BY DEF Place
<1>2. InWord(s, fy, b, e)
  BY <1>1 DEF Placed, InQuote, Quotes
<1>3. e = b
  <2>1. s[b] \in Stops(fy)
    BY MarksAre
  <2> QED BY <1>1, <1>2, <2>1 DEF InWord
<1>4. /\ Later(s, fy, b) = From(s, fy, b)
      /\ \A p \in Pieces(s, fy) : p < b => After(s, fy, p) <= b
  BY <1>1, <1>3 DEF Placed
<1>5. PICK u \in b + 1 .. Len(s) + 1 :
        u = After(s, fy, b) /\ u = Until(s, {"\n"}, b) /\ (u <= Len(s) => s[u] = "\n")
  BY BehindComment
<1>6. u <= Len(s)
  <2>1. ~(Until(s, {"\n"}, b) > Len(s))
    BY <1>4, Zenon DEF OpenComment
  <2> QED BY <1>5, <2>1
<1>7. u \in 1 .. Len(s) /\ s[u] = "\n" /\ s[u] \in Blank
  <2>1. u \in 1 .. Len(s) /\ s[u] = "\n"
    BY <1>5, <1>6
  <2>2. s[u] \in Blank
    BY <2>1, Zenon DEF Blank
  <2> QED BY <2>1, <2>2
<1>8. Later(s, fy, b + 1) = From(s, fy, u) /\ b \notin Pieces(s, fy)
  BY <1>4, <1>5, First
<1>9. From(s, fy, u) = From(s, fy, u + 1)
  <2>1. After(s, fy, u) = u + 1
    BY <1>7, BehindOne
  <2>2. From(s, fy, u) = From(s, fy, u + 1) \cup Here(s, u)
    <3>1. u \in 1 .. Len(s) + 2 /\ ~(u > Len(s))
      BY <1>7
    <3> QED BY <2>1, <3>1, PiecesAre
  <2> QED BY <1>7, <2>2 DEF Here
<1>10. From(s, fy, u + 1) \subseteq u + 1 .. Len(s) /\ Pieces(s, fy) \subseteq Nat
  <2>1. u + 1 \in 1 .. Len(s) + 2
    BY <1>7
  <2> QED BY <2>1, PiecesBehind, StartsFinite
<1>11. \A q \in Pieces(s, fy) : q >= b => q >= u + 1
  <2> SUFFICES ASSUME NEW q \in Pieces(s, fy), q >= b PROVE q >= u + 1
    OBVIOUS
  <2>1. q \in Nat /\ q # b
    BY <1>8, <1>10
  <2>2. q \in Later(s, fy, b + 1)
    BY <2>1 DEF Later
  <2> QED BY <1>8, <1>9, <1>10, <2>2
<1>12. Later(s, fy, u + 1) = From(s, fy, u + 1)
  <2>1. Later(s, fy, u + 1) = Later(s, fy, b + 1)
    BY <1>5, <1>10, <1>11 DEF Later
  <2> QED BY <1>8, <1>9, <2>1
<1>13. \A p \in Pieces(s, fy) : p < u + 1 => After(s, fy, p) <= u + 1
  <2> SUFFICES ASSUME NEW p \in Pieces(s, fy), p < u + 1 PROVE After(s, fy, p) <= u + 1
    OBVIOUS
  <2>1. p \in 1 .. Len(s) /\ p < b
    BY <1>7, <1>11, StartsFinite
  <2>2. After(s, fy, p) <= b /\ After(s, fy, p) \in Nat
    BY <1>4, <2>1, BehindRange
  <2> QED BY <1>5, <2>2
<1>14. Placed(s, fy, u + 1, u + 1, "none")
  BY <1>7, <1>12, <1>13 DEF Placed, InWord
<1>15. ASSUME NEW p \in b .. u + 1 PROVE Depth(s, fy, p) = Depth(s, fy, b)
  <2>1. \A q \in Pieces(s, fy) : q \in b .. p - 1 => s[q] \notin {"(", ")"}
    BY <1>7, <1>10, <1>11
  <2>2. p \in Nat /\ b \in Nat /\ b <= p
    OBVIOUS
  <2> QED BY <2>1, <2>2, LevelSame
<1>16. Place(s, fy, u + 1, "none")
  <2>1. u + 1 \in u + 1 .. Len(s) + 2
    BY <1>7
  <2> QED BY <1>14, <2>1, Zenon DEF Place
<1> QED BY <1>5, <1>6, <1>7, <1>15, <1>16

(* Any other character.                                                     *)
Depths(q, c, d) == IF q = "none" /\ c = "(" THEN d + 1
                   ELSE IF q = "none" /\ c = ")" THEN d - 1 ELSE d
Quoted(q, c) == IF c \notin Quotes THEN q
                ELSE IF q = c THEN "none" ELSE IF q = "none" THEN c ELSE q

LEMMA PlaceInQuote ==
  ASSUME NEW s, NEW fy, Len(s) \in Nat, NEW b \in 1 .. Len(s), NEW q \in Quotes, Place(s, fy, b, q)
  PROVE  Place(s, fy, b + 1, Quoted(q, s[b])) /\ Depth(s, fy, b + 1) = Depth(s, fy, b)
<1>1. PICK e \in b .. Len(s) + 2 : Placed(s, fy, b, e, q)
  BY DEF Place
<1>2. q # "none"
  BY DEF Quotes
<1>3. InQuote(s, b, e, q)
  BY <1>1, <1>2 DEF Placed
<1>4. e \in b + 1 .. Len(s) + 2
  BY <1>1, <1>3 DEF InQuote
<1>5. /\ b \notin Pieces(s, fy) /\ Later(s, fy, b + 1) = From(s, fy, e) /\ Depth(s, fy, b + 1) = Depth(s, fy, b)
  BY <1>1, <1>4, Inside DEF Placed
<1>6. \A p \in Pieces(s, fy) : p < b + 1 => After(s, fy, p) <= e
  <2>1. Pieces(s, fy) \subseteq Nat
    BY StartsFinite
  <2> QED BY <1>1, <1>5, <2>1 DEF Placed
<1>7. CASE b = e - 1
  <2>1. s[b] = q /\ e <= Len(s) + 1
    BY <1>3, <1>7 DEF InQuote
  <2>2. Quoted(q, s[b]) = "none"
    BY <2>1 DEF Quoted
  <2>3. InWord(s, fy, b + 1, e)
    BY <1>4, <1>7, <2>1 DEF InWord
  <2>4. Placed(s, fy, b + 1, e, "none")
    BY <1>4, <1>5, <1>6, <2>3 DEF Placed
  <2> QED BY <1>4, <1>5, <2>2, <2>4 DEF Place
<1>8. CASE b # e - 1
  <2>1. s[b] # q
    BY <1>3, <1>4, <1>8 DEF InQuote
  <2>2. Quoted(q, s[b]) = q
    BY <1>2, <2>1 DEF Quoted
  <2>3. InQuote(s, b + 1, e, q)
    BY <1>3, <1>4, <1>8 DEF InQuote
  <2>4. Placed(s, fy, b + 1, e, q)
    BY <1>4, <1>5, <1>6, <2>3 DEF Placed
  <2> QED BY <1>4, <1>5, <2>2, <2>4 DEF Place
<1> QED BY <1>7, <1>8

LEMMA PlaceOutside ==
  ASSUME NEW s, NEW fy, Len(s) \in Nat, NEW b \in 1 .. Len(s), Place(s, fy, b, "none"), s[b] # "#"
  PROVE  /\ Place(s, fy, b + 1, Quoted("none", s[b]))
         /\ Depth(s, fy, b + 1) = Depths("none", s[b], Depth(s, fy, b))
         /\ s[b] \in {"(", ")"} => b \in Pieces(s, fy)
<1>1. PICK e \in b .. Len(s) + 2 : Placed(s, fy, b, e, "none")
  BY DEF Place
<1>2. InWord(s, fy, b, e)
  BY <1>1 DEF Placed, InQuote, Quotes
<1>3. Pieces(s, fy) \subseteq Nat
  BY StartsFinite
<1>4. CASE e # b
  <2>1. e \in b + 1 .. Len(s) + 2
    BY <1>1, <1>4
  <2>2. s[b] \notin Stops(fy)
    BY <1>2, <2>1 DEF InWord
  <2>3. s[b] \notin Quotes /\ s[b] \notin {"(", ")"}
    BY <2>2, MarksAre
  <2>4. /\ b \notin Pieces(s, fy) /\ Later(s, fy, b + 1) = From(s, fy, e) /\ Depth(s, fy, b + 1) = Depth(s, fy, b)
    BY <1>1, <2>1, Inside DEF Placed
  <2>5. \A p \in Pieces(s, fy) : p < b + 1 => After(s, fy, p) <= e
    BY <1>1, <1>3, <2>4 DEF Placed
  <2>6. InWord(s, fy, b + 1, e)
    BY <1>2 DEF InWord
  <2>7. Placed(s, fy, b + 1, e, "none")
    BY <2>1, <2>4, <2>5, <2>6 DEF Placed
  <2>8. Quoted("none", s[b]) = "none" /\ Depths("none", s[b], Depth(s, fy, b)) = Depth(s, fy, b)
    BY <2>3 DEF Quoted, Depths
  <2> QED BY <2>1, <2>3, <2>4, <2>7, <2>8 DEF Place
<1>5. CASE e = b
  <2>1. PICK a \in b + 1 .. Len(s) + 2 : a = After(s, fy, b)
    BY BehindRange
  <2>2. /\ Later(s, fy, b + 1) = From(s, fy, a) /\ (b \in Pieces(s, fy) <=> s[b] \notin Blank \cup {"#"})
        /\ (s[b] \notin {"(", ")"} => Depth(s, fy, b + 1) = Depth(s, fy, b))
    BY <1>1, <1>5, <2>1, First DEF Placed
  <2>3. \A p \in Pieces(s, fy) : p < b + 1 => After(s, fy, p) <= a
    <3> SUFFICES ASSUME NEW p \in Pieces(s, fy), p < b + 1 PROVE After(s, fy, p) <= a
      OBVIOUS
    <3>1. p \in 1 .. Len(s) /\ After(s, fy, p) \in Nat
      BY StartsFinite, BehindRange
    <3>2. CASE p = b
      BY <2>1, <3>2
    <3>3. CASE p # b
      <4>1. After(s, fy, p) <= b
        BY <1>1, <1>5, <3>1, <3>3 DEF Placed
      <4> QED BY <2>1, <3>1, <4>1
    <3> QED BY <3>2, <3>3
  <2>4. ASSUME NEW q, (InWord(s, fy, b + 1, a) /\ q = "none") \/ InQuote(s, b + 1, a, q)
        PROVE  Place(s, fy, b + 1, q)
    <3>1. Placed(s, fy, b + 1, a, q)
      BY <2>1, <2>2, <2>3, <2>4 DEF Placed
    <3> QED BY <2>1, <3>1 DEF Place
  <2>5. CASE s[b] \in Quotes
    <3>1. s[b] \notin {"(", ")"} /\ Quoted("none", s[b]) = s[b] /\ s[b] # "none"
      BY <2>5 DEF Quoted, Quotes
    <3>2. Depths("none", s[b], Depth(s, fy, b)) = Depth(s, fy, b)
      BY <3>1 DEF Depths
    <3>3. InQuote(s, b + 1, a, s[b])
      BY <2>1, <2>5, BehindQuote DEF InQuote
    <3> QED BY <2>2, <2>4, <3>1, <3>2, <3>3
  <2>6. CASE s[b] \in Blank \cup Marks(fy)
    <3>1. s[b] \notin Quotes /\ (s[b] \in {"(", ")"} => s[b] \notin Blank \cup {"#"})
      BY <2>6, MarksAre DEF Quotes, Blank
    <3>2. Quoted("none", s[b]) = "none"
      BY <3>1 DEF Quoted
    <3>3. a = b + 1
      BY <2>1, <2>6, BehindOne
    <3>4. InWord(s, fy, b + 1, a)
      BY <2>1, <3>3 DEF InWord
    <3>5. Depth(s, fy, b + 1) = Depths("none", s[b], Depth(s, fy, b))
      BY <2>2, <3>1, LevelNext DEF Depths
    <3> QED BY <2>2, <2>4, <3>1, <3>2, <3>4, <3>5
  <2>7. CASE s[b] \notin Stops(fy)
    <3>1. s[b] \notin Quotes /\ s[b] \notin {"(", ")"}
      BY <2>7, MarksAre
    <3>2. Quoted("none", s[b]) = "none" /\ Depths("none", s[b], Depth(s, fy, b)) = Depth(s, fy, b)
      BY <3>1 DEF Quoted, Depths
    <3>3. InWord(s, fy, b + 1, a)
      BY <2>1, <2>7, BehindWord DEF InWord
    <3> QED BY <2>2, <2>4, <3>1, <3>2, <3>3
  <2> QED BY <2>5, <2>6, <2>7, MarksAre
<1> QED BY <1>4, <1>5

-----------------------------------------------------------------------------
(* The first token of an expression of a script                             *)

LEMMA WordKinds ==
  ASSUME Len(text) \in Nat, buff \in Seq(Cells), NEW n \in Nat, Holds(buff, n),
         NEW k \in 0 .. n, NEW mode \in {"word"} \cup Quotes, NEW w \in Nat
  PROVE  Tokens[k][mode][w].kind \in {"word", End}
<1> DEFINE T == {j \in 0 .. n : Tokens[j][mode][w].kind \in {"word", End}}
<1>1. Input(n) = End /\ mode \in Modes
  BY InputIs DEF Modes
<1>2. ASSUME NEW j \in 0 .. n, \A l \in j + 1 .. n : l \in T
      PROVE  j \in T
  <2>1. PICK r : r = Tokens[j + 1]
    OBVIOUS
  <2>2. Tokens[j][mode][w] = Turn(r, j, mode, w)
    BY <1>1, <2>1, TokensAre
  <2>3. \A to, open : Tok("word", w, j, to, open).kind = "word"
    BY DEF Tok
  <2>4. CASE Input(j) = End
    <3>1. Turn(r, j, mode, w) = EndToken(j, mode, w)
      BY <2>4, TurnEnd
    <3>2. \A open : Tok(End, j, j, j, open).kind = End
      BY DEF Tok
    <3>3. EndToken(j, mode, w).kind \in {"word", End}
      BY <2>3, <3>2, Zenon DEF EndToken
    <3> QED BY <2>2, <3>1, <3>3
  <2>5. CASE Input(j) # End
    <3>1. r[mode][w].kind \in {"word", End}
      <4>1. j + 1 \in j + 1 .. n
        BY <1>1, <2>5
      <4> QED BY <1>2, <2>1, <4>1
    <3>2. \/ Turn(r, j, mode, w) = Tok("word", w, j, j, FALSE)
          \/ Turn(r, j, mode, w) = Tok("word", w, j, j + 1, FALSE)
          \/ Turn(r, j, mode, w) = r[mode][w]
      <4>1. CASE mode = "word"
        BY <2>5, <4>1, TurnWord
      <4>2. CASE mode \in Quotes
        <5>1. Turn(r, j, mode, w) \in {Tok("word", w, j, j + 1, FALSE), r[mode][w]}
          BY <2>5, <4>2, TurnQuote
        <5> QED BY <5>1
      <4> QED BY <4>1, <4>2
    <3> QED BY <2>2, <2>3, <3>1, <3>2, Zenon
  <2> QED BY <2>4, <2>5
<1>3. \A j \in 0 .. n : j \in T
  <2> HIDE DEF T
  <2>1. 0 \in Nat
    OBVIOUS
  <2> QED BY <1>2, <2>1, Downward
<1> QED BY <1>3

LEMMA SkipBlanks ==
  ASSUME Len(text) \in Nat, buff \in Seq(Cells), NEW n \in Nat, Holds(buff, n),
         NEW k \in 0 .. n, \A j \in 0 .. k - 1 : Input(j) \in Blank
  PROVE  NextToken(0) = Tokens[k]["skip"][0]
<1> DEFINE T == {j \in 0 .. k : Tokens[j]["skip"][0] = Tokens[k]["skip"][0]}
<1>1. ASSUME NEW j \in 0 .. k, \A l \in j + 1 .. k : l \in T
      PROVE  j \in T
  <2>1. CASE j = k
    BY <2>1
  <2>2. CASE j # k
    <3>1. Input(j) \in Blank /\ Input(j) # End
      <4>1. j \in 0 .. k - 1
        BY <2>2
      <4> QED BY <4>1 DEF Blank, End
    <3>2. PICK r : r = Tokens[j + 1]
      OBVIOUS
    <3>3. Tokens[j]["skip"][0] = Turn(r, j, "skip", 0)
      BY <3>2, TokensAre DEF Modes
    <3>4. Turn(r, j, "skip", 0) = r["skip"][0]
      BY <3>1, TurnSkip
    <3>5. j + 1 \in j + 1 .. k
      BY <2>2
    <3> QED BY <1>1, <3>2, <3>3, <3>4, <3>5
  <2> QED BY <2>1, <2>2
<1>2. 0 \in T
  <2> HIDE DEF T
  <2>1. 0 \in Nat /\ 0 \in 0 .. k /\ k \in Nat
    OBVIOUS
  <2>2. \A j \in 0 .. k : j \in T
    BY <1>1, <2>1, Downward
  <2> QED BY <2>1, <2>2
<1> QED BY <1>2 DEF NextToken

LEMMA FirstToken ==
  ASSUME Len(text) \in Nat, buff \in Seq(Cells), NEW n \in Nat, Holds(buff, n),
         NEW k \in 0 .. n - 1, \A j \in 0 .. k - 1 : Input(j) \in Blank,
         Input(k) \notin Blank \cup {"#"}, NextToken(0).kind = "("
  PROVE  Input(k) = "(" /\ NextToken(0).next = k + 1
<1>1. PICK r : r = Tokens[k + 1]
  OBVIOUS
<1>2. PICK t : t = NextToken(0) /\ t.kind = "("
  OBVIOUS
<1>3. t = Turn(r, k, "skip", 0)
  <2>1. t = Tokens[k]["skip"][0]
    BY <1>2, SkipBlanks
  <2> QED BY <1>1, <2>1, TokensAre DEF Modes
<1>4. k + 1 \in 0 .. n /\ k \in Nat /\ k + 1 \in Nat
  OBVIOUS
<1>5. ASSUME NEW mode \in {"word"} \cup Quotes, NEW w \in Nat PROVE t # r[mode][w]
  <2>1. r[mode][w].kind \in {"word", End}
    BY <1>1, <1>4, WordKinds
  <2> QED BY <1>2, <2>1 DEF End
<1>6. Input(k) # End
  <2> SUFFICES ASSUME Input(k) = End PROVE FALSE
    OBVIOUS
  <2>1. t = Tok(End, k, k, k, "skip" \in Quotes)
    BY <1>3, TurnEnd DEF EndToken
  <2>2. t.kind = End
    BY <2>1 DEF Tok
  <2> QED BY <1>2, <2>2 DEF End
<1>7. CASE Input(k) \in Quotes
  <2>1. t = r[Input(k)][k + 1]
    BY <1>3, <1>4, <1>7, <1>6, TurnSkip
  <2>2. t # r[Input(k)][k + 1]
    BY <1>4, <1>5, <1>7
  <2> QED BY <2>1, <2>2
<1>8. CASE Other(Input(k)) /\ IsSpecial(Input(k))
  <2>1. t = Tok(Input(k), k, k, k + 1, FALSE)
    BY <1>3, <1>8, <1>6, TurnSpecial
  <2>2. t.kind = Input(k)
    BY <2>1 DEF Tok
  <2>3. t.next = k + 1
    BY <2>1 DEF Tok
  <2> QED BY <1>2, <2>2, <2>3
<1>9. CASE Other(Input(k)) /\ ~IsSpecial(Input(k))
  <2>1. k = 0 \/ Input(k - 1) \in Blank
    <3>1. k # 0 => k - 1 \in 0 .. k - 1
      OBVIOUS
    <3> QED BY <3>1
  <2>2. t = r["word"][k]
    BY <1>3, <1>9, <1>6, <2>1, TurnLetter
  <2> QED BY <1>4, <1>5, <2>2
<1> QED BY <1>7, <1>8, <1>9 DEF Other

-----------------------------------------------------------------------------
(* What parse_file knows of the expression it is reading                    *)

LEMMA ListedIs ==
  ASSUME NEW s, NEW fy, NEW o, NEW c,
         o \in Opens(s, fy), c \in Closes(s, fy), o < c, Depth(s, fy, c) = Depth(s, fy, o) + 1,
         \A p \in Opens(s, fy) : o < p /\ p < c => Depth(s, fy, p) > Depth(s, fy, o)
  PROVE  IsList(s, fy, o, c)
BY Zenon DEF IsList

(* The first character that is not blank is among the n in the buffer b; if *)
(* it opens a list, the list is still open after the character at o.        *)
Heads(s, b, k) == s[b[k]] \notin Blank \cup {"#"} /\ \A j \in 1 .. k - 1 : s[b[j]] \in Blank
Opened(s, fy, p, o) == p \in Opens(s, fy) /\ Depth(s, fy, p) = 0 /\ \A q \in p + 1 .. o + 1 : Depth(s, fy, q) >= 1
Lead(s, fy, b, n, o) == \E k \in 1 .. n : Heads(s, b, k) /\ (s[b[k]] = "(" => Opened(s, fy, b[k], o))
Idle(s, b, n)    == \A k \in 1 .. n : s[b[k]] \in Blank
Led(s, fy, b, n, o)  == \E k \in 1 .. n : Heads(s, b, k) /\ (s[b[k]] = "(" => IsList(s, fy, b[k], o))

LEMMA LeadGoes ==
  ASSUME NEW s, NEW fy, NEW b, NEW n \in Nat, NEW o \in Nat, NEW c, NEW p \in Nat, Lead(s, fy, b, n, o),
         \A k \in 1 .. n : c[k] = b[k], \A k \in 1 .. n : b[k] \in 1 .. o,
         Depth(s, fy, o + 1) >= 1 => \A q \in o + 2 .. p + 1 : Depth(s, fy, q) >= 1
  PROVE  Lead(s, fy, c, n + 1, p)
<1>1. PICK k \in 1 .. n : Heads(s, b, k) /\ (s[b[k]] = "(" => Opened(s, fy, b[k], o))
  BY DEF Lead
<1>2. k \in 1 .. n + 1 /\ c[k] = b[k] /\ \A j \in 1 .. k - 1 : c[j] = b[j]
  OBVIOUS
<1>3. Heads(s, c, k)
  BY <1>1, <1>2 DEF Heads
<1>4. ASSUME s[b[k]] = "(" PROVE Opened(s, fy, b[k], p)
  <2>1. PICK m \in 1 .. o : m = b[k]
    OBVIOUS
  <2>2. m \in Opens(s, fy) /\ Depth(s, fy, m) = 0 /\ \A q \in m + 1 .. o + 1 : Depth(s, fy, q) >= 1
    BY <1>1, <1>4, <2>1 DEF Opened
  <2>3. Depth(s, fy, o + 1) >= 1
    BY <2>2
  <2>4. \A q \in m + 1 .. p + 1 : q \in m + 1 .. o + 1 \/ q \in o + 2 .. p + 1
    BY <2>1
  <2> QED BY <2>1, <2>2, <2>3, <2>4 DEF Opened
<1> QED BY <1>2, <1>3, <1>4 DEF Lead

LEMMA LeadEnds ==
  ASSUME NEW s, NEW fy, Len(s) \in Nat, NEW b, NEW n \in Nat, NEW o \in Nat, NEW c, NEW p,
         Lead(s, fy, b, n, o),
         \A k \in 1 .. n : c[k] = b[k], \A k \in 1 .. n : b[k] \in 1 .. o,
         Depth(s, fy, o + 1) >= 1 => /\ p = o + 1 /\ p \in Pieces(s, fy) /\ s[p] = ")"
                                 /\ Depth(s, fy, p + 1) = 0
  PROVE  Led(s, fy, c, n + 1, p)
<1>1. PICK k \in 1 .. n : Heads(s, b, k) /\ (s[b[k]] = "(" => Opened(s, fy, b[k], o))
  BY DEF Lead
<1>2. k \in 1 .. n + 1 /\ c[k] = b[k] /\ \A j \in 1 .. k - 1 : c[j] = b[j]
  OBVIOUS
<1>3. Heads(s, c, k)
  BY <1>1, <1>2 DEF Heads
<1>4. ASSUME s[b[k]] = "(" PROVE IsList(s, fy, b[k], p)
  <2>1. PICK m \in 1 .. o : m = b[k]
    OBVIOUS
  <2>2. m \in Opens(s, fy) /\ Depth(s, fy, m) = 0 /\ \A q \in m + 1 .. o + 1 : Depth(s, fy, q) >= 1
    BY <1>1, <1>4, <2>1 DEF Opened
  <2>3. p = o + 1 /\ p \in Pieces(s, fy) /\ s[p] = ")" /\ Depth(s, fy, p + 1) = 0
    BY <2>2
  <2>4. p \in Closes(s, fy) /\ m < p
    BY <2>3, LevelIs
  <2>5. Depth(s, fy, p) = 1
    <3>1. Depth(s, fy, p) \in Int /\ Depth(s, fy, p + 1) = Depth(s, fy, p) - 1
      BY <2>3, LevelInt, LevelNext
    <3> QED BY <2>3, <3>1
  <2>6. \A q \in Opens(s, fy) : m < q /\ q < p => Depth(s, fy, q) > Depth(s, fy, m)
    <3> SUFFICES ASSUME NEW q \in Opens(s, fy), m < q, q < p PROVE Depth(s, fy, q) > 0
      BY <2>2
    <3>1. q \in Nat
      BY LevelIs, StartsFinite
    <3>2. q \in m + 1 .. o + 1
      BY <2>3, <3>1
    <3>3. Depth(s, fy, q) >= 1 /\ Depth(s, fy, q) \in Int
      BY <2>2, <3>2, LevelInt
    <3> QED BY <3>3
  <2>7. Depth(s, fy, p) = Depth(s, fy, m) + 1
    BY <2>2, <2>5
  <2> QED BY <2>1, <2>2, <2>4, <2>6, <2>7, ListedIs
<1> QED BY <1>2, <1>3, <1>4 DEF Led

(* One turn of parse_file among the pieces.                                 *)
LEMMA ScanChar ==
  ASSUME Len(text) \in Nat, ~OpenComment(text, fancy), NEW b \in 1 .. Len(text), Place(text, fancy, b, inquote),
         NEW o, o = IF inquote = "none" /\ text[b] = "#" THEN LineEnd(b) ELSE b
  PROVE  /\ o \in b .. Len(text) /\ Place(text, fancy, o + 1, Quoted(inquote, text[o]))
         /\ Depth(text, fancy, o + 1) = Depths(inquote, text[o], Depth(text, fancy, b))
         /\ inquote = "none" => text[o] # "#"
         /\ inquote = "none" /\ text[o] \in {"(", ")"} => o = b /\ o \in Pieces(text, fancy)
         /\ \A p \in b .. o : Depth(text, fancy, p) = Depth(text, fancy, b)
<1>1. CASE inquote = "none" /\ text[b] = "#"
  <2>1. PICK u \in b + 1 .. Len(text) :
           /\ u = Until(text, {"\n"}, b) /\ text[u] = "\n" /\ Place(text, fancy, u + 1, "none")
           /\ \A p \in b .. u + 1 : Depth(text, fancy, p) = Depth(text, fancy, b)
    BY <1>1, PlaceComment
  <2>2. o = u
    BY <1>1, <2>1 DEF LineEnd
  <2>3. text[u] \notin Quotes /\ text[u] # "#" /\ text[u] \notin {"(", ")"}
    BY <2>1 DEF Quotes
  <2>4. Quoted(inquote, text[u]) = "none" /\ Depths(inquote, text[u], Depth(text, fancy, b)) = Depth(text, fancy, b)
    BY <1>1, <2>3 DEF Quoted, Depths
  <2> QED BY <2>1, <2>2, <2>3, <2>4
<1>2. CASE inquote = "none" /\ text[b] # "#"
  <2>1. o = b
    BY <1>2
  <2>2. /\ Place(text, fancy, b + 1, Quoted("none", text[b]))
        /\ Depth(text, fancy, b + 1) = Depths("none", text[b], Depth(text, fancy, b))
        /\ text[b] \in {"(", ")"} => b \in Pieces(text, fancy)
    BY <1>2, PlaceOutside
  <2> QED BY <1>2, <2>1, <2>2
<1>3. CASE inquote \in Quotes
  <2>1. inquote # "none"
    BY <1>3 DEF Quotes
  <2>2. o = b
    BY <2>1
  <2>3. Place(text, fancy, b + 1, Quoted(inquote, text[b])) /\ Depth(text, fancy, b + 1) = Depth(text, fancy, b)
    BY <1>3, PlaceInQuote
  <2>4. Depths(inquote, text[b], Depth(text, fancy, b)) = Depth(text, fancy, b)
    BY <2>1 DEF Depths
  <2> QED BY <2>1, <2>2, <2>3, <2>4
<1>4. inquote = "none" \/ inquote \in Quotes
  BY DEF Place, Placed, InQuote
<1> QED BY <1>1, <1>2, <1>3, <1>4

(* Between the characters of an expression, and while it is parsed.         *)
Scanning == /\ parencount = Depth(text, fancy, offset + 1) /\ Place(text, fancy, offset + 1, inquote)
Reading  == /\ did_one => parencount # 0
            /\ \/ Idle(text, buff, i) /\ inquote = "none" /\ parencount = 0 /\ ~did_one
               \/ Lead(text, fancy, buff, i, offset)
Listing  == /\ i = 0 /\ inquote = "none" /\ parencount = 0 /\ ~did_one
            /\ frames[1].from = 0 =>
                 /\ Len(frames) = 1 /\ pos = 0
                 /\ \E n \in Nat : Holds(buff, n) /\ Led(text, fancy, buff, n, offset)
            /\ frames[1].from # 0 => IsList(text, fancy, frames[1].from, offset)
ScanInv  == entry = "script" =>
              /\ at \in {"read", "list", "done", "undefined"}
              /\ at \in {"read", "list"} /\ ~failed /\ ~OpenComment(text, fancy) =>
                   Scanning /\ (at = "read" => Reading) /\ (at = "list" => Listing)

LEMMA ScanStart == Init /\ ReadInv => ScanInv
<1> SUFFICES ASSUME Init, ReadInv, entry = "script" PROVE ScanInv
  BY DEF ScanInv
<1>1. /\ at = "read" /\ offset = 0 /\ i = 0 /\ parencount = 0 /\ did_one = FALSE
      /\ inquote = "none"
  BY DEF Init
<1>2. Len(text) \in Nat
  BY DEF ReadInv, Shape
<1>3. Pieces(text, fancy) = From(text, fancy, 1) /\ Pieces(text, fancy) \subseteq 1 .. Len(text)
  BY <1>2, StartsFinite
<1>4. Later(text, fancy, 1) = From(text, fancy, 1)
  BY <1>2, <1>3 DEF Later
<1>5. \A p \in Pieces(text, fancy) : ~(p < 1)
  BY <1>2, <1>3
<1>6. InWord(text, fancy, 1, 1) /\ 1 \in 1 .. Len(text) + 2
  BY <1>2 DEF InWord
<1>7. Place(text, fancy, 1, "none")
  BY <1>4, <1>5, <1>6 DEF Place, Placed
<1>8. Depth(text, fancy, 1) = 0
  <2>1. {o \in Opens(text, fancy) : o < 1} = {} /\ {c \in Closes(text, fancy) : c < 1} = {}
    BY <1>5, LevelIs
  <2>2. Depth(text, fancy, 1) = Cardinality({o \in Opens(text, fancy) : o < 1})
                           - Cardinality({c \in Closes(text, fancy) : c < 1})
    BY Zenon DEF Depth
  <2>3. Depth(text, fancy, 1) = Cardinality({}) - Cardinality({})
    BY ONLY <2>1, <2>2, Zenon
  <2> QED BY <2>3, FS_EmptySet
<1>9. Idle(text, buff, i)
  BY <1>1 DEF Idle
<1>10. Scanning /\ Reading
  BY <1>1, <1>7, <1>8, <1>9 DEF Scanning, Reading
<1> QED BY <1>1, <1>10 DEF ScanInv

LEMMA ScanRead ==
  ASSUME ReadInv, ScanInv, FileChar, ~failed, ~OpenComment(text, fancy)
  PROVE  (Scanning /\ (at = "read" => Reading) /\ (at = "list" => Listing))'
<1>1. /\ Shape /\ Room /\ Kept /\ at = "read" /\ offset < Len(text) /\ text' = text
      /\ Len(text) \in Nat /\ offset \in 0 .. Len(text) /\ i \in 0 .. offset /\ entry = "script"
      /\ fancy' = fancy
  BY DEF ReadInv, Shape, FileChar
<1>2. Scanning /\ Reading
  BY <1>1 DEF ScanInv
<1>3. PICK b, o, d, one :
        /\ b \in Roomy(buff, i)
        /\ o = IF inquote = "none" /\ text[offset + 1] = "#" THEN LineEnd(offset + 1) ELSE offset + 1
        /\ d = DepthAfter(text[o]) /\ one = (did_one \/ (inquote = "none" /\ text[o] = ")"))
        /\ offset' = o
        /\ \/ /\ d = 0 /\ one /\ buff' = Terminated(Stored(b, i, o), i + 1)
              /\ i' = 0 /\ parencount' = 0 /\ did_one' = FALSE /\ inquote' = "none"
              /\ at' = "list" /\ pos' = 0 /\ frames' = <<Call(0)>>
           \/ /\ ~(d = 0 /\ one) /\ buff' = Stored(b, i, o) /\ i' = i + 1
              /\ parencount' = d /\ did_one' = one /\ inquote' = QuoteAfter(text[o])
              /\ at' = "read"
  BY <1>1, Zenon DEF FileChar
<1>4. offset + 1 \in 1 .. Len(text)
  BY <1>1
<1>5. /\ o \in offset + 1 .. Len(text) /\ Place(text, fancy, o + 1, Quoted(inquote, text[o]))
      /\ Depth(text, fancy, o + 1) = Depths(inquote, text[o], Depth(text, fancy, offset + 1))
      /\ inquote = "none" => text[o] # "#"
      /\ inquote = "none" /\ text[o] \in {"(", ")"} => o = offset + 1 /\ o \in Pieces(text, fancy)
      /\ \A p \in offset + 1 .. o : Depth(text, fancy, p) = Depth(text, fancy, offset + 1)
  BY <1>1, <1>2, <1>3, <1>4, ScanChar DEF Scanning
<1>6. PICK l \in Int : l = Depth(text, fancy, offset + 1) /\ parencount = l
  BY <1>1, <1>2, LevelInt DEF Scanning
<1>7. d = Depths(inquote, text[o], l) /\ Depth(text, fancy, o + 1) = d
  <2>1. DepthAfter(text[o]) = Depths(inquote, text[o], l)
    BY <1>6 DEF DepthAfter, Depths
  <2> QED BY <1>3, <1>5, <1>6, <2>1
<1>8. QuoteAfter(text[o]) = Quoted(inquote, text[o])
  BY DEF QuoteAfter, Quoted
<1>9. PICK c : c = Stored(b, i, o)
  OBVIOUS
<1>10. /\ \A k \in 1 .. i : c[k] = buff[k] /\ Terminated(c, i + 1)[k] = buff[k]
       /\ c[i + 1] = o /\ Terminated(c, i + 1)[i + 1] = o
       /\ Holds(Terminated(c, i + 1), i + 1)
  <2>1. Shape /\ Room /\ Kept /\ at = "read" /\ offset < Len(text)
    BY <1>1
  <2>2. b \in Roomy(buff, i) /\ o \in offset + 1 .. Len(text)
    BY <1>3, <1>5
  <2> QED BY <1>9, <2>1, <2>2, Another
<1>11. /\ i \in Nat /\ offset \in Nat /\ o \in Nat /\ \A k \in 1 .. i : buff[k] \in 1 .. offset
  BY <1>1, <1>5 DEF Kept, Order
<1>12. CASE /\ d = 0 /\ one /\ buff' = Terminated(c, i + 1)
            /\ i' = 0 /\ parencount' = 0 /\ did_one' = FALSE /\ inquote' = "none"
            /\ at' = "list" /\ pos' = 0 /\ frames' = <<Call(0)>>
  <2>1. inquote = "none" /\ text[o] \in {"(", ")"}
    <3>1. CASE did_one
      <4>1. l # 0
        BY <1>2, <1>6, <3>1 DEF Reading
      <4> QED BY <1>7, <1>12, <4>1 DEF Depths
    <3>2. CASE ~did_one
      BY <1>3, <1>12, <3>2
    <3> QED BY <3>1, <3>2
  <2>2. o = offset + 1 /\ o \in Pieces(text, fancy)
    BY <1>5, <2>1
  <2>3. Lead(text, fancy, buff, i, offset)
    <3>1. ASSUME parencount = 0, ~did_one PROVE FALSE
      <4>1. text[o] = ")" /\ l = 0
        BY <1>3, <1>6, <1>12, <3>1
      <4> QED BY <1>7, <1>12, <2>1, <4>1 DEF Depths
    <3> QED BY <1>2, <3>1 DEF Reading
  <2>4. Quoted(inquote, text[o]) = "none"
    BY <2>1 DEF Quoted, Quotes
  <2>5. Scanning'
    <3>1. parencount' = Depth(text, fancy, o + 1)
      BY <1>7, <1>12
    <3>2. Place(text, fancy, o + 1, inquote')
      BY <1>5, <1>12, <2>4
    <3> QED BY <1>1, <1>3, <3>1, <3>2 DEF Scanning
  <2>6. Led(text, fancy, Terminated(c, i + 1), i + 1, o)
    <3>1. ASSUME Depth(text, fancy, offset + 1) >= 1
          PROVE  o = offset + 1 /\ o \in Pieces(text, fancy) /\ text[o] = ")" /\ Depth(text, fancy, o + 1) = 0
      <4>1. text[o] = ")"
        <5>1. text[o] # "("
          BY <1>6, <1>7, <1>12, <2>1, <3>1 DEF Depths
        <5> QED BY <2>1, <5>1
      <4> QED BY <1>7, <1>12, <2>2, <4>1
    <3>2. PICK t : t = Terminated(c, i + 1)
      OBVIOUS
    <3>3. \A k \in 1 .. i : t[k] = buff[k]
      BY <1>10, <3>2
    <3>4. Led(text, fancy, t, i + 1, o)
      BY <1>1, <1>11, <2>3, <3>1, <3>3, LeadEnds
    <3> QED BY <3>2, <3>4
  <2>7. Listing'
    <3>1. frames'[1].from = 0 /\ Len(frames') = 1
      BY <1>12 DEF Call
    <3>2. PICK m \in Nat : m = i + 1
      BY <1>11
    <3>3. PICK t : t = Terminated(c, m)
      OBVIOUS
    <3>4. Holds(t, m) /\ Led(text, fancy, t, m, o)
      BY <1>10, <2>6, <3>2, <3>3
    <3>5. buff' = t /\ text' = text /\ offset' = o /\ fancy' = fancy
      BY <1>1, <1>3, <1>12, <3>2, <3>3
    <3>6. Holds(buff, m)' /\ Led(text, fancy, buff, m, offset)'
      BY <3>4, <3>5 DEF Holds
    <3>7. \E n \in Nat : Holds(buff, n)' /\ Led(text, fancy, buff, n, offset)'
      BY <3>2, <3>6
    <3> QED BY <1>12, <3>1, <3>7 DEF Listing
  <2> QED BY <1>12, <2>5, <2>7
<1>13. CASE /\ ~(d = 0 /\ one) /\ buff' = c /\ i' = i + 1
            /\ parencount' = d /\ did_one' = one /\ inquote' = QuoteAfter(text[o])
            /\ at' = "read"
  <2>1. Scanning'
    <3>1. parencount' = Depth(text, fancy, o + 1) /\ Place(text, fancy, o + 1, inquote')
      BY <1>5, <1>7, <1>8, <1>13
    <3> QED BY <1>1, <1>3, <3>1 DEF Scanning
  <2>2. did_one' => parencount' # 0
    BY <1>13
  <2>3. CASE Lead(text, fancy, buff, i, offset)
    <3>1. ASSUME Depth(text, fancy, offset + 1) >= 1, NEW q \in offset + 2 .. o + 1
          PROVE  Depth(text, fancy, q) >= 1
      <4>1. CASE q \in offset + 1 .. o
        BY <1>5, <3>1, <4>1
      <4>2. CASE q = o + 1
        <5>1. d >= 1
          <6>1. CASE d = l - 1 /\ inquote = "none" /\ text[o] = ")"
            <7>1. d # 0
              BY <1>3, <1>13, <6>1
            <7> QED BY <1>6, <3>1, <6>1, <7>1
          <6>2. CASE d = l \/ d = l + 1
            BY <1>6, <3>1, <6>2
          <6> QED BY <1>7, <6>1, <6>2 DEF Depths
        <5> QED BY <1>7, <4>2, <5>1
      <4> QED BY <1>11, <3>1, <4>1, <4>2
    <3>2. \A k \in 1 .. i : c[k] = buff[k]
      BY <1>10
    <3>3. Lead(text, fancy, c, i + 1, o)
      BY <1>11, <2>3, <3>1, <3>2, LeadGoes
    <3>4. Lead(text', fancy', buff', i', offset')
      BY <1>1, <1>3, <1>13, <3>3
    <3> QED BY <1>13, <2>1, <2>2, <3>4 DEF Reading
  <2>4. CASE Idle(text, buff, i) /\ inquote = "none" /\ parencount = 0 /\ ~did_one
    <3>1. \A k \in 1 .. i : text[c[k]] \in Blank
      BY <1>10, <2>4 DEF Idle
    <3>2. l = 0 /\ c[i + 1] = o
      BY <1>6, <1>10, <2>4
    <3>3. CASE text[o] \in Blank
      <4>1. text[o] \notin Quotes /\ text[o] \notin {"(", ")"}
        BY <3>3 DEF Blank, Quotes
      <4>2. d = 0 /\ ~one /\ QuoteAfter(text[o]) = "none"
        BY <1>3, <1>7, <1>8, <2>4, <3>2, <4>1 DEF Depths, Quoted
      <4>3. Idle(text, c, i + 1)
        <5>1. \A k \in 1 .. i + 1 : k \in 1 .. i \/ k = i + 1
          BY <1>11
        <5> QED BY <3>1, <3>2, <3>3, <5>1 DEF Idle
      <4>4. Idle(text', buff', i')
        BY <1>1, <1>13, <4>3
      <4> QED BY <1>13, <2>1, <4>2, <4>4 DEF Reading
    <3>4. CASE text[o] \notin Blank
      <4>1. Heads(text, c, i + 1)
        <5>1. \A j \in 1 .. (i + 1) - 1 : j \in 1 .. i
          BY <1>11
        <5> QED BY <1>5, <2>4, <3>1, <3>2, <3>4, <5>1 DEF Heads
      <4>2. ASSUME text[o] = "(" PROVE Opened(text, fancy, o, o)
        <5>1. o = offset + 1 /\ o \in Opens(text, fancy)
          BY <1>5, <2>4, <4>2, LevelIs
        <5>2. Depth(text, fancy, o) = 0
          BY <1>6, <3>2, <5>1
        <5>3. Depth(text, fancy, o + 1) = 1
          BY <1>7, <2>4, <3>2, <4>2 DEF Depths
        <5>4. \A q \in o + 1 .. o + 1 : Depth(text, fancy, q) >= 1
          BY <1>11, <5>3
        <5> QED BY <5>1, <5>2, <5>4 DEF Opened
      <4>3. i + 1 \in 1 .. i + 1
        BY <1>11
      <4>4. Lead(text, fancy, c, i + 1, o)
        BY <3>2, <4>1, <4>2, <4>3 DEF Lead
      <4>5. Lead(text', fancy', buff', i', offset')
        BY <1>1, <1>3, <1>13, <4>4
      <4> QED BY <1>13, <2>1, <2>2, <4>5 DEF Reading
    <3> QED BY <3>3, <3>4
  <2> QED BY <1>2, <2>3, <2>4 DEF Reading
<1> QED BY <1>3, <1>9, <1>12, <1>13

(* The steps of parse_builtin: the outermost list stays the one it is.      *)
LEMMA ListingGoes ==
  ASSUME UNCHANGED <<reading, fancy>>, Listing, frames[1].from # 0, frames'[1].from = frames[1].from
  PROVE  Listing'
<1>1. /\ text' = text /\ fancy' = fancy /\ offset' = offset /\ i' = i /\ inquote' = inquote
      /\ parencount' = parencount /\ did_one' = did_one
  BY DEF reading
<1> QED BY <1>1 DEF Listing

LEMMA Outermost ==
  ASSUME frames \in Seq(Calls), frames # <<>>, Len(text) \in Nat, Listing
  PROVE  /\ Top.from # 0 \/ Len(frames) # 1 => frames[1].from # 0
         /\ Len(frames) = 1 => Top = frames[1]
         /\ \A c : Append(Under, c)[1] = IF Len(frames) = 1 THEN c ELSE frames[1]
         /\ Under # <<>> => \A c : c.from = Last(Under).from =>
              Append(Front(Under), c)[1].from = frames[1].from
<1>1. PICK n \in Nat : n = Len(frames) /\ n >= 1
  OBVIOUS
<1>2. PICK u : u = Under
  OBVIOUS
<1>3. /\ Top = frames[n] /\ u \in Seq(Calls) /\ Len(u) = n - 1
      /\ \A k \in 1 .. n - 1 : u[k] = frames[k]
      /\ u = <<>> <=> n = 1
  BY <1>1, <1>2, LastFront DEF Top, Under
<1>4. Top.from # 0 \/ n # 1 => frames[1].from # 0
  BY <1>1, <1>3 DEF Listing
<1>5. ASSUME NEW c PROVE Append(u, c)[1] = IF n = 1 THEN c ELSE frames[1]
  <2>1. CASE n = 1
    BY <1>3, <2>1
  <2>2. CASE n # 1
    BY <1>1, <1>3, <2>2
  <2> QED BY <2>1, <2>2
<1>6. ASSUME u # <<>>, NEW c, c.from = Last(u).from
      PROVE  Append(Front(u), c)[1].from = frames[1].from
  <2>1. PICK f : f = Front(u)
    OBVIOUS
  <2>2. /\ Last(u) = u[n - 1] /\ f \in Seq(Calls) /\ Len(f) = n - 2
        /\ \A k \in 1 .. n - 2 : f[k] = u[k]
        /\ n # 1
    <3>1. /\ Last(u) = u[Len(u)] /\ f \in Seq(Calls) /\ Len(f) = Len(u) - 1
          /\ \A k \in 1 .. Len(u) - 1 : f[k] = u[k]
      BY <1>3, <1>6, <2>1, LastFront
    <3>2. Len(u) = n - 1 /\ Len(u) - 1 = n - 2 /\ n # 1
      BY <1>1, <1>3, <1>6
    <3> QED BY <3>1, <3>2, Zenon
  <2>3. CASE n = 2
    <3>1. Append(f, c)[1] = c
      BY <2>2, <2>3
    <3>2. u[1] = frames[1]
      BY <1>3, <2>3
    <3> QED BY <1>6, <2>1, <2>2, <2>3, <3>1, <3>2
  <2>4. CASE n # 2
    <3>1. 1 \in 1 .. n - 2 /\ 1 \in 1 .. n - 1
      BY <1>1, <2>2, <2>4
    <3>2. Append(f, c)[1] = f[1]
      BY <2>2, <3>1
    <3> QED BY <1>3, <2>1, <2>2, <3>1, <3>2
  <2> QED BY <2>3, <2>4
<1> QED BY <1>1, <1>2, <1>3, <1>4, <1>5, <1>6

(* parse_builtin finds the parenthesis parse_file counted first.            *)
LEMMA ScanBegin ==
  ASSUME TypeInv, Begin, Listing
  PROVE  Listing'
<1>1. at = "list" /\ UNCHANGED <<reading, fancy>> /\ Top.from = 0 /\ Token.kind = "("
  BY DEF Begin, Plain
<1>2. /\ frames \in Seq(Calls) /\ frames # <<>> /\ Len(text) \in Nat /\ buff \in Seq(Cells)
      /\ Top \in Calls
  BY <1>1, ListTokens DEF TypeInv, ReadInv, Shape
<1>3. PICK c : c = [Top EXCEPT !.from = buff[Token.next]] /\ frames' = Append(Under, c)
  BY DEF Begin
<1>4. CASE Len(frames) # 1
  <2>1. frames[1].from # 0
    BY <1>2, <1>4, Outermost
  <2>2. frames'[1] = frames[1]
    BY <1>2, <1>3, <1>4, Outermost
  <2> QED BY <1>1, <2>1, <2>2, ListingGoes
<1>5. CASE Len(frames) = 1
  <2>1. frames[1] = Top /\ frames'[1] = c
    BY <1>2, <1>3, <1>5, Outermost
  <2>2. PICK n \in Nat : pos = 0 /\ Holds(buff, n) /\ Led(text, fancy, buff, n, offset)
    BY <1>1, <2>1 DEF Listing
  <2>3. PICK k \in 1 .. n : Heads(text, buff, k) /\ (text[buff[k]] = "(" => IsList(text, fancy, buff[k], offset))
    BY <2>2 DEF Led
  <2>4. \A j \in 0 .. n - 1 : Input(j) = text[buff[j + 1]]
    BY <1>2, <2>2, InputIs
  <2>5. k - 1 \in 0 .. n - 1 /\ (k - 1) + 1 = k
    OBVIOUS
  <2>6. Input(k - 1) = text[buff[k]] /\ \A j \in 0 .. (k - 1) - 1 : Input(j) \in Blank
    <3>1. \A j \in 0 .. (k - 1) - 1 : j \in 0 .. n - 1 /\ j + 1 \in 1 .. k - 1
      OBVIOUS
    <3> QED BY <2>3, <2>4, <2>5, <3>1 DEF Heads
  <2>7. Input(k - 1) \notin Blank \cup {"#"}
    BY <2>3, <2>6 DEF Heads
  <2>8. NextToken(0).kind = "("
    BY <1>1, <2>2 DEF Token
  <2>9. Input(k - 1) = "(" /\ NextToken(0).next = (k - 1) + 1
    BY <1>2, <2>2, <2>5, <2>6, <2>7, <2>8, FirstToken
  <2>10. Token.next = k /\ text[buff[k]] = "("
    BY <2>2, <2>5, <2>6, <2>9 DEF Token
  <2>11. c.from = buff[k] /\ buff[k] # 0
    <3>1. buff[k] \in 1 .. Len(text)
      BY <2>2 DEF Holds
    <3>2. c.from = buff[k]
      BY <1>2, <1>3, <2>10 DEF Calls
    <3> QED BY <1>2, <3>1, <3>2
  <2>12. IsList(text, fancy, frames'[1].from, offset) /\ frames'[1].from # 0
    BY <2>1, <2>3, <2>10, <2>11
  <2> QED BY <1>1, <2>12 DEF Listing, reading
<1> QED BY <1>4, <1>5

LEMMA ScanList ==
  ASSUME TypeInv, Scanning, Listing, Begin \/ AddWord \/ Nested \/ Complete
  PROVE  (Scanning /\ (at = "read" => Reading) /\ (at = "list" => Listing))'
<1>1. at = "list" /\ UNCHANGED <<reading, fancy>>
  BY DEF Begin, AddWord, Nested, Complete, Plain
<1>2. frames \in Seq(Calls) /\ frames # <<>> /\ Len(text) \in Nat /\ Top \in Calls /\ Under \in Seq(Calls)
  BY <1>1, ListTokens DEF TypeInv, ReadInv, Shape
<1>3. Scanning'
  BY <1>1 DEF Scanning, reading
<1>4. ASSUME at' = "read" PROVE Reading'
  <2>1. i' = 0 /\ inquote' = "none" /\ parencount' = 0 /\ ~did_one'
    BY <1>1 DEF Listing, reading
  <2>2. Idle(text', buff', i')
    BY <2>1 DEF Idle
  <2> QED BY <2>1, <2>2 DEF Reading
<1>5. CASE Begin
  <2>1. at' = "list"
    BY <1>1, <1>5 DEF Begin
  <2> QED BY <1>3, <1>5, <2>1, ScanBegin
<1>6. CASE AddWord
  <2>1. PICK word : word = Item("word", Token.chars, 0)
    OBVIOUS
  <2>2. PICK c : c = [Top EXCEPT !.items = Append(@, word)] /\ frames' = Append(Under, c)
    BY <1>6, <2>1 DEF AddWord
  <2>3. c.from = Top.from /\ Top.from # 0
    BY <1>2, <1>6, <2>2 DEF AddWord, Calls
  <2>4. frames[1].from # 0 /\ frames'[1].from = frames[1].from
    BY <1>2, <2>2, <2>3, Outermost
  <2> QED BY <1>1, <1>3, <1>4, <2>4, ListingGoes
<1>7. CASE Nested
  <2>1. frames[1].from # 0
    BY <1>2, <1>7, Outermost DEF Nested
  <2>2. PICK c : frames' = Append(frames, c)
    BY <1>7 DEF Nested
  <2>3. frames'[1] = frames[1]
    BY <1>2, <2>2
  <2> QED BY <1>1, <1>3, <1>4, <2>1, <2>3, ListingGoes
<1>8. CASE Complete
  <2>1. Top.from # 0
    BY <1>8 DEF Complete
  <2>2. PICK item : Given(item)
    BY <1>8, Zenon DEF Complete
  <2>3. CASE Under = <<>>
    <3>1. at' # "list"
      BY <2>2, <2>3 DEF Given
    <3> QED BY <1>3, <1>4, <3>1
  <2>4. CASE Under # <<>>
    <3>1. PICK c : c = [Last(Under) EXCEPT !.items = Append(@, item)] /\ frames' = Append(Front(Under), c)
      BY <2>2, <2>4 DEF Given
    <3>2. Last(Under) \in Calls
      BY <1>2, <2>4, LastFront
    <3>3. c.from = Last(Under).from
      BY <3>1, <3>2 DEF Calls
    <3>4. frames[1].from # 0 /\ frames'[1].from = frames[1].from
      BY <1>2, <2>1, <2>4, <3>1, <3>3, Outermost
    <3> QED BY <1>1, <1>3, <1>4, <3>4, ListingGoes
  <2> QED BY <2>3, <2>4
<1> QED BY <1>5, <1>6, <1>7, <1>8

LEMMA ScanNext ==
  ASSUME TypeInv, ScanInv, [Next]_vars
  PROVE  ScanInv'
<1> DEFINE Now == Scanning /\ (at = "read" => Reading) /\ (at = "list" => Listing)
<1> SUFFICES ASSUME entry' = "script"
             PROVE  /\ at' \in {"read", "list", "done", "undefined"}
                    /\ at' \in {"read", "list"} /\ ~failed' /\ ~OpenComment(text', fancy') => Now'
  BY DEF ScanInv
<1>1. CASE FileChar
  <2>1. at' \in {"read", "list"} /\ failed' = failed /\ UNCHANGED <<text, fancy>>
    BY <1>1, Zenon DEF FileChar
  <2>2. ReadInv
    BY DEF TypeInv
  <2> QED BY <1>1, <2>1, <2>2, ScanRead
<1>2. CASE Overrun \/ EndOfFile
  BY <1>2 DEF Overrun, EndOfFile
<1>3. CASE Begin \/ AddWord \/ Nested \/ Complete
  <2>1. at = "list" /\ UNCHANGED <<reading, fancy>> /\ failed' = failed
    BY <1>3 DEF Begin, AddWord, Nested, Complete, Plain
  <2>2. at' \in {"read", "list"}
    <3>1. CASE Complete
      <4>1. entry = "script"
        BY <2>1 DEF reading
      <4> QED BY <2>1, <3>1, <4>1, Zenon DEF Complete, Given
    <3>2. CASE Begin \/ AddWord \/ Nested
      BY <2>1, <3>2 DEF Begin, AddWord, Nested
    <3> QED BY <1>3, <3>1, <3>2
  <2>3. entry = "script" /\ UNCHANGED <<text, fancy>>
    BY <2>1 DEF reading
  <2>4. ASSUME ~failed, ~OpenComment(text, fancy) PROVE Now'
    <3>1. Scanning /\ Listing
      BY <2>1, <2>3, <2>4 DEF ScanInv
    <3> QED BY <1>3, <3>1, ScanList
  <2> QED BY <2>1, <2>2, <2>3, <2>4
<1>4. CASE GiveUp
  <2>1. at = "list" /\ failed' = TRUE /\ entry = "script"
    BY <1>4 DEF GiveUp, Plain, reading
  <2>2. at' \in {"read", "list"}
    BY <1>4, <2>1, Zenon DEF GiveUp, Given
  <2> QED BY <2>1, <2>2
<1>5. CASE UNCHANGED vars \/ Finished
  <2>1. UNCHANGED <<reading, fancy, at, frames, pos, failed>>
    BY <1>5 DEF vars, Finished
  <2>2. UNCHANGED <<text, fancy, entry, offset, buff, i, parencount, did_one, inquote, at, frames, pos, failed>>
    BY <2>1 DEF reading
  <2>3. Scanning' = Scanning
    BY <2>2 DEF Scanning
  <2>4. Reading' = Reading
    BY <2>2 DEF Reading
  <2>5. Listing' = Listing
    BY <2>2 DEF Listing, Holds
  <2> QED BY <2>2, <2>3, <2>4, <2>5 DEF ScanInv
<1>6. CASE LineChar \/ AfterList \/ Start \/ PipeWord \/ PipeNext \/ Redirect \/ PipeRun
             \/ PipeFail \/ SplitWord \/ SplitEnd
  <2>1. entry' = entry /\ (at \in {"after", "start", "stage", "split"} \/ entry = "line")
    BY <1>6 DEF LineChar, AfterList, Start, PipeWord, PipeNext, Redirect, PipeRun, PipeFail,
                SplitWord, SplitEnd, Plain, InPipe, reading
  <2> QED BY <2>1 DEF ScanInv
<1> QED BY <1>1, <1>2, <1>3, <1>4, <1>5, <1>6 DEF Next

(* For a script of any length, whatever is in it: as long as it has no      *)
(* error, when one of its lists is evaluated parse_file has read nothing of *)
(* the script beyond the parenthesis that closes the outermost list around  *)
(* it.  parse_file counts parentheses with its own idea of quotes and       *)
(* comments, parse_builtin goes by next_token's: they agree.                *)
THEOREM ReadsNoFurther == Spec => []LeavesTheRest
<1>1. TypeInv /\ [Next]_vars => TypeInv'
  BY ReadingTypes, ListTypes, PipeTypes, EndTypes DEF Next
<1>2. TypeInv /\ ScanInv /\ [Next]_vars => ScanInv'
  BY ScanNext
<1>3. TypeInv => ReadInv
  BY DEF TypeInv
<1>4. ScanInv => LeavesTheRest
  BY Zenon DEF ScanInv, Listing, LeavesTheRest
<1> QED BY TypeStart, ScanStart, <1>1, <1>2, <1>3, <1>4, PTL DEF Spec

-----------------------------------------------------------------------------
(* next_token among the pieces: the next token is the next piece            *)

(* Between two pieces, or between a piece and what means nothing.           *)
Edge(s, fy, b) == /\ Later(s, fy, b) = From(s, fy, b)
                  /\ \A p \in Pieces(s, fy) : p < b => After(s, fy, p) <= b

(* Nothing comes before the first position.                                 *)
LEMMA EdgeFirst ==
  ASSUME NEW s, NEW fy, Len(s) \in Nat
  PROVE  Edge(s, fy, 1) /\ Later(s, fy, 1) = Pieces(s, fy)
<1>1. Pieces(s, fy) = From(s, fy, 1) /\ Pieces(s, fy) \subseteq 1 .. Len(s)
  BY StartsFinite
<1>2. Later(s, fy, 1) = Pieces(s, fy)
  BY <1>1 DEF Later
<1>3. \A p \in Pieces(s, fy) : ~(p < 1)
  BY <1>1
<1> QED BY <1>1, <1>2, <1>3 DEF Edge

(* The position behind a piece, a blank or a comment is again an edge.      *)
LEMMA EdgeNext ==
  ASSUME NEW s, NEW fy, Len(s) \in Nat, NEW b \in 1 .. Len(s), Edge(s, fy, b)
  PROVE  /\ After(s, fy, b) \in b + 1 .. Len(s) + 2 /\ Edge(s, fy, After(s, fy, b))
         /\ Later(s, fy, After(s, fy, b)) = Later(s, fy, b) \ {b}
         /\ b \in Pieces(s, fy) <=> s[b] \notin Blank \cup {"#"}
<1>1. PICK a \in b + 1 .. Len(s) + 2 : a = After(s, fy, b)
  BY BehindRange
<1>2. Later(s, fy, b + 1) = From(s, fy, a) /\ (b \in Pieces(s, fy) <=> s[b] \notin Blank \cup {"#"})
  BY <1>1, First DEF Edge
<1>3. From(s, fy, a) \subseteq a .. Len(s) /\ Pieces(s, fy) \subseteq 1 .. Len(s)
  BY <1>1, PiecesBehind, StartsFinite
<1>4. \A q \in Pieces(s, fy) : q > b => q >= a
  <2> SUFFICES ASSUME NEW q \in Pieces(s, fy), q > b PROVE q >= a
    OBVIOUS
  <2>1. q \in Later(s, fy, b + 1)
    BY <1>3 DEF Later
  <2> QED BY <1>2, <1>3, <2>1
<1>5. Later(s, fy, a) = Later(s, fy, b + 1) /\ Later(s, fy, a) = Later(s, fy, b) \ {b}
  BY <1>1, <1>3, <1>4 DEF Later
<1>6. \A p \in Pieces(s, fy) : p < a => After(s, fy, p) <= a
  <2> SUFFICES ASSUME NEW p \in Pieces(s, fy), p < a PROVE After(s, fy, p) <= a
    OBVIOUS
  <2>1. p \in 1 .. Len(s) /\ p <= b
    BY <1>1, <1>3, <1>4
  <2>2. CASE p = b
    BY <1>1, <2>2
  <2>3. CASE p # b
    <3>1. After(s, fy, p) <= b /\ After(s, fy, p) \in Nat
      BY <2>1, <2>3, BehindRange DEF Edge
    <3> QED BY <1>1, <3>1
  <2> QED BY <2>2, <2>3
<1> QED BY <1>1, <1>2, <1>5, <1>6 DEF Edge

(* A word ends at the first character that stops it.                        *)
LEMMA WordEnds ==
  ASSUME NEW s, NEW fy, Len(s) \in Nat, NEW p \in 1 .. Len(s), NEW z \in p .. Len(s),
         \A j \in p .. z : s[j] \notin Stops(fy),
         z = Len(s) \/ s[z + 1] \in Stops(fy)
  PROVE  After(s, fy, p) = z + 1
<1>1. s[p] \notin Stops(fy) /\ p \in 1 .. Len(s) + 1
  OBVIOUS
<1>2. PICK u : u = Until(s, Stops(fy), p)
  OBVIOUS
<1>3. /\ u \in p .. Len(s) + 1 /\ \A j \in p .. u - 1 : s[j] \notin Stops(fy)
      /\ u <= Len(s) => s[u] \in Stops(fy)
  BY <1>1, <1>2, UntilIs
<1>4. After(s, fy, p) = u
  <2>1. s[p] \notin Quotes /\ s[p] # "#" /\ s[p] \notin (Blank \cup Special(fy)) \ (Quotes \cup {"#"})
    BY <1>1, MarksAre
  <2>2. Until(s, Blank \cup Special(fy), p) = u
    BY <1>2, Zenon DEF Stops
  <2> QED BY <2>1, <2>2, Zenon DEF After
<1>5. u > z
  BY <1>3
<1>6. u <= z + 1
  BY <1>3
<1> QED BY <1>3, <1>4, <1>5, <1>6

(* A comment ends at the first newline.                                     *)
LEMMA CommentEnds ==
  ASSUME NEW s, NEW fy, Len(s) \in Nat, NEW p \in 1 .. Len(s), s[p] = "#", NEW u \in p .. Len(s),
         \A j \in p .. u - 1 : s[j] # "\n", s[u] = "\n"
  PROVE  After(s, fy, p) = u
<1>1. p \in 1 .. Len(s) + 1
  OBVIOUS
<1>2. PICK v : v = Until(s, {"\n"}, p)
  OBVIOUS
<1>3. /\ v \in p .. Len(s) + 1 /\ \A j \in p .. v - 1 : s[j] \notin {"\n"}
      /\ v <= Len(s) => s[v] \in {"\n"}
  BY <1>1, <1>2, UntilIs
<1>4. After(s, fy, p) = v
  BY <1>2, BehindComment
<1>5. v <= u
  BY <1>3
<1>6. v >= u
  BY <1>3
<1> QED BY <1>3, <1>4, <1>5, <1>6

(* A quoted string ends at the same quote.                                  *)
LEMMA QuoteEnds ==
  ASSUME NEW s, NEW fy, Len(s) \in Nat, NEW p \in 1 .. Len(s), s[p] \in Quotes, NEW u \in p + 1 .. Len(s),
         \A j \in p + 1 .. u - 1 : s[j] # s[p], s[u] = s[p]
  PROVE  After(s, fy, p) = u + 1
<1> PICK a : a = After(s, fy, p)
  OBVIOUS
<1>1. /\ a \in p + 2 .. Len(s) + 2 /\ \A j \in p + 1 .. a - 2 : s[j] # s[p]
      /\ a - 1 <= Len(s) => s[a - 1] = s[p]
  BY BehindQuote
<1>2. a - 1 <= u
  BY <1>1
<1>3. a - 1 >= u
  BY <1>1
<1> QED BY <1>1, <1>2, <1>3

(* Induction over positions, from the first.                                *)
LEMMA Upward ==
  ASSUME NEW a \in Nat, NEW N \in Nat, NEW T,
         \A k \in a .. N : (\A j \in a .. k - 1 : j \in T) => k \in T
  PROVE  \A k \in a .. N : k \in T
<1> SUFFICES ASSUME \E k \in a .. N : k \notin T PROVE FALSE
  OBVIOUS
<1> DEFINE M == {m \in Nat : m >= a /\ m <= N /\ m \notin T}
<1>1. PICK k \in a .. N : k \notin T
  OBVIOUS
<1>2. k \in M
  BY <1>1
<1>3. PICK m \in M : \A y \in M : m <= y
  <2>1. M \in SUBSET Nat
    OBVIOUS
  <2> HIDE DEF M
  <2> QED BY <1>2, <2>1, Least
<1>4. \A j \in a .. m - 1 : j \in T
  BY <1>3
<1> QED BY <1>3, <1>4

(* The buffer a parser reads holds the characters of the text one after     *)
(* another, except for the comments that parse_file leaves out.             *)
Follows(cur, q) == \/ q = cur
                   \/ /\ cur \in 1 .. Len(text) /\ text[cur] = "#" /\ Edge(text, fancy, cur)
                      /\ q = After(text, fancy, cur)
Readable(n) == /\ Len(text) \in Nat /\ buff \in Seq(Cells) /\ n \in Nat /\ Holds(buff, n)
               /\ entry # "split" /\ \A k \in 1 .. Len(text) : text[k] # End
               /\ \A j \in 1 .. n - 1 : Follows(buff[j] + 1, buff[j + 1])
               /\ n > 0 => buff[n] = Len(text) \/ text[buff[n]] \in Stops(fancy)

(* The parsers have read k characters of the buffer, and everything of the  *)
(* text before cur; no word is cut there.                                   *)
Bound(n, k, cur) ==
  /\ k \in 0 .. n /\ cur \in 1 .. Len(text) + 1 /\ Edge(text, fancy, cur)
  /\ k < n => Follows(cur, buff[k + 1])
  /\ k > 0 => cur = buff[k] + 1
  /\ k > 0 /\ k < n => text[buff[k]] \in Stops(fancy) \/ text[buff[k + 1]] \in Stops(fancy)

(* Inside the buffer a character is read, behind it the end.                *)
LEMMA Inputs ==
  ASSUME NEW n \in Nat, Readable(n)
  PROVE  /\ Len(text) \in Nat /\ buff \in Seq(Cells) /\ Holds(buff, n) /\ Input(n) = End
         /\ \A j \in 1 .. n : buff[j] \in 1 .. Len(text)
         /\ \A j \in 0 .. n - 1 : /\ buff[j + 1] \in 1 .. Len(text)
                                 /\ Input(j) = text[buff[j + 1]] /\ Input(j) # End
<1>1. Len(text) \in Nat /\ buff \in Seq(Cells) /\ Holds(buff, n)
  BY DEF Readable
<1>2. Input(n) = End /\ \A j \in 0 .. n - 1 : Input(j) = text[buff[j + 1]]
  BY <1>1, InputIs
<1>3. \A j \in 1 .. n : buff[j] \in 1 .. Len(text)
  BY <1>1 DEF Holds
<1>4. \A j \in 0 .. n - 1 : j + 1 \in 1 .. n
  OBVIOUS
<1>5. \A j \in 0 .. n - 1 : text[buff[j + 1]] # End
  BY <1>3, <1>4 DEF Readable
<1> QED BY <1>1, <1>2, <1>3, <1>4, <1>5

(* Behind a character of the buffer, where no word is cut.                  *)
LEMMA BoundIs ==
  ASSUME NEW n \in Nat, Readable(n), NEW j \in 1 .. n, NEW a, a = buff[j] + 1, Edge(text, fancy, a),
         j < n => text[buff[j]] \in Stops(fancy) \/ text[buff[j + 1]] \in Stops(fancy)
  PROVE  Bound(n, j, a)
<1>1. buff[j] \in 1 .. Len(text)
  BY DEF Readable, Holds
<1>2. j < n => Follows(a, buff[j + 1])
  BY DEF Readable
<1> QED BY <1>1, <1>2 DEF Bound, Readable

(* The next character, with the comment before it.                          *)
LEMMA NextInput ==
  ASSUME NEW n \in Nat, Readable(n), NEW k, NEW cur, Bound(n, k, cur), k < n, NEW q, q = buff[k + 1]
  PROVE  /\ q \in 1 .. Len(text) /\ q >= cur /\ Input(k) = text[q] /\ text[q] # End
         /\ Edge(text, fancy, q) /\ Later(text, fancy, q) = Later(text, fancy, cur)
         /\ text[q] # "\n" => q = cur
<1>1. k \in 0 .. n - 1 /\ n \in Nat /\ Len(text) \in Nat /\ buff \in Seq(Cells) /\ Holds(buff, n)
  BY DEF Bound, Readable
<1>2. q \in 1 .. Len(text)
  BY <1>1 DEF Holds
<1>3. Input(k) = text[q]
  BY <1>1, InputIs
<1>4. text[q] # End
  BY <1>2 DEF Readable
<1>5. CASE q = cur
  BY <1>2, <1>3, <1>4, <1>5 DEF Bound
<1>6. CASE q # cur
  <2>1. /\ cur \in 1 .. Len(text) /\ text[cur] = "#" /\ Edge(text, fancy, cur)
        /\ q = After(text, fancy, cur)
    BY <1>6 DEF Bound, Follows
  <2>2. text[q] = "\n" /\ q >= cur
    BY <1>1, <1>2, <2>1, BehindComment
  <2>3. /\ Edge(text, fancy, q) /\ cur \notin Pieces(text, fancy)
        /\ Later(text, fancy, q) = Later(text, fancy, cur) \ {cur}
    <3>1. /\ Edge(text, fancy, After(text, fancy, cur))
          /\ Later(text, fancy, After(text, fancy, cur)) = Later(text, fancy, cur) \ {cur}
          /\ cur \in Pieces(text, fancy) <=> text[cur] \notin Blank \cup {"#"}
      BY <1>1, <2>1, EdgeNext
    <3> QED BY <2>1, <3>1
  <2>4. Later(text, fancy, q) = Later(text, fancy, cur)
    BY <2>3 DEF Later
  <2> QED BY <1>2, <1>3, <1>4, <2>2, <2>3, <2>4
<1> QED BY <1>5, <1>6

(* The characters next_token stops at are those of the syntax.              *)
LEMMA SpecialIs ==
  ASSUME NEW n \in Nat, Readable(n), NEW c, c # End
  PROVE  /\ IsSpecial(c) <=> c \in Special(fancy)
         /\ Other(c) /\ IsSpecial(c) <=> c \in Marks(fancy)
         /\ Other(c) /\ ~IsSpecial(c) <=> c \notin Stops(fancy)
         /\ c \in Quotes \cup Blank \cup {"#"} \/ IsSpecial(c) <=> c \in Stops(fancy)
<1>1. IsSpecial(c) <=> c \in Special(fancy)
  BY DEF IsSpecial, Readable
<1> QED BY <1>1, MarksAre DEF Other

(* The turns of next_token, exactly.                                        *)
LEMMA WordTurn ==
  ASSUME NEW n \in Nat, Readable(n), NEW r, NEW k, NEW w, Input(k) # End
  PROVE  Turn(r, k, "word", w) = IF Input(k) \in Stops(fancy) THEN Tok("word", w, k, k, FALSE)
                                 ELSE r["word"][w]
<1>1. Turn(r, k, "word", w) =
        IF Input(k) \in Quotes \cup Blank \cup {"#"} \/ IsSpecial(Input(k))
        THEN Tok("word", w, k, k, FALSE) ELSE r["word"][w]
  BY DEF Turn, Quotes
<1> QED BY <1>1, SpecialIs

LEMMA QuoteTurn ==
  ASSUME NEW r, NEW k, NEW mode \in Quotes, NEW w, Input(k) # End
  PROVE  Turn(r, k, mode, w) \in
           IF Input(k) = mode THEN {Tok("word", w, k, k + 1, FALSE)} ELSE {r[mode][w]}
BY DEF Turn, Quotes

LEMMA LetterTurn ==
  ASSUME NEW n \in Nat, Readable(n), NEW r, NEW k, NEW w, Input(k) # End, Input(k) \notin Stops(fancy),
         k = 0 \/ (Input(k - 1) # End /\ Input(k - 1) \in Stops(fancy))
  PROVE  Turn(r, k, "skip", w) = r["word"][k]
<1>1. Other(Input(k)) /\ ~IsSpecial(Input(k))
  BY SpecialIs
<1>2. k = 0 \/ Input(k - 1) \in Blank \/ IsSpecial(Input(k - 1))
  <2>1. ASSUME Input(k - 1) # End, Input(k - 1) \in Stops(fancy)
        PROVE  Input(k - 1) \in Blank \/ IsSpecial(Input(k - 1))
    <3>1. Input(k - 1) \in Blank \cup Special(fancy)
      BY <2>1 DEF Stops
    <3> QED BY <2>1, <3>1, SpecialIs
  <2> QED BY <2>1
<1>3. Turn(r, k, "skip", w) = Skip(r, k, w)
  BY DEF Turn, Quotes
<1>4. Skip(r, k, w) = IF k = 0 \/ Input(k - 1) \in Blank \/ IsSpecial(Input(k - 1))
                      THEN r["word"][k] ELSE r["skip"][w]
  BY <1>1, Zenon DEF Skip, Other
<1> QED BY <1>2, <1>3, <1>4

(* What grows by one at each index is the first value and the distance.     *)
LEMMA Consecutive ==
  ASSUME NEW f, NEW a \in Nat, NEW z \in Nat, f[a] \in Nat,
         \A j \in a + 1 .. z : (\A x \in a .. j - 1 : f[x] = f[a] + x - a) => f[j] = f[j - 1] + 1
  PROVE  \A j \in a .. z : f[j] = f[a] + j - a
<1> DEFINE T == {j \in a .. z : f[j] = f[a] + j - a}
<1>1. ASSUME NEW k \in a .. z, \A j \in a .. k - 1 : j \in T
      PROVE  k \in T
  <2>1. CASE k = a
    BY <2>1
  <2>2. CASE k # a
    <3>1. k \in a + 1 .. z /\ k - 1 \in a .. k - 1
      BY <2>2
    <3>2. f[k] = f[k - 1] + 1 /\ f[k - 1] = f[a] + (k - 1) - a
      BY <1>1, <3>1
    <3> QED BY <3>2
  <2> QED BY <2>1, <2>2
<1>2. \A k \in a .. z : k \in T
  <2> HIDE DEF T
  <2> QED BY <1>1, Upward
<1> QED BY <1>2

(* next_token in a word: it starts at k and ends before m, as in the text.  *)
LEMMA WordRun ==
  ASSUME NEW n \in Nat, Readable(n), NEW k \in 0 .. n - 1, NEW p, buff[k + 1] = p,
         text[p] \notin Stops(fancy)
  PROVE  \E m \in k + 1 .. n :
           /\ \A j \in k + 1 .. m : buff[j] = p + j - (k + 1)
           /\ \A j \in k .. m - 1 : Input(j) \notin Stops(fancy)
           /\ m < n => Input(m) \in Stops(fancy)
<1>1. Len(text) \in Nat
  BY Inputs
<1>2. \A j \in 0 .. n - 1 : Input(j) = text[buff[j + 1]] /\ buff[j + 1] \in 1 .. Len(text)
  BY Inputs
<1> DEFINE M == {j \in k + 1 .. n : j < n => Input(j) \in Stops(fancy)}
<1>3. PICK m \in M : \A y \in M : m <= y
  <2>1. M \in SUBSET Nat /\ n \in M
    BY <1>1
  <2> HIDE DEF M
  <2> QED BY <2>1, Least
<1>4. \A j \in k .. m - 1 : Input(j) \notin Stops(fancy)
  <2> SUFFICES ASSUME NEW j \in k .. m - 1 PROVE Input(j) \notin Stops(fancy)
    OBVIOUS
  <2>1. CASE j = k
    BY <1>1, <1>2, <2>1
  <2>2. CASE j # k
    BY <1>1, <1>3, <2>2
  <2> QED BY <2>1, <2>2
<1>5. ASSUME NEW j \in k + 2 .. m PROVE buff[j] = buff[j - 1] + 1
  <2>1. j - 1 \in 1 .. n - 1 /\ j - 1 \in k .. m - 1 /\ j - 1 \in 0 .. n - 1 /\ (j - 1) + 1 = j
    BY <1>1, <1>3
  <2>2. Follows(buff[j - 1] + 1, buff[j])
    <3>1. Follows(buff[j - 1] + 1, buff[(j - 1) + 1])
      BY <2>1 DEF Readable
    <3> QED BY <2>1, <3>1
  <2>3. text[buff[j]] \notin Stops(fancy)
    <3>1. Input(j - 1) = text[buff[j]] /\ Input(j - 1) \notin Stops(fancy)
      BY <1>2, <1>4, <2>1
    <3> QED BY <3>1
  <2>4. buff[j] \in 1 .. Len(text)
    BY <1>2, <2>1
  <2>5. ASSUME NEW x \in 1 .. Len(text), text[x] = "#", buff[j] = After(text, fancy, x) PROVE FALSE
    <3>1. text[buff[j]] = "\n"
      BY <1>1, <2>4, <2>5, BehindComment
    <3> QED BY <2>3, <3>1, MarksAre DEF Blank
  <2> QED BY <2>2, <2>5 DEF Follows
<1>6. \A j \in k + 1 .. m : buff[j] = p + j - (k + 1)
  <2>1. PICK a \in Nat : a = k + 1
    OBVIOUS
  <2>2. m \in Nat /\ buff[a] \in Nat
    <3>1. buff[k + 1] \in 1 .. Len(text)
      BY <1>2
    <3>2. buff[a] \in Nat
      BY <1>1, <2>1, <3>1
    <3> QED BY <1>3, <3>2
  <2>3. \A j \in a + 1 .. m : buff[j] = buff[j - 1] + 1
    BY <1>5, <2>1
  <2>4. \A j \in a .. m : buff[j] = buff[a] + j - a
    BY <2>2, <2>3, Consecutive
  <2> QED BY <2>1, <2>4
<1> QED BY <1>3, <1>4, <1>6

(* The word that next_token cuts out of the buffer is that of the text.     *)
LEMMA WordToken ==
  ASSUME NEW n \in Nat, Readable(n), NEW k \in 0 .. n - 1, NEW m \in k + 1 .. n, NEW w \in Nat,
         \A j \in k .. m - 1 : Input(j) \notin Stops(fancy),
         m < n => Input(m) \in Stops(fancy)
  PROVE  Tokens[k + 1]["word"][w] = Tok("word", w, m, m, FALSE)
<1>1. Len(text) \in Nat /\ buff \in Seq(Cells) /\ Holds(buff, n) /\ Input(n) = End
  BY Inputs
<1>2. \A j \in 0 .. n - 1 : Input(j) # End
  BY Inputs
<1> DEFINE T == {j \in k + 1 .. m : Tokens[j]["word"][w] = Tok("word", w, m, m, FALSE)}
<1>3. ASSUME NEW j \in k + 1 .. m, \A x \in j + 1 .. m : x \in T
      PROVE  j \in T
  <2>1. PICK r : r = Tokens[j + 1]
    OBVIOUS
  <2>2. Tokens[j]["word"][w] = Turn(r, j, "word", w)
    <3>1. j \in 0 .. n
      BY <1>1
    <3> QED BY <1>1, <2>1, <3>1, TokensAre DEF Modes
  <2>3. CASE j = m /\ m = n
    <3>1. Input(j) = End
      BY <1>1, <2>3
    <3>2. Turn(r, j, "word", w) = EndToken(j, "word", w)
      BY <3>1, TurnEnd
    <3>3. EndToken(j, "word", w) = Tok("word", w, j, j, FALSE)
      BY Zenon DEF EndToken
    <3> QED BY <2>2, <2>3, <3>2, <3>3
  <2>4. CASE j = m /\ m # n
    <3>1. Input(j) # End /\ Input(j) \in Stops(fancy)
      BY <1>1, <1>2, <2>4
    <3> QED BY <2>2, <2>4, <3>1, WordTurn
  <2>5. CASE j # m
    <3>1. j \in k .. m - 1 /\ j \in 0 .. n - 1 /\ j + 1 \in j + 1 .. m
      BY <1>1, <2>5
    <3>2. Input(j) # End /\ Input(j) \notin Stops(fancy)
      BY <1>2, <3>1
    <3>3. Turn(r, j, "word", w) = r["word"][w]
      BY <3>2, WordTurn
    <3>4. j + 1 \in T
      BY <1>3, <3>1
    <3> QED BY <2>1, <2>2, <3>3, <3>4
  <2> QED BY <2>3, <2>4, <2>5
<1>4. \A j \in k + 1 .. m : j \in T
  <2> HIDE DEF T
  <2>1. k + 1 \in Nat /\ m \in Nat
    BY <1>1
  <2> QED BY <1>3, <2>1, Downward
<1>5. k + 1 \in k + 1 .. m
  OBVIOUS
<1>6. k + 1 \in T
  <2> HIDE DEF T
  <2> QED BY <1>4, <1>5
<1> QED BY <1>6

(* next_token in a quoted string.                                           *)
LEMMA QuoteToken ==
  ASSUME NEW n \in Nat, Readable(n), NEW k \in 0 .. n - 1, NEW c \in Quotes, NEW w \in Nat,
         NEW m \in k + 1 .. n,
         \A j \in k + 1 .. m - 1 : Input(j) # c,
         m < n => Input(m) = c
  PROVE  Tokens[k + 1][c][w] \in IF m = n THEN {Tok(End, n, n, n, TRUE)} ELSE {Tok("word", w, m, m + 1, FALSE)}
<1>1. Len(text) \in Nat /\ buff \in Seq(Cells) /\ Holds(buff, n) /\ Input(n) = End
  BY Inputs
<1>2. \A j \in 0 .. n - 1 : Input(j) # End
  BY Inputs
<1> PICK t : t = IF m = n THEN Tok(End, n, n, n, TRUE) ELSE Tok("word", w, m, m + 1, FALSE)
  OBVIOUS
<1> DEFINE T == {j \in k + 1 .. m : Tokens[j][c][w] = t}
<1>3. ASSUME NEW j \in k + 1 .. m, \A x \in j + 1 .. m : x \in T
      PROVE  j \in T
  <2>1. PICK r : r = Tokens[j + 1]
    OBVIOUS
  <2>2. Tokens[j][c][w] = Turn(r, j, c, w)
    <3>1. j \in 0 .. n
      BY <1>1
    <3> QED BY <1>1, <2>1, <3>1, TokensAre DEF Modes
  <2>3. CASE j = m /\ m = n
    <3>1. Input(j) = End
      BY <1>1, <2>3
    <3>2. Turn(r, j, c, w) = EndToken(j, c, w)
      BY <3>1, TurnEnd
    <3>3. c # "word" /\ (c \in Quotes) = TRUE
      BY DEF Quotes
    <3>4. EndToken(j, c, w) = Tok(End, j, j, j, TRUE)
      BY <3>3, Zenon DEF EndToken
    <3> QED BY <2>2, <2>3, <3>2, <3>4
  <2>4. CASE j = m /\ m # n
    <3>1. Input(j) # End /\ Input(j) = c
      BY <1>1, <1>2, <2>4
    <3>2. Turn(r, j, c, w) = Tok("word", w, j, j + 1, FALSE)
      BY <3>1, QuoteTurn
    <3> QED BY <2>2, <2>4, <3>2
  <2>5. CASE j # m
    <3>1. j \in k + 1 .. m - 1 /\ j \in 0 .. n - 1 /\ j + 1 \in j + 1 .. m
      BY <1>1, <2>5
    <3>2. Input(j) # End /\ Input(j) # c
      BY <1>2, <3>1
    <3>3. Turn(r, j, c, w) = r[c][w]
      <4>1. Turn(r, j, c, w) \in {r[c][w]}
        BY <3>2, QuoteTurn
      <4> QED BY <4>1
    <3>4. j + 1 \in T
      BY <1>3, <3>1
    <3> QED BY <2>1, <2>2, <3>3, <3>4
  <2> QED BY <2>3, <2>4, <2>5
<1>4. \A j \in k + 1 .. m : j \in T
  <2> HIDE DEF T
  <2>1. k + 1 \in Nat /\ m \in Nat
    BY <1>1
  <2> QED BY <1>3, <2>1, Downward
<1>5. k + 1 \in k + 1 .. m
  OBVIOUS
<1>6. k + 1 \in T
  <2> HIDE DEF T
  <2> QED BY <1>4, <1>5
<1> QED BY <1>6

(* The index after one inside the quote names the position before.          *)
LEMMA InsideQuote ==
  ASSUME NEW p \in Nat, NEW k \in Nat, NEW a \in Nat, a = k + 1, NEW j \in Nat, NEW m \in Nat, j <= m + 1,
         j >= a + 1, NEW x \in Nat, NEW e \in Nat, x = p + j - a, e - 1 >= p + 1, e - 1 < x
  PROVE  \E y \in k + 1 .. m - 1 : y + 1 \in a .. j - 1 /\ p + (y + 1) - a = e - 1
<1> PICK y \in Nat : y = (e - 1) - p + k
  OBVIOUS
<1>1. y \in k + 1 .. m - 1 /\ y + 1 \in a .. j - 1 /\ p + (y + 1) - a = e - 1
  OBVIOUS
<1> QED BY <1>1

(* The text inside a quoted string is in the buffer as it is.               *)
LEMMA QuoteRun ==
  ASSUME NEW n \in Nat, Readable(n), NEW k \in 0 .. n - 1, NEW p, buff[k + 1] = p,
         text[p] \in Quotes, Edge(text, fancy, p), NEW m \in k + 1 .. n - 1,
         \A j \in k + 1 .. m - 1 : Input(j) # text[p]
  PROVE  \A j \in k + 1 .. m + 1 : buff[j] = p + j - (k + 1)
<1>1. Len(text) \in Nat
  BY Inputs
<1>2. \A j \in 0 .. n - 1 : Input(j) = text[buff[j + 1]] /\ buff[j + 1] \in 1 .. Len(text)
  BY Inputs
<1>3. p \in 1 .. Len(text) /\ p \in Nat
  <2>1. buff[k + 1] \in 1 .. Len(text)
    BY <1>2
  <2> QED BY <1>1, <2>1
<1> PICK a \in Nat : a = k + 1
  OBVIOUS
<1> PICK z \in Nat : z = m + 1 /\ z > a
  OBVIOUS
<1>4. p \in Pieces(text, fancy)
  <2>1. text[p] \notin Blank \cup {"#"}
    BY DEF Blank, Quotes
  <2> QED BY <1>1, <1>3, <2>1, EdgeNext
<1>5. ASSUME NEW j \in a + 1 .. z, \A x \in a .. j - 1 : buff[x] = buff[a] + x - a
      PROVE  buff[j] = buff[j - 1] + 1
  <2>1. j - 1 \in 1 .. n - 1 /\ j - 1 \in a .. j - 1 /\ (j - 1) + 1 = j
    OBVIOUS
  <2>2. Follows(buff[j - 1] + 1, buff[j])
    <3>1. Follows(buff[j - 1] + 1, buff[(j - 1) + 1])
      BY <2>1 DEF Readable
    <3> QED BY <2>1, <3>1
  <2>3. ASSUME NEW x \in 1 .. Len(text), text[x] = "#", Edge(text, fancy, x), x = buff[j - 1] + 1
        PROVE  FALSE
    <3>1. x = p + j - a /\ x > p
      BY <1>3, <1>5, <2>1, <2>3
    <3>2. After(text, fancy, p) <= x
      BY <1>4, <2>3, <3>1 DEF Edge
    <3>3. PICK e \in p + 2 .. Len(text) + 2 : e = After(text, fancy, p)
      BY <1>1, <1>3, BehindQuote
    <3>4. e - 1 <= Len(text) => text[e - 1] = text[p]
      BY <1>1, <1>3, <3>3, BehindQuote
    <3>5. e - 1 <= Len(text) /\ e - 1 >= p + 1 /\ e - 1 < x
      BY <1>1, <1>3, <3>1, <3>2, <3>3
    <3>6. \E y \in k + 1 .. m - 1 : y + 1 \in a .. j - 1 /\ p + (y + 1) - a = e - 1
      <4>1. p \in Nat /\ e \in Nat /\ x \in Nat /\ j \in Nat /\ m \in Nat /\ k \in Nat /\ a \in Nat
        BY <1>1, <1>3
      <4>2. a = k + 1 /\ j >= a + 1 /\ j <= m + 1 /\ x = p + j - a /\ e - 1 >= p + 1 /\ e - 1 < x
        BY <3>1, <3>5
      <4> QED BY <4>1, <4>2, InsideQuote
    <3>7. PICK y \in k + 1 .. m - 1 : y + 1 \in a .. j - 1 /\ p + (y + 1) - a = e - 1
      BY <3>6
    <3>9. buff[y + 1] = e - 1
      BY <1>5, <3>7
    <3>10. Input(y) = text[e - 1]
      <4>1. y \in 0 .. n - 1
        BY <3>7
      <4> QED BY <1>2, <3>9, <4>1
    <3> QED BY <3>4, <3>5, <3>7, <3>10
  <2> QED BY <2>2, <2>3 DEF Follows
<1> DEFINE T == {j \in a .. z : buff[j] = buff[a] + j - a}
<1>6. ASSUME NEW j \in a .. z, \A x \in a .. j - 1 : x \in T
      PROVE  j \in T
  <2>1. CASE j = a
    BY <1>3, <2>1
  <2>2. CASE j # a
    <3>1. j \in a + 1 .. z /\ j - 1 \in a .. j - 1 /\ \A x \in a .. j - 1 : buff[x] = buff[a] + x - a
      BY <1>6, <2>2
    <3>2. buff[j] = buff[j - 1] + 1
      BY <1>5, <3>1
    <3>3. PICK v \in Nat : v = buff[a]
      BY <1>3
    <3>4. buff[j - 1] = v + (j - 1) - a
      BY <3>1, <3>3
    <3>5. buff[j] = v + j - a
      BY <3>2, <3>3, <3>4
    <3> QED BY <3>1, <3>3, <3>5
  <2> QED BY <2>1, <2>2
<1>7. \A j \in a .. z : j \in T
  <2> HIDE DEF T
  <2> QED BY <1>6, Upward
<1> QED BY <1>3, <1>7

(* The first character of a set, or the end of the buffer.                  *)
LEMMA FirstOf ==
  ASSUME NEW a \in Nat, NEW n \in Nat, a <= n, NEW S
  PROVE  \E m \in a .. n : (m < n => Input(m) \in S) /\ \A j \in a .. m - 1 : Input(j) \notin S
<1> DEFINE M == {j \in a .. n : j < n => Input(j) \in S}
<1>1. PICK m \in M : \A y \in M : m <= y
  <2>1. M \in SUBSET Nat /\ n \in M
    OBVIOUS
  <2> HIDE DEF M
  <2> QED BY <2>1, Least
<1> QED BY <1>1

(* next_token in a comment.                                                 *)
LEMMA CommentToken ==
  ASSUME NEW n \in Nat, Readable(n), NEW k \in 0 .. n - 1, NEW w \in Nat, NEW m \in k + 1 .. n,
         \A j \in k + 1 .. m - 1 : Input(j) # "\n", m < n => Input(m) = "\n"
  PROVE  IF m = n THEN Tokens[k + 1]["comment"][w].kind = End
         ELSE Tokens[k + 1]["comment"][w] = Tokens[m + 1]["skip"][w]
<1>1. Len(text) \in Nat /\ buff \in Seq(Cells) /\ Holds(buff, n) /\ Input(n) = End
  BY Inputs
<1>2. \A j \in 0 .. n - 1 : Input(j) # End
  BY Inputs
<1> DEFINE G(t) == IF m = n THEN t.kind = End ELSE t = Tokens[m + 1]["skip"][w]
<1> DEFINE T == {j \in k + 1 .. m : G(Tokens[j]["comment"][w])}
<1>3. ASSUME NEW j \in k + 1 .. m, \A x \in j + 1 .. m : x \in T
      PROVE  j \in T
  <2>1. PICK r : r = Tokens[j + 1]
    OBVIOUS
  <2>2. Tokens[j]["comment"][w] = Turn(r, j, "comment", w)
    <3>1. j \in 0 .. n
      BY <1>1
    <3> QED BY <1>1, <2>1, <3>1, TokensAre DEF Modes
  <2>3. CASE j = m /\ m = n
    <3>1. Input(j) = End
      BY <1>1, <2>3
    <3>2. Turn(r, j, "comment", w) = EndToken(j, "comment", w)
      BY <3>1, TurnEnd
    <3>3. EndToken(j, "comment", w).kind = End
      <4>1. EndToken(j, "comment", w) = Tok(End, j, j, j, "comment" \in Quotes)
        BY Zenon DEF EndToken
      <4> QED BY <4>1 DEF Tok
    <3> QED BY <2>2, <2>3, <3>2, <3>3
  <2>4. CASE j = m /\ m # n
    <3>1. Input(j) # End /\ Input(j) = "\n"
      BY <1>1, <1>2, <2>4
    <3>2. Turn(r, j, "comment", w) = r["skip"][w]
      BY <3>1, TurnComment
    <3> QED BY <2>1, <2>2, <2>4, <3>2
  <2>5. CASE j # m
    <3>1. j \in k + 1 .. m - 1 /\ j \in 0 .. n - 1 /\ j + 1 \in j + 1 .. m
      BY <1>1, <2>5
    <3>2. Input(j) # End /\ Input(j) # "\n"
      BY <1>2, <3>1
    <3>3. Turn(r, j, "comment", w) = r["comment"][w]
      BY <3>2, TurnComment
    <3>4. j + 1 \in T
      BY <1>3, <3>1
    <3> QED BY <2>1, <2>2, <3>3, <3>4
  <2> QED BY <2>3, <2>4, <2>5
<1>4. \A j \in k + 1 .. m : j \in T
  <2> HIDE DEF T
  <2>1. k + 1 \in Nat /\ m \in Nat
    BY <1>1
  <2> QED BY <1>3, <2>1, Downward
<1>5. k + 1 \in k + 1 .. m
  OBVIOUS
<1>6. k + 1 \in T
  <2> HIDE DEF T
  <2> QED BY <1>4, <1>5
<1> QED BY <1>6

(* The newline that ends a comment in the buffer is the one that ends it in *)
(* the text.                                                                *)
LEMMA CommentRun ==
  ASSUME NEW n \in Nat, Readable(n), NEW k \in 0 .. n - 1, NEW p, buff[k + 1] = p, text[p] = "#",
         NEW m \in k + 1 .. n - 1, \A j \in k + 1 .. m - 1 : Input(j) # "\n", Input(m) = "\n"
  PROVE  buff[m + 1] = After(text, fancy, p)
<1>1. Len(text) \in Nat
  BY Inputs
<1>2. \A j \in 0 .. n - 1 : Input(j) = text[buff[j + 1]] /\ buff[j + 1] \in 1 .. Len(text)
  BY Inputs
<1>3. p \in 1 .. Len(text) /\ p \in Nat
  <2>1. buff[k + 1] \in 1 .. Len(text)
    BY <1>2
  <2> QED BY <1>1, <2>1
<1> PICK a \in Nat : a = k + 1
  OBVIOUS
<1>4. ASSUME NEW j \in a + 1 .. m PROVE buff[j] = buff[j - 1] + 1
  <2>1. j - 1 \in 1 .. n - 1 /\ j - 1 \in a .. m - 1 /\ (j - 1) + 1 = j /\ j - 1 \in 0 .. n - 1
    OBVIOUS
  <2>2. Follows(buff[j - 1] + 1, buff[j])
    <3>1. Follows(buff[j - 1] + 1, buff[(j - 1) + 1])
      BY <2>1 DEF Readable
    <3> QED BY <2>1, <3>1
  <2>3. text[buff[j]] # "\n" /\ buff[j] \in 1 .. Len(text)
    <3>1. Input(j - 1) = text[buff[j]] /\ buff[j] \in 1 .. Len(text)
      BY <1>2, <2>1
    <3>2. Input(j - 1) # "\n"
      BY <2>1
    <3> QED BY <3>1, <3>2
  <2>4. ASSUME NEW x \in 1 .. Len(text), text[x] = "#", buff[j] = After(text, fancy, x) PROVE FALSE
    BY <1>1, <2>3, <2>4, BehindComment
  <2>5. PICK x : x = buff[j - 1] + 1
    OBVIOUS
  <2>6. \/ buff[j] = x
        \/ x \in 1 .. Len(text) /\ text[x] = "#" /\ buff[j] = After(text, fancy, x)
    BY <2>2, <2>5 DEF Follows
  <2>7. CASE buff[j] = x
    BY <2>5, <2>7, Zenon
  <2>8. CASE x \in 1 .. Len(text) /\ text[x] = "#" /\ buff[j] = After(text, fancy, x)
    BY <2>4, <2>8
  <2> QED BY <2>6, <2>7, <2>8
<1>5. \A j \in a .. m : buff[j] = p + j - a
  <2>1. m \in Nat /\ buff[a] \in Nat /\ buff[a] = p
    BY <1>3
  <2>2. \A j \in a .. m : buff[j] = buff[a] + j - a
    BY <1>4, <2>1, Consecutive
  <2> QED BY <2>1, <2>2
<1>6. PICK x \in Nat : x = buff[m] /\ x = p + m - a /\ x \in p .. Len(text)
  <2>1. buff[m] = p + m - a /\ m \in a .. n - 1 /\ m - 1 \in 0 .. n - 1 /\ (m - 1) + 1 = m
    BY <1>5
  <2>2. buff[m] \in 1 .. Len(text)
    BY <1>2, <2>1
  <2> QED BY <1>1, <1>3, <2>1, <2>2
<1>7. \A y \in p .. x : text[y] # "\n"
  <2> SUFFICES ASSUME NEW y \in p .. x PROVE text[y] # "\n"
    OBVIOUS
  <2>1. CASE y = p
    BY <2>1
  <2>2. CASE y # p
    <3>1. PICK j \in k + 1 .. m - 1 : j + 1 \in a .. m /\ p + (j + 1) - a = y
      <4>1. PICK j \in Nat : j = y - p + k
        BY <1>3
      <4>2. j \in k + 1 .. m - 1 /\ j + 1 \in a .. m /\ p + (j + 1) - a = y
        BY <1>3, <1>6, <2>2, <4>1
      <4> QED BY <4>2
    <3>2. buff[j + 1] = y /\ j \in 0 .. n - 1
      BY <1>5, <3>1
    <3> QED BY <1>2, <3>1, <3>2
  <2> QED BY <2>1, <2>2
<1>8. PICK u \in 1 .. Len(text) : u = buff[m + 1] /\ text[u] = "\n"
  <2>1. Input(m) = text[buff[m + 1]] /\ buff[m + 1] \in 1 .. Len(text)
    BY <1>2
  <2> QED BY <2>1
<1>9. Follows(x + 1, u)
  <2>1. m \in 1 .. n - 1
    OBVIOUS
  <2> QED BY <1>6, <1>8, <2>1 DEF Readable
<1>10. u > x /\ \A y \in x + 1 .. u - 1 : text[y] # "\n"
  <2>1. CASE u = x + 1
    BY <1>6, <2>1
  <2>2. CASE u # x + 1
    <3>1. x + 1 \in 1 .. Len(text) /\ text[x + 1] = "#" /\ u = After(text, fancy, x + 1)
      BY <1>9, <2>2 DEF Follows
    <3>2. u = Until(text, {"\n"}, x + 1) /\ u \in x + 2 .. Len(text) + 1
      BY <1>1, <3>1, BehindComment
    <3>3. \A y \in x + 1 .. u - 1 : text[y] \notin {"\n"}
      <4>1. x + 1 \in 1 .. Len(text) + 1
        BY <1>1, <3>1
      <4> QED BY <1>1, <3>2, <4>1, UntilIs
    <3> QED BY <1>6, <3>2, <3>3
  <2> QED BY <2>1, <2>2
<1>11. u \in p .. Len(text) /\ \A y \in p .. u - 1 : text[y] # "\n"
  BY <1>1, <1>3, <1>6, <1>7, <1>8, <1>10
<1> QED BY <1>1, <1>3, <1>8, <1>11, CommentEnds

(* A run of consecutive positions, cut out of the buffer.                   *)
LEMMA CharsAre ==
  ASSUME NEW b \in Seq(Cells), NEW a \in Nat, NEW m \in Nat, 1 <= a, a <= m + 1, m <= Len(b), NEW p \in Nat,
         \A j \in a .. m : b[j] = p + j - a
  PROVE  SubSeq(b, a, m) = [x \in 1 .. m - a + 1 |-> p + x - 1]
<1>1. SubSeq(b, a, m) = [x \in 1 .. 1 + m - a |-> b[a + x - 1]]
  OBVIOUS
<1>2. \A x \in 1 .. m - a + 1 : b[a + x - 1] = p + x - 1
  <2> SUFFICES ASSUME NEW x \in 1 .. m - a + 1 PROVE b[a + x - 1] = p + x - 1
    OBVIOUS
  <2>1. PICK j \in a .. m : j = a + x - 1
    OBVIOUS
  <2> QED BY <2>1
<1>3. 1 + m - a = m - a + 1
  OBVIOUS
<1> QED BY <1>1, <1>2, <1>3
(* The word of the text at a position.                                      *)
LEMMA WordOf ==
  ASSUME NEW s, NEW fy, NEW p \in Nat, NEW e \in Nat, After(s, fy, p) = e
  PROVE  /\ s[p] \in Quotes => Word(s, fy, p) = [x \in 1 .. e - 2 - p |-> p + x]
         /\ s[p] \notin Quotes => Word(s, fy, p) = [x \in 1 .. e - p |-> p + x - 1]
<1>1. CASE s[p] \in Quotes
  <2>1. Word(s, fy, p) = [x \in 1 .. (e - 2) - (p + 1) + 1 |-> (p + 1) + x - 1]
    BY <1>1 DEF Word
  <2>2. (e - 2) - (p + 1) + 1 = e - 2 - p /\ \A x \in 1 .. e - 2 - p : (p + 1) + x - 1 = p + x
    OBVIOUS
  <2> QED BY <1>1, <2>1, <2>2
<1>2. CASE s[p] \notin Quotes
  <2>1. Word(s, fy, p) = [x \in 1 .. (e - 1) - p + 1 |-> p + x - 1]
    BY <1>2 DEF Word
  <2>2. (e - 1) - p + 1 = e - p
    OBVIOUS
  <2> QED BY <1>2, <2>1, <2>2
<1> QED BY <1>1, <1>2

(* The token that next_token finds at k: the piece of the text that follows *)
(* cur.                                                                     *)
Nearest(s, fy, b, p) == p \in Later(s, fy, b) /\ \A q \in Later(s, fy, b) : p <= q
Reads(n, k, cur, t) ==
  \E p \in Pieces(text, fancy) :
    /\ Nearest(text, fancy, cur, p) /\ Edge(text, fancy, p)
    /\ t.next \in k + 1 .. n /\ Bound(n, t.next, After(text, fancy, p))
    /\ \/ /\ text[p] \in Marks(fancy) /\ t.kind = text[p]
          /\ buff[t.next] = p /\ Bound(n, t.next - 1, p)
       \/ text[p] \notin Marks(fancy) /\ t.kind = "word" /\ t.chars = Word(text, fancy, p)

(* The next piece, behind blanks and comments.                              *)
LEMMA NearestIs ==
  ASSUME NEW s, NEW fy, Len(s) \in Nat, NEW p \in 1 .. Len(s), Edge(s, fy, p), s[p] \notin Blank \cup {"#"},
         NEW b, Later(s, fy, b) = Later(s, fy, p)
  PROVE  p \in Pieces(s, fy) /\ Nearest(s, fy, b, p)
<1>1. p \in Pieces(s, fy) /\ Pieces(s, fy) \subseteq 1 .. Len(s)
  BY EdgeNext, StartsFinite
<1>2. p \in Later(s, fy, p) /\ \A q \in Later(s, fy, p) : p <= q
  BY <1>1 DEF Later
<1> QED BY <1>1, <1>2 DEF Nearest

(* next_token at a character of the syntax.                                 *)
LEMMA ReadMark ==
  ASSUME NEW n \in Nat, Readable(n), NEW k \in Nat, NEW cur, Bound(n, k, cur), k < n, NEW w \in Nat,
         Other(Input(k)), IsSpecial(Input(k))
  PROVE  Reads(n, k, cur, Tokens[k]["skip"][w])
<1> PICK p : buff[k + 1] = p
  OBVIOUS
<1>1. /\ p \in 1 .. Len(text) /\ p >= cur /\ Input(k) = text[p] /\ text[p] # End
      /\ Edge(text, fancy, p) /\ Later(text, fancy, p) = Later(text, fancy, cur)
      /\ text[p] # "\n" => p = cur
  BY NextInput
<1>2. text[p] \in Marks(fancy) /\ text[p] \notin Blank \cup {"#"} /\ p = cur
  <2>1. text[p] \in Marks(fancy)
    BY <1>1, SpecialIs
  <2> QED BY <1>1, <2>1, MarksAre DEF Blank
<1>3. Len(text) \in Nat /\ buff \in Seq(Cells) /\ Holds(buff, n)
  BY Inputs
<1>4. p \in Pieces(text, fancy) /\ Nearest(text, fancy, cur, p)
  BY <1>1, <1>2, <1>3, NearestIs
<1>5. PICK e \in Nat : After(text, fancy, p) = e /\ e = p + 1
  BY <1>1, <1>2, <1>3, BehindOne
<1>6. Edge(text, fancy, e)
  <2>1. Edge(text, fancy, After(text, fancy, p))
    BY <1>1, <1>3, EdgeNext
  <2> QED BY <1>5, <2>1
<1>7. PICK j \in 1 .. n : j = k + 1
  OBVIOUS
<1>8. Bound(n, j, e)
  <2>1. text[buff[j]] \in Stops(fancy) /\ e = buff[j] + 1
    BY <1>2, <1>5, <1>7, MarksAre
  <2> QED BY <1>6, <2>1, BoundIs
<1>9. Tokens[k]["skip"][w] = Tok(text[p], k, k, j, FALSE)
  <2>1. PICK r : Tokens[k + 1] = r
    OBVIOUS
  <2>2. Tokens[k]["skip"][w] = Turn(r, k, "skip", w)
    <3>1. k \in 0 .. n
      OBVIOUS
    <3> QED BY <1>3, <2>1, <3>1, TokensAre DEF Modes
  <2>3. Turn(r, k, "skip", w) = Tok(text[p], k, k, k + 1, FALSE)
    BY <1>1, TurnSpecial
  <2> QED BY <1>7, <2>2, <2>3
<1>10. PICK t : Tokens[k]["skip"][w] = t /\ t.kind = text[p] /\ t.next = j
  BY <1>9 DEF Tok
<1>11. j - 1 = k /\ j \in k + 1 .. n /\ buff[j] = p
  BY <1>7
<1>12. Bound(n, t.next - 1, p) /\ buff[t.next] = p /\ t.next \in k + 1 .. n
  BY <1>2, <1>10, <1>11
<1> QED BY <1>1, <1>2, <1>4, <1>5, <1>8, <1>10, <1>12 DEF Reads

(* next_token at a quote, closed or not.                                    *)
LEMMA ReadQuote ==
  ASSUME NEW n \in Nat, Readable(n), NEW k \in Nat, NEW cur, Bound(n, k, cur), k < n, NEW w \in Nat,
         Input(k) \in Quotes, Tokens[k]["skip"][w].kind # End
  PROVE  Reads(n, k, cur, Tokens[k]["skip"][w])
<1> PICK p : buff[k + 1] = p
  OBVIOUS
<1>1. /\ p \in 1 .. Len(text) /\ p >= cur /\ Input(k) = text[p] /\ text[p] # End
      /\ Edge(text, fancy, p) /\ Later(text, fancy, p) = Later(text, fancy, cur)
      /\ text[p] # "\n" => p = cur
  BY NextInput
<1>2. text[p] \in Quotes /\ text[p] \notin Marks(fancy) /\ text[p] \notin Blank \cup {"#"}
  <2>1. text[p] \in Quotes
    BY <1>1
  <2>2. text[p] \notin Blank \cup {"#"}
    BY <2>1 DEF Quotes, Blank
  <2> QED BY <2>1, <2>2, MarksAre
<1>3. Len(text) \in Nat /\ buff \in Seq(Cells) /\ Holds(buff, n)
  BY Inputs
<1>4. p \in Pieces(text, fancy) /\ Nearest(text, fancy, cur, p)
  BY <1>1, <1>2, <1>3, NearestIs
<1>5. PICK m \in k + 1 .. n : /\ m < n => Input(m) \in {text[p]}
                              /\ \A j \in k + 1 .. m - 1 : Input(j) \notin {text[p]}
  <2>1. k + 1 \in Nat /\ k + 1 <= n
    OBVIOUS
  <2> QED BY <2>1, FirstOf
<1>6. k \in 0 .. n - 1 /\ k + 1 \in Nat /\ buff[k + 1] = p
  OBVIOUS
<1>7. Tokens[k]["skip"][w] = Tokens[k + 1][text[p]][k + 1]
  <2>1. PICK r : Tokens[k + 1] = r
    OBVIOUS
  <2>2. Tokens[k]["skip"][w] = Turn(r, k, "skip", w)
    <3>1. k \in 0 .. n
      OBVIOUS
    <3> QED BY <1>3, <2>1, <3>1, TokensAre DEF Modes
  <2>3. Turn(r, k, "skip", w) = r[Input(k)][k + 1]
    BY <1>1, TurnSkip
  <2> QED BY <1>1, <2>1, <2>2, <2>3
<1>8. /\ m = n => Tokens[k]["skip"][w] = Tok(End, n, n, n, TRUE)
      /\ m # n => Tokens[k]["skip"][w] = Tok("word", k + 1, m, m + 1, FALSE)
  <2>1. Tokens[k + 1][text[p]][k + 1] \in IF m = n THEN {Tok(End, n, n, n, TRUE)}
                                          ELSE {Tok("word", k + 1, m, m + 1, FALSE)}
    <3>1. text[p] \in Quotes /\ m \in k + 1 .. n /\ (m < n => Input(m) = text[p])
      BY <1>2, <1>5
    <3>2. \A j \in k + 1 .. m - 1 : Input(j) # text[p]
      BY <1>5
    <3> QED BY <1>6, <3>1, <3>2, QuoteToken
  <2> QED BY <1>7, <2>1
<1>9. m # n
  <2>1. Tok(End, n, n, n, TRUE).kind = End
    BY Zenon DEF Tok
  <2> QED BY <1>8, <2>1
<1>10. \A j \in k + 1 .. m + 1 : buff[j] = p + j - (k + 1)
  <2>1. m \in k + 1 .. n - 1
    BY <1>9
  <2>2. \A j \in k + 1 .. m - 1 : Input(j) # text[p]
    BY <1>5
  <2>3. k \in 0 .. n - 1 /\ buff[k + 1] = p /\ text[p] \in Quotes /\ Edge(text, fancy, p)
    BY <1>1, <1>2, <1>6
  <2> QED BY <2>1, <2>2, <2>3, QuoteRun
<1>11. PICK z \in Nat : z = m + 1 /\ z \in 1 .. n /\ z \in k + 1 .. n
  BY <1>9
<1>12. PICK u \in p + 1 .. Len(text) : buff[z] = u /\ u = p + m - k
  <2>1. buff[z] \in 1 .. Len(text)
    BY <1>11, Inputs
  <2>2. buff[z] = p + (m + 1) - (k + 1)
    BY <1>10, <1>11
  <2>3. PICK u \in Nat : u = p + m - k /\ u >= p + 1
    BY <1>1, <1>3
  <2>4. buff[z] = u
    BY <1>1, <1>3, <2>2, <2>3
  <2>5. u \in p + 1 .. Len(text)
    BY <1>1, <1>3, <2>1, <2>3, <2>4
  <2> QED BY <2>3, <2>4, <2>5
<1>13. text[u] = text[p]
  <2>1. Input(m) = text[buff[m + 1]] /\ Input(m) \in {text[p]}
    <3>1. m \in 0 .. n - 1
      BY <1>9
    <3> QED BY <1>5, <3>1, Inputs
  <2> QED BY <1>11, <1>12, <2>1
<1>14. \A j \in p + 1 .. u - 1 : text[j] # text[p]
  <2> SUFFICES ASSUME NEW j \in p + 1 .. u - 1 PROVE text[j] # text[p]
    OBVIOUS
  <2>1. PICK y \in k + 1 .. m - 1 : y + 1 \in k + 1 .. m + 1 /\ p + (y + 1) - (k + 1) = j
    <3>1. PICK y \in Nat : y = j - p + k
      BY <1>1, <1>3
    <3>2. y \in k + 1 .. m - 1 /\ y + 1 \in k + 1 .. m + 1 /\ p + (y + 1) - (k + 1) = j
      BY <1>1, <1>3, <1>12, <3>1
    <3> QED BY <3>2
  <2>2. buff[y + 1] = j /\ y \in 0 .. n - 1
    BY <1>10, <2>1
  <2>3. Input(y) = text[buff[y + 1]] /\ Input(y) \notin {text[p]}
    BY <1>5, <2>1, <2>2, Inputs
  <2> QED BY <2>2, <2>3
<1>15. PICK e \in Nat : After(text, fancy, p) = e /\ e = u + 1
  <2>1. After(text, fancy, p) = u + 1
    BY <1>1, <1>2, <1>3, <1>13, <1>14, QuoteEnds
  <2> QED BY <1>1, <1>3, <2>1
<1>16. Bound(n, z, e)
  <2>1. Edge(text, fancy, e)
    <3>1. Edge(text, fancy, After(text, fancy, p))
      BY <1>1, <1>3, EdgeNext
    <3> QED BY <1>15, <3>1
  <2>2. text[buff[z]] \in Stops(fancy) /\ e = buff[z] + 1
    BY <1>2, <1>12, <1>13, <1>15, MarksAre
  <2> QED BY <1>11, <2>1, <2>2, BoundIs
<1>17. SubSeq(buff, k + 1 + 1, m) = Word(text, fancy, p)
  <2>1. PICK a \in Nat : a = k + 1 + 1 /\ 1 <= a /\ a <= m + 1 /\ m <= Len(buff) /\ m \in Nat
    BY <1>3, <1>9 DEF Holds
  <2>2. PICK x \in Nat : x = p + 1
    BY <1>1, <1>3
  <2>3. \A j \in a .. m : buff[j] = x + j - a
    <3> SUFFICES ASSUME NEW j \in a .. m PROVE buff[j] = x + j - a
      OBVIOUS
    <3>1. j \in k + 1 .. m + 1
      BY <2>1
    <3>2. buff[j] = p + j - (k + 1)
      BY <1>10, <3>1
    <3> QED BY <1>1, <1>3, <2>1, <2>2, <3>2
  <2>4. SubSeq(buff, a, m) = [y \in 1 .. m - a + 1 |-> x + y - 1]
    BY <1>3, <2>1, <2>3, CharsAre
  <2>5. Word(text, fancy, p) = [y \in 1 .. e - 2 - p |-> p + y]
    BY <1>1, <1>2, <1>3, <1>15, WordOf
  <2>6. m - a + 1 = e - 2 - p /\ \A y \in 1 .. e - 2 - p : x + y - 1 = p + y
    <3>1. p \in Nat /\ k \in Nat /\ m \in Nat /\ u = p + m - k /\ e = u + 1 /\ a = k + 1 + 1 /\ x = p + 1
      BY <1>1, <1>3, <1>12, <1>15, <2>1, <2>2
    <3> QED BY <3>1
  <2> QED BY <2>1, <2>4, <2>5, <2>6
<1>18. PICK t : Tokens[k]["skip"][w] = t /\ t.kind = "word" /\ t.next = z /\ t.chars = Word(text, fancy, p)
  <2>1. Tokens[k]["skip"][w] = Tok("word", k + 1, m, z, FALSE)
    BY <1>8, <1>9, <1>11
  <2>2. /\ Tok("word", k + 1, m, z, FALSE).kind = "word" /\ Tok("word", k + 1, m, z, FALSE).next = z
        /\ Tok("word", k + 1, m, z, FALSE).chars = SubSeq(buff, k + 1 + 1, m)
    BY Zenon DEF Tok
  <2> QED BY <1>17, <2>1, <2>2
<1> QED BY <1>1, <1>2, <1>4, <1>11, <1>15, <1>16, <1>18 DEF Reads

(* next_token at a word without quotes.                                     *)
LEMMA ReadLetter ==
  ASSUME NEW n \in Nat, Readable(n), NEW k \in Nat, NEW cur, Bound(n, k, cur), k < n, NEW w \in Nat,
         Input(k) \notin Stops(fancy)
  PROVE  Reads(n, k, cur, Tokens[k]["skip"][w])
<1> PICK p : buff[k + 1] = p
  OBVIOUS
<1>1. /\ p \in 1 .. Len(text) /\ p >= cur /\ Input(k) = text[p] /\ text[p] # End
      /\ Edge(text, fancy, p) /\ Later(text, fancy, p) = Later(text, fancy, cur)
      /\ text[p] # "\n" => p = cur
  BY NextInput
<1>2. /\ text[p] \notin Stops(fancy) /\ text[p] \notin Marks(fancy) /\ text[p] \notin Blank \cup {"#"}
      /\ text[p] \notin Quotes
  BY <1>1, MarksAre
<1>3. Len(text) \in Nat /\ buff \in Seq(Cells) /\ Holds(buff, n)
  BY Inputs
<1>4. p \in Pieces(text, fancy) /\ Nearest(text, fancy, cur, p)
  BY <1>1, <1>2, <1>3, NearestIs
<1>5. k \in 0 .. n - 1 /\ k + 1 \in Nat /\ buff[k + 1] = p /\ k \in 0 .. n
  OBVIOUS
<1>6. PICK m \in k + 1 .. n : /\ \A j \in k + 1 .. m : buff[j] = p + j - (k + 1)
                              /\ \A j \in k .. m - 1 : Input(j) \notin Stops(fancy)
                              /\ m < n => Input(m) \in Stops(fancy)
  BY <1>2, <1>5, WordRun
<1>7. k = 0 \/ (Input(k - 1) # End /\ Input(k - 1) \in Stops(fancy))
  <2> SUFFICES ASSUME k # 0 PROVE Input(k - 1) # End /\ Input(k - 1) \in Stops(fancy)
    OBVIOUS
  <2>1. k - 1 \in 0 .. n - 1 /\ (k - 1) + 1 = k
    OBVIOUS
  <2>2. text[buff[k]] \in Stops(fancy)
    BY <1>2, <1>5 DEF Bound
  <2>3. Input(k - 1) = text[buff[(k - 1) + 1]] /\ Input(k - 1) # End
    BY <2>1, Inputs
  <2> QED BY <2>1, <2>2, <2>3
<1>8. Tokens[k]["skip"][w] = Tok("word", k, m, m, FALSE)
  <2>1. PICK r : Tokens[k + 1] = r
    OBVIOUS
  <2>2. Tokens[k]["skip"][w] = Turn(r, k, "skip", w)
    BY <1>3, <1>5, <2>1, TokensAre DEF Modes
  <2>3. Turn(r, k, "skip", w) = r["word"][k]
    BY <1>1, <1>7, LetterTurn
  <2>4. Tokens[k + 1]["word"][k] = Tok("word", k, m, m, FALSE)
    BY <1>5, <1>6, WordToken
  <2> QED BY <2>1, <2>2, <2>3, <2>4
<1>9. PICK z \in p .. Len(text) : buff[m] = z /\ z = p + m - (k + 1)
  <2>1. m \in 1 .. n /\ m \in k + 1 .. m
    OBVIOUS
  <2>2. buff[m] \in 1 .. Len(text) /\ buff[m] = p + m - (k + 1)
    BY <1>6, <2>1, Inputs
  <2> QED BY <1>1, <1>3, <2>2
<1>10. \A j \in p .. z : text[j] \notin Stops(fancy)
  <2> SUFFICES ASSUME NEW j \in p .. z PROVE text[j] \notin Stops(fancy)
    OBVIOUS
  <2>1. PICK y \in k .. m - 1 : y + 1 \in k + 1 .. m /\ p + (y + 1) - (k + 1) = j
    <3>1. PICK y \in Nat : y = j - p + k
      BY <1>1, <1>3
    <3>2. y \in k .. m - 1 /\ y + 1 \in k + 1 .. m /\ p + (y + 1) - (k + 1) = j
      BY <1>1, <1>3, <1>9, <3>1
    <3> QED BY <3>2
  <2>2. buff[y + 1] = j /\ y \in 0 .. n - 1
    BY <1>6, <2>1
  <2>3. Input(y) = text[buff[y + 1]] /\ Input(y) \notin Stops(fancy)
    BY <1>6, <2>1, <2>2, Inputs
  <2> QED BY <2>2, <2>3
<1>11. z = Len(text) \/ text[z + 1] \in Stops(fancy)
  <2>1. CASE m = n
    <3>1. z = Len(text) \/ text[z] \in Stops(fancy)
      BY <1>9, <2>1 DEF Readable
    <3> QED BY <1>1, <1>3, <1>10, <3>1
  <2>2. CASE m # n
    <3>1. m \in 1 .. n - 1 /\ m \in 0 .. n - 1
      BY <2>2
    <3>2. Follows(z + 1, buff[m + 1])
      BY <1>9, <3>1 DEF Readable
    <3>3. Input(m) = text[buff[m + 1]] /\ Input(m) \in Stops(fancy)
      BY <1>6, <3>1, Inputs
    <3>4. "#" \in Stops(fancy)
      BY MarksAre
    <3> QED BY <3>2, <3>3, <3>4 DEF Follows
  <2> QED BY <2>1, <2>2
<1>12. PICK e \in Nat : After(text, fancy, p) = e /\ e = z + 1
  <2>1. After(text, fancy, p) = z + 1
    <3>1. Len(text) \in Nat /\ p \in 1 .. Len(text) /\ z \in p .. Len(text)
      BY <1>1, <1>3, <1>9
    <3> QED BY <1>10, <1>11, <3>1, WordEnds
  <2> QED BY <1>1, <1>3, <2>1
<1>13. Bound(n, m, e)
  <2>1. Edge(text, fancy, e)
    <3>1. Edge(text, fancy, After(text, fancy, p))
      BY <1>1, <1>3, EdgeNext
    <3> QED BY <1>12, <3>1
  <2>2. m \in 1 .. n /\ e = buff[m] + 1
    BY <1>9, <1>12
  <2>3. m < n => text[buff[m + 1]] \in Stops(fancy)
    <3>1. m < n => m \in 0 .. n - 1
      OBVIOUS
    <3> QED BY <1>6, <3>1, Inputs
  <2> QED BY <2>1, <2>2, <2>3, BoundIs
<1>14. SubSeq(buff, k + 1, m) = Word(text, fancy, p)
  <2>1. PICK a \in Nat : a = k + 1 /\ 1 <= a /\ a <= m + 1 /\ m <= Len(buff) /\ m \in Nat
    BY <1>3 DEF Holds
  <2>2. \A j \in a .. m : buff[j] = p + j - a
    BY <1>6, <2>1
  <2>3. p \in Nat
    BY <1>1, <1>3
  <2>4. SubSeq(buff, a, m) = [y \in 1 .. m - a + 1 |-> p + y - 1]
    BY <1>3, <2>1, <2>2, <2>3, CharsAre
  <2>5. Word(text, fancy, p) = [y \in 1 .. e - p |-> p + y - 1]
    BY <1>2, <1>12, <2>3, WordOf
  <2>6. m - a + 1 = e - p
    BY <1>1, <1>3, <1>9, <1>12, <2>1
  <2> QED BY <2>1, <2>4, <2>5, <2>6
<1>15. PICK t : Tokens[k]["skip"][w] = t /\ t.kind = "word" /\ t.next = m /\ t.chars = Word(text, fancy, p)
  <2>1. /\ Tok("word", k, m, m, FALSE).kind = "word" /\ Tok("word", k, m, m, FALSE).next = m
        /\ Tok("word", k, m, m, FALSE).chars = SubSeq(buff, k + 1, m)
    BY Zenon DEF Tok
  <2> QED BY <1>8, <1>14, <2>1
<1> QED BY <1>1, <1>2, <1>4, <1>12, <1>13, <1>15 DEF Reads

(* What means nothing is skipped before the token.                          *)
LEMMA ReadsOn ==
  ASSUME NEW n \in Nat, NEW k \in Nat, NEW j \in k .. n, NEW cur, NEW b, NEW t, Reads(n, j, b, t),
         Later(text, fancy, b) = Later(text, fancy, cur)
  PROVE  Reads(n, k, cur, t)
<1>1. PICK p \in Pieces(text, fancy) :
        /\ Nearest(text, fancy, b, p) /\ Edge(text, fancy, p)
        /\ t.next \in j + 1 .. n /\ Bound(n, t.next, After(text, fancy, p))
        /\ \/ /\ text[p] \in Marks(fancy) /\ t.kind = text[p]
              /\ buff[t.next] = p /\ Bound(n, t.next - 1, p)
           \/ text[p] \notin Marks(fancy) /\ t.kind = "word" /\ t.chars = Word(text, fancy, p)
  BY DEF Reads
<1>2. Nearest(text, fancy, cur, p)
  BY <1>1 DEF Nearest
<1>3. t.next \in k + 1 .. n
  BY <1>1
<1> QED BY <1>1, <1>2, <1>3 DEF Reads

(* A blank, and a comment with its newline, mean nothing.                   *)
LEMMA BehindBlank ==
  ASSUME NEW n \in Nat, Readable(n), NEW k \in Nat, NEW cur, Bound(n, k, cur), k < n, Input(k) \in Blank
  PROVE  \E b \in Nat : Bound(n, k + 1, b) /\ Later(text, fancy, b) = Later(text, fancy, cur)
<1> PICK p : buff[k + 1] = p
  OBVIOUS
<1>1. /\ p \in 1 .. Len(text) /\ Input(k) = text[p]
      /\ Edge(text, fancy, p) /\ Later(text, fancy, p) = Later(text, fancy, cur)
  BY NextInput
<1>2. Len(text) \in Nat
  BY Inputs
<1>3. PICK b \in Nat : b = p + 1
  BY <1>1, <1>2
<1>4. After(text, fancy, p) = b
  BY <1>1, <1>2, <1>3, BehindOne
<1>5. /\ Edge(text, fancy, After(text, fancy, p))
      /\ Later(text, fancy, After(text, fancy, p)) = Later(text, fancy, p) \ {p}
      /\ p \notin Pieces(text, fancy)
  <2>1. text[p] \in Blank \cup {"#"}
    BY <1>1
  <2> QED BY <1>1, <1>2, <2>1, EdgeNext
<1>6. Edge(text, fancy, b) /\ Later(text, fancy, b) = Later(text, fancy, cur)
  BY <1>1, <1>4, <1>5 DEF Later
<1>7. Bound(n, k + 1, b)
  <2>1. PICK j \in 1 .. n : j = k + 1
    OBVIOUS
  <2>2. b = buff[j] + 1 /\ text[buff[j]] \in Stops(fancy)
    BY <1>1, <1>3, <2>1, MarksAre
  <2>3. Bound(n, j, b)
    BY <1>6, <2>2, BoundIs
  <2> QED BY <2>1, <2>3
<1> QED BY <1>6, <1>7

LEMMA BehindLine ==
  ASSUME NEW n \in Nat, Readable(n), NEW k \in Nat, NEW cur, Bound(n, k, cur), k < n, Input(k) = "#",
         NEW m \in k + 1 .. n - 1, \A j \in k + 1 .. m - 1 : Input(j) # "\n", Input(m) = "\n"
  PROVE  \E b \in Nat : Bound(n, m + 1, b) /\ Later(text, fancy, b) = Later(text, fancy, cur)
<1> PICK p : buff[k + 1] = p
  OBVIOUS
<1>1. /\ p \in 1 .. Len(text) /\ Input(k) = text[p]
      /\ Edge(text, fancy, p) /\ Later(text, fancy, p) = Later(text, fancy, cur)
  BY NextInput
<1>2. Len(text) \in Nat
  BY Inputs
<1>3. k \in 0 .. n - 1 /\ text[p] = "#"
  BY <1>1
<1>4. PICK u \in 1 .. Len(text) : buff[m + 1] = u /\ text[u] = "\n"
  <2>1. m \in 0 .. n - 1
    OBVIOUS
  <2> QED BY <2>1, Inputs
<1>5. After(text, fancy, p) = u
  BY <1>3, <1>4, CommentRun
<1>6. /\ Edge(text, fancy, u) /\ Later(text, fancy, u) = Later(text, fancy, p) \ {p}
      /\ p \notin Pieces(text, fancy)
  <2>1. /\ Edge(text, fancy, After(text, fancy, p))
        /\ Later(text, fancy, After(text, fancy, p)) = Later(text, fancy, p) \ {p}
        /\ p \notin Pieces(text, fancy)
    BY <1>1, <1>2, <1>3, EdgeNext
  <2> QED BY <1>5, <2>1
<1>7. PICK b \in Nat : b = u + 1
  BY <1>2, <1>4
<1>8. After(text, fancy, u) = b
  <2>1. text[u] \in Blank \cup Marks(fancy)
    BY <1>4 DEF Blank
  <2> QED BY <1>2, <1>7, <2>1, BehindOne
<1>9. /\ Edge(text, fancy, After(text, fancy, u))
      /\ Later(text, fancy, After(text, fancy, u)) = Later(text, fancy, u) \ {u}
      /\ u \notin Pieces(text, fancy)
  <2>1. text[u] \in Blank \cup {"#"}
    BY <1>4 DEF Blank
  <2> QED BY <1>2, <1>6, <2>1, EdgeNext
<1>10. Edge(text, fancy, b) /\ Later(text, fancy, b) = Later(text, fancy, cur)
  BY <1>1, <1>6, <1>8, <1>9 DEF Later
<1>11. Bound(n, m + 1, b)
  <2>1. PICK j \in 1 .. n : j = m + 1
    OBVIOUS
  <2>2. b = buff[j] + 1 /\ text[buff[j]] \in Stops(fancy)
    BY <1>4, <1>7, <2>1, MarksAre DEF Blank
  <2>3. Bound(n, j, b)
    BY <1>10, <2>2, BoundIs
  <2> QED BY <2>1, <2>3
<1> QED BY <1>10, <1>11

(* The next token is the next piece of the text.                            *)
LEMMA TokenReads ==
  ASSUME NEW n \in Nat, Readable(n), NEW k \in 0 .. n, NEW cur, Bound(n, k, cur), NEW w \in Nat,
         Tokens[k]["skip"][w].kind # End
  PROVE  Reads(n, k, cur, Tokens[k]["skip"][w])
<1> DEFINE T == {x \in 0 .. n : \A b : Bound(n, x, b) /\ Tokens[x]["skip"][w].kind # End
                                        => Reads(n, x, b, Tokens[x]["skip"][w])}
<1>1. Len(text) \in Nat /\ buff \in Seq(Cells) /\ Holds(buff, n) /\ Input(n) = End
  BY Inputs
<1>2. ASSUME NEW x \in 0 .. n, \A y \in x + 1 .. n : y \in T
      PROVE  x \in T
  <2> SUFFICES ASSUME NEW b, Bound(n, x, b), Tokens[x]["skip"][w].kind # End
               PROVE  Reads(n, x, b, Tokens[x]["skip"][w])
    OBVIOUS
  <2> HIDE DEF T
  <2>0. x \in Nat
    OBVIOUS
  <2>1. PICK r : Tokens[x + 1] = r
    OBVIOUS
  <2>2. Tokens[x]["skip"][w] = Turn(r, x, "skip", w)
    BY <1>1, <2>1, TokensAre DEF Modes
  <2>3. CASE x = n
    <3>1. Turn(r, x, "skip", w) = EndToken(x, "skip", w)
      BY <1>1, <2>3, TurnEnd
    <3>2. EndToken(x, "skip", w).kind = End
      <4>1. EndToken(x, "skip", w) = Tok(End, x, x, x, "skip" \in Quotes)
        BY Zenon DEF EndToken
      <4> QED BY <4>1 DEF Tok
    <3> QED BY <2>2, <3>1, <3>2
  <2>4. CASE x < n
    <3>1. x \in 0 .. n - 1 /\ Input(x) # End
      <4>1. x \in 0 .. n - 1
        BY <2>4
      <4> QED BY <4>1, Inputs
    <3>2. CASE Input(x) \in Quotes
      BY <2>0, <2>4, <3>2, ReadQuote
    <3>3. CASE Input(x) = "#"
      <4>1. Tokens[x]["skip"][w] = Tokens[x + 1]["comment"][w]
        <5>1. Turn(r, x, "skip", w) = r["comment"][w]
          BY <2>0, <3>1, <3>3, TurnSkip
        <5> QED BY <2>1, <2>2, <5>1
      <4>2. PICK m \in x + 1 .. n : /\ m < n => Input(m) \in {"\n"}
                                    /\ \A j \in x + 1 .. m - 1 : Input(j) \notin {"\n"}
        <5>1. x + 1 \in Nat /\ x + 1 <= n
          BY <2>4
        <5> QED BY <5>1, FirstOf
      <4>3. IF m = n THEN Tokens[x + 1]["comment"][w].kind = End
            ELSE Tokens[x + 1]["comment"][w] = Tokens[m + 1]["skip"][w]
        BY <3>1, <4>2, CommentToken
      <4>4. m # n /\ Tokens[x]["skip"][w] = Tokens[m + 1]["skip"][w]
        BY <4>1, <4>3
      <4>5. PICK c \in Nat : Bound(n, m + 1, c) /\ Later(text, fancy, c) = Later(text, fancy, b)
        <5>1. m \in x + 1 .. n - 1
          BY <4>4
        <5> QED BY <2>0, <2>4, <3>3, <4>2, <5>1, BehindLine
      <4>6. m + 1 \in x + 1 .. n /\ m + 1 \in x .. n
        BY <4>4
      <4>7. Reads(n, m + 1, c, Tokens[m + 1]["skip"][w])
        <5>1. m + 1 \in T
          BY <1>2, <4>6
        <5> QED BY <4>4, <4>5, <5>1 DEF T
      <4> QED BY <2>0, <4>4, <4>5, <4>6, <4>7, ReadsOn
    <3>4. CASE Input(x) \in Blank
      <4>1. Tokens[x]["skip"][w] = Tokens[x + 1]["skip"][w]
        <5>1. Turn(r, x, "skip", w) = r["skip"][w]
          BY <2>0, <3>1, <3>4, TurnSkip
        <5> QED BY <2>1, <2>2, <5>1
      <4>2. PICK c \in Nat : Bound(n, x + 1, c) /\ Later(text, fancy, c) = Later(text, fancy, b)
        BY <2>0, <2>4, <3>4, BehindBlank
      <4>3. x + 1 \in x + 1 .. n /\ x + 1 \in x .. n
        BY <2>4
      <4>4. Reads(n, x + 1, c, Tokens[x + 1]["skip"][w])
        <5>1. x + 1 \in T
          BY <1>2, <4>3
        <5> QED BY <4>1, <4>2, <5>1 DEF T
      <4> QED BY <2>0, <4>1, <4>2, <4>3, <4>4, ReadsOn
    <3>5. CASE Other(Input(x)) /\ IsSpecial(Input(x))
      BY <2>0, <2>4, <3>5, ReadMark
    <3>6. CASE Other(Input(x)) /\ ~IsSpecial(Input(x))
      <4>1. Input(x) \notin Stops(fancy)
        BY <3>1, <3>6, SpecialIs
      <4> QED BY <2>0, <2>4, <4>1, ReadLetter
    <3> QED BY <3>2, <3>3, <3>4, <3>5, <3>6 DEF Other
  <2> QED BY <2>3, <2>4
<1>3. \A x \in 0 .. n : x \in T
  <2> HIDE DEF T
  <2> QED BY <1>2, Downward
<1>4. k \in T
  <2> HIDE DEF T
  <2> QED BY <1>3
<1> QED BY <1>4

-----------------------------------------------------------------------------
(* From one piece to the next: the depth, the lists, the tildes             *)

(* From b over the next piece p to a, where the piece after it may start.   *)
Step(s, fy, b, p, a) ==
  /\ Len(s) \in Nat /\ b \in 1 .. Len(s) + 1 /\ p \in Pieces(s, fy) /\ Nearest(s, fy, b, p)
  /\ Edge(s, fy, p) /\ a = After(s, fy, p)

(* A step passes exactly one piece.                                         *)
LEMMA StepOver ==
  ASSUME NEW s, NEW fy, NEW b, NEW p, NEW a, Step(s, fy, b, p, a)
  PROVE  /\ Len(s) \in Nat /\ p \in 1 .. Len(s) /\ b \in 1 .. p /\ a \in p + 1 .. Len(s) + 2
         /\ Pieces(s, fy) \subseteq 1 .. Len(s) /\ IsFiniteSet(Pieces(s, fy))
         /\ \A q \in Pieces(s, fy) : (q < a <=> q < b \/ q = p) /\ (q < p <=> q < b)
<1>1. Len(s) \in Nat /\ p \in Pieces(s, fy) /\ Pieces(s, fy) \subseteq 1 .. Len(s) /\ IsFiniteSet(Pieces(s, fy))
  BY StartsFinite DEF Step
<1>2. p \in 1 .. Len(s) /\ Edge(s, fy, p) /\ b \in Nat
  BY <1>1 DEF Step
<1>3. p >= b /\ \A q \in Pieces(s, fy) : q >= b => p <= q
  BY DEF Step, Nearest, Later
<1>4. /\ After(s, fy, p) \in p + 1 .. Len(s) + 2
      /\ Later(s, fy, After(s, fy, p)) = Later(s, fy, p) \ {p}
  BY <1>1, <1>2, EdgeNext
<1>5. a \in p + 1 .. Len(s) + 2 /\ Later(s, fy, a) = Later(s, fy, p) \ {p}
  BY <1>4 DEF Step
<1>6. ASSUME NEW q \in Pieces(s, fy)
      PROVE  (q < a <=> q < b \/ q = p) /\ (q < p <=> q < b)
  <2>1. q \in Nat /\ p \in Nat /\ a \in Nat
    BY <1>1, <1>2, <1>5
  <2>2. q >= a <=> q >= p /\ q # p
    BY <1>5, <1>6, Zenon DEF Later
  <2> QED BY <1>2, <1>3, <1>5, <2>1, <2>2
<1> QED BY <1>1, <1>2, <1>3, <1>5, <1>6 DEF Step

(* The depth changes at the parentheses only.                               *)
LEMMA StepLevels ==
  ASSUME NEW s, NEW fy, NEW b, NEW p, NEW a, Step(s, fy, b, p, a)
  PROVE  /\ \A q \in b .. p : Depth(s, fy, q) = Depth(s, fy, b)
         /\ s[p] = "(" => \A q \in p + 1 .. a : Depth(s, fy, q) = Depth(s, fy, b) + 1
         /\ s[p] = ")" => \A q \in p + 1 .. a : Depth(s, fy, q) = Depth(s, fy, b) - 1
         /\ s[p] \notin {"(", ")"} => \A q \in b .. a : Depth(s, fy, q) = Depth(s, fy, b)
<1>1. /\ Len(s) \in Nat /\ p \in 1 .. Len(s) /\ b \in 1 .. p /\ a \in p + 1 .. Len(s) + 2
      /\ Pieces(s, fy) \subseteq 1 .. Len(s)
      /\ \A q \in Pieces(s, fy) : (q < a <=> q < b \/ q = p) /\ (q < p <=> q < b)
  BY StepOver
<1>2. p \in Pieces(s, fy) /\ b \in Nat /\ p \in Nat /\ a \in Nat
  BY <1>1 DEF Step
<1>3. ASSUME NEW q \in b .. p PROVE Depth(s, fy, q) = Depth(s, fy, b)
  <2>1. q \in Nat /\ b <= q
    BY <1>2
  <2>2. \A x \in Pieces(s, fy) : x \in b .. q - 1 => s[x] \notin {"(", ")"}
    BY <1>1, <1>2
  <2> QED BY <1>1, <1>2, <2>1, <2>2, LevelSame
<1>4. ASSUME NEW q \in p + 1 .. a PROVE Depth(s, fy, q) = Depth(s, fy, p + 1)
  <2>1. q \in Nat /\ p + 1 \in Nat /\ p + 1 <= q
    BY <1>2
  <2>2. \A x \in Pieces(s, fy) : x \in p + 1 .. q - 1 => s[x] \notin {"(", ")"}
    BY <1>1, <1>2
  <2> QED BY <1>1, <2>1, <2>2, LevelSame
<1>5. Depth(s, fy, p) = Depth(s, fy, b)
  BY <1>1, <1>3
<1>6. ASSUME s[p] \notin {"(", ")"} PROVE Depth(s, fy, p + 1) = Depth(s, fy, p)
  <2>1. \A x \in Pieces(s, fy) : x \in p .. (p + 1) - 1 => s[x] \notin {"(", ")"}
    BY <1>1, <1>2, <1>6
  <2>2. p + 1 \in Nat /\ p <= p + 1
    BY <1>2
  <2> QED BY <1>1, <1>2, <2>1, <2>2, LevelSame
<1>7. \A q \in b .. a : q \in b .. p \/ q \in p + 1 .. a
  BY <1>1, <1>2
<1>8. /\ s[p] = "(" => Depth(s, fy, p + 1) = Depth(s, fy, p) + 1
      /\ s[p] = ")" => Depth(s, fy, p + 1) = Depth(s, fy, p) - 1
  BY <1>1, <1>2, LevelNext
<1> QED BY <1>3, <1>4, <1>5, <1>6, <1>7, <1>8

(* The depth grows from one position to a later one only at a parenthesis   *)
(* that opens at the smaller depth.                                         *)
LEMMA Rise ==
  ASSUME NEW s, NEW fy, Len(s) \in Nat, NEW x \in Nat, NEW y \in Nat, x <= y, NEW d \in Int,
         Depth(s, fy, x) <= d,
         \A o \in Opens(s, fy) : o \in x .. y - 1 => Depth(s, fy, o) > d
  PROVE  Depth(s, fy, y) <= d
<1> DEFINE T == {k \in x .. y : Depth(s, fy, k) <= d}
<1>1. ASSUME NEW k \in x .. y, \A j \in x .. k - 1 : j \in T
      PROVE  k \in T
  <2>1. CASE k = x
    BY <2>1
  <2>2. CASE k # x
    <3>1. PICK j \in Nat : j + 1 = k /\ j \in x .. k - 1 /\ j \in x .. y - 1
      <4>1. k - 1 \in Nat /\ (k - 1) + 1 = k /\ k - 1 \in x .. k - 1 /\ k - 1 \in x .. y - 1
        BY <2>2
      <4> QED BY <4>1
    <3>2. Depth(s, fy, j) <= d
      BY <1>1, <3>1
    <3>3. Depth(s, fy, j) \in Int /\ Depth(s, fy, k) \in Int
      BY LevelInt
    <3>4. j \notin Opens(s, fy)
      BY <3>1, <3>2, <3>3
    <3>5. CASE j \in Pieces(s, fy) /\ s[j] = ")"
      <4>1. Depth(s, fy, j + 1) = Depth(s, fy, j) - 1
        BY <3>5, LevelNext
      <4> QED BY <3>1, <3>2, <3>3, <4>1
    <3>6. CASE ~(j \in Pieces(s, fy) /\ s[j] = ")")
      <4>1. \A q \in Pieces(s, fy) : q \in j .. k - 1 => s[q] \notin {"(", ")"}
        BY <3>1, <3>4, <3>6, LevelIs
      <4>2. Depth(s, fy, k) = Depth(s, fy, j)
        <5>1. k \in Nat /\ j \in Nat /\ j <= k
          BY <3>1
        <5> QED BY <4>1, <5>1, LevelSame
      <4> QED BY <3>2, <3>3, <4>2
    <3> QED BY <3>5, <3>6
  <2> QED BY <2>1, <2>2
<1>2. \A k \in x .. y : k \in T
  <2> HIDE DEF T
  <2> QED BY <1>1, Upward
<1> QED BY <1>2

(* The ends of a list are positions of the text.                            *)
LEMMA ListIs ==
  ASSUME NEW s, NEW fy, NEW o, NEW c, IsList(s, fy, o, c)
  PROVE  /\ o \in Opens(s, fy) /\ c \in Closes(s, fy) /\ o < c
         /\ Depth(s, fy, c) = Depth(s, fy, o) + 1
         /\ \A p \in Opens(s, fy) : o < p /\ p < c => Depth(s, fy, p) > Depth(s, fy, o)
BY DEF IsList

(* One parenthesis closes a list, and it closes one list.                   *)
LEMMA ListUnique ==
  ASSUME NEW s, NEW fy, Len(s) \in Nat, NEW o, NEW c, NEW e, IsList(s, fy, o, c), IsList(s, fy, o, e)
  PROVE  ~(c < e)
<1> SUFFICES ASSUME c < e PROVE FALSE
  OBVIOUS
<1>1. Pieces(s, fy) \subseteq 1 .. Len(s)
  BY StartsFinite
<1>2. /\ c \in Pieces(s, fy) /\ s[c] = ")" /\ c \in 1 .. Len(s) /\ e \in 1 .. Len(s) /\ o \in 1 .. Len(s)
      /\ o < c /\ Depth(s, fy, c) = Depth(s, fy, o) + 1 /\ Depth(s, fy, e) = Depth(s, fy, o) + 1
      /\ \A p \in Opens(s, fy) : o < p /\ p < e => Depth(s, fy, p) > Depth(s, fy, o)
  BY <1>1, ListIs, LevelIs
<1>3. Depth(s, fy, c + 1) = Depth(s, fy, c) - 1
  BY <1>2, LevelNext
<1>4. PICK d \in Int : Depth(s, fy, o) = d
  BY LevelInt
<1>5. PICK x \in Nat : x = c + 1
  BY <1>2
<1>6. Depth(s, fy, x) <= d /\ x <= e
  BY <1>2, <1>3, <1>4, <1>5
<1>7. \A p \in Opens(s, fy) : p \in x .. e - 1 => Depth(s, fy, p) > d
  BY <1>2, <1>4, <1>5
<1>8. Depth(s, fy, e) <= d
  BY <1>2, <1>6, <1>7, Rise
<1> QED BY <1>2, <1>4, <1>8

(* The piece after a tilde.                                                 *)
LEMMA AfterIs ==
  ASSUME NEW s, NEW fy, Len(s) \in Nat, NEW t \in Pieces(s, fy)
  PROVE  /\ PieceAfter(s, fy, t) \in Pieces(s, fy) \cup {Len(s) + 1} /\ PieceAfter(s, fy, t) > t
         /\ PieceAfter(s, fy, t) \in Nat
         /\ \A q \in Pieces(s, fy) : t < q => PieceAfter(s, fy, t) <= q
<1>1. Pieces(s, fy) \subseteq 1 .. Len(s)
  BY StartsFinite
<1> DEFINE M == {q \in Pieces(s, fy) \cup {Len(s) + 1} : t < q}
<1>2. PICK e \in M : \A q \in M : e <= q
  <2>1. M \in SUBSET Nat /\ Len(s) + 1 \in M
    BY <1>1
  <2> HIDE DEF M
  <2> QED BY <2>1, Least
<1>3. \E p \in Pieces(s, fy) \cup {Len(s) + 1} : t < p /\ \A q \in Pieces(s, fy) : t < q => p <= q
  BY <1>2
<1>4. /\ PieceAfter(s, fy, t) \in Pieces(s, fy) \cup {Len(s) + 1}
      /\ t < PieceAfter(s, fy, t) /\ \A q \in Pieces(s, fy) : t < q => PieceAfter(s, fy, t) <= q
  BY <1>3, Zenon DEF PieceAfter
<1>5. t \in Nat /\ PieceAfter(s, fy, t) \in Nat
  BY <1>1, <1>4
<1> QED BY <1>4, <1>5

(* The lists that are open at b, outermost first, are those of the first m  *)
(* calls; every other list that was opened before b is closed.              *)
Stacked(s, fy, F, m, b) ==
  /\ Depth(s, fy, b) = m
  /\ \A k \in 1 .. m : /\ F[k].from \in Opens(s, fy) /\ F[k].from < b
                       /\ Depth(s, fy, F[k].from) = k - 1
                       /\ \A q \in F[k].from + 1 .. b : Depth(s, fy, q) >= k
  /\ \A o \in Opens(s, fy) : o < b =>
       (\E k \in 1 .. m : o = F[k].from) \/ \E c \in Closes(s, fy) : c < b /\ IsList(s, fy, o, c)

(* The stack depends on where the calls began, not on what they hold.       *)
LEMMA StackSame ==
  ASSUME NEW s, NEW fy, NEW b, NEW m \in Nat, NEW F, NEW G, Stacked(s, fy, F, m, b),
         \A k \in 1 .. m : G[k].from = F[k].from
  PROVE  Stacked(s, fy, G, m, b)
BY DEF Stacked

(* While the depth stays and nothing opens, the stack stays.                *)
LEMMA StackOn ==
  ASSUME NEW s, NEW fy, Len(s) \in Nat, NEW b \in Nat, NEW a \in Nat, b <= a, NEW m \in Nat,
         NEW F, Stacked(s, fy, F, m, b), \A q \in b .. a : Depth(s, fy, q) = m,
         \A o \in Opens(s, fy) : o < a => o < b
  PROVE  Stacked(s, fy, F, m, a)
<1>1. Opens(s, fy) \subseteq Nat /\ Closes(s, fy) \subseteq Nat
  BY StartsFinite, LevelIs
<1>2. Depth(s, fy, a) = m
  OBVIOUS
<1>3. ASSUME NEW k \in 1 .. m
      PROVE  /\ F[k].from \in Opens(s, fy) /\ F[k].from < a
             /\ Depth(s, fy, F[k].from) = k - 1
             /\ \A q \in F[k].from + 1 .. a : Depth(s, fy, q) >= k
  <2>1. /\ F[k].from \in Opens(s, fy) /\ F[k].from < b /\ Depth(s, fy, F[k].from) = k - 1
        /\ \A q \in F[k].from + 1 .. b : Depth(s, fy, q) >= k
    BY DEF Stacked
  <2>2. PICK o \in Nat : F[k].from = o
    BY <1>1, <2>1
  <2>3. \A q \in o + 1 .. a : q \in o + 1 .. b \/ q \in b .. a
    BY <2>2
  <2> QED BY <2>1, <2>2, <2>3
<1>4. ASSUME NEW o \in Opens(s, fy), o < a
      PROVE  (\E k \in 1 .. m : o = F[k].from) \/ \E c \in Closes(s, fy) : c < a /\ IsList(s, fy, o, c)
  <2>1. o < b
    BY <1>4
  <2>2. (\E k \in 1 .. m : o = F[k].from) \/ \E c \in Closes(s, fy) : c < b /\ IsList(s, fy, o, c)
    BY <2>1 DEF Stacked
  <2>3. \A c \in Closes(s, fy) : c < b => c < a
    BY <1>1
  <2> QED BY <2>2, <2>3
<1> QED BY <1>2, <1>3, <1>4 DEF Stacked

LEMMA StackMove ==
  ASSUME NEW s, NEW fy, NEW b, NEW p, NEW a, Step(s, fy, b, p, a), NEW m \in Nat, NEW F, Stacked(s, fy, F, m, b)
  PROVE  Stacked(s, fy, F, m, p)
<1>1. Len(s) \in Nat /\ p \in Nat /\ b \in Nat /\ b <= p /\ \A q \in Pieces(s, fy) : q < p <=> q < b
  BY StepOver
<1>2. \A o \in Opens(s, fy) : o < p => o < b
  BY <1>1, LevelIs
<1>3. \A q \in b .. p : Depth(s, fy, q) = m
  BY StepLevels DEF Stacked
<1> QED BY <1>1, <1>2, <1>3, StackOn

LEMMA StackPass ==
  ASSUME NEW s, NEW fy, NEW b, NEW p, NEW a, Step(s, fy, b, p, a), s[p] \notin {"(", ")"},
         NEW m \in Nat, NEW F, Stacked(s, fy, F, m, b)
  PROVE  Stacked(s, fy, F, m, a)
<1>1. /\ Len(s) \in Nat /\ p \in Nat /\ b \in Nat /\ a \in Nat /\ b <= a
      /\ \A q \in Pieces(s, fy) : q < a <=> q < b \/ q = p
  BY StepOver
<1>2. \A o \in Opens(s, fy) : o < a => o < b
  BY <1>1, LevelIs
<1>3. \A q \in b .. a : Depth(s, fy, q) = m
  BY StepLevels DEF Stacked
<1> QED BY <1>1, <1>2, <1>3, StackOn

(* An opening parenthesis adds its list to the stack.                       *)
LEMMA StackOpen ==
  ASSUME NEW s, NEW fy, NEW b, NEW p, NEW a, Step(s, fy, b, p, a), s[p] = "(",
         NEW m \in Nat, NEW F, Stacked(s, fy, F, m, b),
         NEW G, \A k \in 1 .. m : G[k].from = F[k].from, G[m + 1].from = p
  PROVE  Stacked(s, fy, G, m + 1, a)
<1>1. /\ Len(s) \in Nat /\ p \in Nat /\ b \in Nat /\ a \in Nat /\ b <= p /\ p < a
      /\ p \in Pieces(s, fy) /\ Pieces(s, fy) \subseteq 1 .. Len(s)
      /\ \A q \in Pieces(s, fy) : q < a <=> q < b \/ q = p
  BY StepOver DEF Step
<1>2. p \in Opens(s, fy) /\ Opens(s, fy) \subseteq Pieces(s, fy) /\ Closes(s, fy) \subseteq Pieces(s, fy)
  BY <1>1, LevelIs
<1>3. /\ \A q \in b .. p : Depth(s, fy, q) = m
      /\ \A q \in p + 1 .. a : Depth(s, fy, q) = m + 1
  BY StepLevels DEF Stacked
<1>4. Depth(s, fy, a) = m + 1
  BY <1>1, <1>3
<1>5. ASSUME NEW k \in 1 .. m + 1
      PROVE  /\ G[k].from \in Opens(s, fy) /\ G[k].from < a
             /\ Depth(s, fy, G[k].from) = k - 1
             /\ \A q \in G[k].from + 1 .. a : Depth(s, fy, q) >= k
  <2>1. CASE k = m + 1
    <3>1. Depth(s, fy, p) = m /\ \A q \in p + 1 .. a : Depth(s, fy, q) >= m + 1
      BY <1>1, <1>3
    <3> QED BY <1>1, <1>2, <2>1, <3>1
  <2>2. CASE k # m + 1
    <3>1. k \in 1 .. m
      BY <2>2
    <3>2. /\ F[k].from \in Opens(s, fy) /\ F[k].from < b /\ Depth(s, fy, F[k].from) = k - 1
          /\ \A q \in F[k].from + 1 .. b : Depth(s, fy, q) >= k
      BY <3>1 DEF Stacked
    <3>3. PICK o \in Nat : F[k].from = o
      BY <1>1, <1>2, <3>2
    <3>4. \A q \in o + 1 .. a : q \in o + 1 .. b \/ q \in b .. p \/ q \in p + 1 .. a
      BY <1>1, <3>3
    <3>5. \A q \in o + 1 .. a : Depth(s, fy, q) >= k
      BY <1>3, <3>1, <3>2, <3>3, <3>4
    <3>6. G[k].from = o /\ o < a
      BY <1>1, <3>1, <3>2, <3>3
    <3> QED BY <3>2, <3>3, <3>5, <3>6
  <2> QED BY <2>1, <2>2
<1>6. ASSUME NEW o \in Opens(s, fy), o < a
      PROVE  (\E k \in 1 .. m + 1 : o = G[k].from) \/ \E c \in Closes(s, fy) : c < a /\ IsList(s, fy, o, c)
  <2>1. CASE o = p
    <3>1. m + 1 \in 1 .. m + 1
      OBVIOUS
    <3> QED BY <2>1, <3>1
  <2>2. CASE o # p
    <3>1. o < b
      BY <1>1, <1>2, <1>6, <2>2
    <3>2. (\E k \in 1 .. m : o = F[k].from) \/ \E c \in Closes(s, fy) : c < b /\ IsList(s, fy, o, c)
      BY <3>1 DEF Stacked
    <3>3. \A c \in Closes(s, fy) : c < b => c < a
      BY <1>1, <1>2
    <3>4. \A k \in 1 .. m : k \in 1 .. m + 1 /\ G[k].from = F[k].from
      OBVIOUS
    <3> QED BY <3>2, <3>3, <3>4
  <2> QED BY <2>1, <2>2
<1> QED BY <1>4, <1>5, <1>6 DEF Stacked

(* A closing parenthesis ends the innermost list, and no other.             *)
LEMMA StackClose ==
  ASSUME NEW s, NEW fy, NEW b, NEW p, NEW a, Step(s, fy, b, p, a), s[p] = ")",
         NEW m \in Nat, m >= 1, NEW F, Stacked(s, fy, F, m, b)
  PROVE  IsList(s, fy, F[m].from, p) /\ Stacked(s, fy, F, m - 1, a)
<1>1. /\ Len(s) \in Nat /\ p \in Nat /\ b \in Nat /\ a \in Nat /\ b <= p /\ p < a
      /\ p \in Pieces(s, fy) /\ Pieces(s, fy) \subseteq 1 .. Len(s)
      /\ \A q \in Pieces(s, fy) : (q < a <=> q < b \/ q = p) /\ (q < p <=> q < b)
  BY StepOver DEF Step
<1>2. p \in Closes(s, fy) /\ Opens(s, fy) \subseteq Pieces(s, fy) /\ Closes(s, fy) \subseteq Pieces(s, fy)
  BY <1>1, LevelIs
<1>3. /\ \A q \in b .. p : Depth(s, fy, q) = m
      /\ \A q \in p + 1 .. a : Depth(s, fy, q) = m - 1
  BY StepLevels DEF Stacked
<1>4. Depth(s, fy, a) = m - 1 /\ Depth(s, fy, p) = m
  BY <1>1, <1>3
<1>5. ASSUME NEW k \in 1 .. m
      PROVE  /\ F[k].from \in Opens(s, fy) /\ F[k].from < b /\ Depth(s, fy, F[k].from) = k - 1
             /\ F[k].from \in Nat /\ F[k].from < p /\ F[k].from < a
             /\ \A q \in F[k].from + 1 .. p : Depth(s, fy, q) >= k
             /\ k < m => \A q \in F[k].from + 1 .. a : Depth(s, fy, q) >= k
  <2>1. /\ F[k].from \in Opens(s, fy) /\ F[k].from < b /\ Depth(s, fy, F[k].from) = k - 1
        /\ \A q \in F[k].from + 1 .. b : Depth(s, fy, q) >= k
    BY DEF Stacked
  <2>2. PICK o \in Nat : F[k].from = o
    BY <1>1, <1>2, <2>1
  <2>3. /\ \A q \in o + 1 .. p : q \in o + 1 .. b \/ q \in b .. p
        /\ \A q \in o + 1 .. a : q \in o + 1 .. b \/ q \in b .. p \/ q \in p + 1 .. a
    BY <1>1, <2>2
  <2>4. \A q \in o + 1 .. p : Depth(s, fy, q) >= k
    BY <1>3, <2>1, <2>2, <2>3
  <2>5. k < m => \A q \in o + 1 .. a : Depth(s, fy, q) >= k
    BY <1>3, <2>1, <2>2, <2>3
  <2>6. o < p /\ o < a
    BY <1>1, <2>1, <2>2
  <2> QED BY <2>1, <2>2, <2>4, <2>5, <2>6
<1>6. IsList(s, fy, F[m].from, p)
  <2>1. PICK o \in Nat : F[m].from = o
    BY <1>5
  <2>2. /\ o \in Opens(s, fy) /\ o < p /\ Depth(s, fy, o) = m - 1
        /\ \A q \in o + 1 .. p : Depth(s, fy, q) >= m
    BY <1>5, <2>1
  <2>3. \A q \in Opens(s, fy) : o < q /\ q < p => Depth(s, fy, q) > Depth(s, fy, o)
    <3> SUFFICES ASSUME NEW q \in Opens(s, fy), o < q, q < p PROVE Depth(s, fy, q) > Depth(s, fy, o)
      OBVIOUS
    <3>1. q \in Nat
      BY <1>1, <1>2
    <3>2. q \in o + 1 .. p
      BY <1>1, <2>1, <3>1
    <3>3. Depth(s, fy, q) >= m /\ Depth(s, fy, q) \in Int
      BY <1>1, <2>2, <3>2, LevelInt
    <3> QED BY <2>2, <3>3
  <2>4. Depth(s, fy, p) = Depth(s, fy, o) + 1
    BY <1>4, <2>2
  <2> QED BY <1>2, <2>1, <2>2, <2>3, <2>4, ListedIs
<1>7. ASSUME NEW o \in Opens(s, fy), o < a
      PROVE  (\E k \in 1 .. m - 1 : o = F[k].from) \/ \E c \in Closes(s, fy) : c < a /\ IsList(s, fy, o, c)
  <2>1. o < b
    <3>1. o # p
      BY <1>2, LevelIs
    <3> QED BY <1>1, <1>2, <1>7, <3>1
  <2>2. CASE \E k \in 1 .. m : o = F[k].from
    <3>1. PICK k \in 1 .. m : o = F[k].from
      BY <2>2
    <3>2. CASE k = m
      BY <1>1, <1>2, <1>6, <3>1, <3>2
    <3>3. CASE k # m
      <4>1. k \in 1 .. m - 1
        BY <3>3
      <4> QED BY <3>1, <4>1
    <3> QED BY <3>2, <3>3
  <2>3. CASE \E c \in Closes(s, fy) : c < b /\ IsList(s, fy, o, c)
    <3>1. \A c \in Closes(s, fy) : c < b => c < a
      BY <1>1, <1>2
    <3> QED BY <2>3, <3>1
  <2> QED BY <2>1, <2>2, <2>3 DEF Stacked
<1>8. ASSUME NEW k \in 1 .. m - 1
      PROVE  /\ F[k].from \in Opens(s, fy) /\ F[k].from < a /\ Depth(s, fy, F[k].from) = k - 1
             /\ \A q \in F[k].from + 1 .. a : Depth(s, fy, q) >= k
  <2>1. k \in 1 .. m /\ k < m
    OBVIOUS
  <2> QED BY <1>5, <2>1
<1> QED BY <1>4, <1>6, <1>7, <1>8 DEF Stacked

(* The tildes; at b, those whose piece is not reached; those before the     *)
(* first m calls; those that delay the list at o.                           *)
Tildes(s, fy) == {t \in Pieces(s, fy) : s[t] = "~"}
Hanging(s, fy, b) == {t \in Tildes(s, fy) : t < b /\ PieceAfter(s, fy, t) >= b}
Before(s, fy, F, m) == {t \in Tildes(s, fy) : \E k \in 1 .. m : PieceAfter(s, fy, t) = F[k].from}
Delaying(s, fy, o) ==
  {t \in Tildes(s, fy) :
    /\ t < o /\ PieceAfter(s, fy, t) <= o
    /\ \A c \in Closes(s, fy) : c < o => ~IsList(s, fy, PieceAfter(s, fy, t), c)}
(* Every tilde before b still waits, or a parenthesis follows it.           *)
Attached(s, fy, b) ==
  \A t \in Tildes(s, fy) : t < b => PieceAfter(s, fy, t) >= b \/ PieceAfter(s, fy, t) \in Opens(s, fy)

(* The delay of a list counts the tildes before it and around it.           *)
LEMMA DelayIs ==
  ASSUME NEW s, NEW fy, NEW o
  PROVE  Delay(s, fy, o) = Cardinality(Delaying(s, fy, o))
<1>1. Delaying(s, fy, o) =
        {t \in Pieces(s, fy) :
          /\ s[t] = "~" /\ t < o
          /\ LET e == PieceAfter(s, fy, t)
             IN e <= o /\ \A c \in Closes(s, fy) : c < o => ~IsList(s, fy, e, c)}
  BY DEF Delaying, Tildes
<1> QED BY <1>1, Zenon DEF Delay

(* A tilde waits for the next piece, and only for that.                     *)
LEMMA TildeStep ==
  ASSUME NEW s, NEW fy, NEW b, NEW p, NEW a, Step(s, fy, b, p, a)
  PROVE  /\ \A t \in Tildes(s, fy) : t < b /\ PieceAfter(s, fy, t) >= b => PieceAfter(s, fy, t) = p
         /\ \A t \in Tildes(s, fy) : PieceAfter(s, fy, t) = p => t \in Hanging(s, fy, b)
         /\ Hanging(s, fy, p) = Hanging(s, fy, b)
         /\ s[p] # "~" => Hanging(s, fy, a) = {}
         /\ s[p] = "~" => Hanging(s, fy, a) = {p} /\ PieceAfter(s, fy, p) > p
<1>1. /\ Len(s) \in Nat /\ p \in 1 .. Len(s) /\ b \in 1 .. p /\ a \in p + 1 .. Len(s) + 2
      /\ p \in Pieces(s, fy) /\ Pieces(s, fy) \subseteq 1 .. Len(s)
      /\ \A q \in Pieces(s, fy) : (q < a <=> q < b \/ q = p) /\ (q < p <=> q < b)
  BY StepOver DEF Step
<1>2. \A t \in Tildes(s, fy) :
        /\ t \in Pieces(s, fy) /\ t \in Nat
        /\ PieceAfter(s, fy, t) \in Pieces(s, fy) \cup {Len(s) + 1} /\ PieceAfter(s, fy, t) > t
        /\ PieceAfter(s, fy, t) \in Nat
        /\ \A q \in Pieces(s, fy) : t < q => PieceAfter(s, fy, t) <= q
  BY <1>1, AfterIs DEF Tildes
<1>3. ASSUME NEW t \in Tildes(s, fy), t < b, PieceAfter(s, fy, t) >= b PROVE PieceAfter(s, fy, t) = p
  <2>1. PICK e \in Nat : PieceAfter(s, fy, t) = e
    BY <1>2
  <2>2. t < p /\ e <= p /\ e \in Pieces(s, fy)
    <3>1. t < p /\ t \in Nat
      BY <1>1, <1>2, <1>3
    <3>2. e <= p
      BY <1>1, <1>2, <2>1, <3>1
    <3> QED BY <1>1, <1>2, <2>1, <3>1, <3>2
  <2>3. ~(e < p)
    BY <1>1, <1>3, <2>1, <2>2
  <2> QED BY <1>1, <2>1, <2>2, <2>3
<1>4. ASSUME NEW t \in Tildes(s, fy), PieceAfter(s, fy, t) = p PROVE t \in Hanging(s, fy, b)
  <2>1. t < p /\ t \in Pieces(s, fy)
    BY <1>2, <1>4
  <2>2. t < b /\ p >= b
    BY <1>1, <2>1
  <2> QED BY <1>4, <2>2 DEF Hanging
<1>5. Hanging(s, fy, p) = Hanging(s, fy, b)
  <2>1. ASSUME NEW t \in Hanging(s, fy, b) PROVE t \in Hanging(s, fy, p)
    <3>1. t \in Tildes(s, fy) /\ t < b /\ PieceAfter(s, fy, t) >= b
      BY DEF Hanging
    <3>2. PieceAfter(s, fy, t) = p /\ t < p
      BY <1>1, <1>2, <1>3, <3>1
    <3> QED BY <1>1, <3>1, <3>2 DEF Hanging
  <2>2. ASSUME NEW t \in Hanging(s, fy, p) PROVE t \in Hanging(s, fy, b)
    <3>1. t \in Tildes(s, fy) /\ t < p /\ PieceAfter(s, fy, t) >= p
      BY DEF Hanging
    <3>2. t < b /\ PieceAfter(s, fy, t) >= b
      BY <1>1, <1>2, <3>1
    <3> QED BY <3>1, <3>2 DEF Hanging
  <2> QED BY <2>1, <2>2
<1>6. ASSUME NEW t \in Hanging(s, fy, a) PROVE t = p /\ s[p] = "~"
  <2>1. t \in Tildes(s, fy) /\ t < a /\ PieceAfter(s, fy, t) >= a
    BY DEF Hanging
  <2>2. ~(t < b)
    <3> SUFFICES ASSUME t < b PROVE FALSE
      OBVIOUS
    <3>1. PieceAfter(s, fy, t) >= b
      BY <1>1, <1>2, <2>1
    <3>2. PieceAfter(s, fy, t) = p
      BY <1>3, <2>1, <3>1
    <3> QED BY <1>1, <2>1, <3>2
  <2>3. t = p
    BY <1>1, <1>2, <2>1, <2>2
  <2> QED BY <2>1, <2>3 DEF Tildes
<1>7. ASSUME s[p] = "~" PROVE p \in Hanging(s, fy, a) /\ PieceAfter(s, fy, p) > p
  <2>1. p \in Tildes(s, fy)
    BY <1>1, <1>7 DEF Tildes
  <2>2. PICK e \in Nat : PieceAfter(s, fy, p) = e
    BY <1>2, <2>1
  <2>3. e > p /\ e \in Pieces(s, fy) \cup {Len(s) + 1}
    BY <1>2, <2>1, <2>2
  <2>4. a = p + 1
    <3>1. s[p] \in Blank \cup Marks(fy)
      BY <1>7, MarksAre
    <3>2. After(s, fy, p) = p + 1
      BY <1>1, <3>1, BehindOne
    <3> QED BY <3>2 DEF Step
  <2>5. e >= a
    BY <1>1, <2>3, <2>4
  <2> QED BY <1>1, <2>1, <2>2, <2>3, <2>5 DEF Hanging
<1> QED BY <1>3, <1>4, <1>5, <1>6, <1>7

LEMMA TildesFinite ==
  ASSUME NEW s, NEW fy, Len(s) \in Nat
  PROVE  /\ IsFiniteSet(Tildes(s, fy)) /\ Tildes(s, fy) \subseteq Pieces(s, fy)
         /\ \A F, m : IsFiniteSet(Before(s, fy, F, m)) /\ Before(s, fy, F, m) \subseteq Tildes(s, fy)
<1>1. IsFiniteSet(Pieces(s, fy))
  BY StartsFinite
<1>2. Tildes(s, fy) \subseteq Pieces(s, fy) /\ \A F, m : Before(s, fy, F, m) \subseteq Tildes(s, fy)
  BY DEF Tildes, Before
<1>3. IsFiniteSet(Tildes(s, fy))
  BY <1>1, <1>2, FS_Subset
<1> QED BY <1>2, <1>3, FS_Subset

LEMMA AttachMove ==
  ASSUME NEW s, NEW fy, NEW b, NEW p, NEW a, Step(s, fy, b, p, a), Attached(s, fy, b)
  PROVE  Attached(s, fy, p)
<1> SUFFICES ASSUME NEW t \in Tildes(s, fy), t < p
             PROVE  PieceAfter(s, fy, t) >= p \/ PieceAfter(s, fy, t) \in Opens(s, fy)
  BY DEF Attached
<1>1. p \in Nat /\ t < b
  BY StepOver DEF Tildes
<1>2. CASE PieceAfter(s, fy, t) >= b
  <2>1. PieceAfter(s, fy, t) = p
    BY <1>1, <1>2, TildeStep
  <2> QED BY <1>1, <2>1
<1> QED BY <1>1, <1>2 DEF Attached

LEMMA AttachPass ==
  ASSUME NEW s, NEW fy, NEW b, NEW p, NEW a, Step(s, fy, b, p, a), Attached(s, fy, b),
         s[p] = "(" \/ Hanging(s, fy, b) = {}
  PROVE  Attached(s, fy, a)
<1> SUFFICES ASSUME NEW t \in Tildes(s, fy), t < a
             PROVE  PieceAfter(s, fy, t) >= a \/ PieceAfter(s, fy, t) \in Opens(s, fy)
  BY DEF Attached
<1>1. p \in Pieces(s, fy) /\ (t < b \/ t = p)
  BY StepOver DEF Tildes, Step
<1>2. CASE t < b
  <2>1. CASE PieceAfter(s, fy, t) >= b
    <3>1. PieceAfter(s, fy, t) = p /\ t \in Hanging(s, fy, b)
      BY <1>2, <2>1, TildeStep DEF Hanging
    <3>2. p \in Opens(s, fy)
      BY <1>1, <3>1, LevelIs
    <3> QED BY <3>1, <3>2
  <2> QED BY <1>2, <2>1 DEF Attached
<1>3. CASE t = p
  <2>1. s[p] = "~"
    BY <1>3 DEF Tildes
  <2>2. p \in Hanging(s, fy, a)
    BY <2>1, TildeStep
  <2> QED BY <1>3, <2>2 DEF Hanging
<1> QED BY <1>1, <1>2, <1>3

(* A tilde before the parenthesis at p delays the list there, as those      *)
(* before the lists around it do.                                           *)
LEMMA DelayOpen ==
  ASSUME NEW s, NEW fy, NEW b, NEW p, NEW a, Step(s, fy, b, p, a), s[p] = "(", Attached(s, fy, b),
         NEW m \in Nat, NEW F, Stacked(s, fy, F, m, b),
         NEW G, \A k \in 1 .. m : G[k].from = F[k].from, G[m + 1].from = p
  PROVE  /\ Delaying(s, fy, p) = Before(s, fy, F, m) \cup Hanging(s, fy, b)
         /\ Before(s, fy, G, m + 1) = Before(s, fy, F, m) \cup Hanging(s, fy, b)
<1>1. /\ Len(s) \in Nat /\ p \in 1 .. Len(s) /\ b \in 1 .. p /\ a \in p + 1 .. Len(s) + 2
      /\ p \in Pieces(s, fy) /\ Pieces(s, fy) \subseteq 1 .. Len(s)
      /\ \A q \in Pieces(s, fy) : (q < a <=> q < b \/ q = p) /\ (q < p <=> q < b)
  BY StepOver DEF Step
<1>2. \A t \in Tildes(s, fy) :
        /\ t \in Pieces(s, fy) /\ t \in Nat
        /\ PieceAfter(s, fy, t) \in Pieces(s, fy) \cup {Len(s) + 1} /\ PieceAfter(s, fy, t) > t
        /\ PieceAfter(s, fy, t) \in Nat
        /\ \A q \in Pieces(s, fy) : t < q => PieceAfter(s, fy, t) <= q
  BY <1>1, AfterIs DEF Tildes
<1>3. Opens(s, fy) \subseteq Pieces(s, fy) /\ Closes(s, fy) \subseteq Pieces(s, fy)
  BY LevelIs
<1>4. ASSUME NEW t \in Hanging(s, fy, b)
      PROVE  t \in Tildes(s, fy) /\ t < b /\ PieceAfter(s, fy, t) = p
  BY TildeStep DEF Hanging
<1>5. ASSUME NEW t \in Hanging(s, fy, b) PROVE t \in Delaying(s, fy, p)
  <2>1. t \in Tildes(s, fy) /\ t < p /\ PieceAfter(s, fy, t) = p
    BY <1>1, <1>2, <1>4
  <2>2. \A c \in Closes(s, fy) : c < p => ~IsList(s, fy, p, c)
    <3> SUFFICES ASSUME NEW c \in Closes(s, fy), c < p, IsList(s, fy, p, c) PROVE FALSE
      OBVIOUS
    <3>1. p < c /\ c \in Nat
      BY <1>1, <1>3, ListIs
    <3> QED BY <1>1, <3>1
  <2>3. PieceAfter(s, fy, t) <= p
    BY <1>1, <2>1
  <2> QED BY <2>1, <2>2, <2>3 DEF Delaying
<1>6. ASSUME NEW t \in Before(s, fy, F, m) PROVE t \in Delaying(s, fy, p)
  <2>1. PICK k \in 1 .. m : t \in Tildes(s, fy) /\ PieceAfter(s, fy, t) = F[k].from
    BY DEF Before
  <2>2. PICK o \in Nat : F[k].from = o /\ o \in Opens(s, fy) /\ o < b
    <3>1. F[k].from \in Opens(s, fy) /\ F[k].from < b
      BY DEF Stacked
    <3> QED BY <1>1, <1>3, <3>1
  <2>3. Depth(s, fy, o) = k - 1 /\ \A q \in o + 1 .. b : Depth(s, fy, q) >= k
    <3>1. Depth(s, fy, F[k].from) = k - 1 /\ \A q \in F[k].from + 1 .. b : Depth(s, fy, q) >= k
      BY DEF Stacked
    <3> QED BY <2>2, <3>1
  <2>4. t < p /\ o <= p
    BY <1>1, <1>2, <2>1, <2>2
  <2>5. \A c \in Closes(s, fy) : c < p => ~IsList(s, fy, o, c)
    <3> SUFFICES ASSUME NEW c \in Closes(s, fy), c < p, IsList(s, fy, o, c) PROVE FALSE
      OBVIOUS
    <3>1. c \in Pieces(s, fy) /\ s[c] = ")" /\ c \in Nat /\ o < c /\ Depth(s, fy, c) = Depth(s, fy, o) + 1
      BY <1>1, <1>3, ListIs, LevelIs
    <3>2. c < b /\ c + 1 \in o + 1 .. b
      BY <1>1, <2>2, <3>1
    <3>3. Depth(s, fy, c + 1) = Depth(s, fy, c) - 1
      BY <1>1, <3>1, LevelNext
    <3>4. Depth(s, fy, c + 1) >= k
      BY <2>3, <3>2
    <3> QED BY <2>3, <3>1, <3>3, <3>4
  <2> QED BY <2>1, <2>2, <2>4, <2>5 DEF Delaying
<1>7. ASSUME NEW t \in Delaying(s, fy, p) PROVE t \in Before(s, fy, F, m) \cup Hanging(s, fy, b)
  <2>1. /\ t \in Tildes(s, fy) /\ t < p /\ PieceAfter(s, fy, t) <= p
        /\ \A c \in Closes(s, fy) : c < p => ~IsList(s, fy, PieceAfter(s, fy, t), c)
    BY DEF Delaying
  <2>2. t < b /\ PieceAfter(s, fy, t) \in Nat
    BY <1>1, <1>2, <2>1
  <2>3. CASE PieceAfter(s, fy, t) >= b
    BY <2>1, <2>2, <2>3 DEF Hanging
  <2>4. CASE ~(PieceAfter(s, fy, t) >= b)
    <3>1. PieceAfter(s, fy, t) \in Opens(s, fy) /\ PieceAfter(s, fy, t) < b
      BY <1>1, <2>1, <2>2, <2>4 DEF Attached
    <3>2. \A c \in Closes(s, fy) : c < b => c < p
      BY <1>1, <1>3
    <3>3. \E k \in 1 .. m : PieceAfter(s, fy, t) = F[k].from
      BY <2>1, <3>1, <3>2 DEF Stacked
    <3> QED BY <2>1, <3>3 DEF Before
  <2> QED BY <2>3, <2>4
<1>8. ASSUME NEW t \in Before(s, fy, F, m) \cup Hanging(s, fy, b) PROVE t \in Before(s, fy, G, m + 1)
  <2>1. CASE t \in Before(s, fy, F, m)
    <3>1. PICK k \in 1 .. m : t \in Tildes(s, fy) /\ PieceAfter(s, fy, t) = F[k].from
      BY <2>1 DEF Before
    <3>2. k \in 1 .. m + 1 /\ G[k].from = F[k].from
      OBVIOUS
    <3> QED BY <3>1, <3>2 DEF Before
  <2>2. CASE t \in Hanging(s, fy, b)
    <3>1. m + 1 \in 1 .. m + 1
      OBVIOUS
    <3> QED BY <1>4, <2>2, <3>1 DEF Before
  <2> QED BY <2>1, <2>2
<1>9. ASSUME NEW t \in Before(s, fy, G, m + 1) PROVE t \in Before(s, fy, F, m) \cup Hanging(s, fy, b)
  <2>1. PICK k \in 1 .. m + 1 : t \in Tildes(s, fy) /\ PieceAfter(s, fy, t) = G[k].from
    BY DEF Before
  <2>2. CASE k = m + 1
    BY <2>1, <2>2, TildeStep
  <2>3. CASE k # m + 1
    <3>1. k \in 1 .. m
      BY <2>3
    <3> QED BY <2>1, <3>1 DEF Before
  <2> QED BY <2>2, <2>3
<1> QED BY <1>5, <1>6, <1>7, <1>8, <1>9

(* One more tilde, and one more that waits for its list.                    *)
LEMMA DelayTilde ==
  ASSUME NEW s, NEW fy, NEW b, NEW p, NEW a, Step(s, fy, b, p, a), s[p] = "~",
         NEW m \in Nat, NEW F, Stacked(s, fy, F, m, b)
  PROVE  Cardinality(Before(s, fy, F, m) \cup Hanging(s, fy, a)) = Cardinality(Before(s, fy, F, m)) + 1
<1>1. Len(s) \in Nat /\ p \in Nat /\ b \in Nat /\ b <= p /\ Pieces(s, fy) \subseteq 1 .. Len(s)
  BY StepOver
<1>2. Hanging(s, fy, a) = {p} /\ PieceAfter(s, fy, p) > p
  BY TildeStep
<1>3. p \notin Before(s, fy, F, m)
  <2> SUFFICES ASSUME NEW k \in 1 .. m, PieceAfter(s, fy, p) = F[k].from PROVE FALSE
    BY DEF Before
  <2>1. F[k].from \in Opens(s, fy) /\ F[k].from < b
    BY DEF Stacked
  <2>2. F[k].from \in Nat
    BY <1>1, <2>1, LevelIs
  <2> QED BY <1>1, <1>2, <2>1, <2>2
<1>4. IsFiniteSet(Before(s, fy, F, m))
  BY <1>1, TildesFinite
<1>5. Cardinality(Before(s, fy, F, m) \cup {p}) = Cardinality(Before(s, fy, F, m)) + 1
  BY <1>3, <1>4, FS_AddElement
<1> QED BY <1>2, <1>5

-----------------------------------------------------------------------------
(* The items of a list                                                      *)

(* What is in the list opened at o, as far as it lies before b; and the     *)
(* items of a call that has read that much.                                 *)
Parts(s, fy, o, b, d) ==
  {p \in Pieces(s, fy) : o < p /\ p < b /\ s[p] \notin {")", "~"} /\ Depth(s, fy, p) = d}
Rank(P, q) == Cardinality({r \in P : r < q})
Listed(s, fy, items, P) ==
  /\ Len(items) = Cardinality(P)
  /\ \A q \in P : Rank(P, q) + 1 \in 1 .. Len(items) /\ items[Rank(P, q) + 1] = Element(s, fy, q)
  /\ \A n \in 1 .. Len(items) : \E q \in P : Rank(P, q) = n - 1

(* Nothing is in a list before its first piece.                             *)
LEMMA ListedNone ==
  ASSUME NEW s, NEW fy, NEW P, P = {}
  PROVE  Listed(s, fy, <<>>, P)
<1>1. Cardinality(P) = 0 /\ Len(<<>>) = 0
  BY FS_EmptySet
<1> QED BY <1>1 DEF Listed

(* One more part of the list, one more item of the call.                    *)
LEMMA ListedMore ==
  ASSUME NEW s, NEW fy, NEW P, IsFiniteSet(P), P \subseteq Nat, NEW S, NEW items \in Seq(S),
         Listed(s, fy, items, P), NEW x \in Nat, \A q \in P : q < x, NEW it \in S, it = Element(s, fy, x)
  PROVE  Listed(s, fy, Append(items, it), P \cup {x})
<1> PICK n \in Nat : Len(items) = n
  OBVIOUS
<1> PICK more : Append(items, it) = more
  OBVIOUS
<1> PICK Q : P \cup {x} = Q
  OBVIOUS
<1>1. Len(more) = n + 1 /\ more[n + 1] = it /\ \A k \in 1 .. n : more[k] = items[k]
  OBVIOUS
<1>2. x \notin P /\ Cardinality(P) = n
  BY DEF Listed
<1>3. Cardinality(Q) = n + 1
  BY <1>2, FS_AddElement
<1>4. \A q \in P : Rank(Q, q) = Rank(P, q)
  <2> SUFFICES ASSUME NEW q \in P PROVE Rank(Q, q) = Rank(P, q)
    OBVIOUS
  <2>1. q \in Nat /\ q < x
    OBVIOUS
  <2>2. {r \in Q : r < q} = {r \in P : r < q}
    BY <2>1
  <2> QED BY <2>2 DEF Rank
<1>5. Rank(Q, x) = n
  <2>1. ASSUME NEW r \in P PROVE r \in Q /\ r < x
    OBVIOUS
  <2>2. ASSUME NEW r \in Q, r < x PROVE r \in P
    <3>1. r \in P \/ r = x
      OBVIOUS
    <3> QED BY <2>2, <3>1
  <2>3. \A r : r \in {y \in Q : y < x} <=> r \in P
    BY <2>1, <2>2, Zenon
  <2>4. {y \in Q : y < x} = P
    BY <2>3, Zenon
  <2> QED BY <1>2, <2>4 DEF Rank
<1>6. ASSUME NEW q \in Q
      PROVE  Rank(Q, q) + 1 \in 1 .. n + 1 /\ more[Rank(Q, q) + 1] = Element(s, fy, q)
  <2>1. CASE q = x
    <3>1. n + 1 \in 1 .. n + 1
      OBVIOUS
    <3> QED BY <1>1, <1>5, <2>1, <3>1
  <2>2. CASE q # x
    <3>1. q \in P
      BY <2>2
    <3>2. Rank(P, q) + 1 \in 1 .. n /\ items[Rank(P, q) + 1] = Element(s, fy, q)
      BY <3>1 DEF Listed
    <3>3. PICK j \in 1 .. n : Rank(P, q) + 1 = j
      BY <3>2
    <3>4. Rank(Q, q) + 1 = j /\ j \in 1 .. n + 1
      BY <1>4, <3>1, <3>3
    <3> QED BY <1>1, <3>2, <3>3, <3>4
  <2> QED BY <2>1, <2>2
<1>7. ASSUME NEW k \in 1 .. n + 1
      PROVE  \E q \in Q : Rank(Q, q) = k - 1
  <2>1. CASE k = n + 1
    <3>1. x \in Q /\ Rank(Q, x) = k - 1
      BY <1>5, <2>1
    <3> QED BY <3>1
  <2>2. CASE k # n + 1
    <3>1. k \in 1 .. n
      BY <2>2
    <3>2. PICK q \in P : Rank(P, q) = k - 1
      BY <3>1 DEF Listed
    <3>3. q \in Q /\ Rank(Q, q) = k - 1
      BY <1>4, <3>2
    <3> QED BY <3>3
  <2> QED BY <2>1, <2>2
<1>8. Listed(s, fy, more, Q)
  BY <1>1, <1>3, <1>6, <1>7 DEF Listed
<1> QED BY <1>8

(* All parts, in order, are the items of the list.                          *)
LEMMA ListedAll ==
  ASSUME NEW s, NEW fy, NEW P, NEW S, NEW items \in Seq(S), Listed(s, fy, items, P)
  PROVE  items = [n \in DOMAIN InOrder(P) |-> Element(s, fy, InOrder(P)[n])]
<1> PICK N \in Nat : Len(items) = N
  OBVIOUS
<1>1. Cardinality(P) = N
  BY DEF Listed
<1>2. /\ DOMAIN InOrder(P) = 1 .. N
      /\ \A n \in 1 .. N : InOrder(P)[n] = CHOOSE p \in P : Cardinality({q \in P : q < p}) = n - 1
  BY <1>1 DEF InOrder
<1>3. ASSUME NEW n \in 1 .. N PROVE items[n] = Element(s, fy, InOrder(P)[n])
  <2>1. \E q \in P : Cardinality({r \in P : r < q}) = n - 1
    BY DEF Listed, Rank
  <2>2. PICK p : InOrder(P)[n] = p
    OBVIOUS
  <2>3. p \in P /\ Cardinality({q \in P : q < p}) = n - 1
    BY <1>2, <2>1, <2>2
  <2>4. Rank(P, p) + 1 = n
    BY <2>3 DEF Rank
  <2>5. items[Rank(P, p) + 1] = Element(s, fy, p)
    BY <2>3 DEF Listed
  <2> QED BY <2>2, <2>4, <2>5
<1>4. DOMAIN items = 1 .. N /\ items = [n \in 1 .. N |-> items[n]]
  OBVIOUS
<1> QED BY <1>2, <1>3, <1>4

LEMMA PartsSet ==
  ASSUME NEW s, NEW fy, Len(s) \in Nat, NEW o, NEW b, NEW d
  PROVE  /\ Parts(s, fy, o, b, d) \subseteq Nat /\ IsFiniteSet(Parts(s, fy, o, b, d))
         /\ \A q \in Parts(s, fy, o, b, d) : q < b
<1>1. Parts(s, fy, o, b, d) \subseteq Pieces(s, fy) /\ \A q \in Parts(s, fy, o, b, d) : q < b
  BY DEF Parts
<1>2. Pieces(s, fy) \subseteq 1 .. Len(s) /\ IsFiniteSet(Pieces(s, fy))
  BY StartsFinite
<1> QED BY <1>1, <1>2, FS_Subset

LEMMA PartsMove ==
  ASSUME NEW s, NEW fy, NEW b, NEW p, NEW a, Step(s, fy, b, p, a), NEW o, NEW d
  PROVE  /\ Parts(s, fy, o, p, d) = Parts(s, fy, o, b, d)
         /\ s[p] \in {")", "~"} => Parts(s, fy, o, a, d) = Parts(s, fy, o, b, d)
         /\ s[p] \notin {")", "~"} /\ o < p /\ Depth(s, fy, p) = d =>
              Parts(s, fy, o, a, d) = Parts(s, fy, o, b, d) \cup {p}
<1>1. /\ p \in Pieces(s, fy)
      /\ \A q \in Pieces(s, fy) : (q < a <=> q < b \/ q = p) /\ (q < p <=> q < b)
      /\ p < a
  BY StepOver DEF Step
<1> QED BY <1>1 DEF Parts

(* The lists on the stack opened one after another.                         *)
LEMMA StackOrder ==
  ASSUME NEW s, NEW fy, Len(s) \in Nat, NEW b \in Nat, NEW m \in Nat, NEW F, Stacked(s, fy, F, m, b),
         NEW k \in 1 .. m, k < m
  PROVE  F[k].from < F[k + 1].from
<1>1. Opens(s, fy) \subseteq Nat
  BY StartsFinite, LevelIs
<1>2. PICK o \in Nat : /\ F[k].from = o /\ o < b /\ Depth(s, fy, o) = k - 1
  BY <1>1 DEF Stacked
<1>3. PICK e \in Nat : /\ F[k + 1].from = e /\ Depth(s, fy, e) = k
                       /\ \A q \in e + 1 .. b : Depth(s, fy, q) >= k + 1
  <2>1. k + 1 \in 1 .. m
    OBVIOUS
  <2>2. /\ F[k + 1].from \in Opens(s, fy) /\ Depth(s, fy, F[k + 1].from) = (k + 1) - 1
        /\ \A q \in F[k + 1].from + 1 .. b : Depth(s, fy, q) >= k + 1
    BY <2>1 DEF Stacked
  <2>3. (k + 1) - 1 = k
    OBVIOUS
  <2> QED BY <1>1, <2>2, <2>3
<1>4. o # e
  BY <1>2, <1>3
<1>5. ~(e < o)
  <2> SUFFICES ASSUME e < o PROVE FALSE
    OBVIOUS
  <2>1. o \in e + 1 .. b
    BY <1>2
  <2>2. Depth(s, fy, o) >= k + 1
    BY <1>3, <2>1
  <2> QED BY <1>2, <2>2
<1> QED BY <1>2, <1>3, <1>4, <1>5

(* What the first m calls hold when the text is read up to b: the lists     *)
(* around b, the tildes that delay them, and what each contains so far.     *)
Full(s, fy, F, k, e) == Listed(s, fy, F[k].items, Parts(s, fy, F[k].from, e, k))
Delayed(s, fy, F, k) == /\ F[k].delay = Cardinality(Before(s, fy, F, k))
                        /\ Delaying(s, fy, F[k].from) = Before(s, fy, F, k)
Core(s, fy, F, m, b) ==
  /\ Stacked(s, fy, F, m, b) /\ Attached(s, fy, b)
  /\ \A k \in 1 .. m : Delayed(s, fy, F, k) /\ (k < m => Full(s, fy, F, k, F[k + 1].from))
  /\ m > 0 => Full(s, fy, F, m, b)

(* G holds the lists of the first m calls of F, the items of the last one   *)
(* apart.                                                                   *)
Agree(F, G, m) == \A k \in 1 .. m : /\ G[k].from = F[k].from /\ G[k].delay = F[k].delay
                                    /\ k < m => G[k].items = F[k].items

LEMMA AgreeOn ==
  ASSUME NEW s, NEW fy, NEW m \in Nat, NEW F, NEW G, Agree(F, G, m)
  PROVE  /\ \A k \in 1 .. m : Delayed(s, fy, F, k) => Delayed(s, fy, G, k)
         /\ \A k \in 1 .. m - 1 : Full(s, fy, F, k, F[k + 1].from) => Full(s, fy, G, k, G[k + 1].from)
         /\ \A k \in 0 .. m : Before(s, fy, G, k) = Before(s, fy, F, k)
<1>1. ASSUME NEW k \in 0 .. m PROVE Before(s, fy, G, k) = Before(s, fy, F, k)
  <2>1. \A j \in 1 .. k : G[j].from = F[j].from
    BY DEF Agree
  <2> QED BY <2>1 DEF Before
<1>2. ASSUME NEW k \in 1 .. m, Delayed(s, fy, F, k) PROVE Delayed(s, fy, G, k)
  <2>1. Before(s, fy, G, k) = Before(s, fy, F, k)
    BY <1>1
  <2>2. G[k].from = F[k].from /\ G[k].delay = F[k].delay
    BY DEF Agree
  <2> QED BY <1>2, <2>1, <2>2 DEF Delayed
<1>3. ASSUME NEW k \in 1 .. m - 1, Full(s, fy, F, k, F[k + 1].from) PROVE Full(s, fy, G, k, G[k + 1].from)
  <2>1. k \in 1 .. m /\ k + 1 \in 1 .. m /\ k < m
    OBVIOUS
  <2>2. G[k].from = F[k].from /\ G[k + 1].from = F[k + 1].from /\ G[k].items = F[k].items
    BY <2>1 DEF Agree
  <2> QED BY <1>3, <2>2, Zenon DEF Full
<1> QED BY <1>1, <1>2, <1>3

(* Up to the next piece nothing changes.                                    *)
LEMMA CoreMove ==
  ASSUME NEW s, NEW fy, NEW b, NEW p, NEW a, Step(s, fy, b, p, a), NEW m \in Nat, NEW F, Core(s, fy, F, m, b)
  PROVE  Core(s, fy, F, m, p)
<1>1. Stacked(s, fy, F, m, p) /\ Attached(s, fy, p)
  BY StackMove, AttachMove DEF Core
<1>2. ASSUME m > 0 PROVE Full(s, fy, F, m, p)
  <2>1. Parts(s, fy, F[m].from, p, m) = Parts(s, fy, F[m].from, b, m)
    BY PartsMove
  <2>2. Full(s, fy, F, m, b)
    BY <1>2 DEF Core
  <2> QED BY <2>1, <2>2 DEF Full
<1> QED BY <1>1, <1>2 DEF Core

(* A tilde.                                                                 *)
LEMMA CoreTilde ==
  ASSUME NEW s, NEW fy, NEW b, NEW p, NEW a, Step(s, fy, b, p, a), s[p] = "~",
         NEW m \in Nat, NEW F, Core(s, fy, F, m, b), Hanging(s, fy, b) = {}
  PROVE  Core(s, fy, F, m, a)
<1>1. Stacked(s, fy, F, m, a) /\ Attached(s, fy, a)
  BY StackPass, AttachPass DEF Core
<1>2. ASSUME m > 0 PROVE Full(s, fy, F, m, a)
  <2>1. Parts(s, fy, F[m].from, a, m) = Parts(s, fy, F[m].from, b, m)
    BY PartsMove
  <2>2. Full(s, fy, F, m, b)
    BY <1>2 DEF Core
  <2> QED BY <2>1, <2>2 DEF Full
<1> QED BY <1>1, <1>2 DEF Core

(* A word: an item of the innermost list.                                   *)
LEMMA CoreWord ==
  ASSUME NEW s, NEW fy, NEW b, NEW p, NEW a, Step(s, fy, b, p, a), s[p] \notin {"(", ")", "~"},
         NEW m \in Nat, m >= 1, NEW F, Core(s, fy, F, m, b), Hanging(s, fy, b) = {},
         NEW S, F[m].items \in Seq(S), NEW it \in S, it = Element(s, fy, p),
         NEW G, Agree(F, G, m), G[m].items = Append(F[m].items, it)
  PROVE  Core(s, fy, G, m, a)
<1>1. Len(s) \in Nat /\ p \in Nat /\ b \in Nat /\ b <= p
  BY StepOver
<1>2. Stacked(s, fy, F, m, b) /\ Attached(s, fy, b) /\ Full(s, fy, F, m, b)
  BY DEF Core
<1>3. Stacked(s, fy, F, m, a) /\ Attached(s, fy, a)
  BY <1>2, StackPass, AttachPass
<1>4. Stacked(s, fy, G, m, a)
  BY <1>3, StackSame DEF Agree
<1>5. ASSUME NEW k \in 1 .. m
      PROVE  Delayed(s, fy, G, k) /\ (k < m => Full(s, fy, G, k, G[k + 1].from))
  <2>1. Delayed(s, fy, F, k) /\ (k < m => Full(s, fy, F, k, F[k + 1].from))
    BY DEF Core
  <2>2. k < m => k \in 1 .. m - 1
    OBVIOUS
  <2> QED BY <2>1, <2>2, AgreeOn
<1>6. Full(s, fy, G, m, a)
  <2>1. PICK o : F[m].from = o
    OBVIOUS
  <2>2. PICK P : Parts(s, fy, o, b, m) = P
    OBVIOUS
  <2>3. G[m].from = o
    BY <2>1 DEF Agree
  <2>4. o \in Nat /\ o < p /\ Depth(s, fy, p) = m
    <3>1. F[m].from \in Opens(s, fy) /\ F[m].from < b
      BY <1>2 DEF Stacked
    <3>2. o \in Nat
      BY <1>1, <2>1, <3>1, StartsFinite, LevelIs
    <3>3. Depth(s, fy, b) = m
      BY <1>2 DEF Stacked
    <3>4. p \in b .. p
      BY <1>1
    <3> QED BY <1>1, <2>1, <3>1, <3>2, <3>3, <3>4, StepLevels
  <2>5. Parts(s, fy, o, a, m) = P \cup {p}
    BY <2>2, <2>4, PartsMove
  <2>6. IsFiniteSet(P) /\ P \subseteq Nat /\ \A q \in P : q < b
    BY <1>1, <2>2, PartsSet
  <2>7. \A q \in P : q < p
    BY <1>1, <2>6
  <2>8. PICK items \in Seq(S) : F[m].items = items
    OBVIOUS
  <2>9. Listed(s, fy, items, P)
    BY <1>2, <2>1, <2>2, <2>8 DEF Full
  <2>10. Listed(s, fy, Append(items, it), P \cup {p})
    BY <1>1, <2>6, <2>7, <2>9, ListedMore
  <2>11. G[m].items = Append(items, it)
    BY <2>8
  <2> QED BY <2>3, <2>5, <2>10, <2>11, Zenon DEF Full
<1> QED BY <1>3, <1>4, <1>5, <1>6 DEF Core

(* An opening parenthesis: a call of its own.                               *)
LEMMA CoreOpen ==
  ASSUME NEW s, NEW fy, NEW b, NEW p, NEW a, Step(s, fy, b, p, a), s[p] = "(",
         NEW m \in Nat, NEW F, Core(s, fy, F, m, b),
         NEW G, \A k \in 1 .. m : G[k] = F[k], G[m + 1].from = p, G[m + 1].items = <<>>,
         G[m + 1].delay = Cardinality(Before(s, fy, F, m) \cup Hanging(s, fy, b))
  PROVE  Core(s, fy, G, m + 1, a)
<1>1. /\ Len(s) \in Nat /\ p \in Nat /\ b \in Nat /\ b <= p
      /\ \A q \in Pieces(s, fy) : q < a <=> q < b \/ q = p
      /\ Pieces(s, fy) \subseteq 1 .. Len(s)
  BY StepOver
<1>2. Stacked(s, fy, F, m, b) /\ Attached(s, fy, b)
  BY DEF Core
<1>3. Stacked(s, fy, G, m + 1, a)
  BY <1>2, StackOpen
<1>4. Attached(s, fy, a)
  BY <1>2, AttachPass
<1>5. Agree(F, G, m)
  BY DEF Agree
<1>6. Core(s, fy, F, m, p)
  BY CoreMove
<1>7. ASSUME NEW k \in 1 .. m + 1
      PROVE  Delayed(s, fy, G, k) /\ (k < m + 1 => Full(s, fy, G, k, G[k + 1].from))
  <2>1. CASE k = m + 1
    <3>1. /\ Delaying(s, fy, p) = Before(s, fy, F, m) \cup Hanging(s, fy, b)
          /\ Before(s, fy, G, m + 1) = Before(s, fy, F, m) \cup Hanging(s, fy, b)
      BY <1>2, DelayOpen
    <3>2. /\ G[m + 1].delay = Cardinality(Before(s, fy, G, m + 1))
          /\ Delaying(s, fy, G[m + 1].from) = Before(s, fy, G, m + 1)
      BY <3>1
    <3>3. Delayed(s, fy, G, m + 1)
      BY <3>2, Zenon DEF Delayed
    <3> QED BY <2>1, <3>3
  <2>2. CASE k = m
    <3>1. Delayed(s, fy, F, m) /\ Full(s, fy, F, m, p)
      BY <1>6, <2>2 DEF Core
    <3>2. Delayed(s, fy, G, m)
      BY <1>5, <2>2, <3>1, AgreeOn
    <3>3. Full(s, fy, G, m, p)
      BY <2>2, <3>1 DEF Full
    <3> QED BY <2>2, <3>2, <3>3
  <2>3. CASE k \in 1 .. m - 1
    <3>1. Delayed(s, fy, F, k) /\ Full(s, fy, F, k, F[k + 1].from)
      BY <2>3 DEF Core
    <3>2. k \in 1 .. m
      BY <2>3
    <3> QED BY <1>5, <2>3, <3>1, <3>2, AgreeOn
  <2> QED BY <2>1, <2>2, <2>3
<1>8. Full(s, fy, G, m + 1, a)
  <2>1. Parts(s, fy, p, a, m + 1) = {}
    <3> SUFFICES ASSUME NEW q \in Parts(s, fy, p, a, m + 1) PROVE FALSE
      OBVIOUS
    <3>1. q \in Pieces(s, fy) /\ p < q /\ q < a
      BY DEF Parts
    <3> QED BY <1>1, <3>1
  <2>2. Listed(s, fy, <<>>, Parts(s, fy, p, a, m + 1))
    BY <2>1, ListedNone
  <2> QED BY <2>2 DEF Full
<1> QED BY <1>3, <1>4, <1>7, <1>8 DEF Core

(* The elements: a word, or a list and the tildes that delay it.            *)
LEMMA ElementIs ==
  ASSUME NEW s, NEW fy, NEW p
  PROVE  /\ s[p] \notin Marks(fy) \cup {"#"} => Element(s, fy, p) = Item("word", Word(s, fy, p), 0)
         /\ s[p] = "(" => \A d : d = Delay(s, fy, p) =>
              Element(s, fy, p) = Item(IF d = 0 THEN "value" ELSE "list", <<p>>, d)
<1>1. ASSUME s[p] \notin Marks(fy) \cup {"#"}
      PROVE  Element(s, fy, p) = Item("word", Word(s, fy, p), 0)
  <2>1. IsWord(s, fy, p)
    BY <1>1, MarksAre DEF IsWord
  <2> QED BY <2>1, Zenon DEF Element
<1>2. ASSUME s[p] = "(", NEW d, d = Delay(s, fy, p)
      PROVE  Element(s, fy, p) = Item(IF d = 0 THEN "value" ELSE "list", <<p>>, d)
  <2>1. ~IsWord(s, fy, p)
    BY <1>2 DEF IsWord, Special, Quotes
  <2> QED BY <1>2, <2>1, Zenon DEF Element
<1> QED BY <1>1, <1>2

(* What is in the list at o, read up to the parenthesis that closes it.     *)
LEMMA ListHolds ==
  ASSUME NEW s, NEW fy, NEW o, NEW c, NEW d, d = Depth(s, fy, o) + 1, NEW S, NEW items \in Seq(S),
         Listed(s, fy, items, Parts(s, fy, o, c, d))
  PROVE  ListAt(s, fy, o, c) = [from |-> o, to |-> c, delay |-> Delay(s, fy, o), items |-> items]
<1>1. PICK P : Parts(s, fy, o, c, d) = P
  OBVIOUS
<1>2. P = {p \in Pieces(s, fy) : /\ o < p /\ p < c /\ s[p] \notin {")", "~"}
                                 /\ Depth(s, fy, p) = Depth(s, fy, o) + 1}
  BY <1>1 DEF Parts
<1>3. ListAt(s, fy, o, c) =
        [from |-> o, to |-> c, delay |-> Delay(s, fy, o),
         items |-> [n \in DOMAIN InOrder(P) |-> Element(s, fy, InOrder(P)[n])]]
  BY <1>2, Zenon DEF ListAt
<1>4. items = [n \in DOMAIN InOrder(P) |-> Element(s, fy, InOrder(P)[n])]
  BY <1>1, ListedAll
<1> QED BY <1>3, <1>4, Zenon

(* A closing parenthesis: what the call holds is the list of the text.      *)
LEMMA CoreClose ==
  ASSUME NEW s, NEW fy, NEW b, NEW p, NEW a, Step(s, fy, b, p, a), s[p] = ")",
         NEW m \in Nat, m >= 1, NEW F, Core(s, fy, F, m, b), NEW S, F[m].items \in Seq(S)
  PROVE  /\ IsList(s, fy, F[m].from, p)
         /\ Delay(s, fy, F[m].from) = F[m].delay
         /\ ListAt(s, fy, F[m].from, p) =
              [from |-> F[m].from, to |-> p, delay |-> F[m].delay, items |-> F[m].items]
<1>1. Core(s, fy, F, m, p)
  BY CoreMove
<1>2. PICK o : F[m].from = o
  OBVIOUS
<1>2a. PICK items \in Seq(S) : F[m].items = items
  OBVIOUS
<1>3. IsList(s, fy, o, p)
  BY <1>2, StackClose DEF Core
<1>4. Depth(s, fy, o) + 1 = m
  <2>1. Depth(s, fy, o) = m - 1
    BY <1>2 DEF Core, Stacked
  <2> QED BY <2>1
<1>5. Listed(s, fy, items, Parts(s, fy, o, p, m))
  BY <1>1, <1>2, <1>2a DEF Core, Full
<1>6. ListAt(s, fy, o, p) = [from |-> o, to |-> p, delay |-> Delay(s, fy, o), items |-> items]
  BY <1>4, <1>5, ListHolds
<1>7. Delay(s, fy, o) = F[m].delay
  <2>1. Delayed(s, fy, F, m)
    BY DEF Core
  <2>2. Delay(s, fy, o) = Cardinality(Delaying(s, fy, o))
    BY DelayIs
  <2> QED BY <1>2, <2>1, <2>2 DEF Delayed
<1> QED BY <1>2, <1>2a, <1>3, <1>6, <1>7

(* What the caller holds then, with the item it is given.                   *)
LEMMA CoreUnder ==
  ASSUME NEW s, NEW fy, NEW b, NEW p, NEW a, Step(s, fy, b, p, a), s[p] = ")",
         NEW m \in Nat, m >= 1, NEW F, Core(s, fy, F, m, b), Hanging(s, fy, b) = {}, NEW G, Agree(F, G, m - 1),
         NEW S, NEW it \in S, it = Element(s, fy, F[m].from),
         m > 1 => F[m - 1].items \in Seq(S) /\ G[m - 1].items = Append(F[m - 1].items, it)
  PROVE  Core(s, fy, G, m - 1, a)
<1>1. PICK w \in Nat : m - 1 = w
  <2>1. m - 1 \in Nat
    OBVIOUS
  <2> QED BY <2>1
<1>2. Stacked(s, fy, F, m, b) /\ Attached(s, fy, b) /\ Agree(F, G, w)
  BY <1>1 DEF Core
<1>3. /\ Len(s) \in Nat /\ p \in Nat /\ b \in Nat /\ a \in Nat /\ b <= p /\ p < a
      /\ \A q \in Pieces(s, fy) : q < a <=> q < b \/ q = p
      /\ Pieces(s, fy) \subseteq 1 .. Len(s)
  BY StepOver
<1>4. Stacked(s, fy, G, w, a)
  <2>1. Stacked(s, fy, F, w, a)
    BY <1>1, <1>2, StackClose
  <2> QED BY <1>2, <2>1, StackSame DEF Agree
<1>5. Attached(s, fy, a)
  BY <1>2, AttachPass
<1>6. ASSUME NEW k \in 1 .. w
      PROVE  Delayed(s, fy, G, k) /\ (k < w => Full(s, fy, G, k, G[k + 1].from))
  <2>1. k \in 1 .. m /\ k < m
    BY <1>1
  <2>2. Delayed(s, fy, F, k) /\ Full(s, fy, F, k, F[k + 1].from)
    BY <2>1 DEF Core
  <2>3. k < w => k \in 1 .. w - 1
    OBVIOUS
  <2> QED BY <1>2, <2>2, <2>3, AgreeOn
<1>7. ASSUME w > 0 PROVE Full(s, fy, G, w, a)
  <2>1. w \in 1 .. m /\ w < m /\ w + 1 = m
    BY <1>1, <1>7
  <2>2. PICK o, e : F[w].from = o /\ F[m].from = e
    OBVIOUS
  <2>3. /\ e \in Opens(s, fy) /\ e < b /\ Depth(s, fy, e) = w /\ \A q \in e + 1 .. b : Depth(s, fy, q) >= m
        /\ o \in Opens(s, fy)
    <3>1. m \in 1 .. m /\ m - 1 = w
      BY <1>1
    <3> QED BY <1>2, <2>1, <2>2, <3>1 DEF Stacked
  <2>4. e \in Pieces(s, fy) /\ s[e] = "(" /\ e \in Nat /\ o \in Nat
    BY <1>3, <2>3, LevelIs
  <2>5. o < e
    BY <1>2, <1>3, <2>1, <2>2, StackOrder
  <2>6. PICK P : Parts(s, fy, o, e, w) = P
    OBVIOUS
  <2>7. ASSUME NEW q \in Parts(s, fy, o, a, w) PROVE q \in P \cup {e}
    <3>1. /\ q \in Pieces(s, fy) /\ o < q /\ q < a /\ s[q] \notin {")", "~"} /\ Depth(s, fy, q) = w
          /\ q \in Nat
      BY <1>3 DEF Parts
    <3>2. q < b
      BY <1>3, <3>1
    <3>3. ~(q > e)
      <4> SUFFICES ASSUME q > e PROVE FALSE
        OBVIOUS
      <4>1. q \in e + 1 .. b
        BY <1>3, <2>4, <3>1, <3>2
      <4>2. Depth(s, fy, q) >= m
        BY <2>3, <4>1
      <4> QED BY <2>1, <3>1, <4>2
    <3>4. CASE q = e
      BY <3>4
    <3>5. CASE q < e
      BY <2>6, <3>1, <3>5 DEF Parts
    <3> QED BY <2>4, <3>1, <3>3, <3>4, <3>5
  <2>8. ASSUME NEW q \in P \cup {e} PROVE q \in Parts(s, fy, o, a, w)
    <3>1. e < a
      BY <1>3, <2>3, <2>4
    <3>2. CASE q = e
      BY <2>3, <2>4, <2>5, <3>1, <3>2 DEF Parts
    <3>3. CASE q \in P
      <4>1. q \in Pieces(s, fy) /\ o < q /\ q < e /\ s[q] \notin {")", "~"} /\ Depth(s, fy, q) = w
        BY <2>6, <3>3 DEF Parts
      <4>2. q < a
        BY <1>3, <2>4, <3>1, <4>1
      <4> QED BY <4>1, <4>2 DEF Parts
    <3> QED BY <3>2, <3>3
  <2>9. Parts(s, fy, o, a, w) = P \cup {e}
    BY <2>7, <2>8
  <2>10. IsFiniteSet(P) /\ P \subseteq Nat /\ \A q \in P : q < e
    BY <1>3, <2>6, PartsSet
  <2>11. PICK items \in Seq(S) : F[w].items = items /\ G[w].items = Append(items, it)
    BY <1>1, <2>1
  <2>12. Listed(s, fy, items, P)
    BY <2>1, <2>2, <2>6, <2>11 DEF Core, Full
  <2>13. Listed(s, fy, Append(items, it), P \cup {e})
    BY <2>2, <2>4, <2>10, <2>12, ListedMore
  <2>14. w \in 1 .. w /\ G[w].from = o
    <3>1. w \in 1 .. w
      BY <1>7
    <3> QED BY <1>2, <2>2, <3>1 DEF Agree
  <2> QED BY <2>9, <2>11, <2>13, <2>14, Zenon DEF Full
<1>8. Core(s, fy, G, w, a)
  BY <1>4, <1>5, <1>6, <1>7 DEF Core
<1> QED BY <1>1, <1>8

LEMMA CoreSame ==
  ASSUME NEW s, NEW fy, NEW b, NEW m \in Nat, NEW F, Core(s, fy, F, m, b), NEW G, \A k \in 1 .. m : G[k] = F[k]
  PROVE  Core(s, fy, G, m, b) /\ Before(s, fy, G, m) = Before(s, fy, F, m)
<1>1. Agree(F, G, m)
  BY DEF Agree
<1>2. Stacked(s, fy, G, m, b) /\ Attached(s, fy, b)
  BY StackSame DEF Core
<1>3. ASSUME NEW k \in 1 .. m
      PROVE  Delayed(s, fy, G, k) /\ (k < m => Full(s, fy, G, k, G[k + 1].from))
  <2>1. Delayed(s, fy, F, k) /\ (k < m => Full(s, fy, F, k, F[k + 1].from))
    BY DEF Core
  <2>2. k < m => k \in 1 .. m - 1
    OBVIOUS
  <2> QED BY <1>1, <2>1, <2>2, AgreeOn
<1>4. ASSUME m > 0 PROVE Full(s, fy, G, m, b)
  <2>1. m \in 1 .. m /\ Full(s, fy, F, m, b)
    BY <1>4 DEF Core
  <2>2. G[m] = F[m]
    BY <2>1
  <2> QED BY <2>1, <2>2, Zenon DEF Full
<1>5. m \in 0 .. m
  OBVIOUS
<1> QED BY <1>1, <1>2, <1>3, <1>4, <1>5, AgreeOn DEF Core

(* The calls below the innermost one.                                       *)
LEMMA FramesAre ==
  ASSUME frames \in Seq(Calls), frames # <<>>, NEW N \in Nat, Len(frames) = N
  PROVE  /\ N >= 1 /\ Top = frames[N] /\ Top \in Calls /\ (Under = <<>> <=> N = 1)
         /\ \A x : /\ Len(Append(Under, x)) = N /\ Append(Under, x)[N] = x
                   /\ \A k \in 1 .. N - 1 : Append(Under, x)[k] = frames[k]
         /\ \A x : /\ Len(Append(frames, x)) = N + 1 /\ Append(frames, x)[N + 1] = x
                   /\ \A k \in 1 .. N : Append(frames, x)[k] = frames[k]
         /\ Under # <<>> =>
              /\ Last(Under) = frames[N - 1] /\ Last(Under) \in Calls /\ N > 1
              /\ \A x : /\ Len(Append(Front(Under), x)) = N - 1 /\ Append(Front(Under), x)[N - 1] = x
                        /\ \A k \in 1 .. (N - 1) - 1 : Append(Front(Under), x)[k] = frames[k]
<1>1. N >= 1
  OBVIOUS
<1>2. PICK u \in Seq(Calls) : Under = u
  BY LastFront DEF Under
<1>3. /\ Top = frames[N] /\ Top \in Calls /\ Len(u) = N - 1 /\ (u = <<>> <=> N = 1)
      /\ \A k \in 1 .. N - 1 : u[k] = frames[k]
  BY <1>2, LastFront DEF Top, Under
<1>4. ASSUME NEW x
      PROVE  /\ Len(Append(u, x)) = N /\ Append(u, x)[N] = x
             /\ \A k \in 1 .. N - 1 : Append(u, x)[k] = frames[k]
  BY <1>1, <1>3
<1>5. ASSUME NEW x
      PROVE  /\ Len(Append(frames, x)) = N + 1 /\ Append(frames, x)[N + 1] = x
             /\ \A k \in 1 .. N : Append(frames, x)[k] = frames[k]
  BY <1>1
<1>6. ASSUME u # <<>>
      PROVE  /\ Last(u) = frames[N - 1] /\ Last(u) \in Calls /\ N > 1
             /\ \A x : /\ Len(Append(Front(u), x)) = N - 1 /\ Append(Front(u), x)[N - 1] = x
                       /\ \A k \in 1 .. (N - 1) - 1 : Append(Front(u), x)[k] = frames[k]
  <2>1. N > 1
    BY <1>1, <1>3, <1>6
  <2>2. PICK v \in Seq(Calls) : Front(u) = v
    BY <1>6, LastFront
  <2>3. /\ Last(u) = u[N - 1] /\ Last(u) \in Calls /\ Len(v) = (N - 1) - 1
        /\ \A k \in 1 .. (N - 1) - 1 : v[k] = u[k]
    <3>1. /\ Last(u) = u[Len(u)] /\ Last(u) \in Calls /\ Len(v) = Len(u) - 1
          /\ \A k \in 1 .. Len(u) - 1 : v[k] = u[k]
      BY <1>6, <2>2, LastFront
    <3> QED BY <1>3, <3>1
  <2>4. Last(u) = frames[N - 1] /\ \A k \in 1 .. (N - 1) - 1 : v[k] = frames[k]
    BY <1>3, <2>1, <2>3
  <2>5. ASSUME NEW x
        PROVE  /\ Len(Append(v, x)) = N - 1 /\ Append(v, x)[N - 1] = x
               /\ \A k \in 1 .. (N - 1) - 1 : Append(v, x)[k] = frames[k]
    BY <2>1, <2>3, <2>4
  <2> QED BY <2>1, <2>2, <2>3, <2>4, <2>5
<1> QED BY <1>1, <1>2, <1>3, <1>4, <1>5, <1>6

(* The token the parser looks at, among the pieces.                         *)
LEMMA TokenPiece ==
  ASSUME NEW n \in Nat, Readable(n), pos \in Nat, NEW b, Bound(n, pos, b),
         Token.kind \in {"word", "(", ")", "~"}
  PROVE  \E p, a : /\ Step(text, fancy, b, p, a) /\ Bound(n, Token.next, a)
                   /\ Token.next \in 1 .. n
                   /\ IF Token.kind = "word"
                      THEN text[p] \notin Marks(fancy) \cup {"#"} /\ Token.chars = Word(text, fancy, p)
                      ELSE /\ text[p] = Token.kind /\ text[p] \in Marks(fancy) /\ a = p + 1
                           /\ buff[Token.next] = p /\ Bound(n, Token.next - 1, p)
<1>1. PICK t : Token = t
  OBVIOUS
<1>2. pos \in 0 .. n /\ Len(text) \in Nat /\ b \in 1 .. Len(text) + 1
  BY DEF Bound, Readable
<1>3. Token = Tokens[pos]["skip"][pos]
  BY Zenon DEF Token, NextToken
<1>4. t.kind # End
  BY <1>1 DEF End
<1>5. Reads(n, pos, b, t)
  BY <1>1, <1>2, <1>3, <1>4, TokenReads
<1>6. PICK p \in Pieces(text, fancy) :
        /\ Nearest(text, fancy, b, p) /\ Edge(text, fancy, p)
        /\ t.next \in pos + 1 .. n /\ Bound(n, t.next, After(text, fancy, p))
        /\ \/ /\ text[p] \in Marks(fancy) /\ t.kind = text[p]
              /\ buff[t.next] = p /\ Bound(n, t.next - 1, p)
           \/ text[p] \notin Marks(fancy) /\ t.kind = "word" /\ t.chars = Word(text, fancy, p)
  BY <1>5 DEF Reads
<1>7. PICK a : a = After(text, fancy, p)
  OBVIOUS
<1>8. Step(text, fancy, b, p, a)
  BY <1>2, <1>6, <1>7 DEF Step
<1>9. p \in 1 .. Len(text)
  BY <1>2, StartsFinite
<1>10. text[p] \notin Blank \cup {"#"}
  BY <1>2, <1>6, <1>9, EdgeNext
<1>11. "word" \notin Marks(fancy)
  <2>1. PICK F : F = (IF fancy THEN Fancy ELSE {}) /\ (F = Fancy \/ F = {})
    BY Zenon
  <2>2. Marks(fancy) = {"(", ")", "~", "\\"} \cup F
    BY <2>1, Zenon DEF Marks
  <2> QED BY <2>1, <2>2 DEF Fancy
<1>12. t.next \in 1 .. n
  BY <1>2, <1>6
<1>13. CASE t.kind = "word"
  <2>1. text[p] \notin Marks(fancy) /\ t.chars = Word(text, fancy, p)
    BY <1>6, <1>11, <1>13
  <2> QED BY <1>1, <1>6, <1>7, <1>8, <1>10, <1>12, <1>13, <2>1
<1>14. CASE t.kind # "word"
  <2>1. /\ text[p] \in Marks(fancy) /\ t.kind = text[p]
        /\ buff[t.next] = p /\ Bound(n, t.next - 1, p)
    BY <1>6, <1>14
  <2>2. a = p + 1
    <3>1. text[p] \in Blank \cup Marks(fancy)
      BY <2>1
    <3> QED BY <1>2, <1>7, <1>9, <3>1, BehindOne
  <2> QED BY <1>1, <1>6, <1>7, <1>8, <1>12, <1>14, <2>1, <2>2
<1> QED BY <1>13, <1>14

-----------------------------------------------------------------------------
(* What parse_builtin knows of the text it has read                         *)

(* The calls F of parse_builtin stand where the text is read up to b; the   *)
(* innermost of them may still wait for its parenthesis.                    *)
Standing(F, b) == \E m \in Nat :
  /\ Core(text, fancy, F, m, b)
  /\ \/ m = Len(F) /\ Hanging(text, fancy, b) = {}
     \/ /\ m + 1 = Len(F) /\ F[m + 1].from = 0 /\ F[m + 1].items = <<>>
        /\ F[m + 1].delay = Cardinality(Before(text, fancy, F, m) \cup Hanging(text, fancy, b))

(* The lists in L are those that are closed before b.                       *)
Told(L, b) == \A c \in Closes(text, fancy) : c < b <=> \E k \in DOMAIN L : L[k].to = c

Parses == \E n \in Nat, b \in Nat : /\ Readable(n) /\ Bound(n, pos, b)
                                    /\ Standing(frames, b) /\ Told(lists, b)

(* The witnesses of the next state.                                         *)
LEMMA ParsesAgain ==
  ASSUME UNCHANGED <<text, fancy, buff, entry>>, NEW n \in Nat, Readable(n), NEW k, NEW b, Bound(n, k, b),
         k = pos', NEW G, G = frames', Standing(G, b), NEW L, L = lists', Told(L, b)
  PROVE  Parses'
<1>1. Readable(n)'
  BY DEF Readable, Holds, Follows, Cells, Edge, Later
<1>2. b \in Nat
  BY DEF Bound, Readable
<1>3. Bound(n, k, b)'
  BY DEF Bound, Follows, Edge, Later
<1>4. Standing(G, b)'
  BY DEF Standing
<1>5. Told(L, b)'
  BY DEF Told
<1>6. Bound(n, k, b)' <=> Bound(n, pos, b)'
  BY DEF Bound
<1>7. Standing(G, b)' <=> Standing(frames, b)'
  BY DEF Standing
<1>8. Told(L, b)' <=> Told(lists, b)'
  BY DEF Told
<1> QED BY <1>1, <1>2, <1>3, <1>4, <1>5, <1>6, <1>7, <1>8 DEF Parses

(* The innermost call: it has its parenthesis, or waits for it.             *)
LEMMA StandTop ==
  ASSUME frames \in Seq(Calls), frames # <<>>, Len(text) \in Nat, NEW N \in Nat, Len(frames) = N,
         NEW b, Standing(frames, b)
  PROVE  /\ Top.from # 0 => Core(text, fancy, frames, N, b) /\ Hanging(text, fancy, b) = {}
         /\ Top.from = 0 => \E m \in Nat :
              /\ m + 1 = N /\ Core(text, fancy, frames, m, b) /\ Top.items = <<>>
              /\ Top.delay = Cardinality(Before(text, fancy, frames, m) \cup Hanging(text, fancy, b))
<1>1. Top = frames[N] /\ N >= 1
  BY FramesAre
<1>2. PICK m \in Nat :
        /\ Core(text, fancy, frames, m, b)
        /\ \/ m = N /\ Hanging(text, fancy, b) = {}
           \/ /\ m + 1 = N /\ frames[m + 1].from = 0 /\ frames[m + 1].items = <<>>
              /\ frames[m + 1].delay = Cardinality(Before(text, fancy, frames, m) \cup Hanging(text, fancy, b))
  BY DEF Standing
<1>3. CASE m = N
  <2>1. N \in 1 .. N
    BY <1>1
  <2>2. frames[N].from \in Opens(text, fancy)
    BY <1>2, <1>3, <2>1 DEF Core, Stacked
  <2>3. Top.from # 0
    BY <1>1, <2>2, StartsFinite, LevelIs
  <2> QED BY <1>1, <1>2, <1>3, <2>3
<1>4. CASE m + 1 = N
  <2>1. m # N
    BY <1>4
  <2>2. /\ frames[m + 1].from = 0 /\ frames[m + 1].items = <<>>
        /\ frames[m + 1].delay = Cardinality(Before(text, fancy, frames, m) \cup Hanging(text, fancy, b))
    BY <1>2, <2>1
  <2>3. Top = frames[m + 1]
    BY <1>1, <1>4
  <2>4. /\ Top.from = 0 /\ Top.items = <<>>
        /\ Top.delay = Cardinality(Before(text, fancy, frames, m) \cup Hanging(text, fancy, b))
    BY <2>2, <2>3, Zenon
  <2> QED BY <1>2, <1>4, <2>4
<1> QED BY <1>2, <1>3, <1>4

(* No list is closed between two closing parentheses.                       *)
LEMMA ToldOn ==
  ASSUME NEW b, NEW p, NEW a, Step(text, fancy, b, p, a), NEW L, Told(L, b)
  PROVE  Told(L, p) /\ (text[p] # ")" => Told(L, a))
<1>1. \A q \in Pieces(text, fancy) : (q < a <=> q < b \/ q = p) /\ (q < p <=> q < b)
  BY StepOver
<1>2. Closes(text, fancy) = {q \in Pieces(text, fancy) : text[q] = ")"}
  BY LevelIs
<1> QED BY <1>1, <1>2 DEF Told

(* The list that is closed next.                                            *)
LEMMA ToldMore ==
  ASSUME NEW b, NEW p, NEW a, Step(text, fancy, b, p, a), NEW S, NEW L \in Seq(S), Told(L, b),
         NEW l, l.to = p
  PROVE  Told(Append(L, l), a)
<1>1. \A q \in Pieces(text, fancy) : (q < a <=> q < b \/ q = p) /\ (q < p <=> q < b)
  BY StepOver
<1>2. Closes(text, fancy) = {q \in Pieces(text, fancy) : text[q] = ")"}
  BY LevelIs
<1>3. PICK N \in Nat : Len(L) = N
  OBVIOUS
<1>4. PICK M : Append(L, l) = M
  OBVIOUS
<1>5. DOMAIN L = 1 .. N /\ DOMAIN M = 1 .. N + 1 /\ M[N + 1] = l /\ \A k \in 1 .. N : M[k] = L[k]
  BY <1>3, <1>4
<1>6. ASSUME NEW c \in Closes(text, fancy)
      PROVE  c < a <=> \E k \in DOMAIN M : M[k].to = c
  <2>1. c < a <=> c < b \/ c = p
    BY <1>1, <1>2
  <2>2. c < b <=> \E k \in 1 .. N : L[k].to = c
    BY <1>5 DEF Told
  <2>3. ASSUME NEW k \in 1 .. N, L[k].to = c PROVE \E j \in DOMAIN M : M[j].to = c
    <3>1. k \in DOMAIN M /\ M[k].to = c
      BY <1>5, <2>3
    <3> QED BY <3>1
  <2>4. ASSUME c = p PROVE \E j \in DOMAIN M : M[j].to = c
    <3>1. N + 1 \in DOMAIN M /\ M[N + 1].to = c
      BY <1>5, <2>4
    <3> QED BY <3>1
  <2>5. ASSUME NEW j \in DOMAIN M, M[j].to = c PROVE c = p \/ \E k \in 1 .. N : L[k].to = c
    <3>1. CASE j = N + 1
      BY <1>5, <2>5, <3>1
    <3>2. CASE j # N + 1
      <4>1. j \in 1 .. N
        BY <1>5, <3>2
      <4> QED BY <1>5, <2>5, <4>1
    <3> QED BY <3>1, <3>2
  <2> QED BY <2>1, <2>2, <2>3, <2>4, <2>5
<1> QED BY <1>4, <1>6 DEF Told

(* parse_builtin takes its opening parenthesis.                             *)
LEMMA StandBegin ==
  ASSUME TypeInv, Parses, Begin
  PROVE  Parses'
<1>1. /\ at = "list" /\ UNCHANGED <<text, fancy, buff, entry>> /\ Top.from = 0 /\ Token.kind = "("
      /\ frames' = Append(Under, [Top EXCEPT !.from = buff[Token.next]]) /\ pos' = Token.next
      /\ lists' = lists
  BY DEF Begin, Plain, reading
<1>2. frames \in Seq(Calls) /\ frames # <<>> /\ Top \in Calls /\ pos \in Nat /\ Len(text) \in Nat
  BY <1>1, ListTokens
<1>3. PICK N \in Nat : Len(frames) = N
  BY <1>2
<1>4. PICK n \in Nat, b \in Nat : Readable(n) /\ Bound(n, pos, b) /\ Standing(frames, b) /\ Told(lists, b)
  BY DEF Parses
<1>5. PICK p, a : /\ Step(text, fancy, b, p, a) /\ Bound(n, Token.next, a)
                  /\ text[p] = "(" /\ buff[Token.next] = p
  BY <1>1, <1>2, <1>4, TokenPiece
<1>6. PICK m \in Nat :
        /\ m + 1 = N /\ Core(text, fancy, frames, m, b) /\ Top.items = <<>>
        /\ Top.delay = Cardinality(Before(text, fancy, frames, m) \cup Hanging(text, fancy, b))
  BY <1>1, <1>2, <1>3, <1>4, StandTop
<1>7. PICK c : c = [Top EXCEPT !.from = p]
  OBVIOUS
<1>8. c.from = p /\ c.items = <<>> /\ c.delay = Top.delay
  BY <1>2, <1>6, <1>7 DEF Calls
<1>9. PICK G : G = frames'
  OBVIOUS
<1>10. Len(G) = m + 1 /\ G[m + 1] = c /\ \A k \in 1 .. m : G[k] = frames[k]
  <2>1. G = Append(Under, c)
    BY <1>1, <1>5, <1>7, <1>9, Zenon
  <2>2. Len(G) = N /\ G[N] = c /\ \A k \in 1 .. N - 1 : G[k] = frames[k]
    BY <1>2, <1>3, <2>1, FramesAre
  <2> QED BY <1>6, <2>2
<1>11. Core(text, fancy, G, m + 1, a)
  <2>1. G[m + 1].from = p /\ G[m + 1].items = <<>>
    BY <1>8, <1>10
  <2>2. G[m + 1].delay = Cardinality(Before(text, fancy, frames, m) \cup Hanging(text, fancy, b))
    BY <1>6, <1>8, <1>10
  <2>3. Step(text, fancy, b, p, a) /\ text[p] = "(" /\ Core(text, fancy, frames, m, b)
    BY <1>5, <1>6
  <2> QED BY <1>10, <2>1, <2>2, <2>3, CoreOpen
<1>12. Hanging(text, fancy, a) = {}
  BY <1>5, TildeStep
<1>13. Standing(G, a)
  <2>1. m + 1 \in Nat
    OBVIOUS
  <2> QED BY <1>10, <1>11, <1>12, <2>1 DEF Standing
<1>14. Told(lists, a)
  BY <1>4, <1>5, ToldOn
<1> QED BY <1>1, <1>4, <1>5, <1>9, <1>13, <1>14, ParsesAgain

(* parse_builtin takes a word.                                              *)
LEMMA StandWord ==
  ASSUME TypeInv, Parses, AddWord
  PROVE  Parses'
<1>1. /\ at = "list" /\ UNCHANGED <<text, fancy, buff, entry>> /\ Top.from # 0 /\ Token.kind = "word"
      /\ frames' = Append(Under, [Top EXCEPT !.items = Append(@, Item("word", Token.chars, 0))])
      /\ pos' = Token.next /\ lists' = lists
  BY DEF AddWord, Plain, reading
<1>2. frames \in Seq(Calls) /\ frames # <<>> /\ Top \in Calls /\ pos \in Nat /\ Len(text) \in Nat
  BY <1>1, ListTokens
<1>3. PICK N \in Nat : Len(frames) = N
  BY <1>2
<1>4. PICK n \in Nat, b \in Nat : Readable(n) /\ Bound(n, pos, b) /\ Standing(frames, b) /\ Told(lists, b)
  BY DEF Parses
<1>5. PICK p, a : /\ Step(text, fancy, b, p, a) /\ Bound(n, Token.next, a)
                  /\ text[p] \notin Marks(fancy) \cup {"#"} /\ Token.chars = Word(text, fancy, p)
  BY <1>1, <1>2, <1>4, TokenPiece
<1>6. Core(text, fancy, frames, N, b) /\ Hanging(text, fancy, b) = {}
  BY <1>1, <1>2, <1>3, <1>4, StandTop
<1>7. PICK it : it = Item("word", Token.chars, 0)
  OBVIOUS
<1>8. it = Element(text, fancy, p)
  <2>1. Element(text, fancy, p) = Item("word", Word(text, fancy, p), 0)
    BY <1>5, ElementIs
  <2> QED BY <1>5, <1>7, <2>1, Zenon
<1>9. PICK c : c = [Top EXCEPT !.items = Append(@, it)]
  OBVIOUS
<1>10. c.from = Top.from /\ c.delay = Top.delay /\ c.items = Append(Top.items, it) /\ Top.items \in Seq(Items)
  BY <1>2, <1>9 DEF Calls
<1>11. PICK G : G = frames'
  OBVIOUS
<1>12. /\ N >= 1 /\ Len(G) = N /\ G[N] = c /\ frames[N] = Top
       /\ \A k \in 1 .. N - 1 : G[k] = frames[k]
  <2>1. G = Append(Under, c)
    BY <1>1, <1>7, <1>9, <1>11, Zenon
  <2>2. /\ N >= 1 /\ Top = frames[N] /\ Len(Append(Under, c)) = N /\ Append(Under, c)[N] = c
        /\ \A k \in 1 .. N - 1 : Append(Under, c)[k] = frames[k]
    BY <1>2, <1>3, FramesAre
  <2> QED BY <2>1, <2>2
<1>13. Agree(frames, G, N)
  <2> SUFFICES ASSUME NEW k \in 1 .. N
               PROVE  /\ G[k].from = frames[k].from /\ G[k].delay = frames[k].delay
                      /\ k < N => G[k].items = frames[k].items
    BY DEF Agree
  <2>1. k = N \/ k \in 1 .. N - 1
    OBVIOUS
  <2> QED BY <1>10, <1>12, <2>1
<1>14. text[p] \notin {"(", ")", "~"} /\ Items \cup {it} \in {Items \cup {it}} /\ it \in Items \cup {it}
  BY <1>5, MarksAre
<1>15. Top.items \in Seq(Items \cup {it})
  BY <1>10
<1>16. Core(text, fancy, G, N, a)
  <2>1. frames[N].items \in Seq(Items \cup {it}) /\ G[N].items = Append(frames[N].items, it)
    BY <1>10, <1>12, <1>15
  <2> QED BY <1>5, <1>6, <1>8, <1>12, <1>13, <1>14, <2>1, CoreWord
<1>17. Hanging(text, fancy, a) = {}
  BY <1>5, <1>14, TildeStep
<1>18. Standing(G, a)
  BY <1>12, <1>16, <1>17 DEF Standing
<1>19. Told(lists, a)
  BY <1>4, <1>5, <1>14, ToldOn
<1> QED BY <1>1, <1>4, <1>5, <1>11, <1>18, <1>19, ParsesAgain

(* parse_builtin calls itself, at a parenthesis or after a tilde.           *)
LEMMA StandNested ==
  ASSUME TypeInv, Parses, Nested
  PROVE  Parses'
<1>1. /\ at = "list" /\ UNCHANGED <<text, fancy, buff, entry>> /\ Top.from # 0 /\ Token.kind \in {"(", "~"}
      /\ frames' = Append(frames, Call(DelayOf(Top.delay, Token.kind)))
      /\ pos' = IF Token.kind = "(" THEN Token.next - 1 ELSE Token.next
      /\ lists' = lists
  BY DEF Nested, Plain, reading
<1>2. frames \in Seq(Calls) /\ frames # <<>> /\ Top \in Calls /\ pos \in Nat /\ Len(text) \in Nat
  BY <1>1, ListTokens
<1>3. PICK N \in Nat : Len(frames) = N
  BY <1>2
<1>4. PICK n \in Nat, b \in Nat : Readable(n) /\ Bound(n, pos, b) /\ Standing(frames, b) /\ Told(lists, b)
  BY DEF Parses
<1>5. PICK p, a : /\ Step(text, fancy, b, p, a) /\ Bound(n, Token.next, a)
                  /\ text[p] = Token.kind /\ Bound(n, Token.next - 1, p)
  <2>1. Token.kind \in {"word", "(", ")", "~"} /\ Token.kind # "word"
    BY <1>1
  <2> QED BY <1>2, <1>4, <2>1, TokenPiece
<1>6. Core(text, fancy, frames, N, b) /\ Hanging(text, fancy, b) = {}
  BY <1>1, <1>2, <1>3, <1>4, StandTop
<1>7. PICK d : d = DelayOf(Top.delay, Token.kind)
  OBVIOUS
<1>8. PICK G : G = frames'
  OBVIOUS
<1>9. /\ N >= 1 /\ Len(G) = N + 1 /\ G[N + 1] = Call(d) /\ frames[N] = Top
      /\ \A k \in 1 .. N : G[k] = frames[k]
  BY <1>1, <1>2, <1>3, <1>7, <1>8, FramesAre
<1>10. G[N + 1].from = 0 /\ G[N + 1].items = <<>> /\ G[N + 1].delay = d
  BY <1>9 DEF Call
<1>11. Top.delay = Cardinality(Before(text, fancy, frames, N))
  <2>1. N \in 1 .. N
    BY <1>9
  <2> QED BY <1>6, <1>9, <2>1 DEF Core, Delayed
<1>12. CASE Token.kind = "("
  <2>1. pos' = Token.next - 1 /\ d = Top.delay /\ text[p] = "("
    BY <1>1, <1>5, <1>7, <1>12 DEF DelayOf
  <2>2. Core(text, fancy, frames, N, p) /\ Hanging(text, fancy, p) = {}
    BY <1>5, <1>6, CoreMove, TildeStep
  <2>3. Core(text, fancy, G, N, p) /\ Before(text, fancy, G, N) = Before(text, fancy, frames, N)
    BY <1>9, <2>2, CoreSame
  <2>4. Before(text, fancy, G, N) \cup Hanging(text, fancy, p) = Before(text, fancy, frames, N)
    BY <2>2, <2>3
  <2>5. G[N + 1].delay = Cardinality(Before(text, fancy, G, N) \cup Hanging(text, fancy, p))
    BY <1>10, <1>11, <2>1, <2>4, Zenon
  <2>6. Standing(G, p)
    BY <1>9, <1>10, <2>3, <2>5, Zenon DEF Standing
  <2>7. Told(lists, p)
    BY <1>4, <1>5, ToldOn
  <2> QED BY <1>1, <1>4, <1>5, <1>8, <2>1, <2>6, <2>7, ParsesAgain
<1>13. CASE Token.kind = "~"
  <2>1. pos' = Token.next /\ d = Top.delay + 1 /\ text[p] = "~"
    BY <1>1, <1>5, <1>7, <1>13 DEF DelayOf
  <2>2. Core(text, fancy, frames, N, a)
    BY <1>5, <1>6, <2>1, CoreTilde
  <2>3. Core(text, fancy, G, N, a) /\ Before(text, fancy, G, N) = Before(text, fancy, frames, N)
    BY <1>9, <2>2, CoreSame
  <2>4. Cardinality(Before(text, fancy, frames, N) \cup Hanging(text, fancy, a))
          = Cardinality(Before(text, fancy, frames, N)) + 1
    BY <1>5, <1>6, <2>1, DelayTilde DEF Core
  <2>5. G[N + 1].delay = Cardinality(Before(text, fancy, G, N) \cup Hanging(text, fancy, a))
    BY <1>10, <1>11, <2>1, <2>3, <2>4, Zenon
  <2>6. Standing(G, a)
    BY <1>9, <1>10, <2>3, <2>5, Zenon DEF Standing
  <2>7. Told(lists, a)
    BY <1>4, <1>5, <2>1, ToldOn
  <2> QED BY <1>1, <1>4, <1>5, <1>8, <2>1, <2>6, <2>7, ParsesAgain
<1> QED BY <1>1, <1>12, <1>13

(* The list that is taken: the one at o, read up to b, that p closes.       *)
Taken(o, b, p) ==
  /\ Step(text, fancy, b, p, p + 1) /\ text[p] = ")" /\ IsList(text, fancy, o, p)
  /\ Told(lists, b) /\ Told(lists', p + 1)
  /\ lists' = Append(lists, ListAt(text, fancy, o, p))

(* parse_builtin takes a closing parenthesis.                               *)
LEMMA StandComplete ==
  ASSUME TypeInv, Parses, Complete, NEW S, lists \in Seq(S)
  PROVE  \E o, b, p : /\ Taken(o, b, p) /\ (Under # <<>> => Parses')
                      /\ Under = <<>> => o = frames[1].from /\ Standing(<<>>, p + 1) /\ Edge(text, fancy, p + 1)
<1>1. /\ at = "list" /\ UNCHANGED <<text, fancy, buff, entry>> /\ Top.from # 0 /\ Token.kind = ")"
      /\ lists' = Append(lists, [from |-> Top.from, to |-> buff[Token.next],
                                 delay |-> Top.delay, items |-> Top.items])
      /\ pos' = Token.next
  BY DEF Complete, Plain, reading
<1>2. frames \in Seq(Calls) /\ frames # <<>> /\ Top \in Calls /\ pos \in Nat /\ Len(text) \in Nat
  BY <1>1, ListTokens
<1>3. PICK N \in Nat : Len(frames) = N
  BY <1>2
<1>4. PICK n \in Nat, b \in Nat : Readable(n) /\ Bound(n, pos, b) /\ Standing(frames, b) /\ Told(lists, b)
  BY DEF Parses
<1>5. PICK p, a : /\ Step(text, fancy, b, p, a) /\ Bound(n, Token.next, a)
                  /\ text[p] = ")" /\ a = p + 1 /\ buff[Token.next] = p
  BY <1>1, <1>2, <1>4, TokenPiece
<1>6. Core(text, fancy, frames, N, b) /\ Hanging(text, fancy, b) = {}
  BY <1>1, <1>2, <1>3, <1>4, StandTop
<1>7. N >= 1 /\ frames[N] = Top /\ (Under = <<>> <=> N = 1)
  BY <1>2, <1>3, FramesAre
<1>8. PICK o, d : o = Top.from /\ d = Top.delay
  OBVIOUS
<1>9. PICK items \in Seq(Items) : Top.items = items
  BY <1>2 DEF Calls
<1>10. /\ IsList(text, fancy, o, p) /\ Delay(text, fancy, o) = d
       /\ ListAt(text, fancy, o, p) = [from |-> o, to |-> p, delay |-> d, items |-> items]
  <2>1. frames[N].items \in Seq(Items)
    BY <1>7, <1>9
  <2>2. /\ IsList(text, fancy, frames[N].from, p)
        /\ Delay(text, fancy, frames[N].from) = frames[N].delay
        /\ ListAt(text, fancy, frames[N].from, p) =
             [from |-> frames[N].from, to |-> p, delay |-> frames[N].delay, items |-> frames[N].items]
    BY <1>5, <1>6, <1>7, <2>1, CoreClose
  <2>3. frames[N].from = o /\ frames[N].delay = d /\ frames[N].items = items
    BY <1>7, <1>8, <1>9
  <2> QED BY <2>2, <2>3, Zenon
<1>11. PICK l : l = ListAt(text, fancy, o, p) /\ l.to = p
  BY <1>10
<1>12. lists' = Append(lists, l)
  BY <1>1, <1>5, <1>8, <1>9, <1>10, <1>11, Zenon
<1>13. Told(Append(lists, l), a)
  BY <1>4, <1>5, <1>11, ToldMore
<1>14. Taken(o, b, p)
  <2>1. Step(text, fancy, b, p, p + 1)
    BY <1>5
  <2>2. Told(lists', p + 1)
    BY <1>5, <1>12, <1>13, Zenon
  <2> QED BY <1>4, <1>5, <1>10, <1>11, <1>12, <2>1, <2>2, Zenon DEF Taken
<1>15. Hanging(text, fancy, a) = {}
  BY <1>5, TildeStep
<1>16. PICK it : it = Item(IF d = 0 THEN "value" ELSE "list", <<o>>, d)
  OBVIOUS
<1>17. it = Element(text, fancy, o)
  <2>1. text[o] = "("
    BY <1>10, ListIs, LevelIs
  <2> QED BY <1>10, <1>16, <2>1, ElementIs
<1>18. Given(it)
  BY <1>8, <1>16, Zenon DEF Complete
<1>19. it \in Items \cup {it}
  OBVIOUS
<1>20. CASE Under = <<>>
  <2>1. N = 1 /\ N - 1 = 0
    BY <1>7, <1>20
  <2>2. Agree(frames, <<>>, N - 1)
    BY <2>1 DEF Agree
  <2>3. Core(text, fancy, <<>>, N - 1, a)
    <3>1. ~(N > 1) /\ frames[N].from = o
      BY <1>7, <1>8, <2>1
    <3>2. it = Element(text, fancy, frames[N].from)
      BY <1>17, <3>1
    <3>3. N > 1 => frames[N - 1].items \in Seq(Items \cup {it})
                     /\ <<>>[N - 1].items = Append(frames[N - 1].items, it)
      BY <3>1
    <3> QED BY <1>5, <1>6, <1>7, <1>19, <2>2, <3>2, <3>3, CoreUnder
  <2>4. Standing(<<>>, a)
    <3>1. 0 \in Nat /\ 0 = Len(<<>>)
      OBVIOUS
    <3> QED BY <1>15, <2>1, <2>3, <3>1 DEF Standing
  <2>5. o = frames[1].from /\ Edge(text, fancy, a)
    BY <1>5, <1>7, <1>8, <2>1 DEF Bound
  <2> QED BY <1>5, <1>14, <1>20, <2>4, <2>5
<1>21. CASE Under # <<>>
  <2>1. PICK c : c = [Last(Under) EXCEPT !.items = Append(@, it)]
    OBVIOUS
  <2>2. PICK G : G = frames'
    OBVIOUS
  <2>3. G = Append(Front(Under), c)
    BY <1>18, <1>21, <2>1, <2>2, Zenon DEF Given
  <2>4. /\ N > 1 /\ Last(Under) = frames[N - 1] /\ Last(Under) \in Calls
        /\ Len(G) = N - 1 /\ G[N - 1] = c /\ \A k \in 1 .. (N - 1) - 1 : G[k] = frames[k]
    <3>1. /\ Last(Under) = frames[N - 1] /\ Last(Under) \in Calls /\ N > 1
          /\ \A x : /\ Len(Append(Front(Under), x)) = N - 1 /\ Append(Front(Under), x)[N - 1] = x
                    /\ \A k \in 1 .. (N - 1) - 1 : Append(Front(Under), x)[k] = frames[k]
      BY <1>2, <1>3, <1>21, FramesAre
    <3> QED BY <2>3, <3>1, Zenon
  <2>5. PICK u \in Calls : frames[N - 1] = u
    BY <2>4
  <2>6. c.from = u.from /\ c.delay = u.delay /\ c.items = Append(u.items, it) /\ u.items \in Seq(Items)
    BY <2>1, <2>4, <2>5 DEF Calls
  <2>7. Agree(frames, G, N - 1)
    <3> SUFFICES ASSUME NEW k \in 1 .. N - 1
                 PROVE  /\ G[k].from = frames[k].from /\ G[k].delay = frames[k].delay
                        /\ k < N - 1 => G[k].items = frames[k].items
      BY DEF Agree
    <3>1. k = N - 1 \/ k \in 1 .. (N - 1) - 1
      OBVIOUS
    <3> QED BY <2>4, <2>5, <2>6, <3>1
  <2>8. Core(text, fancy, G, N - 1, a)
    <3>1. frames[N].from = o
      BY <1>7, <1>8
    <3>2. it = Element(text, fancy, frames[N].from)
      BY <1>17, <3>1
    <3>3. frames[N - 1].items \in Seq(Items \cup {it}) /\ G[N - 1].items = Append(frames[N - 1].items, it)
      BY <2>4, <2>5, <2>6
    <3> QED BY <1>5, <1>6, <1>7, <1>19, <2>7, <3>2, <3>3, CoreUnder
  <2>9. N - 1 \in Nat /\ N - 1 = Len(G)
    BY <1>7, <2>4
  <2>10. Standing(G, a)
    BY <1>15, <2>8, <2>9, Zenon DEF Standing
  <2>11. Told(lists', a)
    BY <1>12, <1>13, Zenon
  <2>12. Parses'
    BY <1>1, <1>4, <1>5, <2>2, <2>10, <2>11, ParsesAgain
  <2> QED BY <1>14, <1>21, <2>12
<1> QED BY <1>20, <1>21

(* Where no list is open.                                                   *)
LEMMA StandNone ==
  ASSUME NEW b, Standing(<<>>, b)
  PROVE  Core(text, fancy, <<>>, 0, b) /\ Hanging(text, fancy, b) = {}
<1>1. PICK m \in Nat :
        /\ Core(text, fancy, <<>>, m, b)
        /\ (m = Len(<<>>) /\ Hanging(text, fancy, b) = {}) \/ m + 1 = Len(<<>>)
  BY DEF Standing
<1>2. Len(<<>>) = 0
  OBVIOUS
<1>3. m = 0 /\ Hanging(text, fancy, b) = {}
  BY <1>1, <1>2
<1> QED BY <1>1, <1>3

(* The first call, with nothing read.                                       *)
LEMMA StandCall ==
  ASSUME NEW b, Standing(<<>>, b)
  PROVE  Standing(<<Call(0)>>, b)
<1>1. Core(text, fancy, <<>>, 0, b) /\ Hanging(text, fancy, b) = {}
  BY StandNone
<1>2. PICK F : F = <<Call(0)>> /\ Len(F) = 0 + 1 /\ F[0 + 1] = Call(0)
  <2>1. PICK x : x = Call(0)
    OBVIOUS
  <2>2. Len(<<x>>) = 0 + 1 /\ <<x>>[0 + 1] = x
    OBVIOUS
  <2> QED BY <2>1, <2>2, Zenon
<1>3. F[0 + 1].from = 0 /\ F[0 + 1].items = <<>> /\ F[0 + 1].delay = 0
  BY <1>2 DEF Call
<1>4. \A k \in 1 .. 0 : F[k] = <<>>[k]
  OBVIOUS
<1>5. 0 \in Nat
  OBVIOUS
<1>6. Core(text, fancy, F, 0, b)
  BY <1>1, <1>4, <1>5, CoreSame
<1>7. Before(text, fancy, F, 0) \cup Hanging(text, fancy, b) = {}
  BY <1>1 DEF Before
<1>8. F[0 + 1].delay = Cardinality(Before(text, fancy, F, 0) \cup Hanging(text, fancy, b))
  BY <1>3, <1>7, FS_EmptySet
<1>9. Standing(F, b)
  BY <1>2, <1>3, <1>5, <1>6, <1>8, Zenon DEF Standing
<1> QED BY <1>2, <1>9

(* At the first position of the text.                                       *)
LEMMA StandFirst ==
  ASSUME Len(text) \in Nat
  PROVE  Standing(<<>>, 1) /\ Told(<<>>, 1)
<1>1. Pieces(text, fancy) \subseteq 1 .. Len(text)
  BY StartsFinite
<1>2. /\ \A o \in Opens(text, fancy) : o \in Pieces(text, fancy) /\ ~(o < 1)
      /\ \A c \in Closes(text, fancy) : c \in Pieces(text, fancy) /\ ~(c < 1)
      /\ \A t \in Tildes(text, fancy) : ~(t < 1)
  BY <1>1, LevelIs DEF Tildes
<1>3. Depth(text, fancy, 1) = 0
  <2>1. {o \in Opens(text, fancy) : o < 1} = {} /\ {c \in Closes(text, fancy) : c < 1} = {}
    BY <1>2
  <2>2. Depth(text, fancy, 1) = Cardinality({o \in Opens(text, fancy) : o < 1})
                           - Cardinality({c \in Closes(text, fancy) : c < 1})
    BY Zenon DEF Depth
  <2>3. Depth(text, fancy, 1) = Cardinality({}) - Cardinality({})
    BY ONLY <2>1, <2>2, Zenon
  <2> QED BY <2>3, FS_EmptySet
<1>4. Stacked(text, fancy, <<>>, 0, 1)
  BY <1>2, <1>3 DEF Stacked
<1>5. Attached(text, fancy, 1) /\ Hanging(text, fancy, 1) = {}
  BY <1>2 DEF Attached, Hanging
<1>6. Core(text, fancy, <<>>, 0, 1)
  BY <1>4, <1>5 DEF Core
<1>7. Standing(<<>>, 1)
  <2>1. 0 \in Nat /\ 0 = Len(<<>>)
    OBVIOUS
  <2> QED BY <1>5, <1>6, <2>1 DEF Standing
<1>8. Told(<<>>, 1)
  BY <1>2 DEF Told
<1> QED BY <1>7, <1>8

(* A parser begins on a buffer that holds the text from its beginning.      *)
Begins ==
  /\ Len(text) \in Nat /\ \A k \in 1 .. Len(text) : text[k] # End
  /\ buff \in Seq(Cells) /\ entry # "split" /\ pos = 0 /\ frames = <<Call(0)>> /\ lists = <<>>
  /\ \E n \in Nat : /\ Holds(buff, n) /\ \A j \in 1 .. n : buff[j] = j
                    /\ n = Len(text) \/ (n > 0 /\ text[n] \in Stops(fancy))

LEMMA BeginsParses == Begins => Parses
<1> SUFFICES ASSUME Begins PROVE Parses
  OBVIOUS
<1>1. /\ Len(text) \in Nat /\ \A k \in 1 .. Len(text) : text[k] # End
      /\ buff \in Seq(Cells) /\ entry # "split" /\ pos = 0 /\ frames = <<Call(0)>> /\ lists = <<>>
  BY DEF Begins
<1>2. PICK n \in Nat : /\ Holds(buff, n) /\ \A j \in 1 .. n : buff[j] = j
                       /\ n = Len(text) \/ (n > 0 /\ text[n] \in Stops(fancy))
  BY DEF Begins
<1>3. \A j \in 1 .. n - 1 : Follows(buff[j] + 1, buff[j + 1])
  <2>1. \A j \in 1 .. n - 1 : buff[j] = j /\ buff[j + 1] = j + 1
    BY <1>2
  <2> QED BY <2>1 DEF Follows
<1>4. n > 0 => buff[n] = Len(text) \/ text[buff[n]] \in Stops(fancy)
  BY <1>2
<1>5. Readable(n)
  BY <1>1, <1>2, <1>3, <1>4 DEF Readable
<1>6. 0 < n => Follows(1, buff[0 + 1])
  BY <1>2 DEF Follows
<1>7. Bound(n, 0, 1)
  BY <1>1, <1>2, <1>6, EdgeFirst DEF Bound
<1>8. Standing(<<Call(0)>>, 1) /\ Told(<<>>, 1)
  BY <1>1, StandFirst, StandCall
<1>9. Bound(n, pos, 1) /\ Standing(frames, 1) /\ Told(lists, 1)
  BY <1>1, <1>7, <1>8
<1> QED BY <1>5, <1>9 DEF Parses

-----------------------------------------------------------------------------
(* The invariant: between two expressions, while one is read, and in it     *)

(* Between two expressions of a script, and while one is read: everything   *)
(* before b was parsed, and the buffer holds what follows it.               *)
Collecting == \E b \in 1 .. Len(text) + 1 :
  /\ Edge(text, fancy, b) /\ Standing(<<>>, b) /\ Told(lists, b)
  /\ i = 0 => b = offset + 1
  /\ i > 0 => Follows(b, buff[1])
  /\ \A j \in 1 .. i - 1 : Follows(buff[j] + 1, buff[j + 1])

Lists == [from : Nat, to : Nat, delay : Nat, items : Seq(Items)]

(* An error was reported, or the script ends inside a comment.              *)
Amiss == failed \/ (entry = "script" /\ OpenComment(text, fancy))

AsLine == /\ i = offset /\ \A j \in 1 .. i : buff[j] = j
Typed  == \E n \in Nat : /\ n > 0 /\ Holds(buff, n) /\ \A j \in 1 .. n : buff[j] = j
                         /\ text[n] = "\n"

StandInv ==
  /\ \A k \in 1 .. Len(text) : text[k] # End
  /\ lists \in Seq(Lists)
  /\ entry = "split" => at \in {"split", "done"}
  /\ at = "start" => entry = "line" /\ Typed
  /\ entry = "line" /\ at \in {"read", "start"} => lists = <<>> /\ ~failed
  /\ entry = "line" /\ at = "read" => AsLine
  /\ entry = "script" /\ at = "read" /\ ~Amiss => Collecting
  /\ at = "list" /\ ~Amiss => Parses

(* The invariant holds at first.                                            *)
LEMMA StandStart == Init /\ TypeInv => StandInv
<1> SUFFICES ASSUME Init, TypeInv PROVE StandInv
  OBVIOUS
<1>1. /\ Len(text) \in Nat /\ buff \in Seq(Cells)
  BY DEF TypeInv, ReadInv, Shape
<1>2. /\ offset = 0 /\ i = 0 /\ lists = <<>> /\ failed = FALSE /\ pos = 0
      /\ buff = IF at = "read" THEN Fresh(FirstLen) ELSE Whole(text)
      /\ frames = IF at = "list" THEN <<Call(0)>> ELSE <<>>
  BY DEF Init
<1>3. \/ entry = "script" /\ text \in Scripts /\ at = "read"
      \/ entry = "line" /\ text \in {s \o <<"\n">> : s \in CmdLines} \cup CmdLines /\ at = "read"
      \/ entry = "parse" /\ text \in Strings /\ at = "list"
      \/ entry = "split" /\ text \in Strings /\ at = "split"
  BY Zenon DEF Init
<1>4. \A k \in 1 .. Len(text) : text[k] # End
  <2>1. \A s \in Scripts \cup CmdLines \cup Strings : \A k \in 1 .. Len(s) : s[k] # End
    BY ReaderAssumption
  <2>2. ASSUME NEW s \in CmdLines, NEW k \in 1 .. Len(s \o <<"\n">>) PROVE (s \o <<"\n">>)[k] # End
    <3>1. s \in Seq(STRING \ {End})
      BY ReaderAssumption
    <3>2. PICK n \in Nat : Len(s) = n
      BY <3>1
    <3>3. PICK r : s \o <<"\n">> = r
      OBVIOUS
    <3>4. Len(r) = n + 1 /\ r[n + 1] = "\n" /\ \A j \in 1 .. n : r[j] = s[j]
      BY <3>1, <3>2, <3>3
    <3>5. CASE k = n + 1
      BY <3>3, <3>4, <3>5 DEF End
    <3>6. CASE k # n + 1
      <4>1. k \in 1 .. n
        BY <3>2, <3>3, <3>4, <3>6
      <4> QED BY <2>1, <3>2, <3>3, <3>4, <4>1
    <3> QED BY <3>5, <3>6
  <2> QED BY <1>3, <2>1, <2>2
<1>5. ASSUME at = "list" PROVE Parses
  <2>1. entry # "split" /\ frames = <<Call(0)>> /\ buff = Whole(text)
    BY <1>2, <1>3, <1>5
  <2>2. Holds(buff, Len(text)) /\ \A j \in 1 .. Len(text) : buff[j] = j
    BY <1>1, <2>1 DEF Whole, Holds
  <2>3. Begins
    BY <1>1, <1>2, <1>4, <2>1, <2>2 DEF Begins
  <2> QED BY <2>3, BeginsParses
<1>6. Collecting
  <2>1. 1 \in 1 .. Len(text) + 1 /\ Standing(<<>>, 1) /\ Told(lists, 1) /\ Edge(text, fancy, 1)
    BY <1>1, <1>2, StandFirst, EdgeFirst
  <2> QED BY <1>2, <2>1 DEF Collecting
<1>7. lists \in Seq(Lists) /\ AsLine
  BY <1>2 DEF AsLine
<1> QED BY <1>2, <1>3, <1>4, <1>5, <1>6, <1>7 DEF StandInv

(* The comment that parse_file leaves out.                                  *)
LEMMA FileFollows ==
  ASSUME Len(text) \in Nat, offset + 1 \in 1 .. Len(text), Place(text, fancy, offset + 1, inquote),
         ~OpenComment(text, fancy),
         NEW o, o = IF inquote = "none" /\ text[offset + 1] = "#" THEN LineEnd(offset + 1) ELSE offset + 1
  PROVE  Follows(offset + 1, o)
<1>1. CASE ~(inquote = "none" /\ text[offset + 1] = "#")
  BY <1>1 DEF Follows
<1>2. CASE inquote = "none" /\ text[offset + 1] = "#"
  <2>1. PICK b \in 1 .. Len(text) : b = offset + 1
    OBVIOUS
  <2>2. Place(text, fancy, b, "none") /\ text[b] = "#"
    BY <1>2, <2>1
  <2>3. PICK e \in b .. Len(text) + 2 : Placed(text, fancy, b, e, "none")
    BY <2>2 DEF Place
  <2>4. InWord(text, fancy, b, e)
    BY <2>3 DEF Placed, InQuote, Quotes
  <2>5. e = b
    <3>1. text[b] \in Stops(fancy)
      BY <2>2, MarksAre
    <3> QED BY <2>3, <2>4, <3>1 DEF InWord
  <2>6. Edge(text, fancy, b)
    BY <2>3, <2>5 DEF Placed, Edge
  <2>7. PICK u \in b + 1 .. Len(text) : u = Until(text, {"\n"}, b)
    BY <2>2, PlaceComment
  <2>8. o = u
    BY <1>2, <2>1, <2>7 DEF LineEnd
  <2>9. After(text, fancy, b) = u
    BY <2>2, <2>7, BehindComment
  <2> QED BY <2>1, <2>2, <2>6, <2>8, <2>9 DEF Follows
<1> QED BY <1>1, <1>2

(* One turn of parse_file.                                                  *)
LEMMA StandChar ==
  ASSUME TypeInv, ScanInv, StandInv, FileChar, ~Amiss
  PROVE  (at' = "read" => Collecting') /\ (at' = "list" => Parses')
<1>1. /\ Shape /\ Room /\ Kept /\ at = "read" /\ offset < Len(text)
      /\ UNCHANGED <<text, fancy, entry, lists>>
      /\ Len(text) \in Nat /\ offset \in 0 .. Len(text) /\ i \in 0 .. offset /\ i \in Nat /\ entry = "script"
  BY DEF TypeInv, ReadInv, Shape, FileChar
<1>2. /\ ~OpenComment(text, fancy) /\ ~failed /\ \A k \in 1 .. Len(text) : text[k] # End
      /\ Collecting /\ Scanning /\ Reading
  BY <1>1 DEF Amiss, StandInv, ScanInv
<1>3. PICK r, o, d, one :
        /\ r \in Roomy(buff, i)
        /\ o = IF inquote = "none" /\ text[offset + 1] = "#" THEN LineEnd(offset + 1) ELSE offset + 1
        /\ d = DepthAfter(text[o]) /\ one = (did_one \/ (inquote = "none" /\ text[o] = ")"))
        /\ offset' = o
        /\ \/ /\ d = 0 /\ one /\ buff' = Terminated(Stored(r, i, o), i + 1)
              /\ i' = 0 /\ at' = "list" /\ pos' = 0 /\ frames' = <<Call(0)>>
           \/ /\ buff' = Stored(r, i, o) /\ i' = i + 1 /\ at' = "read"
  BY <1>1, Zenon DEF FileChar
<1>4. offset + 1 \in 1 .. Len(text)
  BY <1>1
<1>5. o \in offset + 1 .. Len(text) /\ Follows(offset + 1, o)
  BY <1>1, <1>2, <1>3, <1>4, LineEndRange, FileFollows DEF Scanning
<1>6. PICK b \in 1 .. Len(text) + 1 :
        /\ Edge(text, fancy, b) /\ Standing(<<>>, b) /\ Told(lists, b)
        /\ i = 0 => b = offset + 1
        /\ i > 0 => Follows(b, buff[1])
        /\ \A j \in 1 .. i - 1 : Follows(buff[j] + 1, buff[j + 1])
  BY <1>2 DEF Collecting
<1>7. PICK c, z : c = Stored(r, i, o) /\ z = Terminated(c, i + 1)
  OBVIOUS
<1>8. /\ \A k \in 1 .. i : c[k] = buff[k] /\ z[k] = buff[k]
      /\ c[i + 1] = o /\ z[i + 1] = o /\ z \in Seq(Cells)
      /\ Holds(z, i + 1)
  <2>1. Shape /\ Room /\ Kept /\ at = "read" /\ offset < Len(text)
    BY <1>1
  <2>2. r \in Roomy(buff, i) /\ o \in offset + 1 .. Len(text)
    BY <1>3, <1>5
  <2>3. /\ \A k \in 1 .. i : c[k] = buff[k] /\ Terminated(c, i + 1)[k] = buff[k]
        /\ c[i + 1] = o /\ Terminated(c, i + 1)[i + 1] = o /\ Terminated(c, i + 1) \in Seq(Cells)
        /\ Holds(Terminated(c, i + 1), i + 1)
    BY <1>7, <2>1, <2>2, Another
  <2> QED BY <1>7, <2>3
<1>9. i > 0 => buff[i] = offset
  BY <1>1 DEF Kept, Order
<1>10. ASSUME NEW x, x = c \/ x = z
       PROVE  Follows(b, x[1]) /\ \A j \in 1 .. (i + 1) - 1 : Follows(x[j] + 1, x[j + 1])
  <2>1. x[i + 1] = o /\ \A k \in 1 .. i : x[k] = buff[k]
    BY <1>8, <1>10
  <2>2. Follows(b, x[1])
    <3>1. CASE i = 0
      BY <1>5, <1>6, <2>1, <3>1
    <3>2. CASE i # 0
      <4>1. i > 0 /\ 1 \in 1 .. i
        BY <1>1, <3>2
      <4> QED BY <1>6, <2>1, <4>1
    <3> QED BY <3>1, <3>2
  <2>3. ASSUME NEW j \in 1 .. (i + 1) - 1 PROVE Follows(x[j] + 1, x[j + 1])
    <3>1. CASE j = i
      <4>1. x[j] = offset /\ x[j + 1] = o
        BY <1>1, <1>9, <2>1, <3>1
      <4> QED BY <1>5, <4>1
    <3>2. CASE j # i
      <4>1. j \in 1 .. i - 1 /\ j \in 1 .. i /\ j + 1 \in 1 .. i
        BY <1>1, <3>2
      <4> QED BY <1>6, <2>1, <4>1
    <3> QED BY <3>1, <3>2
  <2> QED BY <2>2, <2>3
<1>11. CASE buff' = c /\ i' = i + 1 /\ at' = "read"
  <2>1. Follows(b, c[1]) /\ \A j \in 1 .. (i + 1) - 1 : Follows(c[j] + 1, c[j + 1])
    BY <1>10
  <2>2. Follows(b, c[1])' /\ \A j \in 1 .. (i + 1) - 1 : Follows(c[j] + 1, c[j + 1])'
    BY <1>1, <2>1 DEF Follows
  <2>3. Follows(b, buff[1])' /\ \A j \in 1 .. i' - 1 : Follows(buff[j] + 1, buff[j + 1])'
    BY <1>11, <2>2 DEF Follows
  <2>4. Standing(<<>>, b)' /\ Told(lists, b)'
    BY <1>1, <1>6 DEF Standing, Told
  <2>5. i' # 0
    BY <1>1, <1>11
  <2>6. b \in 1 .. Len(text') + 1 /\ Edge(text', fancy', b)
    BY <1>1, <1>6
  <2>7. Collecting'
    BY <2>3, <2>4, <2>5, <2>6 DEF Collecting
  <2> QED BY <1>11, <2>7
<1>12. CASE d = 0 /\ one /\ buff' = z /\ i' = 0 /\ at' = "list" /\ pos' = 0 /\ frames' = <<Call(0)>>
  <2>1. text[o] \in {"(", ")"}
    <3>1. d = parencount => ~did_one
      BY <1>2, <1>12 DEF Reading
    <3>2. CASE inquote # "none"
      BY <1>3, <1>12, <3>1, <3>2 DEF DepthAfter
    <3>3. CASE inquote = "none"
      BY <1>3, <1>12, <3>1, <3>3 DEF DepthAfter
    <3> QED BY <3>2, <3>3
  <2>2. text[o] \in Stops(fancy)
    BY <2>1, MarksAre
  <2>3. PICK n \in Nat : n = i + 1
    BY <1>1
  <2>4. Follows(b, z[1]) /\ \A j \in 1 .. n - 1 : Follows(z[j] + 1, z[j + 1])
    BY <1>10, <2>3
  <2>5. \A x, y : Follows(x, y)' <=> Follows(x, y)
    BY <1>1 DEF Follows
  <2>6. Readable(n)'
    <3>1. Holds(z, n) /\ z[n] = o
      BY <1>8, <2>3
    <3>2. Holds(z, n)'
      BY <1>1, <3>1 DEF Holds
    <3>3. \A j \in 1 .. n - 1 : Follows(z[j] + 1, z[j + 1])'
      BY <2>4, <2>5
    <3>4. Len(text') \in Nat /\ z \in Seq(Cells') /\ entry' # "split"
      BY <1>1, <1>8 DEF Cells
    <3>5. \A k \in 1 .. Len(text') : text'[k] # End
      BY <1>1, <1>2
    <3>6. z[n] = Len(text') \/ text'[z[n]] \in Stops(fancy')
      BY <1>1, <2>2, <3>1
    <3>7. buff' = z
      BY <1>12
    <3>8. /\ Len(text') \in Nat /\ buff' \in Seq(Cells') /\ Holds(buff, n)' /\ entry' # "split"
          /\ \A j \in 1 .. n - 1 : Follows(buff[j] + 1, buff[j + 1])'
          /\ buff'[n] = Len(text') \/ text'[buff'[n]] \in Stops(fancy')
      BY <3>2, <3>3, <3>4, <3>6, <3>7 DEF Holds, Follows
    <3> QED BY <3>5, <3>8 DEF Readable
  <2>7. Bound(n, 0, b)'
    <3>1. 0 \in 0 .. n /\ b \in 1 .. Len(text') + 1 /\ Edge(text', fancy', b)
      BY <1>1, <1>6
    <3>2. Follows(b, z[1])'
      BY <2>4, <2>5
    <3>3. buff' = z
      BY <1>12
    <3>4. Follows(b, buff[0 + 1])'
      BY <3>2, <3>3 DEF Follows
    <3> QED BY <3>1, <3>4 DEF Bound
  <2>8. Standing(<<Call(0)>>, b)' /\ Told(lists, b)'
    <3>1. Standing(<<Call(0)>>, b)
      BY <1>6, StandCall
    <3> QED BY <1>1, <1>6, <3>1 DEF Standing, Told
  <2>9. pos' = 0 /\ frames' = <<Call(0)>> /\ b \in Nat
    BY <1>12
  <2>10. Bound(n, pos, b)' /\ Standing(frames, b)'
    BY <2>7, <2>8, <2>9 DEF Bound, Standing
  <2> QED BY <1>12, <2>6, <2>8, <2>9, <2>10 DEF Parses
<1> QED BY <1>3, <1>7, <1>11, <1>12

(* One turn of read_read.                                                   *)
LEMMA StandLine ==
  ASSUME TypeInv, StandInv, LineChar
  PROVE  StandInv'
<1>1. /\ Shape /\ Room /\ Kept /\ at = "read" /\ offset < Len(text)
      /\ UNCHANGED <<text, fancy, entry, lists, failed>>
      /\ Len(text) \in Nat /\ offset \in 0 .. Len(text) /\ i \in 0 .. offset /\ entry = "line"
  BY DEF TypeInv, ReadInv, Shape, LineChar
<1>2. /\ \A k \in 1 .. Len(text) : text[k] # End
      /\ lists = <<>> /\ ~failed /\ i = offset /\ \A j \in 1 .. i : buff[j] = j
  BY <1>1 DEF StandInv, AsLine
<1>3. PICK o \in offset + 1 .. Len(text) : o = offset + 1
  BY <1>1
<1>4. PICK r \in Roomy(buff, i) :
        \/ buff' = Terminated(Stored(r, i, o), i + 1) /\ at' = "start" /\ text[o] = "\n"
        \/ buff' = Stored(r, i, o) /\ i' = i + 1 /\ at' = "read"
  BY <1>1, <1>3 DEF LineChar
<1>5. PICK c, z : c = Stored(r, i, o) /\ z = Terminated(c, i + 1)
  OBVIOUS
<1>6. /\ \A k \in 1 .. i : c[k] = buff[k] /\ z[k] = buff[k]
      /\ c[i + 1] = o /\ z[i + 1] = o /\ z \in Seq(Cells)
      /\ Holds(z, i + 1)
  BY <1>1, <1>4, <1>5, Another
<1>7. \A j \in 1 .. i + 1 : c[j] = j /\ z[j] = j
  BY <1>1, <1>2, <1>3, <1>6
<1>8. offset' = o
  BY <1>3 DEF LineChar
<1>9. at' = "read" => AsLine'
  <2> SUFFICES ASSUME at' = "read" PROVE AsLine'
    OBVIOUS
  <2>1. buff' = c /\ i' = i + 1
    BY <1>4, <1>5
  <2> QED BY <1>1, <1>2, <1>3, <1>7, <1>8, <2>1 DEF AsLine
<1>10. at' = "start" => Typed'
  <2> SUFFICES ASSUME at' = "start" PROVE Typed'
    OBVIOUS
  <2>1. buff' = z /\ text[o] = "\n"
    BY <1>4, <1>5
  <2>2. PICK n \in Nat : n = i + 1 /\ n > 0 /\ n = o
    BY <1>1, <1>2, <1>3
  <2>3. Holds(z, n) /\ \A j \in 1 .. n : z[j] = j
    BY <1>6, <1>7, <2>2
  <2>4. Holds(z, n)'
    BY <1>1, <2>3 DEF Holds
  <2>5. Holds(buff, n)'
    BY <2>1, <2>4 DEF Holds
  <2>6. text'[n] = "\n" /\ \A j \in 1 .. n : buff'[j] = j
    BY <1>1, <2>1, <2>2, <2>3
  <2> QED BY <2>2, <2>5, <2>6 DEF Typed
<1>11. at' \in {"read", "start"}
  BY <1>4
<1> QED BY <1>1, <1>2, <1>9, <1>10, <1>11 DEF StandInv

(* parse_command hands the line to parse_builtin, or to parse_pipe.         *)
LEMMA StandBegun ==
  ASSUME TypeInv, StandInv, Start
  PROVE  StandInv'
<1>1. /\ at = "start" /\ UNCHANGED <<text, buff, entry, lists>> /\ pos' = 0
      /\ Len(text) \in Nat /\ buff \in Seq(Cells)
  BY DEF TypeInv, ReadInv, Shape, Start, reading
<1>2. /\ \A k \in 1 .. Len(text) : text[k] # End
      /\ entry = "line" /\ Typed /\ lists = <<>> /\ ~failed
  BY <1>1 DEF StandInv
<1>3. at' \in {"list", "stage", "done"} /\ (at' = "list" => frames' = <<Call(0)>>)
  BY DEF Start
<1>4. PICK n \in Nat : /\ n > 0 /\ Holds(buff, n) /\ \A j \in 1 .. n : buff[j] = j
                       /\ text[n] = "\n"
  BY <1>2 DEF Typed
<1>5. at' = "list" => Begins'
  <2> SUFFICES ASSUME at' = "list" PROVE Begins'
    OBVIOUS
  <2>1. text[n] \in Stops(fancy')
    BY <1>4, MarksAre DEF Blank
  <2>2. Holds(buff, n)' /\ buff' \in Seq(Cells')
    BY <1>1, <1>4 DEF Holds, Cells
  <2>3. entry' # "split" /\ lists' = <<>> /\ frames' = <<Call(0)>>
    BY <1>1, <1>2, <1>3
  <2>4. /\ Len(text') \in Nat /\ \A k \in 1 .. Len(text') : text'[k] # End
        /\ \A j \in 1 .. n : buff'[j] = j
        /\ text'[n] \in Stops(fancy')
    BY <1>1, <1>2, <1>4, <2>1
  <2> QED BY <1>1, <1>4, <2>2, <2>3, <2>4 DEF Begins
<1>6. Begins' => Parses'
  BY BeginsParses, PTL
<1>7. at' = "list" => Parses'
  BY <1>5, <1>6
<1>8. lists' \in Seq(Lists')
  BY <1>1, <1>2
<1> QED BY <1>1, <1>2, <1>3, <1>7, <1>8 DEF StandInv

(* The lists completed are records.                                         *)
LEMMA ListsAre ==
  ASSUME TypeInv, Complete, lists \in Seq(Lists)
  PROVE  \E l \in Lists : lists' = Append(lists, l)
<1>1. at = "list" /\ Token.kind = ")"
  BY DEF Complete
<1>2. PICK n \in Nat : /\ Holds(buff, n) /\ n <= Len(text) /\ Len(text) \in Nat
                      /\ Good(Token, pos, n) /\ pos \in 0 .. n
  BY <1>1, ListTokens
<1>3. Top \in Calls
  BY <1>1, ListTokens
<1>4. Top.from \in Nat /\ Top.delay \in Nat /\ Top.items \in Seq(Items)
  BY <1>2, <1>3 DEF Calls
<1>5. Token.next \in 1 .. n
  BY <1>1, <1>2 DEF Good, End
<1>6. buff[Token.next] \in Nat
  BY <1>2, <1>5 DEF Holds
<1>7. PICK l : l = [from |-> Top.from, to |-> buff[Token.next], delay |-> Top.delay, items |-> Top.items]
  OBVIOUS
<1>8. l \in Lists
  BY <1>4, <1>6, <1>7 DEF Lists
<1>9. lists' = Append(lists, l)
  BY <1>7, Zenon DEF Complete
<1> QED BY <1>8, <1>9

LEMMA AmissSame ==
  ASSUME UNCHANGED <<text, fancy, entry, failed>>
  PROVE  Amiss' = Amiss
BY DEF Amiss

(* Steps that leave the parser.                                             *)
LEMMA StandElse ==
  ASSUME StandInv, UNCHANGED <<text, entry, lists>>, at' \in {"after", "stage", "split", "done", "undefined"},
         entry = "split" => at' \in {"split", "done"}
  PROVE  StandInv'
<1>1. lists' \in Seq(Lists') /\ \A k \in 1 .. Len(text') : text'[k] # End
  BY DEF StandInv
<1> QED BY <1>1 DEF StandInv

(* A list is complete; behind the outermost one of a script parse_file goes *)
(* on where it stopped.                                                     *)
LEMMA StandGiven ==
  ASSUME TypeInv, ScanInv, StandInv, Complete, ~Amiss
  PROVE  /\ Under # <<>> => Parses'
         /\ Under = <<>> /\ entry = "script" => Collecting'
<1>1. at = "list" /\ UNCHANGED <<reading, fancy>> /\ Top.from # 0
  BY DEF Complete, Plain
<1>2. /\ frames \in Seq(Calls) /\ frames # <<>> /\ Len(text) \in Nat
      /\ UNCHANGED <<text, fancy, entry, offset, buff, i>>
  BY <1>1, ListTokens DEF reading
<1>3. Parses /\ lists \in Seq(Lists)
  BY <1>1 DEF StandInv
<1>4. PICK o, b, p : /\ Taken(o, b, p) /\ (Under # <<>> => Parses')
                     /\ Under = <<>> => o = frames[1].from /\ Standing(<<>>, p + 1) /\ Edge(text, fancy, p + 1)
  BY <1>3, StandComplete
<1>5. ASSUME Under = <<>>, entry = "script" PROVE Collecting'
  <2>1. Listing
    BY <1>1, <1>5 DEF ScanInv, Amiss
  <2>2. PICK N \in Nat : Len(frames) = N
    BY <1>2
  <2>3. frames[1].from # 0
    BY <1>1, <1>2, <1>5, <2>2, FramesAre
  <2>4. IsList(text, fancy, o, offset) /\ i = 0
    BY <1>4, <1>5, <2>1, <2>3 DEF Listing
  <2>5. IsList(text, fancy, o, p) /\ Step(text, fancy, b, p, p + 1) /\ Told(lists', p + 1)
    BY <1>4 DEF Taken
  <2>6. p \in 1 .. Len(text) /\ offset \in Nat
    BY <1>2, <2>4, <2>5, ListIs, LevelIs, StartsFinite
  <2>7. p = offset
    <3>1. ~(p < offset) /\ ~(offset < p)
      BY <1>2, <2>4, <2>5, ListUnique
    <3> QED BY <2>6, <3>1
  <2>8. PICK x \in 1 .. Len(text) + 1 : x = p + 1
    BY <1>2, <2>6
  <2>9. Edge(text, fancy, x) /\ Standing(<<>>, x) /\ Told(lists', x) /\ x = offset + 1
    BY <1>4, <1>5, <2>5, <2>7, <2>8
  <2>10. Edge(text', fancy', x) /\ x \in 1 .. Len(text') + 1 /\ i' = 0 /\ x = offset' + 1
    BY <1>2, <2>4, <2>9
  <2>11. Standing(<<>>, x)' /\ Told(lists, x)'
    BY <1>2, <2>9 DEF Standing, Told
  <2>12. ~(i' > 0) /\ \A j \in 1 .. i' - 1 : FALSE
    BY <2>10
  <2> QED BY <2>10, <2>11, <2>12 DEF Collecting
<1> QED BY <1>4, <1>5

(* The steps of parse_builtin.                                              *)
LEMMA StandList ==
  ASSUME TypeInv, ScanInv, StandInv, Begin \/ AddWord \/ Nested \/ Complete \/ GiveUp
  PROVE  StandInv'
<1>1. /\ at = "list" /\ UNCHANGED <<text, fancy, entry>>
  BY DEF Begin, AddWord, Nested, Complete, GiveUp, Plain, reading
<1>2. entry # "split" /\ \A k \in 1 .. Len(text) : text[k] # End
  BY <1>1 DEF StandInv
<1>3. lists' \in Seq(Lists')
  <2>1. Items' = Items /\ Lists' = Lists
    BY DEF Items, Lists
  <2>2. lists \in Seq(Lists)
    BY DEF StandInv
  <2>3. CASE Complete
    <3>1. PICK l \in Lists : lists' = Append(lists, l)
      BY <2>2, <2>3, ListsAre
    <3> QED BY <2>1, <2>2, <3>1
  <2>4. CASE Begin \/ AddWord \/ Nested \/ GiveUp
    <3>1. lists' = lists
      BY <2>4 DEF Begin, AddWord, Nested, GiveUp
    <3> QED BY <2>1, <2>2, <3>1
  <2> QED BY <2>3, <2>4
<1>4. at' \in {"list", "after"} \/ (at' = "read" /\ entry = "script")
  <2>1. CASE Begin \/ AddWord \/ Nested
    BY <1>1, <2>1 DEF Begin, AddWord, Nested
  <2>2. CASE Complete \/ GiveUp
    BY <1>1, <2>2, Zenon DEF Complete, GiveUp, Given
  <2> QED BY <2>1, <2>2
<1>5. ASSUME ~Amiss' PROVE (at' = "list" => Parses') /\ (at' = "read" => Collecting')
  <2>1. failed' = failed /\ ~GiveUp
    <3>1. ~failed'
      BY <1>5 DEF Amiss
    <3>2. ~GiveUp
      BY <3>1 DEF GiveUp
    <3> QED BY <3>2 DEF Begin, AddWord, Nested, Complete
  <2>2. ~Amiss
    BY <1>1, <1>5, <2>1, AmissSame
  <2>3. Parses
    BY <1>1, <2>2 DEF StandInv
  <2>4. CASE Begin \/ AddWord \/ Nested
    <3>1. at' = "list"
      BY <1>1, <2>4 DEF Begin, AddWord, Nested
    <3> QED BY <2>3, <2>4, <3>1, StandBegin, StandWord, StandNested
  <2>5. CASE Complete
    <3>1. /\ Under # <<>> => Parses'
          /\ Under = <<>> /\ entry = "script" => Collecting'
      BY <2>2, <2>5, StandGiven
    <3>2. IF Under = <<>> THEN at' # "list" ELSE at' = "list"
      BY <1>1, <2>5, Zenon DEF Complete, Given
    <3> QED BY <1>4, <3>1, <3>2
  <2> QED BY <2>1, <2>4, <2>5
<1> QED BY <1>1, <1>2, <1>3, <1>4, <1>5 DEF StandInv

(* Every step keeps the invariant.                                          *)
LEMMA StandNext ==
  ASSUME TypeInv, ScanInv, StandInv, [Next]_vars
  PROVE  StandInv'
<1>1. CASE FileChar
  <2>1. /\ UNCHANGED <<text, fancy, entry, lists, failed>> /\ entry = "script" /\ at' \in {"read", "list"}
    BY <1>1, Zenon DEF FileChar
  <2>2. ASSUME ~Amiss' PROVE (at' = "read" => Collecting') /\ (at' = "list" => Parses')
    <3>1. ~Amiss
      BY <2>1, <2>2, AmissSame
    <3> QED BY <1>1, <3>1, StandChar
  <2>3. lists' \in Seq(Lists') /\ \A k \in 1 .. Len(text') : text'[k] # End
    BY <2>1 DEF StandInv
  <2> QED BY <2>1, <2>2, <2>3 DEF StandInv
<1>2. CASE Overrun \/ EndOfFile
  <2>1. UNCHANGED <<text, entry, lists>> /\ at = "read" /\ at' \in {"undefined", "done"}
    BY <1>2 DEF Overrun, EndOfFile, reading
  <2>2. entry # "split"
    BY <2>1 DEF StandInv
  <2> QED BY <2>1, <2>2, StandElse
<1>3. CASE AfterList \/ PipeRun \/ PipeFail \/ SplitEnd
  <2>1. UNCHANGED <<text, entry, lists>> /\ at' = "done"
    BY <1>3 DEF AfterList, PipeRun, PipeFail, SplitEnd, Plain, InPipe, reading
  <2> QED BY <2>1, StandElse
<1>4. CASE PipeWord \/ PipeNext \/ Redirect \/ SplitWord
  <2>1. UNCHANGED <<text, entry, lists>> /\ at' = at /\ at \in {"stage", "split"}
    BY <1>4 DEF PipeWord, PipeNext, Redirect, SplitWord, InPipe, reading
  <2>2. entry = "split" => at' \in {"split", "done"}
    BY <2>1 DEF StandInv
  <2> QED BY <2>1, <2>2, StandElse
<1>5. CASE UNCHANGED vars \/ Finished
  <2>1. UNCHANGED <<text, fancy, entry, offset, buff, i, at, frames, pos, failed, lists>>
    BY <1>5 DEF vars, Finished, reading
  <2>2. Amiss' = Amiss /\ Lists' = Lists
    BY <2>1, AmissSame DEF Lists, Items
  <2>3. (AsLine' <=> AsLine) /\ (Typed' <=> Typed)
    BY <2>1 DEF AsLine, Typed, Holds
  <2>4. Collecting => Collecting'
    BY <2>1 DEF Collecting, Standing, Told, Follows
  <2>5. Parses => Parses'
    <3> SUFFICES ASSUME Parses PROVE Parses'
      OBVIOUS
    <3>1. PICK n \in Nat, b \in Nat : Readable(n) /\ Bound(n, pos, b) /\ Standing(frames, b) /\ Told(lists, b)
      BY DEF Parses
    <3> QED BY <2>1, <3>1, ParsesAgain
  <2> QED BY <2>1, <2>2, <2>3, <2>4, <2>5 DEF StandInv
<1> QED BY <1>1, <1>2, <1>3, <1>4, <1>5, StandLine, StandBegun, StandList DEF Next

-----------------------------------------------------------------------------
(* The lists are those that are written (module Expressions)                *)

(* Expressions reads the syntax with its own instance of Syntax: the same.  *)
LEMMA WrittenPieces ==
  ASSUME NEW s, NEW fy
  PROVE  /\ Written!Pieces(s, fy) = Pieces(s, fy)
         /\ \A k : Written!After(s, fy, k) = After(s, fy, k)
<1> USE DEF Written!After, After, Written!Until, Until, Written!Special, Special,
            Written!Quotes, Quotes, Written!Blank, Blank, Written!Fancy, Fancy
<1>1. \A k : Written!After(s, fy, k) = After(s, fy, k)
  BY Zenon
<1> QED BY <1>1, Zenon DEF Written!Pieces, Pieces, Written!PiecesFrom, PiecesFrom

LEMMA WrittenCardinality ==
  ASSUME NEW S
  PROVE  Written!Cardinality(S) = Cardinality(S)
BY Zenon DEF Written!Cardinality, Cardinality

LEMMA WrittenInOrder ==
  ASSUME NEW S
  PROVE  Written!InOrder(S) = InOrder(S)
<1> DEFINE Nth(n) == CHOOSE p \in S : Cardinality({q \in S : q < p}) = n - 1
           NthOf(n) == CHOOSE p \in S : Written!Cardinality({q \in S : q < p}) = n - 1
<1>1. \A T : Written!Cardinality(T) = Cardinality(T)
  BY WrittenCardinality
<1>2. \A n : NthOf(n) = Nth(n)
  BY <1>1, Zenon
<1>3. PICK m : m = Cardinality(S)
  OBVIOUS
<1>4. Written!InOrder(S) = [n \in 1 .. m |-> NthOf(n)]
  BY <1>1, <1>3, Zenon DEF Written!InOrder
<1>5. InOrder(S) = [n \in 1 .. m |-> Nth(n)]
  BY <1>3, Zenon DEF InOrder
<1> HIDE DEF Nth, NthOf
<1>6. [n \in 1 .. m |-> NthOf(n)] = [n \in 1 .. m |-> Nth(n)]
  BY <1>2, Zenon
<1> QED BY <1>4, <1>5, <1>6, Zenon

LEMMA WrittenLists ==
  ASSUME NEW s, NEW fy
  PROVE  /\ Written!Opens(s, fy) = Opens(s, fy) /\ Written!Closes(s, fy) = Closes(s, fy)
         /\ \A p : Written!Depth(s, fy, p) = Depth(s, fy, p)
         /\ \A o, c : Written!IsList(s, fy, o, c) <=> IsList(s, fy, o, c)
<1>1. Written!Opens(s, fy) = Opens(s, fy) /\ Written!Closes(s, fy) = Closes(s, fy)
  BY WrittenPieces, Zenon DEF Written!Opens, Opens, Written!Closes, Closes
<1>2. \A p : Written!Depth(s, fy, p) = Depth(s, fy, p)
  BY <1>1, WrittenCardinality, Zenon DEF Written!Depth, Depth
<1>3. \A o, c : Written!IsList(s, fy, o, c) <=> IsList(s, fy, o, c)
  BY <1>1, <1>2, Zenon DEF Written!IsList, IsList
<1> QED BY <1>1, <1>2, <1>3, Zenon

LEMMA WrittenDelay ==
  ASSUME NEW s, NEW fy, NEW o
  PROVE  Written!Delay(s, fy, o) = Delay(s, fy, o)
<1>1. \A t : Written!PieceAfter(s, fy, t) = PieceAfter(s, fy, t)
  BY WrittenPieces, Zenon DEF Written!PieceAfter, PieceAfter
<1>2. \A t : (LET e == Written!PieceAfter(s, fy, t)
              IN e <= o /\ \A c \in Written!Closes(s, fy) : c < o => ~Written!IsList(s, fy, e, c))
         <=> (LET e == PieceAfter(s, fy, t)
              IN e <= o /\ \A c \in Closes(s, fy) : c < o => ~IsList(s, fy, e, c))
  BY <1>1, WrittenLists, Zenon
<1> QED BY <1>2, WrittenPieces, WrittenCardinality, Zenon DEF Written!Delay, Delay

LEMMA WrittenElement ==
  ASSUME NEW s, NEW fy, NEW p
  PROVE  Written!Element(s, fy, p) = Element(s, fy, p)
<1>1. Written!IsWord(s, fy, p) <=> IsWord(s, fy, p)
  BY Zenon DEF Written!IsWord, IsWord, Written!Special, Special, Written!Quotes, Quotes,
               Written!Fancy, Fancy
<1>2. Written!Word(s, fy, p) = Word(s, fy, p)
  BY WrittenPieces, Zenon DEF Written!Word, Word, Written!Quotes, Quotes
<1>3. \A a, b, c : Written!Item(a, b, c) = Item(a, b, c)
  BY Zenon DEF Written!Item, Item
<1>4. CASE IsWord(s, fy, p)
  <2>1. Written!Element(s, fy, p) = Written!Item("word", Written!Word(s, fy, p), 0)
    BY <1>1, <1>4, Zenon DEF Written!Element
  <2>2. Element(s, fy, p) = Item("word", Word(s, fy, p), 0)
    BY <1>4, Zenon DEF Element
  <2> QED BY <1>2, <1>3, <2>1, <2>2, Zenon
<1>5. CASE ~IsWord(s, fy, p)
  <2>1. PICK d, k, a : d = Delay(s, fy, p) /\ k = (IF d = 0 THEN "value" ELSE "list") /\ a = <<p>>
    BY Zenon
  <2>2. Written!Element(s, fy, p) = Written!Item(k, a, d)
    BY <1>1, <1>5, <2>1, WrittenDelay, Zenon DEF Written!Element
  <2>3. Element(s, fy, p) = Item(k, a, d)
    BY <1>5, <2>1, Zenon DEF Element
  <2> QED BY <1>3, <2>2, <2>3, Zenon
<1> QED BY <1>4, <1>5

LEMMA WrittenListAt ==
  ASSUME NEW s, NEW fy, NEW o, NEW c
  PROVE  Written!ListAt(s, fy, o, c) = ListAt(s, fy, o, c)
<1> DEFINE Inner == {p \in Pieces(s, fy) : /\ o < p /\ p < c /\ s[p] \notin {")", "~"}
                                           /\ Depth(s, fy, p) = Depth(s, fy, o) + 1}
           Within == {p \in Written!Pieces(s, fy) :
                        /\ o < p /\ p < c /\ s[p] \notin {")", "~"}
                        /\ Written!Depth(s, fy, p) = Written!Depth(s, fy, o) + 1}
<1>1. Within = Inner
  BY WrittenPieces, WrittenLists, Zenon
<1> HIDE DEF Inner, Within
<1>2. Written!InOrder(Within) = InOrder(Inner)
  BY <1>1, WrittenInOrder, Zenon
<1>3. PICK w : w = InOrder(Inner)
  OBVIOUS
<1>4. [n \in DOMAIN w |-> Written!Element(s, fy, w[n])] = [n \in DOMAIN w |-> Element(s, fy, w[n])]
  <2>1. \A p : Written!Element(s, fy, p) = Element(s, fy, p)
    BY WrittenElement
  <2> QED BY <2>1, Zenon
<1>5. Written!ListAt(s, fy, o, c) =
        [from |-> o, to |-> c, delay |-> Written!Delay(s, fy, o),
         items |-> [n \in DOMAIN w |-> Written!Element(s, fy, w[n])]]
  BY <1>2, <1>3, Zenon DEF Written!ListAt, Within
<1>6. ListAt(s, fy, o, c) =
        [from |-> o, to |-> c, delay |-> Delay(s, fy, o),
         items |-> [n \in DOMAIN w |-> Element(s, fy, w[n])]]
  BY <1>3, Zenon DEF ListAt, Inner
<1> QED BY <1>4, <1>5, <1>6, WrittenDelay, Zenon

(* Nothing is read before the text is there, and nothing of it is lost; the *)
(* lists and the errors only grow.                                          *)
LEMMA ListsGrow ==
  ASSUME TypeInv, StandInv, [Next]_vars, ~Complete
  PROVE  /\ UNCHANGED <<text, entry, lists>> /\ (failed => failed')
         /\ fancy' = fancy \/ entry = "line"
<1>1. CASE Start
  <2>1. entry = "line"
    BY <1>1 DEF Start, StandInv
  <2>2. ~failed
    BY <1>1, <2>1 DEF Start, StandInv
  <2>3. UNCHANGED <<text, entry, lists>>
    BY <1>1 DEF Start, reading
  <2> QED BY <2>1, <2>2, <2>3
<1>2. CASE FileChar \/ LineChar \/ Overrun \/ EndOfFile
  <2>1. UNCHANGED <<text, entry, fancy, lists>>
    BY <1>2 DEF FileChar, LineChar, Overrun, EndOfFile, reading
  <2>2. failed => failed'
    <3>1. CASE FileChar \/ LineChar \/ Overrun
      BY <3>1 DEF FileChar, LineChar, Overrun
    <3>2. CASE EndOfFile
      BY <3>2, Zenon DEF EndOfFile
    <3> QED BY <1>2, <3>1, <3>2
  <2> QED BY <2>1, <2>2
<1>3. CASE Begin \/ AddWord \/ Nested \/ GiveUp \/ AfterList
  <2>1. UNCHANGED <<text, entry, fancy, lists>>
    BY <1>3 DEF Begin, AddWord, Nested, GiveUp, AfterList, Plain, reading
  <2>2. failed => failed'
    <3>1. CASE Begin \/ AddWord \/ Nested \/ GiveUp
      BY <3>1 DEF Begin, AddWord, Nested, GiveUp
    <3>2. CASE AfterList
      BY <3>2, Zenon DEF AfterList
    <3> QED BY <1>3, <3>1, <3>2
  <2> QED BY <2>1, <2>2
<1>4. CASE PipeWord \/ PipeNext \/ Redirect \/ PipeRun \/ PipeFail \/ SplitWord \/ SplitEnd
  <2>1. UNCHANGED <<text, entry, fancy, lists>>
    BY <1>4 DEF PipeWord, PipeNext, Redirect, PipeRun, PipeFail, SplitWord, SplitEnd, InPipe, reading
  <2>2. failed => failed'
    <3>1. CASE PipeWord \/ PipeNext \/ Redirect \/ PipeFail \/ SplitWord
      BY <3>1 DEF PipeWord, PipeNext, Redirect, PipeFail, SplitWord
    <3>2. CASE PipeRun \/ SplitEnd
      BY <3>2, Zenon DEF PipeRun, SplitEnd
    <3> QED BY <1>4, <3>1, <3>2
  <2> QED BY <2>1, <2>2
<1>5. CASE Finished \/ UNCHANGED vars
  BY <1>5 DEF Finished, vars, reading
<1> QED BY <1>1, <1>2, <1>3, <1>4, <1>5, Zenon DEF Next

(* What went wrong once stays wrong.                                        *)
LEMMA AmissStays ==
  ASSUME TypeInv, StandInv, [Next]_vars, Amiss
  PROVE  Amiss'
<1>1. CASE Complete
  <2>1. UNCHANGED <<text, fancy, entry, failed>>
    BY <1>1 DEF Complete, Plain, reading
  <2> QED BY <2>1, AmissSame
<1>2. CASE ~Complete
  <2>1. UNCHANGED <<text, entry>> /\ (failed => failed') /\ (fancy' = fancy \/ entry = "line")
    BY <1>2, ListsGrow
  <2> QED BY <2>1, Zenon DEF Amiss
<1> QED BY <1>1, <1>2

(* A list that is complete before an error is the next one of the text.     *)
LEMMA CompleteEvaluates ==
  ASSUME TypeInv, StandInv, Complete, ~Amiss
  PROVE  Written!Evaluate
<1>1. at = "list" /\ UNCHANGED <<text, fancy, entry, failed>>
  BY DEF Complete, Plain, reading
<1>2. Parses /\ lists \in Seq(Lists)
  BY <1>1 DEF StandInv
<1>3. PICK o, b, p : Taken(o, b, p)
  BY <1>2, StandComplete
<1>4. /\ Step(text, fancy, b, p, p + 1) /\ IsList(text, fancy, o, p) /\ Told(lists, b)
      /\ lists' = Append(lists, ListAt(text, fancy, o, p))
  BY <1>3 DEF Taken
<1>5. o \in Written!Opens(text, fancy) /\ p \in Written!Closes(text, fancy)
  BY <1>4, WrittenLists DEF IsList
<1>6. Told(lists, p)
  BY <1>4, ToldOn
<1>7. Written!IsNext(p)
  BY <1>6, WrittenLists, Zenon DEF Written!IsNext, Told
<1>8. Written!IsList(text, fancy, o, p) /\ Written!ListAt(text, fancy, o, p) = ListAt(text, fancy, o, p)
  BY <1>4, WrittenLists, WrittenListAt
<1>9. Amiss' = Amiss
  BY <1>1, AmissSame
<1> QED BY <1>4, <1>5, <1>7, <1>8, <1>9, Zenon DEF Written!Evaluate, Amiss

(* Every step of Reader is one of Expressions, or none.                     *)
LEMMA WrittenStep ==
  ASSUME TypeInv, StandInv, [Next]_vars
  PROVE  /\ Written!Next \/ UNCHANGED <<lists, Amiss>>
         /\ text' = text
<1>1. CASE Complete
  <2>1. UNCHANGED <<text, fancy, entry, failed>>
    BY <1>1 DEF Complete, Plain, reading
  <2>2. Amiss' = Amiss
    BY <2>1, AmissSame
  <2>3. CASE Amiss
    <3>1. lists \in Seq(Lists)
      BY DEF StandInv
    <3>2. PICK l \in Lists : lists' = Append(lists, l)
      BY <1>1, <3>1, ListsAre
    <3>3. Len(lists') = Len(lists) + 1 /\ SubSeq(lists', 1, Len(lists)) = lists
      BY <3>1, <3>2
    <3>4. Written!AfterFailure
      BY <2>2, <2>3, <3>3, Zenon DEF Written!AfterFailure, Amiss
    <3> QED BY <2>1, <3>4 DEF Written!Next
  <2>4. CASE ~Amiss
    BY <1>1, <2>1, <2>4, CompleteEvaluates DEF Written!Next
  <2> QED BY <2>3, <2>4
<1>2. CASE ~Complete
  <2>1. UNCHANGED <<text, lists>>
    BY <1>2, ListsGrow
  <2>2. CASE Amiss
    <3>1. Amiss'
      BY <2>2, AmissStays
    <3>2. Amiss' = Amiss
      BY <2>2, <3>1, Zenon DEF Amiss
    <3> QED BY <2>1, <3>2
  <2>3. CASE ~Amiss /\ ~Amiss'
    <3>1. Amiss' = Amiss
      BY <2>3, Zenon DEF Amiss
    <3> QED BY <2>1, <3>1
  <2>4. CASE ~Amiss /\ Amiss'
    <3>1. Amiss' = TRUE
      BY <2>4, Zenon DEF Amiss
    <3>2. Written!Fail
      BY <2>1, <2>4, <3>1, Zenon DEF Written!Fail, Amiss
    <3> QED BY <2>1, <3>2 DEF Written!Next
  <2> QED BY <2>2, <2>3, <2>4
<1> QED BY <1>1, <1>2

(* For texts of any length, whatever is in them: as long as no error was    *)
(* reported, the lists that are evaluated are those written in the text,    *)
(* with the items and the delay they are written with, each once, in the    *)
(* order in which their closing parentheses stand.  parse_builtin finds     *)
(* them by recursion over the tokens of a buffer that parse_file has filled *)
(* without the comments; Expressions finds them by counting parentheses in  *)
(* the text.                                                                *)
THEOREM ReadsWhatIsWritten == Spec => ReadsAsWritten
<1>1. TypeInv /\ [Next]_vars => TypeInv'
  BY ReadingTypes, ListTypes, PipeTypes, EndTypes DEF Next
<1>2. TypeInv /\ ScanInv /\ [Next]_vars => ScanInv'
  BY ScanNext
<1>3. TypeInv /\ ScanInv /\ StandInv /\ [Next]_vars => StandInv'
  BY StandNext
<1>4. Init => Written!Init
  BY Zenon DEF Init, Written!Init
<1>5. TypeInv /\ StandInv /\ [Next]_vars =>
        [Written!Next]_<<lists, failed \/ (entry = "script" /\ OpenComment(text, fancy))>>
  BY WrittenStep DEF Amiss
<1>6. TypeInv /\ StandInv /\ [Next]_vars => [UNCHANGED text]_text
  BY WrittenStep
<1>7. TypeInv => ReadInv
  BY DEF TypeInv
<1>8. Spec => Written!Init
  BY <1>4, PTL DEF Spec
<1>9. Spec => [][Written!Next]_<<lists, failed \/ (entry = "script" /\ OpenComment(text, fancy))>>
  BY TypeStart, ScanStart, StandStart, <1>1, <1>2, <1>3, <1>5, <1>7, PTL DEF Spec
<1>10. Spec => [][UNCHANGED text]_text
  BY TypeStart, ScanStart, StandStart, <1>1, <1>2, <1>3, <1>6, <1>7, PTL DEF Spec
<1> QED BY <1>8, <1>9, <1>10, PTL DEF ReadsAsWritten, Written!Spec
=============================================================================
