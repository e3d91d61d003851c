-------------------------- MODULE Contents_proofs --------------------------
(***************************************************************************)
(* For any number of shells, pipes of any size and texts of any length:    *)
(* what a shell waits for, and that flags come back (module Contents).     *)
(***************************************************************************)
EXTENDS Contents, TLAPS

(* Where a shell is: only the owner is at a string, and a string being      *)
(* opened holds what was written of it, as nobody else has it yet.          *)
Opening(s) ==
  /\ ~opened /\ call[s].obj = "string"
  /\ queue["string"] + call[s].left = call[s].size
Place(s) ==
  /\ call[s].obj = "string" => s = Owner
  /\ call[s].op = "file-open" => Opening(s)
  /\ ~InWindow(s) => call[s].pc = "copy"
Places == \A s \in Shell : Place(s)

(* As long as no two shells were at the same flags: each object has one     *)
(* shell in the window between reading and restoring flags, which saved     *)
(* those of the start; a description that no such shell has changed has the *)
(* flags it should have afterwards.                                         *)
Saved(o) == IF o = "string" THEN {} ELSE first["stdin"]
AtRest(d) == CASE d = "stdin"  -> flags[d] = first["stdin"]
               [] d = "stdout" -> flags[d] \in {first["stdout"], first["stdin"]}
               [] OTHER        -> flags[d] = {}
ChangedBy(s, d) == InWindow(s) /\ call[s].pc # "flag" /\ Changed(call[s]) = d

Sole == \A s, t \in Shell :
          InWindow(s) /\ InWindow(t) /\ call[s].obj = call[t].obj => s = t
Windows == \A s \in Shell : InWindow(s) =>
  /\ call[s].saved = Saved(call[s].obj)
  /\ call[s].pc = "copy" => flags[Changed(call[s])] = Nonblock(call[s])
Rest == \A d \in Desc : (\A s \in Shell : ~ChangedBy(s, d)) => AtRest(d)

Clean == Sole /\ Windows /\ Rest

Inv == TypeOK /\ Places /\ (~crossed => Clean)

-----------------------------------------------------------------------------
(* Types                                                                    *)

LEMMA IdleType == Idle \in Call
BY ContentsAssumption DEF Idle, Call, Op, Object

LEMMA ObjectTypes ==
  ASSUME NEW o \in Object, one \in BOOLEAN
  PROVE  /\ In(o) \in Desc /\ Out(o) \in Desc
         /\ From(o) \in Queue /\ To(o) \in Queue
BY DEF In, Out, From, To, Object, Desc, Queue

(* The description a built-in changes is one of its object's, so two        *)
(* objects have no description in common.                                   *)
LEMMA ChangedTypes ==
  ASSUME TypeOK, NEW c \in Call
  PROVE  /\ Changed(c) \in Desc
         /\ c.obj = "string" => Changed(c) \in {"read", "write"}
         /\ c.obj = "stdio"  => Changed(c) \in {"stdin", "stdout"}
         /\ c.obj \in {"stdio", "string"}
BY DEF TypeOK, Call, Object, Changed, In, Out, Desc

LEMMA InitType == Init => TypeOK
<1> SUFFICES ASSUME Init PROVE TypeOK
  OBVIOUS
<1>1. queue \in [Queue -> 0 .. Room]
  BY ContentsAssumption DEF Init
<1>2. call \in [Shell -> Call]
  BY IdleType DEF Init
<1> QED
  BY <1>1, <1>2, Zenon DEF Init, TypeOK

LEMMA NextType == TypeOK /\ [Next]_vars => TypeOK'
<1> SUFFICES ASSUME TypeOK, [Next]_vars PROVE TypeOK'
  OBVIOUS
<1> USE DEF TypeOK
<1>0. Owner \in Shell /\ Room \in Nat
  BY ContentsAssumption
<1>1. CASE Programs
  <2>1. queue' \in [Queue -> 0 .. Room]
    BY <1>0, <1>1 DEF Programs
  <2>2. ended' \in BOOLEAN
    BY <1>1, Zenon DEF Programs
  <2> QED
    BY <1>1, <2>1, <2>2 DEF Programs
<1>2. ASSUME NEW n \in 0 .. MaxText, OpenString(n) PROVE TypeOK'
  <2>1. call'[Owner] \in Call
    BY <1>0, <1>2 DEF OpenString, Set, Call, Op, Object
  <2>2. call' \in [Shell -> Call]
    BY <1>0, <1>2, <2>1 DEF OpenString, Set
  <2>3. queue' \in [Queue -> 0 .. Room]
    BY <1>0, <1>2 DEF OpenString, Queue
  <2>4. flags' \in [Desc -> SUBSET Flag]
    BY <1>2 DEF OpenString, Desc
  <2> QED
    BY <1>2, <2>2, <2>3, <2>4 DEF OpenString, Files
<1>3. ASSUME NEW s \in Shell, NEW op \in Op, NEW o \in Object, NEW n \in 0 .. MaxText,
             GetFlags(s, op, o, n)
      PROVE  TypeOK'
  <2>1. flags[In(o)] \in SUBSET Flag
    BY ObjectTypes
  <2>2. [op |-> op, pc |-> "flag", obj |-> o, saved |-> flags[In(o)],
         size |-> n, left |-> n] \in Call
    BY <2>1 DEF Call
  <2>3. call' \in [Shell -> Call]
    BY <1>3, <2>2 DEF GetFlags, Set
  <2>4. crossed' \in BOOLEAN
    BY <1>3 DEF GetFlags
  <2> QED
    BY <1>3, <2>3, <2>4 DEF GetFlags, Files
<1>4. ASSUME NEW s \in Shell, NEW o \in Object, ReadBlock(s, o) PROVE TypeOK'
  <2>1. [Idle EXCEPT !.op = "file-read-block", !.obj = o] \in Call
    BY IdleType DEF Call, Op
  <2> QED
    BY <1>4, <2>1 DEF ReadBlock, Set, Files
<1>5. ASSUME NEW s \in Shell, SetFlags(s) PROVE TypeOK'
  <2>1. Changed(call[s]) \in Desc /\ Nonblock(call[s]) \in SUBSET Flag
    BY ChangedTypes DEF Nonblock, Call, Flag
  <2>2. [call[s] EXCEPT !.pc = "copy"] \in Call
    BY DEF Call
  <2> QED
    BY <1>5, <2>1, <2>2 DEF SetFlags, Set, Files
<1>6. ASSUME NEW s \in Shell, ReadOne(s) PROVE TypeOK'
  <2>1. From(call[s].obj) \in Queue
    BY ObjectTypes DEF Call
  <2> QED
    BY <1>0, <1>6, <2>1 DEF ReadOne, Files
<1>7. ASSUME NEW s \in Shell, WriteOne(s) PROVE TypeOK'
  <2>1. To(call[s].obj) \in Queue
    BY ObjectTypes DEF Call
  <2>2. queue' \in [Queue -> 0 .. Room]
    BY <1>0, <1>7, <2>1 DEF WriteOne, Full
  <2>3. [call[s] EXCEPT !.left = @ - 1] \in Call
    BY <1>7, ContentsAssumption DEF WriteOne, Call
  <2> QED
    BY <1>7, <2>2, <2>3 DEF WriteOne, Set, Files
<1>8. ASSUME NEW s \in Shell, CopyEnd(s) PROVE TypeOK'
  <2>1. [call[s] EXCEPT !.pc = "back"] \in Call
    BY DEF Call
  <2>2. call' \in [Shell -> Call]
    BY <1>8, <2>1, IdleType DEF CopyEnd, Set
  <2>3. opened' \in BOOLEAN
    BY <1>8 DEF CopyEnd
  <2> QED
    BY <1>8, <2>2, <2>3 DEF CopyEnd, Files
<1>9. ASSUME NEW s \in Shell, Restore(s) PROVE TypeOK'
  <2>1. Changed(call[s]) \in Desc /\ call[s].saved \in SUBSET Flag
    BY ChangedTypes DEF Call
  <2> QED
    BY <1>9, <2>1, IdleType DEF Restore, Restored, Set, Files
<1>10. CASE UNCHANGED vars
  BY <1>10 DEF vars
<1> QED
  BY <1>1, <1>2, <1>3, <1>4, <1>5, <1>6, <1>7, <1>8, <1>9, <1>10 DEF Next

-----------------------------------------------------------------------------
(* Where the shells are                                                     *)

LEMMA InitPlaces == Init => Places
<1> SUFFICES ASSUME Init, NEW s \in Shell PROVE Place(s)
  BY DEF Places
<1>1. call[s] = Idle
  BY DEF Init
<1> QED
  BY <1>1 DEF Place, InWindow, Idle

(* Who opens a string is alone with it.                                     *)
LEMMA OneOpens ==
  ASSUME Places, NEW s \in Shell, NEW t \in Shell, s # t, call[t].op = "file-open"
  PROVE  call[s].obj # "string" /\ call[s].op # "file-open"
BY DEF Places, Place, Opening

(* What the place of a shell at rest depends on.                            *)
LEMMA PlaceKept ==
  ASSUME Places, NEW t \in Shell, call'[t] = call[t],
         call[t].op = "file-open" =>
           opened' = opened /\ queue'["string"] = queue["string"]
  PROVE  Place(t)'
BY DEF Places, Place, Opening, InWindow

LEMMA NextPlaces == TypeOK /\ Places /\ [Next]_vars => Places'
<1> SUFFICES ASSUME TypeOK, Places, [Next]_vars, NEW t \in Shell PROVE Place(t)'
  BY DEF Places
<1>0. Place(t) /\ call[t] \in Call /\ Owner \in Shell /\ queue["string"] \in Nat
  BY ContentsAssumption DEF Places, TypeOK, Queue
<1>1. CASE Programs
  <2>1. call' = call /\ opened' = opened
    BY <1>1 DEF Programs
  <2>2. ~opened => queue'["string"] = queue["string"]
    <3> SUFFICES ASSUME ~opened, queue' # queue PROVE queue'["string"] = queue["string"]
      OBVIOUS
    <3>1. PICK q \in Queue : /\ q = "string" => opened
                             /\ \/ queue' = [queue EXCEPT ![q] = @ + 1]
                                \/ queue' = [queue EXCEPT ![q] = @ - 1]
      BY <1>1, Zenon DEF Programs
    <3> QED
      BY <3>1 DEF TypeOK, Queue
  <2> QED
    BY <1>0, <2>1, <2>2, PlaceKept DEF Place, Opening
<1>2. ASSUME NEW n \in 0 .. MaxText, OpenString(n) PROVE Place(t)'
  <2>1. CASE t = Owner
    <3>1. /\ call'[t] = [op |-> "file-open", pc |-> "copy", obj |-> "string",
                         saved |-> {}, size |-> n, left |-> n]
          /\ ~opened' /\ queue'["string"] = 0 /\ n \in Nat
      BY <1>0, <1>2, <2>1, ContentsAssumption DEF OpenString, Set, TypeOK, Queue
    <3> QED
      BY <2>1, <3>1 DEF Place, Opening, InWindow
  <2>2. CASE t # Owner
    <3>1. call'[t] = call[t]
      BY <1>2, <2>2 DEF OpenString, Set, TypeOK
    <3> QED
      BY <1>0, <2>2, <3>1, PlaceKept DEF Place, Opening
  <2> QED
    BY <2>1, <2>2
<1>3. ASSUME NEW s \in Shell, NEW op \in Op, NEW o \in Object, NEW n \in 0 .. MaxText,
             GetFlags(s, op, o, n)
      PROVE  Place(t)'
  <2>1. opened' = opened /\ queue' = queue
    BY <1>3 DEF GetFlags
  <2>2. CASE t = s
    <3>1. /\ call'[t] = [op |-> op, pc |-> "flag", obj |-> o, saved |-> flags[In(o)],
                         size |-> n, left |-> n]
          /\ op \in {"file-read", "file-write"} /\ (o = "string" => t = Owner)
      BY <1>3, <2>2 DEF GetFlags, Set, TypeOK, Owns
    <3> QED
      BY <3>1 DEF Place, InWindow
  <2>3. CASE t # s
    BY <1>3, <2>1, <2>3, PlaceKept DEF GetFlags, Set, TypeOK
  <2> QED
    BY <2>2, <2>3
<1>4. ASSUME NEW s \in Shell, NEW o \in Object, ReadBlock(s, o) PROVE Place(t)'
  <2>1. opened' = opened /\ queue' = queue
    BY <1>4 DEF ReadBlock
  <2>2. CASE t = s
    <3>1. /\ call'[t] = [Idle EXCEPT !.op = "file-read-block", !.obj = o]
          /\ o = "string" => t = Owner
      BY <1>4, <2>2 DEF ReadBlock, Set, TypeOK, Owns
    <3> QED
      BY <3>1 DEF Place, InWindow, Idle
  <2>3. CASE t # s
    BY <1>4, <2>1, <2>3, PlaceKept DEF ReadBlock, Set, TypeOK
  <2> QED
    BY <2>2, <2>3
<1>5. ASSUME NEW s \in Shell, SetFlags(s) PROVE Place(t)'
  <2>1. opened' = opened /\ queue' = queue
    BY <1>5 DEF SetFlags
  <2>2. CASE t = s
    <3>1. call'[t] = [call[t] EXCEPT !.pc = "copy"] /\ InWindow(t)
      BY <1>5, <2>2 DEF SetFlags, Set, TypeOK
    <3> QED
      BY <1>0, <3>1 DEF Place, InWindow, Call
  <2>3. CASE t # s
    BY <1>5, <2>1, <2>3, PlaceKept DEF SetFlags, Set, TypeOK
  <2> QED
    BY <2>2, <2>3
<1>6. ASSUME NEW s \in Shell, ReadOne(s) PROVE Place(t)'
  <2>1. call' = call /\ opened' = opened
    BY <1>6 DEF ReadOne
  <2>2. call[t].op = "file-open" => queue'["string"] = queue["string"]
    <3>1. call[t].op = "file-open" => t # s
      BY <1>6 DEF ReadOne, Reads
    <3>2. call[s].obj # "string" => queue'["string"] = queue["string"]
      BY <1>6 DEF ReadOne, From, TypeOK, Queue
    <3> QED
      BY <3>1, <3>2, OneOpens
  <2> QED
    BY <2>1, <2>2, PlaceKept
<1>7. ASSUME NEW s \in Shell, WriteOne(s) PROVE Place(t)'
  <2>1. opened' = opened
    BY <1>7 DEF WriteOne
  <2>2. CASE t = s
    <3>1. call'[t] = [call[t] EXCEPT !.left = @ - 1]
      BY <1>7, <2>2 DEF WriteOne, Set, TypeOK
    <3>2. call[t].obj = "string" => queue'["string"] = queue["string"] + 1
      BY <1>7, <2>2 DEF WriteOne, To, TypeOK, Queue
    <3>3. call[t].left \in Nat /\ call[t].size \in Nat
      BY <1>0, ContentsAssumption DEF Call
    <3>4. /\ call'[t].op = call[t].op /\ call'[t].pc = call[t].pc
          /\ call'[t].obj = call[t].obj /\ call'[t].size = call[t].size
          /\ call'[t].left = call[t].left - 1
      BY <1>0, <3>1 DEF Call
    <3> QED
      BY <1>0, <2>1, <3>2, <3>3, <3>4 DEF Place, Opening, InWindow
  <2>3. CASE t # s
    <3>1. call'[t] = call[t]
      BY <1>7, <2>3 DEF WriteOne, Set, TypeOK
    <3>2. call[s].obj # "string" => queue'["string"] = queue["string"]
      BY <1>7 DEF WriteOne, To, TypeOK, Queue
    <3> QED
      BY <2>1, <2>3, <3>1, <3>2, OneOpens, PlaceKept
  <2> QED
    BY <2>2, <2>3
<1>8. ASSUME NEW s \in Shell, CopyEnd(s) PROVE Place(t)'
  <2>1. queue' = queue
    BY <1>8 DEF CopyEnd
  <2>2. CASE t = s
    <3>1. call'[t] = IF InWindow(t) THEN [call[t] EXCEPT !.pc = "back"] ELSE Idle
      BY <1>8, <2>2 DEF CopyEnd, Set, TypeOK
    <3> QED
      BY <1>0, <3>1 DEF Place, InWindow, Idle, Call
  <2>3. CASE t # s
    <3>1. call'[t] = call[t]
      BY <1>8, <2>3 DEF CopyEnd, Set, TypeOK
    <3>2. call[s].op # "file-open" => opened' = opened
      BY <1>8, Zenon DEF CopyEnd, TypeOK
    <3> QED
      BY <2>1, <2>3, <3>1, <3>2, OneOpens, PlaceKept
  <2> QED
    BY <2>2, <2>3
<1>9. ASSUME NEW s \in Shell, Restore(s) PROVE Place(t)'
  <2>1. opened' = opened /\ queue' = queue
    BY <1>9 DEF Restore
  <2>2. CASE t = s
    <3>1. call'[t] = Idle
      BY <1>9, <2>2 DEF Restore, Set, TypeOK
    <3> QED
      BY <3>1 DEF Place, InWindow, Idle
  <2>3. CASE t # s
    BY <1>9, <2>1, <2>3, PlaceKept DEF Restore, Set, TypeOK
  <2> QED
    BY <2>2, <2>3
<1>10. CASE UNCHANGED vars
  BY <1>10, PlaceKept DEF vars
<1> QED
  BY <1>1, <1>2, <1>3, <1>4, <1>5, <1>6, <1>7, <1>8, <1>9, <1>10 DEF Next

-----------------------------------------------------------------------------
(* Flags                                                                    *)

LEMMA InitClean == Init => Clean
<1> SUFFICES ASSUME Init PROVE Clean
  OBVIOUS
<1>1. \A s \in Shell : ~InWindow(s)
  BY DEF Init, InWindow, Idle
<1>2. \A d \in Desc : AtRest(d)
  BY DEF Init, AtRest, Desc
<1> QED
  BY <1>1, <1>2 DEF Clean, Sole, Windows, Rest

(* A step that changes no flags, and no call in the window except that its  *)
(* copying ends.                                                            *)
LEMMA CleanKept ==
  ASSUME Clean, UNCHANGED <<flags, first, one>>,
         \A s \in Shell :
           /\ InWindow(s)' = InWindow(s)
           /\ InWindow(s) =>
                /\ call'[s].op = call[s].op /\ call'[s].obj = call[s].obj
                /\ call'[s].saved = call[s].saved
                /\ \/ call'[s].pc = call[s].pc
                   \/ call[s].pc = "copy" /\ call'[s].pc = "back"
  PROVE  Clean'
<1>1. Sole'
  BY DEF Clean, Sole
<1>2. \A s \in Shell : InWindow(s) => Changed(call[s])' = Changed(call[s])
  BY DEF Changed, In, Out
<1>3. Windows'
  BY <1>2 DEF Clean, Windows, Saved, Nonblock
<1>4. ASSUME NEW s \in Shell, NEW d \in Desc PROVE ChangedBy(s, d)' = ChangedBy(s, d)
  BY <1>2 DEF ChangedBy
<1>5. \A d \in Desc : AtRest(d)' = AtRest(d)
  BY DEF AtRest
<1>6. Rest'
  BY <1>4, <1>5 DEF Clean, Rest
<1> QED
  BY <1>1, <1>3, <1>6 DEF Clean

(* A shell reads flags: nobody has changed them, or it crosses who has.     *)
LEMMA GetFlagsClean ==
  ASSUME TypeOK, Clean, NEW s \in Shell, NEW op \in Op, NEW o \in Object,
         NEW n \in 0 .. MaxText, GetFlags(s, op, o, n), ~crossed'
  PROVE  Clean'
<1>0. UNCHANGED <<flags, first, one>> /\ op \in {"file-read", "file-write"}
  BY DEF GetFlags, Files
<1>1. call'[s] = [op |-> op, pc |-> "flag", obj |-> o, saved |-> flags[In(o)],
                  size |-> n, left |-> n]
  BY DEF GetFlags, Set, TypeOK
<1>2. \A t \in Shell \ {s} : call'[t] = call[t]
  BY DEF GetFlags, Set, TypeOK
<1>3. ~InWindow(s) /\ InWindow(s)'
  BY <1>0, <1>1 DEF GetFlags, InWindow, Idle
<1>4. \A t \in Shell : InWindow(t) => call[t].obj # o
  BY DEF GetFlags
<1>5. Sole'
  BY <1>1, <1>2, <1>3, <1>4 DEF Clean, Sole, InWindow
<1>6. ASSUME NEW t \in Shell, NEW d \in Desc PROVE ChangedBy(t, d)' = ChangedBy(t, d)
  <2>1. CASE t = s
    BY <1>1, <1>3, <2>1 DEF ChangedBy
  <2>2. CASE t # s
    BY <1>0, <1>2, <2>2 DEF ChangedBy, InWindow, Changed, In, Out
  <2> QED
    BY <2>1, <2>2
<1>7. Rest'
  <2>1. \A d \in Desc : AtRest(d)' = AtRest(d)
    BY <1>0 DEF AtRest
  <2> QED
    BY <1>6, <2>1 DEF Clean, Rest
<1>8. AtRest(In(o)) /\ In(o) \in Desc
  <2>1. In(o) \in Desc
    BY ObjectTypes DEF TypeOK
  <2>2. ASSUME NEW t \in Shell, InWindow(t) PROVE Changed(call[t]) # In(o)
    BY <1>4, <2>2, ChangedTypes DEF TypeOK, In, Object
  <2> QED
    BY <2>1, <2>2 DEF Clean, Rest, ChangedBy
<1>9. flags[In(o)] = Saved(o)'
  BY <1>0, <1>8 DEF AtRest, In, Saved, Desc, Object
<1>10. Windows'
  <2> SUFFICES ASSUME NEW t \in Shell, InWindow(t)'
               PROVE  /\ call'[t].saved = Saved(call[t].obj)'
                      /\ call'[t].pc = "copy" => flags'[Changed(call[t])'] = Nonblock(call[t])'
    BY DEF Windows
  <2>1. CASE t = s
    BY <1>1, <1>9, <2>1 DEF Saved
  <2>2. CASE t # s
    BY <1>0, <1>2, <2>2 DEF Clean, Windows, InWindow, Saved, Changed, In, Out, Nonblock
  <2> QED
    BY <2>1, <2>2
<1> QED
  BY <1>5, <1>7, <1>10 DEF Clean

(* Only the shell at an object changes its flags.                           *)
LEMMA OthersElsewhere ==
  ASSUME TypeOK, Clean, NEW s \in Shell, NEW t \in Shell, s # t,
         InWindow(s), InWindow(t)
  PROVE  Changed(call[t]) # Changed(call[s])
BY ChangedTypes DEF TypeOK, Clean, Sole

LEMMA SetFlagsClean ==
  ASSUME TypeOK, Clean, NEW s \in Shell, SetFlags(s)
  PROVE  Clean'
<1> DEFINE d0 == Changed(call[s])
<1>0. UNCHANGED <<first, one>> /\ InWindow(s) /\ call[s] \in Call
  BY DEF SetFlags, Files, TypeOK
<1>1. call'[s] = [call[s] EXCEPT !.pc = "copy"]
  BY DEF SetFlags, Set, TypeOK
<1>2. \A t \in Shell \ {s} : call'[t] = call[t]
  BY DEF SetFlags, Set, TypeOK
<1>3. /\ call'[s].op = call[s].op /\ call'[s].obj = call[s].obj
      /\ call'[s].saved = call[s].saved /\ call'[s].pc = "copy"
  BY <1>0, <1>1 DEF Call
<1>4. \A t \in Shell : InWindow(t)' = InWindow(t) /\ Changed(call[t])' = Changed(call[t])
  BY <1>0, <1>2, <1>3 DEF InWindow, Changed, In, Out
<1>5. d0 \in Desc /\ flags' = [flags EXCEPT ![d0] = Nonblock(call[s])]
  BY <1>0, ChangedTypes DEF SetFlags
<1>6. Sole'
  BY <1>2, <1>3, <1>4 DEF Clean, Sole
<1>7. Windows'
  <2> SUFFICES ASSUME NEW t \in Shell, InWindow(t)
               PROVE  /\ call'[t].saved = Saved(call[t].obj)'
                      /\ call'[t].pc = "copy" => flags'[Changed(call[t])'] = Nonblock(call[t])'
    BY <1>4 DEF Windows
  <2>1. CASE t = s
    BY <1>0, <1>3, <1>4, <1>5, <2>1 DEF Clean, Windows, Saved, Nonblock, TypeOK
  <2>2. CASE t # s
    <3>1. Changed(call[t]) # d0
      BY <1>0, <2>2, OthersElsewhere
    <3> QED
      BY <1>0, <1>2, <1>4, <1>5, <2>2, <3>1 DEF Clean, Windows, Saved, Nonblock, TypeOK
  <2> QED
    BY <2>1, <2>2
<1>8. Rest'
  <2> SUFFICES ASSUME NEW d \in Desc, \A t \in Shell : ~ChangedBy(t, d)'
               PROVE  AtRest(d)'
    BY DEF Rest
  <2>1. d # d0
    BY <1>0, <1>3, <1>4 DEF ChangedBy
  <2>2. \A t \in Shell : ~ChangedBy(t, d)
    BY <1>2, <1>4, <2>1 DEF ChangedBy
  <2>3. AtRest(d)
    BY <2>2 DEF Clean, Rest
  <2> QED
    BY <1>0, <1>5, <2>1, <2>3 DEF AtRest, TypeOK, Desc
<1> QED
  BY <1>6, <1>7, <1>8 DEF Clean

LEMMA RestoreClean ==
  ASSUME TypeOK, Places, Clean, NEW s \in Shell, Restore(s)
  PROVE  Clean'
<1> DEFINE d0 == Changed(call[s])
<1>0. UNCHANGED <<first, one>> /\ call[s] \in Call /\ InWindow(s)
  BY DEF Restore, Files, TypeOK, Places, Place
<1>1. call'[s] = Idle
  BY DEF Restore, Set, TypeOK
<1>2. \A t \in Shell \ {s} : call'[t] = call[t]
  BY DEF Restore, Set, TypeOK
<1>3. ~InWindow(s)'
  BY <1>1 DEF InWindow, Idle
<1>4. \A t \in Shell \ {s} :
        InWindow(t)' = InWindow(t) /\ Changed(call[t])' = Changed(call[t])
  BY <1>0, <1>2 DEF InWindow, Changed, In, Out
<1>5. d0 \in Desc /\ flags' = [flags EXCEPT ![d0] = call[s].saved]
  BY <1>0, ChangedTypes DEF Restore, Restored
<1>6. Sole'
  BY <1>2, <1>3, <1>4 DEF Clean, Sole
<1>7. Windows'
  <2> SUFFICES ASSUME NEW t \in Shell \ {s}, InWindow(t)
               PROVE  /\ call'[t].saved = Saved(call[t].obj)'
                      /\ call'[t].pc = "copy" => flags'[Changed(call[t])'] = Nonblock(call[t])'
    BY <1>3, <1>4 DEF Windows
  <2>1. Changed(call[t]) # d0
    BY <1>0, OthersElsewhere
  <2> QED
    BY <1>0, <1>2, <1>4, <1>5, <2>1 DEF Clean, Windows, Saved, Nonblock, TypeOK
<1>8. Rest'
  <2> SUFFICES ASSUME NEW d \in Desc, \A t \in Shell : ~ChangedBy(t, d)'
               PROVE  AtRest(d)'
    BY DEF Rest
  <2>1. CASE d = d0
    <3>1. call[s].saved = Saved(call[s].obj)
      BY <1>0 DEF Clean, Windows
    <3>2. flags'[d] = Saved(call[s].obj)
      BY <1>5, <2>1, <3>1 DEF TypeOK
    <3>3. /\ call[s].obj = "string" => d \in {"read", "write"}
          /\ call[s].obj = "stdio" => d \in {"stdin", "stdout"}
          /\ call[s].obj \in {"stdio", "string"}
      BY <1>0, <2>1, ChangedTypes
    <3> QED
      BY <1>0, <3>2, <3>3 DEF AtRest, Saved
  <2>2. CASE d # d0
    <3>1. \A t \in Shell : ~ChangedBy(t, d)
      BY <1>2, <1>4, <2>2 DEF ChangedBy
    <3>2. AtRest(d)
      BY <3>1 DEF Clean, Rest
    <3> QED
      BY <1>0, <1>5, <2>2, <3>2 DEF AtRest, TypeOK, Desc
  <2> QED
    BY <2>1, <2>2
<1> QED
  BY <1>6, <1>7, <1>8 DEF Clean

(* A new pipe has no flags, and nobody is at the string it is for.          *)
LEMMA OpenStringClean ==
  ASSUME TypeOK, Places, Clean, NEW n \in 0 .. MaxText, OpenString(n)
  PROVE  Clean'
<1>0. UNCHANGED <<first, one>> /\ Owner \in Shell
  BY ContentsAssumption DEF OpenString, Files
<1>1. ~InWindow(Owner) /\ ~InWindow(Owner)'
  BY <1>0 DEF OpenString, Set, InWindow, Idle, TypeOK
<1>2. \A t \in Shell \ {Owner} : call'[t] = call[t]
  BY DEF OpenString, Set, TypeOK
<1>3. flags' = [flags EXCEPT !["read"] = {}, !["write"] = {}]
  BY DEF OpenString
<1>4. \A t \in Shell : /\ InWindow(t)' = InWindow(t)
                       /\ InWindow(t) => /\ call'[t] = call[t]
                                         /\ Changed(call[t])' = Changed(call[t])
  BY <1>0, <1>1, <1>2 DEF InWindow, Changed, In, Out
<1>5. Sole'
  BY <1>4 DEF Clean, Sole
<1>6. ASSUME NEW t \in Shell, InWindow(t)
      PROVE  flags'[Changed(call[t])] = flags[Changed(call[t])]
  <2>1. t # Owner /\ call[t] \in Call
    BY <1>1, <1>6 DEF TypeOK
  <2>2. call[t].obj # "string"
    BY <2>1 DEF Places, Place
  <2>3. Changed(call[t]) \in {"stdin", "stdout"}
    BY <2>1, <2>2, ChangedTypes
  <2> QED
    BY <1>3, <2>3 DEF TypeOK, Desc
<1>7. Windows'
  <2> SUFFICES ASSUME NEW t \in Shell, InWindow(t)
               PROVE  /\ call'[t].saved = Saved(call[t].obj)'
                      /\ call'[t].pc = "copy" => flags'[Changed(call[t])'] = Nonblock(call[t])'
    BY <1>4 DEF Windows
  <2> QED
    BY <1>0, <1>4, <1>6 DEF Clean, Windows, Saved, Nonblock
<1>8. Rest'
  <2> SUFFICES ASSUME NEW d \in Desc, \A t \in Shell : ~ChangedBy(t, d)'
               PROVE  AtRest(d)'
    BY DEF Rest
  <2>1. \A t \in Shell : ~ChangedBy(t, d)
    BY <1>4 DEF ChangedBy
  <2>2. AtRest(d)
    BY <2>1 DEF Clean, Rest
  <2> QED
    BY <1>0, <1>3, <2>2 DEF AtRest, TypeOK, Desc
<1> QED
  BY <1>5, <1>7, <1>8 DEF Clean

LEMMA NextClean ==
  ASSUME TypeOK, Places, Clean, [Next]_vars, ~crossed'
  PROVE  Clean'
<1>1. CASE Programs
  BY <1>1, CleanKept DEF Programs, InWindow
<1>2. ASSUME NEW n \in 0 .. MaxText, OpenString(n) PROVE Clean'
  BY <1>2, OpenStringClean
<1>3. ASSUME NEW s \in Shell, NEW op \in Op, NEW o \in Object, NEW n \in 0 .. MaxText,
             GetFlags(s, op, o, n)
      PROVE  Clean'
  BY <1>3, GetFlagsClean
<1>4. ASSUME NEW s \in Shell, NEW o \in Object, ReadBlock(s, o) PROVE Clean'
  <2>1. ~InWindow(s) /\ ~InWindow(s)'
    BY <1>4 DEF ReadBlock, Set, InWindow, Idle, TypeOK
  <2>2. \A t \in Shell \ {s} : call'[t] = call[t]
    BY <1>4 DEF ReadBlock, Set, TypeOK
  <2> QED
    BY <1>4, <2>1, <2>2, CleanKept DEF ReadBlock, Files, InWindow
<1>5. ASSUME NEW s \in Shell, SetFlags(s) PROVE Clean'
  BY <1>5, SetFlagsClean
<1>6. ASSUME NEW s \in Shell, ReadOne(s) PROVE Clean'
  BY <1>6, CleanKept DEF ReadOne, Files, InWindow
<1>7. ASSUME NEW s \in Shell, WriteOne(s) PROVE Clean'
  <2>1. call'[s] = [call[s] EXCEPT !.left = @ - 1]
    BY <1>7 DEF WriteOne, Set, TypeOK
  <2>2. /\ call'[s].op = call[s].op /\ call'[s].obj = call[s].obj
        /\ call'[s].saved = call[s].saved /\ call'[s].pc = call[s].pc
    BY <2>1 DEF TypeOK, Call
  <2>3. \A t \in Shell \ {s} : call'[t] = call[t]
    BY <1>7 DEF WriteOne, Set, TypeOK
  <2> QED
    BY <1>7, <2>2, <2>3, CleanKept DEF WriteOne, Files, InWindow
<1>8. ASSUME NEW s \in Shell, CopyEnd(s) PROVE Clean'
  <2>1. call'[s] = IF InWindow(s) THEN [call[s] EXCEPT !.pc = "back"] ELSE Idle
    BY <1>8 DEF CopyEnd, Set, TypeOK
  <2>2. InWindow(s) =>
          /\ call'[s].op = call[s].op /\ call'[s].obj = call[s].obj
          /\ call'[s].saved = call[s].saved
          /\ call[s].pc = "copy" /\ call'[s].pc = "back"
    BY <1>8, <2>1 DEF CopyEnd, Copying, TypeOK, Call
  <2>3. InWindow(s)' = InWindow(s)
    BY <2>1, <2>2 DEF InWindow, Idle
  <2>4. \A t \in Shell \ {s} : call'[t] = call[t]
    BY <1>8 DEF CopyEnd, Set, TypeOK
  <2> QED
    BY <1>8, <2>2, <2>3, <2>4, CleanKept DEF CopyEnd, Files, InWindow
<1>9. ASSUME NEW s \in Shell, Restore(s) PROVE Clean'
  BY <1>9, RestoreClean
<1>10. CASE UNCHANGED vars
  BY <1>10, CleanKept DEF vars, InWindow
<1> QED
  BY <1>1, <1>2, <1>3, <1>4, <1>5, <1>6, <1>7, <1>8, <1>9, <1>10 DEF Next

(* Once two shells were at the same flags, nothing is said of them.         *)
LEMMA CrossedStays == TypeOK /\ [Next]_vars /\ crossed => crossed'
<1> SUFFICES ASSUME [Next]_vars, crossed PROVE crossed'
  OBVIOUS
<1> QED
  BY Zenon DEF Next, vars, Programs, OpenString, GetFlags, ReadBlock, SetFlags, ReadOne,
               WriteOne, CopyEnd, Restore

LEMMA InitInv == Init => Inv
BY InitType, InitPlaces, InitClean DEF Inv

LEMMA NextInv == Inv /\ [Next]_vars => Inv'
BY NextType, NextPlaces, NextClean, CrossedStays DEF Inv

-----------------------------------------------------------------------------
(* Every variable keeps its type.                                           *)
THEOREM TypeCorrect == Spec => []TypeOK
<1>1. Inv => TypeOK
  BY DEF Inv
<1> QED
  BY InitInv, NextInv, <1>1, PTL DEF Spec

(* file-read and file-write leave the standard files with the flags they    *)
(* had, or the output with those of the input, unless another shell was at  *)
(* it meanwhile.                                                            *)
THEOREM FlagsRestored == Spec => []FlagsComeBack
<1>1. Inv => FlagsComeBack
  <2> SUFFICES ASSUME Clean, \A s \in Shell : ~InWindow(s)
               PROVE  /\ flags["read"] = {} /\ flags["write"] = {}
                      /\ flags["stdin"] = first["stdin"]
                      /\ flags["stdout"] \in {first["stdout"], first["stdin"]}
    BY DEF Inv, FlagsComeBack
  <2>1. \A d \in Desc : AtRest(d)
    BY DEF Clean, Rest, ChangedBy
  <2> QED
    BY <2>1 DEF AtRest, Desc
<1> QED
  BY InitInv, NextInv, <1>1, PTL DEF Spec

(* A shell waits in the middle of a built-in only in file-read-block and in *)
(* file-open of a text its pipe has no room for, unless another shell took  *)
(* O_NONBLOCK away.                                                         *)
THEOREM WaitsOnlyToBlock == Spec => []OnlyWaitsToBlock
<1>1. Inv => OnlyWaitsToBlock
  <2> SUFFICES ASSUME Inv, NEW s \in Shell, Waits(s), ~crossed,
                      call[s].op # "file-read-block"
               PROVE  call[s].op = "file-open" /\ call[s].size > Room
    BY DEF OnlyWaitsToBlock
  <2>0. /\ TypeOK /\ Place(s) /\ Windows /\ call[s] \in Call
        /\ call[s].pc = "copy" /\ call[s].op # "none"
    BY DEF Inv, Clean, Places, TypeOK, Waits, Copying
  <2>1. ~InWindow(s)
    <3> SUFFICES ASSUME InWindow(s) PROVE FALSE
      OBVIOUS
    <3>1. "nonblock" \in flags[Changed(call[s])]
      BY <2>0 DEF Windows, Nonblock
    <3> QED
      BY <3>1 DEF InWindow, Waits, Reads, Changed
  <2>2. call[s].op = "file-open"
    BY <2>0, <2>1 DEF Call, Op, InWindow
  <2>3. Opening(s)
    BY <2>0, <2>2 DEF Place
  <2>4. call[s].left > 0 /\ queue["string"] >= Room
    BY <2>2, <2>3 DEF Waits, Reads, Full, To, Opening
  <2>5. /\ queue["string"] \in Nat /\ Room \in Nat
        /\ call[s].left \in Nat /\ call[s].size \in Nat
    BY <2>0, ContentsAssumption DEF TypeOK, Queue, Call
  <2> QED
    BY <2>2, <2>3, <2>4, <2>5 DEF Opening
<1> QED
  BY InitInv, NextInv, <1>1, PTL DEF Spec
=============================================================================
