------------------------- MODULE Descriptors_proofs -------------------------
(***************************************************************************)
(* What the operators of module Descriptors return, for tables of any      *)
(* size: the lowest free descriptor is there and free, and what open,      *)
(* pipe, close and the redirections of exec_aux change and leave alone.    *)
(***************************************************************************)
EXTENDS Descriptors, WellFoundedInduction, FiniteSetTheorems, TLAPS

(* A set of naturals has a least element.                                   *)
LEMMA LeastElement ==
  ASSUME NEW T \in SUBSET Nat, T # {}
  PROVE  \E x \in T : \A y \in T : x <= y
<1>1. IsWellFoundedOn({ss \in Nat \X Nat : ss[1] < ss[2]}, Nat)
  BY NatLessThanWellFounded DEF OpToRel
<1>2. PICK x \in T : \A y \in T : ~(<<y, x>> \in {ss \in Nat \X Nat : ss[1] < ss[2]})
  BY <1>1, WFMin, Zenon
<1>3. \A y \in T : ~(y < x)
  BY <1>2
<1> QED
  BY <1>3

(* The terminal's three descriptors are among those a process may have.     *)
LEMMA StandardFd == 0 \in Fd /\ 1 \in Fd /\ 2 \in Fd /\ Standard \subseteq Fd /\ Fd \subseteq Nat
BY DescriptorAssumption DEF Fd, Standard

LEMMA EntryTypes == Closed \in Entry /\ Tty \in Entry /\ Tty # Closed
BY DescriptorAssumption DEF Closed, Tty, Entry

LEMMA InitialTableType == InitialTable \in Table /\ NoTable \in Table
BY EntryTypes DEF InitialTable, NoTable, Table

LEMMA LowestFree ==
  ASSUME NEW t, Free(t) # {}
  PROVE  Lowest(t) \in Free(t) /\ Lowest(t) \in Fd /\ t[Lowest(t)] = Closed
<1>1. Free(t) \in SUBSET Nat
  BY StandardFd DEF Free
<1>2. PICK x \in Free(t) : \A y \in Free(t) : x <= y
  BY <1>1, LeastElement
<1>3. Lowest(t) \in Free(t)
  BY <1>2 DEF Lowest
<1> QED
  BY <1>3 DEF Free, Open

(* open puts an entry where there was none.                                 *)
LEMMA InstallTable ==
  ASSUME NEW t \in Table, Free(t) # {}, NEW end \in {"tty", "file", "read", "write"},
         NEW n \in 0 .. MaxFile, NEW cloexec \in BOOLEAN
  PROVE  /\ Install(t, end, n, cloexec) \in Table
         /\ Install(t, end, n, cloexec)[Lowest(t)] =
              [end |-> end, of |-> n, cloexec |-> cloexec]
         /\ \A fd \in Fd \ {Lowest(t)} : Install(t, end, n, cloexec)[fd] = t[fd]
         /\ Free(Install(t, end, n, cloexec)) = Free(t) \ {Lowest(t)}
<1> DEFINE e == [end |-> end, of |-> n, cloexec |-> cloexec]
<1>1. e \in Entry /\ e # Closed
  BY DEF Entry, Closed
<1>2. Lowest(t) \in Fd
  BY LowestFree
<1>3. Install(t, end, n, cloexec) = [t EXCEPT ![Lowest(t)] = e]
  BY DEF Install
<1> HIDE DEF e
<1>4. /\ [t EXCEPT ![Lowest(t)] = e] \in Table
      /\ [t EXCEPT ![Lowest(t)] = e][Lowest(t)] = e
      /\ \A fd \in Fd \ {Lowest(t)} : [t EXCEPT ![Lowest(t)] = e][fd] = t[fd]
  BY <1>1, <1>2 DEF Table
<1>5. Free([t EXCEPT ![Lowest(t)] = e]) = Free(t) \ {Lowest(t)}
  BY <1>1, <1>2, <1>4 DEF Free, Open
<1> QED
  BY <1>3, <1>4, <1>5 DEF e

(* pipe takes two free descriptors.                                         *)
LEMMA PipeTable ==
  ASSUME NEW t \in Table, Cardinality(Free(t)) >= 2, NEW n \in 0 .. MaxFile,
         NEW cloexec \in BOOLEAN, NEW r, NEW w, NEW u,
         r = Lowest(t), w = Lowest(Install(t, "read", n, cloexec)),
         u = NewPipe(t, n, cloexec)
  PROVE  /\ u \in Table /\ r \in Free(t) /\ w \in Free(t) /\ r # w
         /\ u[r] = [end |-> "read", of |-> n, cloexec |-> cloexec]
         /\ u[w] = [end |-> "write", of |-> n, cloexec |-> cloexec]
         /\ \A fd \in Fd \ {r, w} : u[fd] = t[fd]
<1> DEFINE s == Install(t, "read", n, cloexec)
<1>1. IsFiniteSet(Free(t))
  <2>1. IsFiniteSet(Fd)
    BY FS_Interval, DescriptorAssumption DEF Fd
  <2> QED
    BY <2>1, FS_Subset DEF Free
<1>2. Free(t) # {}
  BY FS_EmptySet
<1>3. r \in Free(t)
  BY <1>2, LowestFree
<1>4. Free(t) \ {r} # {}
  <2>1. Cardinality(Free(t) \ {r}) = Cardinality(Free(t)) - 1 /\ Cardinality(Free(t)) \in Nat
    BY <1>1, <1>3, FS_RemoveElement, FS_CardinalityType
  <2>2. Cardinality(Free(t) \ {r}) # 0
    BY <2>1
  <2> QED
    BY <2>2, FS_EmptySet, Zenon
<1>5. /\ s \in Table /\ Free(s) = Free(t) \ {r}
      /\ s[r] = [end |-> "read", of |-> n, cloexec |-> cloexec]
      /\ \A fd \in Fd \ {r} : s[fd] = t[fd]
  BY <1>2, InstallTable
<1>6. w \in Free(t) \ {r}
  BY <1>4, <1>5, LowestFree
<1>7. /\ u \in Table
      /\ u[w] = [end |-> "write", of |-> n, cloexec |-> cloexec]
      /\ \A fd \in Fd \ {w} : u[fd] = s[fd]
  BY <1>4, <1>5, InstallTable DEF NewPipe
<1> QED
  BY <1>3, <1>5, <1>6, <1>7 DEF Free

LEMMA CloseTable ==
  ASSUME NEW t \in Table, NEW fd
  PROVE  /\ Close(t, fd) \in Table
         /\ fd \in Fd => Close(t, fd)[fd] = Closed
         /\ \A other \in Fd \ {fd} : Close(t, fd)[other] = t[other]
BY EntryTypes DEF Close, Table

LEMMA ExecedTable ==
  ASSUME NEW t \in Table
  PROVE  Execed(t) \in Table
BY EntryTypes DEF Execed, Table, Entry

(* Closing what was copied, unless it is one of the first three.            *)
LEMMA CloseAuxTable ==
  ASSUME NEW t \in Table, NEW old \in Fd
  PROVE  /\ CloseAux(t, old) \in Table
         /\ \A fd \in Fd \ {old} : CloseAux(t, old)[fd] = t[fd]
         /\ old \in Standard => CloseAux(t, old) = t
         /\ old \notin Standard => CloseAux(t, old)[old] = Closed
BY CloseTable DEF CloseAux

LEMMA Success ==
  ASSUME NEW u, NEW v, u = [ok |-> TRUE, table |-> v]
  PROVE  u.ok /\ u.table = v /\ u = [ok |-> TRUE, table |-> u.table]
OBVIOUS

(* A redirection that went well. *)
Fine(t) == [ok |-> TRUE, table |-> t]

(* What dup2_aux(old, new) makes of t: a copy that stays open, in place of  *)
(* the original unless that is the terminal's.                              *)
Moved(t, old, new, v) ==
  /\ v[new].end = t[old].end /\ v[new].of = t[old].of
  /\ old # new => v[new].cloexec = FALSE
  /\ old = new => v = t
  /\ \A fd \in Fd \ {old, new} : v[fd] = t[fd]
  /\ old \in Standard => \A fd \in Fd \ {new} : v[fd] = t[fd]
  /\ old \notin Standard => v[old] = Closed

(* One redirection fails only when there is nothing to copy.                *)
LEMMA Dup2Works ==
  ASSUME NEW t \in Table, NEW old \in Fd, NEW new \in Standard, t[old] # Closed,
         NEW u, u = Dup2Aux(Fine(t), old, new), NEW v, v = u.table
  PROVE  u.ok /\ u = Fine(v) /\ v \in Table /\ Moved(t, old, new, v)
<1>1. CASE old = new
  <2>1. u = [ok |-> TRUE, table |-> t]
    BY <1>1 DEF Dup2Aux, Fine
  <2>2. u.ok /\ v = t /\ u = [ok |-> TRUE, table |-> v]
    BY <2>1, Success, Zenon
  <2>3. u = Fine(v)
    BY <2>2, Zenon DEF Fine
  <2> QED
    BY <1>1, <2>2, <2>3 DEF Moved
<1>2. CASE old # new
  <2> DEFINE e == [t[old] EXCEPT !.cloexec = FALSE]
             s == [t EXCEPT ![new] = e]
  <2>1. t[old] \in Entry /\ new \in Fd
    BY StandardFd DEF Table
  <2>2. e \in Entry /\ e.end = t[old].end /\ e.of = t[old].of /\ e.cloexec = FALSE
    BY <2>1 DEF Entry
  <2>3. s \in Table /\ s[new] = e /\ \A fd \in Fd \ {new} : s[fd] = t[fd]
    BY <2>1, <2>2 DEF Table
  <2>4. PICK c : c = CloseAux(s, old)
    OBVIOUS
  <2>5. u = [ok |-> TRUE, table |-> c]
    BY <1>2, <2>4 DEF Dup2Aux, Open, Fine
  <2> HIDE DEF s, e
  <2>6. u.ok /\ v = c /\ u = [ok |-> TRUE, table |-> v]
    BY <2>5, Success, Zenon
  <2>7. /\ v \in Table
        /\ \A fd \in Fd \ {old} : v[fd] = s[fd]
        /\ old \in Standard => v = s
        /\ old \notin Standard => v[old] = Closed
    <3>1. /\ CloseAux(s, old) \in Table
          /\ \A fd \in Fd \ {old} : CloseAux(s, old)[fd] = s[fd]
          /\ old \in Standard => CloseAux(s, old) = s
          /\ old \notin Standard => CloseAux(s, old)[old] = Closed
      BY <2>3, CloseAuxTable
    <3> QED
      BY <2>4, <2>6, <3>1
  <2>8. v[new] = e
    BY <1>2, <2>1, <2>3, <2>7
  <2>9. \A fd \in Fd \ {old, new} : v[fd] = t[fd]
    BY <2>3, <2>7
  <2>10. old \in Standard => \A fd \in Fd \ {new} : v[fd] = t[fd]
    BY <2>3, <2>7
  <2>11. u = Fine(v)
    BY <2>6, Zenon DEF Fine
  <2> QED
    BY <1>2, <2>2, <2>6, <2>7, <2>8, <2>9, <2>10, <2>11 DEF Moved
<1> QED
  BY <1>1, <1>2

LEMMA Dup2Fails ==
  ASSUME NEW t, NEW old \in Fd, NEW new, t[old] = Closed, old # new
  PROVE  Dup2Aux(Fine(t), old, new) = Failed
BY DEF Dup2Aux, Open, Fine

LEMMA Dup2AfterFailure ==
  ASSUME NEW old, NEW new
  PROVE  Dup2Aux(Failed, old, new) = Failed
BY DEF Dup2Aux, Failed
(* What exec leaves of a table whose other descriptors all close then.      *)
LEMMA ExecedStandard ==
  ASSUME NEW t \in Table,
         \A fd \in Fd \ Standard : t[fd] # Closed => t[fd].cloexec = TRUE,
         \A fd \in Standard : t[fd].cloexec = FALSE /\ t[fd].end # "none"
  PROVE  /\ Open(Execed(t)) = Standard
         /\ \A fd \in Standard : Execed(t)[fd] = t[fd]
<1>1. \A fd \in Standard : fd \in Fd /\ Execed(t)[fd] = t[fd] /\ t[fd] # Closed
  BY StandardFd DEF Execed, Closed
<1>2. ASSUME NEW fd \in Fd \ Standard PROVE Execed(t)[fd] = Closed
  <2>1. CASE t[fd] = Closed
    BY <2>1 DEF Execed
  <2>2. CASE t[fd] # Closed
    BY <2>2 DEF Execed
  <2> QED
    BY <2>1, <2>2
<1> QED
  BY <1>1, <1>2, StandardFd DEF Open

(* A descriptor other than the terminal's is wanted for two of the three.   *)
Twice(in, out, err) ==
  \E fd \in Fd \ Standard :
    \/ fd = in /\ fd \in {out, err}
    \/ fd = out /\ fd = err

(* w has as its three descriptors in, out and err of t, and no other open.  *)
Carries(w, t, in, out, err) ==
  /\ Open(w) = Standard
  /\ w[0].end = t[in].end /\ w[0].of = t[in].of
  /\ w[1].end = t[out].end /\ w[1].of = t[out].of
  /\ err # 1 => w[2].end = t[err].end /\ w[2].of = t[err].of
  /\ err = 1 => w[2].end = t[out].end /\ w[2].of = t[out].of

(* The three redirections: they fail only when a descriptor is wanted       *)
(* twice, and otherwise exec leaves the three files and no more.            *)
LEMMA RedirectedTable ==
  ASSUME NEW t \in Table,
         \A fd \in Standard : t[fd] = Tty,
         \A fd \in Fd \ Standard : t[fd] # Closed => t[fd].cloexec = TRUE,
         NEW in \in Fd, NEW out \in Fd, NEW err \in Fd,
         in \notin {1, 2}, out # 0, err # 0,
         t[in].end # "none", t[out].end # "none", t[err].end # "none",
         NEW s, s = Redirected(t, in, out, err)
  PROVE  \/ s = Failed /\ Twice(in, out, err)
         \/ s.ok /\ Carries(Execed(s.table), t, in, out, err)
<1>0. /\ 0 \in Fd /\ 1 \in Fd /\ 2 \in Fd /\ Standard = {0, 1, 2}
      /\ t[0] = Tty /\ t[1] = Tty /\ t[2] = Tty
      /\ t[in] # Closed /\ t[out] # Closed /\ t[err] # Closed
      /\ Tty.end = "tty" /\ Tty.cloexec = FALSE /\ Tty # Closed
  BY StandardFd, EntryTypes DEF Standard, Closed, Tty
<1>1. PICK s1 : s1 = Dup2Aux(Fine(t), in, 0)
  OBVIOUS
<1>2. PICK s2 : s2 = Dup2Aux(s1, out, 1)
  OBVIOUS
<1>3. s = Dup2Aux(s2, err, 2)
  BY <1>1, <1>2, Zenon DEF Redirected, Fine
<1>4. PICK u : u = s1.table
  OBVIOUS
<1>5. s1 = Fine(u) /\ u \in Table /\ Moved(t, in, 0, u)
  <2>1. 0 \in Standard
    BY <1>0
  <2> QED
    BY <1>0, <1>1, <1>4, <2>1, Dup2Works
<1>6. /\ u[0].cloexec = FALSE
      /\ u[1] = Tty /\ u[2] = Tty
      /\ \A fd \in Fd \ Standard : u[fd] = (IF fd = in THEN Closed ELSE t[fd])
  <2>1. u[0].cloexec = FALSE
    BY <1>0, <1>5 DEF Moved
  <2>2. u[1] = Tty /\ u[2] = Tty
    BY <1>0, <1>5 DEF Moved
  <2>3. \A fd \in Fd \ Standard : u[fd] = (IF fd = in THEN Closed ELSE t[fd])
    BY <1>0, <1>5 DEF Moved
  <2> QED
    BY <2>1, <2>2, <2>3 DEF Moved
<1>7. s2 = Dup2Aux(Fine(u), out, 1)
  BY <1>2, <1>5, Zenon
<1>8. CASE u[out] = Closed
  <2>1. out = in /\ out \notin Standard
    BY <1>0, <1>6, <1>8
  <2>2. s2 = Failed
    BY <1>0, <1>7, <1>8, <2>1, Dup2Fails, Zenon
  <2>3. s = Failed
    BY <1>3, <2>2, Dup2AfterFailure, Zenon
  <2> QED
    BY <2>1, <2>3 DEF Twice
<1>9. CASE u[out] # Closed
  <2>1. PICK v : v = s2.table
    OBVIOUS
  <2>2. s2 = Fine(v) /\ v \in Table /\ Moved(u, out, 1, v)
    <3>1. 1 \in Standard
      BY <1>0
    <3> QED
      BY <1>5, <1>7, <1>9, <2>1, <3>1, Dup2Works
  <2>3. u[out].end = t[out].end /\ u[out].of = t[out].of
    BY <1>0, <1>6, <1>9
  <2>4. v[0] = u[0] /\ v[2] = Tty
    BY <1>0, <1>6, <2>2 DEF Moved
  <2>5. v[1].cloexec = FALSE
    BY <1>0, <1>6, <2>2 DEF Moved
  <2>6. \A fd \in Fd \ Standard : v[fd] = (IF fd \in {in, out} THEN Closed ELSE t[fd])
    BY <1>0, <1>6, <2>2 DEF Moved
  <2>7. s = Dup2Aux(Fine(v), err, 2)
    BY <1>3, <2>2, Zenon
  <2>8. CASE v[err] = Closed
    <3>1. err \notin {1, 2}
      BY <1>0, <1>9, <2>2, <2>3, <2>4, <2>8 DEF Closed, Moved
    <3>2. err \notin Standard /\ err \in {in, out}
      BY <1>0, <2>6, <2>8, <3>1
    <3>3. s = Failed
      BY <2>7, <2>8, <3>1, Dup2Fails, Zenon
    <3> QED
      BY <3>2, <3>3 DEF Twice
  <2>9. CASE v[err] # Closed
    <3>1. PICK w : w = s.table
      OBVIOUS
    <3>2. s.ok /\ w \in Table /\ Moved(v, err, 2, w)
      <4>1. 2 \in Standard
        BY <1>0
      <4> QED
        BY <2>2, <2>7, <2>9, <3>1, <4>1, Dup2Works
    <3>3. w[0] = v[0] /\ w[1] = v[1]
      BY <1>0, <3>2 DEF Moved
    <3>4. w[2].cloexec = FALSE
      BY <1>0, <2>4, <3>2 DEF Moved
    <3>5. /\ w[0].end = t[in].end /\ w[0].of = t[in].of /\ w[0].cloexec = FALSE
          /\ w[1].end = t[out].end /\ w[1].of = t[out].of /\ w[1].cloexec = FALSE
      BY <1>5, <1>6, <2>2, <2>3, <2>4, <2>5, <3>3 DEF Moved
    <3>6. /\ err = 1 => w[2].end = t[out].end /\ w[2].of = t[out].of
          /\ err # 1 => w[2].end = t[err].end /\ w[2].of = t[err].of
      <4>1. CASE err = 1
        BY <2>2, <2>3, <3>2, <4>1 DEF Moved
      <4>2. CASE err = 2
        BY <1>0, <2>4, <3>2, <4>2 DEF Moved
      <4>3. CASE err \notin Standard
        BY <1>0, <2>6, <2>9, <3>2, <4>3 DEF Moved
      <4> QED
        BY <1>0, <4>1, <4>2, <4>3
    <3>7. \A fd \in Fd \ Standard : w[fd] = t[fd] \/ w[fd] = Closed
      BY <1>0, <2>6, <3>2 DEF Moved
    <3>8. \A fd \in Fd \ Standard : w[fd] # Closed => w[fd].cloexec = TRUE
      BY <3>7
    <3>9. \A fd \in Standard : w[fd].cloexec = FALSE /\ w[fd].end # "none"
      BY <1>0, <3>4, <3>5, <3>6
    <3>10. Open(Execed(w)) = Standard /\ \A fd \in Standard : Execed(w)[fd] = w[fd]
      BY <3>2, <3>8, <3>9, ExecedStandard
    <3>11. /\ s.ok /\ s.table \in Table /\ Open(Execed(s.table)) = Standard
           /\ Execed(s.table)[0] = w[0] /\ Execed(s.table)[1] = w[1]
           /\ Execed(s.table)[2] = w[2]
      BY <1>0, <3>1, <3>2, <3>10 DEF Moved
    <3> QED
      BY <3>5, <3>6, <3>11 DEF Carries
  <2> QED
    BY <2>8, <2>9
<1> QED
  BY <1>8, <1>9
(* Whatever descriptors are redirected, the result is a table.              *)
LEMMA RedirectedType ==
  ASSUME NEW t \in Table, NEW in \in Fd, NEW out \in Fd, NEW err \in Fd
  PROVE  Redirected(t, in, out, err).table \in Table
<1>1. ASSUME NEW s, s.table \in Table, NEW old \in Fd, NEW new \in Fd
      PROVE  Dup2Aux(s, old, new).table \in Table
  <2>1. CASE ~s.ok \/ old = new
    BY <1>1, <2>1 DEF Dup2Aux
  <2>2. CASE ~(~s.ok \/ old = new) /\ old \notin Open(s.table)
    <3>1. Dup2Aux(s, old, new) = Failed
      BY <2>2 DEF Dup2Aux
    <3> QED
      BY <3>1, InitialTableType DEF Failed
  <2>3. CASE ~(~s.ok \/ old = new) /\ old \in Open(s.table)
    <3> DEFINE u == [s.table EXCEPT ![new] = [s.table[old] EXCEPT !.cloexec = FALSE]]
    <3>1. u \in Table
      <4>1. s.table[old] \in Entry
        BY <1>1 DEF Table
      <4>2. [s.table[old] EXCEPT !.cloexec = FALSE] \in Entry
        BY <4>1 DEF Entry
      <4> QED
        BY <1>1, <4>2 DEF Table
    <3>2. Dup2Aux(s, old, new) = [ok |-> TRUE, table |-> CloseAux(u, old)]
      BY <2>3, Zenon DEF Dup2Aux
    <3> HIDE DEF u
    <3>3. PICK v : v = CloseAux(u, old)
      OBVIOUS
    <3>4. Dup2Aux(s, old, new).table = v
      BY <3>2, <3>3, Success, Zenon
    <3> QED
      BY <3>1, <3>3, <3>4, CloseAuxTable
  <2> QED
    BY <2>1, <2>2, <2>3
<1>2. PICK s0 : s0 = [ok |-> TRUE, table |-> t]
  OBVIOUS
<1>3. s0.table = t
  BY <1>2, Success, Zenon
<1>4. Redirected(t, in, out, err) = Dup2Aux(Dup2Aux(Dup2Aux(s0, in, 0), out, 1), err, 2)
  BY <1>2, Zenon DEF Redirected
<1> QED
  BY <1>1, <1>3, <1>4, StandardFd
=============================================================================
