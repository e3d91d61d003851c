-------------------------- MODULE Typecheck_proofs --------------------------
(***************************************************************************)
(* Theorems about Typecheck, for specifications and lists of any length,   *)
(* and lists nested to any depth.                                          *)
(***************************************************************************)
EXTENDS Typecheck, WellFoundedInduction, SequenceTheorems, TLAPS

-----------------------------------------------------------------------------
(* Induction over the positions of a specification, from its end.           *)

LEMMA Least ==
  ASSUME NEW T \in SUBSET Nat, T # {}
  PROVE  \E x \in T : \A y \in T : x <= y
<1>1. IsWellFoundedOn({ss \in Nat \X Nat : ss[1] < ss[2]}, Nat)
  BY NatLessThanWellFounded DEF OpToRel
<1>2. PICK x \in T : \A y \in T : ~(<<y, x>> \in {ss \in Nat \X Nat : ss[1] < ss[2]})
  BY <1>1, WFMin, Zenon
<1>3. \A y \in T : ~(y < x)
  BY <1>2
<1> QED BY <1>3

LEMMA Downward ==
  ASSUME NEW N \in Nat, NEW T,
         \A k \in 1 .. N : (\A j \in k + 1 .. N : j \in T) => k \in T
  PROVE  \A k \in 1 .. N : k \in T
<1> SUFFICES ASSUME \E k \in 1 .. N : k \notin T PROVE FALSE
  OBVIOUS
<1> DEFINE M == {m \in Nat : m <= N /\ N - m >= 1 /\ (N - m) \notin T}
<1>1. PICK k \in 1 .. N : k \notin T
  OBVIOUS
<1>2. N - k \in M
  BY <1>1
<1>3. PICK m \in M : \A y \in M : m <= y
  <2> HIDE DEF M
  <2>1. M \in SUBSET Nat
    BY DEF M
  <2> QED BY <1>2, <2>1, Least
<1>4. ASSUME NEW j \in N - m + 1 .. N PROVE j \in T
  <2>1. N - j \in Nat /\ N - j < m /\ N - (N - j) = j /\ j >= 1
    BY <1>3
  <2> QED BY <1>3, <2>1
<1>5. N - m \in 1 .. N /\ N - m \notin T
  BY <1>3
<1> QED BY <1>4, <1>5

-----------------------------------------------------------------------------
(* Specifications                                                           *)

Kind == {"one", "many", "any", "rest", "open", "close", "bad", "end"}

LEMMA SpecKinds ==
  ASSUME NEW s \in Seq(Token), NEW n \in Nat \ {0}
  PROVE  /\ SpecAt(s, n).kind \in Kind
         /\ SpecAt(s, n).kind = "end" <=> n > Len(s)
<1>1. \A t \in Token : t.kind \in Kind \ {"end"}
  <2> TAKE t \in Token
  <2>1. CASE \E x \in Types \cup {"list"} : t = One(x)
    BY <2>1 DEF One, Kind
  <2>2. CASE \E x \in Types \cup {"list"} : t = Many(x)
    BY <2>2 DEF Many, Kind
  <2>3. CASE \E k \in {"any", "rest", "open", "close", "bad"} : t = Sign(k)
    BY <2>3 DEF Sign, Kind
  <2> QED BY <2>1, <2>2, <2>3, Zenon DEF Token
<1>2. CASE n <= Len(s)
  BY <1>1, <1>2 DEF SpecAt
<1>3. CASE n > Len(s)
  BY <1>3 DEF SpecAt, Sign, Kind
<1> QED BY <1>2, <1>3

(* The function of one position onwards can be made from that of the next,  *)
(* as Past looks only at later positions.                                   *)
Beyond(s, f, n) == f[n] \in n .. Len(s) + 1 /\ (n <= Len(s) => f[n] > n)

LEMMA PastBeyond ==
  ASSUME NEW s \in Seq(Token), NEW n \in 1 .. Len(s) + 1, NEW f,
         \A k \in n + 1 .. Len(s) + 1 : Beyond(s, f, k)
  PROVE  /\ Past(s, f, n) \in n .. Len(s) + 1
         /\ n <= Len(s) => Past(s, f, n) > n
<1>1. Len(s) \in Nat /\ n \in Nat \ {0}
  OBVIOUS
<1>2. SpecAt(s, n).kind \in Kind /\ (SpecAt(s, n).kind = "end" <=> n > Len(s))
  BY <1>1, SpecKinds
<1>3. CASE SpecAt(s, n).kind \in {"end", "close"}
  BY <1>1, <1>2, <1>3 DEF Past
<1>4. CASE SpecAt(s, n).kind \notin {"end", "close"}
  <2>1. n + 1 \in n + 1 .. Len(s) + 1
    BY <1>1, <1>2, <1>4
  <2>2. PICK k : k = f[n + 1]
    OBVIOUS
  <2>3. k \in n + 1 .. Len(s) + 1
    BY <1>1, <2>1, <2>2 DEF Beyond
  <2>4. f[k] \in k .. Len(s) + 1
    BY <2>3 DEF Beyond
  <2>5. Past(s, f, n) \in {k, f[k]}
    BY <1>2, <1>4, <2>2 DEF Past, Kind
  <2> QED BY <1>1, <2>3, <2>4, <2>5
<1> QED BY <1>3, <1>4

LEMMA PastLocal ==
  ASSUME NEW s \in Seq(Token), NEW n \in 1 .. Len(s) + 1, NEW f, NEW g,
         \A k \in n + 1 .. Len(s) + 1 : f[k] = g[k] /\ Beyond(s, f, k)
  PROVE  Past(s, f, n) = Past(s, g, n)
<1>1. Len(s) \in Nat /\ n \in Nat \ {0}
  OBVIOUS
<1>2. SpecAt(s, n).kind = "end" <=> n > Len(s)
  BY <1>1, SpecKinds
<1>3. CASE n > Len(s)
  BY <1>2, <1>3 DEF Past
<1>4. CASE n <= Len(s)
  <2>1. n + 1 \in n + 1 .. Len(s) + 1
    BY <1>1, <1>4
  <2>2. PICK k : k = f[n + 1]
    OBVIOUS
  <2>3. k \in n + 1 .. Len(s) + 1
    BY <1>1, <2>1, <2>2 DEF Beyond
  <2>4. g[n + 1] = k /\ f[k] = g[k]
    BY <2>1, <2>2, <2>3
  <2> QED BY <2>2, <2>4 DEF Past
<1> QED BY <1>1, <1>3, <1>4

LEMMA AfterCloseExists ==
  ASSUME NEW s \in Seq(Token)
  PROVE  \E f : f = [n \in 1 .. Len(s) + 1 |-> Past(s, f, n)]
<1> DEFINE N == Len(s) + 1
           Good(g, m) == \A n \in m .. N : g[n] = Past(s, g, n) /\ Beyond(s, g, n)
           T == {m \in 1 .. N : \E g \in [1 .. N -> 1 .. N] : Good(g, m)}
<1>1. N \in Nat /\ N >= 1 /\ Len(s) \in Nat
  OBVIOUS
<1>2. ASSUME NEW m \in 1 .. N, \A j \in m + 1 .. N : j \in T
      PROVE  m \in T
  <2>1. PICK g \in [1 .. N -> 1 .. N] : Good(g, m + 1)
    <3>1. CASE m = N
      <4>1. [x \in 1 .. N |-> N] \in [1 .. N -> 1 .. N] /\ m + 1 .. N = {}
        BY <1>1, <3>1
      <4> QED BY <4>1
    <3>2. CASE m # N
      <4>1. m + 1 \in m + 1 .. N
        BY <1>1, <3>2
      <4> QED BY <1>2, <4>1
    <3> QED BY <3>1, <3>2
  <2>2. PICK p : p = Past(s, g, m)
    OBVIOUS
  <2>3. p \in m .. N /\ (m <= Len(s) => p > m)
    BY <2>1, <2>2, PastBeyond
  <2>4. PICK h : h = [g EXCEPT ![m] = p]
    OBVIOUS
  <2>5. h \in [1 .. N -> 1 .. N] /\ h[m] = p /\ \A k \in m + 1 .. N : h[k] = g[k]
    BY <1>1, <2>3, <2>4
  <2>6. \A k \in m + 1 .. N : Beyond(s, g, k) /\ g[k] = h[k]
    BY <2>1, <2>5
  <2>7. ASSUME NEW n \in m .. N PROVE h[n] = Past(s, h, n) /\ Beyond(s, h, n)
    <3>1. n \in 1 .. N /\ \A k \in n + 1 .. N : g[k] = h[k] /\ Beyond(s, g, k)
      BY <1>1, <2>6
    <3>2. Past(s, g, n) = Past(s, h, n)
      BY <3>1, PastLocal
    <3>3. h[n] = Past(s, g, n)
      <4>1. CASE n = m
        BY <2>2, <2>5, <4>1
      <4>2. CASE n # m
        <5>1. n \in m + 1 .. N
          BY <1>1, <4>2
        <5> QED BY <2>1, <2>6, <5>1
      <4> QED BY <4>1, <4>2
    <3>4. Past(s, g, n) \in n .. N /\ (n <= Len(s) => Past(s, g, n) > n)
      BY <3>1, PastBeyond
    <3> QED BY <3>2, <3>3, <3>4 DEF Beyond
  <2> QED BY <2>5, <2>7
<1>3. 1 \in T
  <2>1. 1 \in 1 .. N
    BY <1>1
  <2> HIDE DEF T, N
  <2> QED BY <1>1, <1>2, <2>1, Downward
<1>4. PICK g \in [1 .. N -> 1 .. N] : Good(g, 1)
  BY <1>3
<1>5. g = [n \in 1 .. N |-> Past(s, g, n)]
  BY <1>4
<1> QED BY <1>5

LEMMA AfterCloseFacts ==
  ASSUME NEW s \in Seq(Token), NEW n \in 1 .. Len(s) + 1
  PROVE  /\ AfterClose(s)[n] = Past(s, AfterClose(s), n)
         /\ Beyond(s, AfterClose(s), n)
<1> DEFINE N == Len(s) + 1
<1>1. N \in Nat /\ N >= 1 /\ Len(s) \in Nat
  OBVIOUS
<1>2. PICK f : f = AfterClose(s)
  OBVIOUS
<1>3. f = [k \in 1 .. Len(s) + 1 |-> Past(s, f, k)]
  <2>1. f = CHOOSE g : g = [k \in 1 .. Len(s) + 1 |-> Past(s, g, k)]
    BY <1>2, Zenon DEF AfterClose
  <2> QED BY <2>1, AfterCloseExists, Zenon
<1>4. \A k \in 1 .. N : f[k] = Past(s, f, k)
  BY <1>3, Zenon
<1> DEFINE T == {k \in 1 .. N : Beyond(s, f, k)}
<1>5. ASSUME NEW k \in 1 .. N, \A j \in k + 1 .. N : j \in T
      PROVE  k \in T
  <2>1. \A j \in k + 1 .. N : Beyond(s, f, j)
    BY <1>5
  <2>2. Past(s, f, k) \in k .. N /\ (k <= Len(s) => Past(s, f, k) > k)
    BY <2>1, PastBeyond
  <2> QED BY <1>4, <2>2 DEF Beyond
<1>6. \A k \in 1 .. N : k \in T
  <2> HIDE DEF T, N
  <2> QED BY <1>1, <1>5, Downward
<1> QED BY <1>2, <1>4, <1>6

-----------------------------------------------------------------------------
(* The lists a specification describes from a position on                   *)

(* Fits too looks only at later positions.                                  *)
LEMMA FitsLocal ==
  ASSUME NEW s \in Seq(Token), NEW n \in 1 .. Len(s) + 1, NEW f, NEW g,
         NEW d, NEW greedy \in BOOLEAN,
         \A k \in n + 1 .. Len(s) + 1 : f[k] = g[k]
  PROVE  Fits(s, f, n, d, greedy) = Fits(s, g, n, d, greedy)
<1>1. Len(s) \in Nat /\ n \in Nat \ {0}
  OBVIOUS
<1>2. PICK c : c = SpecAt(s, n)
  OBVIOUS
<1>3. c.kind = "end" <=> n > Len(s)
  BY <1>1, <1>2, SpecKinds
<1>4. CASE n > Len(s)
  BY <1>2, <1>3, <1>4, Zenon DEF Fits
<1>5. CASE n <= Len(s)
  <2>1. n + 1 \in n + 1 .. Len(s) + 1
    BY <1>1, <1>5
  <2>2. PICK p : p = AfterClose(s)[n + 1]
    OBVIOUS
  <2>3. p \in n + 1 .. Len(s) + 1
    BY <1>1, <2>1, <2>2, AfterCloseFacts DEF Beyond
  <2>4. f[n + 1] = g[n + 1] /\ f[AfterClose(s)[n + 1]] = g[AfterClose(s)[n + 1]]
    BY <2>1, <2>2, <2>3
  <2> QED BY <2>4, Zenon DEF Fits
<1> QED BY <1>1, <1>4, <1>5

LEMMA DescribedExists ==
  ASSUME NEW s \in Seq(Token), NEW greedy \in BOOLEAN
  PROVE  \E f : f = [n \in 1 .. Len(s) + 1 |->
                       {d \in Seq(Argument) : Fits(s, f, n, d, greedy)}]
<1> DEFINE N == Len(s) + 1
           L == SUBSET Seq(Argument)
           At(g, n) == {d \in Seq(Argument) : Fits(s, g, n, d, greedy)}
           Good(g, m) == \A n \in m .. N : g[n] = At(g, n)
           T == {m \in 1 .. N : \E g \in [1 .. N -> L] : Good(g, m)}
<1>1. N \in Nat /\ N >= 1 /\ Len(s) \in Nat
  OBVIOUS
<1>2. ASSUME NEW m \in 1 .. N, \A j \in m + 1 .. N : j \in T
      PROVE  m \in T
  <2>1. PICK g \in [1 .. N -> L] : Good(g, m + 1)
    <3>1. CASE m = N
      <4>1. [x \in 1 .. N |-> {}] \in [1 .. N -> L] /\ m + 1 .. N = {}
        BY <1>1, <3>1
      <4> QED BY <4>1
    <3>2. CASE m # N
      <4>1. m + 1 \in m + 1 .. N
        BY <1>1, <3>2
      <4> QED BY <1>2, <4>1
    <3> QED BY <3>1, <3>2
  <2>2. PICK p : p = At(g, m)
    OBVIOUS
  <2>3. PICK h : h = [g EXCEPT ![m] = p]
    OBVIOUS
  <2>4. h \in [1 .. N -> L] /\ h[m] = p /\ \A k \in m + 1 .. N : h[k] = g[k]
    <3>1. p \in L
      BY <2>2
    <3> HIDE DEF L, At
    <3> QED BY <1>1, <2>3, <3>1
  <2>5. ASSUME NEW n \in m .. N PROVE h[n] = At(h, n)
    <3>1. n \in 1 .. N /\ \A k \in n + 1 .. N : g[k] = h[k]
      BY <1>1, <2>4
    <3>2. \A d : Fits(s, g, n, d, greedy) = Fits(s, h, n, d, greedy)
      BY <3>1, FitsLocal
    <3>3. At(g, n) = At(h, n)
      BY <3>2, Zenon
    <3>4. h[n] = At(g, n)
      <4>1. CASE n = m
        BY <2>2, <2>4, <4>1
      <4>2. CASE n # m
        <5>1. n \in m + 1 .. N
          BY <1>1, <4>2
        <5> HIDE DEF At
        <5> QED BY <2>1, <2>4, <5>1
      <4> QED BY <4>1, <4>2
    <3> HIDE DEF At
    <3> QED BY <3>3, <3>4
  <2> HIDE DEF At, L
  <2> QED BY <2>4, <2>5
<1>3. 1 \in T
  <2>1. 1 \in 1 .. N
    BY <1>1
  <2> HIDE DEF T, N
  <2> QED BY <1>1, <1>2, <2>1, Downward
<1>4. PICK g \in [1 .. N -> L] : Good(g, 1)
  BY <1>3, Zenon
<1>5. g = [n \in 1 .. N |-> At(g, n)]
  <2> HIDE DEF At, L
  <2> QED BY <1>4
<1> QED BY <1>5, Zenon

LEMMA DescribedUnfold ==
  ASSUME NEW s \in Seq(Token), NEW greedy \in BOOLEAN,
         NEW n \in 1 .. Len(s) + 1, NEW d
  PROVE  d \in Described(s, greedy)[n] <=>
           d \in Seq(Argument) /\ Fits(s, Described(s, greedy), n, d, greedy)
<1>1. PICK f : f = Described(s, greedy)
  OBVIOUS
<1>2. f = [k \in 1 .. Len(s) + 1 |->
             {e \in Seq(Argument) : Fits(s, f, k, e, greedy)}]
  <2>1. f = CHOOSE g : g = [k \in 1 .. Len(s) + 1 |->
                              {e \in Seq(Argument) : Fits(s, g, k, e, greedy)}]
    BY <1>1, Zenon DEF Described
  <2> QED BY <2>1, DescribedExists, Zenon
<1>3. f[n] = {e \in Seq(Argument) : Fits(s, f, n, e, greedy)}
  BY <1>2, Zenon
<1> QED BY <1>1, <1>3, Zenon

-----------------------------------------------------------------------------
(* What passes greedily is described                                        *)

LEMMA FewerCounts ==
  ASSUME NEW d, NEW c
  PROVE  Counts(d, c, TRUE) \subseteq Counts(d, c, FALSE)
BY Zenon DEF Counts

LEMMA FitsGreedily ==
  ASSUME NEW s \in Seq(Token), NEW n \in 1 .. Len(s) + 1, NEW f, NEW g, NEW d,
         \A k \in n + 1 .. Len(s) + 1 : f[k] \subseteq g[k],
         Fits(s, f, n, d, TRUE)
  PROVE  Fits(s, g, n, d, FALSE)
<1>1. Len(s) \in Nat /\ n \in Nat \ {0}
  OBVIOUS
<1>2. PICK c : c = SpecAt(s, n)
  OBVIOUS
<1>3. c.kind = "end" <=> n > Len(s)
  BY <1>1, <1>2, SpecKinds
<1>4. CASE n > Len(s)
  BY <1>2, <1>3, <1>4 DEF Fits
<1>5. CASE n <= Len(s)
  <2>1. n + 1 \in n + 1 .. Len(s) + 1
    BY <1>1, <1>5
  <2>2. PICK p : p = AfterClose(s)[n + 1]
    OBVIOUS
  <2>3. p \in n + 1 .. Len(s) + 1
    BY <1>1, <2>1, <2>2, AfterCloseFacts DEF Beyond
  <2>4. f[n + 1] \subseteq g[n + 1] /\ f[p] \subseteq g[p]
    BY <2>1, <2>3
  <2>5. CASE c.kind \in {"many", "rest"}
    <3>1. PICK k \in Counts(d, c, TRUE) : Rest(d, k) \in f[n + 1]
      BY <1>2, <2>5 DEF Fits
    <3>2. k \in Counts(d, c, FALSE) /\ Rest(d, k) \in g[n + 1]
      BY <2>4, <3>1, FewerCounts
    <3> QED BY <1>2, <2>5, <3>2 DEF Fits
  <2>6. CASE c.kind \notin {"many", "rest"}
    BY <1>2, <2>2, <2>4, <2>6 DEF Fits
  <2> QED BY <2>5, <2>6
<1>6. n <= Len(s) \/ n > Len(s)
  BY <1>1
<1> QED BY <1>4, <1>5, <1>6, Zenon

LEMMA GreedyIsLiberal ==
  ASSUME NEW s \in Seq(Token), NEW n \in 1 .. Len(s) + 1
  PROVE  Described(s, TRUE)[n] \subseteq Described(s, FALSE)[n]
<1> DEFINE N == Len(s) + 1
           T == {k \in 1 .. N : Described(s, TRUE)[k] \subseteq Described(s, FALSE)[k]}
<1>1. N \in Nat /\ N >= 1 /\ Len(s) \in Nat
  OBVIOUS
<1>2. ASSUME NEW k \in 1 .. N, \A j \in k + 1 .. N : j \in T
      PROVE  k \in T
  <2>1. \A j \in k + 1 .. N : Described(s, TRUE)[j] \subseteq Described(s, FALSE)[j]
    BY <1>2
  <2>2. ASSUME NEW d \in Described(s, TRUE)[k]
        PROVE  d \in Described(s, FALSE)[k]
    <3>1. d \in Seq(Argument) /\ Fits(s, Described(s, TRUE), k, d, TRUE)
      BY DescribedUnfold
    <3>2. Fits(s, Described(s, FALSE), k, d, FALSE)
      BY <2>1, <3>1, FitsGreedily
    <3> QED BY <3>1, <3>2, DescribedUnfold
  <2> QED BY <2>2
<1>3. \A k \in 1 .. N : k \in T
  <2> HIDE DEF T, N
  <2> QED BY <1>1, <1>2, Downward
<1> QED BY <1>3

-----------------------------------------------------------------------------
(* What each character asks of a list                                       *)

Asked(s, n) == Described(s, TRUE)[n]

LEMMA AskedFits ==
  ASSUME NEW s \in Seq(Token), NEW n \in 1 .. Len(s) + 1, NEW d \in Seq(Argument)
  PROVE  d \in Asked(s, n) <=> Fits(s, Described(s, TRUE), n, d, TRUE)
BY DescribedUnfold DEF Asked

LEMMA AskedAtEnd ==
  ASSUME NEW s \in Seq(Token), NEW n \in 1 .. Len(s) + 1, NEW d \in Seq(Argument),
         SpecAt(s, n).kind \in {"end", "close"}
  PROVE  d \in Asked(s, n) <=> d = <<>>
<1>1. d \in Asked(s, n) <=> Fits(s, Described(s, TRUE), n, d, TRUE)
  BY AskedFits
<1>2. d = <<>> => Fits(s, Described(s, TRUE), n, d, TRUE)
  BY Zenon DEF Fits
<1>3. Fits(s, Described(s, TRUE), n, d, TRUE) => d = <<>>
  <2>1. SpecAt(s, n).kind \notin {"many", "rest", "any", "one", "open"}
    OBVIOUS
  <2> QED BY <2>1, Zenon DEF Fits
<1> QED BY <1>1, <1>2, <1>3, Zenon

LEMMA AskedBad ==
  ASSUME NEW s \in Seq(Token), NEW n \in 1 .. Len(s) + 1, NEW d \in Seq(Argument),
         SpecAt(s, n).kind = "bad"
  PROVE  d \notin Asked(s, n)
BY AskedFits, Zenon DEF Asked, Fits

LEMMA AskedOne ==
  ASSUME NEW s \in Seq(Token), NEW n \in 1 .. Len(s) + 1, NEW d \in Seq(Argument),
         d # <<>>, SpecAt(s, n).kind = "one"
  PROVE  d \in Asked(s, n) <=>
           Head(d).type = SpecAt(s, n).type /\ Tail(d) \in Asked(s, n + 1)
<1>1. d \in Asked(s, n) <=> Fits(s, Described(s, TRUE), n, d, TRUE)
  BY AskedFits
<1>2. SpecAt(s, n).kind \notin {"many", "rest", "any", "end", "close", "open"}
  OBVIOUS
<1> QED BY <1>1, <1>2, Zenon DEF Fits, Asked

LEMMA AskedAny ==
  ASSUME NEW s \in Seq(Token), NEW n \in 1 .. Len(s) + 1, NEW d \in Seq(Argument),
         d # <<>>, SpecAt(s, n).kind = "any"
  PROVE  d \in Asked(s, n) <=> Tail(d) \in Asked(s, n + 1)
BY AskedFits, Zenon DEF Asked, Fits

LEMMA AskedOpen ==
  ASSUME NEW s \in Seq(Token), NEW n \in 1 .. Len(s) + 1, NEW d \in Seq(Argument),
         d # <<>>, SpecAt(s, n).kind = "open"
  PROVE  d \in Asked(s, n) <=> /\ Head(d).type = "list"
                               /\ Head(d).data \in Asked(s, n + 1)
                               /\ Tail(d) \in Asked(s, AfterClose(s)[n + 1])
<1>1. d \in Asked(s, n) <=> Fits(s, Described(s, TRUE), n, d, TRUE)
  BY AskedFits
<1>2. SpecAt(s, n).kind \notin {"many", "rest", "any", "end", "close", "one"}
  OBVIOUS
<1> QED BY <1>1, <1>2, Zenon DEF Fits, Asked

LEMMA AskedRepeated ==
  ASSUME NEW s \in Seq(Token), NEW n \in 1 .. Len(s) + 1, NEW d \in Seq(Argument),
         SpecAt(s, n).kind \in {"many", "rest"}
  PROVE  d \in Asked(s, n) <=>
           \E k \in Counts(d, SpecAt(s, n), TRUE) : Rest(d, k) \in Asked(s, n + 1)
BY AskedFits, Zenon DEF Asked, Fits

LEMMA AskedRest ==
  ASSUME NEW s \in Seq(Token), NEW n \in 1 .. Len(s) + 1, NEW d \in Seq(Argument),
         d # <<>>, SpecAt(s, n).kind = "rest"
  PROVE  d \in Asked(s, n) <=> <<>> \in Asked(s, n + 1)
<1>1. PICK c : c = SpecAt(s, n)
  OBVIOUS
<1>2. Len(d) \in Nat \ {0}
  OBVIOUS
<1>3. \A k \in 0 .. Len(d) : \A j \in 1 .. k : Repeats(c, d[j])
  BY <1>1 DEF Repeats
<1>4. Counts(d, c, TRUE) = {Len(d)}
  BY <1>2, <1>3 DEF Counts
<1>5. Rest(d, Len(d)) = <<>>
  BY <1>2 DEF Rest
<1> QED BY <1>1, <1>4, <1>5, AskedRepeated

(* The leading arguments of a type: a repetition takes them all.            *)
LEMMA CountsMany ==
  ASSUME NEW d \in Seq(Argument), NEW c, c.kind = "many"
  PROVE  \E m \in 0 .. Len(d) :
           /\ \A j \in 1 .. m : d[j].type = c.type
           /\ m < Len(d) => d[m + 1].type # c.type
           /\ AfterAll(d, c.type) = Rest(d, m)
           /\ Counts(d, c, TRUE) = {m} \ {0}
<1>1. Len(d) \in Nat
  OBVIOUS
<1> DEFINE S == {k \in 0 .. Len(d) : k < Len(d) => d[k + 1].type # c.type}
           Run(k) == /\ \A j \in 1 .. k : d[j].type = c.type
                     /\ k < Len(d) => d[k + 1].type # c.type
<1>2. PICK m \in S : \A y \in S : m <= y
  <2>1. S \in SUBSET Nat /\ Len(d) \in S
    BY <1>1
  <2> HIDE DEF S
  <2> QED BY <2>1, Least
<1>3. m \in 0 .. Len(d) /\ Run(m)
  <2>1. m \in 0 .. Len(d) /\ (m < Len(d) => d[m + 1].type # c.type)
    BY <1>2
  <2>2. ASSUME NEW j \in 1 .. m PROVE d[j].type = c.type
    <3>1. j - 1 \in 0 .. Len(d) /\ j - 1 < m /\ j - 1 < Len(d) /\ j - 1 + 1 = j
      BY <1>1, <2>1
    <3>2. j - 1 \notin S
      BY <1>2, <3>1
    <3> QED BY <3>1, <3>2
  <2> QED BY <2>1, <2>2
<1>4. ASSUME NEW k \in 0 .. Len(d), Run(k) PROVE k = m
  <2>1. CASE k < m
    <3>1. k + 1 \in 1 .. m /\ k < Len(d)
      BY <1>1, <1>3, <2>1
    <3> QED BY <1>3, <1>4, <3>1
  <2>2. CASE m < k
    <3>1. m + 1 \in 1 .. k /\ m < Len(d)
      BY <1>1, <1>3, <2>2
    <3> QED BY <1>3, <1>4, <3>1
  <2> QED BY <1>3, <2>1, <2>2
<1>5. AfterAll(d, c.type) = Rest(d, m)
  <2>1. m = CHOOSE k \in 0 .. Len(d) : Run(k)
    BY <1>3, <1>4
  <2> QED BY <2>1 DEF AfterAll, Rest
<1>6. Counts(d, c, TRUE) = {m} \ {0}
  <2> DEFINE may == {k \in 0 .. Len(d) : \A j \in 1 .. k : Repeats(c, d[j])}
  <2>1. may = 0 .. m
    <3>1. ASSUME NEW k \in 0 .. m PROVE k \in may
      <4>1. k \in 0 .. Len(d) /\ \A j \in 1 .. k : j \in 1 .. m
        BY <1>1, <1>3
      <4> QED BY <1>3, <4>1 DEF Repeats
    <3>2. ASSUME NEW k \in may, k \notin 0 .. m PROVE FALSE
      <4>1. m + 1 \in 1 .. k /\ m < Len(d)
        BY <1>1, <1>3, <3>2
      <4>2. Repeats(c, d[m + 1])
        BY <3>2, <4>1
      <4> QED BY <1>3, <4>1, <4>2 DEF Repeats
    <3> QED BY <3>1, <3>2
  <2>2. Counts(d, c, TRUE) = {k \in may \ {0} : \A j \in may : j <= k}
    BY DEF Counts
  <2>3. Counts(d, c, TRUE) = {k \in (0 .. m) \ {0} : \A j \in 0 .. m : j <= k}
    BY <2>1, <2>2
  <2>4. \A k \in (0 .. m) \ {0} : (\A j \in 0 .. m : j <= k) <=> k = m
    BY <1>1, <1>3
  <2>5. \A k : k \in {m} \ {0} <=> k \in (0 .. m) \ {0} /\ \A j \in 0 .. m : j <= k
    BY <1>1, <1>3, <2>4
  <2> QED BY <2>3, <2>5, Zenon
<1> QED BY <1>3, <1>5, <1>6

LEMMA AskedMany ==
  ASSUME NEW s \in Seq(Token), NEW n \in 1 .. Len(s) + 1, NEW d \in Seq(Argument),
         d # <<>>, SpecAt(s, n).kind = "many"
  PROVE  /\ d \in Asked(s, n) <=>
              /\ Head(d).type = SpecAt(s, n).type
              /\ AfterAll(d, SpecAt(s, n).type) \in Asked(s, n + 1)
         /\ AfterAll(d, SpecAt(s, n).type) \in Seq(Argument)
<1>1. PICK c : c = SpecAt(s, n)
  OBVIOUS
<1>2. Len(d) \in Nat \ {0} /\ Head(d) = d[1]
  OBVIOUS
<1>3. PICK m \in 0 .. Len(d) :
           /\ \A j \in 1 .. m : d[j].type = c.type
           /\ m < Len(d) => d[m + 1].type # c.type
           /\ AfterAll(d, c.type) = Rest(d, m)
           /\ Counts(d, c, TRUE) = {m} \ {0}
  <2>1. c.kind = "many"
    BY <1>1
  <2> QED BY <2>1, CountsMany, Zenon
<1>4. m = 0 <=> d[1].type # c.type
  BY <1>2, <1>3
<1>5. d \in Asked(s, n) <=> m # 0 /\ Rest(d, m) \in Asked(s, n + 1)
  BY <1>1, <1>3, AskedRepeated
<1>6. Rest(d, m) \in Seq(Argument)
  BY <1>2, <1>3 DEF Rest
<1> QED BY <1>1, <1>2, <1>3, <1>4, <1>5, <1>6

(* With no argument left, only the end of a list will do.                   *)
LEMMA AskedNone ==
  ASSUME NEW s \in Seq(Token), NEW n \in 1 .. Len(s) + 1
  PROVE  <<>> \in Asked(s, n) <=> SpecAt(s, n).kind \in {"end", "close"}
<1>1. PICK c : c = SpecAt(s, n)
  OBVIOUS
<1>2. <<>> \in Seq(Argument)
  OBVIOUS
<1>3. CASE c.kind \in {"end", "close"}
  BY <1>1, <1>2, <1>3, AskedAtEnd
<1>4. CASE c.kind \in {"many", "rest"}
  <2>1. Counts(<<>>, c, TRUE) = {}
    BY DEF Counts
  <2> QED BY <1>1, <1>2, <1>4, <2>1, AskedRepeated
<1>5. CASE c.kind \in {"bad", "any", "one", "open"}
  BY <1>1, <1>2, <1>5, AskedFits DEF Asked, Fits
<1>6. c.kind \in Kind
  BY <1>1, SpecKinds
<1> QED BY <1>1, <1>3, <1>4, <1>5, <1>6 DEF Kind

-----------------------------------------------------------------------------
(* The types, and the bound on the calls                                    *)

(* The position in the specification, at its end once past it.              *)
Here(s, n) == IF n <= Len(s) THEN n ELSE Len(s) + 1

Typed == tspec \in Seq(Token) /\ arg \in Seq(Argument) /\ TypeOK

LEMMA InitTyped == Init => Typed
<1> SUFFICES ASSUME Init PROVE Typed
  OBVIOUS
<1>1. tspec \in Seq(Token) /\ arg \in Seq(Argument) /\ Len(tspec) \in Nat
  BY TypecheckAssumption DEF Init
<1>2. i = 1 /\ data = <<arg>> /\ err = 0 /\ done = FALSE
  BY Zenon DEF Init
<1>3. data \in Seq(Seq(Argument)) /\ Len(data) = 1
  BY <1>1, <1>2
<1>4. Len(data) \in 1 .. i /\ i \in Nat /\ i + Len(data) <= 2 * Len(tspec) + 3
      /\ err \in 0 .. 4
  BY <1>1, <1>2, <1>3
<1> QED BY <1>1, <1>2, <1>3, <1>4, Zenon DEF Typed, TypeOK

LEMMA LeftFacts ==
  ASSUME Typed
  PROVE  /\ Len(tspec) \in Nat /\ Len(data) \in Nat \ {0} /\ i \in Nat \ {0}
         /\ Left \in Seq(Argument)
         /\ Inside => i \in 1 .. Len(tspec) + 1 /\ Here(tspec, i) = i /\ Left # <<>>
<1>1. Len(tspec) \in Nat /\ Len(data) \in Nat \ {0} /\ i \in Nat \ {0}
  BY DEF Typed, TypeOK
<1>2. Left \in Seq(Argument)
  BY <1>1 DEF Typed, TypeOK, Left
<1>3. ASSUME Inside
      PROVE  i \in 1 .. Len(tspec) + 1 /\ Here(tspec, i) = i /\ Left # <<>>
  BY <1>1, <1>3 DEF Inside, Here
<1> QED BY <1>1, <1>2, <1>3

(* Where the calls stay as deep as they are, one turn moves by one.         *)
LEMMA TurnTyped ==
  ASSUME Typed, Inside, tspec' = tspec, arg' = arg, done' = done,
         i' = i + 1, err' \in 0 .. 4,
         data' \in Seq(Seq(Argument)), Len(data') = Len(data)
  PROVE  Typed'
<1>1. Len(tspec) \in Nat /\ Len(data) \in Nat \ {0} /\ i \in 1 .. Len(tspec) + 1
  BY LeftFacts
<1>2. Len(data) <= i /\ done \in BOOLEAN /\ tspec \in Seq(Token) /\ arg \in Seq(Argument)
  BY DEF Typed, TypeOK
<1>3. Len(data') \in 1 .. i' /\ i' \in Nat /\ i' + Len(data') <= 2 * Len(tspec') + 3
  BY <1>1, <1>2
<1> QED BY <1>2, <1>3, Zenon DEF Typed, TypeOK

LEMMA FailTyped ==
  ASSUME Typed, Inside, NEW e \in 1 .. 4, Fail(e)
  PROVE  Typed'
<1>1. data \in Seq(Seq(Argument)) /\ err' \in 0 .. 4
  BY DEF Typed, TypeOK, Fail
<1> QED BY <1>1, TurnTyped DEF Fail, Same

LEMMA SetLeftTyped ==
  ASSUME Typed, Inside, NEW x \in Seq(Argument), SetLeft(x), i' = i + 1, err' = err, Same
  PROVE  Typed'
<1>1. data \in Seq(Seq(Argument)) /\ err \in 0 .. 4
  BY DEF Typed, TypeOK
<1>2. data' \in Seq(Seq(Argument)) /\ Len(data') = Len(data)
  BY <1>1, LeftFacts DEF SetLeft
<1> QED BY <1>1, <1>2, TurnTyped DEF Same

LEMMA OpenTyped ==
  ASSUME Typed, CheckOpen
  PROVE  Typed'
<1>1. CASE Head(Left).type # "list"
  BY <1>1, FailTyped DEF CheckOpen
<1>2. CASE Head(Left).type = "list"
  <2>1. tspec \in Seq(Token) /\ arg \in Seq(Argument) /\ data \in Seq(Seq(Argument))
        /\ Len(data) <= i /\ err \in 0 .. 4 /\ done \in BOOLEAN
    BY DEF Typed, TypeOK
  <2>2. Len(tspec) \in Nat /\ Len(data) \in Nat \ {0} /\ i \in 1 .. Len(tspec) + 1
        /\ Left \in Seq(Argument) /\ Left # <<>>
    BY LeftFacts DEF CheckOpen
  <2>3. data' = Append(data, Head(Left).data) /\ i' = i + 1 /\ err' = err
        /\ tspec' = tspec /\ arg' = arg /\ done' = done
    BY <1>2 DEF CheckOpen, Same
  <2>4. Head(Left).data \in Seq(Argument)
    <3>1. Head(Left) \in Argument
      BY <2>2
    <3> QED BY <1>2, <3>1, TypecheckAssumption
  <2>5. data' \in Seq(Seq(Argument)) /\ Len(data') = Len(data) + 1
    BY <2>1, <2>3, <2>4
  <2>6. i <= Len(tspec)
    BY <2>1, <2>2, SpecKinds DEF CheckOpen, Char
  <2>7. Len(data') \in 1 .. i' /\ i' \in Nat /\ i' + Len(data') <= 2 * Len(tspec') + 3
    BY <2>1, <2>2, <2>3, <2>5, <2>6
  <2> QED BY <2>1, <2>3, <2>5, <2>7, Zenon DEF Typed, TypeOK
<1> QED BY <1>1, <1>2

LEMMA OutcomeType ==
  ASSUME NEW e \in 0 .. 4
  PROVE  Outcome(e) \in 0 .. 4
BY DEF Outcome

(* What a return to a caller leaves.                                        *)
LEMMA ReturnFacts ==
  ASSUME Typed, ReturnFrom, Len(data) # 1, data[Len(data) - 1] # <<>>
  PROVE  /\ Len(data) - 1 \in Nat \ {0} /\ Len(data') = Len(data) - 1
         /\ data' \in Seq(Seq(Argument))
         /\ data'[Len(data) - 1] = Tail(data[Len(data) - 1])
         /\ \A k \in 1 .. Len(data) - 2 : data'[k] = data[k]
<1>1. Len(data) - 1 \in Nat \ {0} /\ data \in Seq(Seq(Argument))
  BY LeftFacts DEF Typed, TypeOK
<1>2. PICK m \in Nat \ {0} : m = Len(data) - 1
  BY <1>1
<1>3. data' = [k \in 1 .. m |-> IF k = m THEN Tail(data[k]) ELSE data[k]]
  BY <1>2 DEF ReturnFrom
<1>4. \A k \in 1 .. m : data[k] \in Seq(Argument)
  BY <1>1, <1>2
<1>5. Tail(data[m]) \in Seq(Argument)
  <2>1. data[m] # <<>>
    BY <1>2, Zenon
  <2>2. data[m] \in Seq(Argument)
    BY <1>4
  <2>3. PICK d \in Seq(Argument) : d = data[m]
    BY <2>2
  <2> QED BY <2>1, <2>3
<1>6. \A k \in 1 .. m : (IF k = m THEN Tail(data[k]) ELSE data[k]) \in Seq(Argument)
  BY <1>4, <1>5
<1>7. data' \in Seq(Seq(Argument)) /\ Len(data') = m
  BY <1>2, <1>3, <1>6
<1>8. \A k \in 1 .. m : data'[k] = IF k = m THEN Tail(data[k]) ELSE data[k]
  BY <1>3, Zenon
<1>9. data'[m] = Tail(data[m]) /\ \A k \in 1 .. m - 1 : data'[k] = data[k]
  <2>1. m \in 1 .. m /\ \A k \in 1 .. m - 1 : k \in 1 .. m /\ k # m
    BY <1>2
  <2>2. data'[m] = Tail(data[m])
    BY <1>8, <2>1, Zenon
  <2>3. \A k \in 1 .. m - 1 : data'[k] = data[k]
    BY <1>8, <2>1, Zenon
  <2> QED BY <2>2, <2>3
<1> QED BY <1>1, <1>2, <1>7, <1>9

LEMMA ReturnTyped ==
  ASSUME Typed, ReturnFrom, Len(data) # 1 => data[Len(data) - 1] # <<>>
  PROVE  Typed'
<1>1. tspec \in Seq(Token) /\ arg \in Seq(Argument) /\ data \in Seq(Seq(Argument))
      /\ Len(data) <= i /\ i \in Nat /\ i + Len(data) <= 2 * Len(tspec) + 3
      /\ err \in 0 .. 4 /\ done \in BOOLEAN /\ Len(data) \in 1 .. i
  BY DEF Typed, TypeOK
<1>2. tspec' = tspec /\ arg' = arg /\ err' \in 0 .. 4
  BY <1>1, OutcomeType DEF ReturnFrom
<1>3. CASE Len(data) = 1
  <2>1. done' \in BOOLEAN /\ i' = i /\ data' = data
    BY <1>3 DEF ReturnFrom
  <2> QED BY <1>1, <1>2, <2>1, Zenon DEF Typed, TypeOK
<1>4. CASE Len(data) # 1
  <2>1. i' = i + 1 /\ done' = done
    BY <1>4 DEF ReturnFrom, Resumed
  <2>2. Len(data') = Len(data) - 1 /\ data' \in Seq(Seq(Argument)) /\ Len(data) - 1 \in Nat \ {0}
    BY <1>4, ReturnFacts
  <2>3. Len(tspec) \in Nat
    BY <1>1
  <2>4. Len(data') \in 1 .. i' /\ i' \in Nat /\ i' + Len(data') <= 2 * Len(tspec') + 3
    BY <1>1, <1>2, <2>1, <2>2, <2>3
  <2> QED BY <1>1, <1>2, <2>1, <2>2, <2>4, Zenon DEF Typed, TypeOK
<1> QED BY <1>3, <1>4

-----------------------------------------------------------------------------
(* The inductive invariant: whether the list given is to be accepted is, as *)
(* long as nothing has failed, the same question asked of what every call   *)
(* is left with: the innermost, of its list, at the position; each of the   *)
(* others, of what follows the list the next one checks, at the position    *)
(* after the parenthesis that closes that list.                             *)

Accepted(s, a) == a \in Asked(s, 1)

Resumes(pos) ==
  /\ pos \in [1 .. Len(data) -> 1 .. Len(tspec) + 1]
  /\ pos[Len(data)] = Here(tspec, i)
  /\ \A k \in 1 .. Len(data) - 1 : pos[k] = AfterClose(tspec)[pos[k + 1]]

Remains(k) == IF k = Len(data) THEN data[k] ELSE Tail(data[k])
Awaited(pos) == \A k \in 1 .. Len(data) : Remains(k) \in Asked(tspec, pos[k])

IInv ==
  /\ Typed
  /\ \A k \in 1 .. Len(data) - 1 : data[k] # <<>>
  /\ err # 0 => ~Accepted(tspec, arg)
  /\ ~done /\ err = 0 => \E pos : Resumes(pos) /\ (Accepted(tspec, arg) <=> Awaited(pos))
  /\ done /\ err = 0 => Accepted(tspec, arg)

LEMMA AwaitedSplit ==
  ASSUME NEW K \in Nat \ {0}, NEW d, NEW pos, NEW s
  PROVE  (\A k \in 1 .. K : (IF k = K THEN d[k] ELSE Tail(d[k])) \in Asked(s, pos[k]))
         <=> /\ d[K] \in Asked(s, pos[K])
             /\ \A k \in 1 .. K - 1 : Tail(d[k]) \in Asked(s, pos[k])
<1>1. K \in 1 .. K /\ \A k \in 1 .. K : k = K \/ k \in 1 .. K - 1
  OBVIOUS
<1>2. \A k \in 1 .. K - 1 : k \in 1 .. K /\ k # K
  OBVIOUS
<1> QED BY <1>1, <1>2, Zenon

LEMMA InitIInv == Init => IInv
<1> SUFFICES ASSUME Init PROVE IInv
  OBVIOUS
<1>1. Typed
  BY InitTyped
<1>2. i = 1 /\ data = <<arg>> /\ err = 0 /\ done = FALSE
  BY Zenon DEF Init
<1>3. tspec \in Seq(Token) /\ Len(tspec) \in Nat /\ arg \in Seq(Argument) /\ Len(data) = 1
      /\ data[1] = arg
  BY <1>1, <1>2 DEF Typed
<1>4. Here(tspec, i) = 1
  BY <1>2, <1>3 DEF Here
<1>5. PICK pos : pos = [k \in 1 .. 1 |-> 1]
  OBVIOUS
<1>6. pos[1] = 1 /\ pos \in [1 .. Len(data) -> 1 .. Len(tspec) + 1]
  BY <1>3, <1>5
<1>7. Resumes(pos)
  BY <1>3, <1>4, <1>6 DEF Resumes
<1>8. Awaited(pos) <=> Accepted(tspec, arg)
  BY <1>3, <1>6 DEF Awaited, Remains, Accepted
<1>9. \A k \in 1 .. Len(data) - 1 : data[k] # <<>>
  BY <1>3
<1> QED BY <1>1, <1>2, <1>7, <1>8, <1>9, Zenon DEF IInv

(* The position a list goes on at is the same as long as it lasts.          *)
LEMMA AfterCloseSame ==
  ASSUME NEW s \in Seq(Token), NEW n \in 1 .. Len(s),
         SpecAt(s, n).kind \notin {"end", "close", "open"}
  PROVE  AfterClose(s)[n] = AfterClose(s)[n + 1]
BY AfterCloseFacts DEF Past

LEMMA AfterCloseOpen ==
  ASSUME NEW s \in Seq(Token), NEW n \in 1 .. Len(s), SpecAt(s, n).kind = "open"
  PROVE  AfterClose(s)[n] = AfterClose(s)[AfterClose(s)[n + 1]]
BY AfterCloseFacts DEF Past

LEMMA AfterCloseNext ==
  ASSUME NEW s \in Seq(Token), NEW n \in 1 .. Len(s) + 1,
         SpecAt(s, n).kind \in {"end", "close"}
  PROVE  AfterClose(s)[n] = Here(s, n + 1)
<1>1. Len(s) \in Nat /\ n \in Nat \ {0}
  OBVIOUS
<1>2. SpecAt(s, n).kind = "end" <=> n > Len(s)
  BY <1>1, SpecKinds
<1>3. AfterClose(s)[n] = Past(s, AfterClose(s), n)
  BY AfterCloseFacts
<1>4. CASE n > Len(s)
  BY <1>1, <1>2, <1>3, <1>4 DEF Past, Here
<1>5. CASE n <= Len(s)
  <2>1. SpecAt(s, n).kind = "close"
    BY <1>1, <1>2, <1>5
  <2>2. Past(s, AfterClose(s), n) = n + 1
    BY <2>1 DEF Past
  <2> QED BY <1>1, <1>3, <1>5, <2>2 DEF Here
<1> QED BY <1>1, <1>4, <1>5

-----------------------------------------------------------------------------
(* A turn of the loop either fails, on a list that is not described, or     *)
(* goes on to the next character with what is left of the list              *)

LEMMA Standing ==
  ASSUME IInv, Inside
  PROVE  /\ Typed /\ tspec \in Seq(Token) /\ Len(tspec) \in Nat
         /\ i \in 1 .. Len(tspec) + 1 /\ Here(tspec, i) = i
         /\ Len(data) \in Nat \ {0} /\ Left = data[Len(data)]
         /\ Left \in Seq(Argument) /\ Left # <<>>
         /\ ~done /\ err = 0
<1>1. Typed
  BY DEF IInv
<1>2. tspec \in Seq(Token)
  BY <1>1 DEF Typed
<1> QED BY <1>1, <1>2, LeftFacts DEF Inside, Left

LEMMA Failing ==
  ASSUME IInv, Inside, NEW e \in 1 .. 4, Fail(e), Left \notin Asked(tspec, i)
  PROVE  IInv'
<1>1. Typed'
  BY FailTyped DEF IInv
<1>2. err' # 0 /\ data' = data /\ tspec' = tspec /\ arg' = arg
  BY DEF Fail, Same
<1>3. PICK pos : Resumes(pos) /\ (Accepted(tspec, arg) <=> Awaited(pos))
  BY Zenon, Standing DEF IInv
<1>4. ~Awaited(pos)
  <2>1. Len(data) \in 1 .. Len(data) /\ pos[Len(data)] = i /\ Remains(Len(data)) = Left
    BY <1>3, Standing DEF Resumes, Remains
  <2> QED BY <2>1 DEF Awaited
<1>5. ~Accepted(tspec', arg')
  BY <1>2, <1>3, <1>4, Zenon
<1>6. \A k \in 1 .. Len(data') - 1 : data'[k] # <<>>
  BY <1>2, Zenon DEF IInv
<1> QED BY <1>1, <1>2, <1>5, <1>6, Zenon DEF IInv

LEMMA Moving ==
  ASSUME IInv, Inside, NEW x \in Seq(Argument), SetLeft(x), i' = i + 1, err' = err, Same,
         Char.kind \notin {"end", "close", "open"},
         Left \in Asked(tspec, i) <=> x \in Asked(tspec, i + 1)
  PROVE  IInv'
<1>1. Typed'
  BY SetLeftTyped DEF IInv
<1>2. err' = 0 /\ tspec' = tspec /\ arg' = arg /\ ~done'
  BY Standing DEF Same
<1>3. PICK K \in Nat \ {0} : K = Len(data)
  BY Standing
<1>4. data' = [data EXCEPT ![K] = x] /\ Len(data') = K /\ data'[K] = x
      /\ \A k \in 1 .. K - 1 : data'[k] = data[k]
  <2>1. data \in Seq(Seq(Argument))
    BY DEF IInv, Typed, TypeOK
  <2> QED BY <1>3, <2>1 DEF SetLeft
<1>5. i <= Len(tspec) /\ i \in 1 .. Len(tspec) /\ Here(tspec, i + 1) = i + 1
  <2>1. i <= Len(tspec)
    BY Standing, SpecKinds DEF Char
  <2> QED BY <2>1, Standing DEF Here
<1>6. PICK pos : Resumes(pos) /\ (Accepted(tspec, arg) <=> Awaited(pos))
  BY Zenon, Standing DEF IInv
<1>7. pos \in [1 .. K -> 1 .. Len(tspec) + 1] /\ pos[K] = i
      /\ \A k \in 1 .. K - 1 : pos[k] = AfterClose(tspec)[pos[k + 1]]
  BY <1>3, <1>6, Standing DEF Resumes
<1>8. PICK new : new = [pos EXCEPT ![K] = i + 1]
  OBVIOUS
<1>9. new \in [1 .. K -> 1 .. Len(tspec) + 1] /\ new[K] = i + 1
      /\ \A k \in 1 .. K - 1 : new[k] = pos[k]
  BY <1>3, <1>5, <1>7, <1>8, Standing
<1>10. ASSUME NEW k \in 1 .. K - 1 PROVE new[k] = AfterClose(tspec)[new[k + 1]]
  <2>1. CASE k = K - 1
    <3>1. AfterClose(tspec)[i] = AfterClose(tspec)[i + 1]
      BY <1>5, AfterCloseSame, Standing DEF Char
    <3>2. k + 1 = K
      BY <1>3, <2>1
    <3> QED BY <1>7, <1>9, <3>1, <3>2
  <2>2. CASE k # K - 1
    <3>1. k + 1 \in 1 .. K - 1
      BY <1>3, <2>2
    <3> QED BY <1>7, <1>9, <3>1
  <2> QED BY <2>1, <2>2
<1>11. Resumes(new)'
  BY <1>2, <1>4, <1>5, <1>9, <1>10 DEF Resumes
<1>12. Awaited(pos) <=> Awaited(new)'
  <2>1. Awaited(pos) <=> /\ Left \in Asked(tspec, i)
                         /\ \A k \in 1 .. K - 1 : Tail(data[k]) \in Asked(tspec, pos[k])
    <3>1. Awaited(pos) <=> \A k \in 1 .. K :
            (IF k = K THEN data[k] ELSE Tail(data[k])) \in Asked(tspec, pos[k])
      BY <1>3, Zenon DEF Awaited, Remains
    <3>2. Left = data[K] /\ pos[K] = i
      BY <1>3, <1>7, Standing
    <3> QED BY <3>1, <3>2, AwaitedSplit
  <2>2. Awaited(new)' <=> \A k \in 1 .. K :
          (IF k = K THEN data'[k] ELSE Tail(data'[k])) \in Asked(tspec, new[k])
    BY <1>2, <1>4, Zenon DEF Awaited, Remains
  <2>3. Awaited(new)' <=> /\ x \in Asked(tspec, i + 1)
                          /\ \A k \in 1 .. K - 1 : Tail(data[k]) \in Asked(tspec, pos[k])
    <3>1. Awaited(new)' <=>
             /\ data'[K] \in Asked(tspec, new[K])
             /\ \A k \in 1 .. K - 1 : Tail(data'[k]) \in Asked(tspec, new[k])
      BY <2>2, AwaitedSplit
    <3> QED BY <1>4, <1>9, <3>1, Zenon
  <2> QED BY <2>1, <2>3
<1>13. \A k \in 1 .. Len(data') - 1 : data'[k] # <<>>
  BY <1>3, <1>4 DEF IInv
<1>14. Accepted(tspec', arg') <=> Awaited(new)'
  BY <1>2, <1>6, <1>12, Zenon
<1> QED BY <1>1, <1>2, <1>11, <1>13, <1>14, Zenon DEF IInv

LEMMA CheckOneIInv == ASSUME IInv, CheckOne PROVE IInv'
<1>1. tspec \in Seq(Token) /\ i \in 1 .. Len(tspec) + 1
      /\ Left \in Seq(Argument) /\ Left # <<>>
  BY Standing DEF CheckOne
<1>2. Left \in Asked(tspec, i) <=>
        Head(Left).type = Char.type /\ Tail(Left) \in Asked(tspec, i + 1)
  BY <1>1, AskedOne DEF CheckOne, Char
<1>3. CASE Head(Left).type = Char.type
  <2>1. Tail(Left) \in Seq(Argument)
    BY <1>1
  <2> QED BY <1>2, <1>3, <2>1, Moving, Zenon DEF CheckOne
<1>4. CASE Head(Left).type # Char.type
  BY <1>2, <1>4, Failing DEF CheckOne
<1> QED BY <1>3, <1>4

LEMMA CheckAnyIInv == ASSUME IInv, CheckAny PROVE IInv'
<1>1. tspec \in Seq(Token) /\ i \in 1 .. Len(tspec) + 1
      /\ Left \in Seq(Argument) /\ Left # <<>>
  BY Standing DEF CheckAny
<1>2. Left \in Asked(tspec, i) <=> Tail(Left) \in Asked(tspec, i + 1)
  BY <1>1, AskedAny DEF CheckAny, Char
<1>3. Tail(Left) \in Seq(Argument)
  BY <1>1
<1> QED BY <1>2, <1>3, Moving, Zenon DEF CheckAny

LEMMA CheckRestIInv == ASSUME IInv, CheckRest PROVE IInv'
<1>1. tspec \in Seq(Token) /\ i \in 1 .. Len(tspec) + 1
      /\ Left \in Seq(Argument) /\ Left # <<>>
  BY Standing DEF CheckRest
<1>2. Left \in Asked(tspec, i) <=> <<>> \in Asked(tspec, i + 1)
  BY <1>1, AskedRest DEF CheckRest, Char
<1>3. <<>> \in Seq(Argument)
  OBVIOUS
<1> QED BY <1>2, <1>3, Moving, Zenon DEF CheckRest

LEMMA CheckManyIInv == ASSUME IInv, CheckMany PROVE IInv'
<1>1. tspec \in Seq(Token) /\ i \in 1 .. Len(tspec) + 1
      /\ Left \in Seq(Argument) /\ Left # <<>>
  BY Standing DEF CheckMany
<1>2. PICK x : x = AfterAll(Left, Char.type)
  OBVIOUS
<1>3. Left \in Asked(tspec, i) <=>
        Head(Left).type = Char.type /\ x \in Asked(tspec, i + 1)
  BY <1>1, <1>2, AskedMany DEF CheckMany, Char
<1>4. x \in Seq(Argument)
  BY <1>1, <1>2, AskedMany DEF CheckMany, Char
<1>5. CASE Head(Left).type = Char.type
  BY <1>2, <1>3, <1>4, <1>5, Moving, Zenon DEF CheckMany
<1>6. CASE Head(Left).type # Char.type
  BY <1>3, <1>6, Failing DEF CheckMany
<1> QED BY <1>5, <1>6

LEMMA CheckCloseIInv == ASSUME IInv, CheckClose PROVE IInv'
<1>1. tspec \in Seq(Token) /\ i \in 1 .. Len(tspec) + 1
      /\ Left \in Seq(Argument) /\ Left # <<>>
  BY Standing DEF CheckClose
<1>2. Left \notin Asked(tspec, i)
  BY <1>1, AskedAtEnd DEF CheckClose, Char
<1> QED BY <1>2, Failing DEF CheckClose

LEMMA CheckBadIInv == ASSUME IInv, CheckBad PROVE IInv'
<1>1. tspec \in Seq(Token) /\ i \in 1 .. Len(tspec) + 1 /\ Left \in Seq(Argument)
  BY Standing DEF CheckBad
<1>2. Left \notin Asked(tspec, i)
  BY <1>1, AskedBad DEF CheckBad, Char
<1> QED BY <1>2, Failing DEF CheckBad

LEMMA CheckOpenIInv == ASSUME IInv, CheckOpen PROVE IInv'
<1>1. tspec \in Seq(Token) /\ Len(tspec) \in Nat /\ i \in 1 .. Len(tspec) + 1
      /\ Here(tspec, i) = i /\ Left = data[Len(data)] /\ Left \in Seq(Argument)
      /\ Left # <<>> /\ ~done /\ err = 0 /\ Char.kind = "open"
  BY Standing DEF CheckOpen
<1>2. Left \in Asked(tspec, i) <=>
        /\ Head(Left).type = "list"
        /\ Head(Left).data \in Asked(tspec, i + 1)
        /\ Tail(Left) \in Asked(tspec, AfterClose(tspec)[i + 1])
  BY <1>1, AskedOpen DEF Char
<1>3. CASE Head(Left).type # "list"
  BY <1>2, <1>3, Failing DEF CheckOpen
<1>4. CASE Head(Left).type = "list"
  <2>1. Typed'
    BY OpenTyped DEF IInv
  <2>2. err' = 0 /\ i' = i + 1 /\ data' = Append(data, Head(Left).data)
        /\ tspec' = tspec /\ arg' = arg /\ done' = FALSE
    BY <1>1, <1>4 DEF CheckOpen, Same
  <2>3. PICK K \in Nat \ {0} : K = Len(data)
    BY Standing DEF CheckOpen
  <2>4. Len(data') = K + 1 /\ data'[K + 1] = Head(Left).data
        /\ \A k \in 1 .. K : data'[k] = data[k]
    <3>1. data \in Seq(Seq(Argument))
      BY DEF IInv, Typed, TypeOK
    <3>2. Head(Left).data \in Seq(Argument)
      <4>1. Head(Left) \in Argument
        BY <1>1
      <4> QED BY <1>4, <4>1, TypecheckAssumption
    <3> QED BY <2>2, <2>3, <3>1, <3>2
  <2>5. i <= Len(tspec) /\ i + 1 \in 1 .. Len(tspec) + 1 /\ Here(tspec, i + 1) = i + 1
    <3>1. i <= Len(tspec)
      BY <1>1, SpecKinds DEF Char
    <3> QED BY <1>1, <3>1 DEF Here
  <2>6. PICK pos : Resumes(pos) /\ (Accepted(tspec, arg) <=> Awaited(pos))
    BY <1>1, Zenon DEF IInv
  <2>7. pos \in [1 .. K -> 1 .. Len(tspec) + 1] /\ pos[K] = i
        /\ \A k \in 1 .. K - 1 : pos[k] = AfterClose(tspec)[pos[k + 1]]
    BY <1>1, <2>3, <2>6 DEF Resumes
  <2>8. PICK p : p = AfterClose(tspec)[i + 1]
    OBVIOUS
  <2>9. p \in 1 .. Len(tspec) + 1 /\ AfterClose(tspec)[p] = AfterClose(tspec)[i]
    <3>1. p \in i + 1 .. Len(tspec) + 1
      BY <1>1, <2>5, <2>8, AfterCloseFacts DEF Beyond
    <3>2. AfterClose(tspec)[i] = AfterClose(tspec)[AfterClose(tspec)[i + 1]]
      BY <1>1, <2>5, AfterCloseOpen DEF Char
    <3> QED BY <1>1, <2>8, <3>1, <3>2
  <2>10. PICK new : new = [k \in 1 .. K + 1 |-> IF k = K + 1 THEN i + 1
                                                ELSE IF k = K THEN p ELSE pos[k]]
    OBVIOUS
  <2>11. new \in [1 .. K + 1 -> 1 .. Len(tspec) + 1] /\ new[K + 1] = i + 1 /\ new[K] = p
         /\ \A k \in 1 .. K - 1 : new[k] = pos[k]
    BY <2>3, <2>5, <2>7, <2>9, <2>10
  <2>12. ASSUME NEW k \in 1 .. K PROVE new[k] = AfterClose(tspec)[new[k + 1]]
    <3>1. CASE k = K
      BY <2>8, <2>11, <3>1
    <3>2. CASE k = K - 1
      <4>1. k + 1 = K /\ k \in 1 .. K - 1
        BY <2>3, <3>2
      <4> QED BY <2>7, <2>9, <2>11, <4>1
    <3>3. CASE k # K /\ k # K - 1
      <4>1. k \in 1 .. K - 1 /\ k + 1 \in 1 .. K - 1
        BY <2>3, <3>3
      <4> QED BY <2>7, <2>11, <4>1
    <3> QED BY <3>1, <3>2, <3>3
  <2>13. Resumes(new)'
    BY <2>2, <2>3, <2>4, <2>5, <2>11, <2>12 DEF Resumes
  <2>14. Awaited(pos) <=> Awaited(new)'
    <3>1. Awaited(pos) <=> \A k \in 1 .. K :
            (IF k = K THEN data[k] ELSE Tail(data[k])) \in Asked(tspec, pos[k])
      BY <2>3, Zenon DEF Awaited, Remains
    <3>2. Awaited(pos) <=> /\ Left \in Asked(tspec, i)
                           /\ \A k \in 1 .. K - 1 : Tail(data[k]) \in Asked(tspec, pos[k])
      <4>1. Left = data[K] /\ pos[K] = i
        BY <1>1, <2>3, <2>7
      <4> QED BY <3>1, <4>1, AwaitedSplit
    <3>3. Awaited(new)' <=> \A k \in 1 .. K + 1 :
            (IF k = K + 1 THEN data'[k] ELSE Tail(data'[k])) \in Asked(tspec, new[k])
      BY <2>2, <2>4, Zenon DEF Awaited, Remains
    <3>4. Awaited(new)' <=>
             /\ data'[K + 1] \in Asked(tspec, new[K + 1])
             /\ \A k \in 1 .. K : Tail(data'[k]) \in Asked(tspec, new[k])
      <4>1. K + 1 \in Nat \ {0} /\ (K + 1) - 1 = K
        OBVIOUS
      <4>2. PICK M \in Nat \ {0} : M = K + 1 /\ M - 1 = K
        BY <4>1
      <4>3. Awaited(new)' <=> \A k \in 1 .. M :
              (IF k = M THEN data'[k] ELSE Tail(data'[k])) \in Asked(tspec, new[k])
        BY <3>3, <4>2, Zenon
      <4>4. Awaited(new)' <=>
               /\ data'[M] \in Asked(tspec, new[M])
               /\ \A k \in 1 .. M - 1 : Tail(data'[k]) \in Asked(tspec, new[k])
        BY <4>3, AwaitedSplit
      <4> QED BY <4>2, <4>4, Zenon
    <3>5. (\A k \in 1 .. K : Tail(data'[k]) \in Asked(tspec, new[k]))
          <=> /\ Tail(Left) \in Asked(tspec, p)
              /\ \A k \in 1 .. K - 1 : Tail(data[k]) \in Asked(tspec, pos[k])
      <4>1. K \in 1 .. K /\ \A k \in 1 .. K : k = K \/ k \in 1 .. K - 1
        OBVIOUS
      <4>2. \A k \in 1 .. K - 1 : k \in 1 .. K /\ data'[k] = data[k] /\ new[k] = pos[k]
        BY <2>4, <2>11
      <4>3. data'[K] = Left /\ new[K] = p
        BY <1>1, <2>3, <2>4, <2>11, <4>1
      <4> QED BY <4>1, <4>2, <4>3, Zenon
    <3> QED BY <1>2, <1>4, <2>4, <2>8, <2>11, <3>2, <3>4, <3>5, Zenon
  <2>15. \A k \in 1 .. Len(data') - 1 : data'[k] # <<>>
    <3>1. ASSUME NEW k \in 1 .. K PROVE data'[k] # <<>>
      <4>1. CASE k = K
        BY <1>1, <2>3, <2>4, <4>1
      <4>2. CASE k # K
        <5>1. k \in 1 .. Len(data) - 1
          BY <2>3, <4>2
        <5> QED BY <2>4, <5>1 DEF IInv
      <4> QED BY <4>1, <4>2
    <3> QED BY <2>3, <2>4, <3>1
  <2>16. Accepted(tspec', arg') <=> Awaited(new)'
    BY <2>2, <2>6, <2>14, Zenon
  <2> QED BY <2>1, <2>2, <2>13, <2>15, <2>16, Zenon DEF IInv
<1> QED BY <1>3, <1>4

-----------------------------------------------------------------------------
(* A return                                                                 *)

(* A call that has not failed and can go no further succeeds on exactly     *)
(* what the specification asks.                                             *)
LEMMA OutcomeFacts ==
  ASSUME NEW d \in Seq(Argument), tspec \in Seq(Token), i \in Nat \ {0},
         Left = d, d = <<>> \/ i > Len(tspec) + 1
  PROVE  /\ Outcome(0) = 0 <=> d \in Asked(tspec, Here(tspec, i))
         /\ Outcome(0) = 0 => SpecAt(tspec, Here(tspec, i)).kind \in {"end", "close"}
         /\ Outcome(0) \in 0 .. 4
<1>1. Len(tspec) \in Nat
  OBVIOUS
<1>2. PICK n : n = Here(tspec, i)
  OBVIOUS
<1>3. n \in 1 .. Len(tspec) + 1
  BY <1>1, <1>2 DEF Here
<1>4. SpecAt(tspec, n).kind = "end" <=> n > Len(tspec)
  BY <1>1, <1>3, SpecKinds
<1>5. Outcome(0) \in 0 .. 4
  BY DEF Outcome
<1>6. CASE d = <<>>
  <2>1. d \in Asked(tspec, n) <=> SpecAt(tspec, n).kind \in {"end", "close"}
    BY <1>3, <1>6, AskedNone
  <2>2. CASE i <= Len(tspec)
    <3>1. n = i /\ Char = SpecAt(tspec, n) /\ ~(n > Len(tspec))
      BY <1>1, <1>2, <2>2 DEF Here, Char
    <3>2. Outcome(0) = 0 <=> Char.kind = "close"
      BY <1>6, <2>2 DEF Outcome
    <3> QED BY <1>2, <1>4, <1>5, <2>1, <3>1, <3>2
  <2>3. CASE i > Len(tspec)
    <3>1. n = Len(tspec) + 1
      BY <1>1, <1>2, <2>3 DEF Here
    <3>2. SpecAt(tspec, n).kind = "end"
      BY <1>1, <1>4, <3>1
    <3>3. Outcome(0) = 0
      BY <1>1, <1>6, <2>3 DEF Outcome
    <3> QED BY <1>2, <1>5, <2>1, <3>2, <3>3
  <2> QED BY <1>1, <2>2, <2>3
<1>7. CASE d # <<>>
  <2>1. n = Len(tspec) + 1
    BY <1>1, <1>2, <1>7 DEF Here
  <2>2. SpecAt(tspec, n).kind = "end"
    BY <1>1, <1>4, <2>1
  <2>3. d \notin Asked(tspec, n)
    BY <1>3, <1>7, <2>2, AskedAtEnd
  <2>4. Outcome(0) = 2
    BY <1>7 DEF Outcome
  <2> QED BY <1>2, <1>5, <2>3, <2>4
<1> QED BY <1>6, <1>7

LEMMA ReturnIInv == ASSUME IInv, ReturnFrom PROVE IInv'
<1>1. Typed /\ tspec \in Seq(Token) /\ Len(tspec) \in Nat /\ Len(data) \in Nat \ {0}
      /\ i \in Nat \ {0} /\ err \in 0 .. 4
      /\ Left = data[Len(data)] /\ Left \in Seq(Argument)
  BY LeftFacts DEF IInv, Typed, TypeOK, Left
<1>2. ~done /\ err' = Outcome(err) /\ tspec' = tspec /\ arg' = arg
  BY DEF ReturnFrom
<1>3. err = 0 => Left = <<>> \/ i > Len(tspec) + 1
  BY DEF ReturnFrom
<1>4. Len(data) # 1 => data[Len(data) - 1] # <<>>
  <2> HAVE Len(data) # 1
  <2>1. \A k \in Nat \ {0} : k # 1 => k - 1 \in 1 .. k - 1
    OBVIOUS
  <2>2. Len(data) - 1 \in 1 .. Len(data) - 1
    BY <1>1, <2>1, Zenon
  <2> QED BY <2>2, Zenon DEF IInv
<1>5. Typed'
  BY <1>1, <1>4, ReturnTyped
<1>6. PICK n : n = Here(tspec, i)
  OBVIOUS
<1>7. n \in 1 .. Len(tspec) + 1 /\ Here(tspec, n + 1) = Here(tspec, i + 1)
  BY <1>1, <1>6 DEF Here
<1>8. err = 0 => /\ err' = 0 <=> Left \in Asked(tspec, n)
                 /\ err' = 0 => SpecAt(tspec, n).kind \in {"end", "close"}
  <2> HAVE err = 0
  <2>1. err' = Outcome(0)
    BY <1>2
  <2>2. PICK d \in Seq(Argument) : d = Left
    BY <1>1
  <2>3. d = <<>> \/ i > Len(tspec) + 1
    BY <1>3, <2>2
  <2>4. /\ Outcome(0) = 0 <=> d \in Asked(tspec, Here(tspec, i))
        /\ Outcome(0) = 0 => SpecAt(tspec, Here(tspec, i)).kind \in {"end", "close"}
    BY <1>1, <2>2, <2>3, OutcomeFacts
  <2> QED BY <1>6, <2>1, <2>2, <2>4, Zenon
<1>9. PICK K \in Nat \ {0} : K = Len(data)
  BY <1>1
<1>10. err = 0 => \E pos : Resumes(pos) /\ (Accepted(tspec, arg) <=> Awaited(pos))
  BY <1>2, Zenon DEF IInv
<1>11. ASSUME NEW pos, Resumes(pos)
       PROVE  /\ pos \in [1 .. K -> 1 .. Len(tspec) + 1] /\ pos[K] = n
              /\ \A k \in 1 .. K - 1 : pos[k] = AfterClose(tspec)[pos[k + 1]]
              /\ Awaited(pos) <=>
                   /\ Left \in Asked(tspec, n)
                   /\ \A k \in 1 .. K - 1 : Tail(data[k]) \in Asked(tspec, pos[k])
  <2>1. pos \in [1 .. K -> 1 .. Len(tspec) + 1] /\ pos[K] = n
        /\ \A k \in 1 .. K - 1 : pos[k] = AfterClose(tspec)[pos[k + 1]]
    BY <1>6, <1>9, <1>11 DEF Resumes
  <2>2. Awaited(pos) <=> \A k \in 1 .. K :
          (IF k = K THEN data[k] ELSE Tail(data[k])) \in Asked(tspec, pos[k])
    BY <1>9, Zenon DEF Awaited, Remains
  <2>3. Left = data[K]
    BY <1>1, <1>9
  <2> QED BY <2>1, <2>2, <2>3, AwaitedSplit
<1>12. err' # 0 => ~Accepted(tspec, arg)
  <2>1. CASE err # 0
    BY <2>1 DEF IInv
  <2>2. CASE err = 0
    BY <1>8, <1>10, <1>11, <2>2, Zenon
  <2> QED BY <2>1, <2>2
<1>13. err' = 0 => err = 0
  BY <1>2 DEF Outcome
<1>14. CASE K = 1
  <2>1. done' = TRUE /\ data' = data
    BY <1>9, <1>14 DEF ReturnFrom
  <2>2. err' = 0 => Accepted(tspec, arg)
    <3> HAVE err' = 0
    <3>1. PICK pos : Resumes(pos) /\ (Accepted(tspec, arg) <=> Awaited(pos))
      BY <1>10, <1>13, Zenon
    <3>2. 1 .. K - 1 = {}
      BY <1>14
    <3>3. Awaited(pos) <=> Left \in Asked(tspec, n)
      BY <1>11, <3>1, <3>2, Zenon
    <3> QED BY <1>8, <1>13, <3>1, <3>3
  <2>3. \A k \in 1 .. Len(data') - 1 : data'[k] # <<>>
    BY <2>1, Zenon DEF IInv
  <2> QED BY <1>2, <1>5, <1>12, <2>1, <2>2, <2>3, Zenon DEF IInv
<1>15. CASE K # 1
  <2>1. done' = FALSE /\ i' = i + 1
    BY <1>2, <1>9, <1>15 DEF ReturnFrom, Resumed
  <2>2. PICK m \in Nat \ {0} : m = K - 1
    BY <1>15
  <2>3. Len(data') = m /\ data'[m] = Tail(data[m]) /\ \A k \in 1 .. m - 1 : data'[k] = data[k]
    <3>1. Len(data) # 1 /\ Len(data) - 1 = m /\ Len(data) - 2 = m - 1
      BY <1>9, <1>15, <2>2
    <3>2. /\ Len(data') = Len(data) - 1
          /\ data'[Len(data) - 1] = Tail(data[Len(data) - 1])
          /\ \A k \in 1 .. Len(data) - 2 : data'[k] = data[k]
      BY <1>1, <1>4, <3>1, ReturnFacts
    <3> QED BY <3>1, <3>2, Zenon
  <2>4. \A k \in 1 .. Len(data') - 1 : data'[k] # <<>>
    <3>1. \A k \in 1 .. m - 1 : k \in 1 .. Len(data) - 1
      BY <1>9, <2>2
    <3> QED BY <2>3, <3>1 DEF IInv
  <2>5. ASSUME err' = 0
        PROVE  \E new : Resumes(new)' /\ (Accepted(tspec, arg) <=> Awaited(new)')
    <3>1. PICK pos : Resumes(pos) /\ (Accepted(tspec, arg) <=> Awaited(pos))
      BY <1>10, <1>13, <2>5, Zenon
    <3>2. /\ pos \in [1 .. K -> 1 .. Len(tspec) + 1] /\ pos[K] = n
          /\ \A k \in 1 .. K - 1 : pos[k] = AfterClose(tspec)[pos[k + 1]]
      BY <1>11, <3>1
    <3>3. Accepted(tspec, arg) <=>
             \A k \in 1 .. m : Tail(data[k]) \in Asked(tspec, pos[k])
      BY <1>8, <1>11, <1>13, <2>2, <2>5, <3>1, Zenon
    <3>4. PICK new : new = [k \in 1 .. m |-> pos[k]]
      OBVIOUS
    <3>5. new \in [1 .. m -> 1 .. Len(tspec) + 1] /\ \A k \in 1 .. m : new[k] = pos[k]
      BY <2>2, <3>2, <3>4
    <3>6. new[m] = Here(tspec, i + 1)
      <4>1. m \in 1 .. K - 1 /\ m \in 1 .. m /\ m + 1 = K
        BY <2>2
      <4>2. new[m] = AfterClose(tspec)[n]
        BY <3>2, <3>5, <4>1
      <4>3. AfterClose(tspec)[n] = Here(tspec, n + 1)
        BY <1>1, <1>7, <1>8, <1>13, <2>5, AfterCloseNext
      <4> QED BY <1>7, <4>2, <4>3
    <3>7. ASSUME NEW k \in 1 .. m - 1 PROVE new[k] = AfterClose(tspec)[new[k + 1]]
      <4>1. k \in 1 .. K - 1 /\ k \in 1 .. m /\ k + 1 \in 1 .. m
        BY <2>2
      <4> QED BY <3>2, <3>5, <4>1
    <3>8. Resumes(new)'
      BY <1>2, <2>1, <2>3, <3>5, <3>6, <3>7 DEF Resumes
    <3>9. Awaited(new)' <=> \A k \in 1 .. m : Tail(data[k]) \in Asked(tspec, pos[k])
      <4>1. Awaited(new)' <=> \A k \in 1 .. m :
              (IF k = m THEN data'[k] ELSE Tail(data'[k])) \in Asked(tspec, new[k])
        BY <1>2, <2>3, Zenon DEF Awaited, Remains
      <4>2. \A k \in 1 .. m : k = m \/ k \in 1 .. m - 1
        OBVIOUS
      <4>3. \A k \in 1 .. m :
              (IF k = m THEN data'[k] ELSE Tail(data'[k])) = Tail(data[k])
        BY <2>3, <4>2, Zenon
      <4> QED BY <3>5, <4>1, <4>3, Zenon
    <3> QED BY <3>3, <3>8, <3>9, Zenon
  <2> QED BY <1>2, <1>5, <1>12, <2>1, <2>4, <2>5, Zenon DEF IInv
<1> QED BY <1>14, <1>15

LEMMA NextIInv == ASSUME IInv, [Next]_vars PROVE IInv'
<1>1. CASE UNCHANGED vars
  BY <1>1 DEF vars, IInv, Typed, TypeOK, Resumes, Awaited, Remains
<1>2. CASE Next
  BY <1>2, CheckOneIInv, CheckAnyIInv, CheckRestIInv, CheckManyIInv, CheckOpenIInv,
     CheckCloseIInv, CheckBadIInv, ReturnIInv DEF Next
<1> QED BY <1>1, <1>2

-----------------------------------------------------------------------------
(* The theorems                                                             *)

(* The calls of typecheck_aux, which recurse as deep as the lists and the   *)
(* parentheses allow, never nest deeper than the position they share is     *)
(* far; and that position, which every return moves on, passes the          *)
(* terminating zero by no more than the specification is long and one.      *)
THEOREM TypeCorrect == Spec => []TypeOK
<1>1. IInv => TypeOK
  BY DEF IInv, Typed
<1> QED BY <1>1, InitIInv, NextIInv, PTL DEF Spec

(* typecheck accepts a list, nested to any depth, exactly when its          *)
(* specification describes it with greedy repetitions, those of lists among *)
(* them, and what it accepts is what the manual allows.                     *)
THEOREM AcceptsExactly == Spec => []AcceptsGreedily
<1>1. ASSUME IInv PROVE AcceptsGreedily
  <2>1. tspec \in Seq(Token) /\ 1 \in 1 .. Len(tspec) + 1
    BY <1>1 DEF IInv, Typed
  <2>2. Accepted(tspec, arg) => Matches(arg)
    BY <2>1, GreedyIsLiberal DEF Accepted, Asked, Matches
  <2>3. done => (err = 0 <=> Accepted(tspec, arg))
    BY <1>1, Zenon DEF IInv
  <2>4. Accepted(tspec, arg) = MatchesGreedily(arg)
    BY Zenon DEF Accepted, Asked, MatchesGreedily
  <2> QED BY <2>2, <2>3, <2>4 DEF AcceptsGreedily
<1> QED BY <1>1, InitIInv, NextIInv, PTL DEF Spec
=============================================================================
