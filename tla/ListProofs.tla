----------------------------- MODULE ListProofs -----------------------------
(***************************************************************************)
(* What a loop that inserts at the head of a list computes, and one that   *)
(* takes such a list apart and inserts at the head again.                  *)
(*                                                                         *)
(* The lists are folds, so the proofs are by induction.  The library has   *)
(* that for operators; here a property of numbers, or of sequences, is the *)
(* set of those that have it.                                              *)
(***************************************************************************)
EXTENDS Integers, Lists, WellFoundedInduction, SequenceTheorems, TLAPS

-----------------------------------------------------------------------------
(* Induction                                                               *)

\* A set of numbers that is not empty has a least element.
LEMMA LeastElement ==
    ASSUME NEW T, T \subseteq Nat, T # {}
    PROVE  \E x \in T : \A y \in T : x <= y
<1>. DEFINE R == {ss \in Nat \X Nat : ss[1] < ss[2]}
<1>1. IsWellFoundedOn(R, Nat)
  BY NatLessThanWellFounded DEF OpToRel
<1>2. \A x, y \in Nat : <<y, x>> \in R <=> y < x
  OBVIOUS
<1>. HIDE DEF R
<1>3. PICK x \in T : \A y \in T : ~ (<<y, x>> \in R)
  BY <1>1, WFMin
<1>4. \A y \in T : x <= y
  <2>1. TAKE y \in T
  <2>2. x \in Nat /\ y \in Nat /\ ~ (<<y, x>> \in R)
    BY <1>3
  <2>3. QED BY <1>2, <2>2
<1>5. QED BY <1>4

\* A set with 0 that is closed under adding 1 has every number.
LEMMA Induction ==
    ASSUME NEW T, 0 \in T, \A n \in Nat : n \in T => n + 1 \in T
    PROVE  Nat \subseteq T
<1>1. SUFFICES ASSUME Nat \ T # {} PROVE FALSE
  OBVIOUS
<1>2. PICK x \in Nat \ T : \A y \in Nat \ T : x <= y
  BY <1>1, LeastElement
<1>3. x # 0 /\ x - 1 \in Nat
  BY <1>2
<1>4. x - 1 \notin T
  BY <1>2, <1>3
<1>5. QED BY <1>2, <1>3, <1>4

\* A set with the empty sequence that is closed under Append has every sequence.
LEMMA SeqInduction ==
    ASSUME NEW S, NEW T, << >> \in T,
           \A s \in Seq(S), x \in S : s \in T => Append(s, x) \in T
    PROVE  Seq(S) \subseteq T
<1>. DEFINE N == {n \in Nat : \A s \in Seq(S) : Len(s) = n => s \in T}
<1>1. 0 \in N
  BY EmptySeq
<1>2. ASSUME NEW n \in Nat, n \in N PROVE n + 1 \in N
  <2>1. SUFFICES ASSUME NEW s \in Seq(S), Len(s) = n + 1 PROVE s \in T
    OBVIOUS
  <2>. DEFINE front == SubSeq(s, 1, n)
  <2>2. front \in Seq(S) /\ Len(front) = n /\ s[n + 1] \in S
    BY <2>1
  <2>3. s = Append(front, s[n + 1])
    BY <2>1, <2>2
  <2>4. QED BY <1>2, <2>2, <2>3
<1>. HIDE DEF N
<1>3. Nat \subseteq N
  BY <1>1, <1>2, Induction
<1>4. QED BY <1>3 DEF N

-----------------------------------------------------------------------------
(* What InsertAll computes: FoldLeft unfolded, one insertion at a time.    *)

Latest(s) == CHOOSE x \in s : \A y \in s : x >= y

\* FoldLeft takes the greatest index of those it has left.
LEMMA LatestIsGreatest ==
    ASSUME NEW k \in Nat, NEW s \in SUBSET (1 .. k), k \in s
    PROVE  Latest(s) = k
<1>1. k \in s /\ \A y \in s : k >= y
  OBVIOUS
<1>2. ASSUME NEW x \in s, \A y \in s : x >= y PROVE x = k
  BY <1>1, <1>2
<1>3. QED BY <1>1, <1>2 DEF Latest

\* f is the function by which FoldLeft is defined, on the indices up to n.
IsInsert(f, n, pieces) ==
    f = [s \in SUBSET (1 .. n) |->
            IF s = {} THEN << >> ELSE pieces[Latest(s)] \o f[s \ {Latest(s)}]]

\* InsertAll is the value of such a function, when there is one.
LEMMA InsertAllChoice ==
    ASSUME NEW pieces, NEW n, DOMAIN pieces = 1 .. n, NEW f, IsInsert(f, n, pieces)
    PROVE  \E g : IsInsert(g, n, pieces) /\ InsertAll(pieces) = g[1 .. n]
<1>1. InsertAll(pieces) = (CHOOSE g : IsInsert(g, n, pieces))[1 .. n]
  BY DEF InsertAll, FoldLeft, MapThenFoldSet, Max, IsInsert, Latest
<1>2. QED BY <1>1

\* Two such functions agree as far as their pieces do.
LEMMA InsertUnique ==
    ASSUME NEW pieces, NEW f, NEW g, NEW n \in Nat, NEW m \in 0 .. n, NEW other,
           \A i \in 1 .. m : other[i] = pieces[i],
           IsInsert(f, n, pieces), IsInsert(g, m, other)
    PROVE  \A s \in SUBSET (1 .. m) : f[s] = g[s]
<1>. DEFINE N == {k \in Nat : k <= m => \A s \in SUBSET (1 .. k) : f[s] = g[s]}
<1>1. 0 \in N
  <2>1. f[{}] = << >> /\ g[{}] = << >>
    BY DEF IsInsert
  <2>2. \A s \in SUBSET (1 .. 0) : s = {}
    OBVIOUS
  <2>3. QED BY <2>1, <2>2
<1>2. ASSUME NEW k \in Nat, k \in N PROVE k + 1 \in N
  <2>1. SUFFICES ASSUME k + 1 <= m, NEW s \in SUBSET (1 .. k + 1) PROVE f[s] = g[s]
    OBVIOUS
  <2>2. CASE k + 1 \notin s
    <3>1. s \in SUBSET (1 .. k)
      BY <2>2
    <3>2. QED BY <1>2, <2>1, <3>1
  <2>3. CASE k + 1 \in s
    <3>1. Latest(s) = k + 1
      BY <2>3, LatestIsGreatest
    <3>2. s \ {k + 1} \in SUBSET (1 .. k) /\ s # {} /\ s \in SUBSET (1 .. m) /\ s \in SUBSET (1 .. n)
      BY <2>1, <2>3
    <3>3. f[s] = pieces[k + 1] \o f[s \ {k + 1}] /\ g[s] = other[k + 1] \o g[s \ {k + 1}]
      BY <3>1, <3>2 DEF IsInsert
    <3>4. f[s \ {k + 1}] = g[s \ {k + 1}] /\ other[k + 1] = pieces[k + 1]
      BY <1>2, <2>1, <3>2
    <3>5. QED BY <3>3, <3>4
  <2>4. QED BY <2>2, <2>3
<1>. HIDE DEF N
<1>3. m \in N
  BY <1>1, <1>2, Induction
<1>4. QED BY <1>3 DEF N

\* There is one for every number of pieces.
LEMMA InsertExists ==
    ASSUME NEW pieces, NEW n \in Nat
    PROVE  \E f : IsInsert(f, n, pieces)
<1>. DEFINE N == {k \in Nat : \E f : IsInsert(f, k, pieces)}
<1>1. 0 \in N
  <2>. DEFINE f == [s \in SUBSET (1 .. 0) |-> << >>]
  <2>1. f = [s \in SUBSET (1 .. 0) |->
               IF s = {} THEN << >> ELSE pieces[Latest(s)] \o f[s \ {Latest(s)}]]
    <3>1. \A s \in SUBSET (1 .. 0) : s = {}
      OBVIOUS
    <3>2. QED BY <3>1
  <2>2. QED BY <2>1 DEF IsInsert
<1>2. ASSUME NEW k \in Nat, k \in N PROVE k + 1 \in N
  <2>1. PICK f : IsInsert(f, k, pieces)
    BY <1>2
  <2>. DEFINE g == [s \in SUBSET (1 .. k + 1) |->
                      IF k + 1 \in s THEN pieces[k + 1] \o f[s \ {k + 1}] ELSE f[s]]
  <2>2. ASSUME NEW s \in SUBSET (1 .. k + 1)
        PROVE  g[s] = IF s = {} THEN << >> ELSE pieces[Latest(s)] \o g[s \ {Latest(s)}]
    <3>1. CASE k + 1 \in s
      <4>1. Latest(s) = k + 1
        BY <3>1, LatestIsGreatest
      <4>2. s \ {k + 1} \in SUBSET (1 .. k + 1) /\ k + 1 \notin s \ {k + 1} /\ s # {}
        BY <3>1
      <4>3. g[s \ {k + 1}] = f[s \ {k + 1}]
        BY <4>2
      <4>4. QED BY <3>1, <4>1, <4>2, <4>3
    <3>2. CASE k + 1 \notin s /\ s # {}
      <4>1. s \in SUBSET (1 .. k)
        BY <3>2
      <4>2. f[s] = pieces[Latest(s)] \o f[s \ {Latest(s)}]
        BY <2>1, <3>2, <4>1 DEF IsInsert
      <4>3. g[s] = f[s] /\ g[s \ {Latest(s)}] = f[s \ {Latest(s)}]
        BY <3>2, <4>1
      <4>4. QED BY <3>2, <4>2, <4>3
    <3>3. CASE s = {}
      <4>1. f[{}] = << >>
        BY <2>1 DEF IsInsert
      <4>2. QED BY <3>3, <4>1
    <3>4. QED BY <3>1, <3>2, <3>3
  <2>3. g = [s \in SUBSET (1 .. k + 1) |->
               IF s = {} THEN << >> ELSE pieces[Latest(s)] \o g[s \ {Latest(s)}]]
    BY <2>2
  <2>. HIDE DEF g
  <2>4. IsInsert(g, k + 1, pieces)
    BY <2>3 DEF IsInsert
  <2>5. QED BY <2>4
<1>. HIDE DEF N
<1>3. n \in N
  BY <1>1, <1>2, Induction
<1>4. QED BY <1>3 DEF N

\* A loop over nothing makes the empty list (net.c:370, 421).
LEMMA InsertAllEmpty == InsertAll(<< >>) = << >>
<1>1. DOMAIN << >> = 1 .. 0 /\ 0 \in Nat
  BY EmptySeq
<1>2. PICK f : IsInsert(f, 0, << >>) /\ InsertAll(<< >>) = f[1 .. 0]
  BY <1>1, InsertExists, InsertAllChoice
<1>3. 1 .. 0 = {}
  OBVIOUS
<1>4. QED BY <1>2, <1>3 DEF IsInsert

\* The last piece comes first (net.c:375-376, 448-450).
LEMMA InsertAllAppend ==
    ASSUME NEW S, NEW pieces \in Seq(S), NEW x \in S
    PROVE  InsertAll(Append(pieces, x)) = x \o InsertAll(pieces)
<1>. DEFINE n == Len(pieces)
            longer == Append(pieces, x)
<1>1. n \in Nat /\ DOMAIN pieces = 1 .. n /\ DOMAIN longer = 1 .. n + 1
        /\ longer[n + 1] = x /\ \A i \in 1 .. n : pieces[i] = longer[i]
  OBVIOUS
<1>. HIDE DEF longer, n
<1>2. PICK f : IsInsert(f, n, pieces) /\ InsertAll(pieces) = f[1 .. n]
  BY <1>1, InsertExists, InsertAllChoice
<1>3. PICK g : IsInsert(g, n + 1, longer) /\ InsertAll(longer) = g[1 .. n + 1]
  BY <1>1, InsertExists, InsertAllChoice
<1>4. f[1 .. n] = g[1 .. n]
  <2>1. n + 1 \in Nat /\ n \in 0 .. n + 1 /\ 1 .. n \in SUBSET (1 .. n)
    BY <1>1
  <2>2. QED BY <1>1, <1>2, <1>3, <2>1, InsertUnique
<1>5. g[1 .. n + 1] = longer[n + 1] \o g[1 .. n]
  <2>1. Latest(1 .. n + 1) = n + 1
    BY <1>1, LatestIsGreatest
  <2>2. (1 .. n + 1) \ {n + 1} = 1 .. n /\ 1 .. n + 1 # {}
    <3>1. \A i : i \in (1 .. n + 1) \ {n + 1} <=> i \in 1 .. n
      BY <1>1
    <3>2. n + 1 \in 1 .. n + 1
      BY <1>1
    <3>3. QED BY <3>1, <3>2
  <2>3. QED BY <1>3, <2>1, <2>2 DEF IsInsert
<1>6. QED BY <1>1, <1>2, <1>3, <1>4, <1>5 DEF longer

-----------------------------------------------------------------------------
(* The same for FlattenSeq, by which the properties state an order.        *)

IsFlatten(f, n, pieces) ==
    f = [i \in 1 .. n |-> IF i = 1 THEN pieces[i] ELSE f[i - 1] \o pieces[i]]

\* FlattenSeq is the value of such a function, when there is one.
LEMMA FlattenChoice ==
    ASSUME NEW pieces, Len(pieces) # 0, NEW f, IsFlatten(f, Len(pieces), pieces)
    PROVE  \E g : IsFlatten(g, Len(pieces), pieces) /\ FlattenSeq(pieces) = g[Len(pieces)]
<1>1. FlattenSeq(pieces) = (CHOOSE g : IsFlatten(g, Len(pieces), pieces))[Len(pieces)]
  BY DEF FlattenSeq, IsFlatten
<1>2. QED BY <1>1

\* Each value is the one before with a piece at its end.
LEMMA FlattenStep ==
    ASSUME NEW pieces, NEW n, NEW f, IsFlatten(f, n, pieces),
           NEW k \in Nat, k # 0, k + 1 \in 1 .. n
    PROVE  f[k + 1] = f[k] \o pieces[k + 1]
<1>1. \A i \in 1 .. n : f[i] = IF i = 1 THEN pieces[i] ELSE f[i - 1] \o pieces[i]
  BY DEF IsFlatten
<1>2. k + 1 # 1 /\ (k + 1) - 1 = k
  OBVIOUS
<1>3. f[k + 1] = f[(k + 1) - 1] \o pieces[k + 1]
  BY <1>1, <1>2
<1>4. QED BY <1>2, <1>3

\* Two such functions agree as far as their pieces do.
LEMMA FlattenUnique ==
    ASSUME NEW pieces, NEW f, NEW g, NEW n \in Nat, NEW m \in 0 .. n, NEW other,
           \A i \in 1 .. m : other[i] = pieces[i],
           IsFlatten(f, n, pieces), IsFlatten(g, m, other)
    PROVE  \A i \in 1 .. m : f[i] = g[i]
<1>. DEFINE N == {k \in Nat : k \in 1 .. m => f[k] = g[k]}
<1>1. 0 \in N
  OBVIOUS
<1>2. ASSUME NEW k \in Nat, k \in N PROVE k + 1 \in N
  <2>1. SUFFICES ASSUME k + 1 <= m PROVE f[k + 1] = g[k + 1]
    OBVIOUS
  <2>2. k + 1 \in 1 .. m /\ k + 1 \in 1 .. n /\ (k + 1) - 1 = k
    BY <2>1
  <2>3. CASE k = 0
    BY <2>2, <2>3 DEF IsFlatten
  <2>4. CASE k # 0
    <3>1. f[k] = g[k]
      BY <1>2, <2>1, <2>4
    <3>2. f[k + 1] = f[k] \o pieces[k + 1] /\ g[k + 1] = g[k] \o other[k + 1]
      BY <2>2, <2>4, FlattenStep
    <3>3. QED BY <2>2, <3>1, <3>2
  <2>5. QED BY <2>3, <2>4
<1>. HIDE DEF N
<1>3. Nat \subseteq N
  BY <1>1, <1>2, Induction
<1>4. QED BY <1>3 DEF N

\* There is one for every number of pieces.
LEMMA FlattenExists ==
    ASSUME NEW pieces, NEW n \in Nat
    PROVE  \E f : IsFlatten(f, n, pieces)
<1>. DEFINE N == {k \in Nat : \E f : IsFlatten(f, k, pieces)}
<1>1. 0 \in N
  <2>. DEFINE f == [i \in 1 .. 0 |-> << >>]
  <2>1. \A i \in 1 .. 0 : FALSE
    OBVIOUS
  <2>2. f = [i \in 1 .. 0 |-> IF i = 1 THEN pieces[i] ELSE f[i - 1] \o pieces[i]]
    BY <2>1
  <2>3. QED BY <2>2 DEF IsFlatten
<1>2. ASSUME NEW k \in Nat, k \in N PROVE k + 1 \in N
  <2>1. PICK f : IsFlatten(f, k, pieces)
    BY <1>2
  <2>. DEFINE g == [i \in 1 .. k + 1 |->
                      IF i = k + 1
                      THEN IF k = 0 THEN pieces[i] ELSE f[k] \o pieces[i]
                      ELSE f[i]]
  <2>2. ASSUME NEW i \in 1 .. k + 1
        PROVE  g[i] = IF i = 1 THEN pieces[i] ELSE g[i - 1] \o pieces[i]
    <3>1. CASE i = k + 1
      <4>1. CASE k = 0
        BY <3>1, <4>1
      <4>2. CASE k # 0
        <5>1. i # 1 /\ i - 1 = k /\ k \in 1 .. k + 1 /\ k # k + 1
          BY <3>1, <4>2
        <5>2. g[k] = f[k]
          BY <5>1
        <5>3. QED BY <3>1, <4>2, <5>1, <5>2
      <4>3. QED BY <4>1, <4>2
    <3>2. CASE i # k + 1
      <4>1. i \in 1 .. k /\ (i # 1 => i - 1 \in 1 .. k)
        BY <3>2
      <4>2. f[i] = IF i = 1 THEN pieces[i] ELSE f[i - 1] \o pieces[i]
        BY <2>1, <4>1 DEF IsFlatten
      <4>3. g[i] = f[i] /\ (i # 1 => g[i - 1] = f[i - 1])
        BY <3>2, <4>1
      <4>4. QED BY <4>2, <4>3
    <3>3. QED BY <3>1, <3>2
  <2>3. g = [i \in 1 .. k + 1 |-> IF i = 1 THEN pieces[i] ELSE g[i - 1] \o pieces[i]]
    BY <2>2
  <2>. HIDE DEF g
  <2>4. IsFlatten(g, k + 1, pieces)
    BY <2>3 DEF IsFlatten
  <2>5. QED BY <2>4
<1>. HIDE DEF N
<1>3. n \in N
  BY <1>1, <1>2, Induction
<1>4. QED BY <1>3 DEF N

\* Nothing gives nothing.
LEMMA FlattenEmpty == FlattenSeq(<< >>) = << >>
BY EmptySeq DEF FlattenSeq

\* The last piece comes last.
LEMMA FlattenAppend ==
    ASSUME NEW E, NEW pieces \in Seq(Seq(E)), NEW x \in Seq(E)
    PROVE  FlattenSeq(Append(pieces, x)) = FlattenSeq(pieces) \o x
<1>. DEFINE n == Len(pieces)
            longer == Append(pieces, x)
<1>1. n \in Nat /\ Len(longer) = n + 1 /\ longer[n + 1] = x
        /\ \A i \in 1 .. n : pieces[i] = longer[i]
  OBVIOUS
<1>2. PICK g : IsFlatten(g, n + 1, longer) /\ FlattenSeq(longer) = g[n + 1]
  <2>. HIDE DEF longer, n
  <2>1. n + 1 \in Nat /\ n + 1 # 0
    BY <1>1
  <2>2. PICK f : IsFlatten(f, n + 1, longer)
    BY <2>1, FlattenExists
  <2>3. QED BY <1>1, <2>1, <2>2, FlattenChoice
<1>3. CASE n = 0
  <2>1. pieces = << >>
    BY <1>3
  <2>2. FlattenSeq(longer) = x
    <3>. HIDE DEF longer, n
    <3>1. QED BY <1>1, <1>2, <1>3 DEF IsFlatten
  <2>3. QED BY <2>1, <2>2, FlattenEmpty
<1>4. CASE n # 0
  <2>1. PICK f : IsFlatten(f, n, pieces) /\ FlattenSeq(pieces) = f[n]
    BY <1>1, <1>4, FlattenExists, FlattenChoice
  <2>. HIDE DEF longer, n
  <2>2. n \in 1 .. n + 1 /\ n + 1 \in 1 .. n + 1 /\ n \in 0 .. n + 1 /\ n \in 1 .. n
    BY <1>1, <1>4
  <2>3. f[n] = g[n]
    <3>1. \A i \in 1 .. n : g[i] = f[i]
      <4>1. n + 1 \in Nat /\ n \in 0 .. n + 1
        BY <1>1
      <4>2. \A i \in 1 .. n : pieces[i] = longer[i]
        BY <1>1
      <4>3. IsFlatten(g, n + 1, longer)
        BY <1>2
      <4>4. IsFlatten(f, n, pieces)
        BY <2>1
      <4>5. QED BY <4>1, <4>2, <4>3, <4>4, FlattenUnique
    <3>2. QED BY <2>2, <3>1
  <2>4. g[n + 1] = g[n] \o longer[n + 1]
    BY <1>1, <1>2, <1>4, <2>2, FlattenStep
  <2>5. QED BY <1>1, <1>2, <2>1, <2>3, <2>4 DEF longer
<1>5. QED BY <1>3, <1>4

-----------------------------------------------------------------------------
(* Lists made of pieces, and lists made of lists.                          *)

\* Concatenation, element by element.
LEMMA ConcatFacts ==
    ASSUME NEW E, NEW a \in Seq(E), NEW b \in Seq(E)
    PROVE  /\ a \o b \in Seq(E)
           /\ Len(a \o b) = Len(a) + Len(b)
           /\ \A k \in 1 .. Len(a) : (a \o b)[k] = a[k]
           /\ \A k \in 1 .. Len(b) : (a \o b)[Len(a) + k] = b[k]
           /\ << >> \o a = a /\ a \o << >> = a
OBVIOUS

\* Concatenation may be bracketed either way.
LEMMA ConcatAssociates ==
    ASSUME NEW E, NEW a \in Seq(E), NEW b \in Seq(E), NEW c \in Seq(E)
    PROVE  (a \o b) \o c = a \o (b \o c)
OBVIOUS

\* The list has the elements of its pieces and no others.
LEMMA InsertAllType ==
    ASSUME NEW E, NEW pieces \in Seq(Seq(E))
    PROVE  InsertAll(pieces) \in Seq(E)
<1>. DEFINE T == {p \in Seq(Seq(E)) : InsertAll(p) \in Seq(E)}
<1>1. << >> \in T
  <2>1. << >> \in Seq(Seq(E)) /\ << >> \in Seq(E)
    OBVIOUS
  <2>2. QED BY <2>1, InsertAllEmpty
<1>2. ASSUME NEW p \in Seq(Seq(E)), NEW x \in Seq(E), p \in T PROVE Append(p, x) \in T
  <2>1. InsertAll(Append(p, x)) = x \o InsertAll(p)
    BY InsertAllAppend
  <2>2. Append(p, x) \in Seq(Seq(E)) /\ x \o InsertAll(p) \in Seq(E)
    BY <1>2
  <2>3. QED BY <2>1, <2>2
<1>. HIDE DEF T
<1>3. Seq(Seq(E)) \subseteq T
  BY <1>1, <1>2, SeqInduction
<1>4. QED BY <1>3 DEF T

\* Two loops after one another: the list of the second comes first.
LEMMA InsertAllConcat ==
    ASSUME NEW E, NEW p \in Seq(Seq(E)), NEW q \in Seq(Seq(E))
    PROVE  InsertAll(p \o q) = InsertAll(q) \o InsertAll(p)
<1>. DEFINE T == {r \in Seq(Seq(E)) : InsertAll(p \o r) = InsertAll(r) \o InsertAll(p)}
<1>1. << >> \in T
  <2>1. InsertAll(p) \in Seq(E) /\ p \o << >> = p /\ << >> \in Seq(Seq(E))
    BY InsertAllType
  <2>2. << >> \o InsertAll(p) = InsertAll(p)
    BY <2>1
  <2>3. QED BY <2>1, <2>2, InsertAllEmpty
<1>2. ASSUME NEW r \in Seq(Seq(E)), NEW x \in Seq(E), r \in T PROVE Append(r, x) \in T
  <2>1. Append(r, x) \in Seq(Seq(E)) /\ p \o r \in Seq(Seq(E))
          /\ p \o Append(r, x) = Append(p \o r, x)
    OBVIOUS
  <2>2. InsertAll(Append(p \o r, x)) = x \o InsertAll(p \o r)
          /\ InsertAll(Append(r, x)) = x \o InsertAll(r)
    BY <2>1, InsertAllAppend
  <2>3. x \o (InsertAll(r) \o InsertAll(p)) = (x \o InsertAll(r)) \o InsertAll(p)
    <3>. DEFINE a == InsertAll(r)
                b == InsertAll(p)
    <3>1. a \in Seq(E) /\ b \in Seq(E)
      BY InsertAllType
    <3>. HIDE DEF a, b
    <3>2. (x \o a) \o b = x \o (a \o b)
      BY <3>1, ConcatAssociates
    <3>3. QED BY <3>2 DEF a, b
  <2>4. QED BY <1>2, <2>1, <2>2, <2>3
<1>. HIDE DEF T
<1>3. Seq(Seq(E)) \subseteq T
  BY <1>1, <1>2, SeqInduction
<1>4. QED BY <1>3 DEF T

\* One insertion makes a list of its piece.
LEMMA InsertAllOne ==
    ASSUME NEW E, NEW x \in Seq(E)
    PROVE  InsertAll(<<x>>) = x
<1>1. << >> \in Seq(Seq(E)) /\ <<x>> = Append(<< >>, x) /\ x \o << >> = x
  OBVIOUS
<1>2. InsertAll(Append(<< >>, x)) = x \o InsertAll(<< >>)
  BY <1>1, InsertAllAppend
<1>3. QED BY <1>1, <1>2, InsertAllEmpty

\* An element is in the list exactly when it is in a piece.
LEMMA InsertAllRange ==
    ASSUME NEW E, NEW pieces \in Seq(Seq(E)), NEW e
    PROVE  e \in Range(InsertAll(pieces)) <=> \E i \in DOMAIN pieces : e \in Range(pieces[i])
<1>. DEFINE In(p) == \E i \in DOMAIN p : e \in Range(p[i])
            T == {p \in Seq(Seq(E)) : e \in Range(InsertAll(p)) <=> In(p)}
<1>1. << >> \in T
  BY InsertAllEmpty DEF Range
<1>2. ASSUME NEW p \in Seq(Seq(E)), NEW x \in Seq(E), p \in T PROVE Append(p, x) \in T
  <2>1. InsertAll(Append(p, x)) = x \o InsertAll(p)
    BY InsertAllAppend
  <2>2. \A k \in 1 .. Len(p) : Append(p, x)[k] = p[k]
    OBVIOUS
  <2>3. DOMAIN Append(p, x) = 1 .. Len(p) + 1 /\ Append(p, x)[Len(p) + 1] = x
          /\ Len(p) \in Nat /\ DOMAIN p = 1 .. Len(p) /\ Append(p, x) \in Seq(Seq(E))
    OBVIOUS
  <2>4. In(Append(p, x)) <=> In(p) \/ e \in Range(x)
    <3>1. ASSUME In(Append(p, x)) PROVE In(p) \/ e \in Range(x)
      <4>1. PICK i \in 1 .. Len(p) + 1 : e \in Range(Append(p, x)[i])
        BY <2>3, <3>1
      <4>2. CASE i = Len(p) + 1
        BY <2>3, <4>1, <4>2
      <4>3. CASE i \in 1 .. Len(p)
        BY <2>2, <2>3, <4>1, <4>3
      <4>4. QED BY <2>3, <4>2, <4>3
    <3>2. ASSUME In(p) PROVE In(Append(p, x))
      <4>1. PICK i \in 1 .. Len(p) : e \in Range(p[i])
        BY <2>3, <3>2
      <4>2. i \in DOMAIN Append(p, x) /\ Append(p, x)[i] = p[i]
        BY <2>2, <2>3
      <4>3. QED BY <4>1, <4>2
    <3>3. ASSUME e \in Range(x) PROVE In(Append(p, x))
      <4>1. Len(p) + 1 \in DOMAIN Append(p, x)
        BY <2>3
      <4>2. QED BY <2>3, <3>3, <4>1
    <3>4. QED BY <3>1, <3>2, <3>3
  <2>5. e \in Range(x \o InsertAll(p)) <=> e \in Range(x) \/ e \in Range(InsertAll(p))
    <3>1. InsertAll(p) \in Seq(E)
      BY InsertAllType
    <3>2. QED BY <3>1, RangeConcatenation
  <2>. HIDE DEF In
  <2>6. QED BY <1>2, <2>1, <2>3, <2>4, <2>5
<1>. HIDE DEF T
<1>3. Seq(Seq(E)) \subseteq T
  BY <1>1, <1>2, SeqInduction
<1>4. QED BY <1>3 DEF T

\* The same for FlattenSeq.
LEMMA FlattenType ==
    ASSUME NEW E, NEW pieces \in Seq(Seq(E))
    PROVE  FlattenSeq(pieces) \in Seq(E)
<1>. DEFINE T == {p \in Seq(Seq(E)) : FlattenSeq(p) \in Seq(E)}
<1>1. << >> \in T
  <2>1. << >> \in Seq(Seq(E)) /\ << >> \in Seq(E)
    OBVIOUS
  <2>2. QED BY <2>1, FlattenEmpty
<1>2. ASSUME NEW p \in Seq(Seq(E)), NEW x \in Seq(E), p \in T PROVE Append(p, x) \in T
  <2>1. FlattenSeq(Append(p, x)) = FlattenSeq(p) \o x
    BY FlattenAppend
  <2>2. Append(p, x) \in Seq(Seq(E)) /\ FlattenSeq(p) \o x \in Seq(E)
    BY <1>2
  <2>3. QED BY <2>1, <2>2
<1>. HIDE DEF T
<1>3. Seq(Seq(E)) \subseteq T
  BY <1>1, <1>2, SeqInduction
<1>4. QED BY <1>3 DEF T

\* f of each element of a list.
Each(f, list) == [k \in DOMAIN list |-> f[list[k]]]

\* f takes E to F.
Maps(f, E, F) == \A e \in E : f[e] \in F

\* Each keeps the length and works element by element.
LEMMA EachType ==
    ASSUME NEW E, NEW F, NEW f, Maps(f, E, F)
    PROVE  \A list \in Seq(E) :
             /\ Each(f, list) \in Seq(F)
             /\ Len(Each(f, list)) = Len(list)
             /\ \A k \in 1 .. Len(list) : Each(f, list)[k] = f[list[k]]
<1>1. TAKE list \in Seq(E)
<1>2. DOMAIN list = 1 .. Len(list) /\ Len(list) \in Nat /\ \A k \in 1 .. Len(list) : list[k] \in E
  OBVIOUS
<1>3. Each(f, list) = [k \in 1 .. Len(list) |-> f[list[k]]]
  BY <1>2 DEF Each
<1>4. QED BY <1>2, <1>3 DEF Maps

\* Each of two lists in turn.
LEMMA EachConcat ==
    ASSUME NEW E, NEW F, NEW f, Maps(f, E, F)
    PROVE  \A a, b \in Seq(E) : Each(f, a \o b) = Each(f, a) \o Each(f, b)
<1>0. TAKE a, b \in Seq(E)
<1>. DEFINE whole == Each(f, a \o b)
            fa == Each(f, a)
            fb == Each(f, b)
<1>1. /\ a \o b \in Seq(E) /\ DOMAIN (a \o b) = 1 .. Len(a) + Len(b)
      /\ \A k \in 1 .. Len(a) : (a \o b)[k] = a[k]
      /\ \A k \in 1 .. Len(a) + Len(b) : k \notin 1 .. Len(a) => (a \o b)[k] = b[k - Len(a)]
      /\ Len(a) \in Nat /\ Len(b) \in Nat /\ Len(a \o b) = Len(a) + Len(b)
  OBVIOUS
<1>2. /\ fa \in Seq(F) /\ Len(fa) = Len(a) /\ \A k \in 1 .. Len(a) : fa[k] = f[a[k]]
      /\ fb \in Seq(F) /\ Len(fb) = Len(b) /\ \A k \in 1 .. Len(b) : fb[k] = f[b[k]]
  BY EachType
<1>3. whole \in Seq(F) /\ Len(whole) = Len(a) + Len(b)
      /\ \A k \in 1 .. Len(a) + Len(b) : whole[k] = f[(a \o b)[k]]
  <2>1. \A s \in Seq(E) : Each(f, s) \in Seq(F) /\ Len(Each(f, s)) = Len(s)
          /\ \A k \in 1 .. Len(s) : Each(f, s)[k] = f[s[k]]
    BY EachType
  <2>2. QED BY <1>1, <2>1
<1>. HIDE DEF whole, fa, fb
<1>. DEFINE r == fa \o fb
<1>4. /\ r \in Seq(F) /\ Len(r) = Len(a) + Len(b)
      /\ \A k \in 1 .. Len(a) : r[k] = fa[k]
      /\ \A k \in 1 .. Len(a) + Len(b) : k \notin 1 .. Len(a) => r[k] = fb[k - Len(a)]
  <2>1. Len(fa) \in Nat /\ Len(fb) \in Nat /\ fa \in Seq(F) /\ fb \in Seq(F)
        /\ Len(fa) = Len(a) /\ Len(fb) = Len(b)
    BY <1>1, <1>2
  <2>2. \A k \in 1 .. Len(fa) + Len(fb) : r[k] = IF k <= Len(fa) THEN fa[k] ELSE fb[k - Len(fa)]
    BY <2>1
  <2>3. r \in Seq(F) /\ Len(r) = Len(fa) + Len(fb)
    <3>1. \A s, t \in Seq(F) : s \o t \in Seq(F) /\ Len(s \o t) = Len(s) + Len(t)
      OBVIOUS
    <3>2. QED BY <2>1, <3>1
  <2>. HIDE DEF r
  <2>4. QED BY <2>1, <2>2, <2>3
<1>. HIDE DEF r
<1>5. ASSUME NEW k \in 1 .. Len(a) + Len(b)
      PROVE  whole[k] = r[k]
  <2>1. CASE k \in 1 .. Len(a)
    <3>1. (a \o b)[k] = a[k] /\ fa[k] = f[a[k]] /\ r[k] = fa[k]
      BY <1>1, <1>2, <1>4, <2>1
    <3>2. QED BY <1>3, <3>1
  <2>2. CASE k \notin 1 .. Len(a)
    <3>1. k - Len(a) \in 1 .. Len(b)
      BY <1>1, <2>2
    <3>2. fb[k - Len(a)] = f[b[k - Len(a)]]
      BY <1>2, <3>1
    <3>3. QED BY <1>1, <1>3, <1>4, <2>2, <3>2
  <2>3. QED BY <2>1, <2>2
<1>6. whole \in Seq(F) /\ r \in Seq(F) /\ Len(whole) = Len(r)
      /\ \A k \in 1 .. Len(whole) : whole[k] = r[k]
  BY <1>3, <1>4, <1>5
<1>7. whole = r
  BY <1>6
<1>8. QED BY <1>7 DEF whole, fa, fb, r

\* A list made by inserting at the head and taken apart by inserting at the
\* head is in the order of its pieces (net.c:397-474 with 150-173 or 313-361).
LEMMA InsertedTwice ==
    ASSUME NEW E, NEW F, NEW f, Maps(f, E, Seq(F)), NEW pieces \in Seq(Seq(E))
    PROVE  InsertAll(Each(f, InsertAll(pieces)))
             = FlattenSeq([i \in DOMAIN pieces |-> InsertAll(Each(f, pieces[i]))])
<1>. DEFINE Once(p) == [i \in DOMAIN p |-> InsertAll(Each(f, p[i]))]
            T == {p \in Seq(Seq(E)) : InsertAll(Each(f, InsertAll(p))) = FlattenSeq(Once(p))}
<1>1. << >> \in T
  <2>1. Each(f, << >>) = << >> /\ Once(<< >>) = << >> /\ << >> \in Seq(Seq(E))
    BY DEF Each
  <2>2. QED BY <2>1, InsertAllEmpty, FlattenEmpty
<1>2. ASSUME NEW p \in Seq(Seq(E)), NEW x \in Seq(E), p \in T PROVE Append(p, x) \in T
  <2>. DEFINE l == InsertAll(p)
              y == InsertAll(Each(f, x))
  <2>1. l \in Seq(E) /\ Each(f, l) \in Seq(Seq(F)) /\ Each(f, x) \in Seq(Seq(F))
    BY InsertAllType, EachType
  <2>2. InsertAll(Append(p, x)) = x \o l
    BY InsertAllAppend
  <2>3. Each(f, x \o l) = Each(f, x) \o Each(f, l)
    BY <2>1, EachConcat
  <2>4. InsertAll(Each(f, x) \o Each(f, l)) = InsertAll(Each(f, l)) \o y
    BY <2>1, InsertAllConcat
  <2>5. y \in Seq(F) /\ Once(p) \in Seq(Seq(F))
    <3>1. \A i \in DOMAIN p : InsertAll(Each(f, p[i])) \in Seq(F)
      <4>1. TAKE i \in DOMAIN p
      <4>2. p[i] \in Seq(E)
        OBVIOUS
      <4>3. Each(f, p[i]) \in Seq(Seq(F))
        BY <4>2, EachType
      <4>4. QED BY <4>3, InsertAllType
    <3>2. y \in Seq(F)
      BY <2>1, InsertAllType
    <3>3. DOMAIN p = 1 .. Len(p) /\ Len(p) \in Nat
      OBVIOUS
    <3>4. QED BY <3>1, <3>2, <3>3
  <2>6. Once(Append(p, x)) = Append(Once(p), y)
    <3>1. DOMAIN Append(p, x) = 1 .. Len(p) + 1 /\ Append(p, x)[Len(p) + 1] = x
          /\ \A i \in 1 .. Len(p) : Append(p, x)[i] = p[i]
      OBVIOUS
    <3>2. Len(Once(p)) = Len(p) /\ DOMAIN p = 1 .. Len(p) /\ Len(p) \in Nat
      BY <2>5
    <3>. HIDE DEF y, l
    <3>3. Append(Once(p), y) = [i \in 1 .. Len(p) + 1 |->
                                 IF i = Len(p) + 1 THEN y ELSE Once(p)[i]]
      BY <3>2
    <3>4. Once(Append(p, x)) = [i \in 1 .. Len(p) + 1 |->
                                 IF i = Len(p) + 1 THEN y ELSE Once(p)[i]]
      BY <3>1, <3>2 DEF y
    <3>5. QED BY <3>3, <3>4
  <2>7. FlattenSeq(Append(Once(p), y)) = FlattenSeq(Once(p)) \o y
    BY <2>5, FlattenAppend
  <2>8. InsertAll(Each(f, l)) = FlattenSeq(Once(p))
    BY <1>2
  <2>9. Append(p, x) \in Seq(Seq(E))
    OBVIOUS
  <2>. HIDE DEF Once, y, l
  <2>10. InsertAll(Each(f, InsertAll(Append(p, x)))) = FlattenSeq(Once(Append(p, x)))
    BY <2>2, <2>3, <2>4, <2>6, <2>7, <2>8
  <2>11. QED BY <2>9, <2>10
<1>. HIDE DEF T
<1>3. Seq(Seq(E)) \subseteq T
  BY <1>1, <1>2, SeqInduction
<1>4. QED BY <1>3 DEF T

\* Each commutes with FlattenSeq.
LEMMA FlattenEach ==
    ASSUME NEW E, NEW F, NEW f, Maps(f, E, F), NEW pieces \in Seq(Seq(E))
    PROVE  FlattenSeq([i \in DOMAIN pieces |-> Each(f, pieces[i])]) = Each(f, FlattenSeq(pieces))
<1>. DEFINE All(p) == [i \in DOMAIN p |-> Each(f, p[i])]
            T == {p \in Seq(Seq(E)) : FlattenSeq(All(p)) = Each(f, FlattenSeq(p))}
<1>1. << >> \in T
  <2>1. Each(f, << >>) = << >> /\ All(<< >>) = << >> /\ << >> \in Seq(Seq(E))
    BY DEF Each
  <2>2. QED BY <2>1, FlattenEmpty
<1>2. ASSUME NEW p \in Seq(Seq(E)), NEW x \in Seq(E), p \in T PROVE Append(p, x) \in T
  <2>. DEFINE y == Each(f, x)
  <2>1. y \in Seq(F) /\ All(p) \in Seq(Seq(F)) /\ FlattenSeq(p) \in Seq(E)
    <3>1. \A i \in DOMAIN p : Each(f, p[i]) \in Seq(F)
      <4>1. TAKE i \in DOMAIN p
      <4>2. p[i] \in Seq(E)
        OBVIOUS
      <4>3. QED BY <4>2, EachType
    <3>2. y \in Seq(F) /\ FlattenSeq(p) \in Seq(E)
      BY EachType, FlattenType
    <3>3. DOMAIN p = 1 .. Len(p) /\ Len(p) \in Nat
      OBVIOUS
    <3>4. QED BY <3>1, <3>2, <3>3
  <2>2. All(Append(p, x)) = Append(All(p), y)
    <3>1. DOMAIN Append(p, x) = 1 .. Len(p) + 1 /\ Append(p, x)[Len(p) + 1] = x
          /\ \A i \in 1 .. Len(p) : Append(p, x)[i] = p[i]
      OBVIOUS
    <3>2. Len(All(p)) = Len(p) /\ DOMAIN p = 1 .. Len(p) /\ Len(p) \in Nat
      BY <2>1
    <3>. HIDE DEF y
    <3>3. Append(All(p), y) = [i \in 1 .. Len(p) + 1 |->
                                 IF i = Len(p) + 1 THEN y ELSE All(p)[i]]
      BY <3>2
    <3>4. All(Append(p, x)) = [i \in 1 .. Len(p) + 1 |->
                                 IF i = Len(p) + 1 THEN y ELSE All(p)[i]]
      BY <3>1, <3>2 DEF y
    <3>5. QED BY <3>3, <3>4
  <2>3. FlattenSeq(Append(All(p), y)) = FlattenSeq(All(p)) \o y
    BY <2>1, FlattenAppend
  <2>4. FlattenSeq(Append(p, x)) = FlattenSeq(p) \o x
    BY FlattenAppend
  <2>5. Each(f, FlattenSeq(p) \o x) = Each(f, FlattenSeq(p)) \o y
    BY <2>1, EachConcat
  <2>6. FlattenSeq(All(p)) = Each(f, FlattenSeq(p)) /\ Append(p, x) \in Seq(Seq(E))
    BY <1>2
  <2>. HIDE DEF All, y
  <2>7. QED BY <2>2, <2>3, <2>4, <2>5, <2>6
<1>. HIDE DEF T
<1>3. Seq(Seq(E)) \subseteq T
  BY <1>1, <1>2, SeqInduction
<1>4. QED BY <1>3 DEF T

\* Choosing elements of a sequence adds none.
LEMMA ChosenType ==
    ASSUME NEW E, NEW s \in Seq(E), NEW T
    PROVE  Chosen(s, T) \in Seq(E \cap T)
<1>. DEFINE pieces == [k \in DOMAIN s |-> IF s[k] \in T THEN <<s[k]>> ELSE << >>]
<1>1. \A k \in DOMAIN s : s[k] \in E
  OBVIOUS
<1>2. \A k \in DOMAIN s :
        (IF s[k] \in T THEN <<s[k]>> ELSE << >>) \in Seq(E \cap T)
  <2>1. \A S : << >> \in Seq(S) /\ \A x \in S : <<x>> \in Seq(S)
    OBVIOUS
  <2>2. \A k \in DOMAIN s : s[k] \in T => s[k] \in E \cap T
    BY <1>1
  <2>3. QED BY <2>1, <2>2
<1>3. DOMAIN s = 1 .. Len(s) /\ Len(s) \in Nat
  OBVIOUS
<1>4. pieces \in Seq(Seq(E \cap T))
  BY <1>2, <1>3
<1>. HIDE DEF pieces
<1>5. FlattenSeq(pieces) \in Seq(E \cap T)
  BY <1>4, FlattenType
<1>6. QED BY <1>5 DEF Chosen, pieces

-----------------------------------------------------------------------------
(* What a function makes of each element of a list, end to end.            *)

\* The pieces of two lists in turn.
LEMMA FlattenConcat ==
    ASSUME NEW E, NEW p \in Seq(Seq(E)), NEW q \in Seq(Seq(E))
    PROVE  FlattenSeq(p \o q) = FlattenSeq(p) \o FlattenSeq(q)
<1>. DEFINE T == {r \in Seq(Seq(E)) : FlattenSeq(p \o r) = FlattenSeq(p) \o FlattenSeq(r)}
<1>1. << >> \in T
  <2>1. FlattenSeq(p) \in Seq(E) /\ p \o << >> = p /\ << >> \in Seq(Seq(E))
    BY FlattenType
  <2>2. FlattenSeq(p) \o << >> = FlattenSeq(p)
    BY <2>1
  <2>3. QED BY <2>1, <2>2, FlattenEmpty
<1>2. ASSUME NEW r \in Seq(Seq(E)), NEW x \in Seq(E), r \in T PROVE Append(r, x) \in T
  <2>1. Append(r, x) \in Seq(Seq(E)) /\ p \o r \in Seq(Seq(E))
          /\ p \o Append(r, x) = Append(p \o r, x)
    OBVIOUS
  <2>2. FlattenSeq(Append(p \o r, x)) = FlattenSeq(p \o r) \o x
          /\ FlattenSeq(Append(r, x)) = FlattenSeq(r) \o x
    BY <2>1, FlattenAppend
  <2>3. (FlattenSeq(p) \o FlattenSeq(r)) \o x = FlattenSeq(p) \o (FlattenSeq(r) \o x)
    <3>. DEFINE a == FlattenSeq(p)
                b == FlattenSeq(r)
    <3>1. a \in Seq(E) /\ b \in Seq(E)
      BY FlattenType
    <3>. HIDE DEF a, b
    <3>2. (a \o b) \o x = a \o (b \o x)
      BY <3>1, ConcatAssociates
    <3>3. QED BY <3>2 DEF a, b
  <2>4. QED BY <1>2, <2>1, <2>2, <2>3
<1>. HIDE DEF T
<1>3. Seq(Seq(E)) \subseteq T
  BY <1>1, <1>2, SeqInduction
<1>4. QED BY <1>3 DEF T

\* What f makes of each element of q, end to end.
Packets(f, q) == FlattenSeq(Each(f, q))

\* Element by element.
InTurn(f, E, F) ==
    /\ Packets(f, << >>) = << >>
    /\ \A a \in Seq(E) : Packets(f, a) \in Seq(F)
    /\ \A e \in E : Packets(f, <<e>>) = f[e]
    /\ \A a, b \in Seq(E) : Packets(f, a \o b) = Packets(f, a) \o Packets(f, b)

LEMMA PacketsParts ==
    ASSUME NEW E, NEW F, NEW f, Maps(f, E, Seq(F))
    PROVE  InTurn(f, E, F)
<1>1. \A a \in Seq(E) : Each(f, a) \in Seq(Seq(F)) /\ Len(Each(f, a)) = Len(a)
                          /\ \A k \in 1 .. Len(a) : Each(f, a)[k] = f[a[k]]
  BY EachType
<1>2. Packets(f, << >>) = << >>
  <2>1. << >> \in Seq(E)
    OBVIOUS
  <2>2. Each(f, << >>) = << >>
    BY <1>1, <2>1, EmptySeq
  <2>3. QED BY <2>2, FlattenEmpty DEF Packets
<1>3. \A a \in Seq(E) : Packets(f, a) \in Seq(F)
  BY <1>1, FlattenType DEF Packets
<1>4. ASSUME NEW e \in E PROVE Packets(f, <<e>>) = f[e]
  <2>1. PICK l \in Seq(E) : l = <<e>> /\ Len(l) = 1 /\ l[1] = e
    <3>1. <<e>> \in Seq(E) /\ Len(<<e>>) = 1 /\ <<e>>[1] = e
      OBVIOUS
    <3>2. QED BY <3>1
  <2>2. PICK x : x = Each(f, l)
    OBVIOUS
  <2>3. x \in Seq(Seq(F)) /\ Len(x) = 1 /\ x[1] = f[e]
    <3>1. /\ Each(f, l) \in Seq(Seq(F)) /\ Len(Each(f, l)) = Len(l)
          /\ \A k \in 1 .. Len(l) : Each(f, l)[k] = f[l[k]]
      BY <1>1
    <3>2. 1 \in 1 .. Len(l)
      BY <2>1
    <3>3. QED BY <2>1, <2>2, <3>1, <3>2
  <2>4. PICK y : y = f[e]
    OBVIOUS
  <2>5. y \in Seq(F)
    BY <2>4 DEF Maps
  <2>6. x = Append(<< >>, y)
    <3>1. Append(<< >>, y) \in Seq(Seq(F)) /\ Len(Append(<< >>, y)) = 1 /\ Append(<< >>, y)[1] = y
      BY <2>5
    <3>2. QED BY <2>3, <2>4, <3>1, SeqEqual
  <2>7. << >> \in Seq(Seq(F))
    OBVIOUS
  <2>8. FlattenSeq(Append(<< >>, y)) = FlattenSeq(<< >>) \o y
    BY <2>5, <2>7, FlattenAppend
  <2>9. << >> \o y = y
    BY <2>5
  <2>10. QED BY <2>1, <2>2, <2>4, <2>6, <2>8, <2>9, FlattenEmpty DEF Packets
<1>5. ASSUME NEW a \in Seq(E), NEW b \in Seq(E)
      PROVE  Packets(f, a \o b) = Packets(f, a) \o Packets(f, b)
  <2>1. Each(f, a \o b) = Each(f, a) \o Each(f, b)
    BY EachConcat
  <2>2. QED BY <1>1, <2>1, FlattenConcat DEF Packets
<1>6. QED BY <1>2, <1>3, <1>4, <1>5 DEF InTurn

\* Elements of which f makes nothing, and of which it makes what g says.
LEMMA PacketsNone ==
    ASSUME NEW E, NEW F, NEW f, Maps(f, E, Seq(F)),
           NEW D, D \subseteq E, \A e \in D : f[e] = << >>
    PROVE  \A q \in Seq(D) : Packets(f, q) = << >>
<1>. DEFINE T == {q \in Seq(D) : Packets(f, q) = << >>}
<1>1. /\ Packets(f, << >>) = << >>
      /\ \A e \in E : Packets(f, <<e>>) = f[e]
      /\ \A a, b \in Seq(E) : Packets(f, a \o b) = Packets(f, a) \o Packets(f, b)
  BY PacketsParts DEF InTurn
<1>2. << >> \in T
  BY <1>1
<1>3. ASSUME NEW q \in Seq(D), NEW e \in D, q \in T PROVE Append(q, e) \in T
  <2>1. Append(q, e) \in Seq(D) /\ Append(q, e) = q \o <<e>> /\ <<e>> \in Seq(D)
    OBVIOUS
  <2>2. q \in Seq(E) /\ <<e>> \in Seq(E) /\ e \in E
    BY <2>1, SeqMonotonic
  <2>3. Packets(f, q \o <<e>>) = << >> \o << >>
    <3>1. Packets(f, q \o <<e>>) = Packets(f, q) \o Packets(f, <<e>>)
      BY <1>1, <2>2
    <3>2. Packets(f, <<e>>) = << >>
      BY <1>1, <2>2
    <3>3. Packets(f, q) = << >>
      BY <1>3
    <3>4. QED BY <3>1, <3>2, <3>3
  <2>4. << >> \o << >> = << >>
    OBVIOUS
  <2>5. QED BY <2>1, <2>3, <2>4
<1>. HIDE DEF T
<1>4. Seq(D) \subseteq T
  BY <1>2, <1>3, SeqInduction
<1>5. QED BY <1>4 DEF T

-----------------------------------------------------------------------------
(* Lists of one element each, and a choice from a list made of a list.     *)

Singles(s) == [k \in DOMAIN s |-> <<s[k]>>]

\* What is put at the head one by one is in reverse.
LEMMA InsertAllSingles ==
    ASSUME NEW E
    PROVE  \A s \in Seq(E) :
             /\ InsertAll(Singles(s)) \in Seq(E) /\ Len(InsertAll(Singles(s))) = Len(s)
             /\ \A k \in 1 .. Len(s) : InsertAll(Singles(s))[k] = s[Len(s) + 1 - k]
<1>. DEFINE OK(s, l) == /\ l \in Seq(E) /\ Len(l) = Len(s)
                        /\ \A k \in 1 .. Len(s) : l[k] = s[Len(s) + 1 - k]
            T == {s \in Seq(E) : OK(s, InsertAll(Singles(s)))}
<1>1. << >> \in T
  <2>1. Singles(<< >>) = << >>
    BY DEF Singles
  <2>2. OK(<< >>, << >>)
    OBVIOUS
  <2>3. QED BY <2>1, <2>2, InsertAllEmpty
<1>2. ASSUME NEW s \in Seq(E), NEW x \in E, s \in T PROVE Append(s, x) \in T
  <2>1. PICK l : l = InsertAll(Singles(s))
    OBVIOUS
  <2>2. OK(s, l)
    BY <1>2, <2>1
  <2>3. Singles(s) \in Seq(Seq(E)) /\ <<x>> \in Seq(E)
    <3>1. \A k \in 1 .. Len(s) : <<s[k]>> \in Seq(E)
      OBVIOUS
    <3>2. PICK n \in Nat : DOMAIN s = 1 .. n
      OBVIOUS
    <3>3. \A k \in 1 .. n : <<s[k]>> \in Seq(E)
      BY <3>1, <3>2
    <3>4. [k \in 1 .. n |-> <<s[k]>>] \in Seq(Seq(E))
      BY <3>3
    <3>5. QED BY <3>2, <3>4 DEF Singles
  <2>4. Singles(Append(s, x)) = Append(Singles(s), <<x>>)
    <3>. HIDE DEF T, OK
    <3>1. PICK t \in Seq(E) : t = Append(s, x)
      <4>1. Append(s, x) \in Seq(E)
        OBVIOUS
      <4>2. QED BY <4>1
    <3>2. /\ DOMAIN t = 1 .. Len(s) + 1 /\ t[Len(s) + 1] = x /\ DOMAIN s = 1 .. Len(s)
          /\ \A k \in 1 .. Len(s) : t[k] = s[k]
      BY <3>1
    <3>3. PICK a \in Seq(Seq(E)) : a = Singles(s)
      BY <2>3
    <3>4. Len(a) = Len(s) /\ \A k \in 1 .. Len(s) : a[k] = <<s[k]>>
      BY <3>2, <3>3 DEF Singles
    <3>5. PICK b \in Seq(Seq(E)) : b = Append(a, <<x>>)
      <4>1. Append(a, <<x>>) \in Seq(Seq(E))
        BY <2>3
      <4>2. QED BY <4>1
    <3>6. Len(b) = Len(s) + 1 /\ b[Len(s) + 1] = <<x>> /\ \A k \in 1 .. Len(s) : b[k] = <<s[k]>>
      BY <2>3, <3>4, <3>5
    <3>7. PICK c : c = Singles(t)
      OBVIOUS
    <3>8. c \in Seq(Seq(E)) /\ Len(c) = Len(s) + 1
          /\ \A k \in 1 .. Len(s) + 1 : c[k] = <<t[k]>>
      BY <3>2, <3>7 DEF Singles
    <3>9. ASSUME NEW k \in 1 .. Len(s) + 1 PROVE c[k] = b[k]
      <4>1. k = Len(s) + 1 \/ k \in 1 .. Len(s)
        OBVIOUS
      <4>2. QED BY <3>2, <3>6, <3>8, <4>1
    <3>10. c = b
      BY <3>6, <3>8, <3>9, SeqEqual
    <3>11. QED BY <3>1, <3>3, <3>5, <3>7, <3>10
  <2>5. InsertAll(Append(Singles(s), <<x>>)) = <<x>> \o l
    BY <2>1, <2>3, InsertAllAppend
  <2>6. OK(Append(s, x), <<x>> \o l)
    BY <2>2
  <2>7. Append(s, x) \in Seq(E)
    OBVIOUS
  <2>. HIDE DEF OK
  <2>8. QED BY <2>4, <2>5, <2>6, <2>7
<1>. HIDE DEF T
<1>3. Seq(E) \subseteq T
  BY <1>1, <1>2, SeqInduction
<1>4. QED BY <1>3 DEF T

\* Choosing and mapping may be done in either order.
LEMMA ChosenEach ==
    ASSUME NEW E, NEW F, NEW f, Maps(f, E, F), NEW s \in Seq(E), NEW T, NEW U,
           \A k \in DOMAIN s : f[s[k]] \in T <=> s[k] \in U
    PROVE  Chosen(Each(f, s), T) = Each(f, Chosen(s, U))
<1>. DEFINE p == [k \in DOMAIN s |-> IF s[k] \in U THEN <<s[k]>> ELSE << >>]
            q == [k \in DOMAIN s |-> IF f[s[k]] \in T THEN <<f[s[k]]>> ELSE << >>]
<1>1. DOMAIN s = 1 .. Len(s) /\ Len(s) \in Nat /\ \A k \in DOMAIN s : s[k] \in E
  OBVIOUS
<1>2. p \in Seq(Seq(E)) /\ DOMAIN p = DOMAIN s
  BY <1>1
<1>3. Chosen(s, U) = FlattenSeq(p)
  BY DEF Chosen
<1>4. Chosen(Each(f, s), T) = FlattenSeq(q)
  <2>1. DOMAIN Each(f, s) = DOMAIN s /\ \A k \in DOMAIN s : Each(f, s)[k] = f[s[k]]
    BY DEF Each
  <2>2. [k \in DOMAIN Each(f, s) |-> IF Each(f, s)[k] \in T THEN <<Each(f, s)[k]>> ELSE << >>] = q
    BY <2>1
  <2>3. QED BY <2>2 DEF Chosen
<1>5. [k \in DOMAIN p |-> Each(f, p[k])] = q
  <2>1. ASSUME NEW k \in DOMAIN s PROVE Each(f, p[k]) = q[k]
    <3>1. Each(f, << >>) = << >> /\ Each(f, <<s[k]>>) = <<f[s[k]]>>
      BY DEF Each
    <3>2. QED BY <3>1
  <2>2. QED BY <1>2, <2>1
<1>. HIDE DEF p, q
<1>6. FlattenSeq([k \in DOMAIN p |-> Each(f, p[k])]) = Each(f, FlattenSeq(p))
  BY <1>2, FlattenEach
<1>7. QED BY <1>3, <1>4, <1>5, <1>6
=============================================================================
