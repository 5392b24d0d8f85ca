-------------------------- MODULE JournalOpsProofs --------------------------
(***************************************************************************)
(* What the operations of the journal keep, for journals of any length:    *)
(* the stacks stay in the order of recording through every edit, undo,     *)
(* redo, rollback, supersede and hydration merge.                          *)
(*                                                                         *)
(* The filter of a stack is a recursive function; what it keeps is proved  *)
(* by the least index at which a claim about it would fail.                *)
(***************************************************************************)
EXTENDS JournalOps, SequenceTheorems, FiniteSetTheorems, WellFoundedInduction, TLAPS

\* A non-empty set of naturals has a least element: the induction the proofs use.
LEMMA LeastExists ==
  ASSUME NEW S \in SUBSET Nat, S # {}
  PROVE  \E m \in S : \A j \in S : m <= j
<1>1. PICK m \in S : \A j \in S : <<j, m>> \notin OpToRel(<, Nat)
  BY WFMin, NatLessThanWellFounded
<1>2. \A j \in S : ~(j < m)
  BY <1>1 DEF OpToRel
<1> QED BY <1>2

\* f holds what each step of the filter of s has kept.
IsKept(f, s, S, m) ==
  \A n \in 0..m : f[n] = IF n = 0 THEN <<>> ELSE IF s[n] \in S THEN Append(f[n - 1], s[n]) ELSE f[n - 1]

\* A function that does the steps of the filter exists ...
LEMMA KeptExists ==
  ASSUME NEW X, NEW s \in Seq(X), NEW S
  PROVE  \A m \in 0..Len(s) : \E f \in [0..m -> Seq(X)] : IsKept(f, s, S, m)
<1> DEFINE Good(n) == \E f \in [0..n -> Seq(X)] : IsKept(f, s, S, n)
           Bad == {n \in 0..Len(s) : ~Good(n)}
<1>1. Len(s) \in Nat
  OBVIOUS
<1>2. Good(0)
  <2> DEFINE f == [n \in 0..0 |-> <<>>]
  <2>1. f \in [0..0 -> Seq(X)] OBVIOUS
  <2>2. IsKept(f, s, S, 0) BY DEF IsKept
  <2>3. QED BY <2>1, <2>2
<1>3. ASSUME NEW n \in 0..Len(s), n > 0, Good(n - 1)
      PROVE  Good(n)
  <2>1. PICK g \in [0..(n - 1) -> Seq(X)] : IsKept(g, s, S, n - 1)
    BY <1>3
  <2> DEFINE f == [k \in 0..n |-> IF k < n THEN g[k] ELSE IF s[n] \in S THEN Append(g[n - 1], s[n]) ELSE g[n - 1]]
  <2>2. s[n] \in X
    BY <1>1, <1>3, ElementOfSeq
  <2>3. g[n - 1] \in Seq(X)
    BY <1>3, <1>1
  <2>4. f \in [0..n -> Seq(X)]
    BY <2>2, <2>3, <1>1
  <2>5. IsKept(f, s, S, n)
    <3>1. ASSUME NEW k \in 0..n
          PROVE  f[k] = IF k = 0 THEN <<>> ELSE IF s[k] \in S THEN Append(f[k - 1], s[k]) ELSE f[k - 1]
      <4>1. CASE k < n
        <5>1. k \in 0..(n - 1) /\ k - 1 < n /\ (k # 0 => k - 1 \in 0..(n - 1)) 
          BY <4>1, <1>3, <1>1
        <5>2. f[k] = g[k] /\ (k # 0 => f[k - 1] = g[k - 1])
          BY <5>1, <1>3, <1>1
        <5>3. QED BY <5>1, <5>2, <2>1 DEF IsKept
      <4>2. CASE k = n
        <5>1. n - 1 \in 0..n /\ n - 1 < n /\ n # 0
          BY <1>3, <1>1
        <5>2. f[n - 1] = g[n - 1]
          BY <5>1
        <5>3. QED BY <4>2, <5>1, <5>2
      <4>3. QED BY <4>1, <4>2, <1>1
    <3> HIDE DEF f
    <3>2. QED BY <3>1 DEF IsKept
  <2>6. QED BY <2>4, <2>5
<1>4. ASSUME Bad # {} PROVE FALSE
  <2> HIDE DEF Good
  <2>1. Bad \in SUBSET Nat
    BY <1>1
  <2> HIDE DEF Bad
  <2>2. PICK n \in Bad : \A k \in Bad : n <= k
    BY <1>4, <2>1, LeastExists
  <2>3. n \in 0..Len(s) /\ ~Good(n)
    BY DEF Bad
  <2>4. n # 0
    BY <2>3, <1>2
  <2>5. n - 1 \in 0..Len(s) /\ ~(n <= n - 1)
    BY <2>3, <2>4, <1>1
  <2>6. Good(n - 1)
    BY <2>2, <2>5 DEF Bad
  <2>7. QED BY <1>3, <2>3, <2>4, <2>6, <1>1
<1>5. QED BY <1>4

\* ... so that the recursive definition is one.
LEMMA KeptUpToIsKept ==
  ASSUME NEW X, NEW s \in Seq(X), NEW S
  PROVE  IsKept(KeptUpTo(s, S), s, S, Len(s))
<1> DEFINE R(f) == [n \in 0..Len(s) |-> IF n = 0 THEN <<>> ELSE IF s[n] \in S THEN Append(f[n - 1], s[n]) ELSE f[n - 1]]
<1>1. Len(s) \in 0..Len(s)
  OBVIOUS
<1>2. PICK g \in [0..Len(s) -> Seq(X)] : IsKept(g, s, S, Len(s))
  BY <1>1, KeptExists
<1>3. g = R(g)
  BY <1>2 DEF IsKept
<1>4. KeptUpTo(s, S) = CHOOSE f : f = R(f)
  BY DEF KeptUpTo
<1> DEFINE f == KeptUpTo(s, S)
<1>5. f = R(f)
  BY <1>3, <1>4
<1> HIDE DEF f
<1>6. \A n \in 0..Len(s) : f[n] = R(f)[n]
  BY <1>5
<1>7. QED BY <1>6 DEF IsKept, f

\* What n steps of the filter have kept.
KeptSoFar(r, s, S, X, n) ==
  /\ r \in Seq(X)
  /\ \A i \in 1..Len(r) : r[i] \in S /\ \E p \in 1..n : s[p] = r[i]
  /\ \A p \in 1..n : s[p] \in S => \E i \in 1..Len(r) : r[i] = s[p]
  /\ \A i, k \in 1..Len(r) : i < k => \E p, q \in 1..n : p < q /\ s[p] = r[i] /\ s[q] = r[k]

\* A step of the filter keeps the elements of S and their order.
LEMMA KeptStep ==
  ASSUME NEW X, NEW s \in Seq(X), NEW S, NEW n \in 1..Len(s), NEW r, KeptSoFar(r, s, S, X, n - 1)
  PROVE  /\ s[n] \in S => KeptSoFar(Append(r, s[n]), s, S, X, n)
         /\ s[n] \notin S => KeptSoFar(r, s, S, X, n)
<1>1. Len(s) \in Nat /\ s[n] \in X /\ n \in Nat
  BY ElementOfSeq
<1>2. \A p : p \in 1..n <=> p \in 1..(n - 1) \/ p = n
  BY <1>1
<1>3. CASE s[n] \in S
  <2> DEFINE t == Append(r, s[n])
  <2>1. r \in Seq(X)
    BY DEF KeptSoFar
  <2>2. /\ t \in Seq(X)
        /\ Len(t) = Len(r) + 1 /\ Len(r) \in Nat
        /\ \A i \in 1..Len(r) : t[i] = r[i]
        /\ t[Len(r) + 1] = s[n]
    BY <2>1, <1>1
  <2> HIDE DEF t
  <2>3. ASSUME NEW i \in 1..Len(t) PROVE t[i] \in S /\ \E p \in 1..n : s[p] = t[i]
    <3>1. CASE i \in 1..Len(r)
      <4>1. r[i] \in S /\ \E p \in 1..(n - 1) : s[p] = r[i]
        BY <3>1 DEF KeptSoFar
      <4>2. QED BY <4>1, <3>1, <2>2, <1>2
    <3>2. CASE i = Len(r) + 1
      BY <3>2, <2>2, <1>2, <1>3
    <3>3. QED BY <3>1, <3>2, <2>2
  <2>4. \A p \in 1..n : s[p] \in S => \E i \in 1..Len(t) : t[i] = s[p]
    <3> SUFFICES ASSUME NEW p \in 1..n, s[p] \in S PROVE \E i \in 1..Len(t) : t[i] = s[p]
      OBVIOUS
    <3>1. CASE p \in 1..(n - 1)
      <4>1. PICK i \in 1..Len(r) : r[i] = s[p]
        BY <3>1 DEF KeptSoFar
      <4>2. i \in 1..Len(t) /\ t[i] = s[p]
        BY <4>1, <2>2
      <4>3. QED BY <4>2
    <3>2. CASE p = n
      BY <3>2, <2>2
    <3>3. QED BY <3>1, <3>2, <1>2
  <2>5. ASSUME NEW i \in 1..Len(t), NEW k \in 1..Len(t), i < k
        PROVE  \E p, q \in 1..n : p < q /\ s[p] = t[i] /\ s[q] = t[k]
    <3>1. CASE k \in 1..Len(r)
      <4>1. i \in 1..Len(r)
        BY <3>1, <2>5, <2>2
      <4>2. PICK p \in 1..(n - 1), q \in 1..(n - 1) : p < q /\ s[p] = r[i] /\ s[q] = r[k]
        BY <3>1, <4>1, <2>5 DEF KeptSoFar
      <4>3. QED BY <4>1, <4>2, <3>1, <2>2, <1>2
    <3>2. CASE k = Len(r) + 1
      <4>1. i \in 1..Len(r)
        BY <3>2, <2>5, <2>2
      <4>2. PICK p \in 1..(n - 1) : s[p] = r[i]
        BY <4>1 DEF KeptSoFar
      <4>3. p < n /\ p \in 1..n /\ n \in 1..n
        BY <4>2, <1>1
      <4>4. QED BY <4>1, <4>2, <4>3, <3>2, <2>2
    <3>3. QED BY <3>1, <3>2, <2>2
  <2>6. KeptSoFar(t, s, S, X, n)
    BY <2>2, <2>3, <2>4, <2>5 DEF KeptSoFar
  <2>7. QED BY <2>6, <1>3 DEF t
<1>4. CASE s[n] \notin S
  <2>1. \A i \in 1..Len(r) : r[i] \in S /\ \E p \in 1..n : s[p] = r[i]
    BY <1>2 DEF KeptSoFar
  <2>2. \A p \in 1..n : s[p] \in S => \E i \in 1..Len(r) : r[i] = s[p]
    BY <1>2, <1>4 DEF KeptSoFar
  <2>3. \A i, k \in 1..Len(r) : i < k => \E p, q \in 1..n : p < q /\ s[p] = r[i] /\ s[q] = r[k]
    BY <1>2 DEF KeptSoFar
  <2>4. QED BY <2>1, <2>2, <2>3, <1>4 DEF KeptSoFar
<1>5. QED BY <1>3, <1>4

\* The filter keeps what is in S, all of it, in its order.
LEMMA KeptProperties ==
  ASSUME NEW X, NEW s \in Seq(X), NEW S
  PROVE  KeptSoFar(Kept(s, S), s, S, X, Len(s))
<1> DEFINE f == KeptUpTo(s, S)
           Good(n) == KeptSoFar(f[n], s, S, X, n)
           Bad == {n \in 0..Len(s) : ~Good(n)}
<1>1. Len(s) \in Nat
  OBVIOUS
<1>2. IsKept(f, s, S, Len(s))
  BY KeptUpToIsKept
<1> HIDE DEF f
<1>3. Good(0)
  <2>1. f[0] = <<>>
    BY <1>1, <1>2 DEF IsKept
  <2>2. QED BY <2>1 DEF KeptSoFar
<1>4. ASSUME NEW n \in 1..Len(s), Good(n - 1) PROVE Good(n)
  <2>1. f[n] = IF s[n] \in S THEN Append(f[n - 1], s[n]) ELSE f[n - 1]
    BY <1>1, <1>2 DEF IsKept
  <2>2. QED BY <2>1, <1>4, KeptStep
<1>5. ASSUME Bad # {} PROVE FALSE
  <2> HIDE DEF Good
  <2>1. Bad \in SUBSET Nat
    BY <1>1
  <2> HIDE DEF Bad
  <2>2. PICK n \in Bad : \A k \in Bad : n <= k
    BY <1>5, <2>1, LeastExists
  <2>3. n \in 0..Len(s) /\ ~Good(n)
    BY DEF Bad
  <2>4. n \in 1..Len(s) /\ n - 1 \in 0..Len(s) /\ ~(n <= n - 1)
    BY <2>3, <1>3, <1>1
  <2>5. Good(n - 1)
    BY <2>2, <2>4 DEF Bad
  <2>6. QED BY <1>4, <2>3, <2>4, <2>5
<1>6. Good(Len(s))
  BY <1>1, <1>5
<1>7. QED BY <1>6 DEF f, Kept

------------------------------------------------------------------------------
(* Sequences whose elements differ, and the order of their elements.       *)

NoRepeat(s) == \A i, k \in 1..Len(s) : i < k => s[i] # s[k]

Holds(s, x) == \E p \in 1..Len(s) : s[p] = x

Before(s, x, y) == \E p, q \in 1..Len(s) : p < q /\ s[p] = x /\ s[q] = y

\* The elements of r lie in s in the order r has them.
Follows(r, s) == \A i, k \in 1..Len(r) : i < k => Before(s, r[i], r[k])

\* No element comes both before and after another in a sequence without repetition.
LEMMA BeforeIsStrict ==
  ASSUME NEW X, NEW s \in Seq(X), NoRepeat(s), NEW x, NEW y, Before(s, x, y)
  PROVE  x # y /\ ~Before(s, y, x)
<1>1. Len(s) \in Nat
  OBVIOUS
<1>2. PICK p \in 1..Len(s), q \in 1..Len(s) : p < q /\ s[p] = x /\ s[q] = y
  BY DEF Before
<1>3. x # y
  BY <1>2 DEF NoRepeat
<1>4. ASSUME Before(s, y, x) PROVE FALSE
  <2>1. PICK a \in 1..Len(s), b \in 1..Len(s) : a < b /\ s[a] = y /\ s[b] = x
    BY <1>4 DEF Before
  <2>2. a = q /\ b = p
    BY <1>1, <1>2, <2>1 DEF NoRepeat
  <2>3. QED BY <1>1, <1>2, <2>1, <2>2
<1>5. QED BY <1>3, <1>4

\* What comes before what in a concatenation.
LEMMA BeforeConcat ==
  ASSUME NEW X, NEW s \in Seq(X), NEW t \in Seq(X), NEW x, NEW y
  PROVE  /\ Before(s, x, y) => Before(s \o t, x, y)
         /\ Before(t, x, y) => Before(s \o t, x, y)
         /\ Holds(s, x) /\ Holds(t, y) => Before(s \o t, x, y)
         /\ Holds(s \o t, x) <=> Holds(s, x) \/ Holds(t, x)
<1> DEFINE u == s \o t
<1>1. Len(s) \in Nat /\ Len(t) \in Nat /\ Len(u) = Len(s) + Len(t)
  OBVIOUS
<1>2. \A i \in 1..Len(s) : i \in 1..Len(u) /\ u[i] = s[i]
  BY <1>1
<1>3. \A i \in 1..Len(t) : Len(s) + i \in 1..Len(u) /\ u[Len(s) + i] = t[i]
  BY <1>1
<1>4. \A i \in 1..Len(u) : i \in 1..Len(s) \/ (i - Len(s) \in 1..Len(t) /\ u[i] = t[i - Len(s)])
  BY <1>1
<1> HIDE DEF u
<1>5. Before(s, x, y) => Before(u, x, y)
  BY <1>2 DEF Before
<1>6. ASSUME Before(t, x, y) PROVE Before(u, x, y)
  <2>1. PICK p \in 1..Len(t), q \in 1..Len(t) : p < q /\ t[p] = x /\ t[q] = y
    BY <1>6 DEF Before
  <2>2. Len(s) + p < Len(s) + q
    BY <1>1, <2>1
  <2>3. QED BY <1>3, <2>1, <2>2 DEF Before
<1>7. ASSUME Holds(s, x), Holds(t, y) PROVE Before(u, x, y)
  <2>1. PICK p \in 1..Len(s), q \in 1..Len(t) : s[p] = x /\ t[q] = y
    BY <1>7 DEF Holds
  <2>2. p < Len(s) + q
    BY <1>1, <2>1
  <2>3. QED BY <1>2, <1>3, <2>1, <2>2 DEF Before
<1>8. Holds(u, x) <=> Holds(s, x) \/ Holds(t, x)
  <2>1. Holds(s, x) => Holds(u, x)
    BY <1>2 DEF Holds
  <2>2. Holds(t, x) => Holds(u, x)
    BY <1>3 DEF Holds
  <2>3. Holds(u, x) => Holds(s, x) \/ Holds(t, x)
    BY <1>2, <1>4 DEF Holds
  <2>4. QED BY <2>1, <2>2, <2>3
<1>9. QED BY <1>5, <1>6, <1>7, <1>8 DEF u

\* A concatenation holds what its parts hold.
LEMMA HoldsConcat ==
  ASSUME NEW X, NEW s \in Seq(X), NEW t \in Seq(X)
  PROVE  \A x : Holds(s \o t, x) <=> Holds(s, x) \/ Holds(t, x)
<1>1. ASSUME NEW x PROVE Holds(s \o t, x) <=> Holds(s, x) \/ Holds(t, x)
  BY BeforeConcat
<1>2. QED BY <1>1, Zenon

\* The filter keeps the elements of S, in the order of s.
LEMMA KeptFollows ==
  ASSUME NEW X, NEW s \in Seq(X), NEW S
  PROVE  /\ Kept(s, S) \in Seq(X)
         /\ \A x : Holds(Kept(s, S), x) <=> Holds(s, x) /\ x \in S
         /\ Follows(Kept(s, S), s)
         /\ \A i \in 1..Len(Kept(s, S)) : Kept(s, S)[i] \in S /\ Holds(s, Kept(s, S)[i])
<1> DEFINE r == Kept(s, S)
<1>1. KeptSoFar(r, s, S, X, Len(s))
  BY KeptProperties
<1> HIDE DEF r
<1>2. ASSUME NEW x PROVE Holds(r, x) <=> Holds(s, x) /\ x \in S
  <2>1. \A i \in 1..Len(r) : r[i] \in S /\ \E p \in 1..Len(s) : s[p] = r[i]
    BY <1>1 DEF KeptSoFar
  <2>2. \A p \in 1..Len(s) : s[p] \in S => \E i \in 1..Len(r) : r[i] = s[p]
    BY <1>1 DEF KeptSoFar
  <2>3. Holds(r, x) => Holds(s, x) /\ x \in S
    BY <2>1 DEF Holds
  <2>4. Holds(s, x) /\ x \in S => Holds(r, x)
    BY <2>2 DEF Holds
  <2>5. QED BY <2>3, <2>4
<1>3. Follows(r, s)
  BY <1>1 DEF KeptSoFar, Follows, Before
<1>4. \A i \in 1..Len(r) : r[i] \in S /\ Holds(s, r[i])
  BY <1>1 DEF KeptSoFar, Holds
<1>5. QED BY <1>1, <1>2, <1>3, <1>4 DEF KeptSoFar, r

\* Two elements the filter keeps keep their order.
LEMMA KeptBefore ==
  ASSUME NEW X, NEW s \in Seq(X), NoRepeat(s), NEW S, NEW x \in S, NEW y \in S, Before(s, x, y)
  PROVE  Before(Kept(s, S), x, y)
<1> DEFINE r == Kept(s, S)
<1>1. /\ r \in Seq(X)
      /\ \A z : Holds(r, z) <=> Holds(s, z) /\ z \in S
      /\ Follows(r, s)
  BY KeptFollows
<1> HIDE DEF r
<1>2. x # y /\ ~Before(s, y, x)
  BY BeforeIsStrict
<1>3. Holds(s, x) /\ Holds(s, y)
  BY DEF Before, Holds
<1>4. PICK i \in 1..Len(r), k \in 1..Len(r) : r[i] = x /\ r[k] = y
  BY <1>1, <1>3 DEF Holds
<1>5. i # k /\ ~(k < i)
  BY <1>1, <1>2, <1>4 DEF Follows
<1>6. i < k
  BY <1>1, <1>4, <1>5
<1>7. QED BY <1>4, <1>6 DEF Before, r

------------------------------------------------------------------------------
(* The order of the stacks, said of their positions.                       *)

\* The order s has no entry twice and holds both stacks; the undo stack u follows
\* it, the redo stack r runs against it and lies behind.
BothFollow(s, u, r) ==
  /\ NoRepeat(s)
  /\ \A i \in 1..Len(u) : Holds(s, u[i])
  /\ \A i \in 1..Len(r) : Holds(s, r[i])
  /\ Follows(u, s)
  /\ \A i, k \in 1..Len(r) : i < k => Before(s, r[k], r[i])
  /\ \A i \in 1..Len(u) : \A k \in 1..Len(r) : Before(s, u[i], r[k])

Laid(j) ==
  /\ \A o \in Ops : Recorded(j, o) <=> Holds(j.order, o)
  /\ BothFollow(j.order, j.undo, j.redo)

Typed(j) ==
  /\ j.order \in Seq(Ops)
  /\ j.status \in [Ops -> Status \cup {Absent}]
  /\ j.undo \in Seq(Ops)
  /\ j.redo \in Seq(Ops)

\* The places of a sequence followed by a reversed one.
LEMMA ConcatReverse ==
  ASSUME NEW X, NEW s \in Seq(X), NEW t \in Seq(X)
  PROVE  /\ s \o Reverse(t) \in Seq(X)
         /\ Len(s \o Reverse(t)) = Len(s) + Len(t)
         /\ \A i \in 1..Len(s) : (s \o Reverse(t))[i] = s[i]
         /\ \A i \in 1..Len(t) : (s \o Reverse(t))[Len(s) + i] = t[(Len(t) - i) + 1]
<1> DEFINE r == Reverse(t)
<1>1. Len(s) \in Nat /\ Len(t) \in Nat
  OBVIOUS
<1>2. r \in Seq(X) /\ Len(r) = Len(t) /\ \A i \in 1..Len(t) : r[i] = t[(Len(t) - i) + 1]
  BY <1>1 DEF Reverse
<1> HIDE DEF r
<1>3. PICK n \in Nat, m \in Nat : n = Len(s) /\ m = Len(t)
  BY <1>1
<1>4. /\ s \o r \in Seq(X) /\ Len(s \o r) = Len(s) + Len(r)
      /\ \A k \in 1..(Len(s) + Len(r)) : (s \o r)[k] = IF k <= Len(s) THEN s[k] ELSE r[k - Len(s)]
  <2>1. r \in Seq(X)
    BY <1>2
  <2>2. QED BY <2>1, ConcatProperties
<1> DEFINE c == s \o r
<1> HIDE DEF c
<1>5. /\ c \in Seq(X) /\ Len(c) = n + m
      /\ \A k \in 1..(n + m) : c[k] = IF k <= n THEN s[k] ELSE r[k - n]
  BY <1>2, <1>3, <1>4 DEF c
<1>6. ASSUME NEW i \in 1..n PROVE c[i] = s[i]
  <2>1. i \in 1..(n + m) /\ i <= n
    OBVIOUS
  <2>2. QED BY <2>1, <1>5
<1>7. ASSUME NEW i \in 1..m PROVE c[n + i] = t[(m - i) + 1]
  <2>1. n + i \in 1..(n + m) /\ ~(n + i <= n) /\ (n + i) - n = i
    OBVIOUS
  <2>2. c[n + i] = r[i]
    BY <2>1, <1>5
  <2>3. QED BY <2>2, <1>2, <1>3
<1>8. /\ c \in Seq(X) /\ Len(c) = Len(s) + Len(t)
      /\ \A i \in 1..Len(s) : c[i] = s[i]
      /\ \A i \in 1..Len(t) : c[Len(s) + i] = t[(Len(t) - i) + 1]
  BY <1>3, <1>5, <1>6, <1>7
<1>9. QED BY <1>8 DEF c, r

\* The undo stack and then the redo stack, nearest first.
LEMMA LineIs ==
  ASSUME NEW j, Typed(j)
  PROVE  /\ Line(j) \in Seq(Ops)
         /\ Len(Line(j)) = Len(j.undo) + Len(j.redo)
         /\ \A i \in 1..Len(j.undo) : Line(j)[i] = j.undo[i]
         /\ \A i \in 1..Len(j.redo) :
              Line(j)[Len(j.undo) + i] = j.redo[(Len(j.redo) - i) + 1]
<1> DEFINE u == j.undo
           r == j.redo
<1>1. u \in Seq(Ops) /\ r \in Seq(Ops)
  BY DEF Typed
<1> HIDE DEF u, r
<1>2. /\ u \o Reverse(r) \in Seq(Ops)
      /\ Len(u \o Reverse(r)) = Len(u) + Len(r)
      /\ \A i \in 1..Len(u) : (u \o Reverse(r))[i] = u[i]
      /\ \A i \in 1..Len(r) : (u \o Reverse(r))[Len(u) + i] = r[(Len(r) - i) + 1]
  BY <1>1, ConcatReverse
<1>3. QED BY <1>2, Zenon DEF Line, u, r

\* Any two places of the line hold entries in the order of recording.
LEMMA LineFollows ==
  ASSUME NEW j, Typed(j), Laid(j)
  PROVE  /\ Follows(Line(j), j.order)
         /\ \A i \in 1..Len(Line(j)) : Holds(j.order, Line(j)[i])
<1> DEFINE l == Line(j)
<1>1. PICK u \in Nat, r \in Nat : u = Len(j.undo) /\ r = Len(j.redo)
  BY DEF Typed
<1>2. /\ Len(l) = u + r
      /\ \A i \in 1..u : l[i] = j.undo[i]
      /\ \A i \in 1..r : l[u + i] = j.redo[(r - i) + 1]
  BY <1>1, LineIs
<1>3. /\ \A i \in 1..u : Holds(j.order, j.undo[i])
      /\ \A i \in 1..r : Holds(j.order, j.redo[i])
      /\ \A i, k \in 1..u : i < k => Before(j.order, j.undo[i], j.undo[k])
      /\ \A i, k \in 1..r : i < k => Before(j.order, j.redo[k], j.redo[i])
      /\ \A i \in 1..u : \A k \in 1..r : Before(j.order, j.undo[i], j.redo[k])
  BY <1>1 DEF Laid, BothFollow, Follows
<1> HIDE DEF l
<1>4. ASSUME NEW i \in 1..(u + r), i \notin 1..u
      PROVE  /\ i - u \in 1..r /\ u + (i - u) = i
             /\ (r - (i - u)) + 1 \in 1..r
             /\ l[i] = j.redo[(r - (i - u)) + 1]
  <2>1. i - u \in 1..r /\ u + (i - u) = i /\ (r - (i - u)) + 1 \in 1..r
    BY <1>4
  <2>2. QED BY <1>2, <2>1
<1>5. ASSUME NEW i \in 1..(u + r) PROVE Holds(j.order, l[i])
  <2>1. CASE i \in 1..u
    BY <2>1, <1>2, <1>3
  <2>2. CASE i \notin 1..u
    BY <2>2, <1>4, <1>3
  <2>3. QED BY <2>1, <2>2
<1>6. ASSUME NEW i \in 1..(u + r), NEW k \in 1..(u + r), i < k
      PROVE  Before(j.order, l[i], l[k])
  <2>1. CASE k \in 1..u
    <3>1. i \in 1..u
      BY <2>1, <1>6
    <3>2. QED BY <3>1, <2>1, <1>2, <1>3, <1>6
  <2>2. CASE k \notin 1..u /\ i \in 1..u
    BY <2>2, <1>2, <1>3, <1>4
  <2>3. CASE k \notin 1..u /\ i \notin 1..u
    <3>1. (r - (k - u)) + 1 < (r - (i - u)) + 1
      BY <1>6
    <3>2. QED BY <3>1, <2>3, <1>3, <1>4
  <2>4. QED BY <2>1, <2>2, <2>3
<1>7. QED BY <1>2, <1>5, <1>6 DEF Follows, l

\* An entry has one position.
LEMMA PositionIs ==
  ASSUME NEW j, Typed(j), NoRepeat(j.order), NEW p \in 1..Len(j.order)
  PROVE  Position(j, j.order[p]) = p
<1>1. DOMAIN j.order = 1..Len(j.order) /\ Len(j.order) \in Nat
  BY DEF Typed
<1>2. \A i \in DOMAIN j.order : j.order[i] = j.order[p] => i = p
  BY <1>1 DEF NoRepeat
<1>3. QED BY <1>1, <1>2 DEF Position

\* Laid journals are in the order of recording, and the stacks together hold no
\* more entries than the journal.
LEMMA LaidIsInOrder ==
  ASSUME NEW j, Typed(j), Laid(j)
  PROVE  StacksFollowRecordOrder(j) /\ JournalType(j)
<1> DEFINE l == Line(j)
           s == j.order
<1>1. /\ s \in Seq(Ops) /\ Len(s) \in Nat /\ DOMAIN s = 1..Len(s)
      /\ Len(j.undo) \in Nat /\ Len(j.redo) \in Nat
  BY DEF Typed
<1>2. /\ l \in Seq(Ops) /\ Len(l) \in Nat /\ DOMAIN l = 1..Len(l)
      /\ Len(l) = Len(j.undo) + Len(j.redo)
  <2>1. l \in Seq(Ops) /\ Len(l) = Len(j.undo) + Len(j.redo)
    BY LineIs
  <2> HIDE DEF l
  <2>2. QED BY <2>1, LenProperties
<1>3. /\ Follows(l, s)
      /\ \A i \in 1..Len(l) : Holds(s, l[i])
  BY LineFollows
<1>4. NoRepeat(s)
  BY DEF Laid, BothFollow
<1>5. \A p \in 1..Len(s) : Position(j, s[p]) = p
  BY <1>4, PositionIs
<1>6. \A o \in Ops : Recorded(j, o) <=> o \in ToSet(s)
  <2>1. \A o : o \in ToSet(s) <=> Holds(s, o)
    BY <1>1 DEF ToSet, Holds
  <2>2. QED BY <2>1 DEF Laid
<1> HIDE DEF l
<1>7. ToSet(l) \subseteq ToSet(s)
  BY <1>1, <1>2, <1>3 DEF ToSet, Holds
<1>8. ASSUME NEW i \in 1..Len(l), NEW k \in 1..Len(l), i < k
      PROVE  /\ Position(j, l[i]) \in 1..Len(s) /\ Position(j, l[k]) \in 1..Len(s)
             /\ Position(j, l[i]) < Position(j, l[k])
  <2>1. PICK p \in 1..Len(s), q \in 1..Len(s) : p < q /\ s[p] = l[i] /\ s[q] = l[k]
    BY <1>3, <1>8 DEF Follows, Before
  <2>2. QED BY <2>1, <1>5
<1>9. Len(l) <= Len(s)
  <2>1. PICK n \in Nat, m \in Nat : n = Len(l) /\ m = Len(s)
    BY <1>1, <1>2
  <2>2. ASSUME m < n PROVE FALSE
    <3> DEFINE f == [i \in 1..n |-> Position(j, l[i])]
    <3>1. \A i \in 1..n : Position(j, l[i]) \in 1..m
      BY <2>1, <1>3, <1>5 DEF Holds
    <3>2. f \in [1..n -> 1..m] /\ \A i \in 1..n : f[i] = Position(j, l[i])
      BY <3>1
    <3>3. /\ IsFiniteSet(1..n) /\ Cardinality(1..n) = n
          /\ IsFiniteSet(1..m) /\ Cardinality(1..m) = m
      <4>1. /\ IsFiniteSet(1..n) /\ Cardinality(1..n) = IF 1 > n THEN 0 ELSE n - 1 + 1
            /\ IsFiniteSet(1..m) /\ Cardinality(1..m) = IF 1 > m THEN 0 ELSE m - 1 + 1
        BY FS_Interval
      <4>2. QED BY <4>1
    <3> HIDE DEF f
    <3>4. PICK x \in 1..n, y \in 1..n : x # y /\ f[x] = f[y]
      BY <2>2, <3>2, <3>3, FS_PigeonHole
    <3>5. \A i, k \in 1..n : i < k => f[i] < f[k]
      BY <3>2, <2>1, <1>8
    <3>6. x < y \/ y < x
      BY <3>4
    <3>7. f[x] \in Nat /\ f[y] \in Nat
      BY <3>2
    <3>8. QED BY <3>4, <3>5, <3>6, <3>7
  <2>3. n <= m
    BY <2>2
  <2>4. QED BY <2>1, <2>3
<1>10. StacksFollowRecordOrder(j)
  BY <1>1, <1>2, <1>4, <1>6, <1>7, <1>8 DEF StacksFollowRecordOrder, NoRepeat, l
<1>11. QED BY <1>9, <1>10, <1>2 DEF JournalType, Typed

------------------------------------------------------------------------------
(* Each operation on the stacks keeps them in order.                       *)

\* An empty journal is in order.
LEMMA EmptyInOrder == BothFollow(<<>>, <<>>, <<>>)
  BY DEF BothFollow, NoRepeat, Follows

\* A new entry is last in the order and on the undo stack; nothing is redoable.
LEMMA AppendInOrder ==
  ASSUME NEW X, NEW s \in Seq(X), NEW u \in Seq(X), NEW r \in Seq(X),
         BothFollow(s, u, r), NEW o \in X, ~Holds(s, o)
  PROVE  BothFollow(Append(s, o), Append(u, o), <<>>)
<1> DEFINE t == Append(s, o)
           v == Append(u, o)
<1>1. /\ Len(s) \in Nat /\ Len(t) = Len(s) + 1 /\ t[Len(s) + 1] = o
      /\ \A i \in 1..Len(s) : t[i] = s[i]
  OBVIOUS
<1>2. /\ Len(u) \in Nat /\ Len(v) = Len(u) + 1 /\ v[Len(u) + 1] = o
      /\ \A i \in 1..Len(u) : v[i] = u[i]
  OBVIOUS
<1> HIDE DEF t, v
<1>3. /\ NoRepeat(s)
      /\ \A i \in 1..Len(u) : Holds(s, u[i])
      /\ \A i, k \in 1..Len(u) : i < k => Before(s, u[i], u[k])
  BY DEF BothFollow, Follows
<1>4. ASSUME NEW i \in 1..Len(t), NEW k \in 1..Len(t), i < k PROVE t[i] # t[k]
  <2>1. i \in 1..Len(s)
    BY <1>1, <1>4
  <2>2. CASE k \in 1..Len(s)
    BY <2>1, <2>2, <1>1, <1>3, <1>4 DEF NoRepeat
  <2>3. CASE k = Len(s) + 1
    BY <2>1, <2>3, <1>1 DEF Holds
  <2>4. QED BY <2>2, <2>3, <1>1
<1>5. \A x : Holds(s, x) => Holds(t, x)
  BY <1>1 DEF Holds
<1>6. Holds(t, o)
  BY <1>1 DEF Holds
<1>7. ASSUME NEW x, NEW y, Before(s, x, y) PROVE Before(t, x, y)
  BY <1>7, <1>1 DEF Before
<1>8. ASSUME NEW x, Holds(s, x) PROVE Before(t, x, o)
  <2>1. PICK p \in 1..Len(s) : s[p] = x
    BY <1>8 DEF Holds
  <2>2. p \in 1..Len(t) /\ Len(s) + 1 \in 1..Len(t) /\ p < Len(s) + 1 /\ t[p] = x
    BY <2>1, <1>1
  <2>3. QED BY <2>2, <1>1 DEF Before
<1>9. ASSUME NEW i \in 1..Len(v) PROVE Holds(t, v[i])
  <2>1. CASE i \in 1..Len(u)
    BY <2>1, <1>2, <1>3, <1>5
  <2>2. CASE i = Len(u) + 1
    BY <2>2, <1>2, <1>6
  <2>3. QED BY <2>1, <2>2, <1>2
<1>10. ASSUME NEW i \in 1..Len(v), NEW k \in 1..Len(v), i < k PROVE Before(t, v[i], v[k])
  <2>1. i \in 1..Len(u)
    BY <1>2, <1>10
  <2>2. CASE k \in 1..Len(u)
    BY <2>1, <2>2, <1>2, <1>3, <1>7, <1>10
  <2>3. CASE k = Len(u) + 1
    BY <2>1, <2>3, <1>2, <1>3, <1>8
  <2>4. QED BY <2>2, <2>3, <1>2
<1>11. \A i \in 1..Len(<<>>) : FALSE
  OBVIOUS
<1>12. NoRepeat(t) /\ Follows(v, t)
  BY <1>4, <1>10 DEF NoRepeat, Follows
<1>13. BothFollow(t, v, <<>>)
  BY <1>9, <1>11, <1>12 DEF BothFollow
<1>14. QED BY <1>13 DEF t, v

\* The last entry of a stack and what is under it.
LEMMA FrontAndLast ==
  ASSUME NEW X, NEW u \in Seq(X), u # <<>>
  PROVE  /\ Len(u) \in Nat /\ Len(u) \in 1..Len(u)
         /\ Last(u) = u[Len(u)] /\ Last(u) \in X
         /\ Front(u) \in Seq(X) /\ Len(Front(u)) = Len(u) - 1
         /\ \A i \in 1..(Len(u) - 1) : i \in 1..Len(u) /\ i < Len(u) /\ Front(u)[i] = u[i]
<1>1. Len(u) \in Nat /\ Len(u) # 0
  BY EmptySeq
<1>2. u[Len(u)] \in X
  BY <1>1, ElementOfSeq
<1>3. \A i \in 1..(Len(u) - 1) : u[i] \in X
  BY <1>1, ElementOfSeq
<1>4. PICK n \in Nat : n = Len(u) /\ n # 0
  BY <1>1
<1>5. /\ SubSeq(u, 1, n - 1) \in Seq(X)
      /\ Len(SubSeq(u, 1, n - 1)) = n - 1
      /\ \A i \in 1..(n - 1) : SubSeq(u, 1, n - 1)[i] = u[i]
  <2>1. /\ SubSeq(u, 1, n - 1) \in Seq(X)
        /\ Len(SubSeq(u, 1, n - 1)) = IF 1 <= n - 1 THEN (n - 1) - 1 + 1 ELSE 0
        /\ \A i \in 1 .. (n - 1) - 1 + 1 : SubSeq(u, 1, n - 1)[i] = u[1 + i - 1]
    BY <1>3, <1>4, SubSeqProperties
  <2>2. (n - 1) - 1 + 1 = n - 1 /\ (~(1 <= n - 1) => n - 1 = 0)
    BY <1>4
  <2>3. \A i \in 1..(n - 1) : 1 + i - 1 = i
    OBVIOUS
  <2>4. QED BY <2>1, <2>2, <2>3
<1>6. n \in 1..n /\ \A i \in 1..(n - 1) : i \in 1..n /\ i < n
  BY <1>4
<1>7. QED BY <1>2, <1>4, <1>5, <1>6 DEF Front, Last

\* Undo: the latest entry in effect becomes the first to be redone.
LEMMA UndoInOrder ==
  ASSUME NEW X, NEW s \in Seq(X), NEW u \in Seq(X), NEW r \in Seq(X),
         BothFollow(s, u, r), u # <<>>
  PROVE  BothFollow(s, Front(u), Append(r, Last(u)))
<1> DEFINE v == Front(u)
           q == Append(r, Last(u))
           n == Len(u)
<1>1. /\ n \in Nat /\ n \in 1..n /\ Last(u) = u[n] /\ Len(v) = n - 1
      /\ \A i \in 1..(n - 1) : i \in 1..n /\ i < n /\ v[i] = u[i]
      /\ Last(u) \in X
  BY FrontAndLast
<1>2. /\ Len(r) \in Nat /\ Len(q) = Len(r) + 1 /\ q[Len(r) + 1] = u[n]
      /\ \A i \in 1..Len(r) : q[i] = r[i]
  BY <1>1
<1>3. /\ NoRepeat(s)
      /\ \A i \in 1..n : Holds(s, u[i])
      /\ \A i \in 1..Len(r) : Holds(s, r[i])
      /\ \A i, k \in 1..n : i < k => Before(s, u[i], u[k])
      /\ \A i, k \in 1..Len(r) : i < k => Before(s, r[k], r[i])
      /\ \A i \in 1..n : \A k \in 1..Len(r) : Before(s, u[i], r[k])
  BY DEF BothFollow, Follows
<1> HIDE DEF v, q, n
<1>4. \A i \in 1..Len(q) : i \in 1..Len(r) \/ i = Len(r) + 1
  BY <1>2
<1>5. \A i \in 1..Len(v) : Holds(s, v[i])
  BY <1>1, <1>3
<1>6. \A i \in 1..Len(q) : Holds(s, q[i])
  BY <1>1, <1>2, <1>3, <1>4
<1>7. \A i, k \in 1..Len(v) : i < k => Before(s, v[i], v[k])
  BY <1>1, <1>3
<1>8. ASSUME NEW i \in 1..Len(q), NEW k \in 1..Len(q), i < k PROVE Before(s, q[k], q[i])
  <2>1. i \in 1..Len(r)
    BY <1>2, <1>8
  <2>2. CASE k \in 1..Len(r)
    BY <2>1, <2>2, <1>2, <1>3, <1>8
  <2>3. CASE k = Len(r) + 1
    BY <2>1, <2>3, <1>1, <1>2, <1>3
  <2>4. QED BY <2>2, <2>3, <1>4
<1>9. ASSUME NEW i \in 1..Len(v), NEW k \in 1..Len(q) PROVE Before(s, v[i], q[k])
  <2>1. i \in 1..n /\ i < n /\ v[i] = u[i]
    BY <1>1
  <2>2. CASE k \in 1..Len(r)
    BY <2>1, <2>2, <1>2, <1>3
  <2>3. CASE k = Len(r) + 1
    BY <2>1, <2>3, <1>1, <1>2, <1>3
  <2>4. QED BY <2>2, <2>3, <1>4
<1>10. QED BY <1>3, <1>5, <1>6, <1>7, <1>8, <1>9 DEF BothFollow, Follows, v, q

\* Redo: the earliest entry taken back comes after all that are in effect.
LEMMA RedoInOrder ==
  ASSUME NEW X, NEW s \in Seq(X), NEW u \in Seq(X), NEW r \in Seq(X),
         BothFollow(s, u, r), r # <<>>
  PROVE  BothFollow(s, Append(u, Last(r)), Front(r))
<1> DEFINE v == Append(u, Last(r))
           q == Front(r)
           n == Len(r)
<1>1. /\ n \in Nat /\ n \in 1..n /\ Last(r) = r[n] /\ Len(q) = n - 1
      /\ \A i \in 1..(n - 1) : i \in 1..n /\ i < n /\ q[i] = r[i]
      /\ Last(r) \in X
  BY FrontAndLast
<1>2. /\ Len(u) \in Nat /\ Len(v) = Len(u) + 1 /\ v[Len(u) + 1] = r[n]
      /\ \A i \in 1..Len(u) : v[i] = u[i]
  BY <1>1
<1>3. /\ NoRepeat(s)
      /\ \A i \in 1..Len(u) : Holds(s, u[i])
      /\ \A i \in 1..n : Holds(s, r[i])
      /\ \A i, k \in 1..Len(u) : i < k => Before(s, u[i], u[k])
      /\ \A i, k \in 1..n : i < k => Before(s, r[k], r[i])
      /\ \A i \in 1..Len(u) : \A k \in 1..n : Before(s, u[i], r[k])
  BY DEF BothFollow, Follows
<1> HIDE DEF v, q, n
<1>4. \A i \in 1..Len(v) : i \in 1..Len(u) \/ i = Len(u) + 1
  BY <1>2
<1>5. \A i \in 1..Len(q) : Holds(s, q[i])
  BY <1>1, <1>3
<1>6. \A i \in 1..Len(v) : Holds(s, v[i])
  BY <1>1, <1>2, <1>3, <1>4
<1>7. \A i, k \in 1..Len(q) : i < k => Before(s, q[k], q[i])
  BY <1>1, <1>3
<1>8. ASSUME NEW i \in 1..Len(v), NEW k \in 1..Len(v), i < k PROVE Before(s, v[i], v[k])
  <2>1. i \in 1..Len(u)
    BY <1>2, <1>8
  <2>2. CASE k \in 1..Len(u)
    BY <2>1, <2>2, <1>2, <1>3, <1>8
  <2>3. CASE k = Len(u) + 1
    BY <2>1, <2>3, <1>1, <1>2, <1>3
  <2>4. QED BY <2>2, <2>3, <1>4
<1>9. ASSUME NEW i \in 1..Len(v), NEW k \in 1..Len(q) PROVE Before(s, v[i], q[k])
  <2>1. k \in 1..n /\ k < n /\ q[k] = r[k]
    BY <1>1
  <2>2. CASE i \in 1..Len(u)
    BY <2>1, <2>2, <1>2, <1>3
  <2>3. CASE i = Len(u) + 1
    BY <2>1, <2>3, <1>1, <1>2, <1>3
  <2>4. QED BY <2>2, <2>3, <1>4
<1>10. QED BY <1>3, <1>5, <1>6, <1>7, <1>8, <1>9 DEF BothFollow, Follows, v, q

\* Filtered stacks stay in order.
LEMMA KeptInOrder ==
  ASSUME NEW X, NEW s \in Seq(X), NEW u \in Seq(X), NEW r \in Seq(X),
         BothFollow(s, u, r), NEW S
  PROVE  BothFollow(s, Kept(u, S), Kept(r, S))
<1> DEFINE v == Kept(u, S)
           q == Kept(r, S)
<1>1. Follows(v, u) /\ \A i \in 1..Len(v) : Holds(u, v[i])
  BY KeptFollows
<1>2. Follows(q, r) /\ \A i \in 1..Len(q) : Holds(r, q[i])
  BY KeptFollows
<1> HIDE DEF v, q
<1>3. /\ NoRepeat(s)
      /\ \A i \in 1..Len(u) : Holds(s, u[i])
      /\ \A i \in 1..Len(r) : Holds(s, r[i])
      /\ \A i, k \in 1..Len(u) : i < k => Before(s, u[i], u[k])
      /\ \A i, k \in 1..Len(r) : i < k => Before(s, r[k], r[i])
      /\ \A i \in 1..Len(u) : \A k \in 1..Len(r) : Before(s, u[i], r[k])
  BY DEF BothFollow, Follows
<1>4. \A i \in 1..Len(v) : Holds(s, v[i])
  BY <1>1, <1>3 DEF Holds
<1>5. \A i \in 1..Len(q) : Holds(s, q[i])
  BY <1>2, <1>3 DEF Holds
<1>6. ASSUME NEW i \in 1..Len(v), NEW k \in 1..Len(v), i < k PROVE Before(s, v[i], v[k])
  <2>1. PICK a \in 1..Len(u), b \in 1..Len(u) : a < b /\ u[a] = v[i] /\ u[b] = v[k]
    BY <1>1, <1>6 DEF Follows, Before
  <2>2. QED BY <2>1, <1>3
<1>7. ASSUME NEW i \in 1..Len(q), NEW k \in 1..Len(q), i < k PROVE Before(s, q[k], q[i])
  <2>1. PICK a \in 1..Len(r), b \in 1..Len(r) : a < b /\ r[a] = q[i] /\ r[b] = q[k]
    BY <1>2, <1>7 DEF Follows, Before
  <2>2. QED BY <2>1, <1>3
<1>8. ASSUME NEW i \in 1..Len(v), NEW k \in 1..Len(q) PROVE Before(s, v[i], q[k])
  <2>1. PICK a \in 1..Len(u), b \in 1..Len(r) : u[a] = v[i] /\ r[b] = q[k]
    BY <1>1, <1>2 DEF Holds
  <2>2. QED BY <2>1, <1>3
<1>9. QED BY <1>3, <1>4, <1>5, <1>6, <1>7, <1>8 DEF BothFollow, Follows, v, q

\* Two orders that share no entry of S can be put one after the other.
LEMMA MergeInOrder ==
  ASSUME NEW X, NEW s \in Seq(X), NEW u \in Seq(X), NEW r \in Seq(X), BothFollow(s, u, r),
         NEW t \in Seq(X), NEW v \in Seq(X), NEW q \in Seq(X), BothFollow(t, v, q),
         NEW S, \A x \in S : ~Holds(s, x)
  PROVE  BothFollow(s \o Kept(t, S), u \o Kept(v, S), Kept(q, S))
<1> DEFINE tt == Kept(t, S)
           vv == Kept(v, S)
           qq == Kept(q, S)
           ss == s \o tt
           uu == u \o vv
<1>1. /\ tt \in Seq(X) /\ vv \in Seq(X) /\ qq \in Seq(X)
      /\ Follows(tt, t)
      /\ \A i \in 1..Len(tt) : tt[i] \in S
      /\ \A i \in 1..Len(vv) : vv[i] \in S
      /\ \A i \in 1..Len(qq) : qq[i] \in S
      /\ \A x : Holds(tt, x) <=> Holds(t, x) /\ x \in S
  BY KeptFollows
<1>2. BothFollow(t, vv, qq)
  BY KeptInOrder
<1>3. \A x \in S : \A y \in S : Before(t, x, y) => Before(tt, x, y)
  BY KeptBefore DEF BothFollow
<1> HIDE DEF tt, vv, qq
<1>4. /\ Len(s) \in Nat /\ Len(tt) \in Nat /\ Len(ss) = Len(s) + Len(tt)
      /\ \A i \in 1..Len(s) : ss[i] = s[i]
      /\ \A i \in 1..Len(ss) : i \in 1..Len(s) \/ (i - Len(s) \in 1..Len(tt) /\ ss[i] = tt[i - Len(s)])
  BY <1>1
<1>5. /\ Len(u) \in Nat /\ Len(vv) \in Nat
      /\ \A i \in 1..Len(u) : uu[i] = u[i]
      /\ \A i \in 1..Len(uu) : i \in 1..Len(u) \/ (i - Len(u) \in 1..Len(vv) /\ uu[i] = vv[i - Len(u)])
  BY <1>1
<1>6. /\ \A x, y : Before(s, x, y) => Before(ss, x, y)
      /\ \A x, y : Before(tt, x, y) => Before(ss, x, y)
      /\ \A x, y : Holds(s, x) /\ Holds(tt, y) => Before(ss, x, y)
      /\ \A x : Holds(ss, x) <=> Holds(s, x) \/ Holds(tt, x)
  BY <1>1, BeforeConcat
<1> HIDE DEF ss, uu
<1>7. NoRepeat(ss)
  <2>1. NoRepeat(s) /\ NoRepeat(t)
    BY DEF BothFollow
  <2>2. ASSUME NEW i \in 1..Len(tt), NEW k \in 1..Len(tt), i < k PROVE tt[i] # tt[k]
    <3>1. Before(t, tt[i], tt[k])
      BY <1>1, <2>2 DEF Follows
    <3>2. QED BY <3>1, <2>1, BeforeIsStrict
  <2>3. ASSUME NEW i \in 1..Len(ss), NEW k \in 1..Len(ss), i < k PROVE ss[i] # ss[k]
    <3>1. CASE i \in 1..Len(s) /\ k \in 1..Len(s)
      BY <3>1, <2>1, <2>3, <1>4 DEF NoRepeat
    <3>2. CASE i \in 1..Len(s) /\ k \notin 1..Len(s)
      <4>1. Holds(s, ss[i]) /\ ss[k] \in S
        BY <3>2, <1>1, <1>4 DEF Holds
      <4>2. QED BY <4>1
    <3>3. CASE i \notin 1..Len(s)
      <4>1. i - Len(s) \in 1..Len(tt) /\ ss[i] = tt[i - Len(s)]
        BY <3>3, <1>4
      <4>2. k \notin 1..Len(s)
        BY <3>3, <2>3, <1>4
      <4>3. k - Len(s) \in 1..Len(tt) /\ ss[k] = tt[k - Len(s)]
        BY <4>2, <1>4
      <4>4. i - Len(s) < k - Len(s)
        BY <2>3, <1>4
      <4>5. QED BY <4>1, <4>3, <4>4, <2>2
    <3>4. QED BY <3>1, <3>2, <3>3
  <2>4. QED BY <2>3 DEF NoRepeat
<1>8. /\ \A i \in 1..Len(u) : Holds(s, u[i])
      /\ \A i, k \in 1..Len(u) : i < k => Before(s, u[i], u[k])
  BY DEF BothFollow, Follows
<1>9. /\ \A i \in 1..Len(vv) : Holds(tt, vv[i])
      /\ \A i \in 1..Len(qq) : Holds(tt, qq[i])
      /\ \A i, k \in 1..Len(vv) : i < k => Before(tt, vv[i], vv[k])
      /\ \A i, k \in 1..Len(qq) : i < k => Before(tt, qq[k], qq[i])
      /\ \A i \in 1..Len(vv) : \A k \in 1..Len(qq) : Before(tt, vv[i], qq[k])
  BY <1>1, <1>2, <1>3 DEF BothFollow, Follows
<1>10. ASSUME NEW i \in 1..Len(uu) PROVE Holds(ss, uu[i])
  BY <1>5, <1>6, <1>8, <1>9
<1>11. ASSUME NEW i \in 1..Len(uu), NEW k \in 1..Len(uu), i < k PROVE Before(ss, uu[i], uu[k])
  <2>1. CASE i \in 1..Len(u) /\ k \in 1..Len(u)
    BY <2>1, <1>5, <1>6, <1>8, <1>11
  <2>2. CASE i \in 1..Len(u) /\ k \notin 1..Len(u)
    BY <2>2, <1>5, <1>6, <1>8, <1>9
  <2>3. CASE i \notin 1..Len(u)
    <3>1. i - Len(u) \in 1..Len(vv) /\ uu[i] = vv[i - Len(u)]
      BY <2>3, <1>5
    <3>2. k \notin 1..Len(u)
      BY <2>3, <1>11, <1>5
    <3>3. k - Len(u) \in 1..Len(vv) /\ uu[k] = vv[k - Len(u)]
      BY <3>2, <1>5
    <3>4. i - Len(u) < k - Len(u)
      BY <1>11, <1>5
    <3>5. QED BY <3>1, <3>3, <3>4, <1>6, <1>9
  <2>4. QED BY <2>1, <2>2, <2>3
<1>12. ASSUME NEW i \in 1..Len(uu), NEW k \in 1..Len(qq) PROVE Before(ss, uu[i], qq[k])
  BY <1>5, <1>6, <1>8, <1>9
<1>13. \A i \in 1..Len(qq) : Holds(ss, qq[i])
  BY <1>6, <1>9
<1>14. \A i, k \in 1..Len(qq) : i < k => Before(ss, qq[k], qq[i])
  BY <1>6, <1>9
<1>15. BothFollow(ss, uu, qq)
  BY <1>7, <1>10, <1>11, <1>12, <1>13, <1>14 DEF BothFollow, Follows
<1>16. QED BY <1>15 DEF ss, uu, tt, vv, qq

------------------------------------------------------------------------------
(* Each operation keeps the order of the stacks, and a journal sound.      *)

Ordered(j) == Typed(j) /\ Laid(j)

Sound(j) == Ordered(j) /\ RedoIsReverted(j)

\* What can be undone is exactly what counts as active.
UndoIsActive(j) == Active(j) = ToSet(j.undo)

\* The elements of a sequence are what it holds.
LEMMA ToSetHolds ==
  ASSUME NEW X, NEW s \in Seq(X), NEW x
  PROVE  x \in ToSet(s) <=> Holds(s, x)
  BY DEF ToSet, Holds

\* Appending adds one element.
LEMMA ToSetAppend ==
  ASSUME NEW X, NEW s \in Seq(X), NEW o \in X
  PROVE  ToSet(Append(s, o)) = ToSet(s) \cup {o}
<1> DEFINE t == Append(s, o)
<1>1. /\ Len(s) \in Nat /\ DOMAIN s = 1..Len(s) /\ DOMAIN t = 1..(Len(s) + 1)
      /\ t[Len(s) + 1] = o /\ \A i \in 1..Len(s) : t[i] = s[i]
  OBVIOUS
<1> HIDE DEF t
<1>2. \A i \in DOMAIN t : t[i] \in ToSet(s) \cup {o}
  <2>1. \A i \in DOMAIN t : i \in DOMAIN s \/ i = Len(s) + 1
    BY <1>1
  <2>2. QED BY <1>1, <2>1 DEF ToSet
<1>3. \A i \in DOMAIN s : i \in DOMAIN t /\ t[i] = s[i]
  BY <1>1
<1>4. Len(s) + 1 \in DOMAIN t
  BY <1>1
<1>5. o \in ToSet(t)
  BY <1>1, <1>4 DEF ToSet
<1>6. ToSet(s) \subseteq ToSet(t)
  BY <1>3 DEF ToSet
<1>7. ToSet(t) \subseteq ToSet(s) \cup {o}
  <2>1. \A x \in ToSet(t) : \E i \in DOMAIN t : x = t[i]
    BY DEF ToSet
  <2>2. QED BY <2>1, <1>2
<1>8. QED BY <1>5, <1>6, <1>7 DEF t

\* An ordered journal has its type, and the order the runs check of it.
LEMMA OrderedIsChecked ==
  ASSUME NEW j, Ordered(j)
  PROVE  JournalType(j) /\ StacksFollowRecordOrder(j)
  BY LaidIsInOrder DEF Ordered

\* createJournal is sound.
LEMMA createJournalIsSound == Sound(createJournal) /\ UndoIsActive(createJournal)
<1>1. Typed(createJournal)
  BY DEF Typed, createJournal
<1>2. \A o \in Ops : ~Recorded(createJournal, o) /\ ~Holds(createJournal.order, o)
  BY DEF Recorded, createJournal, Holds
<1>3. Laid(createJournal)
  BY <1>2, EmptyInOrder DEF Laid, createJournal
<1>4. ToSet(createJournal.redo) = {} /\ ToSet(createJournal.undo) = {}
  BY DEF createJournal, ToSet
<1>5. Active(createJournal) = {}
  BY AbsentAssumption DEF Active, createJournal, Status
<1>6. QED BY <1>1, <1>3, <1>4, <1>5 DEF Sound, Ordered, RedoIsReverted, UndoIsActive

\* appendEntry keeps a journal ordered, empties redo and records the new operation besides the others.
LEMMA appendEntryIsSound ==
  ASSUME NEW j, Ordered(j), NEW o \in Ops, ~Recorded(j, o), NEW s \in {"preview", "committed"}
  PROVE  /\ Ordered(appendEntry(j, o, s))
         /\ RedoIsReverted(j) => RedoIsReverted(appendEntry(j, o, s))
         /\ UndoIsActive(j) => UndoIsActive(appendEntry(j, o, s))
         /\ \A x \in Ops : Recorded(appendEntry(j, o, s), x) <=> Recorded(j, x) \/ x = o
<1> DEFINE k == appendEntry(j, o, s)
<1>1. /\ j.order \in Seq(Ops) /\ j.undo \in Seq(Ops) /\ j.redo \in Seq(Ops)
      /\ j.status \in [Ops -> Status \cup {Absent}]
      /\ \A x \in Ops : Recorded(j, x) <=> Holds(j.order, x)
      /\ BothFollow(j.order, j.undo, j.redo)
  BY DEF Ordered, Typed, Laid
<1>2. /\ k.order = Append(j.order, o) /\ k.undo = Append(j.undo, o) /\ k.redo = <<>>
      /\ k.status = [j.status EXCEPT ![o] = s]
  BY DEF appendEntry
<1> HIDE DEF k
<1>3. Typed(k)
  BY <1>1, <1>2 DEF Typed, Status
<1>4. BothFollow(k.order, k.undo, k.redo)
  <2>1. ~Holds(j.order, o)
    BY <1>1
  <2>2. QED BY <1>1, <1>2, <2>1, AppendInOrder
<1>5. \A x \in Ops : Recorded(k, x) <=> Recorded(j, x) \/ x = o
  BY <1>1, <1>2, AbsentAssumption DEF Recorded, Status
<1>6. \A x \in Ops : Holds(k.order, x) <=> Holds(j.order, x) \/ x = o
  BY <1>1, <1>2 DEF Holds
<1>7. RedoIsReverted(k)
  BY <1>2 DEF RedoIsReverted, ToSet
<1>8. Ordered(k)
  BY <1>1, <1>3, <1>4, <1>5, <1>6 DEF Ordered, Laid
<1>9. ASSUME UndoIsActive(j) PROVE UndoIsActive(k)
  <2>1. Active(k) = Active(j) \cup {o}
    BY <1>1, <1>2 DEF Active
  <2>2. ToSet(k.undo) = ToSet(j.undo) \cup {o}
    BY <1>1, <1>2, ToSetAppend
  <2>3. QED BY <1>9, <2>1, <2>2 DEF UndoIsActive
<1>10. QED BY <1>5, <1>7, <1>8, <1>9 DEF k

\* undo keeps a journal ordered, or sound, and what it records.
LEMMA undoIsSound ==
  ASSUME NEW j, Ordered(j), canUndo(j)
  PROVE  /\ Ordered(undo(j))
         /\ RedoIsReverted(j) => RedoIsReverted(undo(j))
         /\ UndoIsActive(j) => UndoIsActive(undo(j))
         /\ \A x \in Ops : Recorded(undo(j), x) <=> Recorded(j, x)
<1> DEFINE k == undo(j)
           o == peekUndo(j)
           u == j.undo
           v == Front(j.undo)
<1>1. /\ j.order \in Seq(Ops) /\ u \in Seq(Ops) /\ j.redo \in Seq(Ops)
      /\ j.status \in [Ops -> Status \cup {Absent}]
      /\ \A x \in Ops : Recorded(j, x) <=> Holds(j.order, x)
      /\ BothFollow(j.order, u, j.redo)
      /\ u # <<>>
  BY DEF Ordered, Typed, Laid, canUndo
<1>2. /\ Len(u) \in Nat /\ Len(u) \in 1..Len(u) /\ o = u[Len(u)] /\ o \in Ops
      /\ v \in Seq(Ops) /\ Len(v) = Len(u) - 1
      /\ \A i \in 1..(Len(u) - 1) : i \in 1..Len(u) /\ i < Len(u) /\ v[i] = u[i]
  <2> HIDE DEF u
  <2>1. QED BY <1>1, FrontAndLast DEF peekUndo, u
<1>3. /\ k.order = j.order /\ k.undo = v /\ k.redo = Append(j.redo, o)
      /\ k.status = [j.status EXCEPT ![o] = "reverted"]
  BY DEF undo
<1>4. BothFollow(k.order, k.undo, k.redo)
  BY <1>1, <1>3, UndoInOrder DEF peekUndo
<1> HIDE DEF k, o, u, v
<1>5. Typed(k)
  BY <1>1, <1>2, <1>3 DEF Typed, Status
<1>6. Recorded(j, o)
  BY <1>1, <1>2 DEF BothFollow
<1>7. \A x \in Ops : Recorded(k, x) <=> Recorded(j, x)
  BY <1>1, <1>2, <1>3, <1>6, AbsentAssumption DEF Recorded, Status
<1>8. ASSUME RedoIsReverted(j) PROVE RedoIsReverted(k)
  <2>1. ToSet(k.redo) = ToSet(j.redo) \cup {o}
    BY <1>1, <1>2, <1>3, ToSetAppend
  <2>2. ToSet(j.redo) \subseteq Ops
    BY <1>1 DEF ToSet
  <2>3. QED BY <1>8, <1>1, <1>2, <1>3, <2>1, <2>2 DEF RedoIsReverted
<1>9. Ordered(k)
  BY <1>1, <1>3, <1>4, <1>5, <1>7 DEF Ordered, Laid
<1>10. ASSUME UndoIsActive(j) PROVE UndoIsActive(k)
  <2>1. Active(k) = Active(j) \ {o}
    BY <1>1, <1>2, <1>3 DEF Active
  <2>2. \A i \in 1..Len(u) : i < Len(u) => u[i] # o
    BY <1>1, <1>2, BeforeIsStrict DEF BothFollow, Follows
  <2>3. DOMAIN u = 1..Len(u) /\ DOMAIN v = 1..(Len(u) - 1)
    BY <1>1, <1>2, LenProperties
  <2>4. \A i \in 1..Len(u) : i < Len(u) => i \in 1..(Len(u) - 1)
    BY <1>2
  <2>5. \A i \in 1..Len(u) : ~(i < Len(u)) => i = Len(u)
    BY <1>2
  <2>6. ToSet(v) = ToSet(u) \ {o}
    BY <1>2, <2>2, <2>3, <2>4, <2>5 DEF ToSet
  <2>7. QED BY <1>10, <2>1, <2>6, <1>3 DEF UndoIsActive, u
<1>11. QED BY <1>7, <1>8, <1>9, <1>10 DEF k

\* redo keeps a journal ordered, or sound, and what it records.
LEMMA redoIsSound ==
  ASSUME NEW j, Ordered(j), canRedo(j)
  PROVE  /\ Ordered(redo(j))
         /\ RedoIsReverted(j) => RedoIsReverted(redo(j))
         /\ UndoIsActive(j) => UndoIsActive(redo(j))
         /\ \A x \in Ops : Recorded(redo(j), x) <=> Recorded(j, x)
         /\ peekRedo(j) \in Ops /\ Recorded(j, peekRedo(j))
<1> DEFINE k == redo(j)
           o == peekRedo(j)
           r == j.redo
           q == Front(j.redo)
<1>1. /\ j.order \in Seq(Ops) /\ j.undo \in Seq(Ops) /\ r \in Seq(Ops)
      /\ j.status \in [Ops -> Status \cup {Absent}]
      /\ \A x \in Ops : Recorded(j, x) <=> Holds(j.order, x)
      /\ BothFollow(j.order, j.undo, r)
      /\ r # <<>>
  BY DEF Ordered, Typed, Laid, canRedo
<1>2. /\ Len(r) \in Nat /\ Len(r) \in 1..Len(r) /\ o = r[Len(r)] /\ o \in Ops
      /\ q \in Seq(Ops) /\ Len(q) = Len(r) - 1
      /\ \A i \in 1..(Len(r) - 1) : i \in 1..Len(r) /\ i < Len(r) /\ q[i] = r[i]
  <2> HIDE DEF r
  <2>1. QED BY <1>1, FrontAndLast DEF peekRedo, r
<1>3. /\ k.order = j.order /\ k.redo = q /\ k.undo = Append(j.undo, o)
      /\ k.status = [j.status EXCEPT ![o] = "committed"]
  BY DEF redo
<1>4. BothFollow(k.order, k.undo, k.redo)
  BY <1>1, <1>3, RedoInOrder DEF peekRedo
<1> HIDE DEF k, o, r, q
<1>5. Typed(k)
  BY <1>1, <1>2, <1>3 DEF Typed, Status
<1>6. Recorded(j, o)
  BY <1>1, <1>2 DEF BothFollow
<1>7. \A x \in Ops : Recorded(k, x) <=> Recorded(j, x)
  BY <1>1, <1>2, <1>3, <1>6, AbsentAssumption DEF Recorded, Status
<1>8. ASSUME RedoIsReverted(j) PROVE RedoIsReverted(k)
  <2>1. \A i \in 1..Len(r) : i < Len(r) => r[i] # o
    BY <1>1, <1>2, BeforeIsStrict DEF BothFollow
  <2>2. DOMAIN r = 1..Len(r) /\ DOMAIN q = 1..(Len(r) - 1)
    BY <1>1, <1>2, LenProperties
  <2>3. \A x \in ToSet(q) : x \in ToSet(r) /\ x # o /\ x \in Ops
    BY <1>1, <1>2, <2>1, <2>2, ElementOfSeq DEF ToSet
  <2>4. QED BY <1>8, <1>1, <1>2, <1>3, <2>3 DEF RedoIsReverted, r
<1>9. Ordered(k)
  BY <1>1, <1>3, <1>4, <1>5, <1>7 DEF Ordered, Laid
<1>10. ASSUME UndoIsActive(j) PROVE UndoIsActive(k)
  <2>1. Active(k) = Active(j) \cup {o}
    BY <1>1, <1>2, <1>3 DEF Active
  <2>2. ToSet(k.undo) = ToSet(j.undo) \cup {o}
    BY <1>1, <1>2, <1>3, ToSetAppend
  <2>3. QED BY <1>10, <2>1, <2>2 DEF UndoIsActive
<1>11. QED BY <1>2, <1>6, <1>7, <1>8, <1>9, <1>10 DEF k, o

\* markEntryCommitted keeps a journal ordered and what it records; it keeps it sound
\* when the entry is a preview, and not when it was undone.
LEMMA markEntryCommittedIsSound ==
  ASSUME NEW j, Ordered(j), NEW o \in Ops, Recorded(j, o)
  PROVE  /\ Ordered(markEntryCommitted(j, o))
         /\ j.status[o] = "preview" /\ RedoIsReverted(j) => RedoIsReverted(markEntryCommitted(j, o))
         /\ j.status[o] = "preview" /\ UndoIsActive(j) => UndoIsActive(markEntryCommitted(j, o))
         /\ \A x \in Ops : Recorded(markEntryCommitted(j, o), x) <=> Recorded(j, x)
<1> DEFINE k == markEntryCommitted(j, o)
<1>1. /\ j.order \in Seq(Ops) /\ j.undo \in Seq(Ops) /\ j.redo \in Seq(Ops)
      /\ j.status \in [Ops -> Status \cup {Absent}]
      /\ Laid(j)
  BY DEF Ordered, Typed
<1>2. /\ k.order = j.order /\ k.undo = j.undo /\ k.redo = j.redo
      /\ k.status = [j.status EXCEPT ![o] = "committed"]
  BY DEF markEntryCommitted
<1> HIDE DEF k
<1>3. Typed(k)
  BY <1>1, <1>2 DEF Typed, Status
<1>4. \A x \in Ops : Recorded(k, x) <=> Recorded(j, x)
  BY <1>1, <1>2, AbsentAssumption DEF Recorded, Status
<1>5. Laid(k)
  BY <1>1, <1>2, <1>4 DEF Laid
<1>6. ASSUME j.status[o] = "preview", RedoIsReverted(j) PROVE RedoIsReverted(k)
  <2>1. ToSet(j.redo) \subseteq Ops
    BY <1>1 DEF ToSet
  <2>2. QED BY <1>6, <1>1, <1>2, <2>1 DEF RedoIsReverted
<1>7. j.status[o] = "preview" => Active(k) = Active(j)
  BY <1>1, <1>2 DEF Active
<1>8. QED BY <1>2, <1>3, <1>4, <1>5, <1>6, <1>7 DEF Ordered, UndoIsActive, k

\* markEntryReverted changes a status only, and keeps a journal ordered, or sound.
LEMMA markEntryRevertedIsSound ==
  ASSUME NEW j, Ordered(j), NEW o \in Ops, Recorded(j, o)
  PROVE  /\ Ordered(markEntryReverted(j, o))
         /\ RedoIsReverted(j) => RedoIsReverted(markEntryReverted(j, o))
         /\ \A x \in Ops : Recorded(markEntryReverted(j, o), x) <=> Recorded(j, x)
<1> DEFINE k == markEntryReverted(j, o)
<1>1. /\ j.order \in Seq(Ops) /\ j.undo \in Seq(Ops) /\ j.redo \in Seq(Ops)
      /\ j.status \in [Ops -> Status \cup {Absent}]
      /\ Laid(j)
  BY DEF Ordered, Typed
<1>2. /\ k.order = j.order /\ k.undo = j.undo /\ k.redo = j.redo
      /\ k.status = [j.status EXCEPT ![o] = "reverted"]
  BY DEF markEntryReverted
<1> HIDE DEF k
<1>3. Typed(k)
  BY <1>1, <1>2 DEF Typed, Status
<1>4. \A x \in Ops : Recorded(k, x) <=> Recorded(j, x)
  BY <1>1, <1>2, AbsentAssumption DEF Recorded, Status
<1>5. Laid(k)
  BY <1>1, <1>2, <1>4 DEF Laid
<1>6. ASSUME RedoIsReverted(j) PROVE RedoIsReverted(k)
  <2>1. ToSet(j.redo) \subseteq Ops
    BY <1>1 DEF ToSet
  <2>2. QED BY <1>6, <1>1, <1>2, <2>1 DEF RedoIsReverted
<1>7. QED BY <1>3, <1>4, <1>5, <1>6 DEF Ordered, k

\* markEntrySuperseded filters an entry out of both stacks and keeps a journal ordered, or sound.
LEMMA markEntrySupersededIsSound ==
  ASSUME NEW j, Ordered(j), NEW o \in Ops, Recorded(j, o)
  PROVE  /\ Ordered(markEntrySuperseded(j, o))
         /\ RedoIsReverted(j) => RedoIsReverted(markEntrySuperseded(j, o))
         /\ \A x \in Ops : Recorded(markEntrySuperseded(j, o), x) <=> Recorded(j, x)
<1> DEFINE k == markEntrySuperseded(j, o)
           S == Ops \ {o}
<1>1. /\ j.order \in Seq(Ops) /\ j.undo \in Seq(Ops) /\ j.redo \in Seq(Ops)
      /\ j.status \in [Ops -> Status \cup {Absent}]
      /\ Laid(j)
  BY DEF Ordered, Typed
<1>2. /\ k.order = j.order /\ k.undo = Kept(j.undo, S) /\ k.redo = Kept(j.redo, S)
      /\ k.status = [j.status EXCEPT ![o] = "superseded"]
  BY DEF markEntrySuperseded
<1> HIDE DEF k, S
<1>3. /\ Kept(j.undo, S) \in Seq(Ops) /\ Kept(j.redo, S) \in Seq(Ops)
      /\ \A x : Holds(Kept(j.redo, S), x) <=> Holds(j.redo, x) /\ x \in S
  BY <1>1, KeptFollows
<1>4. Typed(k)
  BY <1>1, <1>2, <1>3 DEF Typed, Status
<1>5. \A x \in Ops : Recorded(k, x) <=> Recorded(j, x)
  BY <1>1, <1>2, AbsentAssumption DEF Recorded, Status
<1>6. BothFollow(k.order, k.undo, k.redo)
  BY <1>1, <1>2, KeptInOrder DEF Laid
<1>7. Laid(k)
  BY <1>1, <1>2, <1>5, <1>6 DEF Laid
<1>8. ASSUME RedoIsReverted(j) PROVE RedoIsReverted(k)
  <2>1. ASSUME NEW x \in ToSet(k.redo) PROVE k.status[x] = "reverted"
    <3>1. x \in ToSet(j.redo) /\ x \in S
      BY <1>1, <1>2, <1>3, ToSetHolds
    <3>2. QED BY <3>1, <1>8, <1>1, <1>2 DEF RedoIsReverted, S
  <2>2. QED BY <2>1 DEF RedoIsReverted
<1>9. QED BY <1>4, <1>5, <1>7, <1>8 DEF Ordered, k

\* The merge of any two sound journals is sound, whatever each has undone.
LEMMA mergeHydratedJournalIsSound ==
  ASSUME NEW stored, Sound(stored), NEW local, Sound(local)
  PROVE  /\ Sound(mergeHydratedJournal(stored, local))
         /\ UndoIsActive(stored) /\ UndoIsActive(local)
              => UndoIsActive(mergeHydratedJournal(stored, local))
         /\ \A x \in Ops : Recorded(mergeHydratedJournal(stored, local), x)
                             => Recorded(stored, x) \/ Recorded(local, x)
<1> DEFINE k == mergeHydratedJournal(stored, local)
           U == Unknown(stored)
<1>1. CASE ~hasLocalChanges(stored, local)
  BY <1>1 DEF mergeHydratedJournal
<1>2. CASE hasLocalChanges(stored, local)
  <2>1. /\ k.order = stored.order \o Kept(local.order, U)
        /\ k.undo = stored.undo \o Kept(local.undo, U)
        /\ k.redo = Kept(local.redo, U)
        /\ k.status = [o \in Ops |-> IF Recorded(stored, o) THEN stored.status[o] ELSE local.status[o]]
    BY <1>2 DEF mergeHydratedJournal, LocalOnly
  <2>2. /\ stored.order \in Seq(Ops) /\ stored.undo \in Seq(Ops) /\ stored.redo \in Seq(Ops)
        /\ stored.status \in [Ops -> Status \cup {Absent}]
        /\ \A x \in Ops : Recorded(stored, x) <=> Holds(stored.order, x)
        /\ BothFollow(stored.order, stored.undo, stored.redo)
    BY DEF Sound, Ordered, Typed, Laid
  <2>3. /\ local.order \in Seq(Ops) /\ local.undo \in Seq(Ops) /\ local.redo \in Seq(Ops)
        /\ local.status \in [Ops -> Status \cup {Absent}]
        /\ \A x \in Ops : Recorded(local, x) <=> Holds(local.order, x)
        /\ BothFollow(local.order, local.undo, local.redo)
        /\ RedoIsReverted(local)
    BY DEF Sound, Ordered, Typed, Laid
  <2>4. \A x : x \in U <=> x \in Ops /\ ~Recorded(stored, x)
    BY DEF Unknown
  <2> HIDE DEF k, U
  <2>5. /\ Kept(local.order, U) \in Seq(Ops)
        /\ \A x : Holds(Kept(local.order, U), x) <=> Holds(local.order, x) /\ x \in U
    BY <2>3, KeptFollows
  <2>6. /\ Kept(local.undo, U) \in Seq(Ops)
        /\ \A x : Holds(Kept(local.undo, U), x) <=> Holds(local.undo, x) /\ x \in U
    BY <2>3, KeptFollows
  <2>7. /\ Kept(local.redo, U) \in Seq(Ops)
        /\ \A x : Holds(Kept(local.redo, U), x) <=> Holds(local.redo, x) /\ x \in U
    BY <2>3, KeptFollows
  <2>8. Typed(k)
    BY <2>1, <2>2, <2>3, <2>5, <2>6, <2>7, ConcatProperties DEF Typed
  <2>9. BothFollow(k.order, k.undo, k.redo)
    <3>1. \A x \in U : ~Holds(stored.order, x)
      BY <2>2, <2>4
    <3>2. QED BY <2>1, <2>2, <2>3, <3>1, MergeInOrder
  <2>10. \A x \in Ops : Recorded(k, x) <=> Recorded(stored, x) \/ Recorded(local, x)
    BY <2>1 DEF Recorded
  <2>11. \A x \in Ops : Holds(k.order, x) <=> Holds(stored.order, x) \/ Holds(Kept(local.order, U), x)
    BY <2>1, <2>2, <2>5, HoldsConcat
  <2>12. Laid(k)
    BY <2>2, <2>3, <2>4, <2>5, <2>9, <2>10, <2>11 DEF Laid
  <2>13. RedoIsReverted(k)
    <3>1. ASSUME NEW x \in ToSet(k.redo) PROVE k.status[x] = "reverted"
      <4>1. x \in ToSet(local.redo) /\ x \in U
        BY <2>1, <2>3, <2>7, ToSetHolds
      <4>2. QED BY <4>1, <2>1, <2>3, <2>4 DEF RedoIsReverted
    <3>2. QED BY <3>1 DEF RedoIsReverted
  <2>14. ASSUME UndoIsActive(stored), UndoIsActive(local) PROVE UndoIsActive(k)
    <3>1. \A x \in Ops : x \in Active(k) <=> IF Recorded(stored, x) THEN x \in Active(stored) ELSE x \in Active(local)
      BY <2>1 DEF Active
    <3>2. \A x \in Ops : x \in Active(stored) => Recorded(stored, x)
      BY AbsentAssumption DEF Active, Recorded, Status
    <3>3. ASSUME NEW x \in Ops PROVE x \in Active(k) <=> x \in ToSet(k.undo)
      <4>1. x \in Active(stored) <=> Holds(stored.undo, x)
        BY <2>2, <2>14, ToSetHolds DEF UndoIsActive
      <4>2. x \in Active(local) <=> Holds(local.undo, x)
        BY <2>3, <2>14, ToSetHolds DEF UndoIsActive
      <4>3. Holds(k.undo, x) <=> Holds(stored.undo, x) \/ Holds(Kept(local.undo, U), x)
        BY <2>1, <2>2, <2>6, HoldsConcat
      <4>4. x \in ToSet(k.undo) <=> Holds(k.undo, x)
        BY <2>8, ToSetHolds DEF Typed
      <4>5. QED BY <3>1, <3>2, <4>1, <4>2, <4>3, <4>4, <2>4, <2>6
    <3>4. ToSet(k.undo) \subseteq Ops /\ Active(k) \subseteq Ops
      BY <2>8 DEF Typed, ToSet, Active
    <3>5. QED BY <3>3, <3>4 DEF UndoIsActive
  <2>15. QED BY <2>8, <2>10, <2>12, <2>13, <2>14 DEF Sound, Ordered, k
<1>3. QED BY <1>1, <1>2

------------------------------------------------------------------------------
(* What was superseded is on neither stack.                               *)

\* No entry of the stack s has been superseded.
Standing(s, j) == \A i \in 1..Len(s) : j.status[s[i]] # "superseded"

\* What leaves a stack's entries standing: any change of a status but to superseded.
LEMMA StandingStays ==
  ASSUME NEW j, Typed(j), NEW k, NEW s \in Seq(Ops), Standing(s, j), NEW o \in Ops,
         NEW st \in Status \ {"superseded"}, k.status = [j.status EXCEPT ![o] = st]
  PROVE  Standing(s, k)
<1>1. \A i \in 1..Len(s) : s[i] \in Ops
  BY ElementOfSeq
<1>2. QED BY <1>1 DEF Standing, Typed, Status

\* Both stacks of the journal j stand.
BothStand(j) == Standing(j.undo, j) /\ Standing(j.redo, j)

\* The two stacks are the line.
LEMMA LineStands ==
  ASSUME NEW j, Typed(j), BothStand(j)
  PROVE  SupersededIsGone(j)
<1> DEFINE l == Line(j)
<1>1. /\ l \in Seq(Ops) /\ Len(l) = Len(j.undo) + Len(j.redo)
      /\ \A i \in 1..Len(j.undo) : l[i] = j.undo[i]
      /\ \A i \in 1..Len(j.redo) : l[Len(j.undo) + i] = j.redo[(Len(j.redo) - i) + 1]
  BY LineIs
<1>2. /\ Len(j.undo) \in Nat /\ Len(j.redo) \in Nat
  BY LenProperties DEF Typed
<1> HIDE DEF l
<1>3. ASSUME NEW i \in 1..Len(l) PROVE j.status[l[i]] # "superseded"
  <2>1. CASE i <= Len(j.undo)
    <3>1. i \in 1..Len(j.undo)
      BY <1>1, <1>2, <2>1
    <3>2. QED BY <1>1, <3>1 DEF BothStand, Standing
  <2>2. CASE ~(i <= Len(j.undo))
    <3>1. PICK u \in Nat, r \in Nat : u = Len(j.undo) /\ r = Len(j.redo)
      BY <1>2
    <3>2. PICK n \in 1..r : i = u + n
      <4>1. i \in 1..(u + r) /\ ~(i <= u)
        BY <1>1, <2>2, <3>1
      <4>2. i - u \in 1..r /\ i = u + (i - u)
        BY <4>1
      <4>3. QED BY <4>2
    <3>3. (r - n) + 1 \in 1..r
      OBVIOUS
    <3>4. l[i] = j.redo[(r - n) + 1]
      BY <1>1, <3>1, <3>2
    <3>5. QED BY <3>1, <3>3, <3>4 DEF BothStand, Standing
  <2>3. QED BY <2>1, <2>2
<1>4. ASSUME NEW o \in ToSet(l) PROVE j.status[o] # "superseded"
  <2>1. PICK i \in 1..Len(l) : o = l[i]
    BY <1>1, LenProperties DEF ToSet
  <2>2. QED BY <2>1, <1>3
<1>5. QED BY <1>4 DEF SupersededIsGone, l

\* An entry that moves from the end of a stack to the end of the other one.
LEMMA StandingMoves ==
  ASSUME NEW j, Typed(j), NEW k, NEW s \in Seq(Ops), NEW r \in Seq(Ops), s # <<>>,
         Standing(s, j), Standing(r, j), NEW st \in Status \ {"superseded"},
         k.status = [j.status EXCEPT ![Last(s)] = st]
  PROVE  Standing(Front(s), k) /\ Standing(Append(r, Last(s)), k)
<1> DEFINE o == Last(s)
           v == Front(s)
           a == Append(r, o)
<1>1. /\ Len(s) \in Nat /\ Len(s) \in 1..Len(s) /\ o = s[Len(s)] /\ o \in Ops
      /\ v \in Seq(Ops) /\ Len(v) = Len(s) - 1
      /\ \A i \in 1..(Len(s) - 1) : i \in 1..Len(s) /\ i < Len(s) /\ v[i] = s[i]
  BY FrontAndLast
<1> HIDE DEF o, v, a
<1>2. k.status = [j.status EXCEPT ![o] = st]
  BY DEF o
<1>3. Standing(s, k) /\ Standing(r, k)
  <2>1. o \in Ops
    BY <1>1
  <2>2. ASSUME NEW q \in Seq(Ops), Standing(q, j) PROVE Standing(q, k)
    BY <1>2, <2>1, <2>2, StandingStays
  <2>3. QED BY <2>2
<1>4. Standing(v, k)
  BY <1>1, <1>3 DEF Standing
<1>5. k.status[o] # "superseded"
  BY <1>1, <1>2 DEF Typed
<1>6. \A i \in 1..Len(a) : (i \in 1..Len(r) /\ a[i] = r[i]) \/ a[i] = o
  BY <1>1 DEF a
<1>7. Standing(a, k)
  BY <1>3, <1>5, <1>6 DEF Standing
<1>8. QED BY <1>4, <1>7 DEF a, o, v

\* What appendEntry puts on a stack that stands is not superseded.
LEMMA StandingGrows ==
  ASSUME NEW j, Typed(j), BothStand(j), NEW o \in Ops, NEW s \in {"preview", "committed"}
  PROVE  BothStand(appendEntry(j, o, s))
<1> DEFINE k == appendEntry(j, o, s)
<1>1. k.undo = Append(j.undo, o) /\ k.redo = <<>> /\ k.status = [j.status EXCEPT ![o] = s]
  BY DEF appendEntry
<1> HIDE DEF k
<1>2. j.undo \in Seq(Ops) /\ Standing(j.undo, j)
  BY DEF Typed, BothStand
<1>3. s \in Status \ {"superseded"}
  BY DEF Status
<1>4. Standing(j.undo, k)
  BY <1>1, <1>2, <1>3, StandingStays
<1>5. k.status[o] # "superseded"
  BY <1>1, <1>3 DEF Typed
<1>6. \A i \in 1..Len(k.undo) : (i \in 1..Len(j.undo) /\ k.undo[i] = j.undo[i]) \/ k.undo[i] = o
  BY <1>1, <1>2
<1>7. QED BY <1>1, <1>4, <1>5, <1>6 DEF BothStand, Standing, k

\* markEntrySuperseded takes what it marks off both stacks.
LEMMA StandingShrinks ==
  ASSUME NEW j, Typed(j), BothStand(j), NEW o \in Ops
  PROVE  BothStand(markEntrySuperseded(j, o))
<1> DEFINE k == markEntrySuperseded(j, o)
           S == Ops \ {o}
<1>1. /\ k.undo = Kept(j.undo, S) /\ k.redo = Kept(j.redo, S)
      /\ k.status = [j.status EXCEPT ![o] = "superseded"]
  BY DEF markEntrySuperseded
<1> HIDE DEF k, S
<1>2. ASSUME NEW s \in Seq(Ops), Standing(s, j) PROVE Standing(Kept(s, S), k)
  <2>1. \A i \in 1..Len(Kept(s, S)) : Kept(s, S)[i] \in S /\ Holds(s, Kept(s, S)[i])
    BY KeptFollows
  <2>2. \A x : Holds(s, x) => j.status[x] # "superseded"
    BY <1>2 DEF Holds, Standing
  <2>3. \A x \in S : k.status[x] = j.status[x]
    BY <1>1 DEF S, Typed
  <2>4. QED BY <2>1, <2>2, <2>3 DEF Standing
<1>3. QED BY <1>1, <1>2 DEF BothStand, Typed, k
==============================================================================
