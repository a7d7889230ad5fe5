--------------------------- MODULE SequenceProofs ---------------------------
(***************************************************************************)
(* Lemmas about naturals, folds and the operators on sequences that the    *)
(* models are built from, for the proof modules that need them.            *)
(*                                                                         *)
(* Induction on a natural is here a fact about sets: what holds 0 and with *)
(* every number the next holds all.  A fold is a run: the accumulators     *)
(* h[0], h[1], ... of which each is the operation applied to the last.     *)
(***************************************************************************)
EXTENDS Integers, SequencesExt, FiniteSetTheorems, WellFoundedInduction, TLAPS

-----------------------------------------------------------------------------
\* Naturals.

\* A set of naturals that is not empty has a least element: its segments
\* 0..n are finite, and a strict subset is a smaller one.
LEMMA LeastOf ==
    ASSUME NEW S, S \subseteq Nat, S # {}
    PROVE  Min(S) \in S /\ \A n \in S : Min(S) <= n
<1> DEFINE T == {0 .. n : n \in S}
<1>1. T \subseteq FiniteSubsetsOf(Nat) /\ T # {}
  <2>1. ASSUME NEW n \in S
        PROVE  0 .. n \in FiniteSubsetsOf(Nat)
    BY FS_Interval DEF FiniteSubsetsOf
  <2> QED
    BY <2>1
<1>2. IsWellFoundedOn(StrictSubsetOrdering(Nat), FiniteSubsetsOf(Nat))
  BY FS_StrictSubsetOrderingWellFounded
<1>3. \E x \in T : \A y \in T : ~ (<<y, x>> \in StrictSubsetOrdering(Nat))
  <2> HIDE DEF T
  <2> QED
    BY <1>1, <1>2, WFMin
<1>4. PICK m \in S :
        \A n \in S : ~ (<<0 .. n, 0 .. m>> \in StrictSubsetOrdering(Nat))
  BY <1>3
<1>5. ASSUME NEW n \in S
      PROVE  m <= n
  <2> SUFFICES ASSUME n < m
               PROVE  FALSE
    OBVIOUS
  <2>1. <<0 .. n, 0 .. m>> \in (SUBSET Nat) \X (SUBSET Nat)
    OBVIOUS
  <2>2. 0 .. n \subseteq 0 .. m /\ 0 .. n # 0 .. m
    <3>1. m \in 0 .. m /\ m \notin 0 .. n
      OBVIOUS
    <3> QED
      BY <3>1
  <2> QED
    BY <1>4, <2>1, <2>2 DEF StrictSubsetOrdering
<1> QED
  BY <1>4, <1>5 DEF Min

\* What holds 0 and, with each number below n, the next, holds 0..n.
LEMMA UpTo ==
    ASSUME NEW n \in Nat, NEW S, 0 \in S,
           \A k \in 0 .. n - 1 : k \in S => k + 1 \in S
    PROVE  0 .. n \subseteq S
<1> DEFINE T == {k \in 0 .. n : k \notin S}
<1> SUFFICES ASSUME T # {}
             PROVE  FALSE
  OBVIOUS
<1>1. Min(T) \in T /\ \A k \in T : Min(T) <= k
  BY LeastOf
<1> HIDE DEF T
<1>2. Min(T) - 1 \in 0 .. n - 1 /\ Min(T) - 1 \notin T
  BY <1>1 DEF T
<1> QED
  BY <1>1, <1>2 DEF T

\* A set of naturals up to n that is not empty has a greatest element.
LEMMA GreatestOf ==
    ASSUME NEW n \in Nat, NEW S, S \subseteq 0 .. n, S # {}
    PROVE  Max(S) \in S /\ \A k \in S : k <= Max(S)
<1> DEFINE T == {n - k : k \in S}
<1>1. T \subseteq Nat /\ T # {}
  <2>1. \A k \in S : n - k \in Nat
    OBVIOUS
  <2>2. PICK k \in S : TRUE
    OBVIOUS
  <2>3. n - k \in T
    OBVIOUS
  <2> QED
    BY <2>1, <2>3
<1>2. Min(T) \in T /\ \A k \in T : Min(T) <= k
  BY <1>1, LeastOf
<1>3. PICK m \in S : Min(T) = n - m
  BY <1>2
<1>4. ASSUME NEW k \in S
      PROVE  k <= m
  <2>1. n - k \in T
    OBVIOUS
  <2>2. n - m <= n - k
    BY <2>1, <1>2, <1>3
  <2> QED
    BY <2>2
<1> QED
  BY <1>4 DEF Max

-----------------------------------------------------------------------------
\* Folds.

\* g is what the fold of op over 1..n, from base, goes through: its value at
\* S is that of the part of the fold over S.
FoldOf(g, n, base, op) ==
    \A S \in SUBSET (1 .. n) :
        g[S] = IF S = {} THEN base ELSE op[Max(S)][g[S \ {Max(S)}]]

\* h is a run of op over 1..n from base.
RunOf(h, n, base, op) ==
    h[0] = base /\ \A k \in 1 .. n : h[k] = op[k][h[k - 1]]

\* Where g is in T at what is left of S, it is at S what op makes of that.
StepsOf(g, n, T, op) ==
    \A S \in SUBSET (1 .. n) :
        S # {} /\ g[S \ {Max(S)}] \in T => g[S] = op[Max(S)][g[S \ {Max(S)}]]

\* There is a function that does what a fold says, for any operation that
\* stays in T.
LEMMA FoldsExist ==
    ASSUME NEW n \in Nat, NEW T, NEW base \in T, NEW op \in [1 .. n -> [T -> T]]
    PROVE  \E g \in [SUBSET (1 .. n) -> T] : FoldOf(g, n, base, op)
<1> DEFINE Below(k) == SUBSET (1 .. k)
           Folds(g, k) == \A S \in Below(k) :
                            g[S] = IF S = {} THEN base
                                   ELSE op[Max(S)][g[S \ {Max(S)}]]
           Good == {k \in 0 .. n : \E g \in [Below(k) -> T] : Folds(g, k)}
<1>1. 0 \in Good
  <2> DEFINE g == [S \in Below(0) |-> base]
  <2>1. ASSUME NEW S \in Below(0)
        PROVE  S = {}
    OBVIOUS
  <2>2. g \in [Below(0) -> T]
    OBVIOUS
  <2>3. Folds(g, 0)
    BY <2>1
  <2>4. 0 \in 0 .. n
    OBVIOUS
  <2> HIDE DEF g, Folds, Below
  <2> QED
    BY <2>2, <2>3, <2>4
<1>2. ASSUME NEW k \in 0 .. n - 1, k \in Good
      PROVE  k + 1 \in Good
  <2>1. PICK g \in [Below(k) -> T] : Folds(g, k)
    BY <1>2
  <2> DEFINE h == [S \in Below(k + 1) |->
                     IF S = {} THEN base ELSE op[Max(S)][g[S \ {Max(S)}]]]
  <2>2. ASSUME NEW S \in Below(k + 1), S # {}
        PROVE  Max(S) \in 1 .. n /\ S \ {Max(S)} \in Below(k)
    <3>1. \A i \in S : i \in 1 .. k + 1
      OBVIOUS
    <3>2. k + 1 \in Nat /\ S \subseteq 0 .. k + 1
      BY <3>1
    <3>3. Max(S) \in S /\ \A i \in S : i <= Max(S)
      BY <2>2, <3>2, GreatestOf
    <3>4. ASSUME NEW i \in S \ {Max(S)}
          PROVE  i \in 1 .. k
      <4>1. i \in 1 .. k + 1 /\ Max(S) \in 1 .. k + 1
        BY <3>1, <3>3
      <4>2. i <= Max(S) /\ i # Max(S)
        BY <3>3
      <4> QED
        BY <4>1, <4>2
    <3>5. Max(S) \in 1 .. n
      <4>1. Max(S) \in 1 .. k + 1
        BY <3>1, <3>3
      <4> QED
        BY <4>1
    <3> QED
      BY <3>4, <3>5
  <2>3. h \in [Below(k + 1) -> T]
    <3>1. ASSUME NEW S \in Below(k + 1)
          PROVE  (IF S = {} THEN base ELSE op[Max(S)][g[S \ {Max(S)}]]) \in T
      <4>1. CASE S # {}
        <5>1. Max(S) \in 1 .. n /\ S \ {Max(S)} \in Below(k)
          BY <2>2, <4>1
        <5>2. g[S \ {Max(S)}] \in T
          BY <5>1
        <5>3. op[Max(S)] \in [T -> T]
          BY <5>1
        <5> QED
          BY <4>1, <5>2, <5>3
      <4> QED
        BY <4>1
    <3> QED
      BY <3>1
  <2>4. ASSUME NEW S \in Below(k)
        PROVE  h[S] = g[S]
    <3>1. \A i \in S : i \in 1 .. k + 1
      OBVIOUS
    <3>2. S \in Below(k + 1)
      BY <3>1
    <3> QED
      BY <3>2, <2>1
  <2>5. Folds(h, k + 1)
    <3>1. ASSUME NEW S \in Below(k + 1)
          PROVE  h[S] = IF S = {} THEN base ELSE op[Max(S)][h[S \ {Max(S)}]]
      <4>1. S # {} => h[S \ {Max(S)}] = g[S \ {Max(S)}]
        BY <2>2, <2>4
      <4> QED
        BY <4>1
    <3> QED
      BY <3>1
  <2>6. k + 1 \in 0 .. n
    OBVIOUS
  <2> HIDE DEF h, Folds, Below
  <2> QED
    BY <2>3, <2>5, <2>6
<1>3. 0 .. n \subseteq Good
  <2> HIDE DEF Good
  <2> QED
    BY <1>1, <1>2, UpTo
<1>4. n \in Good
  <2>1. n \in 0 .. n
    OBVIOUS
  <2> HIDE DEF Good
  <2> QED
    BY <2>1, <1>3
<1> QED
  BY <1>4 DEF FoldOf

\* What a fold computes is the end of a run: of the accumulators h[0..n]
\* each is the operation applied to the last.
LEMMA FoldRuns ==
    ASSUME NEW n \in Nat, NEW T, NEW base \in T,
           NEW op \in [1 .. n -> [T -> T]],
           NEW g, DOMAIN g = SUBSET (1 .. n), g[{}] = base,
           StepsOf(g, n, T, op)
    PROVE  \E h \in [0 .. n -> T] : h[n] = g[1 .. n] /\ RunOf(h, n, base, op)
<1> DEFINE h == [k \in 0 .. n |-> g[1 .. k]]
           Good == {k \in 0 .. n : h[k] \in T}
<1>1. h[0] = base
  <2>1. 1 .. 0 = {}
    OBVIOUS
  <2> QED
    BY <2>1
<1>2. ASSUME NEW k \in 0 .. n - 1, h[k] \in T
      PROVE  h[k + 1] = op[k + 1][h[k]]
  <2> DEFINE S == 1 .. k + 1
  <2>1. k + 1 \in Nat /\ S \subseteq 0 .. k + 1 /\ k + 1 \in S
    OBVIOUS
  <2>2. S \in SUBSET (1 .. n)
    OBVIOUS
  <2>3. Max(S) = k + 1
    <3>1. Max(S) \in S /\ \A i \in S : i <= Max(S)
      <4> HIDE DEF S
      <4> QED
        BY <2>1, GreatestOf
    <3> QED
      BY <2>1, <3>1
  <2>4. (1 .. k + 1) \ {k + 1} = 1 .. k
    OBVIOUS
  <2>5. S # {} /\ S \ {Max(S)} = 1 .. k
    BY <2>1, <2>3, <2>4
  <2>6. h[k + 1] = g[S] /\ h[k] = g[1 .. k]
    OBVIOUS
  <2>7. g[S \ {Max(S)}] \in T
    BY <1>2, <2>5, <2>6
  <2>8. g[S] = op[Max(S)][g[S \ {Max(S)}]]
    <3> HIDE DEF S, h
    <3> QED
      BY <2>2, <2>5, <2>7 DEF StepsOf
  <2> QED
    BY <2>3, <2>5, <2>6, <2>8
<1>3. ASSUME NEW k \in 0 .. n - 1, k \in Good
      PROVE  k + 1 \in Good
  <2>1. h[k + 1] = op[k + 1][h[k]]
    BY <1>2, <1>3
  <2>2. op[k + 1] \in [T -> T]
    OBVIOUS
  <2>3. op[k + 1][h[k]] \in T
    BY <1>3, <2>2
  <2> QED
    BY <2>1, <2>3
<1>4. 0 .. n \subseteq Good
  <2>1. 0 \in Good
    BY <1>1
  <2> HIDE DEF Good
  <2> QED
    BY <2>1, <1>3, UpTo
<1>5. h \in [0 .. n -> T]
  BY <1>4
<1>6. ASSUME NEW k \in 1 .. n
      PROVE  h[k] = op[k][h[k - 1]]
  <2>1. k - 1 \in 0 .. n - 1 /\ (k - 1) + 1 = k
    OBVIOUS
  <2>2. h[k - 1] \in T
    BY <2>1, <1>5
  <2> HIDE DEF h
  <2> QED
    BY <2>1, <2>2, <1>2
<1>7. h[n] = g[1 .. n]
  OBVIOUS
<1> HIDE DEF h
<1> QED
  BY <1>1, <1>5, <1>6, <1>7 DEF RunOf

-----------------------------------------------------------------------------
\* Sequences.

\* One sequence after another.
LEMMA ConcatIs ==
    ASSUME NEW A, NEW s \in Seq(A), NEW t \in Seq(A)
    PROVE  /\ s \o t \in Seq(A) /\ Len(s \o t) = Len(s) + Len(t)
           /\ \A n \in 1 .. Len(s) : (s \o t)[n] = s[n]
           /\ \A n \in 1 .. Len(t) : (s \o t)[Len(s) + n] = t[n]
  OBVIOUS

\* What a sequence is without its place p.
LEMMA RemoveAtIs ==
    ASSUME NEW A, NEW s \in Seq(A), NEW p \in 1 .. Len(s)
    PROVE  /\ RemoveAt(s, p) \in Seq(A)
           /\ Len(RemoveAt(s, p)) = Len(s) - 1
           /\ \A n \in 1 .. Len(s) - 1 :
                RemoveAt(s, p)[n] = IF n < p THEN s[n] ELSE s[n + 1]
<1> DEFINE left == SubSeq(s, 1, p - 1)
           right == SubSeq(s, p + 1, Len(s))
<1>1. left \in Seq(A) /\ Len(left) = p - 1 /\ \A n \in 1 .. p - 1 : left[n] = s[n]
  OBVIOUS
<1>2. /\ right \in Seq(A) /\ Len(right) = Len(s) - p
      /\ \A n \in 1 .. Len(s) - p : right[n] = s[n + p]
  OBVIOUS
<1>3. RemoveAt(s, p) = left \o right
  BY DEF RemoveAt
<1> HIDE DEF left, right
<1>4. left \o right \in Seq(A) /\ Len(left \o right) = Len(s) - 1
  <2>1. Len(left \o right) = Len(left) + Len(right)
    BY <1>1, <1>2, ConcatIs
  <2> QED
    BY <1>1, <1>2, <2>1, ConcatIs
<1>5. ASSUME NEW n \in 1 .. Len(s) - 1
      PROVE  (left \o right)[n] = IF n < p THEN s[n] ELSE s[n + 1]
  <2>1. CASE n < p
    BY <1>1, <1>2, <2>1
  <2>2. CASE n >= p
    <3> DEFINE m == n - (p - 1)
    <3>1. m \in 1 .. Len(s) - p /\ m + p = n + 1 /\ n = Len(left) + m
      BY <1>1, <2>2
    <3> HIDE DEF m
    <3>2. (left \o right)[n] = right[m]
      BY <1>1, <1>2, <3>1, ConcatIs
    <3> QED
      BY <1>2, <2>2, <3>1, <3>2
  <2>3. Len(s) \in Nat /\ (n < p \/ n >= p)
    <3>1. Len(s) \in Nat
      OBVIOUS
    <3> QED
      BY <3>1
  <2> QED
    BY <2>1, <2>2, <2>3
<1> QED
  BY <1>3, <1>4, <1>5

\* t is s with e put in at place p.
Inserted(t, s, p, e) ==
    /\ Len(t) = Len(s) + 1
    /\ \A n \in 1 .. Len(s) + 1 :
         t[n] = IF n < p THEN s[n] ELSE IF n = p THEN e ELSE s[n - 1]

\* That is what InsertAt makes.
LEMMA InsertAtIs ==
    ASSUME NEW A, NEW s \in Seq(A), NEW e \in A, NEW p \in 1 .. Len(s) + 1
    PROVE  /\ InsertAt(s, p, e) \in Seq(A)
           /\ Inserted(InsertAt(s, p, e), s, p, e)
<1> DEFINE left == SubSeq(s, 1, p - 1)
           right == SubSeq(s, p, Len(s))
<1>1. left \in Seq(A) /\ Len(left) = p - 1 /\ \A n \in 1 .. p - 1 : left[n] = s[n]
  OBVIOUS
<1>2. /\ right \in Seq(A) /\ Len(right) = Len(s) - p + 1
      /\ \A n \in 1 .. Len(s) - p + 1 : right[n] = s[n + p - 1]
  OBVIOUS
<1>3. InsertAt(s, p, e) = (left \o <<e>>) \o right
  BY DEF InsertAt
<1> HIDE DEF left, right
<1> DEFINE front == left \o <<e>>
<1>4. front \in Seq(A) /\ Len(front) = p /\ front[p] = e
      /\ \A n \in 1 .. p - 1 : front[n] = s[n]
  BY <1>1
<1> HIDE DEF front
<1>5. front \o right \in Seq(A) /\ Len(front \o right) = Len(s) + 1
  <2>1. Len(front \o right) = Len(front) + Len(right)
    BY <1>2, <1>4, ConcatIs
  <2> QED
    BY <1>2, <1>4, <2>1, ConcatIs
<1>6. ASSUME NEW n \in 1 .. Len(s) + 1
      PROVE  (front \o right)[n] = IF n < p THEN s[n]
                                   ELSE IF n = p THEN e ELSE s[n - 1]
  <2>1. CASE n <= p
    BY <1>2, <1>4, <2>1
  <2>2. CASE n > p
    <3> DEFINE m == n - p
    <3>1. m \in 1 .. Len(s) - p + 1 /\ m + p - 1 = n - 1 /\ n = Len(front) + m
      BY <1>4, <2>2
    <3> HIDE DEF m
    <3>2. (front \o right)[n] = right[m]
      BY <1>2, <1>4, <3>1, ConcatIs
    <3> QED
      BY <1>2, <2>2, <3>1, <3>2
  <2>3. Len(s) \in Nat /\ (n <= p \/ n > p)
    <3>1. Len(s) \in Nat
      OBVIOUS
    <3> QED
      BY <3>1
  <2> QED
    BY <2>1, <2>2, <2>3
<1> QED
  BY <1>3, <1>5, <1>6 DEF front, Inserted

\* A sequence that has e once at most has, without it, its other elements in
\* the same order.
LEMMA RemoveFirstIs ==
    ASSUME NEW A, NEW s \in Seq(A), NEW e,
           \A m, n \in 1 .. Len(s) : s[m] = s[n] => m = n
    PROVE  LET t == RemoveFirst(s, e) IN
           /\ t \in Seq(A)
           /\ \A m \in 1 .. Len(t) : t[m] # e /\ \E k \in 1 .. Len(s) : t[m] = s[k]
           /\ \A k \in 1 .. Len(s) : s[k] # e => \E m \in 1 .. Len(t) : t[m] = s[k]
           /\ \A m, n \in 1 .. Len(t) :
                m < n => \E k, l \in 1 .. Len(s) : k < l /\ t[m] = s[k] /\ t[n] = s[l]
           /\ s # <<>> /\ s[1] # e => t # <<>> /\ t[1] = s[1]
           /\ (\A k \in 1 .. Len(s) : s[k] # e) => t = s
<1> DEFINE I == {i \in 1 .. Len(s) : s[i] = e}
           p == Min(I)
           t == RemoveFirst(s, e)
<1>1. CASE I = {}
  <2>1. RemoveFirst(s, e) = s
    BY <1>1 DEF RemoveFirst
  <2> QED
    BY <1>1, <2>1
<1>2. CASE I # {}
  <2>1. p \in I
    <3>1. I \subseteq Nat
      OBVIOUS
    <3> HIDE DEF I
    <3> QED
      BY <1>2, <3>1, LeastOf
  <2>2. t = RemoveAt(s, p)
    BY <1>2 DEF RemoveFirst, SelectInSeq
  <2> HIDE DEF p
  <2>3. /\ t \in Seq(A) /\ Len(t) = Len(s) - 1
        /\ \A n \in 1 .. Len(s) - 1 : t[n] = IF n < p THEN s[n] ELSE s[n + 1]
    <3>1. p \in 1 .. Len(s)
      BY <2>1
    <3> HIDE DEF t
    <3> QED
      BY <2>2, <3>1, RemoveAtIs
  <2> HIDE DEF t
  <2> DEFINE From(n) == IF n < p THEN n ELSE n + 1
  <2>4. ASSUME NEW m \in 1 .. Len(t)
        PROVE  From(m) \in 1 .. Len(s) /\ t[m] = s[From(m)] /\ From(m) # p
    BY <2>1, <2>3
  <2>5. \A m, n \in 1 .. Len(t) : m < n => From(m) < From(n)
    BY <2>1, <2>3
  <2>6. \A m \in 1 .. Len(t) : t[m] # e /\ \E k \in 1 .. Len(s) : t[m] = s[k]
    BY <2>1, <2>4
  <2>7. ASSUME NEW k \in 1 .. Len(s), s[k] # e
        PROVE  \E m \in 1 .. Len(t) : t[m] = s[k]
    <3>1. CASE k < p
      BY <2>1, <2>3, <3>1
    <3>2. CASE k >= p
      <4>1. k > p
        BY <2>1, <2>7, <3>2
      <4>2. k - 1 \in 1 .. Len(t) /\ t[k - 1] = s[k]
        BY <2>1, <2>3, <4>1
      <4> QED
        BY <4>2
    <3> QED
      BY <3>1, <3>2, <2>1
  <2>8. \A m, n \in 1 .. Len(t) :
          m < n => \E k, l \in 1 .. Len(s) : k < l /\ t[m] = s[k] /\ t[n] = s[l]
    <3> HIDE DEF From
    <3> QED
      BY <2>4, <2>5
  <2>9. s # <<>> /\ s[1] # e => t # <<>> /\ t[1] = s[1]
    BY <2>1, <2>3
  <2>10. ~ \A k \in 1 .. Len(s) : s[k] # e
    BY <2>1
  <2> QED
    BY <2>3, <2>6, <2>7, <2>8, <2>9, <2>10 DEF t
<1> QED
  BY <1>1, <1>2

=============================================================================
