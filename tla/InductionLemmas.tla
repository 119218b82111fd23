--------------------------- MODULE InductionLemmas ---------------------------
(* What the proofs about recursive functions and stacks rest on: least      *)
(* numbers, and with them induction over sets of numbers; functions defined *)
(* by recursion on numbers; sets that shrink step by step until nothing is  *)
(* left to remove; sequences used as stacks, and flattened sequences.       *)
EXTENDS Naturals, Sequences, SequencesExt, FiniteSets, FiniteSetTheorems,
        SequenceTheorems, WellFoundedInduction, TLAPS

(* The intervals 0 .. n are finite sets, and of these there are no infinite *)
(* descending chains.                                                       *)
LEMMA LeastNumber ==
    ASSUME NEW S, S \subseteq Nat, S # {}
    PROVE  \E n \in S : \A m \in S : n <= m
  <1> DEFINE Below == {0 .. n : n \in S}
  <1>1. Below \subseteq FiniteSubsetsOf(Nat) /\ Below # {}
    <2>1. ASSUME NEW n \in S
          PROVE  0 .. n \in FiniteSubsetsOf(Nat)
      <3>1. IsFiniteSet(0 .. n)
        BY FS_Interval
      <3> QED
        BY <3>1 DEF FiniteSubsetsOf
    <2> QED
      BY <2>1
  <1>2. PICK x \in Below : \A y \in Below : <<y, x>> \notin StrictSubsetOrdering(Nat)
    BY <1>1, WFMin, FS_StrictSubsetOrderingWellFounded, Zenon
  <1>3. PICK n \in S : x = 0 .. n
    BY <1>2
  <1>4. ASSUME NEW m \in S, m < n
        PROVE  FALSE
    <2>1. <<0 .. m, 0 .. n>> \in StrictSubsetOrdering(Nat)
      BY <1>4, n \notin 0 .. m, n \in 0 .. n DEF StrictSubsetOrdering
    <2> QED
      BY <1>2, <1>3, <2>1
  <1> QED
    BY <1>3, <1>4

LEMMA InductionUpTo ==
    ASSUME NEW N \in Nat, NEW S, 0 \in S,
           \A n \in 0 .. N : n # N /\ n \in S => n + 1 \in S
    PROVE  0 .. N \subseteq S
  <1> SUFFICES ASSUME 0 .. N \ S # {}
               PROVE  FALSE
    OBVIOUS
  <1>1. PICK n \in 0 .. N \ S : \A m \in 0 .. N \ S : n <= m
    <2>1. 0 .. N \ S \subseteq Nat
      OBVIOUS
    <2> QED
      BY <2>1, LeastNumber
  <1>2. n # 0 /\ n - 1 \in 0 .. N /\ n - 1 \notin 0 .. N \ S
    BY <1>1
  <1> QED
    BY <1>1, <1>2

-----------------------------------------------------------------------------
(* A recursive function on numbers, of which each value is what F makes of   *)
(* the one before.                                                          *)
Recurs(g, F, A, N) == /\ g[0] = A
                      /\ \A n \in 1 .. N : g[n] = F[<<n, g[n - 1]>>]

LEMMA RecursionExists ==
    ASSUME NEW N \in Nat, NEW P, NEW A \in P, NEW F \in [(1 .. N) \X P -> P]
    PROVE  \E g \in [0 .. N -> P] : Recurs(g, F, A, N)
  <1> DEFINE Good(n) == \E g \in [0 .. n -> P] : Recurs(g, F, A, n)
             S == {n \in Nat : Good(n)}
  <1>1. 0 \in S
    <2>1. [n \in 0 .. 0 |-> A] \in [0 .. 0 -> P]
      OBVIOUS
    <2>2. Recurs([n \in 0 .. 0 |-> A], F, A, 0)
      BY DEF Recurs
    <2> QED
      BY <2>1, <2>2
  <1>2. ASSUME NEW n \in 0 .. N, n # N, n \in S
        PROVE  n + 1 \in S
    <2>1. PICK g \in [0 .. n -> P] : Recurs(g, F, A, n)
      BY <1>2
    <2> DEFINE h == [m \in 0 .. n + 1 |-> IF m = n + 1 THEN F[<<n + 1, g[n]>>] ELSE g[m]]
    <2>2. g[n] \in P /\ F[<<n + 1, g[n]>>] \in P
      <3>1. n + 1 \in 1 .. N /\ n \in 0 .. n
        BY <1>2
      <3> QED
        BY <2>1, <3>1
    <2>3. h \in [0 .. n + 1 -> P]
      BY <2>1, <2>2
    <2>4. Recurs(h, F, A, n + 1)
      <3>1. h[0] = A
        BY <2>1 DEF Recurs
      <3>2. ASSUME NEW m \in 1 .. n + 1
            PROVE  h[m] = F[<<m, h[m - 1]>>]
        <4>1. m - 1 \in 0 .. n /\ h[m - 1] = g[m - 1]
          OBVIOUS
        <4>2. CASE m = n + 1
          <5>1. m - 1 = n /\ <<m, g[m - 1]>> = <<n + 1, g[n]>>
            BY <4>2
          <5>2. h[m] = F[<<n + 1, g[n]>>]
            BY <4>2
          <5> QED
            BY <4>1, <5>1, <5>2
        <4>3. CASE m # n + 1
          <5>1. m \in 1 .. n
            BY <4>3
          <5> QED
            BY <2>1, <4>1, <5>1 DEF Recurs
        <4> QED
          BY <4>2, <4>3
      <3> QED
        BY <3>1, <3>2 DEF Recurs
    <2> QED
      BY <2>3, <2>4
  <1>3. 0 .. N \subseteq S
    <2> HIDE DEF S
    <2> QED
      BY <1>1, <1>2, InductionUpTo
  <1> QED
    BY <1>3

-----------------------------------------------------------------------------
(* From a set A the step F removes some of its elements at a time.          *)
IsStep(F, P) == F \in [SUBSET P -> SUBSET P] /\ \A X \in SUBSET P : F[X] \subseteq X
AreIterates(g, F, A, N) == /\ g[0] = A
                           /\ \A n \in 1 .. N : g[n] = F[g[n - 1]]

LEMMA IteratesExist ==
    ASSUME NEW P, NEW F, IsStep(F, P), NEW A \in SUBSET P, NEW N \in Nat
    PROVE  \E g \in [0 .. N -> SUBSET P] : AreIterates(g, F, A, N)
  <1> DEFINE Good(n) == \E g \in [0 .. n -> SUBSET P] : AreIterates(g, F, A, n)
             S == {n \in Nat : Good(n)}
  <1>1. 0 \in S
    <2>1. [n \in 0 .. 0 |-> A] \in [0 .. 0 -> SUBSET P]
      OBVIOUS
    <2>2. AreIterates([n \in 0 .. 0 |-> A], F, A, 0)
      BY DEF AreIterates
    <2> QED
      BY <2>1, <2>2
  <1>2. ASSUME NEW n \in 0 .. N, n \in S
        PROVE  n + 1 \in S
    <2>1. PICK g \in [0 .. n -> SUBSET P] : AreIterates(g, F, A, n)
      BY <1>2
    <2> DEFINE h == [m \in 0 .. n + 1 |-> IF m = n + 1 THEN F[g[n]] ELSE g[m]]
    <2>2. g[n] \in SUBSET P /\ F[g[n]] \in SUBSET P
      BY <2>1 DEF IsStep
    <2>3. h \in [0 .. n + 1 -> SUBSET P]
      BY <2>1, <2>2
    <2>4. AreIterates(h, F, A, n + 1)
      <3>1. h[0] = A
        BY <2>1 DEF AreIterates
      <3>2. ASSUME NEW m \in 1 .. n + 1
            PROVE  h[m] = F[h[m - 1]]
        BY <2>1, m - 1 \in 0 .. n DEF AreIterates
      <3> QED
        BY <3>1, <3>2 DEF AreIterates
    <2> QED
      BY <2>3, <2>4
  <1>3. 0 .. N \subseteq S
    <2> HIDE DEF S
    <2> QED
      BY <1>1, <1>2, InductionUpTo
  <1> QED
    BY <1>3

(* A function defined by such steps has the sets for its values.            *)
LEMMA IteratesUnfold ==
    ASSUME NEW P, NEW F, IsStep(F, P), NEW A \in SUBSET P, NEW N \in Nat,
           NEW f, f = [n \in 0 .. N |-> f[n]], f[0] = A,
           \A n \in 1 .. N : f[n - 1] \in SUBSET P => f[n] = F[f[n - 1]]
    PROVE  f \in [0 .. N -> SUBSET P] /\ AreIterates(f, F, A, N)
  <1> DEFINE S == {n \in 0 .. N : f[n] \in SUBSET P}
  <1>1. 0 \in S
    OBVIOUS
  <1>2. ASSUME NEW n \in 0 .. N, n # N, n \in S
        PROVE  n + 1 \in S
    <2>1. f[n] \in SUBSET P /\ n + 1 \in 1 .. N /\ (n + 1) - 1 = n
      BY <1>2
    <2>2. f[n + 1] = F[f[n]]
      BY <2>1
    <2> QED
      BY <2>1, <2>2 DEF IsStep
  <1>3. 0 .. N \subseteq S
    <2> HIDE DEF S
    <2> QED
      BY <1>1, <1>2, InductionUpTo
  <1>4. \A n \in 0 .. N : f[n] \in SUBSET P
    BY <1>3
  <1>5. \A n \in 1 .. N : n - 1 \in 0 .. N
    OBVIOUS
  <1>6. f \in [0 .. N -> SUBSET P]
    BY <1>4
  <1> QED
    BY <1>4, <1>5, <1>6 DEF AreIterates

LEMMA IteratesShrink ==
    ASSUME NEW P, NEW F, IsStep(F, P), NEW A \in SUBSET P, NEW N \in Nat,
           NEW g \in [0 .. N -> SUBSET P], AreIterates(g, F, A, N)
    PROVE  \A n \in 0 .. N : g[n] \subseteq A
  <1> DEFINE S == {n \in 0 .. N : g[n] \subseteq A}
  <1>1. 0 \in S
    BY DEF AreIterates
  <1>2. ASSUME NEW n \in 0 .. N, n # N, n \in S
        PROVE  n + 1 \in S
    BY <1>2, n + 1 \in 1 .. N, (n + 1) - 1 = n DEF AreIterates, IsStep
  <1>3. 0 .. N \subseteq S
    <2> HIDE DEF S
    <2> QED
      BY <1>1, <1>2, InductionUpTo
  <1> QED
    BY <1>3

(* What no step removes is never removed.                                   *)
LEMMA IteratesKeep ==
    ASSUME NEW P, NEW F, IsStep(F, P), NEW A \in SUBSET P, NEW N \in Nat,
           NEW g \in [0 .. N -> SUBSET P], AreIterates(g, F, A, N),
           NEW B \in SUBSET A,
           \A X \in SUBSET P : B \subseteq X => B \subseteq F[X]
    PROVE  \A n \in 0 .. N : B \subseteq g[n]
  <1> DEFINE S == {n \in 0 .. N : B \subseteq g[n]}
  <1>1. 0 \in S
    BY DEF AreIterates
  <1>2. ASSUME NEW n \in 0 .. N, n # N, n \in S
        PROVE  n + 1 \in S
    BY <1>2, n + 1 \in 1 .. N, (n + 1) - 1 = n, g[n] \in SUBSET P DEF AreIterates
  <1>3. 0 .. N \subseteq S
    <2> HIDE DEF S
    <2> QED
      BY <1>1, <1>2, InductionUpTo
  <1> QED
    BY <1>3

(* After as many steps as A has elements, nothing is left to remove.        *)
LEMMA IteratesEnd ==
    ASSUME NEW P, NEW F, IsStep(F, P), NEW A \in SUBSET P, IsFiniteSet(A),
           NEW N \in Nat, Cardinality(A) <= N,
           NEW g \in [0 .. N -> SUBSET P], AreIterates(g, F, A, N)
    PROVE  /\ Cardinality(A) \in 0 .. N
           /\ F[g[Cardinality(A)]] = g[Cardinality(A)]
  <1> DEFINE c == Cardinality(A)
             Left(n) == Cardinality(g[n])
             S == {n \in 0 .. N : F[g[n]] = g[n] \/ Left(n) <= c - n}
  <1>1. c \in Nat /\ c \in 0 .. N
    BY FS_CardinalityType
  <1>2. \A n \in 0 .. N : g[n] \in SUBSET A /\ IsFiniteSet(g[n]) /\ Left(n) \in Nat
    BY IteratesShrink, FS_Subset, FS_CardinalityType
  <1>3. 0 \in S
    BY <1>1, <1>2 DEF AreIterates
  <1>4. ASSUME NEW n \in 0 .. N, n # N, n \in S
        PROVE  n + 1 \in S
    <2>1. n + 1 \in 0 .. N /\ g[n + 1] = F[g[n]]
      BY <1>4, n + 1 \in 1 .. N, (n + 1) - 1 = n DEF AreIterates
    <2>2. CASE F[g[n]] = g[n]
      BY <2>1, <2>2
    <2>3. CASE F[g[n]] # g[n] /\ Left(n) <= c - n
      <3>1. g[n + 1] \in SUBSET g[n] /\ g[n + 1] # g[n]
        BY <2>1, <2>3, g[n] \in SUBSET P DEF IsStep
      <3>2. Left(n + 1) <= Left(n) /\ Left(n + 1) # Left(n)
        BY <3>1, <1>2, FS_Subset
      <3>3. Left(n) \in Nat /\ Left(n + 1) \in Nat
        BY <1>2, <2>1
      <3>4. Left(n + 1) <= c - (n + 1)
        <4> HIDE DEF c, Left
        <4> QED
          BY <1>1, <2>3, <3>2, <3>3
      <3> QED
        BY <2>1, <3>4
    <2> QED
      BY <1>4, <2>2, <2>3
  <1>5. 0 .. N \subseteq S
    <2> HIDE DEF S
    <2> QED
      BY <1>3, <1>4, InductionUpTo
  <1>6. CASE Left(c) <= c - c
    <2>1. g[c] = {}
      BY <1>1, <1>2, <1>6, FS_EmptySet
    <2>2. F[g[c]] \subseteq g[c]
      BY <1>1, g[c] \in SUBSET P DEF IsStep
    <2> QED
      BY <1>1, <2>1, <2>2
  <1> QED
    BY <1>1, <1>5, <1>6

-----------------------------------------------------------------------------
(* Stacks: sequences whose first element is the innermost one.              *)
LEMMA SeqOfMore ==
    ASSUME NEW S, NEW T, S \subseteq T
    PROVE  Seq(S) \subseteq Seq(T)
  BY SeqDef

LEMMA Pop ==
    ASSUME NEW S, NEW s \in Seq(S), s # <<>>
    PROVE  /\ Len(s) \in Nat \ {0} /\ Head(s) = s[1] /\ s[1] \in S
           /\ Tail(s) \in Seq(S) /\ Len(Tail(s)) = Len(s) - 1
           /\ \A i \in 1 .. Len(s) - 1 : Tail(s)[i] = s[i + 1]
  BY HeadTailProperties, ElementOfSeq, EmptySeq

LEMMA Push ==
    ASSUME NEW S, NEW s \in Seq(S), NEW x \in S
    PROVE  /\ <<x>> \o s \in Seq(S) /\ Len(<<x>> \o s) = Len(s) + 1
           /\ (<<x>> \o s)[1] = x
           /\ \A i \in 1 .. Len(s) : (<<x>> \o s)[i + 1] = s[i]
  BY ConcatProperties

LEMMA PutFirst ==
    ASSUME NEW S, NEW s \in Seq(S), s # <<>>, NEW x \in S
    PROVE  /\ <<x>> \o Tail(s) \in Seq(S) /\ Len(<<x>> \o Tail(s)) = Len(s)
           /\ (<<x>> \o Tail(s))[1] = x
           /\ \A i \in 2 .. Len(s) : (<<x>> \o Tail(s))[i] = s[i]
  <1>1. Tail(s) \in Seq(S) /\ Len(Tail(s)) = Len(s) - 1 /\ Len(s) \in Nat \ {0}
    BY Pop
  <1>2. ASSUME NEW i \in 2 .. Len(s)
        PROVE  (<<x>> \o Tail(s))[i] = s[i]
    <2>1. i - 1 \in 1 .. Len(Tail(s)) /\ i - 1 \in 1 .. Len(s) - 1 /\ (i - 1) + 1 = i
      BY <1>1
    <2>2. (<<x>> \o Tail(s))[(i - 1) + 1] = Tail(s)[i - 1]
      BY <1>1, <2>1, Push
    <2> QED
      BY <2>1, <2>2, Pop
  <1> QED
    BY <1>1, <1>2, Push

-----------------------------------------------------------------------------
(* To a set the step F adds elements at a time, those that every set F      *)
(* leaves alone has already.  The recursion ends in the least such set.     *)
IsGrowth(F, P) ==
    /\ F \in [SUBSET P -> SUBSET P]
    /\ \A X \in SUBSET P : X \subseteq F[X]
    /\ \A X, Y \in SUBSET P : X \subseteq Y /\ F[Y] = Y => F[X] \subseteq Y

GrownBy(F, P, f) == f = [X \in SUBSET P |-> IF F[X] = X THEN X ELSE f[F[X]]]

LEMMA GrowthExists ==
    ASSUME NEW P, NEW F, IsGrowth(F, P)
    PROVE  \E f : GrownBy(F, P, f)
  <1> DEFINE Ends(X) == {Y \in SUBSET P : X \subseteq Y /\ F[Y] = Y}
             Least(X) == {p \in P : \A Y \in Ends(X) : p \in Y}
             f == [X \in SUBSET P |-> Least(X)]
  <1>1. ASSUME NEW X \in SUBSET P, F[X] = X
        PROVE  f[X] = X
    BY <1>1
  <1>2. ASSUME NEW X \in SUBSET P
        PROVE  f[X] = f[F[X]]
    <2>1. F[X] \in SUBSET P /\ X \subseteq F[X]
      BY DEF IsGrowth
    <2>2. Ends(X) = Ends(F[X])
      BY <2>1 DEF IsGrowth
    <2> QED
      BY <2>1, <2>2
  <1>3. ASSUME NEW X \in SUBSET P
        PROVE  f[X] = IF F[X] = X THEN X ELSE f[F[X]]
    BY <1>1, <1>2
  <1>4. f = [X \in SUBSET P |-> f[X]]
    OBVIOUS
  <1> HIDE DEF f
  <1>5. GrownBy(F, P, f)
    BY <1>3, <1>4 DEF GrownBy
  <1> QED
    BY <1>5

GrownTo(F, P, f, X) ==
    /\ f[X] \in SUBSET P /\ X \subseteq f[X] /\ F[f[X]] = f[X]
    /\ \A Y \in SUBSET P : X \subseteq Y /\ F[Y] = Y => f[X] \subseteq Y

LEMMA GrowthEnds ==
    ASSUME NEW P, IsFiniteSet(P), NEW F, IsGrowth(F, P), NEW f, GrownBy(F, P, f),
           NEW X \in SUBSET P
    PROVE  GrownTo(F, P, f, X)
  <1> DEFINE Left(Z) == Cardinality(P \ Z)
             Bad == {Z \in SUBSET P : ~GrownTo(F, P, f, Z)}
  <1> SUFFICES ASSUME Bad # {}
               PROVE  FALSE
    OBVIOUS
  <1>1. \A Z \in SUBSET P : IsFiniteSet(P \ Z) /\ Left(Z) \in Nat
    BY FS_Subset, FS_CardinalityType
  <1>2. PICK n \in {Left(Z) : Z \in Bad} : \A m \in {Left(Z) : Z \in Bad} : n <= m
    <2>1. {Left(Z) : Z \in Bad} \subseteq Nat /\ {Left(Z) : Z \in Bad} # {}
      BY <1>1
    <2> QED
      BY <2>1, LeastNumber
  <1>3. PICK Z \in Bad : n = Left(Z)
    BY <1>2
  <1>4. F[Z] \in SUBSET P /\ Z \subseteq F[Z]
    BY <1>3 DEF IsGrowth
  <1>5. f[Z] = IF F[Z] = Z THEN Z ELSE f[F[Z]]
    BY <1>3 DEF GrownBy
  <1>6. CASE F[Z] = Z
    BY <1>3, <1>5, <1>6 DEF GrownTo
  <1>7. CASE F[Z] # Z
    <2>1. P \ F[Z] \in SUBSET (P \ Z) /\ P \ F[Z] # P \ Z
      BY <1>3, <1>4, <1>7
    <2>2. Left(F[Z]) <= Left(Z) /\ Left(F[Z]) # Left(Z)
      BY <1>1, <1>3, <1>4, <2>1, FS_Subset
    <2>3. Left(F[Z]) \in Nat /\ Left(Z) \in Nat
      BY <1>1, <1>3, <1>4
    <2>4. F[Z] \notin Bad
      <3> SUFFICES ASSUME F[Z] \in Bad
                   PROVE  FALSE
        OBVIOUS
      <3>1. Left(Z) <= Left(F[Z])
        BY <1>2, <1>3
      <3> HIDE DEF Left
      <3> QED
        BY <2>2, <2>3, <3>1
    <2>5. GrownTo(F, P, f, F[Z])
      BY <1>4, <2>4
    <2>6. \A Y \in SUBSET P : Z \subseteq Y /\ F[Y] = Y => F[Z] \subseteq Y
      BY <1>3 DEF IsGrowth
    <2>7. GrownTo(F, P, f, Z)
      BY <1>4, <1>5, <1>7, <2>5, <2>6 DEF GrownTo
    <2> QED
      BY <1>3, <2>7
  <1> QED
    BY <1>6, <1>7

-----------------------------------------------------------------------------
(* Sequences put after each other.                                          *)
FlatTo(f, q, i) == IF i = 1 THEN q[i] ELSE f[i - 1] \o q[i]
IsFlat(f, q, n) == f = [i \in 1 .. n |-> FlatTo(f, q, i)]
IsColumn(f, n) == f = [i \in 1 .. n |-> f[i]]

LEMMA FlatIs ==
    ASSUME NEW f, NEW q, NEW n
    PROVE  IsFlat(f, q, n) <=> IsColumn(f, n) /\ \A i \in 1 .. n : f[i] = FlatTo(f, q, i)
  <1>1. ASSUME IsFlat(f, q, n)
        PROVE  IsColumn(f, n) /\ \A i \in 1 .. n : f[i] = FlatTo(f, q, i)
    <2>1. PICK g : g = [i \in 1 .. n |-> FlatTo(f, q, i)]
      OBVIOUS
    <2>2. f = g
      BY <1>1, <2>1 DEF IsFlat
    <2>3. (\A i \in 1 .. n : g[i] = FlatTo(f, q, i)) /\ g = [i \in 1 .. n |-> g[i]]
      BY <2>1
    <2> QED
      BY <2>2, <2>3 DEF IsColumn
  <1>2. ASSUME IsColumn(f, n), \A i \in 1 .. n : f[i] = FlatTo(f, q, i)
        PROVE  IsFlat(f, q, n)
    <2>1. [i \in 1 .. n |-> f[i]] = [i \in 1 .. n |-> FlatTo(f, q, i)]
      BY <1>2
    <2> QED
      BY <1>2, <2>1 DEF IsColumn, IsFlat
  <1> QED
    BY <1>1, <1>2

LEMMA FlatExists ==
    ASSUME NEW q, NEW n \in Nat
    PROVE  \E f : IsFlat(f, q, n)
  <1> DEFINE S == {k \in 0 .. n : \E f : IsFlat(f, q, k)}
  <1>1. 0 \in S
    <2>1. PICK f : f = [i \in 1 .. 0 |-> q]
      OBVIOUS
    <2>2. IsColumn(f, 0) /\ \A i \in 1 .. 0 : f[i] = FlatTo(f, q, i)
      BY <2>1 DEF IsColumn
    <2>3. IsFlat(f, q, 0)
      BY <2>2, FlatIs
    <2> QED
      BY <2>3
  <1>2. ASSUME NEW k \in 0 .. n, k # n, k \in S
        PROVE  k + 1 \in S
    <2>1. PICK f : IsFlat(f, q, k)
      BY <1>2
    <2>2. PICK g : g = [i \in 1 .. k + 1 |-> IF i <= k THEN f[i] ELSE FlatTo(f, q, i)]
      OBVIOUS
    <2>3. IsColumn(g, k + 1)
      BY <2>2 DEF IsColumn
    <2>4. ASSUME NEW i \in 1 .. k + 1
          PROVE  g[i] = FlatTo(g, q, i)
      <3>1. FlatTo(g, q, i) = FlatTo(f, q, i)
        <4>1. CASE i = 1
          BY <4>1 DEF FlatTo
        <4>2. CASE i # 1
          <5>1. i - 1 \in 1 .. k + 1 /\ i - 1 <= k
            BY <4>2
          <5>2. g[i - 1] = f[i - 1]
            BY <2>2, <5>1
          <5> QED
            BY <4>2, <5>2 DEF FlatTo
        <4> QED
          BY <4>1, <4>2
      <3>2. g[i] = FlatTo(f, q, i)
        <4>1. CASE i <= k
          <5>1. f[i] = FlatTo(f, q, i)
            BY <2>1, <4>1, i \in 1 .. k, FlatIs
          <5> QED
            BY <2>2, <4>1, <5>1
        <4>2. CASE ~(i <= k)
          BY <2>2, <4>2
        <4> QED
          BY <4>1, <4>2
      <3> QED
        BY <3>1, <3>2
    <2>5. IsFlat(g, q, k + 1)
      BY <2>3, <2>4, FlatIs
    <2> QED
      BY <1>2, <2>5
  <1>3. 0 .. n \subseteq S
    <2> HIDE DEF S
    <2> QED
      BY <1>1, <1>2, InductionUpTo
  <1> QED
    BY <1>3

LEMMA FlattenIsFlat ==
    ASSUME NEW T, NEW q \in Seq(T), Len(q) # 0
    PROVE  \E f : IsFlat(f, q, Len(q)) /\ FlattenSeq(q) = f[Len(q)]
  <1>1. Len(q) \in Nat
    BY LenProperties
  <1>2. PICK c : c = CHOOSE f : IsFlat(f, q, Len(q))
    OBVIOUS
  <1>3. IsFlat(c, q, Len(q))
    BY <1>1, <1>2, FlatExists
  <1>4. FlattenSeq(q) = c[Len(q)]
    BY <1>2 DEF FlattenSeq, IsFlat, FlatTo
  <1> QED
    BY <1>3, <1>4

LEMMA FlattenType ==
    ASSUME NEW T, NEW q \in Seq(Seq(T))
    PROVE  FlattenSeq(q) \in Seq(T)
  <1>0. Len(q) \in Nat /\ \A i \in 1 .. Len(q) : q[i] \in Seq(T)
    BY LenProperties, ElementOfSeq
  <1>1. CASE Len(q) = 0
    <2>1. q = <<>>
      BY <1>1, EmptySeq
    <2> QED
      BY <1>1, <2>1 DEF FlattenSeq
  <1>2. CASE Len(q) # 0
    <2>0. PICK n \in Nat \ {0} : n = Len(q)
      BY <1>0, <1>2
    <2>1. PICK f : n = Len(q) /\ IsFlat(f, q, n) /\ FlattenSeq(q) = f[n]
      BY <1>2, <2>0, FlattenIsFlat
    <2> DEFINE S == {k \in 0 .. n : k # 0 => f[k] \in Seq(T)}
    <2>2. 0 \in S
      OBVIOUS
    <2>3. ASSUME NEW k \in 0 .. n, k # n, k \in S
          PROVE  k + 1 \in S
      <3>1. PICK j \in 1 .. n : j = k + 1 /\ j - 1 = k
        BY <2>3
      <3>2. f[j] = FlatTo(f, q, j) /\ q[j] \in Seq(T)
        BY <1>0, <2>1, FlatIs
      <3>3. f[j] \in Seq(T)
        <4>1. CASE j = 1
          BY <3>2, <4>1 DEF FlatTo
        <4>2. CASE j # 1
          <5>1. f[k] \in Seq(T)
            BY <2>3, <3>1, <4>2
          <5>2. f[j] = f[k] \o q[j]
            BY <3>1, <3>2, <4>2 DEF FlatTo
          <5> QED
            BY <3>2, <5>1, <5>2, ConcatProperties
        <4> QED
          BY <4>1, <4>2
      <3> QED
        BY <3>1, <3>3
    <2>4. 0 .. n \subseteq S
      <3> HIDE DEF S
      <3> QED
        BY <2>2, <2>3, InductionUpTo
    <2> QED
      BY <2>1, <2>4
  <1> QED
    BY <1>1, <1>2

SameFirst(q, p, k) == \A i \in 1 .. k : q[i] = p[i]

LEMMA FlatAgree ==
    ASSUME NEW f, NEW q, NEW n \in Nat, IsFlat(f, q, n),
           NEW g, NEW p, NEW l \in Nat, IsFlat(g, p, l),
           NEW k \in Nat, k <= n, k <= l, SameFirst(q, p, k)
    PROVE  SameFirst(f, g, k)
  <1> DEFINE S == {i \in 0 .. k : i # 0 => f[i] = g[i]}
  <1>1. 0 \in S
    OBVIOUS
  <1>2. ASSUME NEW i \in 0 .. k, i # k, i \in S
        PROVE  i + 1 \in S
    <2>1. PICK j \in 1 .. k : j = i + 1 /\ j - 1 = i /\ j \in 1 .. n /\ j \in 1 .. l
      BY <1>2
    <2>2. f[j] = FlatTo(f, q, j) /\ g[j] = FlatTo(g, p, j) /\ q[j] = p[j]
      BY <2>1, FlatIs DEF SameFirst
    <2>3. j # 1 => f[i] = g[i]
      BY <1>2, <2>1
    <2>4. f[j] = g[j]
      BY <2>1, <2>2, <2>3 DEF FlatTo
    <2> QED
      BY <2>1, <2>4
  <1>3. 0 .. k \subseteq S
    <2> HIDE DEF S
    <2> QED
      BY <1>1, <1>2, InductionUpTo
  <1> QED
    BY <1>3 DEF SameFirst

LEMMA FlattenGrows ==
    ASSUME NEW T, NEW p \in Seq(Seq(T)), NEW q \in Seq(Seq(T)), Len(q) = Len(p) + 1,
           SameFirst(q, p, Len(p))
    PROVE  FlattenSeq(q) = FlattenSeq(p) \o q[Len(q)]
  <1>1. PICK n \in Nat, l \in Nat : n = Len(p) /\ l = Len(q) /\ l = n + 1
    BY LenProperties
  <1>2. PICK f : IsFlat(f, q, l) /\ FlattenSeq(q) = f[l]
    BY <1>1, FlattenIsFlat
  <1>3. f[l] = FlatTo(f, q, l)
    BY <1>1, <1>2, FlatIs
  <1>4. CASE n = 0
    <2>1. p = <<>> /\ FlattenSeq(p) = <<>>
      BY <1>1, <1>4, EmptySeq DEF FlattenSeq
    <2>2. f[l] = q[l] /\ q[l] \in Seq(T)
      <3>1. l = 1 /\ l \in 1 .. Len(q)
        BY <1>1, <1>4
      <3>2. q[l] \in Seq(T)
        BY <3>1, ElementOfSeq
      <3> QED
        BY <1>3, <3>1, <3>2 DEF FlatTo
    <2>3. <<>> \o q[l] = q[l]
      BY <2>2, ConcatEmptySeq
    <2> QED
      BY <1>1, <1>2, <2>1, <2>2, <2>3
  <1>5. CASE n # 0
    <2>1. PICK g : IsFlat(g, p, n) /\ FlattenSeq(p) = g[n]
      BY <1>1, <1>5, FlattenIsFlat
    <2>2. f[n] = g[n]
      <3>1. SameFirst(q, p, n)
        BY <1>1
      <3>2. n <= l /\ n <= n /\ n \in 1 .. n
        BY <1>1, <1>5
      <3>3. SameFirst(f, g, n)
        BY <1>2, <2>1, <3>1, <3>2, FlatAgree
      <3> QED
        BY <3>2, <3>3 DEF SameFirst
    <2>3. f[l] = f[n] \o q[l]
      <3>1. l # 1 /\ l - 1 = n
        BY <1>1, <1>5
      <3> QED
        BY <1>3, <3>1 DEF FlatTo
    <2> QED
      BY <1>1, <1>2, <2>1, <2>2, <2>3
  <1> QED
    BY <1>4, <1>5

AllEmpty(q) == \A i \in 1 .. Len(q) : q[i] = <<>>

LEMMA FlattenEmpty ==
    ASSUME NEW T, NEW q \in Seq(Seq(T)), AllEmpty(q)
    PROVE  FlattenSeq(q) = <<>>
  <1>1. PICK n \in Nat : n = Len(q)
    BY LenProperties
  <1>2. PICK no \in Seq(T) : no = <<>>
    BY EmptySeq
  <1>3. CASE n = 0
    BY <1>1, <1>3, EmptySeq DEF FlattenSeq
  <1>4. CASE n # 0
    <2>1. PICK f : IsFlat(f, q, n) /\ FlattenSeq(q) = f[n]
      BY <1>1, <1>4, FlattenIsFlat
    <2> DEFINE S == {k \in 0 .. n : k # 0 => f[k] = no}
    <2>2. 0 \in S
      OBVIOUS
    <2>3. ASSUME NEW k \in 0 .. n, k # n, k \in S
          PROVE  k + 1 \in S
      <3>1. PICK j \in 1 .. n : j = k + 1 /\ j - 1 = k
        BY <2>3
      <3>2. f[j] = FlatTo(f, q, j) /\ q[j] = no
        BY <1>1, <1>2, <2>1, FlatIs DEF AllEmpty
      <3>3. j # 1 => f[k] = no
        BY <2>3, <3>1
      <3>4. no \o no = no
        BY <1>2, ConcatEmptySeq
      <3>5. f[j] = no
        BY <3>1, <3>2, <3>3, <3>4 DEF FlatTo
      <3> QED
        BY <3>1, <3>5
    <2>4. 0 .. n \subseteq S
      <3> HIDE DEF S
      <3> QED
        BY <2>2, <2>3, InductionUpTo
    <2> QED
      BY <1>2, <1>4, <2>1, <2>4
  <1> QED
    BY <1>3, <1>4
=============================================================================
