------------------------- MODULE CorpusPartsProofs -------------------------
(* Proofs about the parts of a corpus while its file is read: the rings that *)
(* add_alias makes, the symbols of the table and where they are found, the   *)
(* declarations; and what loading a symbol or reading a declaration does to  *)
(* them.                                                                    *)
EXTENDS CorpusSymbols, InductionLemmas

-----------------------------------------------------------------------------
(* Rings: from the main symbol around the others and back; a symbol with no  *)
(* alias leads nowhere.                                                     *)

Texts == STRING \cup {"", "@", "@@"}
Ids == Texts \X Texts \X Texts
Symbols ==
    [name : Ids, kind : {"fun", "var", "other"}, defined : BOOLEAN, public : BOOLEAN,
     version : [name : Texts, default : BOOLEAN], main : Nat, nextAlias : Nat]

Heap(heap) ==
    /\ heap \in Seq(Symbols)
    /\ \A i \in 1 .. Len(heap) : /\ heap[i].main \in 1 .. Len(heap)
                                 /\ heap[i].nextAlias \in 0 .. Len(heap)

NextIn(L, j) == IF Len(L) = 1 THEN 0 ELSE IF j = Len(L) THEN L[1] ELSE L[j + 1]

OneEach(s) == \A i, j \in 1 .. Len(s) : s[i] = s[j] => i = j

IsRing(heap, L) ==
    /\ L \in Seq(1 .. Len(heap)) /\ L # <<>> /\ OneEach(L)
    /\ \A j \in 1 .. Len(L) : heap[L[j]].main = L[1] /\ heap[L[j]].nextAlias = NextIn(L, j)

Alone(heap, i) == i \in 1 .. Len(heap) /\ heap[i].main = i /\ heap[i].nextAlias = 0

NextOf(heap, i) == IF i = 0 THEN 0 ELSE heap[i].nextAlias
LeadsTo(f, heap, s) == f = [k \in 0 .. Len(heap) |-> IF k = 0 THEN s ELSE NextOf(heap, f[k - 1])]

LEMMA LeadsToIs ==
    ASSUME NEW f, NEW heap, NEW s, Len(heap) \in Nat, LeadsTo(f, heap, s)
    PROVE  f[0] = s /\ \A k \in 1 .. Len(heap) : f[k] = NextOf(heap, f[k - 1])
  <1>1. PICK g : g = [k \in 0 .. Len(heap) |-> IF k = 0 THEN s ELSE NextOf(heap, f[k - 1])]
    OBVIOUS
  <1>2. f = g
    BY <1>1 DEF LeadsTo
  <1>3. g[0] = s /\ \A k \in 1 .. Len(heap) : g[k] = NextOf(heap, f[k - 1])
    BY <1>1
  <1> QED
    BY <1>2, <1>3

LEMMA HeapLength ==
    ASSUME NEW heap, Heap(heap)
    PROVE  Len(heap) \in Nat /\ DOMAIN heap = 1 .. Len(heap)
           /\ \A i \in 1 .. Len(heap) : heap[i] \in Symbols
  BY LenProperties, ElementOfSeq DEF Heap

LEMMA AfterIs ==
    ASSUME NEW heap, Heap(heap), NEW s \in 1 .. Len(heap)
    PROVE  /\ After(heap, s)[0] = s
           /\ \A k \in 1 .. Len(heap) : After(heap, s)[k] = NextOf(heap, After(heap, s)[k - 1])
  <1>0. PICK n \in Nat : n = Len(heap)
    BY HeapLength
  <1>1. PICK F : F = [x \in (1 .. n) \X (0 .. n) |-> NextOf(heap, x[2])]
    OBVIOUS
  <1>2. F \in [(1 .. n) \X (0 .. n) -> 0 .. n]
    <2>1. ASSUME NEW x \in (1 .. n) \X (0 .. n)
          PROVE  NextOf(heap, x[2]) \in 0 .. n
      BY <1>0 DEF NextOf, Heap
    <2> QED
      BY <1>1, <2>1
  <1>3. s \in 0 .. n
    BY <1>0
  <1>4. PICK g \in [0 .. n -> 0 .. n] : Recurs(g, F, s, n)
    BY <1>2, <1>3, RecursionExists
  <1>5. ASSUME NEW k \in 0 .. n
        PROVE  g[k] = IF k = 0 THEN s ELSE NextOf(heap, g[k - 1])
    <2>1. CASE k = 0
      BY <1>4, <2>1 DEF Recurs
    <2>2. CASE k # 0
      <3>1. k \in 1 .. n /\ k - 1 \in 0 .. n
        BY <2>2
      <3>2. g[k - 1] \in 0 .. n /\ g[k] = F[<<k, g[k - 1]>>]
        BY <1>4, <3>1 DEF Recurs
      <3>3. <<k, g[k - 1]>> \in (1 .. n) \X (0 .. n)
        BY <3>1, <3>2
      <3> QED
        BY <1>1, <2>2, <3>2, <3>3
    <2> QED
      BY <2>1, <2>2
  <1>6. LeadsTo(g, heap, s)
    <2>1. g = [k \in 0 .. n |-> g[k]]
      OBVIOUS
    <2>2. [k \in 0 .. n |-> g[k]] = [k \in 0 .. n |-> IF k = 0 THEN s ELSE NextOf(heap, g[k - 1])]
      BY <1>5
    <2> QED
      BY <1>0, <2>1, <2>2 DEF LeadsTo
  <1>7. PICK c : c = CHOOSE f : LeadsTo(f, heap, s)
    OBVIOUS
  <1>8. LeadsTo(c, heap, s)
    BY <1>6, <1>7
  <1>9. After(heap, s) = c
    BY <1>7 DEF After, LeadsTo, NextOf
  <1> QED
    BY <1>0, <1>8, <1>9, LeadsToIs

LEMMA RingParts ==
    ASSUME NEW heap, Heap(heap), NEW L, IsRing(heap, L)
    PROVE  /\ Len(L) \in Nat /\ Len(L) >= 1 /\ Len(L) <= Len(heap)
           /\ DOMAIN L = 1 .. Len(L)
           /\ \A j \in 1 .. Len(L) : L[j] \in 1 .. Len(heap)
  <1>1. PICK n \in Nat, m \in Nat : n = Len(L) /\ m = Len(heap)
    BY HeapLength, LenProperties DEF IsRing
  <1>2. n # 0 /\ DOMAIN L = 1 .. n /\ \A j \in 1 .. n : L[j] \in 1 .. m
    <2>1. L \in Seq(1 .. m) /\ L # <<>>
      BY <1>1 DEF IsRing
    <2>2. n # 0
      BY <1>1, <2>1, EmptySeq
    <2> QED
      BY <1>1, <2>1, <2>2, LenProperties, ElementOfSeq
  <1>3. n <= m
    <2>1. PICK f : f = [j \in 1 .. n |-> L[j]]
      OBVIOUS
    <2>2. f \in Injection(1 .. n, 1 .. m)
      <3>1. \A i, j \in 1 .. n : f[i] = f[j] => i = j
        BY <1>1, <2>1 DEF IsRing, OneEach
      <3> QED
        BY <1>2, <2>1, <3>1 DEF Injection, IsInjective
    <2>3. IsFiniteSet(1 .. m) /\ Cardinality(1 .. m) = m
      BY FS_Interval
    <2>4. Cardinality(1 .. n) = n
      BY FS_Interval
    <2>5. Cardinality(1 .. n) <= Cardinality(1 .. m)
      BY <2>2, <2>3, FS_Injection
    <2> QED
      BY <2>3, <2>4, <2>5
  <1> QED
    BY <1>1, <1>2, <1>3

LEMMA Difference ==
    ASSUME NEW n \in Nat, NEW j \in 1 .. n
    PROVE  n - j \in Nat
  OBVIOUS

LEMMA NoElements ==
    ASSUME NEW L
    PROVE  [k \in 1 .. 0 |-> L[1 + k]] = <<>>
  <1>1. [k \in 1 .. 0 |-> L[1 + k]] \in Seq({}) /\ Len([k \in 1 .. 0 |-> L[1 + k]]) = 0
    OBVIOUS
  <1> QED
    BY <1>1, EmptySeq

LEMMA RingAfter ==
    ASSUME NEW heap, Heap(heap), NEW L, IsRing(heap, L), NEW j \in 1 .. Len(L)
    PROVE  /\ \A k \in 0 .. Len(L) - j : After(heap, L[j])[k] = L[j + k]
           /\ Len(L) - j + 1 \in 1 .. Len(heap)
           /\ After(heap, L[j])[Len(L) - j + 1] = NextIn(L, Len(L))
  <1>1. PICK n \in Nat, m \in Nat : n = Len(L) /\ m = Len(heap) /\ n <= m /\ n >= 1
    BY HeapLength, RingParts
  <1>2. PICK f : f = After(heap, L[j])
    OBVIOUS
  <1>3. L[j] \in 1 .. Len(heap)
    BY RingParts
  <1>4. f[0] = L[j] /\ \A k \in 1 .. m : f[k] = NextOf(heap, f[k - 1])
    BY <1>1, <1>2, <1>3, AfterIs
  <1>5. \A i \in 1 .. n : L[i] # 0 /\ heap[L[i]].nextAlias = NextIn(L, i)
    BY <1>1, RingParts DEF IsRing
  <1>j. j \in 1 .. n
    BY <1>1
  <1>6. PICK p \in Nat : p = n - j
    BY <1>j, Difference
  <1> DEFINE S == {k \in 0 .. p : f[k] = L[j + k]}
  <1>7. 0 \in S
    BY <1>1, <1>4
  <1>8. ASSUME NEW k \in 0 .. p, k # p, k \in S
        PROVE  k + 1 \in S
    <2>1. PICK i \in 1 .. n : i = j + k /\ i # n /\ i + 1 = j + (k + 1)
      BY <1>1, <1>6, <1>8
    <2>2. k + 1 \in 1 .. m /\ (k + 1) - 1 = k /\ k + 1 \in 0 .. p /\ n # 1
      BY <1>1, <1>6, <1>8
    <2>3. f[k + 1] = NextOf(heap, f[k])
      BY <1>4, <2>2
    <2>4. f[k] = L[i]
      BY <1>8, <2>1
    <2>5. NextOf(heap, L[i]) = L[i + 1]
      BY <1>1, <1>5, <2>1, <2>2 DEF NextOf, NextIn
    <2> QED
      BY <2>1, <2>2, <2>3, <2>4, <2>5
  <1>9. 0 .. p \subseteq S
    <2> HIDE DEF S
    <2> QED
      BY <1>7, <1>8, InductionUpTo
  <1>10. \A k \in 0 .. p : f[k] = L[j + k]
    BY <1>9
  <1>11. p + 1 \in 1 .. m /\ (p + 1) - 1 = p /\ j + p = n /\ n \in 1 .. n
    BY <1>1, <1>6
  <1>12. f[p] = L[n]
    BY <1>10, <1>11
  <1>13. f[p + 1] = NextOf(heap, L[n])
    BY <1>4, <1>11, <1>12
  <1>14. f[p + 1] = NextIn(L, n)
    BY <1>5, <1>11, <1>13 DEF NextOf
  <1> QED
    BY <1>1, <1>2, <1>6, <1>10, <1>11, <1>14

(* After a symbol of a ring come those up to its end.                       *)
LEMMA RingAliases ==
    ASSUME NEW heap, Heap(heap), NEW L, IsRing(heap, L), NEW j \in 1 .. Len(L)
    PROVE  NextAliases(heap, L[j]) = [k \in 1 .. Len(L) - j |-> L[j + k]]
  <1>1. PICK n \in Nat, m \in Nat : n = Len(L) /\ m = Len(heap) /\ n <= m /\ n >= 1
    BY HeapLength, RingParts
  <1>2. PICK f : f = After(heap, L[j])
    OBVIOUS
  <1>j. j \in 1 .. n
    BY <1>1
  <1>3. PICK p \in Nat : p = n - j
    BY <1>j, Difference
  <1>4. /\ \A k \in 0 .. p : f[k] = L[j + k]
        /\ p + 1 \in 1 .. m /\ f[p + 1] = NextIn(L, n)
    <2>1. /\ \A k \in 0 .. Len(L) - j : After(heap, L[j])[k] = L[j + k]
          /\ Len(L) - j + 1 \in 1 .. Len(heap)
          /\ After(heap, L[j])[Len(L) - j + 1] = NextIn(L, Len(L))
      BY RingAfter
    <2>2. Len(L) - j = p
      BY <1>1, <1>3
    <2> QED
      BY <1>1, <1>2, <2>1, <2>2
  <1>5. heap[L[j]].main = L[1]
    BY DEF IsRing
  <1>6. PICK E : E = {k \in 1 .. m : f[k] \in {0, heap[L[j]].main}}
    OBVIOUS
  <1>7. ASSUME NEW k \in 1 .. p
        PROVE  k \notin E
    <2>1. PICK i \in 1 .. n : i = j + k /\ i # 1
      BY <1>1, <1>3
    <2>2. f[k] = L[i]
      BY <1>4, <2>1
    <2>3. L[i] # 0
      BY <1>1, RingParts
    <2>4. L[i] # L[1]
      BY <1>1, <2>1, 1 \in 1 .. n DEF IsRing, OneEach
    <2> QED
      BY <1>5, <1>6, <2>2, <2>3, <2>4
  <1>8. p + 1 \in E
    <2>1. NextIn(L, n) \in {0, L[1]}
      BY <1>1 DEF NextIn
    <2> QED
      BY <1>4, <1>5, <1>6, <2>1
  <1>9. \A k \in E : p + 1 <= k
    <2> SUFFICES ASSUME NEW k \in E, ~(p + 1 <= k)
                 PROVE  FALSE
      OBVIOUS
    <2>1. k \in 1 .. m
      BY <1>6
    <2>2. k \in 1 .. p
      BY <2>1
    <2> QED
      BY <1>7, <2>2
  <1>10. Min(E) = p + 1
    <2>1. E \subseteq 1 .. m
      BY <1>6
    <2>2. \A x, y \in E : (\A z \in E : x <= z) /\ (\A z \in E : y <= z) => x = y
      BY <2>1
    <2> QED
      BY <1>8, <1>9, <2>2 DEF Min
  <1>11. E # {}
    BY <1>8
  <1>12. NextAliases(heap, L[j])
           = [k \in 1 .. ((IF E = {} THEN m + 1 ELSE Min(E)) - 1) |-> f[k]]
    BY <1>1, <1>2, <1>6 DEF NextAliases
  <1>13. (IF E = {} THEN m + 1 ELSE Min(E)) - 1 = p
    BY <1>10, <1>11
  <1>14. [k \in 1 .. p |-> f[k]] = [k \in 1 .. p |-> L[j + k]]
    BY <1>4
  <1> QED
    BY <1>1, <1>3, <1>12, <1>13, <1>14

LEMMA AloneIsRing ==
    ASSUME NEW heap, Heap(heap), NEW i, Alone(heap, i)
    PROVE  IsRing(heap, <<i>>) /\ Len(<<i>>) = 1 /\ <<i>>[1] = i
  <1>1. i \in 1 .. Len(heap)
    BY DEF Alone
  <1>2. <<i>> \in Seq(1 .. Len(heap)) /\ Len(<<i>>) = 1 /\ <<i>>[1] = i /\ <<i>> # <<>>
    BY <1>1
  <1> QED
    BY <1>2 DEF Alone, IsRing, NextIn, OneEach

LEMMA AloneAliases ==
    ASSUME NEW heap, Heap(heap), NEW i, Alone(heap, i)
    PROVE  NextAliases(heap, i) = <<>>
  <1>1. PICK L : L = <<i>> /\ IsRing(heap, L) /\ Len(L) = 1 /\ L[1] = i
    BY AloneIsRing
  <1>2. 1 \in 1 .. Len(L) /\ Len(L) - 1 = 0
    BY <1>1
  <1>3. \A j \in 1 .. Len(L) : NextAliases(heap, L[j]) = [k \in 1 .. Len(L) - j |-> L[j + k]]
    BY <1>1, RingAliases
  <1>4. NextAliases(heap, L[1]) = [k \in 1 .. 0 |-> L[1 + k]]
    BY <1>2, <1>3
  <1> QED
    BY <1>1, <1>4, NoElements

LEMMA LastOfRing ==
    ASSUME NEW heap, Heap(heap), NEW L, IsRing(heap, L), Len(L) # 1
    PROVE  LastAliases(heap, L[1]) = {L[Len(L)]}
  <1>1. PICK n \in Nat : n = Len(L) /\ n >= 1 /\ n # 1 /\ 1 \in 1 .. n /\ n \in 1 .. n
    BY RingParts
  <1>2. PICK p \in Nat : p = n - 1
    BY <1>1, Difference
  <1>3. PICK q : q = NextAliases(heap, L[1])
    OBVIOUS
  <1>4. q = [k \in 1 .. p |-> L[1 + k]]
    <2>1. \A j \in 1 .. Len(L) : NextAliases(heap, L[j]) = [k \in 1 .. Len(L) - j |-> L[j + k]]
      BY RingAliases
    <2>2. Len(L) - 1 = p
      BY <1>1, <1>2
    <2> QED
      BY <1>1, <1>3, <2>1, <2>2
  <1>5. ToSet(q) = {L[1 + k] : k \in 1 .. p}
    BY <1>4 DEF ToSet
  <1>6. \A j \in 1 .. n : heap[L[j]].main = L[1] /\ heap[L[j]].nextAlias = NextIn(L, j)
    BY <1>1 DEF IsRing
  <1>7. ASSUME NEW k \in 1 .. p
        PROVE  (heap[L[1 + k]].nextAlias = heap[L[1]].main) <=> 1 + k = n
    <2>1. PICK j \in 1 .. n : j = 1 + k
      BY <1>2
    <2>2. heap[L[j]].nextAlias = NextIn(L, j) /\ heap[L[1]].main = L[1]
      BY <1>1, <1>6
    <2>3. CASE j = n
      BY <1>1, <2>1, <2>2, <2>3 DEF NextIn
    <2>4. CASE j # n
      <3>1. j + 1 \in 1 .. n /\ j + 1 # 1
        BY <2>4
      <3>2. L[j + 1] # L[1]
        BY <1>1, <3>1 DEF IsRing, OneEach
      <3>3. NextIn(L, j) = L[j + 1]
        BY <1>1, <2>4 DEF NextIn
      <3> QED
        BY <2>1, <2>2, <2>4, <3>2, <3>3
    <2> QED
      BY <2>3, <2>4
  <1>8. p \in 1 .. p /\ 1 + p = n
    BY <1>1, <1>2
  <1> QED
    BY <1>1, <1>3, <1>5, <1>7, <1>8 DEF LastAliases

(* What add_alias may touch.                                                *)
SameBut(heap, h, S) ==
    /\ Len(h) = Len(heap)
    /\ \A i \in 1 .. Len(heap) : i \notin S => h[i] = heap[i]
    /\ \A i \in 1 .. Len(heap) : SameSymbol(h[i], heap[i])

RelinkedAt(heap, i, main, nxt) == [heap[i] EXCEPT !.main = main, !.nextAlias = nxt]

LEMMA RelinkedIs ==
    ASSUME NEW heap, Heap(heap), NEW i \in 1 .. Len(heap), NEW main \in Nat, NEW nxt \in Nat
    PROVE  /\ RelinkedAt(heap, i, main, nxt) \in Symbols
           /\ RelinkedAt(heap, i, main, nxt).main = main
           /\ RelinkedAt(heap, i, main, nxt).nextAlias = nxt
           /\ SameSymbol(RelinkedAt(heap, i, main, nxt), heap[i])
  <1>1. heap[i] \in Symbols
    BY HeapLength
  <1> QED
    BY <1>1 DEF RelinkedAt, SameSymbol, Symbols

(* The new alias comes last, whether or not there were others.              *)
Extended(heap, L, x) ==
    [i \in 1 .. Len(heap) |->
       IF i = x THEN RelinkedAt(heap, x, L[1], L[1])
       ELSE IF i = L[Len(L)] THEN RelinkedAt(heap, L[Len(L)], L[1], x)
       ELSE heap[i]]

LEMMA AddAliasIs ==
    ASSUME NEW heap, Heap(heap), NEW L, IsRing(heap, L), NEW x, Alone(heap, x),
           \A j \in 1 .. Len(L) : L[j] # x
    PROVE  /\ MayAddAlias(heap, L[1], x)
           /\ AddAlias(heap, L[1], x) = Extended(heap, L, x)
  <1>1. PICK n \in Nat : n = Len(L) /\ n >= 1 /\ 1 \in 1 .. n /\ n \in 1 .. n
    BY RingParts
  <1>2. PICK a, z : a = L[1] /\ z = L[n]
    OBVIOUS
  <1>3. /\ x \in 1 .. Len(heap) /\ a \in 1 .. Len(heap) /\ z \in 1 .. Len(heap)
        /\ DOMAIN heap = 1 .. Len(heap) /\ z # x
    BY <1>1, <1>2, RingParts, HeapLength DEF Alone
  <1>4. heap[a].main = a /\ heap[a].nextAlias = NextIn(L, 1)
    BY <1>1, <1>2 DEF IsRing
  <1>5. PICK last : last = IF heap[a].nextAlias = 0 THEN a ELSE CHOOSE b \in LastAliases(heap, a) : TRUE
    OBVIOUS
  <1>6. last = z /\ (heap[a].nextAlias # 0 => LastAliases(heap, a) = {z})
    <2>1. CASE n = 1
      BY <1>1, <1>2, <1>4, <1>5, <2>1 DEF NextIn
    <2>2. CASE n # 1
      <3>1. LastAliases(heap, a) = {z}
        BY <1>1, <1>2, <2>2, LastOfRing
      <3>2. NextIn(L, 1) = L[2] /\ 2 \in 1 .. n
        BY <1>1, <2>2 DEF NextIn
      <3>3. heap[a].nextAlias # 0
        BY <1>1, <1>4, <3>2, RingParts
      <3> QED
        BY <1>5, <3>1, <3>3
    <2> QED
      BY <2>1, <2>2
  <1>7. MayAddAlias(heap, a, x)
    <2>1. heap[x].nextAlias = 0
      BY DEF Alone
    <2>2. Cardinality({z}) = 1
      BY FS_Singleton
    <2> QED
      BY <1>4, <1>6, <2>1, <2>2 DEF MayAddAlias
  <1>8. AddAlias(heap, a, x) = [heap EXCEPT ![z].nextAlias = x, ![x].nextAlias = a, ![x].main = a]
    BY <1>4, <1>5, <1>6 DEF AddAlias
  <1>9. heap[z].main = a
    BY <1>1, <1>2 DEF IsRing
  <1>10. heap[x] \in Symbols /\ heap[z] \in Symbols
    BY <1>3, HeapLength
  <1>11. /\ RelinkedAt(heap, z, a, x) = [heap[z] EXCEPT !.nextAlias = x]
         /\ RelinkedAt(heap, x, a, a) = [[heap[x] EXCEPT !.nextAlias = a] EXCEPT !.main = a]
    BY <1>9, <1>10 DEF RelinkedAt, Symbols
  <1>12. PICK h : h = [heap EXCEPT ![z].nextAlias = x, ![x].nextAlias = a, ![x].main = a]
    OBVIOUS
  <1>13. /\ h = [i \in 1 .. Len(heap) |-> h[i]]
         /\ \A i \in 1 .. Len(heap) :
              h[i] = IF i = x THEN [[heap[x] EXCEPT !.nextAlias = a] EXCEPT !.main = a]
                     ELSE IF i = z THEN [heap[z] EXCEPT !.nextAlias = x] ELSE heap[i]
    BY <1>3, <1>12
  <1>14. h = Extended(heap, L, x)
    BY <1>1, <1>2, <1>11, <1>13 DEF Extended
  <1> QED
    BY <1>2, <1>7, <1>8, <1>12, <1>14

LEMMA ExtendedIs ==
    ASSUME NEW heap, Heap(heap), NEW L, IsRing(heap, L), NEW x, Alone(heap, x),
           \A j \in 1 .. Len(L) : L[j] # x,
           NEW h, h = Extended(heap, L, x)
    PROVE  Heap(h) /\ SameBut(heap, h, ToSet(L) \cup {x}) /\ IsRing(h, Append(L, x))
  <1>1. PICK n \in Nat, m \in Nat : /\ n = Len(L) /\ n >= 1 /\ 1 \in 1 .. n /\ n \in 1 .. n
                                    /\ m = Len(heap)
    BY RingParts, HeapLength
  <1>2. PICK a \in 1 .. m, z \in 1 .. m : a = L[1] /\ z = L[n]
    BY <1>1, RingParts
  <1>3. x \in 1 .. m /\ z # x /\ a \in Nat /\ x \in Nat /\ z \in 1 .. Len(heap) /\ x \in 1 .. Len(heap)
    BY <1>1, <1>2 DEF Alone
  <1>4. PICK sx, sz : sx = RelinkedAt(heap, x, a, a) /\ sz = RelinkedAt(heap, z, a, x)
    OBVIOUS
  <1>5. /\ sx \in Symbols /\ sx.main = a /\ sx.nextAlias = a /\ SameSymbol(sx, heap[x])
        /\ sz \in Symbols /\ sz.main = a /\ sz.nextAlias = x /\ SameSymbol(sz, heap[z])
    BY <1>3, <1>4, RelinkedIs
  <1>6. h = [i \in 1 .. m |-> IF i = x THEN sx ELSE IF i = z THEN sz ELSE heap[i]]
    BY <1>1, <1>2, <1>4 DEF Extended
  <1>7. \A i \in 1 .. m : heap[i] \in Symbols
    BY <1>1, HeapLength
  <1>8. h \in Seq(Symbols) /\ Len(h) = m
    <2>1. \A i \in 1 .. m : h[i] \in Symbols
      BY <1>5, <1>6, <1>7
    <2> QED
      BY <1>6, <2>1
  <1>9. h[x] = sx /\ h[z] = sz /\ \A i \in 1 .. m : i # x /\ i # z => h[i] = heap[i]
    BY <1>3, <1>6
  <1>10. ToSet(L) = {L[j] : j \in 1 .. n}
    BY <1>1, RingParts DEF ToSet
  <1>11. SameBut(heap, h, ToSet(L) \cup {x})
    <2>1. \A i \in 1 .. m : i \notin ToSet(L) \cup {x} => h[i] = heap[i]
      BY <1>1, <1>2, <1>9, <1>10
    <2>2. ASSUME NEW i \in 1 .. m
          PROVE  SameSymbol(h[i], heap[i])
      <3>1. CASE i = x
        BY <1>5, <1>9, <3>1
      <3>2. CASE i = z
        BY <1>5, <1>9, <3>2
      <3>3. CASE i # x /\ i # z
        BY <1>9, <3>3 DEF SameSymbol
      <3> QED
        BY <3>1, <3>2, <3>3
    <2> QED
      BY <1>1, <1>8, <2>1, <2>2 DEF SameBut
  <1>12. Heap(h)
    <2>1. ASSUME NEW i \in 1 .. m
          PROVE  h[i].main \in 1 .. m /\ h[i].nextAlias \in 0 .. m
      <3>1. CASE i = x
        BY <1>2, <1>5, <1>9, <3>1
      <3>2. CASE i = z
        BY <1>2, <1>3, <1>5, <1>9, <3>2
      <3>3. CASE i # x /\ i # z
        BY <1>1, <1>9, <3>3 DEF Heap
      <3> QED
        BY <3>1, <3>2, <3>3
    <2> QED
      BY <1>8, <2>1 DEF Heap
  <1>13. PICK q : q = Append(L, x)
    OBVIOUS
  <1>14. /\ q \in Seq(1 .. m) /\ Len(q) = n + 1 /\ q[n + 1] = x
         /\ \A j \in 1 .. n : q[j] = L[j]
    BY <1>1, <1>3, <1>13, AppendProperties DEF IsRing
  <1>15. OneEach(q)
    <2>1. \A i, j \in 1 .. n : L[i] = L[j] => i = j
      BY <1>1 DEF IsRing, OneEach
    <2>2. \A i \in 1 .. n : L[i] # x
      BY <1>1
    <2>3. \A i \in 1 .. n + 1 : i \in 1 .. n \/ i = n + 1
      BY <1>1
    <2>4. \A i, j \in 1 .. n + 1 : q[i] = q[j] => i = j
      BY <1>14, <2>1, <2>2, <2>3
    <2> QED
      BY <1>14, <2>4 DEF OneEach
  <1>16. q # <<>>
    BY <1>1, <1>14, EmptySeq
  <1>17. \A j \in 1 .. n : heap[L[j]].main = a /\ heap[L[j]].nextAlias = NextIn(L, j)
    BY <1>1, <1>2 DEF IsRing
  <1>18. \A j \in 1 .. n : L[j] \in 1 .. m /\ L[j] # x
    BY <1>1, RingParts
  <1>19. q[1] = a
    BY <1>1, <1>2, <1>14
  <1>20. ASSUME NEW j \in 1 .. n + 1
         PROVE  h[q[j]].main = a /\ h[q[j]].nextAlias = NextIn(q, j)
    <2>0. n + 1 # 1
      BY <1>1
    <2>1. CASE j = n + 1
      <3>1. NextIn(q, j) = a
        BY <1>14, <1>19, <2>0, <2>1 DEF NextIn
      <3> QED
        BY <1>5, <1>9, <1>14, <2>1, <3>1
    <2>2. CASE j = n
      <3>1. j # n + 1 /\ j + 1 = n + 1
        BY <2>2
      <3>2. NextIn(q, j) = x
        BY <1>14, <2>0, <3>1 DEF NextIn
      <3>3. q[j] = z
        BY <1>1, <1>2, <1>14, <2>2
      <3> QED
        BY <1>5, <1>9, <3>2, <3>3
    <2>3. CASE j # n /\ j # n + 1
      <3>1. j \in 1 .. n /\ j + 1 \in 1 .. n /\ n # 1
        BY <2>3
      <3>2. NextIn(q, j) = L[j + 1] /\ NextIn(L, j) = L[j + 1]
        BY <1>1, <1>14, <2>0, <2>3, <3>1 DEF NextIn
      <3>3. L[j] # z
        BY <1>1, <1>2, <2>3, <3>1 DEF IsRing, OneEach
      <3>4. h[L[j]] = heap[L[j]]
        BY <1>9, <1>18, <3>1, <3>3
      <3> QED
        BY <1>14, <1>17, <3>1, <3>2, <3>4
    <2> QED
      BY <2>1, <2>2, <2>3
  <1> QED
    BY <1>1, <1>8, <1>11, <1>12, <1>13, <1>14, <1>15, <1>16, <1>19, <1>20 DEF IsRing

(* What does not touch a ring leaves it a ring.                             *)
LEMMA RingKept ==
    ASSUME NEW heap, NEW h, NEW L, IsRing(heap, L), Len(heap) \in Nat, Len(h) \in Nat,
           Len(heap) <= Len(h), \A i \in ToSet(L) : h[i] = heap[i]
    PROVE  IsRing(h, L)
  <1>1. L \in Seq(1 .. Len(heap))
    BY DEF IsRing
  <1>2. \A j \in 1 .. Len(L) : L[j] \in ToSet(L)
    BY <1>1, LenProperties DEF ToSet
  <1>3. 1 .. Len(heap) \subseteq 1 .. Len(h)
    OBVIOUS
  <1>4. L \in Seq(1 .. Len(h))
    BY <1>1, <1>3, SeqOfMore
  <1> QED
    BY <1>2, <1>4 DEF IsRing

-----------------------------------------------------------------------------
(* Sequences put after each other, and sorted.                              *)

LEMMA ConcatSet ==
    ASSUME NEW T, NEW s \in Seq(T), NEW t \in Seq(T)
    PROVE  /\ s \o t \in Seq(T) /\ ToSet(s \o t) = ToSet(s) \cup ToSet(t)
           /\ OneEach(s) /\ OneEach(t) /\ ToSet(s) \cap ToSet(t) = {} => OneEach(s \o t)
  <1>1. PICK n \in Nat, m \in Nat : n = Len(s) /\ m = Len(t)
    BY LenProperties
  <1>2. PICK q : q = s \o t
    OBVIOUS
  <1>3. /\ q \in Seq(T) /\ Len(q) = n + m
        /\ \A i \in 1 .. n + m : q[i] = IF i <= n THEN s[i] ELSE t[i - n]
    BY <1>1, <1>2, ConcatProperties
  <1>4. DOMAIN q = 1 .. n + m /\ DOMAIN s = 1 .. n /\ DOMAIN t = 1 .. m
    BY <1>1, <1>3, LenProperties
  <1>5. \A i \in 1 .. n : i \in 1 .. n + m /\ q[i] = s[i]
    BY <1>3
  <1>6. ASSUME NEW i \in 1 .. m
        PROVE  n + i \in 1 .. n + m /\ q[n + i] = t[i]
    <2>1. n + i \in 1 .. n + m /\ ~(n + i <= n) /\ (n + i) - n = i
      OBVIOUS
    <2>2. PICK z \in 1 .. n + m : z = n + i /\ ~(z <= n) /\ z - n = i
      BY <2>1
    <2>3. q[z] = t[i]
      BY <1>3, <2>2
    <2> QED
      BY <2>2, <2>3
  <1>7. \A i \in 1 .. n + m : i \in 1 .. n \/ \E j \in 1 .. m : i = n + j
    <2> SUFFICES ASSUME NEW i \in 1 .. n + m, i \notin 1 .. n
                 PROVE  \E j \in 1 .. m : i = n + j
      OBVIOUS
    <2>1. i - n \in 1 .. m /\ i = n + (i - n)
      OBVIOUS
    <2> QED
      BY <2>1
  <1>8. ToSet(q) = ToSet(s) \cup ToSet(t)
    <2>1. ToSet(q) = {q[i] : i \in 1 .. n + m} /\ ToSet(s) = {s[i] : i \in 1 .. n}
          /\ ToSet(t) = {t[i] : i \in 1 .. m}
      BY <1>4 DEF ToSet
    <2>2. ASSUME NEW i \in 1 .. n + m
          PROVE  q[i] \in ToSet(s) \cup ToSet(t)
      <3>1. CASE i \in 1 .. n
        BY <1>5, <2>1, <3>1
      <3>2. CASE i \notin 1 .. n
        <4>1. PICK j \in 1 .. m : i = n + j
          BY <1>7, <3>2
        <4>2. q[i] = t[j]
          BY <1>6, <4>1
        <4> QED
          BY <2>1, <4>2
      <3> QED
        BY <3>1, <3>2
    <2>3. \A i \in 1 .. n : s[i] \in ToSet(q)
      BY <1>5, <2>1
    <2>4. \A i \in 1 .. m : t[i] \in ToSet(q)
      BY <1>6, <2>1
    <2> QED
      BY <2>1, <2>2, <2>3, <2>4
  <1>9. ASSUME OneEach(s), OneEach(t), ToSet(s) \cap ToSet(t) = {}
        PROVE  OneEach(q)
    <2>1. \A i \in 1 .. n, j \in 1 .. m : s[i] # t[j]
      BY <1>4, <1>9 DEF ToSet
    <2>2. \A i, j \in 1 .. n : s[i] = s[j] => i = j
      BY <1>1, <1>9 DEF OneEach
    <2>3. \A i, j \in 1 .. m : t[i] = t[j] => i = j
      BY <1>1, <1>9 DEF OneEach
    <2>4. ASSUME NEW i \in 1 .. n + m, NEW j \in 1 .. n + m, q[i] = q[j]
          PROVE  i = j
      <3>1. CASE i \in 1 .. n /\ j \in 1 .. n
        BY <1>5, <2>2, <2>4, <3>1
      <3>2. CASE i \in 1 .. n /\ j \notin 1 .. n
        <4>1. PICK y \in 1 .. m : j = n + y
          BY <1>7, <3>2
        <4>2. q[j] = t[y] /\ q[i] = s[i]
          BY <1>5, <1>6, <3>2, <4>1
        <4> QED
          BY <2>1, <2>4, <3>2, <4>2
      <3>3. CASE i \notin 1 .. n /\ j \in 1 .. n
        <4>1. PICK y \in 1 .. m : i = n + y
          BY <1>7, <3>3
        <4>2. q[i] = t[y] /\ q[j] = s[j]
          BY <1>5, <1>6, <3>3, <4>1
        <4> QED
          BY <2>1, <2>4, <3>3, <4>2
      <3>4. CASE i \notin 1 .. n /\ j \notin 1 .. n
        <4>1. PICK y \in 1 .. m : i = n + y
          BY <1>7, <3>4
        <4>2. PICK z \in 1 .. m : j = n + z
          BY <1>7, <3>4
        <4>3. q[i] = t[y] /\ q[j] = t[z]
          BY <1>6, <4>1, <4>2
        <4>4. y = z
          BY <2>3, <2>4, <4>3
        <4> QED
          BY <4>1, <4>2, <4>4
      <3> QED
        BY <3>1, <3>2, <3>3, <3>4
    <2> QED
      BY <1>3, <2>4 DEF OneEach
  <1> QED
    BY <1>2, <1>3, <1>8, <1>9

PiecesApart(q, n) ==
    /\ \A i \in 1 .. n : OneEach(q[i])
    /\ \A i, j \in 1 .. n : i # j => ToSet(q[i]) \cap ToSet(q[j]) = {}
SetsTo(q, n) == UNION {ToSet(q[i]) : i \in 1 .. n}

(* t is what the n pieces of q make.                                        *)
PutTogether(t, T, q, n) ==
    /\ t \in Seq(T)
    /\ ToSet(t) = SetsTo(q, n)
    /\ PiecesApart(q, n) => OneEach(t)

LEMMA FlattenMakes ==
    ASSUME NEW T, NEW q \in Seq(Seq(T))
    PROVE  PutTogether(FlattenSeq(q), T, q, Len(q))
  <1>c. PICK X : X = Seq(T) /\ q \in Seq(X)
    OBVIOUS
  <1>a. Len(q) \in Nat
    BY <1>c, LenProperties
  <1>b. \A i \in 1 .. Len(q) : q[i] \in Seq(T)
    BY <1>c, ElementOfSeq
  <1>0. Len(q) \in Nat /\ \A i \in 1 .. Len(q) : q[i] \in Seq(T)
    BY <1>a, <1>b
  <1>1. CASE Len(q) = 0
    <2>1. q = <<>>
      BY <1>1, EmptySeq
    <2>2. FlattenSeq(q) = <<>>
      BY <1>1, <2>1 DEF FlattenSeq
    <2>3. Len(<<>>) = 0 /\ DOMAIN <<>> = {} /\ <<>> \in Seq(T)
      OBVIOUS
    <2>4. ToSet(FlattenSeq(q)) = {} /\ SetsTo(q, Len(q)) = {}
      BY <1>1, <2>2, <2>3 DEF ToSet, SetsTo
    <2>5. OneEach(FlattenSeq(q))
      BY <2>2, <2>3 DEF OneEach
    <2>6. FlattenSeq(q) \in Seq(T)
      BY <2>2, <2>3
    <2> QED
      BY <2>4, <2>5, <2>6 DEF PutTogether
  <1>2. CASE Len(q) # 0
    <2>0. PICK n \in Nat \ {0} : n = Len(q)
      BY <1>0, <1>2
    <2>1. PICK f : n = Len(q) /\ IsFlat(f, q, n) /\ FlattenSeq(q) = f[n]
      BY <1>2, <2>0, FlattenIsFlat
    <2> DEFINE Good(k) == /\ f[k] \in Seq(T) /\ ToSet(f[k]) = SetsTo(q, k)
                          /\ PiecesApart(q, n) => OneEach(f[k])
               S == {k \in 0 .. n : k # 0 => Good(k)}
    <2>2. 0 \in S
      OBVIOUS
    <2>3. ASSUME NEW k \in 0 .. n, k # n, k \in S
          PROVE  k + 1 \in S
      <3>1. PICK j \in 1 .. n : j = k + 1 /\ j - 1 = k
        BY <2>3
      <3>2. f[j] = FlatTo(f, q, j) /\ q[j] \in Seq(T)
        BY <1>0, <2>1, FlatIs
      <3>3. Good(j)
        <4>1. CASE j = 1
          <5>1. f[j] = q[j]
            BY <3>2, <4>1 DEF FlatTo
          <5>2. SetsTo(q, j) = ToSet(q[j])
            BY <4>1 DEF SetsTo
          <5>3. PiecesApart(q, n) => OneEach(q[j])
            BY <3>1 DEF PiecesApart
          <5> QED
            BY <3>2, <5>1, <5>2, <5>3
        <4>2. CASE j # 1
          <5>1. Good(k) /\ k \in 1 .. n
            BY <2>3, <3>1, <4>2
          <5>2. f[j] = f[k] \o q[j]
            BY <3>1, <3>2, <4>2 DEF FlatTo
          <5>3. f[j] \in Seq(T) /\ ToSet(f[j]) = ToSet(f[k]) \cup ToSet(q[j])
            BY <3>2, <5>1, <5>2, ConcatSet
          <5>4. SetsTo(q, j) = SetsTo(q, k) \cup ToSet(q[j])
            <6>1. \A i : i \in 1 .. j <=> i \in 1 .. k \/ i = j
              BY <3>1
            <6> QED
              BY <6>1 DEF SetsTo
          <5>5. ASSUME PiecesApart(q, n)
                PROVE  OneEach(f[j])
            <6>1. OneEach(f[k]) /\ OneEach(q[j])
              BY <3>1, <5>1, <5>5 DEF PiecesApart
            <6>2. \A i \in 1 .. k : i \in 1 .. n /\ i # j
              BY <3>1, <5>1
            <6>3. \A i \in 1 .. k : ToSet(q[i]) \cap ToSet(q[j]) = {}
              BY <5>5, <6>2 DEF PiecesApart
            <6>4. SetsTo(q, k) \cap ToSet(q[j]) = {}
              BY <6>3 DEF SetsTo
            <6> QED
              BY <3>2, <5>1, <5>2, <6>1, <6>4, ConcatSet
          <5> QED
            BY <5>1, <5>3, <5>4, <5>5
        <4> QED
          BY <4>1, <4>2
      <3> HIDE DEF Good
      <3> QED
        BY <3>1, <3>3
    <2>4. 0 .. n \subseteq S
      <3> HIDE DEF S
      <3> QED
        BY <2>2, <2>3, InductionUpTo
    <2>5. Good(n)
      BY <2>0, <2>4
    <2>6. FlattenSeq(q) \in Seq(T)
      BY <2>1, <2>5
    <2>7. ToSet(FlattenSeq(q)) = SetsTo(q, Len(q))
      BY <2>1, <2>5
    <2>8. PiecesApart(q, Len(q)) => OneEach(FlattenSeq(q))
      BY <2>1, <2>5
    <2> QED
      BY <2>6, <2>7, <2>8 DEF PutTogether
  <1> QED
    BY <1>1, <1>2

LEMMA SelectInIs ==
    ASSUME NEW X, NEW s \in Seq(X), NEW T
    PROVE  /\ SelectIn(s, T) \in Seq(X)
           /\ ToSet(SelectIn(s, T)) = ToSet(s) \cap T
           /\ OneEach(s) => OneEach(SelectIn(s, T))
  <1>1. PICK n \in Nat : n = Len(s) /\ DOMAIN s = 1 .. n
    BY LenProperties
  <1>2. PICK q : q = [i \in 1 .. n |-> IF s[i] \in T THEN <<s[i]>> ELSE <<>>]
    OBVIOUS
  <1>3. \A i \in 1 .. n : s[i] \in X
    BY <1>1, ElementOfSeq
  <1>4. ASSUME NEW i \in 1 .. n
        PROVE  /\ q[i] \in Seq(X) /\ OneEach(q[i])
               /\ ToSet(q[i]) = IF s[i] \in T THEN {s[i]} ELSE {}
    <2>1. CASE s[i] \in T
      <3>1. q[i] = <<s[i]>>
        BY <1>2, <2>1
      <3>2. <<s[i]>> \in Seq(X) /\ Len(<<s[i]>>) = 1 /\ DOMAIN <<s[i]>> = {1} /\ <<s[i]>>[1] = s[i]
        BY <1>3
      <3>3. OneEach(<<s[i]>>)
        BY <3>2 DEF OneEach
      <3>4. ToSet(<<s[i]>>) = {s[i]}
        BY <3>2 DEF ToSet
      <3> QED
        BY <2>1, <3>1, <3>2, <3>3, <3>4
    <2>2. CASE s[i] \notin T
      <3>1. q[i] = <<>>
        BY <1>2, <2>2
      <3>2. Len(<<>>) = 0 /\ DOMAIN <<>> = {} /\ <<>> \in Seq(X)
        OBVIOUS
      <3>3. OneEach(<<>>)
        BY <3>2 DEF OneEach
      <3>4. ToSet(<<>>) = {}
        BY <3>2 DEF ToSet
      <3> QED
        BY <2>2, <3>1, <3>2, <3>3, <3>4
    <2> QED
      BY <2>1, <2>2
  <1>5a. PICK Y : Y = Seq(X)
    OBVIOUS
  <1>5b. \A i \in 1 .. n : q[i] \in Y
    BY <1>4, <1>5a
  <1>5c. q \in Seq(Y) /\ Len(q) = n
    BY <1>2, <1>5b
  <1>5. q \in Seq(Seq(X)) /\ Len(q) = n
    BY <1>5a, <1>5c
  <1>6. PICK r : r = FlattenSeq(q)
    OBVIOUS
  <1>7a. PutTogether(FlattenSeq(q), X, q, Len(q))
    BY <1>5, FlattenMakes
  <1>7. r \in Seq(X) /\ ToSet(r) = SetsTo(q, n) /\ (PiecesApart(q, n) => OneEach(r))
    BY <1>5, <1>6, <1>7a DEF PutTogether
  <1>8. SetsTo(q, n) = ToSet(s) \cap T
    <2>1. ToSet(s) = {s[i] : i \in 1 .. n}
      BY <1>1 DEF ToSet
    <2>2. ASSUME NEW x \in SetsTo(q, n)
          PROVE  x \in ToSet(s) \cap T
      <3>1. PICK i \in 1 .. n : x \in ToSet(q[i])
        BY <2>2 DEF SetsTo
      <3>2. s[i] \in T /\ x = s[i]
        BY <1>4, <3>1
      <3> QED
        BY <2>1, <3>2
    <2>3. ASSUME NEW x \in ToSet(s) \cap T
          PROVE  x \in SetsTo(q, n)
      <3>1. PICK i \in 1 .. n : x = s[i]
        BY <2>1
      <3>2. x \in ToSet(q[i])
        BY <1>4, <3>1
      <3> QED
        BY <3>2 DEF SetsTo
    <2> QED
      BY <2>2, <2>3
  <1>9. ASSUME OneEach(s)
        PROVE  PiecesApart(q, n)
    <2>1. \A i, j \in 1 .. n : i # j => s[i] # s[j]
      BY <1>1, <1>9 DEF OneEach
    <2> QED
      BY <1>4, <2>1 DEF PiecesApart
  <1>10. SelectIn(s, T) = r
    BY <1>1, <1>2, <1>6 DEF SelectIn
  <1> QED
    BY <1>7, <1>8, <1>9, <1>10

IdsKnown(heap, list) == \A i \in ToSet(list) : Id(heap[i]) \in ToSet(Alphabet)

LEMMA SortedIs ==
    ASSUME NEW heap, NEW X, NEW list \in Seq(X), IdsKnown(heap, list)
    PROVE  /\ Sorted(heap, list) \in Seq(X)
           /\ ToSet(Sorted(heap, list)) = ToSet(list)
           /\ OneEach(list) => OneEach(Sorted(heap, list))
  <1>1. PICK n \in Nat : n = Len(Alphabet) /\ DOMAIN Alphabet = 1 .. n
    BY AlphabetAssumption, LenProperties
  <1>2. PICK q : q = [a \in 1 .. n |->
                        SelectIn(list, {i \in ToSet(list) : Id(heap[i]) = Alphabet[a]})]
    OBVIOUS
  <1>3. ASSUME NEW a \in 1 .. n
        PROVE  /\ q[a] \in Seq(X) /\ ToSet(q[a]) = {i \in ToSet(list) : Id(heap[i]) = Alphabet[a]}
               /\ OneEach(list) => OneEach(q[a])
    <2>1. PICK T : T = {i \in ToSet(list) : Id(heap[i]) = Alphabet[a]}
      OBVIOUS
    <2>2. q[a] = SelectIn(list, T) /\ ToSet(list) \cap T = T
      BY <1>2, <2>1
    <2> QED
      BY <2>1, <2>2, SelectInIs
  <1>4a. PICK Y : Y = Seq(X)
    OBVIOUS
  <1>4b. \A i \in 1 .. n : q[i] \in Y
    BY <1>3, <1>4a
  <1>4c. q \in Seq(Y) /\ Len(q) = n
    BY <1>2, <1>4b
  <1>4. q \in Seq(Seq(X)) /\ Len(q) = n
    BY <1>4a, <1>4c
  <1>5. PICK r : r = FlattenSeq(q)
    OBVIOUS
  <1>6a. PutTogether(FlattenSeq(q), X, q, Len(q))
    BY <1>4, FlattenMakes
  <1>6. r \in Seq(X) /\ ToSet(r) = SetsTo(q, n) /\ (PiecesApart(q, n) => OneEach(r))
    BY <1>4, <1>5, <1>6a DEF PutTogether
  <1>7. SetsTo(q, n) = ToSet(list)
    <2>1. \A i \in ToSet(list) : \E a \in 1 .. n : Id(heap[i]) = Alphabet[a]
      BY <1>1 DEF IdsKnown, ToSet
    <2> QED
      BY <1>3, <2>1 DEF SetsTo
  <1>8. ASSUME OneEach(list)
        PROVE  PiecesApart(q, n)
    <2>1. \A a, b \in 1 .. n : Alphabet[a] = Alphabet[b] => a = b
      BY <1>1, AlphabetAssumption DEF IsInjective
    <2>2. \A a \in 1 .. n : OneEach(q[a])
      BY <1>3, <1>8
    <2>3. ASSUME NEW a \in 1 .. n, NEW b \in 1 .. n, a # b
          PROVE  ToSet(q[a]) \cap ToSet(q[b]) = {}
      <3>1. Alphabet[a] # Alphabet[b]
        BY <2>1, <2>3
      <3>2. /\ ToSet(q[a]) = {i \in ToSet(list) : Id(heap[i]) = Alphabet[a]}
            /\ ToSet(q[b]) = {i \in ToSet(list) : Id(heap[i]) = Alphabet[b]}
        BY <1>3
      <3> QED
        BY <3>1, <3>2
    <2> QED
      BY <2>2, <2>3 DEF PiecesApart
  <1>9. Sorted(heap, list) = r
    BY <1>1, <1>2, <1>5 DEF Sorted
  <1> QED
    BY <1>6, <1>7, <1>8, <1>9

-----------------------------------------------------------------------------
(* The attribute "alias" of a row: the symbols it names are put, one after   *)
(* the other, at the end of the ring of the row's symbol.                    *)

LEMMA SameId ==
    ASSUME NEW s, NEW t, SameSymbol(s, t)
    PROVE  Id(s) = Id(t)
  BY DEF SameSymbol, Id, IdString

LEMMA SameButTwice ==
    ASSUME NEW heap, NEW h, NEW hh, NEW S, NEW T, T \subseteq S,
           SameBut(heap, h, S), SameBut(h, hh, T)
    PROVE  SameBut(heap, hh, S)
  BY DEF SameBut, SameSymbol

Prefix(L, n) == [j \in 1 .. n |-> L[j]]

LEMMA PrefixIs ==
    ASSUME NEW X, NEW L \in Seq(X), NEW n \in 1 .. Len(L)
    PROVE  /\ Prefix(L, n) \in Seq(X) /\ Len(Prefix(L, n)) = n
           /\ \A j \in 1 .. n : Prefix(L, n)[j] = L[j]
           /\ ToSet(Prefix(L, n)) \subseteq ToSet(L)
           /\ Prefix(L, Len(L)) = L
           /\ n # Len(L) => Append(Prefix(L, n), L[n + 1]) = Prefix(L, n + 1)
  <1>1. PICK m \in Nat : m = Len(L) /\ DOMAIN L = 1 .. m
    BY LenProperties
  <1>2. \A j \in 1 .. n : j \in 1 .. m
    BY <1>1
  <1>3. \A j \in 1 .. m : L[j] \in X
    BY <1>1, ElementOfSeq
  <1>4. PICK p : p = [j \in 1 .. n |-> L[j]]
    OBVIOUS
  <1>5. p \in Seq(X) /\ Len(p) = n /\ DOMAIN p = 1 .. n /\ \A j \in 1 .. n : p[j] = L[j]
    BY <1>2, <1>3, <1>4
  <1>6. ToSet(p) \subseteq ToSet(L)
    BY <1>1, <1>2, <1>5 DEF ToSet
  <1>7. [j \in 1 .. m |-> L[j]] = L
    BY <1>1
  <1>8. ASSUME n # m
        PROVE  Append(p, L[n + 1]) = [j \in 1 .. n + 1 |-> L[j]]
    <2>1. n + 1 \in 1 .. m
      BY <1>1, <1>8
    <2>2. PICK x : x = L[n + 1] /\ x \in X
      BY <1>3, <2>1
    <2>3. PICK q : q = Append(p, x)
      OBVIOUS
    <2>4. q \in Seq(X) /\ Len(q) = n + 1 /\ \A j \in 1 .. n + 1 : q[j] = IF j <= n THEN p[j] ELSE x
      BY <1>5, <2>2, <2>3
    <2>5. \A j \in 1 .. n + 1 : q[j] = L[j]
      <3> SUFFICES ASSUME NEW j \in 1 .. n + 1
                   PROVE  q[j] = L[j]
        OBVIOUS
      <3>1. CASE j <= n
        <4>1. j \in 1 .. n
          BY <3>1
        <4> QED
          BY <1>5, <2>4, <3>1, <4>1
      <3>2. CASE ~(j <= n)
        <4>1. j = n + 1
          BY <3>2
        <4> QED
          BY <2>2, <2>4, <3>2, <4>1
      <3> QED
        BY <3>1, <3>2
    <2>6. DOMAIN q = 1 .. n + 1 /\ q = [j \in DOMAIN q |-> q[j]]
      BY <2>4, LenProperties
    <2> QED
      BY <2>2, <2>3, <2>5, <2>6
  <1>9. Prefix(L, n) = p /\ Prefix(L, m) = [j \in 1 .. m |-> L[j]]
        /\ Prefix(L, n + 1) = [j \in 1 .. n + 1 |-> L[j]]
    BY <1>4 DEF Prefix
  <1> QED
    BY <1>1, <1>5, <1>6, <1>7, <1>8, <1>9

ToLink(heap, part, r, L, ids) ==
    /\ Heap(heap)
    /\ L \in Seq(1 .. Len(heap)) /\ L # <<>> /\ OneEach(L)
    /\ \A j \in 1 .. Len(L) : Alone(heap, L[j])
    /\ ToSet(L) \subseteq ToSet(part.syms)
    /\ part.syms[r] = L[1]
    /\ ToSet(part.syms) \subseteq 1 .. Len(heap)
    /\ \A i, j \in ToSet(part.syms) : Id(heap[i]) = Id(heap[j]) => i = j
    /\ Len(ids) = Len(L) - 1
    /\ \A n \in 1 .. Len(ids) : ids[n] = Id(heap[L[n + 1]])

(* After the first n ids.                                                   *)
Linking(acc, heap, L, n) ==
    /\ acc = [heap |-> acc.heap, ok |-> TRUE]
    /\ Heap(acc.heap)
    /\ SameBut(heap, acc.heap, ToSet(L))
    /\ IsRing(acc.heap, Prefix(L, n + 1))
    /\ \A j \in n + 2 .. Len(L) : Alone(acc.heap, L[j])

LEMMA ToLinkParts ==
    ASSUME NEW heap, NEW part, NEW r, NEW L, NEW ids, ToLink(heap, part, r, L, ids)
    PROVE  /\ Len(L) \in Nat \ {0} /\ DOMAIN L = 1 .. Len(L)
           /\ Len(ids) = Len(L) - 1 /\ Len(ids) \in Nat
           /\ Len(heap) \in Nat
           /\ \A j \in 1 .. Len(L) : L[j] \in 1 .. Len(heap)
  <1>1. L \in Seq(1 .. Len(heap)) /\ L # <<>> /\ Len(ids) = Len(L) - 1
    BY DEF ToLink
  <1>2. Len(L) \in Nat /\ DOMAIN L = 1 .. Len(L)
    BY <1>1, LenProperties
  <1>3. Len(L) # 0
    BY <1>1, EmptySeq
  <1>4. \A j \in 1 .. Len(L) : L[j] \in 1 .. Len(heap)
    BY <1>1, ElementOfSeq
  <1>5. Len(heap) \in Nat
    BY HeapLength DEF ToLink
  <1> QED
    BY <1>1, <1>2, <1>3, <1>4, <1>5

LEMMA LinkingFirst ==
    ASSUME NEW heap, NEW part, NEW r, NEW L, NEW ids, ToLink(heap, part, r, L, ids)
    PROVE  Linking([heap |-> heap, ok |-> TRUE], heap, L, 0)
  <1>1. PICK m \in Nat \ {0} : m = Len(L) /\ DOMAIN L = 1 .. m
    BY ToLinkParts
  <1>2. PICK acc : acc = [heap |-> heap, ok |-> TRUE]
    OBVIOUS
  <1>3. acc.heap = heap /\ acc = [heap |-> acc.heap, ok |-> TRUE]
    BY <1>2
  <1>4. Heap(heap) /\ \A j \in 1 .. m : Alone(heap, L[j])
    BY <1>1 DEF ToLink
  <1>5. SameBut(heap, heap, ToSet(L))
    BY DEF SameBut, SameSymbol
  <1>6. Alone(heap, L[1])
    BY <1>1, <1>4
  <1>7. IsRing(heap, <<L[1]>>)
    BY <1>4, <1>6, AloneIsRing
  <1>8. <<L[1]>> = Prefix(L, 1)
    BY DEF Prefix
  <1>9. \A j \in 2 .. m : Alone(heap, L[j])
    BY <1>1, <1>4
  <1>10. 0 + 1 = 1 /\ 0 + 2 = 2
    OBVIOUS
  <1>11. Linking(acc, heap, L, 0)
    BY <1>1, <1>3, <1>4, <1>5, <1>7, <1>8, <1>9, <1>10 DEF Linking
  <1> QED
    BY <1>2, <1>11

LEMMA LinkingNext ==
    ASSUME NEW heap, NEW part, NEW r, NEW L, NEW ids, ToLink(heap, part, r, L, ids),
           NEW n \in 1 .. Len(ids), NEW acc, Linking(acc, heap, L, n - 1)
    PROVE  Linking(LinkTo(acc, part, r, ids[n]), heap, L, n)
  <1>1. PICK m \in Nat \ {0}, len \in Nat :
          /\ m = Len(L) /\ DOMAIN L = 1 .. m /\ Len(ids) = m - 1 /\ len = Len(heap)
          /\ \A j \in 1 .. m : L[j] \in 1 .. len
    BY ToLinkParts
  <1>2. n \in 1 .. m /\ n + 1 \in 1 .. m /\ (n - 1) + 1 = n /\ (n - 1) + 2 = n + 1
    BY <1>1
  <1>3. PICK h : h = acc.heap
    OBVIOUS
  <1>4. PICK P, x : P = Prefix(L, n) /\ x = L[n + 1]
    OBVIOUS
  <1>5. acc = [heap |-> h, ok |-> TRUE] /\ Heap(h) /\ SameBut(heap, h, ToSet(L)) /\ IsRing(h, P)
        /\ Alone(h, x) /\ \A j \in n + 1 .. m : Alone(h, L[j])
    <2>1. \A j \in n + 1 .. m : Alone(h, L[j])
      BY <1>1, <1>2, <1>3 DEF Linking
    <2>2. n + 1 \in n + 1 .. m
      BY <1>2
    <2> QED
      BY <1>2, <1>3, <1>4, <2>1, <2>2 DEF Linking
  <1>6. /\ Len(P) = n /\ \A j \in 1 .. n : P[j] = L[j]
        /\ ToSet(P) \subseteq ToSet(L) /\ Append(P, x) = Prefix(L, n + 1) /\ P[1] = L[1]
    <2>1. L \in Seq(1 .. Len(heap))
      BY DEF ToLink
    <2>2. n \in 1 .. Len(L) /\ n # Len(L) /\ 1 \in 1 .. n
      BY <1>1, <1>2
    <2>3. PICK X : X = 1 .. Len(heap)
      OBVIOUS
    <2>4. L \in Seq(X)
      BY <2>1, <2>3
    <2>5. Len(P) = n /\ \A j \in 1 .. n : P[j] = L[j]
      BY <1>4, <2>2, <2>4, PrefixIs
    <2>6. ToSet(P) \subseteq ToSet(L)
      BY <1>4, <2>2, <2>4, PrefixIs
    <2>7. Append(P, x) = Prefix(L, n + 1)
      BY <1>4, <2>2, <2>4, PrefixIs
    <2> QED
      BY <2>2, <2>5, <2>6, <2>7
  <1>7. OneEach(L) /\ part.syms[r] = L[1] /\ ids[n] = Id(heap[x]) /\ ToSet(L) \subseteq ToSet(part.syms)
        /\ ToSet(part.syms) \subseteq 1 .. len
    BY <1>1, <1>4 DEF ToLink
  <1>8. \A j \in 1 .. Len(P) : P[j] # x
    <2>1. \A j \in 1 .. n : j \in 1 .. m /\ j # n + 1
      BY <1>2
    <2>2. \A j \in 1 .. n : L[j] # x
      BY <1>1, <1>2, <1>4, <1>7, <2>1 DEF OneEach
    <2> QED
      BY <1>6, <2>2
  <1>9. x \in ToSet(L)
    BY <1>1, <1>2, <1>4 DEF ToSet
  <1>10. SymbolsOfId(h, part.syms, ids[n]) = {x}
    <2>1. \A i \in 1 .. len : Id(h[i]) = Id(heap[i])
      <3>1. \A i \in 1 .. len : SameSymbol(h[i], heap[i])
        BY <1>1, <1>5 DEF SameBut
      <3> QED
        BY <3>1, SameId
    <2>2. \A i, j \in ToSet(part.syms) : Id(heap[i]) = Id(heap[j]) => i = j
      BY DEF ToLink
    <2>3. x \in ToSet(part.syms) /\ Id(h[x]) = ids[n]
      BY <1>7, <1>9, <2>1
    <2>4. \A i \in ToSet(part.syms) : Id(h[i]) = ids[n] => i = x
      BY <1>7, <1>9, <2>1, <2>2
    <2> QED
      BY <2>3, <2>4 DEF SymbolsOfId
  <1>11. h[L[1]].main = L[1] /\ h[x].main = x
    <2>1. h[P[1]].main = P[1]
      <3>1. 1 \in 1 .. Len(P)
        BY <1>2, <1>6
      <3> QED
        BY <1>5, <3>1 DEF IsRing
    <2> QED
      BY <1>5, <1>6, <2>1 DEF Alone
  <1>12. PICK hh : hh = AddAlias(h, L[1], x)
    OBVIOUS
  <1>13. MayAddAlias(h, L[1], x) /\ hh = Extended(h, P, x)
    BY <1>5, <1>6, <1>8, <1>12, AddAliasIs
  <1>14. Heap(hh) /\ SameBut(h, hh, ToSet(P) \cup {x}) /\ IsRing(hh, Append(P, x))
    BY <1>5, <1>8, <1>13, ExtendedIs
  <1>15. LinkTo(acc, part, r, ids[n]) = [heap |-> hh, ok |-> TRUE]
    <2>1. PICK named : named = SymbolsOfId(acc.heap, part.syms, ids[n])
      OBVIOUS
    <2>2. named = {x} /\ (CHOOSE i \in named : TRUE) = x
      BY <1>3, <1>10, <2>1
    <2>3. acc.heap[part.syms[r]].main = L[1]
      BY <1>3, <1>7, <1>11
    <2>4. acc.ok
      BY <1>5
    <2>5. LinkTo(acc, part, r, ids[n]) = [acc EXCEPT !.heap = AddAlias(acc.heap, L[1], x)]
      <3>1. acc.heap[x].main = x /\ MayAddAlias(acc.heap, L[1], x) /\ named # {}
        BY <1>3, <1>11, <1>13, <2>2
      <3> QED
        BY <2>1, <2>2, <2>3, <2>4, <3>1, Zenon DEF LinkTo
    <2>6. LinkTo(acc, part, r, ids[n]) = [acc EXCEPT !.heap = hh]
      BY <1>3, <1>12, <2>5
    <2>7. [acc EXCEPT !.heap = hh] = [heap |-> hh, ok |-> TRUE]
      <3>1. PICK t : t = TRUE
        OBVIOUS
      <3>2. acc = [heap |-> h, ok |-> t]
        BY <1>5, <3>1
      <3>3. [acc EXCEPT !.heap = hh] = [heap |-> hh, ok |-> t]
        BY <3>2
      <3> QED
        BY <3>1, <3>3
    <2> QED
      BY <2>6, <2>7
  <1>16. SameBut(heap, hh, ToSet(L))
    <2>1. ToSet(P) \cup {x} \subseteq ToSet(L)
      BY <1>6, <1>9
    <2> QED
      BY <1>5, <1>14, <2>1, SameButTwice
  <1>17. ASSUME NEW j \in n + 2 .. m
         PROVE  Alone(hh, L[j])
    <2>1. j \in n + 1 .. m /\ j \in 1 .. m /\ j # n + 1 /\ \A a \in 1 .. n : a \in 1 .. m /\ a # j
      BY <1>2
    <2>2. L[j] # x /\ \A a \in 1 .. n : L[a] # L[j]
      BY <1>1, <1>2, <1>4, <1>7, <2>1 DEF OneEach
    <2>3. L[j] \notin ToSet(P)
      <3>1. DOMAIN P = 1 .. n
        BY <1>4 DEF Prefix
      <3> QED
        BY <1>6, <2>2, <3>1 DEF ToSet
    <2>4. Alone(h, L[j])
      BY <1>5, <2>1
    <2> QED
      BY <1>14, <2>2, <2>3, <2>4 DEF Alone, SameBut
  <1>18. PICK end : end = [heap |-> hh, ok |-> TRUE]
    OBVIOUS
  <1>19. end.heap = hh /\ end = [heap |-> end.heap, ok |-> TRUE]
    BY <1>18
  <1>20. Linking(end, heap, L, n)
    BY <1>1, <1>6, <1>14, <1>16, <1>17, <1>19 DEF Linking
  <1> QED
    BY <1>15, <1>18, <1>20

Accs == [heap : Seq(Symbols), ok : BOOLEAN]

(* f goes on as LinkTo says, at least where that is an acc again.           *)
Links(f, heap, part, r, ids) ==
    /\ f[0] = [heap |-> heap, ok |-> TRUE]
    /\ \A n \in 1 .. Len(ids) : \/ f[n] = LinkTo(f[n - 1], part, r, ids[n])
                                \/ LinkTo(f[n - 1], part, r, ids[n]) \notin Accs

LEMMA LinkingIsAcc ==
    ASSUME NEW acc, NEW heap, NEW L, NEW n, Linking(acc, heap, L, n)
    PROVE  acc \in Accs
  <1>1. PICK h : h = acc.heap
    OBVIOUS
  <1>2. acc = [heap |-> h, ok |-> TRUE] /\ h \in Seq(Symbols)
    BY <1>1 DEF Linking, Heap
  <1>3. TRUE \in BOOLEAN
    OBVIOUS
  <1>4. PICK t \in BOOLEAN : t = TRUE
    BY <1>3
  <1>5. acc = [heap |-> h, ok |-> t]
    BY <1>2, <1>4
  <1> QED
    BY <1>2, <1>5 DEF Accs

LEMMA LinksRight ==
    ASSUME NEW heap, NEW part, NEW r, NEW L, NEW ids, ToLink(heap, part, r, L, ids),
           NEW f, Links(f, heap, part, r, ids)
    PROVE  /\ \A n \in 0 .. Len(ids) : Linking(f[n], heap, L, n)
           /\ \A n \in 1 .. Len(ids) : f[n] = LinkTo(f[n - 1], part, r, ids[n])
  <1>1. PICK m \in Nat : m = Len(ids)
    BY ToLinkParts
  <1>2. ASSUME NEW n \in 1 .. m, Linking(f[n - 1], heap, L, n - 1)
        PROVE  f[n] = LinkTo(f[n - 1], part, r, ids[n]) /\ Linking(f[n], heap, L, n)
    <2>1. Linking(LinkTo(f[n - 1], part, r, ids[n]), heap, L, n)
      BY <1>1, <1>2, LinkingNext
    <2>2. LinkTo(f[n - 1], part, r, ids[n]) \in Accs
      BY <2>1, LinkingIsAcc
    <2>3. f[n] = LinkTo(f[n - 1], part, r, ids[n])
      BY <1>1, <2>2 DEF Links
    <2> QED
      BY <2>1, <2>3
  <1> DEFINE S == {n \in 0 .. m : Linking(f[n], heap, L, n)}
  <1>3. 0 \in S
    BY <1>1, LinkingFirst DEF Links
  <1>4. ASSUME NEW n \in 0 .. m, n # m /\ n \in S
        PROVE  n + 1 \in S
    <2>1. PICK j \in 1 .. m : j = n + 1 /\ j - 1 = n
      BY <1>4
    <2>2. Linking(f[j - 1], heap, L, j - 1)
      BY <1>4, <2>1
    <2> QED
      BY <1>2, <2>1, <2>2
  <1>5. 0 .. m \subseteq S
    <2> HIDE DEF S
    <2> QED
      BY <1>1, <1>3, <1>4, InductionUpTo
  <1>6. \A n \in 0 .. m : Linking(f[n], heap, L, n)
    BY <1>5
  <1>7. \A n \in 1 .. m : f[n] = LinkTo(f[n - 1], part, r, ids[n])
    <2>1. \A n \in 1 .. m : n - 1 \in 0 .. m
      OBVIOUS
    <2> QED
      BY <1>2, <1>6, <2>1
  <1> QED
    BY <1>1, <1>6, <1>7

IsLinked(f, heap, part, r, ids) ==
    f = [n \in 0 .. Len(ids) |-> IF n = 0 THEN [heap |-> heap, ok |-> TRUE]
                                 ELSE LinkTo(f[n - 1], part, r, ids[n])]

LEMMA LinkedIs ==
    ASSUME NEW heap, NEW part, NEW r, NEW L, NEW ids, ToLink(heap, part, r, L, ids),
           NEW end, end = Linked(heap, part, r, ids)
    PROVE  /\ end.ok /\ Heap(end.heap)
           /\ SameBut(heap, end.heap, ToSet(L)) /\ IsRing(end.heap, L)
  <1>1. PICK m \in Nat : m = Len(ids) /\ Len(L) = m + 1
    BY ToLinkParts
  <1>2. PICK A : A = [heap |-> heap, ok |-> TRUE]
    OBVIOUS
  <1>3. A \in Accs
    BY <1>2, LinkingFirst, LinkingIsAcc
  <1>4. PICK F : F = [x \in (1 .. m) \X Accs |->
                       IF LinkTo(x[2], part, r, ids[x[1]]) \in Accs
                       THEN LinkTo(x[2], part, r, ids[x[1]]) ELSE x[2]]
    OBVIOUS
  <1>5. F \in [(1 .. m) \X Accs -> Accs]
    BY <1>4
  <1>6. PICK g \in [0 .. m -> Accs] : Recurs(g, F, A, m)
    BY <1>3, <1>5, RecursionExists
  <1>7. Links(g, heap, part, r, ids)
    <2>1. g[0] = A
      BY <1>6 DEF Recurs
    <2>2. ASSUME NEW n \in 1 .. m
          PROVE  \/ g[n] = LinkTo(g[n - 1], part, r, ids[n])
                 \/ LinkTo(g[n - 1], part, r, ids[n]) \notin Accs
      <3>1. PICK a \in Accs : a = g[n - 1] /\ g[n] = F[<<n, a>>]
        <4>1. n - 1 \in 0 .. m
          OBVIOUS
        <4> QED
          BY <1>6, <4>1 DEF Recurs
      <3>2. <<n, a>> \in (1 .. m) \X Accs /\ <<n, a>>[1] = n /\ <<n, a>>[2] = a
        OBVIOUS
      <3>3. F[<<n, a>>] = IF LinkTo(a, part, r, ids[n]) \in Accs THEN LinkTo(a, part, r, ids[n]) ELSE a
        BY <1>4, <3>2
      <3> QED
        BY <3>1, <3>3
    <2> QED
      BY <1>1, <1>2, <2>1, <2>2 DEF Links
  <1>8. \A n \in 1 .. m : g[n] = LinkTo(g[n - 1], part, r, ids[n])
    BY <1>1, <1>7, LinksRight
  <1>9. IsLinked(g, heap, part, r, ids)
    <2>1. PICK h : h = [n \in 0 .. m |-> IF n = 0 THEN [heap |-> heap, ok |-> TRUE]
                                         ELSE LinkTo(g[n - 1], part, r, ids[n])]
      OBVIOUS
    <2>2. ASSUME NEW n \in 0 .. m
          PROVE  g[n] = h[n]
      <3>1. CASE n = 0
        <4>1. h[0] = [heap |-> heap, ok |-> TRUE]
          BY <2>1
        <4> QED
          BY <1>2, <1>6, <3>1, <4>1 DEF Recurs
      <3>2. CASE n # 0
        <4>1. n \in 1 .. m /\ h[n] = LinkTo(g[n - 1], part, r, ids[n])
          BY <2>1, <3>2
        <4> QED
          BY <1>8, <4>1
      <3> QED
        BY <3>1, <3>2
    <2>3. DOMAIN g = 0 .. m /\ DOMAIN h = 0 .. m /\ g = [n \in 0 .. m |-> g[n]] /\ h = [n \in 0 .. m |-> h[n]]
      BY <1>6, <2>1
    <2>4. g = h
      BY <2>2, <2>3
    <2> QED
      BY <1>1, <2>1, <2>4 DEF IsLinked
  <1>10. PICK f : f = CHOOSE x : IsLinked(x, heap, part, r, ids)
    OBVIOUS
  <1>11. IsLinked(f, heap, part, r, ids)
    BY <1>9, <1>10
  <1>12. end = f[m]
    BY <1>1, <1>10 DEF Linked, IsLinked
  <1>13. Links(f, heap, part, r, ids)
    <2>1. f[0] = [heap |-> heap, ok |-> TRUE]
      BY <1>1, <1>11 DEF IsLinked
    <2>2. \A n \in 1 .. m : f[n] = LinkTo(f[n - 1], part, r, ids[n])
      <3> SUFFICES ASSUME NEW n \in 1 .. m
                   PROVE  f[n] = LinkTo(f[n - 1], part, r, ids[n])
        OBVIOUS
      <3>1. n \in 0 .. m /\ n # 0
        OBVIOUS
      <3> QED
        BY <1>1, <1>11, <3>1 DEF IsLinked
    <2> QED
      BY <1>1, <2>1, <2>2 DEF Links
  <1>14. Linking(end, heap, L, m)
    <2>1. m \in 0 .. m
      OBVIOUS
    <2> QED
      BY <1>1, <1>12, <1>13, <2>1, LinksRight
  <1>15. Prefix(L, m + 1) = L
    <2>1. L \in Seq(1 .. Len(heap)) /\ m + 1 \in 1 .. Len(L)
      BY <1>1 DEF ToLink
    <2> QED
      BY <1>1, <2>1, PrefixIs
  <1>16. end.ok
    BY <1>14 DEF Linking
  <1> QED
    BY <1>14, <1>15, <1>16 DEF Linking

-----------------------------------------------------------------------------
(* What is read of a file.                                                  *)

GoodRead(read) ==
    /\ read.elf.dynsym \in Seq(Entries) /\ read.elf.symtab \in Seq(Entries)
    /\ read.elf.verdef \in Seq([ndx : Nat, name : STRING])
    /\ read.elf.verneed \in Seq(Seq([other : Nat, name : STRING]) \ {<<>>})
    /\ read.dies \in Seq([kind : SymbolKinds, address : Nat])
    /\ \A i, j \in PublicEntries(read.elf) : EntryId(read.elf, i) = EntryId(read.elf, j) => i = j
    /\ \A i, j \in PublicEntries(read.elf) :
         /\ ElfSymbol(read.elf, i).name = ElfSymbol(read.elf, j).name
         /\ ElfSymbol(read.elf, i).version.name = ElfSymbol(read.elf, j).version.name
         => i = j
    /\ \A i \in DOMAIN SymbolTable(read.elf) : EntryId(read.elf, i) \in ToSet(Alphabet)

LEMMA FilesGood ==
    ASSUME NEW w \in Worlds, w.tool # "abisym", NEW f \in DOMAIN w.files
    PROVE  GoodRead(w.files[f])
  <1>1. PICK read : read = w.files[f]
    OBVIOUS
  <1>2. /\ read.elf.dynsym \in Seq(Entries) /\ read.elf.symtab \in Seq(Entries)
        /\ read.elf.verdef \in Seq([ndx : Nat, name : STRING])
        /\ read.elf.verneed \in Seq(Seq([other : Nat, name : STRING]) \ {<<>>})
        /\ read.dies \in Seq([kind : SymbolKinds, address : Nat])
    BY <1>1, FilesAssumption
  <1>3. \A i, j \in PublicEntries(read.elf) :
          \/ EntryId(read.elf, i) = EntryId(read.elf, j)
          \/ /\ ElfSymbol(read.elf, i).name = ElfSymbol(read.elf, j).name
             /\ ElfSymbol(read.elf, i).version.name = ElfSymbol(read.elf, j).version.name
          => i = j
    BY <1>1, NamesApart, Zenon
  <1>4. \A i \in DOMAIN SymbolTable(read.elf) : EntryId(read.elf, i) \in ToSet(Alphabet)
    BY <1>1, AlphabetAssumption
  <1> QED
    BY <1>1, <1>2, <1>3, <1>4, Zenon DEF GoodRead

LEMMA TableIs ==
    ASSUME NEW read, GoodRead(read)
    PROVE  /\ SymbolTable(read.elf) \in Seq(Entries)
           /\ Len(SymbolTable(read.elf)) \in Nat
           /\ DOMAIN SymbolTable(read.elf) = 1 .. Len(SymbolTable(read.elf))
           /\ \A e \in 1 .. Len(SymbolTable(read.elf)) : SymbolTable(read.elf)[e] \in Entries
           /\ Len(read.dies) \in Nat
           /\ \A i \in 1 .. Len(read.dies) : read.dies[i] \in [kind : SymbolKinds, address : Nat]
  <1>1. PICK t : t = SymbolTable(read.elf)
    OBVIOUS
  <1>2. t \in Seq(Entries)
    BY <1>1 DEF GoodRead, SymbolTable
  <1>3. Len(t) \in Nat /\ DOMAIN t = 1 .. Len(t)
    BY <1>2, LenProperties
  <1>4. \A e \in 1 .. Len(t) : t[e] \in Entries
    BY <1>2, ElementOfSeq
  <1>5. read.dies \in Seq([kind : SymbolKinds, address : Nat])
    BY DEF GoodRead
  <1>6. Len(read.dies) \in Nat
    BY <1>5, LenProperties
  <1>7. \A i \in 1 .. Len(read.dies) : read.dies[i] \in [kind : SymbolKinds, address : Nat]
    BY <1>5, ElementOfSeq
  <1> QED
    BY <1>1, <1>2, <1>3, <1>4, <1>6, <1>7

LEMMA MinIs ==
    ASSUME NEW S, S \subseteq Nat, S # {}
    PROVE  Min(S) \in S /\ \A y \in S : Min(S) <= y
  BY LeastNumber DEF Min

Versions == [name : Texts, default : BOOLEAN]

LEMMA VersionIs ==
    ASSUME NEW read, GoodRead(read), NEW e \in 1 .. Len(SymbolTable(read.elf)), NEW defined
    PROVE  VersionForSymbol(read.elf, e, defined) \in Versions
  <1>1. PICK elf : elf = read.elf
    OBVIOUS
  <1>2. NoVersion \in Versions
    <2>1. FALSE \in BOOLEAN
      OBVIOUS
    <2>2. PICK b \in BOOLEAN : b = FALSE
      BY <2>1
    <2>3. NoVersion = [name |-> "", default |-> b]
      BY <2>2 DEF NoVersion
    <2> QED
      BY <2>3 DEF Versions, Texts
  <1>3. ASSUME NEW v, v.hidden \in BOOLEAN
        PROVE  VersionDefinition(elf, v) \in Versions
    <2>1. elf.verdef \in Seq([ndx : Nat, name : STRING])
      BY <1>1 DEF GoodRead
    <2>2. PICK m \in Nat : m = Len(elf.verdef)
      BY <2>1, LenProperties
    <2>3. \A i \in 1 .. m : elf.verdef[i] \in [ndx : Nat, name : STRING]
      BY <2>1, <2>2, ElementOfSeq
    <2>4. PICK I : I = {i \in 1 .. m : elf.verdef[i].ndx = v.ndx}
      OBVIOUS
    <2>5. PICK at : at = IF I # {} THEN Min(I) ELSE 0
      OBVIOUS
    <2>6. SelectInSeq(elf.verdef, LAMBDA d : d.ndx = v.ndx) = at
      BY <2>2, <2>4, <2>5 DEF SelectInSeq
    <2>7. CASE I = {}
      BY <1>2, <2>5, <2>6, <2>7 DEF VersionDefinition
    <2>8. CASE I # {}
      <3>1. I \subseteq Nat
        BY <2>4
      <3>2. at \in I
        BY <2>5, <2>8, <3>1, MinIs
      <3>3. at # 0 /\ elf.verdef[at].name \in STRING
        BY <2>3, <2>4, <3>2
      <3>4. PICK b \in BOOLEAN : b = (~v.hidden)
        BY (~v.hidden) \in BOOLEAN
      <3>5. VersionDefinition(elf, v) = [name |-> elf.verdef[at].name, default |-> b]
        BY <2>6, <3>3, <3>4 DEF VersionDefinition
      <3>6. elf.verdef[at].name \in Texts
        BY <3>3 DEF Texts
      <3> QED
        BY <3>4, <3>5, <3>6 DEF Versions
    <2> QED
      BY <2>7, <2>8
  <1>5. ASSUME NEW v, elf.verneed # <<>>
        PROVE  VersionNeeded(elf, v) \in Versions
    <2>1. PICK X, Y : X = [other : Nat, name : STRING] /\ Y = Seq(X) \ {<<>>}
      OBVIOUS
    <2>2. elf.verneed \in Seq(Y)
      BY <1>1, <2>1 DEF GoodRead
    <2>3. Len(elf.verneed) # 0 /\ Len(elf.verneed) \in Nat
      BY <1>5, <2>2, EmptySeq, LenProperties
    <2>4. PICK one \in 1 .. Len(elf.verneed) : one = 1
      BY <2>3
    <2>5. elf.verneed[one] \in Y
      BY <2>2, ElementOfSeq
    <2>6. PICK q : q = elf.verneed[1] /\ q \in Seq(X) /\ q # <<>>
      BY <2>1, <2>4, <2>5
    <2>7. Len(q) # 0 /\ Len(q) \in Nat
      BY <2>6, EmptySeq, LenProperties
    <2>8. PICK o \in 1 .. Len(q) : o = 1
      BY <2>7
    <2>9. q[o] \in X
      BY <2>6, ElementOfSeq
    <2>10. q[1].name \in STRING
      BY <2>1, <2>8, <2>9
    <2>11. [name |-> q[1].name, default |-> TRUE] \in Versions
      <3>1. TRUE \in BOOLEAN
        OBVIOUS
      <3>2. PICK t \in BOOLEAN : t = TRUE
        BY <3>1
      <3> QED
        BY <2>10, <3>2 DEF Versions, Texts
    <2> QED
      BY <1>2, <2>6, <2>11, Zenon DEF VersionNeeded
  <1>6. CASE ~HasVersionSections(elf) \/ e > Len(elf.dynsym)
    BY <1>1, <1>2, <1>6 DEF VersionForSymbol
  <1>7. CASE HasVersionSections(elf) /\ ~(e > Len(elf.dynsym))
    <2>1. PICK v : v = [ndx |-> elf.dynsym[e].ndx, hidden |-> elf.dynsym[e].hidden]
      OBVIOUS
    <2>2. \/ VersionForSymbol(elf, e, defined) = NoVersion
          \/ VersionForSymbol(elf, e, defined) = VersionDefinition(elf, v)
          \/ VersionForSymbol(elf, e, defined) = VersionNeeded(elf, v)
      BY <1>7, <2>1, Zenon DEF VersionForSymbol
    <2>3. elf.dynsym \in Seq(Entries) /\ Len(elf.dynsym) \in Nat
      <3>1. elf.dynsym \in Seq(Entries)
        BY <1>1 DEF GoodRead
      <3> QED
        BY <3>1, LenProperties
    <2>4. e \in Nat /\ e >= 1
      <3>1. Len(SymbolTable(read.elf)) \in Nat
        BY TableIs
      <3> QED
        BY <3>1
    <2>5. PICK i \in 1 .. Len(elf.dynsym) : i = e
      BY <1>7, <2>3, <2>4
    <2>6. elf.dynsym[i] \in Entries
      BY <2>3, ElementOfSeq
    <2>7. v.hidden \in BOOLEAN
      BY <2>1, <2>5, <2>6 DEF Entries
    <2>8. elf.verneed # <<>>
      BY <1>7 DEF HasVersionSections
    <2>9. VersionDefinition(elf, v) \in Versions /\ VersionNeeded(elf, v) \in Versions
      BY <1>3, <1>5, <2>7, <2>8
    <2> QED
      BY <1>1, <1>2, <2>2, <2>9, Zenon
  <1> QED
    BY <1>6, <1>7

(* A new symbol of an entry.                                                *)
LEMMA NewSymbolIs ==
    ASSUME NEW read, GoodRead(read), NEW e \in 1 .. Len(SymbolTable(read.elf)), NEW i \in Nat
    PROVE  /\ NewSymbol(ElfSymbol(read.elf, e), i) \in Symbols
           /\ NewSymbol(ElfSymbol(read.elf, e), i).main = i
           /\ NewSymbol(ElfSymbol(read.elf, e), i).nextAlias = 0
           /\ SameSymbol(NewSymbol(ElfSymbol(read.elf, e), i), ElfSymbol(read.elf, e))
  <1>1. PICK t : t = SymbolTable(read.elf)[e] /\ t \in Entries
    BY TableIs
  <1>2. PICK d \in BOOLEAN : d = IsDefined(t)
    BY DEF IsDefined
  <1>3. PICK p \in BOOLEAN : p = IsPublic(t)
    BY DEF IsPublic
  <1>4. PICK v \in Versions : v = VersionForSymbol(read.elf, e, d)
    BY VersionIs
  <1>5. PICK s : s = ElfSymbol(read.elf, e)
    OBVIOUS
  <1>6. s = [name |-> t.name, kind |-> t.kind, defined |-> d, public |-> p, version |-> v]
    BY <1>1, <1>2, <1>3, <1>4, <1>5 DEF ElfSymbol
  <1>7. t.name \in Ids /\ t.kind \in {"fun", "var", "other"}
    BY <1>1 DEF Entries, Strings, Ids, Texts
  <1>8. PICK new : new = NewSymbol(s, i)
    OBVIOUS
  <1>9. new = [name |-> t.name, kind |-> t.kind, defined |-> d, public |-> p, version |-> v,
               main |-> i, nextAlias |-> 0]
    BY <1>6, <1>8 DEF NewSymbol
  <1>10. new \in Symbols
    BY <1>7, <1>9 DEF Symbols, Versions
  <1>11. new.main = i /\ new.nextAlias = 0
    BY <1>9
  <1>12. SameSymbol(new, s)
    BY <1>6, <1>9 DEF SameSymbol
  <1> QED
    BY <1>5, <1>8, <1>10, <1>11, <1>12

LEMMA CopyIs ==
    ASSUME NEW s \in Symbols, NEW i \in Nat
    PROVE  /\ Copy(s, i) \in Symbols /\ Copy(s, i).main = i /\ Copy(s, i).nextAlias = 0
           /\ SameSymbol(Copy(s, i), s)
  BY DEF Copy, Symbols, SameSymbol

LEMMA ElfSymbolIs ==
    ASSUME NEW elf, NEW e
    PROVE  /\ ElfSymbol(elf, e).name = SymbolTable(elf)[e].name
           /\ ElfSymbol(elf, e).kind = SymbolTable(elf)[e].kind
           /\ (ElfSymbol(elf, e).defined <=> IsDefined(SymbolTable(elf)[e]))
           /\ (ElfSymbol(elf, e).public <=> IsPublic(SymbolTable(elf)[e]))
           /\ Id(ElfSymbol(elf, e)) = EntryId(elf, e)
  <1>1. PICK t : t = SymbolTable(elf)[e]
    OBVIOUS
  <1>2. PICK d : d = IsDefined(t)
    OBVIOUS
  <1>3. PICK p : p = IsPublic(t)
    OBVIOUS
  <1>4. PICK v : v = VersionForSymbol(elf, e, d)
    OBVIOUS
  <1>5. PICK s : s = ElfSymbol(elf, e)
    OBVIOUS
  <1>6. s = [name |-> t.name, kind |-> t.kind, defined |-> d, public |-> p, version |-> v]
    BY <1>1, <1>2, <1>3, <1>4, <1>5 DEF ElfSymbol
  <1>7. s.name = t.name /\ s.kind = t.kind /\ s.defined = d /\ s.public = p
    BY <1>6
  <1>8. Id(s) = EntryId(elf, e)
    BY <1>5 DEF Id, EntryId
  <1>9. s.defined <=> IsDefined(t)
    BY <1>2, <1>7, Zenon
  <1>10. s.public <=> IsPublic(t)
    BY <1>3, <1>7, Zenon
  <1> QED
    BY <1>1, <1>5, <1>7, <1>8, <1>9, <1>10

LEMMA SameEntry ==
    ASSUME NEW read, GoodRead(read), NEW s, NEW t,
           NEW e \in PublicEntries(read.elf), NEW d \in PublicEntries(read.elf),
           SameSymbol(s, ElfSymbol(read.elf, e)), SameSymbol(t, ElfSymbol(read.elf, d)),
           Id(s) = Id(t)
    PROVE  e = d /\ SameSymbol(s, t)
  <1>1. Id(s) = EntryId(read.elf, e) /\ Id(t) = EntryId(read.elf, d)
    BY SameId, ElfSymbolIs
  <1>2. e = d
    BY <1>1 DEF GoodRead
  <1> QED
    BY <1>2 DEF SameSymbol

LEMMA SameNames ==
    ASSUME NEW read, GoodRead(read), NEW s, NEW t,
           NEW e \in PublicEntries(read.elf), NEW d \in PublicEntries(read.elf),
           SameSymbol(s, ElfSymbol(read.elf, e)), SameSymbol(t, ElfSymbol(read.elf, d)),
           s.name = t.name, s.version.name = t.version.name
    PROVE  e = d
  <1>1. /\ ElfSymbol(read.elf, e).name = ElfSymbol(read.elf, d).name
        /\ ElfSymbol(read.elf, e).version.name = ElfSymbol(read.elf, d).version.name
    BY DEF SameSymbol
  <1> QED
    BY <1>1 DEF GoodRead

LEMMA SameIsEquivalence ==
    ASSUME NEW r, NEW s, NEW t
    PROVE  /\ SameSymbol(s, s)
           /\ SameSymbol(s, t) => SameSymbol(t, s)
           /\ SameSymbol(r, s) /\ SameSymbol(s, t) => SameSymbol(r, t)
  BY DEF SameSymbol

-----------------------------------------------------------------------------
(* A part of a corpus, of the kind k, of which the first m entries and the   *)
(* first d descriptions have been read.  Once it is read from XML (source)   *)
(* there are two symbols of each public entry: those written, and their      *)
(* rings, stay as they were read from the ELF file.                          *)

Parts(values) ==
    [syms : Seq(Nat), undefined : Seq(Nat), mainAt : [values -> Nat], decls : Seq(Nat),
     keep : Seq(Ids), toSuppress : Seq(SUBSET STRING), toKeep : Seq(SUBSET STRING),
     unreferenced : SUBSET Nat, written : Seq(Nat), unlinked : SUBSET Nat]

Is(heap, i, elf, e) == SameSymbol(heap[i], ElfSymbol(elf, e))
Loaded(elf, k, m) == {e \in PublicEntries(elf) : KindOf(SymbolTable(elf)[e]) = k /\ e <= m}

\* The symbols S are those of the entries E, one of each.
SymbolsAre(heap, S, elf, E) ==
    /\ S \subseteq 1 .. Len(heap)
    /\ \A i \in S : \E e \in E : Is(heap, i, elf, e)
    /\ \A e \in E : \E i \in S : Is(heap, i, elf, e)
    /\ \A i, j \in S : SameSymbol(heap[i], heap[j]) => i = j

\* Those at an address.
Group(heap, S, elf, k, v) == {i \in S : \E e \in At(elf, k, v) : Is(heap, i, elf, e)}

RingAt(heap, S, elf, k, v, L) ==
    /\ IsRing(heap, L)
    /\ ToSet(L) = Group(heap, S, elf, k, v)
    /\ Is(heap, L[1], elf, Min(At(elf, k, v)))

RowsOf(part, R) == [j \in 1 .. Len(R) |-> part.syms[R[j]]]

\* The rows of the ring: their symbols are alone until the aliases of the first are
\* linked.
Retied(heap, part, L, R) ==
    /\ R \in Seq(1 .. Len(part.written)) /\ Len(R) = Len(L)
    /\ \A j \in 1 .. Len(L) : part.written[R[j]] = L[j]
    /\ R[1] \in part.unlinked => \A j \in 1 .. Len(L) : Alone(heap, part.syms[R[j]])
    /\ R[1] \notin part.unlinked => IsRing(heap, RowsOf(part, R))

Firsts(part, source) == ToSet(IF source = "xml" THEN part.written ELSE part.syms)

RingIsRight(heap, part, elf, k, v, source, L) ==
    /\ RingAt(heap, Firsts(part, source), elf, k, v, L)
    /\ L[1] = part.mainAt[v]
    /\ source = "xml" => \E R : Retied(heap, part, L, R)

AddressRight(heap, part, elf, k, v, source) ==
    /\ part.mainAt[v] = 0 => Group(heap, Firsts(part, source), elf, k, v) = {}
    /\ part.mainAt[v] # 0 => \E L : RingIsRight(heap, part, elf, k, v, source, L)

RowsRight(heap, part) ==
    /\ Len(part.syms) = Len(part.written)
    /\ OneEach(part.syms) /\ OneEach(part.written)
    /\ ToSet(part.syms) \subseteq 1 .. Len(heap)
    /\ ToSet(part.syms) \cap ToSet(part.written) = {}
    /\ \A r \in 1 .. Len(part.syms) : SameSymbol(heap[part.syms[r]], heap[part.written[r]])
    /\ part.unlinked \subseteq 1 .. Len(part.written)

PartRight(heap, part, elf, k, m, source) ==
    /\ SymbolsAre(heap, Firsts(part, source), elf, Loaded(elf, k, m))
    /\ \A v \in DOMAIN part.mainAt : AddressRight(heap, part, elf, k, v, source)
    /\ source = "xml" => RowsRight(heap, part)
    /\ source # "xml" => part.written = <<>> /\ OneEach(part.syms)

\* The declaration d has a symbol like the main one at the address of a description.
Describes(heap, part, k, dies, d, i) ==
    /\ i \in 1 .. Len(dies) /\ dies[i].kind = k /\ part.mainAt[dies[i].address] # 0
    /\ SameSymbol(heap[d], heap[part.mainAt[dies[i].address]])

DeclRight(heap, part, k, dies, d, source, decl) ==
    /\ decl \in 1 .. Len(heap)
    /\ \E i \in 1 .. d : Describes(heap, part, k, dies, decl, i)
    /\ source = "xml" => decl \in ToSet(part.syms)
    /\ source # "xml" => Alone(heap, decl) /\ decl \notin ToSet(part.syms)

DeclsRight(heap, part, k, dies, d, source) ==
    /\ \A x \in 1 .. Len(part.decls) : DeclRight(heap, part, k, dies, d, source, part.decls[x])
    /\ \A x, y \in 1 .. Len(part.decls) :
         DeclId(heap, part.decls[x]) = DeclId(heap, part.decls[y]) => x = y

AllDeclared(heap, part, k, dies, d) ==
    \A i \in 1 .. d : dies[i].kind = k /\ part.mainAt[dies[i].address] # 0 =>
      \E x \in 1 .. Len(part.decls) : Describes(heap, part, k, dies, part.decls[x], i)

\* Where names are plain, an undefined symbol has an id without version, or with "@@" and one.
IsPlain(name) == name[2] = "" /\ name[3] = ""
IsNeededId(id) == IsPlain(id) \/ (id[2] = "@@" /\ id[3] # "")
UndefinedNamed(id) == NamesArePlain => IsNeededId(id)

UndefinedRight(heap, part, k) ==
    \A i \in ToSet(part.undefined) :
      i \in 1 .. Len(heap) /\ heap[i].kind = k /\ ~heap[i].defined /\ UndefinedNamed(Id(heap[i]))

Mine(part) == ToSet(part.syms) \cup ToSet(part.written)
Owned(part) == Mine(part) \cup ToSet(part.decls)
Apart(part, other) == Mine(part) \cap Owned(other) = {}

-----------------------------------------------------------------------------
(* Whatever happens to other symbols, and however many are added.           *)

Kept(heap, h, S) ==
    /\ Len(heap) <= Len(h)
    /\ \A i \in 1 .. Len(heap) : SameSymbol(h[i], heap[i])
    /\ \A i \in S : h[i] = heap[i]

LEMMA KeptIs ==
    ASSUME NEW heap, NEW h, NEW elf, NEW e, NEW i \in 1 .. Len(heap), NEW S, Kept(heap, h, S)
    PROVE  Is(h, i, elf, e) <=> Is(heap, i, elf, e)
  BY DEF Kept, Is, SameSymbol

LEMMA KeptRing ==
    ASSUME NEW heap, NEW h, Len(heap) \in Nat, Len(h) \in Nat, NEW L,
           Kept(heap, h, ToSet(L)), IsRing(heap, L)
    PROVE  IsRing(h, L)
  <1>1. Len(heap) <= Len(h) /\ \A i \in ToSet(L) : h[i] = heap[i]
    BY DEF Kept
  <1> QED
    BY <1>1, RingKept

LEMMA KeptGroup ==
    ASSUME NEW heap, NEW h, NEW T, Kept(heap, h, T), NEW S \in SUBSET (1 .. Len(heap)),
           NEW elf, NEW k, NEW v
    PROVE  Group(h, S, elf, k, v) = Group(heap, S, elf, k, v)
  <1>1. \A i \in S : \A e : Is(h, i, elf, e) <=> Is(heap, i, elf, e)
    BY KeptIs
  <1> QED
    BY <1>1 DEF Group

LEMMA KeptSymbols ==
    ASSUME NEW heap, NEW h, NEW T, Kept(heap, h, T), Len(heap) \in Nat, Len(h) \in Nat,
           NEW S, NEW elf, NEW E, SymbolsAre(heap, S, elf, E)
    PROVE  SymbolsAre(h, S, elf, E)
  <1>1. S \subseteq 1 .. Len(heap) /\ S \subseteq 1 .. Len(h)
    BY DEF SymbolsAre, Kept
  <1>2. \A i \in S : \A e : Is(h, i, elf, e) <=> Is(heap, i, elf, e)
    BY <1>1, KeptIs
  <1>3. ASSUME NEW i \in S, NEW j \in S, SameSymbol(h[i], h[j])
        PROVE  i = j
    <2>1. SameSymbol(heap[i], heap[j])
      BY <1>1, <1>3 DEF Kept, SameSymbol
    <2> QED
      BY <2>1 DEF SymbolsAre
  <1>4. \A i \in S : \E e \in E : Is(h, i, elf, e)
    BY <1>2 DEF SymbolsAre
  <1>5. \A e \in E : \E i \in S : Is(h, i, elf, e)
    BY <1>2 DEF SymbolsAre
  <1> QED
    BY <1>1, <1>3, <1>4, <1>5 DEF SymbolsAre

LEMMA KeptRingAt ==
    ASSUME NEW heap, NEW h, NEW S \in SUBSET (1 .. Len(heap)), NEW elf, NEW k, NEW v, NEW L,
           Heap(heap), Len(h) \in Nat, RingAt(heap, S, elf, k, v, L), Kept(heap, h, ToSet(L))
    PROVE  RingAt(h, S, elf, k, v, L)
  <1>1. Len(heap) \in Nat /\ Len(heap) <= Len(h)
    BY HeapLength DEF Kept
  <1>2. IsRing(heap, L) /\ \A i \in ToSet(L) : h[i] = heap[i]
    BY DEF RingAt, Kept
  <1>3. IsRing(h, L)
    BY <1>1, <1>2, RingKept
  <1>4. Group(h, S, elf, k, v) = Group(heap, S, elf, k, v)
    <2>1. PICK T : T = ToSet(L)
      OBVIOUS
    <2>2. Kept(heap, h, T)
      BY <2>1
    <2> QED
      BY <2>2, KeptGroup
  <1>5. L[1] \in 1 .. Len(heap)
    <2>1. Len(L) \in Nat /\ Len(L) >= 1 /\ \A j \in 1 .. Len(L) : L[j] \in 1 .. Len(heap)
      BY <1>2, RingParts
    <2>2. 1 \in 1 .. Len(L)
      BY <2>1
    <2> QED
      BY <2>1, <2>2
  <1>6. Is(h, L[1], elf, Min(At(elf, k, v)))
    BY <1>5, KeptIs DEF RingAt
  <1> QED
    BY <1>3, <1>4, <1>6 DEF RingAt

LEMMA InToSet ==
    ASSUME NEW X, NEW s \in Seq(X), NEW j \in 1 .. Len(s)
    PROVE  s[j] \in ToSet(s) /\ s[j] \in X
  <1>1. DOMAIN s = 1 .. Len(s)
    BY LenProperties
  <1>2. s[j] \in X
    BY ElementOfSeq
  <1> QED
    BY <1>1, <1>2 DEF ToSet

LEMMA KeptLess ==
    ASSUME NEW heap, NEW h, NEW S, NEW T, Kept(heap, h, S), T \subseteq S
    PROVE  Kept(heap, h, T)
  BY DEF Kept

LEMMA KeptAlone ==
    ASSUME NEW heap, NEW h, NEW S, Kept(heap, h, S), Len(heap) \in Nat, Len(h) \in Nat,
           NEW i \in S, Alone(heap, i)
    PROVE  Alone(h, i)
  BY DEF Kept, Alone

\* The symbols of rows.
LEMMA RowSymbols ==
    ASSUME NEW part, part.syms \in Seq(Nat), Len(part.syms) = Len(part.written),
           NEW R \in Seq(1 .. Len(part.written))
    PROVE  /\ RowsOf(part, R) \in Seq(ToSet(part.syms)) /\ Len(RowsOf(part, R)) = Len(R)
           /\ Len(R) \in Nat /\ DOMAIN RowsOf(part, R) = 1 .. Len(R)
           /\ \A j \in 1 .. Len(R) : /\ R[j] \in 1 .. Len(part.written)
                                     /\ RowsOf(part, R)[j] = part.syms[R[j]]
                                     /\ part.syms[R[j]] \in ToSet(part.syms)
  <1>0. PICK n, q : n = Len(R) /\ q = [j \in 1 .. n |-> part.syms[R[j]]]
    OBVIOUS
  <1>1. n \in Nat
    BY <1>0, LenProperties
  <1>2. \A j \in 1 .. n : R[j] \in 1 .. Len(part.written)
    BY <1>0, ElementOfSeq
  <1>3. \A j \in 1 .. n : part.syms[R[j]] \in ToSet(part.syms)
    BY <1>2, InToSet
  <1>4. /\ q \in Seq(ToSet(part.syms)) /\ Len(q) = n /\ DOMAIN q = 1 .. n
        /\ \A j \in 1 .. n : q[j] = part.syms[R[j]]
    BY <1>0, <1>1, <1>3
  <1>5. RowsOf(part, R) = q
    BY <1>0 DEF RowsOf
  <1> QED
    BY <1>0, <1>1, <1>2, <1>3, <1>4, <1>5

LEMMA KeptRetied ==
    ASSUME NEW heap, NEW h, NEW S, Kept(heap, h, S), Heap(heap), Len(h) \in Nat,
           NEW part, part.syms \in Seq(Nat), Len(part.syms) = Len(part.written),
           ToSet(part.syms) \in SUBSET S, NEW L, NEW R, Retied(heap, part, L, R)
    PROVE  Retied(h, part, L, R)
  <1>1. PICK n : n = Len(L) /\ n = Len(R)
    BY DEF Retied
  <1>2. PICK q : q = RowsOf(part, R)
    OBVIOUS
  <1>3. R \in Seq(1 .. Len(part.written))
    BY DEF Retied
  <1>4. /\ q \in Seq(ToSet(part.syms)) /\ DOMAIN q = 1 .. n
        /\ \A j \in 1 .. n : q[j] = part.syms[R[j]] /\ part.syms[R[j]] \in ToSet(part.syms)
    BY <1>1, <1>2, <1>3, RowSymbols
  <1>5. Len(heap) \in Nat
    BY HeapLength
  <1>6. ASSUME R[1] \in part.unlinked
        PROVE  \A j \in 1 .. n : Alone(h, part.syms[R[j]])
    <2>1. \A j \in 1 .. n : Alone(heap, part.syms[R[j]])
      BY <1>1, <1>6 DEF Retied
    <2> QED
      BY <1>4, <1>5, <2>1, KeptAlone
  <1>7. ASSUME R[1] \notin part.unlinked
        PROVE  IsRing(h, q)
    <2>1. IsRing(heap, q)
      BY <1>1, <1>2, <1>7 DEF Retied
    <2>2. ToSet(q) \subseteq ToSet(part.syms)
      <3>1. ToSet(q) = {q[j] : j \in 1 .. n}
        BY <1>4 DEF ToSet
      <3>2. \A j \in 1 .. n : q[j] \in ToSet(part.syms)
        BY <1>4
      <3> QED
        BY <3>1, <3>2
    <2>3. Len(heap) <= Len(h) /\ \A i \in ToSet(q) : h[i] = heap[i]
      BY <2>2 DEF Kept
    <2> QED
      BY <1>5, <2>1, <2>3, RingKept
  <1> QED
    BY <1>1, <1>2, <1>3, <1>6, <1>7 DEF Retied

LEMMA KeptRows ==
    ASSUME NEW heap, NEW h, NEW S, Kept(heap, h, S), Len(heap) \in Nat, Len(h) \in Nat,
           NEW part, part.syms \in Seq(Nat), part.written \in Seq(Nat), RowsRight(heap, part),
           ToSet(part.written) \subseteq 1 .. Len(heap)
    PROVE  RowsRight(h, part)
  <1>1. ASSUME NEW r \in 1 .. Len(part.syms)
        PROVE  SameSymbol(h[part.syms[r]], h[part.written[r]])
    <2>1. part.syms[r] \in ToSet(part.syms) /\ part.written[r] \in ToSet(part.written)
      BY InToSet DEF RowsRight
    <2>2. part.syms[r] \in 1 .. Len(heap) /\ part.written[r] \in 1 .. Len(heap)
      BY <2>1 DEF RowsRight
    <2>3. SameSymbol(heap[part.syms[r]], heap[part.written[r]])
      BY DEF RowsRight
    <2>4. /\ SameSymbol(h[part.syms[r]], heap[part.syms[r]])
          /\ SameSymbol(h[part.written[r]], heap[part.written[r]])
      BY <2>2 DEF Kept
    <2> QED
      BY <2>3, <2>4 DEF SameSymbol
  <1>2. ToSet(part.syms) \subseteq 1 .. Len(h)
    BY DEF RowsRight, Kept
  <1> QED
    BY <1>1, <1>2 DEF RowsRight

LEMMA KeptAddress ==
    ASSUME NEW heap, NEW h, NEW part, Kept(heap, h, Mine(part)), Heap(heap), Len(h) \in Nat,
           part.syms \in Seq(Nat), part.written \in Seq(Nat), NEW source,
           source = "xml" => RowsRight(heap, part),
           Firsts(part, source) \in SUBSET (1 .. Len(heap)),
           NEW elf, NEW k, NEW v, AddressRight(heap, part, elf, k, v, source)
    PROVE  AddressRight(h, part, elf, k, v, source)
  <1>1. PICK S \in SUBSET (1 .. Len(heap)) : S = Firsts(part, source)
    OBVIOUS
  <1>2. S \subseteq Mine(part)
    BY <1>1 DEF Firsts, Mine
  <1>3. Group(h, S, elf, k, v) = Group(heap, S, elf, k, v)
    BY KeptGroup
  <1>4. ASSUME part.mainAt[v] # 0
        PROVE  \E L : RingIsRight(h, part, elf, k, v, source, L)
    <2>1. PICK L : RingIsRight(heap, part, elf, k, v, source, L)
      BY <1>4 DEF AddressRight
    <2>2. RingAt(heap, S, elf, k, v, L)
      BY <1>1, <2>1 DEF RingIsRight
    <2>3. ToSet(L) \subseteq Mine(part)
      BY <1>2, <2>2 DEF RingAt, Group
    <2>4. Kept(heap, h, ToSet(L))
      BY <2>3, KeptLess
    <2>5. RingAt(h, S, elf, k, v, L)
      BY <2>2, <2>4, KeptRingAt
    <2>6. ASSUME source = "xml"
          PROVE  \E R : Retied(h, part, L, R)
      <3>1. PICK R : Retied(heap, part, L, R)
        BY <2>1, <2>6 DEF RingIsRight
      <3>2. Len(part.syms) = Len(part.written)
        BY <2>6 DEF RowsRight
      <3>3. ToSet(part.syms) \in SUBSET Mine(part)
        BY DEF Mine
      <3>4. Retied(h, part, L, R)
        BY <3>1, <3>2, <3>3, KeptRetied
      <3> QED
        BY <3>4
    <2>7. RingIsRight(h, part, elf, k, v, source, L)
      BY <1>1, <2>1, <2>5, <2>6 DEF RingIsRight
    <2> QED
      BY <2>7
  <1>5. part.mainAt[v] = 0 => Group(h, S, elf, k, v) = {}
    BY <1>1, <1>3 DEF AddressRight
  <1> QED
    BY <1>1, <1>4, <1>5 DEF AddressRight

LEMMA KeptPart ==
    ASSUME NEW heap, NEW h, NEW part, Kept(heap, h, Mine(part)), Heap(heap), Len(h) \in Nat,
           part.syms \in Seq(Nat), part.written \in Seq(Nat),
           NEW elf, NEW k, NEW m, NEW source, PartRight(heap, part, elf, k, m, source)
    PROVE  PartRight(h, part, elf, k, m, source)
  <1>1. Len(heap) \in Nat
    BY HeapLength
  <1>2. SymbolsAre(heap, Firsts(part, source), elf, Loaded(elf, k, m))
    BY DEF PartRight
  <1>3. SymbolsAre(h, Firsts(part, source), elf, Loaded(elf, k, m))
    BY <1>1, <1>2, KeptSymbols
  <1>4. Firsts(part, source) \in SUBSET (1 .. Len(heap))
    BY <1>2 DEF SymbolsAre
  <1>5. source = "xml" => RowsRight(heap, part)
    BY DEF PartRight
  <1>6. ASSUME NEW v \in DOMAIN part.mainAt
        PROVE  AddressRight(h, part, elf, k, v, source)
    <2>1. AddressRight(heap, part, elf, k, v, source)
      BY DEF PartRight
    <2> QED
      BY <1>4, <1>5, <2>1, KeptAddress
  <1>7. ASSUME source = "xml"
        PROVE  RowsRight(h, part)
    <2>1. Firsts(part, source) = ToSet(part.written)
      BY <1>7 DEF Firsts
    <2>2. ToSet(part.written) \subseteq 1 .. Len(heap)
      BY <1>4, <2>1
    <2> QED
      BY <1>1, <1>5, <1>7, <2>2, KeptRows
  <1>8. source # "xml" => part.written = <<>>
    BY DEF PartRight
  <1> QED
    BY <1>3, <1>6, <1>7, <1>8 DEF PartRight

\* What is at an address is a symbol of the part.
LEMMA MainIs ==
    ASSUME NEW heap, NEW part, NEW elf, NEW k, NEW m, NEW source, Heap(heap),
           PartRight(heap, part, elf, k, m, source),
           NEW v \in DOMAIN part.mainAt, part.mainAt[v] # 0
    PROVE  /\ part.mainAt[v] \in Firsts(part, source)
           /\ part.mainAt[v] \in 1 .. Len(heap)
           /\ \E e \in Loaded(elf, k, m) : Is(heap, part.mainAt[v], elf, e)
  <1>1. PICK L : RingIsRight(heap, part, elf, k, v, source, L)
    BY DEF PartRight, AddressRight
  <1>2. IsRing(heap, L) /\ ToSet(L) = Group(heap, Firsts(part, source), elf, k, v) /\ L[1] = part.mainAt[v]
    BY <1>1 DEF RingIsRight, RingAt
  <1>3. Len(L) \in Nat /\ Len(L) >= 1 /\ DOMAIN L = 1 .. Len(L)
    BY <1>2, RingParts
  <1>4. L[1] \in ToSet(L)
    <2>1. 1 \in DOMAIN L
      BY <1>3
    <2> QED
      BY <2>1 DEF ToSet
  <1>5. part.mainAt[v] \in Firsts(part, source)
    BY <1>2, <1>4 DEF Group
  <1>6. SymbolsAre(heap, Firsts(part, source), elf, Loaded(elf, k, m))
    BY DEF PartRight
  <1> QED
    BY <1>5, <1>6 DEF SymbolsAre

LEMMA KeptDecls ==
    ASSUME NEW heap, NEW h, NEW part, Kept(heap, h, Owned(part)), Heap(heap), Len(h) \in Nat,
           NEW elf, NEW k, NEW m, NEW source, PartRight(heap, part, elf, k, m, source),
           NEW dies, \A i \in 1 .. Len(dies) : dies[i].address \in DOMAIN part.mainAt,
           NEW d, DeclsRight(heap, part, k, dies, d, source), part.decls \in Seq(Nat)
    PROVE  DeclsRight(h, part, k, dies, d, source)
  <1>1. Len(heap) \in Nat /\ Len(heap) <= Len(h)
    BY HeapLength DEF Kept
  <1>2. ASSUME NEW decl \in 1 .. Len(heap), NEW i, Describes(heap, part, k, dies, decl, i)
        PROVE  Describes(h, part, k, dies, decl, i)
    <2>1. dies[i].address \in DOMAIN part.mainAt /\ part.mainAt[dies[i].address] # 0
      BY <1>2 DEF Describes
    <2>2. part.mainAt[dies[i].address] \in 1 .. Len(heap)
      BY <2>1, MainIs
    <2>3. /\ SameSymbol(h[decl], heap[decl])
          /\ SameSymbol(h[part.mainAt[dies[i].address]], heap[part.mainAt[dies[i].address]])
      BY <2>2 DEF Kept
    <2>4. SameSymbol(heap[decl], heap[part.mainAt[dies[i].address]])
      BY <1>2 DEF Describes
    <2>5. SameSymbol(h[decl], h[part.mainAt[dies[i].address]])
      BY <2>3, <2>4 DEF SameSymbol
    <2> QED
      BY <1>2, <2>5 DEF Describes
  <1>3. ASSUME NEW x \in 1 .. Len(part.decls)
        PROVE  DeclRight(h, part, k, dies, d, source, part.decls[x]) /\ part.decls[x] \in 1 .. Len(heap)
    <2>1. PICK decl : decl = part.decls[x]
      OBVIOUS
    <2>2. DeclRight(heap, part, k, dies, d, source, decl)
      BY <2>1 DEF DeclsRight
    <2>3. decl \in Owned(part)
      <3>1. part.decls[x] \in ToSet(part.decls)
        BY InToSet
      <3> QED
        BY <2>1, <3>1 DEF Owned
    <2>4. decl \in 1 .. Len(heap) /\ decl \in 1 .. Len(h)
      BY <1>1, <2>2 DEF DeclRight
    <2>5. \E i \in 1 .. d : Describes(h, part, k, dies, decl, i)
      <3>1. PICK i \in 1 .. d : Describes(heap, part, k, dies, decl, i)
        BY <2>2 DEF DeclRight
      <3>2. Describes(h, part, k, dies, decl, i)
        BY <1>2, <2>4, <3>1
      <3> QED
        BY <3>2
    <2>6. Alone(heap, decl) => Alone(h, decl)
      BY <1>1, <2>3, KeptAlone
    <2>7. DeclRight(h, part, k, dies, d, source, decl)
      BY <2>2, <2>4, <2>5, <2>6 DEF DeclRight
    <2> QED
      BY <2>1, <2>4, <2>7
  <1>4. ASSUME NEW x \in 1 .. Len(part.decls), NEW y \in 1 .. Len(part.decls),
               DeclId(h, part.decls[x]) = DeclId(h, part.decls[y])
        PROVE  x = y
    <2>1. SameSymbol(h[part.decls[x]], heap[part.decls[x]]) /\ SameSymbol(h[part.decls[y]], heap[part.decls[y]])
      BY <1>3 DEF Kept
    <2>2. Id(h[part.decls[x]]) = Id(heap[part.decls[x]]) /\ Id(h[part.decls[y]]) = Id(heap[part.decls[y]])
      BY <2>1, SameId
    <2>3. DeclId(heap, part.decls[x]) = DeclId(heap, part.decls[y])
      BY <1>4, <2>2 DEF DeclId
    <2> QED
      BY <2>3 DEF DeclsRight
  <1> QED
    BY <1>3, <1>4 DEF DeclsRight

LEMMA KeptAllDeclared ==
    ASSUME NEW heap, NEW h, NEW part, NEW S, Kept(heap, h, S), Heap(heap),
           NEW elf, NEW k, NEW m, NEW source, PartRight(heap, part, elf, k, m, source),
           NEW dies, \A i \in 1 .. Len(dies) : dies[i].address \in DOMAIN part.mainAt,
           NEW d, NEW e, DeclsRight(heap, part, k, dies, e, source),
           AllDeclared(heap, part, k, dies, d)
    PROVE  AllDeclared(h, part, k, dies, d)
  <1>1. ASSUME NEW decl \in 1 .. Len(heap), NEW i, Describes(heap, part, k, dies, decl, i)
        PROVE  Describes(h, part, k, dies, decl, i)
    <2>1. dies[i].address \in DOMAIN part.mainAt /\ part.mainAt[dies[i].address] # 0
      BY <1>1 DEF Describes
    <2>2. part.mainAt[dies[i].address] \in 1 .. Len(heap)
      BY <2>1, MainIs
    <2>3. /\ SameSymbol(h[decl], heap[decl])
          /\ SameSymbol(h[part.mainAt[dies[i].address]], heap[part.mainAt[dies[i].address]])
      BY <2>2 DEF Kept
    <2>4. SameSymbol(heap[decl], heap[part.mainAt[dies[i].address]])
      BY <1>1 DEF Describes
    <2>5. SameSymbol(h[decl], h[part.mainAt[dies[i].address]])
      BY <2>3, <2>4 DEF SameSymbol
    <2> QED
      BY <1>1, <2>5 DEF Describes
  <1>2. ASSUME NEW i \in 1 .. d, dies[i].kind = k, part.mainAt[dies[i].address] # 0
        PROVE  \E x \in 1 .. Len(part.decls) : Describes(h, part, k, dies, part.decls[x], i)
    <2>1. PICK x \in 1 .. Len(part.decls) : Describes(heap, part, k, dies, part.decls[x], i)
      BY <1>2 DEF AllDeclared
    <2>2. DeclRight(heap, part, k, dies, e, source, part.decls[x])
      BY DEF DeclsRight
    <2>3. part.decls[x] \in 1 .. Len(heap)
      BY <2>2 DEF DeclRight
    <2>4. Describes(h, part, k, dies, part.decls[x], i)
      BY <1>1, <2>1, <2>3
    <2> QED
      BY <2>4
  <1> QED
    BY <1>2 DEF AllDeclared

LEMMA KeptUndefined ==
    ASSUME NEW heap, NEW h, NEW S, Kept(heap, h, S), Len(heap) \in Nat, Len(h) \in Nat,
           NEW part, NEW k, UndefinedRight(heap, part, k)
    PROVE  UndefinedRight(h, part, k)
  <1>1. ASSUME NEW i \in ToSet(part.undefined)
        PROVE  i \in 1 .. Len(h) /\ h[i].kind = k /\ ~h[i].defined /\ UndefinedNamed(Id(h[i]))
    <2>1. i \in 1 .. Len(heap) /\ heap[i].kind = k /\ ~heap[i].defined /\ UndefinedNamed(Id(heap[i]))
      BY DEF UndefinedRight
    <2>2. h[i].kind = heap[i].kind /\ h[i].defined = heap[i].defined /\ Id(h[i]) = Id(heap[i])
      BY <2>1 DEF Kept, SameSymbol, Id
    <2>3. i \in 1 .. Len(h)
      BY <2>1 DEF Kept
    <2> QED
      BY <2>1, <2>2, <2>3
  <1> QED
    BY <1>1 DEF UndefinedRight

-----------------------------------------------------------------------------
(* How far the files are, and what is right of each of their parts.         *)

Reading == {"symbols", "dies", "aliases", "decls"}
Ending == {"options", "keep", "compare", "done"}

ReadBy(g, f, p) == Before(g, f) \/ p \in Ending
EntriesRead(w, g, f, p, n) ==
    IF ReadBy(g, f, p) \/ (g = f /\ p # "symbols") THEN Len(SymbolTable(w.files[g].elf))
    ELSE IF g = f THEN n - 1 ELSE 0
Source(w, g, f, p) ==
    IF w.files[g].xml /\ (ReadBy(g, f, p) \/ (g = f /\ p \in {"aliases", "decls"})) THEN "xml" ELSE "elf"
DiesRead(w, g, f, p, n) ==
    IF ReadBy(g, f, p) THEN Len(w.files[g].dies)
    ELSE IF g = f /\ p \in {"dies", "decls"} THEN n - 1 ELSE 0

PartIs(heap, part, read, k, m, d, source) ==
    /\ part \in Parts(Addresses(read))
    /\ PartRight(heap, part, read.elf, k, m, source)
    /\ DeclsRight(heap, part, k, read.dies, d, source)
    /\ UndefinedRight(heap, part, k)

Fresh(part) ==
    part.unreferenced = {} /\ part.keep = <<>> /\ part.toSuppress = <<>> /\ part.toKeep = <<>>

LEMMA AddressesKnown ==
    ASSUME NEW read, GoodRead(read), NEW part \in Parts(Addresses(read))
    PROVE  /\ \A i \in 1 .. Len(read.dies) : read.dies[i].address \in DOMAIN part.mainAt
           /\ \A e \in 1 .. Len(SymbolTable(read.elf)) :
                SymbolTable(read.elf)[e].value \in DOMAIN part.mainAt
           /\ DOMAIN part.mainAt = Addresses(read)
  <1>1. DOMAIN part.mainAt = Addresses(read)
    BY DEF Parts
  <1>2. PICK V : V = Addresses(read)
    OBVIOUS
  <1>3. ASSUME NEW i \in 1 .. Len(read.dies)
        PROVE  read.dies[i].address \in V
    <2>1. read.dies[i] \in ToSet(read.dies)
      BY InToSet DEF GoodRead
    <2> QED
      BY <1>2, <2>1 DEF Addresses
  <1>4. ASSUME NEW e \in 1 .. Len(SymbolTable(read.elf))
        PROVE  SymbolTable(read.elf)[e].value \in V
    <2>1. PICK t : t = SymbolTable(read.elf)
      OBVIOUS
    <2>2. t \in Seq(Entries) /\ (t = read.elf.dynsym \/ t = read.elf.symtab)
      BY <2>1, TableIs DEF SymbolTable
    <2>3. t[e] \in ToSet(t)
      BY <2>1, <2>2, InToSet
    <2>4. t[e] \in ToSet(read.elf.dynsym) \cup ToSet(read.elf.symtab)
      BY <2>2, <2>3
    <2> QED
      BY <1>2, <2>1, <2>4 DEF Addresses
  <1> QED
    BY <1>1, <1>2, <1>3, <1>4

LEMMA OwnedIn ==
    ASSUME NEW heap, Heap(heap), NEW part, NEW read, NEW k, NEW m, NEW d, NEW source,
           PartIs(heap, part, read, k, m, d, source)
    PROVE  Owned(part) \in SUBSET (1 .. Len(heap)) /\ Mine(part) \in SUBSET Owned(part)
  <1>1. SymbolsAre(heap, Firsts(part, source), read.elf, Loaded(read.elf, k, m))
    BY DEF PartIs, PartRight
  <1>2. Firsts(part, source) \subseteq 1 .. Len(heap)
    BY <1>1 DEF SymbolsAre
  <1>3. ToSet(part.written) \subseteq 1 .. Len(heap) /\ ToSet(part.syms) \subseteq 1 .. Len(heap)
    <2>1. CASE source = "xml"
      <3>1. RowsRight(heap, part)
        BY <2>1 DEF PartIs, PartRight
      <3> QED
        BY <1>2, <2>1, <3>1 DEF RowsRight, Firsts
    <2>2. CASE source # "xml"
      <3>1. part.written = <<>>
        BY <2>2 DEF PartIs, PartRight
      <3>2. ToSet(<<>>) = {}
        BY DEF ToSet
      <3> QED
        BY <1>2, <2>2, <3>1, <3>2 DEF Firsts
    <2> QED
      BY <2>1, <2>2
  <1>4. ToSet(part.decls) \subseteq 1 .. Len(heap)
    <2>1. part.decls \in Seq(Nat)
      BY DEF PartIs, Parts
    <2>2. DOMAIN part.decls = 1 .. Len(part.decls)
      BY <2>1, LenProperties
    <2>3. \A x \in 1 .. Len(part.decls) : part.decls[x] \in 1 .. Len(heap)
      BY DEF PartIs, DeclsRight, DeclRight
    <2> QED
      BY <2>2, <2>3 DEF ToSet
  <1> QED
    BY <1>3, <1>4 DEF Owned, Mine

LEMMA KeptPartIs ==
    ASSUME NEW heap, NEW h, NEW part, Kept(heap, h, Owned(part)), Heap(heap), Len(h) \in Nat,
           NEW read, GoodRead(read), NEW k, NEW m, NEW d, NEW source,
           PartIs(heap, part, read, k, m, d, source)
    PROVE  /\ PartIs(h, part, read, k, m, d, source)
           /\ AllDeclared(heap, part, k, read.dies, d) => AllDeclared(h, part, k, read.dies, d)
  <1>1. part \in Parts(Addresses(read))
    BY DEF PartIs
  <1>2. part.syms \in Seq(Nat) /\ part.written \in Seq(Nat) /\ part.decls \in Seq(Nat)
    BY <1>1 DEF Parts
  <1>3. \A i \in 1 .. Len(read.dies) : read.dies[i].address \in DOMAIN part.mainAt
    BY <1>1, AddressesKnown
  <1>4. /\ PartRight(heap, part, read.elf, k, m, source)
        /\ DeclsRight(heap, part, k, read.dies, d, source)
        /\ UndefinedRight(heap, part, k)
    BY DEF PartIs
  <1>5. Len(heap) \in Nat
    BY HeapLength
  <1>6. Kept(heap, h, Mine(part))
    <2>1. Mine(part) \subseteq Owned(part)
      BY DEF Owned
    <2> QED
      BY <2>1, KeptLess
  <1>7. PartRight(h, part, read.elf, k, m, source)
    BY <1>2, <1>4, <1>6, KeptPart
  <1>8. DeclsRight(h, part, k, read.dies, d, source)
    BY <1>2, <1>3, <1>4, KeptDecls
  <1>9. UndefinedRight(h, part, k)
    BY <1>4, <1>5, KeptUndefined
  <1>10. AllDeclared(heap, part, k, read.dies, d) => AllDeclared(h, part, k, read.dies, d)
    BY <1>3, <1>4, KeptAllDeclared
  <1> QED
    BY <1>1, <1>7, <1>8, <1>9, <1>10 DEF PartIs

-----------------------------------------------------------------------------
(* While files are read.                                                    *)

FilePart(w, heap, part, g, k, f, p, n) ==
    /\ PartIs(heap, part, w.files[g], k, EntriesRead(w, g, f, p, n), DiesRead(w, g, f, p, n),
              Source(w, g, f, p))
    /\ AllDeclared(heap, part, k, w.files[g].dies, DiesRead(w, g, f, p, n))
    /\ Fresh(part)
    /\ ~(g = f /\ p = "aliases") => part.unlinked = {}

PhaseRight(w, f, p, n) ==
    /\ f \in DOMAIN w.files /\ n \in Nat \ {0}
    /\ p \in {"aliases", "decls"} => w.files[f].xml
    /\ p = "symbols" => n <= Len(SymbolTable(w.files[f].elf)) + 1
    /\ p \in {"dies", "decls"} => n <= Len(w.files[f].dies) + 1

CorporaIn(w, c) ==
    c = [g \in DOMAIN w.files |-> [k \in SymbolKinds |-> c[g][k]]]

PartsApart(w, c) ==
    \A g, h \in DOMAIN w.files : \A k, l \in SymbolKinds :
      <<g, k>> # <<h, l>> => Apart(c[g][k], c[h][l])

Early(w, s, c, f, p, n) ==
    /\ p \in Reading
    /\ PhaseRight(w, f, p, n)
    /\ Heap(s)
    /\ CorporaIn(w, c)
    /\ \A g \in DOMAIN w.files : \A k \in SymbolKinds : FilePart(w, s, c[g][k], g, k, f, p, n)
    /\ PartsApart(w, c)

\* Of the symbols there are only those S change, and not in what is compared of them.
Grown(s, t, S) ==
    /\ Len(s) <= Len(t)
    /\ \A i \in 1 .. Len(s) : SameSymbol(t[i], s[i])
    /\ \A i \in 1 .. Len(s) : i \notin S => t[i] = s[i]

MineOf(c, f) == Mine(c[f]["fun"]) \cup Mine(c[f]["var"])
NewIn(s, t) == (1 .. Len(t)) \ (1 .. Len(s))

\* What a step does that reads something of the file f.
StepOf(w, s, c, t, d, f) ==
    /\ Heap(t) /\ CorporaIn(w, d)
    /\ Grown(s, t, MineOf(c, f))
    /\ \A g \in DOMAIN w.files : g # f => \A k \in SymbolKinds : d[g][k] = c[g][k]
    /\ \A k \in SymbolKinds : /\ Owned(d[f][k]) \subseteq Owned(c[f][k]) \cup NewIn(s, t)
                              /\ Mine(d[f][k]) \subseteq Mine(c[f][k]) \cup NewIn(s, t)
    /\ Apart(d[f]["fun"], d[f]["var"]) /\ Apart(d[f]["var"], d[f]["fun"])

LEMMA OthersSame ==
    ASSUME NEW w, NEW g, NEW f, g # f, NEW p \in Reading, NEW n, NEW q \in Reading, NEW m
    PROVE  /\ EntriesRead(w, g, f, q, m) = EntriesRead(w, g, f, p, n)
           /\ DiesRead(w, g, f, q, m) = DiesRead(w, g, f, p, n)
           /\ Source(w, g, f, q) = Source(w, g, f, p)
  <1>1. p \notin Ending /\ q \notin Ending
    BY DEF Reading, Ending
  <1>2. ReadBy(g, f, p) <=> ReadBy(g, f, q)
    BY <1>1 DEF ReadBy
  <1> QED
    BY <1>2 DEF EntriesRead, DiesRead, Source

LEMMA StepWithin ==
    ASSUME NEW w \in Worlds, w.tool # "abisym", NEW s, NEW c, NEW f, NEW p, NEW n,
           Early(w, s, c, f, p, n), NEW t, NEW d, NEW q \in Reading, NEW m,
           StepOf(w, s, c, t, d, f), PhaseRight(w, f, q, m),
           \A k \in SymbolKinds : FilePart(w, t, d[f][k], f, k, f, q, m)
    PROVE  Early(w, t, d, f, q, m)
  <1>1. PICK ls \in Nat, lt \in Nat : ls = Len(s) /\ lt = Len(t) /\ ls <= lt
    BY HeapLength DEF Early, StepOf, Grown
  <1>2. f \in DOMAIN w.files /\ Heap(s) /\ Heap(t) /\ p \in Reading
    BY DEF Early, StepOf, PhaseRight
  <1>3. \A g \in DOMAIN w.files : \A k \in SymbolKinds : FilePart(w, s, c[g][k], g, k, f, p, n)
    BY DEF Early
  <1>4. \A g \in DOMAIN w.files : \A k \in SymbolKinds :
          Owned(c[g][k]) \in SUBSET (1 .. ls) /\ Mine(c[g][k]) \in SUBSET Owned(c[g][k])
    BY <1>1, <1>2, <1>3, OwnedIn DEF FilePart
  <1>5. PartsApart(w, c)
    BY DEF Early
  <1>6. \A g \in DOMAIN w.files : g # f => \A k \in SymbolKinds : d[g][k] = c[g][k]
    BY DEF StepOf
  <1>7. ASSUME NEW g \in DOMAIN w.files, g # f, NEW k \in SymbolKinds
        PROVE  FilePart(w, t, d[g][k], g, k, f, q, m)
    <2>1. PICK part : part = c[g][k] /\ part = d[g][k]
      BY <1>6, <1>7
    <2>2. FilePart(w, s, part, g, k, f, p, n)
      BY <1>3, <2>1
    <2>3. Owned(part) \cap MineOf(c, f) = {}
      <3>1. "fun" \in SymbolKinds /\ "var" \in SymbolKinds
        BY DEF SymbolKinds
      <3>2. Apart(c[f]["fun"], part) /\ Apart(c[f]["var"], part)
        BY <1>2, <1>5, <1>7, <2>1, <3>1 DEF PartsApart
      <3> QED
        BY <3>2 DEF Apart, MineOf
    <2>4. Kept(s, t, Owned(part))
      <3>1. \A i \in Owned(part) : i \in 1 .. ls /\ i \notin MineOf(c, f)
        BY <1>4, <2>1, <2>3
      <3> QED
        BY <1>1, <3>1 DEF StepOf, Grown, Kept
    <2>5. PICK e, r, source : /\ e = EntriesRead(w, g, f, p, n) /\ e = EntriesRead(w, g, f, q, m)
                              /\ r = DiesRead(w, g, f, p, n) /\ r = DiesRead(w, g, f, q, m)
                              /\ source = Source(w, g, f, p) /\ source = Source(w, g, f, q)
      BY <1>2, <1>7, OthersSame
    <2>6. PartIs(s, part, w.files[g], k, e, r, source) /\ AllDeclared(s, part, k, w.files[g].dies, r)
      BY <2>2, <2>5 DEF FilePart
    <2>7. GoodRead(w.files[g])
      BY FilesGood
    <2>8. Len(t) \in Nat
      BY <1>1
    <2>9. PartIs(t, part, w.files[g], k, e, r, source) /\ AllDeclared(t, part, k, w.files[g].dies, r)
      BY <1>2, <2>4, <2>6, <2>7, <2>8, KeptPartIs
    <2> QED
      BY <1>7, <2>1, <2>2, <2>5, <2>9 DEF FilePart
  <1>8. ASSUME NEW g \in DOMAIN w.files, NEW h \in DOMAIN w.files, NEW k \in SymbolKinds,
               NEW l \in SymbolKinds, <<g, k>> # <<h, l>>
        PROVE  Apart(d[g][k], d[h][l])
    <2>1. Apart(c[g][k], c[h][l])
      BY <1>5, <1>8 DEF PartsApart
    <2>2. NewIn(s, t) \cap (1 .. ls) = {}
      BY <1>1 DEF NewIn
    <2>3. CASE g = f /\ h = f
      <3>1. (k = "fun" /\ l = "var") \/ (k = "var" /\ l = "fun")
        BY <1>8, <2>3 DEF SymbolKinds
      <3> QED
        BY <2>3, <3>1 DEF StepOf
    <2>4. CASE g = f /\ h # f
      <3>1. Mine(d[g][k]) \subseteq Mine(c[g][k]) \cup NewIn(s, t)
        BY <2>4 DEF StepOf
      <3>2. d[h][l] = c[h][l] /\ Owned(c[h][l]) \subseteq 1 .. ls
        BY <1>4, <1>6, <2>4
      <3> QED
        BY <2>1, <2>2, <3>1, <3>2 DEF Apart
    <2>5. CASE g # f /\ h = f
      <3>1. Owned(d[h][l]) \subseteq Owned(c[h][l]) \cup NewIn(s, t)
        BY <2>5 DEF StepOf
      <3>2. d[g][k] = c[g][k] /\ Mine(c[g][k]) \subseteq 1 .. ls
        BY <1>4, <1>6, <2>5
      <3> QED
        BY <2>1, <2>2, <3>1, <3>2 DEF Apart
    <2>6. CASE g # f /\ h # f
      BY <1>6, <2>1, <2>6
    <2> QED
      BY <2>3, <2>4, <2>5, <2>6
  <1>9. PartsApart(w, d)
    BY <1>8 DEF PartsApart
  <1>10. \A g \in DOMAIN w.files : \A k \in SymbolKinds : FilePart(w, t, d[g][k], g, k, f, q, m)
    BY <1>7
  <1> QED
    BY <1>9, <1>10 DEF Early, StepOf

-----------------------------------------------------------------------------
(* A new symbol is added to those there are.                                *)

Adds(s, i, new, t) ==
    /\ i = Len(s) + 1 /\ t = Append(s, new)
    /\ new \in Symbols /\ new.main = i /\ new.nextAlias = 0

Added(s, i, new, t) ==
    /\ Heap(t) /\ Len(s) \in Nat /\ Len(t) = i /\ t[i] = new
    /\ \A j \in 1 .. Len(s) : t[j] = s[j]
    /\ Alone(t, i)
    /\ i \in 1 .. Len(t) /\ i \notin 1 .. Len(s)

LEMMA Appended ==
    ASSUME NEW s, Heap(s), NEW i, NEW new, NEW t, Adds(s, i, new, t)
    PROVE  Added(s, i, new, t)
  <1>0. /\ i = Len(s) + 1 /\ t = Append(s, new)
        /\ new \in Symbols /\ new.main = i /\ new.nextAlias = 0
    BY DEF Adds
  <1>1. PICK m \in Nat : m = Len(s)
    BY HeapLength
  <1>2. s \in Seq(Symbols) /\ i = m + 1 /\ i \in Nat
    BY <1>0, <1>1 DEF Heap
  <1>3. /\ t \in Seq(Symbols) /\ Len(t) = i /\ t[i] = new
        /\ \A j \in 1 .. m : t[j] = s[j]
    BY <1>0, <1>1, <1>2
  <1>4. \A j \in 1 .. i : j \in 1 .. m \/ j = i
    BY <1>1, <1>2
  <1>5. i \in 1 .. i /\ i \notin 1 .. m /\ m <= i /\ (1 .. i) \ (1 .. m) = {i}
        /\ \A j \in 0 .. m : j \in 0 .. i
    BY <1>1, <1>2
  <1>6. Heap(t)
    <2>1. \A j \in 1 .. m : s[j].main \in 1 .. m /\ s[j].nextAlias \in 0 .. m
      BY <1>1 DEF Heap
    <2>2. ASSUME NEW j \in 1 .. i
          PROVE  t[j].main \in 1 .. i /\ t[j].nextAlias \in 0 .. i
      <3>1. CASE j = i
        BY <1>0, <1>2, <1>3, <1>5, <3>1
      <3>2. CASE j # i
        <4>1. j \in 1 .. m /\ t[j] = s[j]
          BY <1>3, <1>4, <3>2
        <4>2. s[j].main \in 1 .. m /\ s[j].nextAlias \in 0 .. m
          BY <2>1, <4>1
        <4>3. \A x \in 1 .. m : x \in 1 .. i
          BY <1>2
        <4> QED
          BY <1>5, <4>1, <4>2, <4>3
      <3> QED
        BY <3>1, <3>2
    <2> QED
      BY <1>3, <2>2 DEF Heap
  <1>7. Alone(t, i)
    BY <1>0, <1>3, <1>5 DEF Alone
  <1> QED
    BY <1>1, <1>3, <1>5, <1>6, <1>7 DEF Added

LEMMA AppendedGrown ==
    ASSUME NEW s, Heap(s), NEW i, NEW new, NEW t, Adds(s, i, new, t), NEW S
    PROVE  Grown(s, t, S) /\ NewIn(s, t) = {i}
  <1>1. PICK m \in Nat : m = Len(s) /\ s \in Seq(Symbols) /\ i = m + 1
    BY HeapLength DEF Heap, Adds
  <1>2. Len(t) = i /\ \A j \in 1 .. m : t[j] = s[j]
    BY <1>1 DEF Adds
  <1>3. m <= i /\ (1 .. i) \ (1 .. m) = {i}
    BY <1>1
  <1> QED
    BY <1>1, <1>2, <1>3 DEF Grown, NewIn, SameSymbol

LEMMA AppendedKept ==
    ASSUME NEW s, Heap(s), NEW i, NEW new, NEW t, Adds(s, i, new, t),
           NEW S \in SUBSET (1 .. Len(s))
    PROVE  Kept(s, t, S)
  <1>1. PICK m \in Nat : m = Len(s) /\ s \in Seq(Symbols)
    BY HeapLength DEF Heap
  <1>2. Len(t) = m + 1 /\ \A j \in 1 .. m : t[j] = s[j]
    BY <1>1 DEF Adds
  <1> QED
    BY <1>1, <1>2 DEF Kept, SameSymbol

LEMMA SeqWider ==
    ASSUME NEW T, NEW S \in SUBSET T, NEW s \in Seq(S)
    PROVE  s \in Seq(T)
  <1>1. Len(s) \in Nat /\ DOMAIN s = 1 .. Len(s)
    BY LenProperties
  <1>2. \A j \in 1 .. Len(s) : s[j] \in T
    BY ElementOfSeq
  <1>3. s = [j \in 1 .. Len(s) |-> s[j]]
    BY <1>1
  <1> QED
    BY <1>1, <1>2, <1>3

LEMMA ValueOf ==
    ASSUME NEW elf, NEW k, NEW v, NEW e \in At(elf, k, v)
    PROVE  SymbolTable(elf)[e].value = v
  BY DEF At

LEMMA AtIs ==
    ASSUME NEW read, GoodRead(read), NEW k, NEW v, NEW e \in At(read.elf, k, v)
    PROVE  /\ e \in PublicEntries(read.elf) /\ e \in 1 .. Len(SymbolTable(read.elf))
           /\ e \in Nat
           /\ SymbolTable(read.elf)[e].value = v /\ KindOf(SymbolTable(read.elf)[e]) = k
           /\ \A m \in Nat : e <= m => e \in Loaded(read.elf, k, m)
  <1>1. e \in PublicEntries(read.elf) /\ SymbolTable(read.elf)[e].value = v
        /\ KindOf(SymbolTable(read.elf)[e]) = k
    BY DEF At
  <1>2. e \in 1 .. Len(SymbolTable(read.elf)) /\ Len(SymbolTable(read.elf)) \in Nat
    BY <1>1, TableIs DEF PublicEntries
  <1>3. \A m \in Nat : e <= m => e \in Loaded(read.elf, k, m)
    BY <1>1 DEF Loaded
  <1> QED
    BY <1>1, <1>2, <1>3

LEMMA OneEntry ==
    ASSUME NEW read, GoodRead(read), NEW h, NEW i, NEW e \in PublicEntries(read.elf),
           NEW x \in PublicEntries(read.elf), Is(h, i, read.elf, e), Is(h, i, read.elf, x)
    PROVE  e = x
  BY SameEntry DEF Is

LEMMA GroupsApart ==
    ASSUME NEW read, GoodRead(read), NEW s, NEW S, NEW k, NEW v, NEW x, v # x
    PROVE  Group(s, S, read.elf, k, v) \cap Group(s, S, read.elf, k, x) = {}
  <1> SUFFICES ASSUME NEW i \in Group(s, S, read.elf, k, v), i \in Group(s, S, read.elf, k, x)
               PROVE  FALSE
    OBVIOUS
  <1>1. PICK e \in At(read.elf, k, v) : Is(s, i, read.elf, e)
    BY DEF Group
  <1>2. PICK d \in At(read.elf, k, x) : Is(s, i, read.elf, d)
    BY DEF Group
  <1>4. SymbolTable(read.elf)[e].value = v
    BY ValueOf
  <1>5. SymbolTable(read.elf)[d].value = x
    BY ValueOf
  <1>3. e = d
    <2>1. e \in PublicEntries(read.elf) /\ d \in PublicEntries(read.elf)
      BY AtIs
    <2> QED
      BY <1>1, <1>2, <2>1, OneEntry
  <1> QED
    BY <1>3, <1>4, <1>5

\* The symbol i of the entry n has joined those at its address; main is the first now.
Joined(s, t, elf, k, n, S, i, v, main) ==
    /\ Heap(t) /\ Len(t) = i /\ i = Len(s) + 1
    /\ \A j \in 1 .. Len(s) : SameSymbol(t[j], s[j])
    /\ \A j \in 1 .. Len(s) : j \notin Group(s, S, elf, k, v) => t[j] = s[j]
    /\ Is(t, i, elf, n)
    /\ \E L : /\ IsRing(t, L) /\ ToSet(L) = Group(s, S, elf, k, v) \cup {i}
              /\ Is(t, L[1], elf, Min(At(elf, k, v))) /\ L[1] = main

LEMMA JoinsFirst ==
    ASSUME NEW read, GoodRead(read), NEW s, Heap(s), NEW k, NEW n, NEW m \in Nat, n = m + 1,
           NEW part, PartIs(s, part, read, k, m, 0, "elf"),
           NEW v \in DOMAIN part.mainAt, n \in At(read.elf, k, v), part.mainAt[v] = 0,
           NEW i, i = Len(s) + 1,
           NEW t, t = Append(s, NewSymbol(ElfSymbol(read.elf, n), i))
    PROVE  Joined(s, t, read.elf, k, n, ToSet(part.syms), i, v, i)
  <1>1. n \in 1 .. Len(SymbolTable(read.elf)) /\ n \in PublicEntries(read.elf)
    BY AtIs
  <1>2. PICK new : new = NewSymbol(ElfSymbol(read.elf, n), i) /\ i \in Nat
    BY HeapLength
  <1>3. new \in Symbols /\ new.main = i /\ new.nextAlias = 0 /\ SameSymbol(new, ElfSymbol(read.elf, n))
    BY <1>1, <1>2, NewSymbolIs
  <1>4. Adds(s, i, new, t)
    BY <1>2, <1>3 DEF Adds
  <1>4a. Added(s, i, new, t)
    BY <1>4, Appended
  <1>5. Heap(t) /\ Len(t) = i /\ t[i] = new /\ Alone(t, i) /\ \A j \in 1 .. Len(s) : t[j] = s[j]
    BY <1>4a DEF Added
  <1>6. PICK S : S = ToSet(part.syms) /\ S = Firsts(part, "elf")
    BY DEF Firsts
  <1>7. Group(s, S, read.elf, k, v) = {}
    BY <1>6 DEF PartIs, PartRight, AddressRight
  <1>8. Is(t, i, read.elf, n)
    BY <1>3, <1>5 DEF Is
  <1>9. Min(At(read.elf, k, v)) = n
    <2>1. ASSUME NEW e \in At(read.elf, k, v), ~(n <= e)
          PROVE  FALSE
      <3>1. e \in Nat /\ e \in PublicEntries(read.elf)
        BY AtIs
      <3>2. e <= m
        BY <2>1, <3>1
      <3>3. e \in Loaded(read.elf, k, m)
        BY <3>2, AtIs
      <3>4. PICK j \in S : Is(s, j, read.elf, e)
        BY <1>6, <3>3 DEF PartIs, PartRight, SymbolsAre
      <3> QED
        BY <1>7, <3>4 DEF Group
    <2>2. At(read.elf, k, v) \subseteq Nat
      BY AtIs
    <2>3. Min(At(read.elf, k, v)) \in At(read.elf, k, v) /\ Min(At(read.elf, k, v)) <= n
      BY <2>2, MinIs
    <2>4. PICK x \in Nat : x = Min(At(read.elf, k, v)) /\ x <= n /\ n <= x
      BY <2>1, <2>2, <2>3
    <2>5. x = n
      BY <2>4
    <2> QED
      BY <2>4, <2>5
  <1>10. IsRing(t, <<i>>) /\ <<i>>[1] = i
    BY <1>5, AloneIsRing
  <1>11. ToSet(<<i>>) = {i}
    BY DEF ToSet
  <1>12. \A j \in 1 .. Len(s) : SameSymbol(t[j], s[j])
    BY <1>5 DEF SameSymbol
  <1>13. \E L : /\ IsRing(t, L) /\ ToSet(L) = Group(s, S, read.elf, k, v) \cup {i}
                /\ Is(t, L[1], read.elf, Min(At(read.elf, k, v))) /\ L[1] = i
    <2>1. PICK L : L = <<i>>
      OBVIOUS
    <2>2. IsRing(t, L) /\ L[1] = i /\ ToSet(L) = Group(s, S, read.elf, k, v) \cup {i}
      BY <1>7, <1>10, <1>11, <2>1
    <2> QED
      BY <1>8, <1>9, <2>2
  <1> QED
    BY <1>5, <1>6, <1>8, <1>12, <1>13 DEF Joined

LEMMA JoinsRing ==
    ASSUME NEW read, GoodRead(read), NEW s, Heap(s), NEW k, NEW n, NEW m \in Nat, n = m + 1,
           NEW part, PartIs(s, part, read, k, m, 0, "elf"),
           NEW v \in DOMAIN part.mainAt, n \in At(read.elf, k, v), part.mainAt[v] # 0,
           NEW i, i = Len(s) + 1,
           NEW h, h = Append(s, NewSymbol(ElfSymbol(read.elf, n), i)),
           NEW t, t = AddAlias(h, h[part.mainAt[v]].main, i)
    PROVE  /\ Joined(s, t, read.elf, k, n, ToSet(part.syms), i, v, part.mainAt[v])
           /\ MayAddAlias(h, h[part.mainAt[v]].main, i)
  <1>1. n \in 1 .. Len(SymbolTable(read.elf)) /\ n \in PublicEntries(read.elf)
    BY AtIs
  <1>2. PICK new : new = NewSymbol(ElfSymbol(read.elf, n), i) /\ i \in Nat
    BY HeapLength
  <1>3. new \in Symbols /\ new.main = i /\ new.nextAlias = 0 /\ SameSymbol(new, ElfSymbol(read.elf, n))
    BY <1>1, <1>2, NewSymbolIs
  <1>4. Adds(s, i, new, h)
    BY <1>2, <1>3 DEF Adds
  <1>5. /\ Heap(h) /\ Len(h) = i /\ h[i] = new /\ Alone(h, i)
        /\ \A j \in 1 .. Len(s) : h[j] = s[j]
    <2>1. Added(s, i, new, h)
      BY <1>4, Appended
    <2> QED
      BY <2>1 DEF Added
  <1>6. PICK S : S = ToSet(part.syms) /\ S = Firsts(part, "elf")
    BY DEF Firsts
  <1>7. PICK L : RingIsRight(s, part, read.elf, k, v, "elf", L)
    BY DEF PartIs, PartRight, AddressRight
  <1>8. /\ IsRing(s, L) /\ ToSet(L) = Group(s, S, read.elf, k, v) /\ L[1] = part.mainAt[v]
        /\ Is(s, L[1], read.elf, Min(At(read.elf, k, v)))
    BY <1>6, <1>7 DEF RingIsRight, RingAt
  <1>8a. IsRing(s, L)
    BY <1>8
  <1>9. PICK ls \in Nat, x \in Nat : ls = Len(s) /\ i = ls + 1 /\ x = Len(L) /\ x >= 1 /\ DOMAIN L = 1 .. x
        /\ \A j \in 1 .. x : L[j] \in 1 .. ls
    BY <1>8, HeapLength, RingParts
  <1>10. ToSet(L) \subseteq 1 .. ls
    BY <1>9 DEF ToSet
  <1>11. IsRing(h, L)
    <2>1. ToSet(L) \in SUBSET (1 .. Len(s))
      BY <1>9, <1>10
    <2>2. Kept(s, h, ToSet(L))
      BY <1>4, <2>1, AppendedKept
    <2>3. Len(s) \in Nat /\ Len(h) \in Nat
      BY <1>2, <1>5, <1>9
    <2> QED
      BY <1>8a, <2>2, <2>3, KeptRing
  <1>12. \A j \in 1 .. Len(L) : L[j] # i
    BY <1>9
  <1>13. h[part.mainAt[v]].main = L[1] /\ L[1] \in 1 .. ls
    <2>1. 1 \in 1 .. x
      BY <1>9
    <2> QED
      BY <1>8, <1>9, <1>11, <2>1 DEF IsRing
  <1>14. MayAddAlias(h, L[1], i) /\ t = Extended(h, L, i)
    <2>1. Heap(h) /\ Alone(h, i)
      BY <1>5
    <2>2. MayAddAlias(h, L[1], i) /\ AddAlias(h, L[1], i) = Extended(h, L, i)
      BY <1>11, <1>12, <2>1, AddAliasIs
    <2>3. t = AddAlias(h, L[1], i)
      BY <1>13
    <2> QED
      BY <2>2, <2>3
  <1>15. Heap(t) /\ SameBut(h, t, ToSet(L) \cup {i}) /\ IsRing(t, Append(L, i))
    BY <1>5, <1>11, <1>12, <1>14, ExtendedIs
  <1>16. Len(t) = i /\ \A j \in 1 .. i : SameSymbol(t[j], h[j])
    BY <1>5, <1>15 DEF SameBut
  <1>17. \A j \in 1 .. ls : j \in 1 .. i /\ j # i
    BY <1>9
  <1>18. \A j \in 1 .. ls : SameSymbol(t[j], s[j])
    BY <1>5, <1>9, <1>16, <1>17
  <1>19. \A j \in 1 .. ls : j \notin Group(s, S, read.elf, k, v) => t[j] = s[j]
    BY <1>5, <1>8, <1>9, <1>15, <1>17 DEF SameBut
  <1>20. Is(t, i, read.elf, n)
    <2>1. i \in 1 .. i
      BY <1>9
    <2>2. SameSymbol(t[i], h[i])
      BY <1>16, <2>1
    <2>3. SameSymbol(h[i], ElfSymbol(read.elf, n))
      BY <1>3, <1>5
    <2> QED
      BY <2>2, <2>3 DEF Is, SameSymbol
  <1>21. Is(t, L[1], read.elf, Min(At(read.elf, k, v)))
    BY <1>8, <1>13, <1>18 DEF Is, SameSymbol
  <1>22. PICK q : q = Append(L, i)
    OBVIOUS
  <1>23. q[1] = L[1] /\ ToSet(q) = ToSet(L) \cup {i}
    <2>1. L \in Seq(Nat)
      <3>1. L \in Seq(1 .. ls) /\ 1 .. ls \in SUBSET Nat
        BY <1>8a, <1>9 DEF IsRing
      <3> QED
        BY <3>1, SeqWider
    <2>2. /\ DOMAIN q = 1 .. x + 1 /\ q[x + 1] = i
          /\ \A j \in 1 .. x : q[j] = L[j]
      BY <1>2, <1>9, <1>22, <2>1
    <2>3. \A j \in 1 .. x + 1 : j \in 1 .. x \/ j = x + 1
      BY <1>9
    <2>4. 1 \in 1 .. x /\ x + 1 \in 1 .. x + 1 /\ \A j \in 1 .. x : j \in 1 .. x + 1
      BY <1>9
    <2>5. ToSet(q) = {q[j] : j \in 1 .. x + 1} /\ ToSet(L) = {L[j] : j \in 1 .. x}
      BY <1>9, <2>2 DEF ToSet
    <2> QED
      BY <2>2, <2>3, <2>4, <2>5
  <1>24. \E R : /\ IsRing(t, R) /\ ToSet(R) = Group(s, S, read.elf, k, v) \cup {i}
                /\ Is(t, R[1], read.elf, Min(At(read.elf, k, v))) /\ R[1] = part.mainAt[v]
    BY <1>8, <1>15, <1>21, <1>22, <1>23
  <1>25. Joined(s, t, read.elf, k, n, S, i, v, part.mainAt[v])
    BY <1>9, <1>15, <1>16, <1>18, <1>19, <1>20, <1>24 DEF Joined
  <1> QED
    BY <1>6, <1>13, <1>14, <1>25

\* A part without declarations.
LEMMA NoDecls ==
    ASSUME NEW s, NEW t, NEW part, NEW new, NEW k, NEW dies, NEW source, NEW other,
           DeclsRight(s, part, k, dies, 0, source), new.decls = part.decls
    PROVE  /\ 1 .. Len(part.decls) = {}
           /\ DeclsRight(t, new, k, dies, 0, other) /\ AllDeclared(t, new, k, dies, 0)
  <1>1. 1 .. 0 = {}
    OBVIOUS
  <1>2. \A x \in 1 .. Len(part.decls) : FALSE
    BY <1>1 DEF DeclsRight, DeclRight
  <1> QED
    BY <1>1, <1>2 DEF DeclsRight, AllDeclared

LEMMA AppendedSet ==
    ASSUME NEW T, NEW s \in Seq(T), NEW i \in T
    PROVE  /\ Append(s, i) \in Seq(T) /\ ToSet(Append(s, i)) = ToSet(s) \cup {i}
  <1>1. PICK n \in Nat : n = Len(s) /\ DOMAIN s = 1 .. n
    BY LenProperties
  <1>2. PICK q : q = Append(s, i)
    OBVIOUS
  <1>3. /\ q \in Seq(T) /\ DOMAIN q = 1 .. n + 1 /\ q[n + 1] = i
        /\ \A j \in 1 .. n : q[j] = s[j]
    BY <1>1, <1>2
  <1>4. \A j \in 1 .. n + 1 : j \in 1 .. n \/ j = n + 1
    BY <1>1
  <1>5. n + 1 \in 1 .. n + 1 /\ \A j \in 1 .. n : j \in 1 .. n + 1
    BY <1>1
  <1>6. ToSet(q) = {q[j] : j \in 1 .. n + 1} /\ ToSet(s) = {s[j] : j \in 1 .. n}
    BY <1>1, <1>3 DEF ToSet
  <1>7. ToSet(q) = ToSet(s) \cup {i}
    BY <1>3, <1>4, <1>5, <1>6
  <1> QED
    BY <1>2, <1>3, <1>7

LEMMA AppendedEach ==
    ASSUME NEW s \in Seq(Nat), NEW i \in Nat, OneEach(s), i \notin ToSet(s)
    PROVE  OneEach(Append(s, i))
  <1>1. PICK n \in Nat : n = Len(s) /\ DOMAIN s = 1 .. n
    BY LenProperties
  <1>2. PICK q : q = Append(s, i)
    OBVIOUS
  <1>3. Len(q) = n + 1 /\ q[n + 1] = i /\ \A j \in 1 .. n : q[j] = s[j]
    BY <1>1, <1>2
  <1>4. \A j \in 1 .. n + 1 : j \in 1 .. n \/ j = n + 1
    BY <1>1
  <1>5. \A j \in 1 .. n : s[j] \in ToSet(s)
    BY <1>1 DEF ToSet
  <1>6. \A j, x \in 1 .. n : s[j] = s[x] => j = x
    BY <1>1 DEF OneEach
  <1>7. \A j, x \in 1 .. n + 1 : q[j] = q[x] => j = x
    <2> TAKE j, x \in 1 .. n + 1
    <2>1. CASE j \in 1 .. n /\ x \in 1 .. n
      BY <1>3, <1>6, <2>1
    <2>2. CASE j \in 1 .. n /\ x = n + 1
      BY <1>3, <1>5, <2>2
    <2>3. CASE j = n + 1 /\ x \in 1 .. n
      BY <1>3, <1>5, <2>3
    <2> QED
      BY <1>4, <2>1, <2>2, <2>3
  <1> QED
    BY <1>2, <1>3, <1>7 DEF OneEach

\* A public symbol more, main being the one at its address.
HasPublic(part, new, i, v, main) ==
    /\ new.syms = Append(part.syms, i)
    /\ new.mainAt = [part.mainAt EXCEPT ![v] = main]
    /\ new.undefined = part.undefined /\ new.decls = part.decls /\ new.written = part.written
    /\ new.unlinked = part.unlinked /\ new.unreferenced = part.unreferenced
    /\ new.keep = part.keep /\ new.toSuppress = part.toSuppress /\ new.toKeep = part.toKeep

LEMMA AddPublicIs ==
    ASSUME NEW values, NEW part \in Parts(values), NEW i \in Nat, NEW v \in values,
           NEW main \in Nat, main = IF part.mainAt[v] = 0 THEN i ELSE part.mainAt[v]
    PROVE  /\ AddPublic(part, i, v) \in Parts(values)
           /\ HasPublic(part, AddPublic(part, i, v), i, v, main)
  <1>1. /\ part.syms \in Seq(Nat) /\ part.mainAt \in [values -> Nat]
        /\ DOMAIN part = {"syms", "undefined", "mainAt", "decls", "keep", "toSuppress", "toKeep",
                          "unreferenced", "written", "unlinked"}
    BY DEF Parts
  <1>2a. PICK q : q = Append(part.syms, i)
    OBVIOUS
  <1>2. q = Append(part.syms, i) /\ q \in Seq(Nat)
    BY <1>1, <1>2a
  <1>0. PICK b : b = part.mainAt
    OBVIOUS
  <1>0a. b \in [values -> Nat]
    BY <1>0, <1>1
  <1>3. PICK a : a = [b EXCEPT ![v] = main]
    OBVIOUS
  <1>3a. a \in [values -> Nat]
    BY <1>0a, <1>3
  <1>4. a = IF b[v] = 0 THEN [b EXCEPT ![v] = i] ELSE b
    <2>1. CASE b[v] = 0
      BY <1>0, <1>0a, <1>3, <2>1
    <2>2. CASE b[v] # 0
      <3>1. main = b[v]
        BY <1>0, <2>2
      <3>2. [b EXCEPT ![v] = main] = b
        BY <1>0a, <3>1
      <3> QED
        BY <1>3, <2>2, <3>2
    <2> QED
      BY <2>1, <2>2
  <1>5. AddPublic(part, i, v) = [part EXCEPT !.syms = q, !.mainAt = a]
    BY <1>0, <1>2, <1>4 DEF AddPublic
  <1>6. AddPublic(part, i, v) \in Parts(values)
    <2>1. PICK A, B, C : A = Seq(Ids) /\ B = Seq(SUBSET STRING) /\ C = Seq(Nat)
      OBVIOUS
    <2>2. PICK M : M = [values -> Nat]
      OBVIOUS
    <2>3. Parts(values) = [syms : C, undefined : C, mainAt : M, decls : C, keep : A, toSuppress : B,
                           toKeep : B, unreferenced : SUBSET Nat, written : C, unlinked : SUBSET Nat]
      BY <2>1, <2>2 DEF Parts
    <2>4. q \in C /\ a \in M
      BY <1>2, <1>3a, <2>1, <2>2
    <2> QED
      BY <1>5, <2>3, <2>4
  <1>7. HasPublic(part, AddPublic(part, i, v), i, v, main)
    BY <1>0, <1>1, <1>2, <1>3, <1>5 DEF HasPublic
  <1> QED
    BY <1>6, <1>7

LEMMA LoadedMore ==
    ASSUME NEW read, GoodRead(read), NEW k, NEW m \in Nat, NEW n, n = m + 1
    PROVE  /\ n \in PublicEntries(read.elf) /\ KindOf(SymbolTable(read.elf)[n]) = k
                => Loaded(read.elf, k, n) = Loaded(read.elf, k, m) \cup {n}
           /\ ~(n \in PublicEntries(read.elf) /\ KindOf(SymbolTable(read.elf)[n]) = k)
                => Loaded(read.elf, k, n) = Loaded(read.elf, k, m)
           /\ n \notin Loaded(read.elf, k, m)
  <1>1. \A e \in PublicEntries(read.elf) : e \in Nat
    <2> TAKE e \in PublicEntries(read.elf)
    <2> QED
      BY TableIs DEF PublicEntries
  <1>2. \A e \in Nat : e <= n <=> (e <= m \/ e = n)
    OBVIOUS
  <1>4. ~(n <= m)
    OBVIOUS
  <1> QED
    BY <1>1, <1>2, <1>4 DEF Loaded

LEMMA GroupOfOne ==
    ASSUME NEW read, GoodRead(read), NEW h, NEW i, NEW k, NEW v, NEW n,
           n \in At(read.elf, k, v), Is(h, i, read.elf, n), NEW x
    PROVE  Group(h, {i}, read.elf, k, x) = IF x = v THEN {i} ELSE {}
  <1>1. CASE x = v
    BY <1>1 DEF Group
  <1>2. CASE x # v
    <2>1. ASSUME NEW e \in At(read.elf, k, x), Is(h, i, read.elf, e)
          PROVE  FALSE
      <3>1. n \in PublicEntries(read.elf) /\ e \in PublicEntries(read.elf)
        BY AtIs
      <3>1a. SymbolTable(read.elf)[n].value = v
        BY ValueOf
      <3>1b. SymbolTable(read.elf)[e].value = x
        BY ValueOf
      <3>2. e = n
        BY <2>1, <3>1, OneEntry
      <3> QED
        BY <1>2, <3>1a, <3>1b, <3>2
    <2> QED
      BY <1>2, <2>1 DEF Group
  <1> QED
    BY <1>1, <1>2

\* The symbols of the first entries, and that of the next.
LEMMA SymbolsMore ==
    ASSUME NEW read, GoodRead(read), NEW t, NEW ls \in Nat, NEW S \in SUBSET (1 .. ls),
           Len(t) = ls + 1, NEW k, NEW m \in Nat,
           SymbolsAre(t, S, read.elf, Loaded(read.elf, k, m)), NEW v, m + 1 \in At(read.elf, k, v),
           Is(t, ls + 1, read.elf, m + 1)
    PROVE  SymbolsAre(t, S \cup {ls + 1}, read.elf, Loaded(read.elf, k, m + 1))
  <1>1. PICK n \in Nat, i \in Nat : n = m + 1 /\ i = ls + 1
    OBVIOUS
  <1>2. Loaded(read.elf, k, n) = Loaded(read.elf, k, m) \cup {n} /\ n \notin Loaded(read.elf, k, m)
    <2>1. n \in PublicEntries(read.elf) /\ KindOf(SymbolTable(read.elf)[n]) = k
      BY <1>1 DEF At
    <2> QED
      BY <1>1, <2>1, LoadedMore
  <1>3. Is(t, i, read.elf, n) /\ n \in PublicEntries(read.elf)
    BY <1>1 DEF At
  <1>4. S \cup {i} \subseteq 1 .. Len(t)
    BY <1>1
  <1>5. \A j \in S \cup {i} : \E e \in Loaded(read.elf, k, n) : Is(t, j, read.elf, e)
    BY <1>2, <1>3 DEF SymbolsAre
  <1>6. \A e \in Loaded(read.elf, k, n) : \E j \in S \cup {i} : Is(t, j, read.elf, e)
    BY <1>2, <1>3 DEF SymbolsAre
  <1>7. ASSUME NEW j \in S
        PROVE  ~SameSymbol(t[j], t[i]) /\ ~SameSymbol(t[i], t[j])
    <2>1. PICK e \in Loaded(read.elf, k, m) : Is(t, j, read.elf, e)
      BY DEF SymbolsAre
    <2>2. e \in PublicEntries(read.elf) /\ e # n
      BY <1>2, <2>1 DEF Loaded
    <2>3. ASSUME Is(t, j, read.elf, n)
          PROVE  FALSE
      BY <1>3, <2>1, <2>2, <2>3, OneEntry
    <2>4. SameSymbol(t[j], t[i]) \/ SameSymbol(t[i], t[j]) => Is(t, j, read.elf, n)
      BY <1>3 DEF Is, SameSymbol
    <2> QED
      BY <2>3, <2>4
  <1>8. \A j, x \in S \cup {i} : SameSymbol(t[j], t[x]) => j = x
    BY <1>7 DEF SymbolsAre
  <1> QED
    BY <1>1, <1>4, <1>5, <1>6, <1>8 DEF SymbolsAre

LEMMA JoinedKept ==
    ASSUME NEW read, NEW s, Heap(s), NEW k, NEW n, NEW S, NEW v, NEW i,
           NEW t, NEW main, Joined(s, t, read.elf, k, n, S, i, v, main),
           NEW T \in SUBSET (1 .. Len(s)), T \cap Group(s, S, read.elf, k, v) = {}
    PROVE  Kept(s, t, T)
  <1>1. PICK ls \in Nat : ls = Len(s) /\ i = ls + 1
    BY HeapLength DEF Joined
  <1>2. /\ Len(t) = i
        /\ \A j \in 1 .. Len(s) : SameSymbol(t[j], s[j])
        /\ \A j \in 1 .. Len(s) : j \notin Group(s, S, read.elf, k, v) => t[j] = s[j]
    BY DEF Joined
  <1>3. Len(s) <= Len(t)
    BY <1>1, <1>2
  <1> QED
    BY <1>2, <1>3 DEF Kept

LEMMA JoinedKeptNone ==
    ASSUME NEW read, NEW s, Heap(s), NEW k, NEW n, NEW S, NEW v, NEW i,
           NEW t, NEW main, Joined(s, t, read.elf, k, n, S, i, v, main)
    PROVE  Kept(s, t, {})
  <1>1. {} \in SUBSET (1 .. Len(s)) /\ {} \cap Group(s, S, read.elf, k, v) = {}
    OBVIOUS
  <1> QED
    BY <1>1, JoinedKept

SameGroup(t, T, s, S, elf, k, x) == Group(t, T, elf, k, x) = Group(s, S, elf, k, x)
GroupWith(t, T, s, S, elf, k, x, i) == Group(t, T, elf, k, x) = Group(s, S, elf, k, x) \cup {i}

LEMMA JoinedGroupThere ==
    ASSUME NEW read, GoodRead(read), NEW s, Heap(s), NEW k, NEW n,
           NEW S, S \in SUBSET (1 .. Len(s)),
           NEW v, n \in At(read.elf, k, v), NEW i, NEW t, NEW main,
           Joined(s, t, read.elf, k, n, S, i, v, main),
           NEW T, T = S \cup {i}
    PROVE  GroupWith(t, T, s, S, read.elf, k, v, i)
  <1>1. Kept(s, t, {})
    BY JoinedKeptNone
  <1>2. Group(t, S, read.elf, k, v) = Group(s, S, read.elf, k, v)
    BY <1>1, KeptGroup
  <1>3. Is(t, i, read.elf, n)
    BY DEF Joined
  <1>4. Group(t, {i}, read.elf, k, v) = {i}
    BY <1>3, GroupOfOne
  <1>5. Group(t, S \cup {i}, read.elf, k, v) = Group(t, S, read.elf, k, v) \cup Group(t, {i}, read.elf, k, v)
    BY DEF Group
  <1> QED
    BY <1>2, <1>4, <1>5 DEF GroupWith

LEMMA JoinedGroupElsewhere ==
    ASSUME NEW read, GoodRead(read), NEW s, Heap(s), NEW k, NEW n,
           NEW S, S \in SUBSET (1 .. Len(s)),
           NEW v, n \in At(read.elf, k, v), NEW i, NEW t, NEW main, NEW x, NEW T,
           Joined(s, t, read.elf, k, n, S, i, v, main), v # x, T = S \cup {i}
    PROVE  SameGroup(t, T, s, S, read.elf, k, x)
  <1>1. Kept(s, t, {})
    BY JoinedKeptNone
  <1>2. Group(t, S, read.elf, k, x) = Group(s, S, read.elf, k, x)
    BY <1>1, KeptGroup
  <1>3. Is(t, i, read.elf, n)
    BY DEF Joined
  <1>4. Group(t, {i}, read.elf, k, x) = {}
    BY <1>3, GroupOfOne
  <1>5. Group(t, S \cup {i}, read.elf, k, x) = Group(t, S, read.elf, k, x) \cup Group(t, {i}, read.elf, k, x)
    BY DEF Group
  <1> QED
    BY <1>2, <1>4, <1>5 DEF SameGroup

LEMMA JoinedSymbols ==
    ASSUME NEW read, GoodRead(read), NEW s, Heap(s), NEW k, NEW m \in Nat, NEW n, n = m + 1,
           NEW S, SymbolsAre(s, S, read.elf, Loaded(read.elf, k, m)),
           NEW v, n \in At(read.elf, k, v), NEW i, NEW t, NEW main,
           Joined(s, t, read.elf, k, n, S, i, v, main)
    PROVE  SymbolsAre(t, S \cup {i}, read.elf, Loaded(read.elf, k, n))
  <1>1. PICK ls \in Nat : ls = Len(s) /\ i = ls + 1
    BY HeapLength DEF Joined
  <1>2. /\ Heap(t) /\ Len(t) = i /\ Len(t) \in Nat
        /\ Is(t, i, read.elf, n)
    BY <1>1 DEF Joined
  <1>4. Kept(s, t, {})
    BY JoinedKeptNone
  <1>5. S \in SUBSET (1 .. Len(s))
    BY DEF SymbolsAre
  <1>6. SymbolsAre(t, S, read.elf, Loaded(read.elf, k, m))
    <2>1. Len(s) \in Nat /\ Len(t) \in Nat
      BY <1>1, <1>2
    <2> QED
      BY <1>4, <2>1, KeptSymbols
  <1>7. SymbolsAre(t, S \cup {i}, read.elf, Loaded(read.elf, k, n))
    <2>1. S \in SUBSET (1 .. ls) /\ Len(t) = ls + 1
      BY <1>1, <1>2, <1>5
    <2>2. m + 1 \in At(read.elf, k, v)
      OBVIOUS
    <2>3. Is(t, ls + 1, read.elf, m + 1)
      BY <1>1, <1>2
    <2>4. SymbolsAre(t, S \cup {ls + 1}, read.elf, Loaded(read.elf, k, m + 1))
      BY <1>6, <2>1, <2>2, <2>3, SymbolsMore
    <2> QED
      BY <1>1, <2>4
  <1> QED
    BY <1>7

LEMMA JoinedAddress ==
    ASSUME NEW read, GoodRead(read), NEW s, Heap(s), NEW k, NEW m \in Nat, NEW n, n = m + 1,
           NEW part, PartIs(s, part, read, k, m, 0, "elf"),
           NEW v \in DOMAIN part.mainAt, n \in At(read.elf, k, v),
           NEW i, NEW t, NEW main \in Nat \ {0},
           Joined(s, t, read.elf, k, n, ToSet(part.syms), i, v, main),
           NEW new, HasPublic(part, new, i, v, main), NEW x \in DOMAIN part.mainAt
    PROVE  AddressRight(t, new, read.elf, k, x, "elf")
  <1>1. PICK S : S = ToSet(part.syms)
    OBVIOUS
  <1>2. Firsts(part, "elf") = S
    BY <1>1 DEF Firsts
  <1>3. /\ SymbolsAre(s, S, read.elf, Loaded(read.elf, k, m))
        /\ AddressRight(s, part, read.elf, k, x, "elf")
        /\ part.syms \in Seq(Nat) /\ part.mainAt \in [Addresses(read) -> Nat]
    BY <1>2 DEF PartIs, PartRight, Parts
  <1>4. i \in Nat /\ Firsts(new, "elf") = S \cup {i}
    <2>1. i \in Nat
      BY HeapLength DEF Joined
    <2>2. Firsts(new, "elf") = ToSet(Append(part.syms, i))
      BY DEF Firsts, HasPublic
    <2>3. ToSet(Append(part.syms, i)) = ToSet(part.syms) \cup {i}
      BY <1>3, <2>1, AppendedSet
    <2> QED
      BY <1>1, <2>1, <2>2, <2>3
  <1>5. Joined(s, t, read.elf, k, n, S, i, v, main)
    BY <1>1
  <1>6. S \in SUBSET (1 .. Len(s))
    BY <1>3 DEF SymbolsAre
  <1>7. new.mainAt = [part.mainAt EXCEPT ![v] = main]
    BY DEF HasPublic
  <1>8. CASE x = v
    <2>1. new.mainAt[v] = main /\ main # 0
      BY <1>3, <1>7
    <2>2. PICK L : /\ IsRing(t, L) /\ ToSet(L) = Group(s, S, read.elf, k, v) \cup {i}
                   /\ Is(t, L[1], read.elf, Min(At(read.elf, k, v))) /\ L[1] = main
      BY <1>5 DEF Joined
    <2>3. Group(t, S \cup {i}, read.elf, k, v) = Group(s, S, read.elf, k, v) \cup {i}
      <3>1. PICK T : T = S \cup {i}
        OBVIOUS
      <3>2. GroupWith(t, T, s, S, read.elf, k, v, i)
        BY <1>5, <1>6, <3>1, JoinedGroupThere
      <3> QED
        BY <3>1, <3>2 DEF GroupWith
    <2>4. RingAt(t, S \cup {i}, read.elf, k, v, L)
      BY <2>2, <2>3 DEF RingAt
    <2>5. RingIsRight(t, new, read.elf, k, v, "elf", L)
      BY <1>4, <2>1, <2>2, <2>4 DEF RingIsRight
    <2> QED
      BY <1>8, <2>1, <2>5 DEF AddressRight
  <1>9. CASE x # v
    <2>1. new.mainAt[x] = part.mainAt[x]
      BY <1>3, <1>7, <1>9
    <2>2. Group(t, S \cup {i}, read.elf, k, x) = Group(s, S, read.elf, k, x)
      <3>1. PICK T : T = S \cup {i}
        OBVIOUS
      <3>2. v # x
        BY <1>9
      <3>2a. S \in SUBSET (1 .. Len(s)) /\ Joined(s, t, read.elf, k, n, S, i, v, main)
        BY <1>5, <1>6
      <3>3. SameGroup(t, T, s, S, read.elf, k, x)
        BY <3>1, <3>2, <3>2a, JoinedGroupElsewhere
      <3> QED
        BY <3>1, <3>3 DEF SameGroup
    <2>3. CASE part.mainAt[x] = 0
      BY <1>2, <1>3, <1>4, <2>1, <2>2, <2>3 DEF AddressRight
    <2>4. CASE part.mainAt[x] # 0
      <3>1. PICK L : RingIsRight(s, part, read.elf, k, x, "elf", L)
        BY <1>3, <2>4 DEF AddressRight
      <3>2. RingAt(s, S, read.elf, k, x, L) /\ L[1] = part.mainAt[x]
        BY <1>2, <3>1 DEF RingIsRight
      <3>3. ToSet(L) = Group(s, S, read.elf, k, x) /\ S \in SUBSET (1 .. Len(s))
        BY <1>3, <3>2 DEF RingAt, SymbolsAre
      <3>4. ToSet(L) \in SUBSET (1 .. Len(s))
        BY <3>3 DEF Group
      <3>5. ToSet(L) \cap Group(s, S, read.elf, k, v) = {}
        BY <1>9, <3>3, GroupsApart
      <3>6. Kept(s, t, ToSet(L))
        BY <1>5, <3>4, <3>5, JoinedKept
      <3>7. Len(t) \in Nat
        BY <1>4, <1>5 DEF Joined
      <3>8. RingAt(t, S, read.elf, k, x, L)
        BY <3>2, <3>3, <3>6, <3>7, KeptRingAt
      <3>9. ToSet(L) = Group(t, S \cup {i}, read.elf, k, x)
        BY <2>2, <3>3
      <3>10. RingAt(t, S \cup {i}, read.elf, k, x, L)
        BY <3>8, <3>9 DEF RingAt
      <3>11. RingIsRight(t, new, read.elf, k, x, "elf", L)
        BY <1>4, <2>1, <3>2, <3>10 DEF RingIsRight
      <3> QED
        BY <2>1, <2>4, <3>11 DEF AddressRight
    <2> QED
      BY <2>3, <2>4
  <1> QED
    BY <1>8, <1>9

PublicIn(s, t, part, new, read, k, n, i) ==
    /\ PartIs(t, new, read, k, n, 0, "elf") /\ AllDeclared(t, new, k, read.dies, 0)
    /\ Mine(new) = Mine(part) \cup {i} /\ Owned(new) = Owned(part) \cup {i}

LEMMA JoinedPart ==
    ASSUME NEW read, NEW s, NEW k, NEW m \in Nat, NEW n, NEW part, NEW v \in DOMAIN part.mainAt,
           NEW i, NEW t, NEW main \in Nat \ {0}, NEW new,
           GoodRead(read), Heap(s), n = m + 1, PartIs(s, part, read, k, m, 0, "elf"),
           n \in At(read.elf, k, v), Joined(s, t, read.elf, k, n, ToSet(part.syms), i, v, main),
           new \in Parts(Addresses(read)), HasPublic(part, new, i, v, main)
    PROVE  PublicIn(s, t, part, new, read, k, n, i)
  <1>1. PICK S : S = ToSet(part.syms)
    OBVIOUS
  <1>2. Firsts(part, "elf") = S
    BY <1>1 DEF Firsts
  <1>3. /\ SymbolsAre(s, S, read.elf, Loaded(read.elf, k, m))
        /\ part.syms \in Seq(Nat) /\ part.mainAt \in [Addresses(read) -> Nat]
        /\ part.written = <<>>
    BY <1>2 DEF PartIs, PartRight, Parts
  <1>4. i \in Nat /\ ToSet(new.syms) = S \cup {i}
    <2>1. i \in Nat
      BY HeapLength DEF Joined
    <2>2. new.syms = Append(part.syms, i)
      BY DEF HasPublic
    <2>3. ToSet(Append(part.syms, i)) = ToSet(part.syms) \cup {i}
      BY <1>3, <2>1, AppendedSet
    <2> QED
      BY <1>1, <2>1, <2>2, <2>3
  <1>5. Joined(s, t, read.elf, k, n, S, i, v, main)
    BY <1>1
  <1>6. SymbolsAre(t, S \cup {i}, read.elf, Loaded(read.elf, k, n))
    BY <1>3, <1>5, JoinedSymbols
  <1>7. DOMAIN new.mainAt = DOMAIN part.mainAt
    BY DEF HasPublic
  <1>8. \A x \in DOMAIN new.mainAt : AddressRight(t, new, read.elf, k, x, "elf")
    <2> TAKE x \in DOMAIN new.mainAt
    <2>1. x \in DOMAIN part.mainAt
      BY <1>7
    <2> QED
      BY <2>1, JoinedAddress
  <1>9. Firsts(new, "elf") = S \cup {i}
    BY <1>4 DEF Firsts
  <1>10. PartRight(t, new, read.elf, k, n, "elf")
    <2>1. new.written = <<>>
      BY <1>3 DEF HasPublic
    <2>2. "elf" # "xml"
      OBVIOUS
    <2>3. OneEach(part.syms)
      BY <2>2 DEF PartIs, PartRight
    <2>4. S \subseteq 1 .. Len(s) /\ i \notin 1 .. Len(s)
      <3>1. PICK ls \in Nat : ls = Len(s)
        BY HeapLength
      <3>2. i = ls + 1
        BY <1>5, <3>1 DEF Joined
      <3>3. i \notin 1 .. ls
        BY <3>1, <3>2
      <3> QED
        BY <1>3, <3>1, <3>3 DEF SymbolsAre
    <2>5. OneEach(new.syms)
      <3>1. i \notin ToSet(part.syms)
        BY <1>1, <2>4
      <3>2. new.syms = Append(part.syms, i)
        BY DEF HasPublic
      <3> QED
        BY <1>3, <1>4, <2>3, <3>1, <3>2, AppendedEach
    <2> QED
      BY <1>6, <1>8, <1>9, <2>1, <2>2, <2>5 DEF PartRight
  <1>11. DeclsRight(t, new, k, read.dies, 0, "elf") /\ AllDeclared(t, new, k, read.dies, 0)
    <2>1. DeclsRight(s, part, k, read.dies, 0, "elf") /\ new.decls = part.decls
      BY DEF PartIs, HasPublic
    <2> QED
      BY <2>1, NoDecls
  <1>12. UndefinedRight(t, new, k)
    <2>1. UndefinedRight(s, part, k) /\ new.undefined = part.undefined
      BY DEF PartIs, HasPublic
    <2>2. Kept(s, t, {})
      BY <1>5, JoinedKeptNone
    <2>3. Len(s) \in Nat /\ Len(t) \in Nat
      BY <1>4, <1>5, HeapLength DEF Joined
    <2>4. UndefinedRight(t, part, k)
      BY <2>1, <2>2, <2>3, KeptUndefined
    <2> QED
      BY <2>1, <2>4 DEF UndefinedRight
  <1>13. Mine(new) = Mine(part) \cup {i} /\ Owned(new) = Owned(part) \cup {i}
    <2>1. new.written = part.written /\ new.decls = part.decls
      BY DEF HasPublic
    <2> QED
      BY <1>1, <1>4, <2>1 DEF Mine, Owned
  <1> QED
    BY <1>10, <1>11, <1>12, <1>13 DEF PartIs, PublicIn

-----------------------------------------------------------------------------
(* One part of the file that is read changes.                               *)

LEMMA NumbersOf ==
    ASSUME NEW w, NEW f, NEW p, NEW n
    PROVE  /\ p = "symbols" => /\ EntriesRead(w, f, f, p, n) = n - 1 /\ DiesRead(w, f, f, p, n) = 0
                               /\ Source(w, f, f, p) = "elf"
           /\ p = "dies" => /\ EntriesRead(w, f, f, p, n) = Len(SymbolTable(w.files[f].elf))
                            /\ DiesRead(w, f, f, p, n) = n - 1 /\ Source(w, f, f, p) = "elf"
           /\ p = "aliases" /\ w.files[f].xml =>
                /\ EntriesRead(w, f, f, p, n) = Len(SymbolTable(w.files[f].elf))
                /\ DiesRead(w, f, f, p, n) = 0 /\ Source(w, f, f, p) = "xml"
           /\ p = "decls" /\ w.files[f].xml =>
                /\ EntriesRead(w, f, f, p, n) = Len(SymbolTable(w.files[f].elf))
                /\ DiesRead(w, f, f, p, n) = n - 1 /\ Source(w, f, f, p) = "xml"
  <1>1. p \in Reading => ~ReadBy(f, f, p)
    BY DEF ReadBy, Before, Reading, Ending
  <1>2. p = "symbols" => /\ EntriesRead(w, f, f, p, n) = n - 1 /\ DiesRead(w, f, f, p, n) = 0
                         /\ Source(w, f, f, p) = "elf"
    BY <1>1 DEF Reading, EntriesRead, DiesRead, Source
  <1>3. p = "dies" => /\ EntriesRead(w, f, f, p, n) = Len(SymbolTable(w.files[f].elf))
                      /\ DiesRead(w, f, f, p, n) = n - 1 /\ Source(w, f, f, p) = "elf"
    BY <1>1 DEF Reading, EntriesRead, DiesRead, Source
  <1>4. p = "aliases" /\ w.files[f].xml =>
                /\ EntriesRead(w, f, f, p, n) = Len(SymbolTable(w.files[f].elf))
                /\ DiesRead(w, f, f, p, n) = 0 /\ Source(w, f, f, p) = "xml"
    BY <1>1 DEF Reading, EntriesRead, DiesRead, Source
  <1>5. p = "decls" /\ w.files[f].xml =>
                /\ EntriesRead(w, f, f, p, n) = Len(SymbolTable(w.files[f].elf))
                /\ DiesRead(w, f, f, p, n) = n - 1 /\ Source(w, f, f, p) = "xml"
    BY <1>1 DEF Reading, EntriesRead, DiesRead, Source
  <1> QED
    BY <1>2, <1>3, <1>4, <1>5

\* The corpora d are c but for one part.
PartChanged(w, c, f, k, X, d) ==
    /\ CorporaIn(w, d) /\ d[f][k] = X
    /\ \A g \in DOMAIN w.files : g # f => \A l \in SymbolKinds : d[g][l] = c[g][l]
    /\ \A l \in SymbolKinds : l # k => d[f][l] = c[f][l]

LEMMA ChangedIs ==
    ASSUME NEW w, NEW c, NEW f, NEW k, NEW X, NEW d,
           CorporaIn(w, c), f \in DOMAIN w.files, k \in SymbolKinds,
           d = [c EXCEPT ![f][k] = X]
    PROVE  PartChanged(w, c, f, k, X, d)
  <1>1. PICK F : F = DOMAIN w.files
    OBVIOUS
  <1>2. c = [g \in F |-> [l \in SymbolKinds |-> c[g][l]]] /\ f \in F
    BY <1>1 DEF CorporaIn
  <1>3. DOMAIN c = F /\ \A g \in F : DOMAIN c[g] = SymbolKinds
    BY <1>2
  <1>4. DOMAIN d = F /\ \A g \in F : DOMAIN d[g] = SymbolKinds
    BY <1>3
  <1>5. d[f][k] = X /\ \A l \in SymbolKinds : l # k => d[f][l] = c[f][l]
    BY <1>2, <1>3
  <1>6. \A g \in F : g # f => d[g] = c[g]
    BY <1>2, <1>3
  <1>7. d = [g \in F |-> [l \in SymbolKinds |-> d[g][l]]]
    <2>1. \A g \in F : d[g] = [l \in SymbolKinds |-> d[g][l]]
      <3> TAKE g \in F
      <3>1. CASE g = f
        <4>1. PICK e : e = c[f]
          OBVIOUS
        <4>2. d[f] = [e EXCEPT ![k] = X] /\ e = [l \in SymbolKinds |-> e[l]]
          BY <1>2, <1>3, <4>1
        <4>3. d[f] = [l \in SymbolKinds |-> d[f][l]]
          BY <4>2
        <4> QED
          BY <3>1, <4>3
      <3>2. CASE g # f
        BY <1>2, <1>6, <3>2
      <3> QED
        BY <3>1, <3>2
    <2>2. PICK D : D = [g \in F |-> d[g]]
      OBVIOUS
    <2>3. d = D
      BY <1>4, <2>2
    <2> QED
      BY <2>1, <2>2, <2>3
  <1> QED
    BY <1>1, <1>5, <1>6, <1>7 DEF PartChanged, CorporaIn

\* What a step does to the symbols and the part of a kind.
PartStep(s, t, old, new) ==
    /\ Heap(t) /\ Grown(s, t, Mine(old))
    /\ Owned(new) \subseteq Owned(old) \cup NewIn(s, t)
    /\ Mine(new) \subseteq Mine(old) \cup NewIn(s, t)

LEMMA GrownKept ==
    ASSUME NEW s, NEW t, NEW S, NEW T, Grown(s, t, S), S \cap T = {}, T \in SUBSET (1 .. Len(s))
    PROVE  Kept(s, t, T)
  BY DEF Grown, Kept

LEMMA ApartStays ==
    ASSUME NEW s, NEW t, NEW old, NEW new, NEW other, PartStep(s, t, old, new),
           Owned(other) \in SUBSET (1 .. Len(s)), Apart(old, other), Apart(other, old),
           Mine(other) \in SUBSET Owned(other)
    PROVE  Apart(new, other) /\ Apart(other, new)
  BY DEF PartStep, Apart, NewIn

\* The part of the other kind, read as far.
LEMMA OtherKind ==
    ASSUME NEW w \in Worlds, w.tool # "abisym", NEW s, NEW c, NEW f, NEW p, NEW n,
           Early(w, s, c, f, p, n), NEW k \in SymbolKinds, NEW l \in SymbolKinds, k # l,
           NEW t, NEW X, PartStep(s, t, c[f][k], X)
    PROVE  FilePart(w, t, c[f][l], f, l, f, p, n)
  <1>1. /\ f \in DOMAIN w.files /\ Heap(s) /\ FilePart(w, s, c[f][l], f, l, f, p, n)
        /\ Apart(c[f][k], c[f][l])
    BY DEF Early, PhaseRight, PartsApart
  <1>2. GoodRead(w.files[f])
    BY <1>1, FilesGood
  <1>3. PICK e, b, so : e = EntriesRead(w, f, f, p, n) /\ b = DiesRead(w, f, f, p, n) /\ so = Source(w, f, f, p)
    OBVIOUS
  <1>4. /\ PartIs(s, c[f][l], w.files[f], l, e, b, so)
        /\ AllDeclared(s, c[f][l], l, w.files[f].dies, b)
    BY <1>1, <1>3 DEF FilePart
  <1>5. Owned(c[f][l]) \in SUBSET (1 .. Len(s))
    BY <1>1, <1>4, OwnedIn
  <1>6. Kept(s, t, Owned(c[f][l]))
    BY <1>1, <1>5, GrownKept DEF PartStep, Apart
  <1>7. Len(t) \in Nat
    BY HeapLength DEF PartStep
  <1>8. /\ PartIs(t, c[f][l], w.files[f], l, e, b, so)
        /\ AllDeclared(t, c[f][l], l, w.files[f].dies, b)
    BY <1>1, <1>2, <1>4, <1>6, <1>7, KeptPartIs
  <1> QED
    BY <1>1, <1>3, <1>8 DEF FilePart

LEMMA PartStepOf ==
    ASSUME NEW w \in Worlds, w.tool # "abisym", NEW s, NEW c, NEW f, NEW p, NEW n,
           Early(w, s, c, f, p, n), NEW k \in SymbolKinds,
           NEW t, NEW X, PartStep(s, t, c[f][k], X), NEW d, PartChanged(w, c, f, k, X, d)
    PROVE  StepOf(w, s, c, t, d, f)
  <1>1. PICK l \in SymbolKinds : l # k /\ SymbolKinds = {k, l}
    BY DEF SymbolKinds
  <1>2. /\ f \in DOMAIN w.files /\ Heap(s) /\ FilePart(w, s, c[f][l], f, l, f, p, n)
        /\ Apart(c[f][k], c[f][l]) /\ Apart(c[f][l], c[f][k])
    BY <1>1 DEF Early, PhaseRight, PartsApart
  <1>3. Owned(c[f][l]) \in SUBSET (1 .. Len(s)) /\ Mine(c[f][l]) \in SUBSET Owned(c[f][l])
    BY <1>2, OwnedIn DEF FilePart
  <1>4. Apart(X, c[f][l]) /\ Apart(c[f][l], X)
    BY <1>2, <1>3, ApartStays
  <1>5. d[f][k] = X /\ d[f][l] = c[f][l]
    BY <1>1 DEF PartChanged
  <1>6. Apart(d[f]["fun"], d[f]["var"]) /\ Apart(d[f]["var"], d[f]["fun"])
    BY <1>1, <1>4, <1>5 DEF SymbolKinds
  <1>7. \A j \in SymbolKinds : /\ Owned(d[f][j]) \subseteq Owned(c[f][j]) \cup NewIn(s, t)
                               /\ Mine(d[f][j]) \subseteq Mine(c[f][j]) \cup NewIn(s, t)
    BY <1>1, <1>5 DEF PartStep
  <1>8. Mine(c[f][k]) \subseteq MineOf(c, f)
    BY DEF SymbolKinds, MineOf
  <1>9. Grown(s, t, MineOf(c, f))
    BY <1>8 DEF PartStep, Grown
  <1> QED
    BY <1>6, <1>7, <1>9 DEF StepOf, PartStep, PartChanged

\* A step that changes the part of a kind; what is left to show is that both are read
\* as far as the phase says.
LEMMA OnePart ==
    ASSUME NEW w \in Worlds, w.tool # "abisym", NEW s, NEW c, NEW f, NEW p, NEW n,
           Early(w, s, c, f, p, n), NEW k \in SymbolKinds, NEW l \in SymbolKinds, l # k,
           NEW t, NEW X, PartStep(s, t, c[f][k], X), NEW d, d = [c EXCEPT ![f][k] = X],
           NEW q \in Reading, NEW m, PhaseRight(w, f, q, m),
           FilePart(w, t, X, f, k, f, q, m), FilePart(w, t, c[f][l], f, l, f, q, m)
    PROVE  Early(w, t, d, f, q, m)
  <1>1. CorporaIn(w, c) /\ f \in DOMAIN w.files
    BY DEF Early, PhaseRight
  <1>2. PartChanged(w, c, f, k, X, d)
    BY <1>1, ChangedIs
  <1>3. StepOf(w, s, c, t, d, f)
    BY <1>2, PartStepOf
  <1>4. \A j \in SymbolKinds : FilePart(w, t, d[f][j], f, j, f, q, m)
    <2>1. d[f][k] = X /\ d[f][l] = c[f][l]
      BY <1>2 DEF PartChanged
    <2>2. \A j \in SymbolKinds : j = k \/ j = l
      BY DEF SymbolKinds
    <2> QED
      BY <2>1, <2>2
  <1> QED
    BY <1>3, <1>4, StepWithin

-----------------------------------------------------------------------------
(* load_symbol_maps                                                         *)

\* In the phase that reads the symbol table, n - 1 entries have been read.
LEMMA SymbolsPart ==
    ASSUME NEW w, NEW t, NEW part, NEW f, NEW l, NEW n
    PROVE  FilePart(w, t, part, f, l, f, "symbols", n) <=>
             /\ PartIs(t, part, w.files[f], l, n - 1, 0, "elf")
             /\ AllDeclared(t, part, l, w.files[f].dies, 0)
             /\ Fresh(part) /\ part.unlinked = {}
  <1>1. /\ EntriesRead(w, f, f, "symbols", n) = n - 1 /\ DiesRead(w, f, f, "symbols", n) = 0
        /\ Source(w, f, f, "symbols") = "elf"
    BY NumbersOf
  <1> QED
    BY <1>1 DEF FilePart

LEMMA IsSymbolsPart ==
    ASSUME NEW w, NEW t, NEW part, NEW f, NEW l, NEW n, NEW e, e = n - 1,
           PartIs(t, part, w.files[f], l, e, 0, "elf"),
           AllDeclared(t, part, l, w.files[f].dies, 0), Fresh(part), part.unlinked = {}
    PROVE  FilePart(w, t, part, f, l, f, "symbols", n)
  BY SymbolsPart

LEMMA LoadedNoMore ==
    ASSUME NEW read, NEW k, NEW m \in Nat, NEW n, GoodRead(read), n = m + 1,
           ~(n \in PublicEntries(read.elf) /\ KindOf(SymbolTable(read.elf)[n]) = k)
    PROVE  Loaded(read.elf, k, n) = Loaded(read.elf, k, m)
  <1>1. \A e \in PublicEntries(read.elf) : e \in Nat
    <2> TAKE e \in PublicEntries(read.elf)
    <2> QED
      BY TableIs DEF PublicEntries
  <1>2. \A e \in Nat : e <= n <=> (e <= m \/ e = n)
    OBVIOUS
  <1> QED
    BY <1>1, <1>2 DEF Loaded

\* An entry that is not of a public symbol of the kind.
LEMMA MoreEntries ==
    ASSUME NEW w, NEW t, NEW part, NEW f, NEW l, NEW m \in Nat, NEW n, NEW after, n = m + 1,
           after = n + 1, GoodRead(w.files[f]),
           ~(n \in PublicEntries(w.files[f].elf) /\ KindOf(SymbolTable(w.files[f].elf)[n]) = l),
           FilePart(w, t, part, f, l, f, "symbols", n)
    PROVE  FilePart(w, t, part, f, l, f, "symbols", after)
  <1>1. /\ PartIs(t, part, w.files[f], l, n - 1, 0, "elf")
        /\ AllDeclared(t, part, l, w.files[f].dies, 0)
        /\ Fresh(part) /\ part.unlinked = {}
    BY SymbolsPart
  <1>2. n - 1 = m /\ n = after - 1
    OBVIOUS
  <1>3. PICK read : read = w.files[f]
    OBVIOUS
  <1>4. Loaded(read.elf, l, n) = Loaded(read.elf, l, m)
    <2>1. GoodRead(read)
          /\ ~(n \in PublicEntries(read.elf) /\ KindOf(SymbolTable(read.elf)[n]) = l)
      BY <1>3
    <2> QED
      BY <2>1, LoadedNoMore
  <1>5. PartIs(t, part, read, l, m, 0, "elf")
    BY <1>1, <1>2, <1>3
  <1>6. PartIs(t, part, read, l, n, 0, "elf")
    BY <1>4, <1>5 DEF PartIs, PartRight
  <1>7. PartIs(t, part, w.files[f], l, n, 0, "elf")
    BY <1>3, <1>6
  <1> QED
    BY <1>1, <1>2, <1>7, IsSymbolsPart

LEMMA SymbolsPhase ==
    ASSUME NEW w \in Worlds, w.tool # "abisym", NEW s, NEW c, NEW f, NEW n,
           Early(w, s, c, f, "symbols", n), n <= Len(SymbolTable(w.files[f].elf))
    PROVE  /\ PhaseRight(w, f, "symbols", n + 1) /\ n \in 1 .. Len(SymbolTable(w.files[f].elf))
           /\ n - 1 \in Nat /\ n = (n - 1) + 1 /\ GoodRead(w.files[f]) /\ f \in DOMAIN w.files
           /\ Heap(s) /\ CorporaIn(w, c)
           /\ \A k \in SymbolKinds : FilePart(w, s, c[f][k], f, k, f, "symbols", n)
  <1>1. /\ f \in DOMAIN w.files /\ n \in Nat \ {0} /\ PhaseRight(w, f, "symbols", n)
        /\ Heap(s) /\ CorporaIn(w, c)
    BY DEF Early, PhaseRight
  <1>2. GoodRead(w.files[f])
    BY <1>1, FilesGood
  <1>3. PICK m \in Nat : m = Len(SymbolTable(w.files[f].elf))
    BY <1>2, TableIs
  <1>4. n \in 1 .. m /\ n + 1 \in Nat \ {0} /\ n + 1 <= m + 1 /\ n - 1 \in Nat /\ n = (n - 1) + 1
    BY <1>1, <1>3
  <1>5. PhaseRight(w, f, "symbols", n + 1)
    BY <1>1, <1>3, <1>4 DEF PhaseRight
  <1> QED
    BY <1>1, <1>2, <1>3, <1>4, <1>5 DEF Early

LEMMA PublicLoaded ==
    ASSUME NEW w \in Worlds, w.tool # "abisym", NEW s, NEW c, NEW f, NEW n,
           Early(w, s, c, f, "symbols", n), n <= Len(SymbolTable(w.files[f].elf)),
           NEW k \in SymbolKinds, NEW v, n \in At(w.files[f].elf, k, v),
           NEW i, i = Len(s) + 1, NEW h, h = Append(s, NewSymbol(ElfSymbol(w.files[f].elf, n), i)),
           NEW first, first = c[f][k].mainAt[v],
           NEW t, t = IF first = 0 THEN h ELSE AddAlias(h, h[first].main, i),
           NEW d, d = [c EXCEPT ![f][k] = AddPublic(c[f][k], i, v)]
    PROVE  /\ Early(w, t, d, f, "symbols", n + 1)
           /\ first # 0 => MayAddAlias(h, h[first].main, i)
  <1>1. PICK read, part, m : read = w.files[f] /\ part = c[f][k] /\ m = n - 1
    OBVIOUS
  <1>2. /\ PhaseRight(w, f, "symbols", n + 1) /\ n \in 1 .. Len(SymbolTable(w.files[f].elf))
        /\ n - 1 \in Nat /\ n = (n - 1) + 1 /\ GoodRead(w.files[f]) /\ f \in DOMAIN w.files
        /\ Heap(s) /\ CorporaIn(w, c)
        /\ \A j \in SymbolKinds : FilePart(w, s, c[f][j], f, j, f, "symbols", n)
    BY SymbolsPhase
  <1>3. m \in Nat /\ n = m + 1 /\ GoodRead(read) /\ n \in At(read.elf, k, v)
        /\ n \in 1 .. Len(SymbolTable(read.elf))
    BY <1>1, <1>2
  <1>4. /\ PartIs(s, part, read, k, m, 0, "elf") /\ Fresh(part) /\ part.unlinked = {}
    <2>1. FilePart(w, s, c[f][k], f, k, f, "symbols", n)
      BY <1>2
    <2> QED
      BY <1>1, <2>1, SymbolsPart
  <1>5. part \in Parts(Addresses(read))
    BY <1>4 DEF PartIs
  <1>6. v \in DOMAIN part.mainAt /\ DOMAIN part.mainAt = Addresses(read)
    <2>1. SymbolTable(read.elf)[n].value = v
      BY <1>3, ValueOf
    <2>2. SymbolTable(read.elf)[n].value \in DOMAIN part.mainAt /\ DOMAIN part.mainAt = Addresses(read)
      BY <1>3, <1>5, AddressesKnown
    <2> QED
      BY <2>1, <2>2
  <1>7. i \in Nat /\ i # 0 /\ part.mainAt[v] \in Nat
    <2>1. PICK ls \in Nat : ls = Len(s)
      BY <1>2, HeapLength
    <2>2. part.mainAt \in [Addresses(read) -> Nat]
      BY <1>5 DEF Parts
    <2> QED
      BY <1>6, <2>1, <2>2
  <1>8. PICK main : main = IF part.mainAt[v] = 0 THEN i ELSE part.mainAt[v]
    OBVIOUS
  <1>9. main \in Nat \ {0}
    BY <1>7, <1>8
  <1>10. h = Append(s, NewSymbol(ElfSymbol(read.elf, n), i)) /\ first = part.mainAt[v]
    BY <1>1
  <1>11. /\ Joined(s, t, read.elf, k, n, ToSet(part.syms), i, v, main)
         /\ first # 0 => MayAddAlias(h, h[first].main, i)
    <2>1. CASE first = 0
      <3>1. t = Append(s, NewSymbol(ElfSymbol(read.elf, n), i)) /\ part.mainAt[v] = 0 /\ main = i
        BY <1>8, <1>10, <2>1
      <3>2. Joined(s, t, read.elf, k, n, ToSet(part.syms), i, v, i)
        BY <1>2, <1>3, <1>4, <1>6, <3>1, JoinsFirst
      <3> QED
        BY <2>1, <3>1, <3>2
    <2>2. CASE first # 0
      <3>1. t = AddAlias(h, h[part.mainAt[v]].main, i) /\ part.mainAt[v] # 0 /\ main = part.mainAt[v]
        BY <1>8, <1>10, <2>2
      <3>2. /\ Joined(s, t, read.elf, k, n, ToSet(part.syms), i, v, part.mainAt[v])
            /\ MayAddAlias(h, h[part.mainAt[v]].main, i)
        BY <1>2, <1>3, <1>4, <1>6, <1>10, <3>1, JoinsRing
      <3> QED
        BY <1>10, <3>1, <3>2
    <2> QED
      BY <2>1, <2>2
  <1>12. PICK X : X = AddPublic(part, i, v)
    OBVIOUS
  <1>13. X \in Parts(Addresses(read)) /\ HasPublic(part, X, i, v, main)
    <2>1. v \in Addresses(read) /\ main \in Nat
      BY <1>6, <1>9
    <2> QED
      BY <1>5, <1>7, <1>8, <1>12, <2>1, AddPublicIs
  <1>14. /\ PartIs(t, X, read, k, n, 0, "elf") /\ AllDeclared(t, X, k, read.dies, 0)
         /\ Mine(X) = Mine(part) \cup {i} /\ Owned(X) = Owned(part) \cup {i}
    <2>1. PublicIn(s, t, part, X, read, k, n, i)
      BY <1>2, <1>3, <1>4, <1>6, <1>9, <1>11, <1>13, JoinedPart
    <2> QED
      BY <2>1 DEF PublicIn
  <1>15. PartStep(s, t, part, X)
    <2>1. /\ Heap(t) /\ Len(t) = i /\ i = Len(s) + 1
          /\ \A j \in 1 .. Len(s) : SameSymbol(t[j], s[j])
          /\ \A j \in 1 .. Len(s) : j \notin Group(s, ToSet(part.syms), read.elf, k, v) => t[j] = s[j]
      BY <1>11 DEF Joined
    <2>2. PICK ls \in Nat : ls = Len(s)
      BY <1>2, HeapLength
    <2>3. Len(s) <= Len(t) /\ i \in 1 .. Len(t) /\ i \notin 1 .. Len(s)
      <3>1. i = ls + 1 /\ Len(t) = ls + 1 /\ ls <= ls + 1 /\ ls + 1 \in 1 .. ls + 1 /\ ls + 1 \notin 1 .. ls
        <4>1. Len(t) = i /\ i = Len(s) + 1
          BY <2>1
        <4>2. i = ls + 1 /\ Len(t) = ls + 1
          BY <2>2, <4>1
        <4>3. ls <= ls + 1 /\ ls + 1 \in 1 .. ls + 1 /\ ls + 1 \notin 1 .. ls
          BY <2>2
        <4> QED
          BY <4>2, <4>3
      <3> QED
        BY <2>2, <3>1
    <2>4. Group(s, ToSet(part.syms), read.elf, k, v) \subseteq Mine(part)
      BY DEF Group, Mine
    <2>5. Grown(s, t, Mine(part))
      BY <2>1, <2>3, <2>4 DEF Grown
    <2>6. i \in NewIn(s, t)
      BY <2>3 DEF NewIn
    <2> QED
      BY <1>14, <2>1, <2>5, <2>6 DEF PartStep
  <1>16. FilePart(w, t, X, f, k, f, "symbols", n + 1)
    <2>1. Fresh(X) /\ X.unlinked = {}
      BY <1>4, <1>13 DEF Fresh, HasPublic
    <2>2. PICK y : y = n + 1
      OBVIOUS
    <2>3. n = y - 1
      BY <1>3, <2>2
    <2>4. /\ PartIs(t, X, w.files[f], k, n, 0, "elf")
          /\ AllDeclared(t, X, k, w.files[f].dies, 0)
      BY <1>1, <1>14
    <2>5. FilePart(w, t, X, f, k, f, "symbols", y)
      BY <2>1, <2>3, <2>4, IsSymbolsPart
    <2> QED
      BY <2>2, <2>5
  <1>17. PICK l \in SymbolKinds : l # k
    BY DEF SymbolKinds
  <1>18. FilePart(w, t, c[f][l], f, l, f, "symbols", n + 1)
    <2>1. PartStep(s, t, c[f][k], X)
      BY <1>1, <1>15
    <2>2. FilePart(w, t, c[f][l], f, l, f, "symbols", n)
      BY <1>17, <2>1, OtherKind
    <2>3. KindOf(SymbolTable(w.files[f].elf)[n]) # l
      BY <1>17 DEF At
    <2>4. GoodRead(w.files[f])
      BY <1>2
    <2>5. PICK y : y = n + 1
      OBVIOUS
    <2>6. FilePart(w, t, c[f][l], f, l, f, "symbols", y)
      BY <1>3, <2>2, <2>3, <2>4, <2>5, MoreEntries
    <2> QED
      BY <2>5, <2>6
  <1>19. Early(w, t, d, f, "symbols", n + 1)
    <2>1. PartStep(s, t, c[f][k], X) /\ d = [c EXCEPT ![f][k] = X] /\ "symbols" \in Reading
      BY <1>1, <1>12, <1>15 DEF Reading
    <2> QED
      BY <1>2, <1>16, <1>17, <1>18, <2>1, OnePart
  <1> QED
    BY <1>11, <1>19

\* The same symbols, ways to find them, and rows.
SameTable(part, new) ==
    /\ new.syms = part.syms /\ new.written = part.written
    /\ new.mainAt = part.mainAt /\ new.unlinked = part.unlinked

LEMMA SameTableAddress ==
    ASSUME NEW heap, NEW part, NEW new, NEW elf, NEW k, NEW v, NEW source, SameTable(part, new),
           AddressRight(heap, part, elf, k, v, source)
    PROVE  AddressRight(heap, new, elf, k, v, source)
  <1>1. \A L, R : Retied(heap, part, L, R) => Retied(heap, new, L, R)
    BY DEF SameTable, Retied, RowsOf
  <1>2. Firsts(new, source) = Firsts(part, source) /\ new.mainAt = part.mainAt
    BY DEF SameTable, Firsts
  <1>3. \A L : RingIsRight(heap, part, elf, k, v, source, L) => RingIsRight(heap, new, elf, k, v, source, L)
    BY <1>1, <1>2 DEF RingIsRight
  <1> QED
    BY <1>2, <1>3 DEF AddressRight

LEMMA SameTablePart ==
    ASSUME NEW heap, NEW part, NEW new, NEW elf, NEW k, NEW m, NEW source, SameTable(part, new),
           PartRight(heap, part, elf, k, m, source)
    PROVE  PartRight(heap, new, elf, k, m, source)
  <1>1. new.mainAt = part.mainAt /\ new.written = part.written /\ new.syms = part.syms
        /\ Firsts(new, source) = Firsts(part, source)
    BY DEF SameTable, Firsts
  <1>2. RowsRight(heap, part) => RowsRight(heap, new)
    BY DEF RowsRight, SameTable
  <1>3. \A v \in DOMAIN new.mainAt : AddressRight(heap, new, elf, k, v, source)
    BY <1>1, SameTableAddress DEF PartRight
  <1> QED
    BY <1>1, <1>2, <1>3 DEF PartRight

LEMMA SameTableDescribes ==
    ASSUME NEW heap, NEW part, NEW new, NEW k, NEW dies, NEW decl, NEW i, SameTable(part, new)
    PROVE  Describes(heap, part, k, dies, decl, i) <=> Describes(heap, new, k, dies, decl, i)
  BY DEF SameTable, Describes

LEMMA SameTableDecl ==
    ASSUME NEW heap, NEW part, NEW new, NEW k, NEW dies, NEW d, NEW source, NEW decl,
           SameTable(part, new), DeclRight(heap, part, k, dies, d, source, decl)
    PROVE  DeclRight(heap, new, k, dies, d, source, decl)
  <1>1. new.syms = part.syms
    BY DEF SameTable
  <1>2. \E i \in 1 .. d : Describes(heap, new, k, dies, decl, i)
    BY SameTableDescribes DEF DeclRight
  <1> QED
    BY <1>1, <1>2 DEF DeclRight

\* Those and the declarations.
SameDecls(part, new) == SameTable(part, new) /\ new.decls = part.decls

LEMMA SameDeclsRight ==
    ASSUME NEW heap, NEW part, NEW new, NEW k, NEW dies, NEW d, NEW source,
           SameDecls(part, new), DeclsRight(heap, part, k, dies, d, source)
    PROVE  DeclsRight(heap, new, k, dies, d, source)
  BY SameTableDecl DEF SameDecls, DeclsRight

LEMMA SameAllDeclared ==
    ASSUME NEW heap, NEW part, NEW new, NEW k, NEW dies, NEW d,
           SameDecls(part, new), AllDeclared(heap, part, k, dies, d)
    PROVE  AllDeclared(heap, new, k, dies, d)
  BY SameTableDescribes DEF SameDecls, SameTable, AllDeclared

UndefinedIn(s, t, part, X, read, k, m) ==
    /\ PartIs(t, X, read, k, m, 0, "elf") /\ AllDeclared(t, X, k, read.dies, 0)
    /\ PartStep(s, t, part, X)
    /\ Fresh(part) => Fresh(X)
    /\ X.unlinked = part.unlinked

\* The version of an undefined symbol is the one it needs, if it is found.
LEMMA UndefinedHasName ==
    ASSUME NEW w \in Worlds, w.tool # "abisym", NEW f \in DOMAIN w.files, NEW elf, elf = w.files[f].elf,
           NEW n \in 1 .. Len(SymbolTable(elf)), ~IsDefined(SymbolTable(elf)[n])
    PROVE  UndefinedNamed(Id(ElfSymbol(elf, n)))
  <1> SUFFICES ASSUME NamesArePlain
               PROVE  IsNeededId(Id(ElfSymbol(elf, n)))
    BY DEF UndefinedNamed
  <1>1. PICK entry : entry = SymbolTable(elf)[n]
    OBVIOUS
  <1>2. entry \in ToSet(SymbolTable(elf))
    <2>1. SymbolTable(elf) \in Seq(Entries)
      BY FilesGood, TableIs
    <2> QED
      BY <1>1, <2>1, InToSet
  <1>3. IsNeededId(entry.name)
    BY <1>1, <1>2 DEF NamesArePlain, IsNeededId, IsPlain
  <1>4. PICK version : version = VersionForSymbol(elf, n, FALSE)
    OBVIOUS
  <1>5. version.name = "" \/ version.default = TRUE
    <2>1. \A versym : VersionNeeded(elf, versym) = NoVersion
                       \/ VersionNeeded(elf, versym).default = TRUE
      BY DEF VersionNeeded
    <2>2. version = NoVersion \/ \E versym : version = VersionNeeded(elf, versym)
      BY <1>4 DEF VersionForSymbol
    <2>3. NoVersion.name = ""
      BY DEF NoVersion
    <2> QED
      BY <2>1, <2>2, <2>3
  <1>6. ElfSymbol(elf, n).name = entry.name /\ ElfSymbol(elf, n).version = version
    <2>1. PICK d : d = IsDefined(entry)
      OBVIOUS
    <2>2. d = FALSE /\ version = VersionForSymbol(elf, n, d)
      BY <1>1, <1>4, <2>1 DEF IsDefined
    <2>3. PICK p, s : p = IsPublic(entry) /\ s = ElfSymbol(elf, n)
      OBVIOUS
    <2>4. s = [name |-> entry.name, kind |-> entry.kind, defined |-> d, public |-> p, version |-> version]
      BY <1>1, <2>1, <2>2, <2>3 DEF ElfSymbol
    <2> QED
      BY <2>3, <2>4
  <1>7. CASE version.name = ""
    BY <1>3, <1>6, <1>7 DEF Id, IdString
  <1>8. CASE version.name # ""
    <2>1. PICK id : id = <<entry.name[1], "@@", version.name>>
      OBVIOUS
    <2>2. Id(ElfSymbol(elf, n)) = id
      BY <1>5, <1>6, <1>8, <2>1 DEF Id, IdString
    <2>3. id[2] = "@@" /\ id[3] = version.name
      BY <2>1
    <2> QED
      BY <1>8, <2>2, <2>3 DEF IsNeededId
  <1> QED
    BY <1>7, <1>8

LEMMA UndefinedAdded ==
    ASSUME NEW read, NEW s, NEW k, NEW m, NEW part, NEW i, NEW new, NEW t, NEW X,
           GoodRead(read), Heap(s), PartIs(s, part, read, k, m, 0, "elf"), Adds(s, i, new, t),
           new.kind = k, ~new.defined, UndefinedNamed(Id(new)),
           X = [part EXCEPT !.undefined = Append(part.undefined, i)]
    PROVE  UndefinedIn(s, t, part, X, read, k, m)
  <1>1. part \in Parts(Addresses(read)) /\ DOMAIN part = {"syms", "undefined", "mainAt", "decls", "keep",
           "toSuppress", "toKeep", "unreferenced", "written", "unlinked"}
    BY DEF PartIs, Parts
  <1>2. Added(s, i, new, t)
    BY Appended
  <1>3. Len(s) \in Nat /\ Heap(t) /\ Len(t) = i /\ i \in 1 .. Len(t) /\ t[i] = new /\ i \notin 1 .. Len(s)
    BY <1>2 DEF Added
  <1>4. i \in Nat /\ Len(t) \in Nat
    BY <1>3, HeapLength
  <1>5. PICK q : q = Append(part.undefined, i)
    OBVIOUS
  <1>6. part.undefined \in Seq(Nat)
    BY <1>1 DEF Parts
  <1>7. q \in Seq(Nat) /\ ToSet(q) = ToSet(part.undefined) \cup {i}
    BY <1>4, <1>5, <1>6, AppendedSet
  <1>8. X = [part EXCEPT !.undefined = q]
    BY <1>5
  <1>9. X \in Parts(Addresses(read))
    <2>1. PICK A, B, C, M : A = Seq(Ids) /\ B = Seq(SUBSET STRING) /\ C = Seq(Nat) /\ M = [Addresses(read) -> Nat]
      OBVIOUS
    <2>2. Parts(Addresses(read)) = [syms : C, undefined : C, mainAt : M, decls : C, keep : A, toSuppress : B,
                           toKeep : B, unreferenced : SUBSET Nat, written : C, unlinked : SUBSET Nat]
      BY <2>1 DEF Parts
    <2>3. q \in C
      BY <1>7, <2>1
    <2> QED
      BY <1>1, <1>8, <2>2, <2>3
  <1>10. X.undefined = q /\ SameDecls(part, X) /\ (Fresh(part) => Fresh(X)) /\ X.unlinked = part.unlinked
         /\ Mine(X) = Mine(part) /\ Owned(X) = Owned(part)
    BY <1>1, <1>8 DEF SameDecls, SameTable, Fresh, Mine, Owned
  <1>11. Owned(part) \in SUBSET (1 .. Len(s))
    BY OwnedIn
  <1>12. Kept(s, t, Owned(part))
    BY <1>11, AppendedKept
  <1>13. PartIs(t, part, read, k, m, 0, "elf")
    BY <1>4, <1>12, KeptPartIs
  <1>14. PartRight(t, X, read.elf, k, m, "elf")
    BY <1>10, <1>13, SameTablePart DEF PartIs, SameDecls
  <1>15. DeclsRight(t, X, k, read.dies, 0, "elf") /\ AllDeclared(t, X, k, read.dies, 0)
    <2>1. DeclsRight(s, part, k, read.dies, 0, "elf")
      BY DEF PartIs
    <2>2. X.decls = part.decls
      BY <1>10 DEF SameDecls
    <2>3. PICK dies : dies = read.dies
      OBVIOUS
    <2>4. DeclsRight(s, part, k, dies, 0, "elf")
      BY <2>1, <2>3
    <2>5. DeclsRight(t, X, k, dies, 0, "elf") /\ AllDeclared(t, X, k, dies, 0)
      BY <2>2, <2>4, NoDecls
    <2> QED
      BY <2>3, <2>5
  <1>16. UndefinedRight(t, X, k)
    <2>1. UndefinedRight(t, part, k)
      BY <1>13 DEF PartIs
    <2> QED
      BY <1>3, <1>7, <1>10, <2>1 DEF UndefinedRight
  <1>17. Grown(s, t, Mine(part))
    BY AppendedGrown
  <1>18. PartStep(s, t, part, X)
    BY <1>3, <1>10, <1>17 DEF PartStep
  <1> QED
    BY <1>9, <1>10, <1>14, <1>15, <1>16, <1>18 DEF PartIs, UndefinedIn

LEMMA UndefinedLoaded ==
    ASSUME NEW w \in Worlds, w.tool # "abisym", NEW s, NEW c, NEW f, NEW n,
           Early(w, s, c, f, "symbols", n), n <= Len(SymbolTable(w.files[f].elf)),
           NEW k \in SymbolKinds, KindOf(SymbolTable(w.files[f].elf)[n]) = k,
           ~IsDefined(SymbolTable(w.files[f].elf)[n]),
           NEW i, i = Len(s) + 1, NEW t, t = Append(s, NewSymbol(ElfSymbol(w.files[f].elf, n), i)),
           NEW d, d = [c EXCEPT ![f][k] = [c[f][k] EXCEPT !.undefined = Append(c[f][k].undefined, i)]]
    PROVE  Early(w, t, d, f, "symbols", n + 1)
  <1>1. PICK read, part, m : read = w.files[f] /\ part = c[f][k] /\ m = n - 1
    OBVIOUS
  <1>2. /\ PhaseRight(w, f, "symbols", n + 1) /\ n \in 1 .. Len(SymbolTable(w.files[f].elf))
        /\ n - 1 \in Nat /\ n = (n - 1) + 1 /\ GoodRead(w.files[f]) /\ f \in DOMAIN w.files
        /\ Heap(s) /\ CorporaIn(w, c)
        /\ \A j \in SymbolKinds : FilePart(w, s, c[f][j], f, j, f, "symbols", n)
    BY SymbolsPhase
  <1>3. m \in Nat /\ n = m + 1 /\ GoodRead(read) /\ n \in 1 .. Len(SymbolTable(read.elf))
    BY <1>1, <1>2
  <1>4. /\ PartIs(s, part, read, k, m, 0, "elf") /\ Fresh(part) /\ part.unlinked = {}
    <2>1. FilePart(w, s, c[f][k], f, k, f, "symbols", n)
      BY <1>2
    <2> QED
      BY <1>1, <2>1, SymbolsPart
  <1>5. PICK new : new = NewSymbol(ElfSymbol(read.elf, n), i)
    OBVIOUS
  <1>6. i \in Nat
    BY <1>2, HeapLength
  <1>7. new \in Symbols /\ new.main = i /\ new.nextAlias = 0 /\ SameSymbol(new, ElfSymbol(read.elf, n))
    BY <1>3, <1>5, <1>6, NewSymbolIs
  <1>8. Adds(s, i, new, t)
    BY <1>1, <1>5, <1>7 DEF Adds
  <1>9. new.kind = k /\ ~new.defined /\ UndefinedNamed(Id(new))
    <2>1. /\ ElfSymbol(read.elf, n).kind = SymbolTable(read.elf)[n].kind
          /\ ElfSymbol(read.elf, n).defined <=> IsDefined(SymbolTable(read.elf)[n])
      BY ElfSymbolIs
    <2>2. SymbolTable(read.elf)[n].kind = k
      BY <1>1 DEF KindOf, SymbolKinds
    <2>3. /\ new.kind = ElfSymbol(read.elf, n).kind /\ new.defined = ElfSymbol(read.elf, n).defined
          /\ Id(new) = Id(ElfSymbol(read.elf, n))
      BY <1>7 DEF SameSymbol, Id
    <2>4. UndefinedNamed(Id(ElfSymbol(read.elf, n)))
      BY <1>1, <1>2, UndefinedHasName
    <2> QED
      BY <1>1, <2>1, <2>2, <2>3, <2>4
  <1>10. PICK X : X = [part EXCEPT !.undefined = Append(part.undefined, i)]
    OBVIOUS
  <1>11. /\ PartIs(t, X, read, k, m, 0, "elf") /\ AllDeclared(t, X, k, read.dies, 0)
         /\ PartStep(s, t, part, X) /\ Fresh(X) /\ X.unlinked = {}
    <2>1. UndefinedIn(s, t, part, X, read, k, m)
      BY <1>2, <1>3, <1>4, <1>8, <1>9, <1>10, UndefinedAdded
    <2> QED
      BY <1>4, <2>1 DEF UndefinedIn
  <1>12. FilePart(w, t, X, f, k, f, "symbols", n)
    BY <1>1, <1>11, IsSymbolsPart
  <1>13. \A j \in SymbolKinds :
           ~(n \in PublicEntries(w.files[f].elf) /\ KindOf(SymbolTable(w.files[f].elf)[n]) = j)
    BY DEF PublicEntries, IsPublic
  <1>14. PICK l \in SymbolKinds : l # k
    BY DEF SymbolKinds
  <1>15. FilePart(w, t, c[f][l], f, l, f, "symbols", n)
    BY <1>1, <1>11, <1>14, OtherKind
  <1>16. PICK y : y = n + 1
    OBVIOUS
  <1>17. FilePart(w, t, X, f, k, f, "symbols", y) /\ FilePart(w, t, c[f][l], f, l, f, "symbols", y)
    BY <1>2, <1>3, <1>12, <1>13, <1>15, <1>16, MoreEntries
  <1>18. Early(w, t, d, f, "symbols", y)
    <2>1. PartStep(s, t, c[f][k], X) /\ d = [c EXCEPT ![f][k] = X] /\ "symbols" \in Reading
      BY <1>1, <1>10, <1>11 DEF Reading
    <2>2. PhaseRight(w, f, "symbols", y)
      BY <1>2, <1>16
    <2> QED
      BY <1>14, <1>17, <2>1, <2>2, OnePart
  <1> QED
    BY <1>16, <1>18

-----------------------------------------------------------------------------
(* Declarations, read from debug information or from XML                    *)

\* The part of a file whose symbols are known, after e descriptions.
ReadTo(t, part, read, k, e, source) ==
    /\ PartIs(t, part, read, k, Len(SymbolTable(read.elf)), e, source)
    /\ AllDeclared(t, part, k, read.dies, e)
    /\ Fresh(part) /\ part.unlinked = {}

SourceIn(p) == IF p = "dies" THEN "elf" ELSE "xml"

LEMMA DiesPart ==
    ASSUME NEW w, NEW t, NEW part, NEW f, NEW l, NEW n, NEW e, NEW p \in {"dies", "decls"},
           NEW source, source = SourceIn(p), e = n - 1, p = "decls" => w.files[f].xml
    PROVE  FilePart(w, t, part, f, l, f, p, n) <=> ReadTo(t, part, w.files[f], l, e, source)
  <1>1. /\ EntriesRead(w, f, f, p, n) = Len(SymbolTable(w.files[f].elf))
        /\ DiesRead(w, f, f, p, n) = e /\ Source(w, f, f, p) = source
    <2>1. CASE p = "dies"
      BY <2>1, NumbersOf DEF SourceIn
    <2>2. CASE p = "decls"
      BY <2>2, NumbersOf DEF SourceIn
    <2> QED
      BY <2>1, <2>2
  <1>2. p # "aliases"
    OBVIOUS
  <1> QED
    BY <1>1, <1>2 DEF FilePart, ReadTo

LEMMA DeclWider ==
    ASSUME NEW t, NEW part, NEW k, NEW dies, NEW e \in Nat, NEW n, n = e + 1, NEW source, NEW decl,
           DeclRight(t, part, k, dies, e, source, decl)
    PROVE  DeclRight(t, part, k, dies, n, source, decl)
  <1>1. \A j \in 1 .. e : j \in 1 .. n
    OBVIOUS
  <1>2. \E j \in 1 .. n : Describes(t, part, k, dies, decl, j)
    BY <1>1 DEF DeclRight
  <1> QED
    BY <1>2 DEF DeclRight

LEMMA MoreDies ==
    ASSUME NEW t, NEW part, NEW read, NEW k, NEW e \in Nat, NEW n, n = e + 1, NEW source,
           ReadTo(t, part, read, k, e, source),
           ~(read.dies[n].kind = k /\ part.mainAt[read.dies[n].address] # 0)
    PROVE  ReadTo(t, part, read, k, n, source)
  <1>1. PICK dies : dies = read.dies
    OBVIOUS
  <1>2. DeclsRight(t, part, k, dies, e, source) /\ AllDeclared(t, part, k, dies, e)
    BY <1>1 DEF ReadTo, PartIs
  <1>3. DeclsRight(t, part, k, dies, n, source)
    BY <1>2, DeclWider DEF DeclsRight
  <1>4. AllDeclared(t, part, k, dies, n)
    <2>1. \A i \in 1 .. n : i \in 1 .. e \/ i = n
      OBVIOUS
    <2> QED
      BY <1>1, <1>2, <2>1 DEF AllDeclared
  <1> QED
    BY <1>1, <1>3, <1>4 DEF ReadTo, PartIs

\* What has a description is a public symbol.
LEMMA DescribedIs ==
    ASSUME NEW t, NEW part, NEW read, NEW k, NEW m, NEW d, NEW source, NEW x, NEW i,
           Heap(t), GoodRead(read), PartIs(t, part, read, k, m, d, source),
           Describes(t, part, k, read.dies, x, i)
    PROVE  \E e \in PublicEntries(read.elf) : Is(t, x, read.elf, e)
  <1>1. part \in Parts(Addresses(read)) /\ PartRight(t, part, read.elf, k, m, source)
    BY DEF PartIs
  <1>2. PICK v : v = read.dies[i].address
    OBVIOUS
  <1>3. v \in DOMAIN part.mainAt
    <2>1. i \in 1 .. Len(read.dies)
      BY DEF Describes
    <2> QED
      BY <1>1, <1>2, <2>1, AddressesKnown
  <1>4. part.mainAt[v] # 0 /\ SameSymbol(t[x], t[part.mainAt[v]])
    BY <1>2 DEF Describes
  <1>5. PICK e \in Loaded(read.elf, k, m) : Is(t, part.mainAt[v], read.elf, e)
    BY <1>1, <1>3, <1>4, MainIs
  <1>6. e \in PublicEntries(read.elf)
    BY DEF Loaded
  <1>7. Is(t, x, read.elf, e)
    BY <1>4, <1>5 DEF Is, SameSymbol
  <1> QED
    BY <1>6, <1>7

\* One more declaration.
DeclIn(t, part, X, read, k, n, source, i) ==
    /\ ReadTo(t, X, read, k, n, source)
    /\ Mine(X) = Mine(part) /\ Owned(X) \subseteq Owned(part) \cup {i}

DeclToAdd(t, part, k, dies, n, source, i) ==
    /\ i \in 1 .. Len(t)
    /\ Describes(t, part, k, dies, i, n)
    /\ source = "xml" => i \in ToSet(part.syms)
    /\ source # "xml" => Alone(t, i) /\ i \notin ToSet(part.syms)

LEMMA DeclPublic ==
    ASSUME NEW t, NEW elf, NEW e \in PublicEntries(elf), NEW i, Is(t, i, elf, e)
    PROVE  t[i].public
  <1>1. ElfSymbol(elf, e).public <=> IsPublic(SymbolTable(elf)[e])
    BY ElfSymbolIs
  <1>2. IsPublic(SymbolTable(elf)[e])
    BY DEF PublicEntries
  <1>3. t[i].public = ElfSymbol(elf, e).public
    BY DEF Is, SameSymbol
  <1> QED
    BY <1>1, <1>2, <1>3

LEMMA KeepFresh ==
    ASSUME NEW s, NEW part, Fresh(part)
    PROVE  Keep(s, part)
  <1>1. ToSet(part.toSuppress) = {}
    BY DEF Fresh, ToSet
  <1> QED
    BY <1>1 DEF Fresh, Keep, KeepWrtId, KeepWrtSuppress, KeepWrtKeep

LEMMA DeclAppended ==
    ASSUME NEW t, NEW part, NEW read, NEW k, NEW e \in Nat, NEW n, NEW source, NEW i, NEW X,
           n = e + 1, Heap(t), GoodRead(read), ReadTo(t, part, read, k, e, source),
           DeclToAdd(t, part, k, read.dies, n, source, i),
           \A x \in ToSet(part.decls) : DeclId(t, x) # DeclId(t, i),
           X = [part EXCEPT !.decls = Append(part.decls, i)]
    PROVE  DeclIn(t, part, X, read, k, n, source, i)
  <1>1. PICK dies : dies = read.dies
    OBVIOUS
  <1>2. /\ part \in Parts(Addresses(read)) /\ PartRight(t, part, read.elf, k, Len(SymbolTable(read.elf)), source)
        /\ DeclsRight(t, part, k, dies, e, source) /\ AllDeclared(t, part, k, dies, e)
        /\ UndefinedRight(t, part, k) /\ Fresh(part) /\ part.unlinked = {}
    BY <1>1 DEF ReadTo, PartIs
  <1>3. DOMAIN part = {"syms", "undefined", "mainAt", "decls", "keep", "toSuppress", "toKeep",
                       "unreferenced", "written", "unlinked"} /\ part.decls \in Seq(Nat)
    BY <1>2 DEF Parts
  <1>4. PICK q : q = Append(part.decls, i)
    OBVIOUS
  <1>5. PICK lt \in Nat : lt = Len(t) /\ i \in 1 .. lt /\ i \in Nat
    BY HeapLength DEF DeclToAdd
  <1>6. q \in Seq(Nat) /\ ToSet(q) = ToSet(part.decls) \cup {i}
    BY <1>3, <1>4, <1>5, AppendedSet
  <1>7. PICK m \in Nat : m = Len(part.decls) /\ DOMAIN part.decls = 1 .. m
    BY <1>3, LenProperties
  <1>8. /\ Len(q) = m + 1 /\ q[m + 1] = i /\ m + 1 \in 1 .. m + 1
        /\ \A j \in 1 .. m : q[j] = part.decls[j] /\ j \in 1 .. m + 1
    <2>1. Len(q) = m + 1 /\ q[m + 1] = i /\ \A j \in 1 .. m : q[j] = part.decls[j]
      BY <1>3, <1>4, <1>7
    <2>2. m + 1 \in 1 .. m + 1 /\ \A j \in 1 .. m : j \in 1 .. m + 1
      BY <1>7
    <2> QED
      BY <2>1, <2>2
  <1>9. \A j \in 1 .. m + 1 : j \in 1 .. m \/ j = m + 1
    BY <1>7
  <1>10. X = [part EXCEPT !.decls = q]
    BY <1>4
  <1>11. X \in Parts(Addresses(read))
    <2>1. PICK A, B, C, M : A = Seq(Ids) /\ B = Seq(SUBSET STRING) /\ C = Seq(Nat) /\ M = [Addresses(read) -> Nat]
      OBVIOUS
    <2>2. Parts(Addresses(read)) = [syms : C, undefined : C, mainAt : M, decls : C, keep : A, toSuppress : B,
                           toKeep : B, unreferenced : SUBSET Nat, written : C, unlinked : SUBSET Nat]
      BY <2>1 DEF Parts
    <2>3. q \in C
      BY <1>6, <2>1
    <2>4. part \in Parts(Addresses(read))
      BY <1>2
    <2> QED
      BY <1>10, <2>2, <2>3, <2>4
  <1>12. X.decls = q /\ SameTable(part, X) /\ Fresh(X) /\ X.unlinked = {} /\ X.undefined = part.undefined
    BY <1>2, <1>3, <1>10 DEF SameTable, Fresh
  <1>13. Mine(X) = Mine(part) /\ Owned(X) = Owned(part) \cup {i}
    BY <1>6, <1>12 DEF Mine, Owned, SameTable
  <1>14. PartRight(t, X, read.elf, k, Len(SymbolTable(read.elf)), source)
    BY <1>2, <1>12, SameTablePart
  <1>15. UndefinedRight(t, X, k)
    BY <1>2, <1>12 DEF UndefinedRight
  <1>16. Describes(t, part, k, dies, i, n)
    BY <1>1 DEF DeclToAdd
  <1>17. DeclRight(t, part, k, dies, n, source, i)
    <2>1. n \in 1 .. n
      OBVIOUS
    <2>2. \E j \in 1 .. n : Describes(t, part, k, dies, i, j)
      BY <1>16, <2>1
    <2> QED
      BY <2>2 DEF DeclToAdd, DeclRight
  <1>18. \A x \in 1 .. m : DeclRight(t, part, k, dies, n, source, part.decls[x])
    <2> TAKE x \in 1 .. m
    <2>1. DeclRight(t, part, k, dies, e, source, part.decls[x])
      BY <1>2, <1>7 DEF DeclsRight
    <2> QED
      BY <2>1, DeclWider
  <1>19. \A x \in 1 .. m + 1 : DeclRight(t, X, k, dies, n, source, q[x])
    <2> TAKE x \in 1 .. m + 1
    <2>1. DeclRight(t, part, k, dies, n, source, q[x])
      <3>1. CASE x \in 1 .. m
        BY <1>8, <1>18, <3>1
      <3>2. CASE x = m + 1
        BY <1>8, <1>17, <3>2
      <3> QED
        BY <1>9, <3>1, <3>2
    <2> QED
      BY <1>12, <2>1, SameTableDecl
  <1>20. \A x \in 1 .. m : part.decls[x] \in ToSet(part.decls)
    BY <1>7 DEF ToSet
  <1>21. \A x, y \in 1 .. m + 1 : DeclId(t, q[x]) = DeclId(t, q[y]) => x = y
    <2> TAKE x, y \in 1 .. m + 1
    <2>1. CASE x \in 1 .. m /\ y \in 1 .. m
      <3>1. DeclId(t, part.decls[x]) = DeclId(t, part.decls[y]) => x = y
        BY <1>2, <1>7, <2>1 DEF DeclsRight
      <3> QED
        BY <1>8, <2>1, <3>1
    <2>2. CASE x \in 1 .. m /\ y = m + 1
      BY <1>8, <1>20, <2>2
    <2>3. CASE x = m + 1 /\ y \in 1 .. m
      BY <1>8, <1>20, <2>3
    <2> QED
      BY <1>9, <2>1, <2>2, <2>3
  <1>22. DeclsRight(t, X, k, dies, n, source)
    <2>1. X.decls = q /\ Len(q) = m + 1
      BY <1>8, <1>12
    <2>2. PICK z : z = m + 1
      OBVIOUS
    <2>3. Len(X.decls) = z
      BY <2>1, <2>2
    <2>4. \A x \in 1 .. z : DeclRight(t, X, k, dies, n, source, q[x])
      BY <1>19, <2>2
    <2>5. \A x, y \in 1 .. z : DeclId(t, q[x]) = DeclId(t, q[y]) => x = y
      BY <1>21, <2>2
    <2> QED
      BY <2>1, <2>3, <2>4, <2>5 DEF DeclsRight
  <1>23. AllDeclared(t, X, k, dies, n)
    <2> SUFFICES ASSUME NEW j \in 1 .. n, dies[j].kind = k, X.mainAt[dies[j].address] # 0
                 PROVE  \E x \in 1 .. m + 1 : Describes(t, X, k, dies, q[x], j)
      BY <1>8, <1>12 DEF AllDeclared
    <2>1. CASE j = n
      <3>1. Describes(t, X, k, dies, q[m + 1], j)
        BY <1>8, <1>12, <1>16, <2>1, SameTableDescribes
      <3> QED
        BY <1>8, <3>1
    <2>2. CASE j # n
      <3>1. j \in 1 .. e
        BY <2>2
      <3>2. part.mainAt[dies[j].address] # 0
        BY <1>12 DEF SameTable
      <3>3. PICK x \in 1 .. m : Describes(t, part, k, dies, part.decls[x], j)
        BY <1>2, <1>7, <3>1, <3>2 DEF AllDeclared
      <3>4. Describes(t, X, k, dies, q[x], j)
        BY <1>8, <1>12, <3>3, SameTableDescribes
      <3> QED
        BY <1>8, <3>4
    <2> QED
      BY <2>1, <2>2
  <1> QED
    BY <1>1, <1>11, <1>12, <1>13, <1>14, <1>15, <1>22, <1>23 DEF DeclIn, ReadTo, PartIs

LEMMA DeclThere ==
    ASSUME NEW t, NEW part, NEW read, NEW k, NEW e \in Nat, NEW n, NEW source, NEW i,
           n = e + 1, Heap(t), GoodRead(read), ReadTo(t, part, read, k, e, source),
           DeclToAdd(t, part, k, read.dies, n, source, i),
           NEW x \in ToSet(part.decls), DeclId(t, x) = DeclId(t, i)
    PROVE  DeclIn(t, part, part, read, k, n, source, i)
  <1>1. PICK dies : dies = read.dies
    OBVIOUS
  <1>2. /\ PartIs(t, part, read, k, Len(SymbolTable(read.elf)), e, source)
        /\ part.decls \in Seq(Nat)
        /\ DeclsRight(t, part, k, dies, e, source) /\ AllDeclared(t, part, k, dies, e)
    BY <1>1 DEF ReadTo, PartIs, Parts
  <1>3. PICK y \in 1 .. Len(part.decls) : x = part.decls[y]
    BY <1>2, LenProperties DEF ToSet
  <1>4. PICK j \in 1 .. e : Describes(t, part, k, dies, x, j)
    BY <1>2, <1>3 DEF DeclsRight, DeclRight
  <1>5. Describes(t, part, k, dies, i, n)
    BY <1>1 DEF DeclToAdd
  <1>6. PICK a \in PublicEntries(read.elf) : Is(t, x, read.elf, a)
    BY <1>1, <1>2, <1>4, DescribedIs
  <1>7. PICK b \in PublicEntries(read.elf) : Is(t, i, read.elf, b)
    BY <1>1, <1>2, <1>5, DescribedIs
  <1>8. SameSymbol(t[x], t[i])
    BY <1>6, <1>7, SameEntry DEF Is, DeclId
  <1>9. Describes(t, part, k, dies, x, n)
    BY <1>5, <1>8 DEF Describes, SameSymbol
  <1>10. AllDeclared(t, part, k, dies, n)
    <2>1. \A z \in 1 .. n : z \in 1 .. e \/ z = n
      OBVIOUS
    <2> QED
      BY <1>2, <1>3, <1>9, <2>1 DEF AllDeclared
  <1>11. DeclsRight(t, part, k, dies, n, source)
    BY <1>2, DeclWider DEF DeclsRight
  <1> QED
    BY <1>1, <1>2, <1>10, <1>11 DEF DeclIn, ReadTo, PartIs

LEMMA DeclMaybeAdded ==
    ASSUME NEW t, NEW part, NEW read, NEW k, NEW e \in Nat, NEW n, NEW source, NEW i, NEW X,
           n = e + 1, Heap(t), GoodRead(read), ReadTo(t, part, read, k, e, source),
           DeclToAdd(t, part, k, read.dies, n, source, i), X = MaybeAdd(t, part, i)
    PROVE  DeclIn(t, part, X, read, k, n, source, i)
  <1>1. t[i].public
    <2>1. PartIs(t, part, read, k, Len(SymbolTable(read.elf)), e, source)
      BY DEF ReadTo
    <2>2. Describes(t, part, k, read.dies, i, n)
      BY DEF DeclToAdd
    <2>3. PICK a \in PublicEntries(read.elf) : Is(t, i, read.elf, a)
      BY <2>1, <2>2, DescribedIs
    <2> QED
      BY <2>3, DeclPublic
  <1>2. Keep(t[i], part)
    BY KeepFresh DEF ReadTo
  <1>3. CASE \E x \in ToSet(part.decls) : DeclId(t, x) = DeclId(t, i)
    <2>1. X = part
      BY <1>3 DEF MaybeAdd, MayAdd
    <2>2. PICK x \in ToSet(part.decls) : DeclId(t, x) = DeclId(t, i)
      BY <1>3
    <2>3. DeclIn(t, part, part, read, k, n, source, i)
      BY <2>2, DeclThere
    <2> QED
      BY <2>1, <2>3
  <1>4. CASE \A x \in ToSet(part.decls) : DeclId(t, x) # DeclId(t, i)
    <2>1. X = [part EXCEPT !.decls = Append(part.decls, i)]
      BY <1>1, <1>2, <1>4 DEF MaybeAdd, MayAdd
    <2> QED
      BY <1>4, <2>1, DeclAppended
  <1> QED
    BY <1>3, <1>4

\* Nothing but the phase changes.
LEMMA OnlyPhase ==
    ASSUME NEW w \in Worlds, w.tool # "abisym", NEW s, NEW c, NEW f, NEW p, NEW n,
           Early(w, s, c, f, p, n), NEW q \in Reading, NEW m, PhaseRight(w, f, q, m),
           \A k \in SymbolKinds : FilePart(w, s, c[f][k], f, k, f, q, m)
    PROVE  Early(w, s, c, f, q, m)
  <1>1. Heap(s) /\ CorporaIn(w, c) /\ f \in DOMAIN w.files /\ PartsApart(w, c)
    BY DEF Early, PhaseRight
  <1>2. Grown(s, s, MineOf(c, f))
    <2>1. Len(s) \in Nat
      BY <1>1, HeapLength
    <2> QED
      BY <2>1 DEF Grown, SameSymbol
  <1>3. Apart(c[f]["fun"], c[f]["var"]) /\ Apart(c[f]["var"], c[f]["fun"])
    <2>1. "fun" \in SymbolKinds /\ "var" \in SymbolKinds /\ "fun" # "var"
      BY DEF SymbolKinds
    <2>2. <<f, "fun">> # <<f, "var">> /\ <<f, "var">> # <<f, "fun">>
      BY <2>1
    <2> QED
      BY <1>1, <2>1, <2>2 DEF PartsApart
  <1>4. StepOf(w, s, c, s, c, f)
    BY <1>1, <1>2, <1>3 DEF StepOf
  <1> QED
    BY <1>4, StepWithin

\* Early in one of the two phases that read descriptions.
DiesAt(w, s, c, f, p, n, source) ==
    /\ PhaseRight(w, f, p, n + 1) /\ n \in 1 .. Len(w.files[f].dies)
    /\ w.files[f].dies[n].kind \in SymbolKinds
    /\ n - 1 \in Nat /\ n = (n - 1) + 1 /\ n = (n + 1) - 1
    /\ GoodRead(w.files[f]) /\ f \in DOMAIN w.files
    /\ Heap(s) /\ CorporaIn(w, c) /\ (p = "decls" => w.files[f].xml)
    /\ \A k \in SymbolKinds : ReadTo(s, c[f][k], w.files[f], k, n - 1, source)
    /\ p \in Reading

LEMMA DiesPhase ==
    ASSUME NEW w \in Worlds, w.tool # "abisym", NEW s, NEW c, NEW f, NEW n,
           NEW p \in {"dies", "decls"}, NEW source, source = SourceIn(p),
           Early(w, s, c, f, p, n), n <= Len(w.files[f].dies)
    PROVE  DiesAt(w, s, c, f, p, n, source)
  <1>1. /\ f \in DOMAIN w.files /\ n \in Nat \ {0} /\ PhaseRight(w, f, p, n)
        /\ Heap(s) /\ CorporaIn(w, c) /\ (p = "decls" => w.files[f].xml)
    BY DEF Early, PhaseRight
  <1>2. GoodRead(w.files[f])
    BY <1>1, FilesGood
  <1>3. PICK m \in Nat : m = Len(w.files[f].dies)
    BY <1>2, TableIs
  <1>4. n \in 1 .. m /\ n + 1 \in Nat \ {0} /\ n + 1 <= m + 1 /\ n - 1 \in Nat /\ n = (n - 1) + 1
        /\ n = (n + 1) - 1
    BY <1>1, <1>3
  <1>5. PhaseRight(w, f, p, n + 1)
    BY <1>1, <1>3, <1>4 DEF PhaseRight
  <1>6. ASSUME NEW k \in SymbolKinds
        PROVE  ReadTo(s, c[f][k], w.files[f], k, n - 1, source)
    <2>1. FilePart(w, s, c[f][k], f, k, f, p, n)
      BY <1>1 DEF Early
    <2>2. PICK e : e = n - 1
      OBVIOUS
    <2>3. ReadTo(s, c[f][k], w.files[f], k, e, source)
      BY <1>1, <2>1, <2>2, DiesPart
    <2> QED
      BY <2>2, <2>3
  <1>7. w.files[f].dies[n].kind \in SymbolKinds
    <2>1. w.files[f].dies[n] \in [kind : SymbolKinds, address : Nat]
      BY <1>2, <1>3, <1>4, TableIs
    <2> QED
      BY <2>1
  <1>8. p \in Reading
    BY DEF Reading
  <1> QED
    BY <1>1, <1>2, <1>3, <1>4, <1>5, <1>6, <1>7, <1>8 DEF DiesAt

\* A description of an address without public symbol.
LEMMA DieSkipped ==
    ASSUME NEW w \in Worlds, w.tool # "abisym", NEW s, NEW c, NEW f, NEW n,
           NEW p \in {"dies", "decls"},
           Early(w, s, c, f, p, n), n <= Len(w.files[f].dies),
           c[f][w.files[f].dies[n].kind].mainAt[w.files[f].dies[n].address] = 0
    PROVE  Early(w, s, c, f, p, n + 1)
  <1>1. PICK source : source = SourceIn(p)
    OBVIOUS
  <1>2. /\ PhaseRight(w, f, p, n + 1) /\ n - 1 \in Nat /\ n = (n - 1) + 1 /\ n = (n + 1) - 1
        /\ (p = "decls" => w.files[f].xml) /\ p \in Reading
        /\ \A k \in SymbolKinds : ReadTo(s, c[f][k], w.files[f], k, n - 1, source)
    <2>1. DiesAt(w, s, c, f, p, n, source)
      BY <1>1, DiesPhase
    <2> QED
      BY <2>1 DEF DiesAt
  <1>3. PICK read, e, y : read = w.files[f] /\ e = n - 1 /\ y = n + 1
    OBVIOUS
  <1>4. e \in Nat /\ n = e + 1 /\ n = y - 1 /\ PhaseRight(w, f, p, y)
    BY <1>2, <1>3
  <1>5. ASSUME NEW k \in SymbolKinds
        PROVE  FilePart(w, s, c[f][k], f, k, f, p, y)
    <2>1. ReadTo(s, c[f][k], read, k, e, source)
      BY <1>2, <1>3
    <2>2. ~(read.dies[n].kind = k /\ c[f][k].mainAt[read.dies[n].address] # 0)
      BY <1>3
    <2>3. ReadTo(s, c[f][k], read, k, n, source)
      BY <1>4, <2>1, <2>2, MoreDies
    <2>4. ReadTo(s, c[f][k], w.files[f], k, n, source)
      BY <1>3, <2>3
    <2> QED
      BY <1>1, <1>2, <1>4, <2>4, DiesPart
  <1>6. Early(w, s, c, f, p, y)
    BY <1>2, <1>4, <1>5, OnlyPhase
  <1> QED
    BY <1>3, <1>6

\* A description with one: the declaration has the symbol i.
LEMMA DieRead ==
    ASSUME NEW w \in Worlds, w.tool # "abisym", NEW s, NEW c, NEW f, NEW n,
           NEW p \in {"dies", "decls"}, NEW source, source = SourceIn(p),
           Early(w, s, c, f, p, n), n <= Len(w.files[f].dies),
           NEW k, k = w.files[f].dies[n].kind, NEW t, NEW i, Heap(t),
           Kept(s, t, 1 .. Len(s)), i \in Owned(c[f][k]) \cup NewIn(s, t),
           DeclToAdd(t, c[f][k], k, w.files[f].dies, n, source, i),
           NEW d, d = [c EXCEPT ![f][k] = MaybeAdd(t, c[f][k], i)]
    PROVE  Early(w, t, d, f, p, n + 1)
  <1>1. /\ PhaseRight(w, f, p, n + 1) /\ n - 1 \in Nat /\ n = (n - 1) + 1 /\ n = (n + 1) - 1
        /\ (p = "decls" => w.files[f].xml) /\ p \in Reading /\ k \in SymbolKinds
        /\ \A j \in SymbolKinds : ReadTo(s, c[f][j], w.files[f], j, n - 1, source)
        /\ Heap(s) /\ GoodRead(w.files[f])
    <2>1. DiesAt(w, s, c, f, p, n, source)
      BY DiesPhase
    <2> QED
      BY <2>1 DEF DiesAt
  <1>2. PICK read, part, e, y : read = w.files[f] /\ part = c[f][k] /\ e = n - 1 /\ y = n + 1
    OBVIOUS
  <1>3. e \in Nat /\ n = e + 1 /\ n = y - 1 /\ PhaseRight(w, f, p, y) /\ GoodRead(read)
    BY <1>1, <1>2
  <1>4. ASSUME NEW j \in SymbolKinds
        PROVE  ReadTo(t, c[f][j], read, j, e, source)
    <2>1. ReadTo(s, c[f][j], read, j, e, source)
      BY <1>1, <1>2
    <2>2. PartIs(s, c[f][j], read, j, Len(SymbolTable(read.elf)), e, source)
      BY <2>1 DEF ReadTo
    <2>3. Owned(c[f][j]) \subseteq 1 .. Len(s)
      BY <1>1, <2>2, OwnedIn
    <2>4. Kept(s, t, Owned(c[f][j]))
      BY <2>3, KeptLess
    <2>5. Len(t) \in Nat
      BY HeapLength
    <2>6. /\ PartIs(t, c[f][j], read, j, Len(SymbolTable(read.elf)), e, source)
          /\ AllDeclared(s, c[f][j], j, read.dies, e) => AllDeclared(t, c[f][j], j, read.dies, e)
      BY <1>1, <1>3, <2>2, <2>4, <2>5, KeptPartIs
    <2> QED
      BY <2>1, <2>6 DEF ReadTo
  <1>5. PICK X : X = MaybeAdd(t, part, i)
    OBVIOUS
  <1>6. DeclIn(t, part, X, read, k, n, source, i)
    <2>1. ReadTo(t, part, read, k, e, source)
      BY <1>1, <1>2, <1>4
    <2>2. DeclToAdd(t, part, k, read.dies, n, source, i)
      BY <1>2
    <2> QED
      BY <1>3, <1>5, <2>1, <2>2, DeclMaybeAdded
  <1>7. FilePart(w, t, X, f, k, f, p, y)
    <2>1. ReadTo(t, X, w.files[f], k, n, source)
      BY <1>2, <1>6 DEF DeclIn
    <2> QED
      BY <1>1, <1>3, <2>1, DiesPart
  <1>8. PICK l \in SymbolKinds : l # k
    BY DEF SymbolKinds
  <1>9. FilePart(w, t, c[f][l], f, l, f, p, y)
    <2>1. ReadTo(t, c[f][l], read, l, e, source)
      BY <1>4
    <2>2. ~(read.dies[n].kind = l /\ c[f][l].mainAt[read.dies[n].address] # 0)
      BY <1>2, <1>8
    <2>3. ReadTo(t, c[f][l], read, l, n, source)
      BY <1>3, <2>1, <2>2, MoreDies
    <2>4. ReadTo(t, c[f][l], w.files[f], l, n, source)
      BY <1>2, <2>3
    <2> QED
      BY <1>1, <1>3, <2>4, DiesPart
  <1>10. PartStep(s, t, part, X)
    <2>1. Mine(X) = Mine(part) /\ Owned(X) \subseteq Owned(part) \cup {i}
      BY <1>6 DEF DeclIn
    <2>2. Grown(s, t, Mine(part))
      BY DEF Kept, Grown
    <2>3. i \in Owned(part) \cup NewIn(s, t)
      BY <1>2
    <2> QED
      BY <2>1, <2>2, <2>3 DEF PartStep
  <1>11. Early(w, t, d, f, p, y)
    <2>1. PartStep(s, t, c[f][k], X) /\ d = [c EXCEPT ![f][k] = X]
      BY <1>2, <1>5, <1>10
    <2> QED
      BY <1>1, <1>3, <1>7, <1>8, <1>9, <2>1, OnePart
  <1> QED
    BY <1>2, <1>11

LEMMA KeptSelf ==
    ASSUME NEW s, Heap(s)
    PROVE  Kept(s, s, 1 .. Len(s))
  <1>1. Len(s) \in Nat
    BY HeapLength
  <1>2. Len(s) <= Len(s)
    BY <1>1
  <1> QED
    BY <1>2 DEF Kept, SameSymbol

LEMMA NextNumber ==
    ASSUME NEW s, Heap(s), NEW i, i = Len(s) + 1
    PROVE  i \in Nat
  BY HeapLength

LEMMA MainKnown ==
    ASSUME NEW read, NEW s, NEW part, NEW k, NEW e, NEW source, NEW n, NEW main,
           GoodRead(read), Heap(s), ReadTo(s, part, read, k, e, source),
           n \in 1 .. Len(read.dies), main = part.mainAt[read.dies[n].address], main # 0
    PROVE  /\ main \in Firsts(part, source) /\ main \in 1 .. Len(s)
           /\ \E a \in PublicEntries(read.elf) : Is(s, main, read.elf, a)
  <1>1. /\ part \in Parts(Addresses(read))
        /\ PartRight(s, part, read.elf, k, Len(SymbolTable(read.elf)), source)
    BY DEF ReadTo, PartIs
  <1>2. PICK v : v = read.dies[n].address
    OBVIOUS
  <1>3. v \in DOMAIN part.mainAt /\ part.mainAt[v] # 0 /\ main = part.mainAt[v]
    BY <1>1, <1>2, AddressesKnown
  <1>4. PICK m : m = Len(SymbolTable(read.elf))
    OBVIOUS
  <1>5. PartRight(s, part, read.elf, k, m, source)
    BY <1>1, <1>4
  <1>6. /\ part.mainAt[v] \in Firsts(part, source)
        /\ part.mainAt[v] \in 1 .. Len(s)
        /\ \E a \in Loaded(read.elf, k, m) : Is(s, part.mainAt[v], read.elf, a)
    BY <1>3, <1>5, MainIs
  <1>7. \A a \in Loaded(read.elf, k, m) : a \in PublicEntries(read.elf)
    BY DEF Loaded
  <1> QED
    BY <1>3, <1>6, <1>7

LEMMA ElfDie ==
    ASSUME NEW w \in Worlds, w.tool # "abisym", NEW s, NEW c, NEW f, NEW n,
           Early(w, s, c, f, "dies", n), n <= Len(w.files[f].dies),
           NEW k, k = w.files[f].dies[n].kind,
           NEW main, main = c[f][k].mainAt[w.files[f].dies[n].address], main # 0,
           NEW i, i = Len(s) + 1, NEW t, t = Append(s, Copy(s[main], i)),
           NEW d, d = [c EXCEPT ![f][k] = MaybeAdd(t, c[f][k], i)]
    PROVE  Early(w, t, d, f, "dies", n + 1)
  <1>1. PICK p \in {"dies", "decls"}, source \in {"elf", "xml"} : p = "dies" /\ source = "elf" /\ source = SourceIn(p)
    BY DEF SourceIn
  <1>2. DiesAt(w, s, c, f, p, n, source)
    BY <1>1, DiesPhase
  <1>3. /\ n \in 1 .. Len(w.files[f].dies) /\ k \in SymbolKinds /\ GoodRead(w.files[f]) /\ Heap(s)
        /\ ReadTo(s, c[f][k], w.files[f], k, n - 1, source)
    BY <1>2 DEF DiesAt
  <1>4. PICK read, part, e : read = w.files[f] /\ part = c[f][k] /\ e = n - 1
    OBVIOUS
  <1>5. /\ n \in 1 .. Len(read.dies) /\ GoodRead(read) /\ ReadTo(s, part, read, k, e, source)
        /\ main = part.mainAt[read.dies[n].address] /\ k = read.dies[n].kind
    BY <1>3, <1>4
  <1>6. main \in Firsts(part, source) /\ main \in 1 .. Len(s)
    BY <1>3, <1>5, MainKnown
  <1>7. PICK new : new = Copy(s[main], i)
    OBVIOUS
  <1>8. i \in Nat
    BY <1>3, NextNumber
  <1>9. new \in Symbols /\ new.main = i /\ new.nextAlias = 0 /\ SameSymbol(new, s[main])
    <2>1. s[main] \in Symbols
      BY <1>3, <1>6, HeapLength
    <2> QED
      BY <1>7, <1>8, <2>1, CopyIs
  <1>10. Adds(s, i, new, t)
    BY <1>7, <1>9 DEF Adds
  <1>11. Added(s, i, new, t)
    BY <1>3, <1>10, Appended
  <1>12. /\ Heap(t) /\ t[i] = new /\ t[main] = s[main] /\ Alone(t, i)
         /\ i \in 1 .. Len(t) /\ i \notin 1 .. Len(s)
    BY <1>6, <1>11 DEF Added
  <1>13. ToSet(part.syms) \subseteq 1 .. Len(s)
    <2>1. PartIs(s, part, read, k, Len(SymbolTable(read.elf)), e, source)
      BY <1>5 DEF ReadTo
    <2>2. Owned(part) \in SUBSET (1 .. Len(s))
      BY <1>3, <2>1, OwnedIn
    <2> QED
      BY <2>2 DEF Owned, Mine
  <1>14. Describes(t, part, k, read.dies, i, n)
    BY <1>5, <1>9, <1>12 DEF Describes
  <1>15. DeclToAdd(t, part, k, read.dies, n, source, i)
    BY <1>1, <1>12, <1>13, <1>14 DEF DeclToAdd
  <1>16. Kept(s, t, 1 .. Len(s))
    BY <1>3, <1>10, AppendedKept
  <1>17. i \in NewIn(s, t)
    BY <1>12 DEF NewIn
  <1>18. DeclToAdd(t, c[f][k], k, w.files[f].dies, n, source, i)
    BY <1>4, <1>15
  <1>19. Early(w, t, d, f, p, n + 1)
    BY <1>1, <1>12, <1>16, <1>17, <1>18, DieRead
  <1> QED
    BY <1>1, <1>19

LEMMA XmlDecl ==
    ASSUME NEW w \in Worlds, w.tool # "abisym", NEW s, NEW c, NEW f, NEW n,
           Early(w, s, c, f, "decls", n), n <= Len(w.files[f].dies),
           NEW k, k = w.files[f].dies[n].kind,
           NEW main, main = c[f][k].mainAt[w.files[f].dies[n].address], main # 0,
           NEW i \in SymbolsOfId(s, c[f][k].syms, Id(s[main])),
           NEW d, d = [c EXCEPT ![f][k] = MaybeAdd(s, c[f][k], i)]
    PROVE  Early(w, s, d, f, "decls", n + 1)
  <1>1. PICK p \in {"dies", "decls"}, source \in {"elf", "xml"} : p = "decls" /\ source = "xml" /\ source = SourceIn(p)
    BY DEF SourceIn
  <1>2. DiesAt(w, s, c, f, p, n, source)
    BY <1>1, DiesPhase
  <1>3. /\ n \in 1 .. Len(w.files[f].dies) /\ k \in SymbolKinds /\ GoodRead(w.files[f]) /\ Heap(s)
        /\ ReadTo(s, c[f][k], w.files[f], k, n - 1, source)
    BY <1>2 DEF DiesAt
  <1>4. PICK read, part, e : read = w.files[f] /\ part = c[f][k] /\ e = n - 1
    OBVIOUS
  <1>5. /\ n \in 1 .. Len(read.dies) /\ GoodRead(read) /\ ReadTo(s, part, read, k, e, source)
        /\ main = part.mainAt[read.dies[n].address] /\ k = read.dies[n].kind
    BY <1>3, <1>4
  <1>6. \E a \in PublicEntries(read.elf) : Is(s, main, read.elf, a)
    BY <1>3, <1>5, MainKnown
  <1>7. i \in ToSet(part.syms) /\ Id(s[i]) = Id(s[main])
    BY <1>4 DEF SymbolsOfId
  <1>8. PICK m : m = Len(SymbolTable(read.elf))
    OBVIOUS
  <1>9. PartIs(s, part, read, k, m, e, source)
    BY <1>5, <1>8 DEF ReadTo
  <1>10. RowsRight(s, part) /\ SymbolsAre(s, ToSet(part.written), read.elf, Loaded(read.elf, k, m))
         /\ part.syms \in Seq(Nat) /\ part.written \in Seq(Nat)
    BY <1>1, <1>9 DEF PartIs, PartRight, Firsts, Parts
  <1>11. PICK r \in 1 .. Len(part.syms) : i = part.syms[r]
    BY <1>7, <1>10, LenProperties DEF ToSet
  <1>12. PICK j : j = part.written[r]
    OBVIOUS
  <1>13. SameSymbol(s[i], s[j]) /\ j \in ToSet(part.written)
    <2>1. r \in 1 .. Len(part.written)
      BY <1>10 DEF RowsRight
    <2> QED
      BY <1>10, <1>11, <1>12, <2>1, InToSet DEF RowsRight
  <1>14. PICK b \in PublicEntries(read.elf) : Is(s, i, read.elf, b)
    <2>1. PICK b \in Loaded(read.elf, k, m) : Is(s, j, read.elf, b)
      BY <1>10, <1>13 DEF SymbolsAre
    <2>2. b \in PublicEntries(read.elf)
      BY DEF Loaded
    <2>3. Is(s, i, read.elf, b)
      BY <1>13, <2>1 DEF Is, SameSymbol
    <2> QED
      BY <2>2, <2>3
  <1>15. PICK a \in PublicEntries(read.elf) : Is(s, main, read.elf, a)
    BY <1>6
  <1>16. SameSymbol(s[i], s[main])
    BY <1>5, <1>7, <1>14, <1>15, SameEntry DEF Is
  <1>17. i \in 1 .. Len(s)
    BY <1>7, <1>10 DEF RowsRight
  <1>18. DeclToAdd(s, part, k, read.dies, n, source, i)
    <2>1. Describes(s, part, k, read.dies, i, n)
      BY <1>5, <1>16 DEF Describes
    <2> QED
      BY <1>1, <1>7, <1>17, <2>1 DEF DeclToAdd
  <1>19. Kept(s, s, 1 .. Len(s))
    BY <1>3, KeptSelf
  <1>20. i \in Owned(c[f][k]) \cup NewIn(s, s)
    BY <1>4, <1>7 DEF Owned, Mine
  <1>21. DeclToAdd(s, c[f][k], k, w.files[f].dies, n, source, i)
    BY <1>4, <1>18
  <1>22. Early(w, s, d, f, p, n + 1)
    BY <1>1, <1>3, <1>19, <1>20, <1>21, DieRead
  <1> QED
    BY <1>1, <1>22

-----------------------------------------------------------------------------
(* Written to XML and read back                                             *)

RowsRead(s, t, part, X) ==
    /\ X.written \in Seq(Nat) /\ ToSet(X.written) = ToSet(part.syms) /\ OneEach(X.written)
    /\ X.syms \in Seq(Nat) /\ Len(X.syms) = Len(X.written) /\ OneEach(X.syms)
    /\ \A r \in 1 .. Len(X.written) :
         /\ Alone(t, X.syms[r]) /\ X.syms[r] \notin 1 .. Len(s)
         /\ SameSymbol(t[X.syms[r]], s[X.written[r]])
    /\ X.unlinked = 1 .. Len(X.written) /\ X.mainAt = part.mainAt
    /\ X.decls = <<>> /\ X.undefined = <<>>
    /\ X.keep = part.keep /\ X.toSuppress = part.toSuppress /\ X.toKeep = part.toKeep
    /\ X.unreferenced = part.unreferenced

\* The rows of a ring.
LEMMA RingRows ==
    ASSUME NEW t, NEW X, NEW L, NEW ls,
           X.written \in Seq(Nat), X.syms \in Seq(Nat), Len(X.syms) = Len(X.written),
           \A r \in 1 .. Len(X.written) : Alone(t, X.syms[r]), X.unlinked = 1 .. Len(X.written),
           L \in Seq(1 .. ls), L # <<>>, ToSet(L) \subseteq ToSet(X.written)
    PROVE  \E R : Retied(t, X, L, R)
  <1>1. PICK n \in Nat, m \in Nat : n = Len(L) /\ m = Len(X.written)
    BY LenProperties
  <1>2. DOMAIN L = 1 .. n /\ n # 0
    BY <1>1, LenProperties, EmptySeq
  <1>3. ToSet(X.written) = {X.written[r] : r \in 1 .. m}
    BY <1>1, LenProperties DEF ToSet
  <1>4. \A j \in 1 .. n : \E r \in 1 .. m : X.written[r] = L[j]
    <2> TAKE j \in 1 .. n
    <2>1. L[j] \in ToSet(L)
      BY <1>2 DEF ToSet
    <2> QED
      BY <1>3, <2>1
  <1>5. PICK R : R = [j \in 1 .. n |-> CHOOSE r \in 1 .. m : X.written[r] = L[j]]
    OBVIOUS
  <1>6. \A j \in 1 .. n : R[j] \in 1 .. m /\ X.written[R[j]] = L[j]
    BY <1>4, <1>5
  <1>7. R \in Seq(1 .. m) /\ Len(R) = n
    <2>1. R \in [1 .. n -> 1 .. m]
      BY <1>5, <1>6
    <2> QED
      BY <1>1, <2>1, SeqDef, LenProperties
  <1>8. 1 \in 1 .. n
    BY <1>1, <1>2
  <1>9. R[1] \in X.unlinked
    BY <1>1, <1>6, <1>8
  <1>10. \A j \in 1 .. n : Alone(t, X.syms[R[j]])
    BY <1>1, <1>6
  <1>11. Retied(t, X, L, R)
    BY <1>1, <1>6, <1>7, <1>9, <1>10 DEF Retied
  <1> QED
    BY <1>11

LEMMA RereadAddress ==
    ASSUME NEW s, NEW t, NEW part, NEW X, NEW elf, NEW k, NEW v, Heap(s), Heap(t),
           Firsts(part, "elf") \in SUBSET (1 .. Len(s)),
           AddressRight(s, part, elf, k, v, "elf"), RowsRead(s, t, part, X),
           Kept(s, t, 1 .. Len(s))
    PROVE  AddressRight(t, X, elf, k, v, "xml")
  <1>1. PICK S : S = ToSet(part.syms)
    OBVIOUS
  <1>2. Firsts(part, "elf") = S /\ Firsts(X, "xml") = S /\ X.mainAt = part.mainAt
    BY <1>1 DEF Firsts, RowsRead
  <1>3. S \in SUBSET (1 .. Len(s))
    BY <1>2
  <1>4. CASE part.mainAt[v] = 0
    <2>1. Group(s, S, elf, k, v) = {}
      BY <1>2, <1>4 DEF AddressRight
    <2>2. Group(t, S, elf, k, v) = Group(s, S, elf, k, v)
      BY <1>3, KeptGroup
    <2> QED
      BY <1>2, <1>4, <2>1, <2>2 DEF AddressRight
  <1>5. CASE part.mainAt[v] # 0
    <2>1. PICK L : RingIsRight(s, part, elf, k, v, "elf", L)
      BY <1>5 DEF AddressRight
    <2>2. RingAt(s, S, elf, k, v, L) /\ L[1] = part.mainAt[v]
      BY <1>2, <2>1 DEF RingIsRight
    <2>3. ToSet(L) \subseteq S /\ IsRing(s, L)
      BY <2>2 DEF RingAt, Group
    <2>4. Kept(s, t, ToSet(L))
      BY <1>3, <2>3, KeptLess
    <2>5. Len(t) \in Nat
      BY HeapLength
    <2>6. RingAt(t, S, elf, k, v, L)
      BY <1>3, <2>2, <2>4, <2>5, KeptRingAt
    <2>7. \E R : Retied(t, X, L, R)
      <3>1. L \in Seq(1 .. Len(s)) /\ L # <<>>
        BY <2>3 DEF IsRing
      <3>2. ToSet(L) \subseteq ToSet(X.written)
        BY <1>1, <2>3 DEF RowsRead
      <3>3. /\ X.written \in Seq(Nat) /\ X.syms \in Seq(Nat) /\ Len(X.syms) = Len(X.written)
            /\ \A r \in 1 .. Len(X.written) : Alone(t, X.syms[r])
            /\ X.unlinked = 1 .. Len(X.written)
        BY DEF RowsRead
      <3> QED
        BY <3>1, <3>2, <3>3, RingRows
    <2>8. RingIsRight(t, X, elf, k, v, "xml", L)
      BY <1>2, <2>2, <2>6, <2>7 DEF RingIsRight
    <2> QED
      BY <1>2, <1>5, <2>8 DEF AddressRight
  <1> QED
    BY <1>4, <1>5

RereadIn(s, t, part, X, read, k) ==
    /\ PartIs(t, X, read, k, Len(SymbolTable(read.elf)), 0, "xml")
    /\ AllDeclared(t, X, k, read.dies, 0) /\ Fresh(X)
    /\ Mine(X) \subseteq Mine(part) \cup NewIn(s, t)
    /\ Owned(X) \subseteq Owned(part) \cup NewIn(s, t)

LEMMA RereadPart ==
    ASSUME NEW read, NEW s, NEW t, NEW k, NEW e, NEW part, NEW X, GoodRead(read), Heap(s), Heap(t),
           ReadTo(s, part, read, k, e, "elf"), Kept(s, t, 1 .. Len(s)),
           RowsRead(s, t, part, X), X \in Parts(Addresses(read))
    PROVE  RereadIn(s, t, part, X, read, k)
  <1>1. PICK m : m = Len(SymbolTable(read.elf))
    OBVIOUS
  <1>2. PICK S : S = ToSet(part.syms)
    OBVIOUS
  <1>3. /\ part \in Parts(Addresses(read)) /\ PartRight(s, part, read.elf, k, m, "elf") /\ Fresh(part)
    BY <1>1 DEF ReadTo, PartIs
  <1>4. Firsts(part, "elf") = S /\ Firsts(X, "xml") = S /\ X.mainAt = part.mainAt
        /\ ToSet(X.written) = S
    BY <1>2 DEF Firsts, RowsRead
  <1>5. SymbolsAre(s, S, read.elf, Loaded(read.elf, k, m))
    BY <1>3, <1>4 DEF PartRight
  <1>6. S \in SUBSET (1 .. Len(s)) /\ Len(s) \in Nat /\ Len(t) \in Nat
    BY <1>5, HeapLength DEF SymbolsAre
  <1>7. SymbolsAre(t, S, read.elf, Loaded(read.elf, k, m))
    BY <1>5, <1>6, KeptSymbols
  <1>8. \A v \in DOMAIN X.mainAt : AddressRight(t, X, read.elf, k, v, "xml")
    <2> TAKE v \in DOMAIN X.mainAt
    <2>1. AddressRight(s, part, read.elf, k, v, "elf")
      BY <1>3, <1>4 DEF PartRight
    <2>2. Firsts(part, "elf") \in SUBSET (1 .. Len(s))
      BY <1>4, <1>6
    <2> QED
      BY <2>1, <2>2, RereadAddress
  <1>9. ToSet(X.syms) \subseteq NewIn(s, t)
    <2>1. \A r \in 1 .. Len(X.syms) : X.syms[r] \in NewIn(s, t)
      BY DEF RowsRead, NewIn, Alone
    <2> QED
      BY <2>1, LenProperties DEF ToSet, RowsRead
  <1>10. RowsRight(t, X)
    <2>1. Len(X.syms) = Len(X.written) /\ OneEach(X.syms) /\ OneEach(X.written)
      BY DEF RowsRead
    <2>2. ToSet(X.syms) \subseteq 1 .. Len(t) /\ ToSet(X.syms) \cap ToSet(X.written) = {}
      BY <1>4, <1>6, <1>9 DEF NewIn
    <2>3. \A r \in 1 .. Len(X.syms) : SameSymbol(t[X.syms[r]], t[X.written[r]])
      <3> TAKE r \in 1 .. Len(X.syms)
      <3>1. r \in 1 .. Len(X.written) /\ X.written \in Seq(Nat)
        BY <2>1 DEF RowsRead
      <3>2. X.written[r] \in S
        BY <1>4, <3>1, InToSet
      <3>3. t[X.written[r]] = s[X.written[r]]
        BY <1>6, <3>2 DEF Kept
      <3> QED
        BY <3>1, <3>3 DEF RowsRead
    <2>4. X.unlinked \subseteq 1 .. Len(X.written)
      BY DEF RowsRead
    <2> QED
      BY <2>1, <2>2, <2>3, <2>4 DEF RowsRight
  <1>11. PartRight(t, X, read.elf, k, m, "xml")
    BY <1>4, <1>7, <1>8, <1>10 DEF PartRight
  <1>12. ToSet(<<>>) = {}
    BY DEF ToSet
  <1>13. X.decls = <<>> /\ X.undefined = <<>>
    BY DEF RowsRead
  <1>14. DeclsRight(t, X, k, read.dies, 0, "xml") /\ AllDeclared(t, X, k, read.dies, 0)
    <2>1. 1 .. 0 = {} /\ Len(<<>>) = 0
      OBVIOUS
    <2> QED
      BY <1>13, <2>1 DEF DeclsRight, AllDeclared
  <1>15. UndefinedRight(t, X, k)
    BY <1>12, <1>13 DEF UndefinedRight
  <1>16. Fresh(X)
    BY <1>3 DEF Fresh, RowsRead
  <1>17. /\ Mine(X) \subseteq Mine(part) \cup NewIn(s, t)
         /\ Owned(X) \subseteq Owned(part) \cup NewIn(s, t)
    BY <1>2, <1>4, <1>9, <1>12, <1>13 DEF Mine, Owned
  <1> QED
    BY <1>1, <1>11, <1>14, <1>15, <1>16, <1>17 DEF RereadIn, PartIs

LEMMA SortedRight ==
    ASSUME NEW read, NEW s, NEW k, NEW e, NEW part, NEW Q, GoodRead(read), Heap(s),
           ReadTo(s, part, read, k, e, "elf"), Q = Sorted(s, part.syms)
    PROVE  Q \in Seq(1 .. Len(s)) /\ ToSet(Q) = ToSet(part.syms) /\ OneEach(Q)
  <1>1. PICK m : m = Len(SymbolTable(read.elf))
    OBVIOUS
  <1>2. part \in Parts(Addresses(read)) /\ PartRight(s, part, read.elf, k, m, "elf")
    BY <1>1 DEF ReadTo, PartIs
  <1>3. PICK l : l = part.syms
    OBVIOUS
  <1>4. OneEach(l) /\ SymbolsAre(s, ToSet(l), read.elf, Loaded(read.elf, k, m)) /\ l \in Seq(Nat)
    BY <1>2, <1>3 DEF PartRight, Firsts, Parts
  <1>5. l \in Seq(1 .. Len(s))
    <2>1. ToSet(l) \subseteq 1 .. Len(s)
      BY <1>4 DEF SymbolsAre
    <2>2. \A j \in 1 .. Len(l) : l[j] \in 1 .. Len(s)
      BY <1>4, <2>1, InToSet
    <2>3. Len(l) \in Nat /\ l = [j \in 1 .. Len(l) |-> l[j]]
      BY <1>4, LenProperties
    <2> QED
      BY <2>2, <2>3
  <1>6. IdsKnown(s, l)
    <2> SUFFICES ASSUME NEW i \in ToSet(l)
                 PROVE  Id(s[i]) \in ToSet(Alphabet)
      BY DEF IdsKnown
    <2>1. PICK a \in Loaded(read.elf, k, m) : Is(s, i, read.elf, a)
      BY <1>4 DEF SymbolsAre
    <2>2. Id(s[i]) = Id(ElfSymbol(read.elf, a))
      BY <2>1, SameId DEF Is
    <2>3. Id(ElfSymbol(read.elf, a)) = EntryId(read.elf, a)
      BY ElfSymbolIs
    <2>4. a \in DOMAIN SymbolTable(read.elf)
      BY DEF Loaded, PublicEntries
    <2>5. EntryId(read.elf, a) \in ToSet(Alphabet)
      BY <2>4 DEF GoodRead
    <2> QED
      BY <2>2, <2>3, <2>5
  <1>7. PICK T : T = 1 .. Len(s)
    OBVIOUS
  <1>8. l \in Seq(T)
    BY <1>5, <1>7
  <1>9. /\ Sorted(s, l) \in Seq(T)
        /\ ToSet(Sorted(s, l)) = ToSet(l)
        /\ OneEach(l) => OneEach(Sorted(s, l))
    BY <1>6, <1>8, SortedIs
  <1> QED
    BY <1>3, <1>4, <1>7, <1>9

LEMMA FunctionSeq ==
    ASSUME NEW T, NEW n \in Nat, NEW q \in [1 .. n -> T]
    PROVE  q \in Seq(T) /\ Len(q) = n
  BY SeqDef, LenProperties

\* The symbols of the rows follow each other.
PartRead(part, Q, base) ==
    [part EXCEPT !.written = Q, !.unlinked = DOMAIN Q, !.decls = <<>>,
                 !.syms = [r \in DOMAIN Q |-> base + r], !.undefined = <<>>]

RowsPlaced(s, t, Q, base, n, lt) ==
    /\ Q \in Seq(1 .. Len(s)) /\ OneEach(Q) /\ n = Len(Q) /\ lt = Len(t)
    /\ Len(s) <= base /\ base + n <= lt
    /\ \A r \in 1 .. n : t[base + r] = Copy(s[Q[r]], base + r)
RowsPut(s, t, values, part, X, base, n) ==
    /\ RowsRead(s, t, part, X) /\ X \in Parts(values)
    /\ ToSet(X.syms) = {base + r : r \in 1 .. n}

LEMMA RowsAdded ==
    ASSUME NEW s, NEW t, NEW values, NEW part \in Parts(values), NEW Q, NEW base \in Nat, NEW X,
           NEW count, NEW top, Heap(s), Heap(t), ToSet(Q) = ToSet(part.syms),
           RowsPlaced(s, t, Q, base, count, top), X = PartRead(part, Q, base)
    PROVE  RowsPut(s, t, values, part, X, base, count)
  <1>0. /\ Q \in Seq(1 .. Len(s)) /\ OneEach(Q) /\ Len(s) <= base
        /\ base + Len(Q) <= Len(t)
        /\ \A r \in 1 .. Len(Q) : t[base + r] = Copy(s[Q[r]], base + r)
        /\ X = [part EXCEPT !.written = Q, !.unlinked = DOMAIN Q, !.decls = <<>>,
                            !.syms = [r \in DOMAIN Q |-> base + r], !.undefined = <<>>]
    BY DEF RowsPlaced, PartRead
  <1>1. PICK n \in Nat, ls \in Nat, lt \in Nat : n = Len(Q) /\ ls = Len(s) /\ lt = Len(t)
    BY <1>0, HeapLength, LenProperties
  <1>2. DOMAIN Q = 1 .. n /\ \A r \in 1 .. n : Q[r] \in 1 .. ls
    BY <1>0, <1>1, LenProperties, ElementOfSeq
  <1>3. PICK Y : Y = [r \in 1 .. n |-> base + r]
    OBVIOUS
  <1>4. \A r \in 1 .. n : /\ base + r \in 1 .. lt /\ base + r \notin 1 .. ls /\ base + r \in Nat
                          /\ Y[r] = base + r
    <2>1. ls <= base /\ base + n <= lt
      BY <1>0, <1>1
    <2> QED
      BY <1>1, <1>3, <2>1
  <1>5. Y \in Seq(Nat) /\ Len(Y) = n /\ OneEach(Y) /\ ToSet(Y) = {base + r : r \in 1 .. n}
    <2>1. Y \in [1 .. n -> Nat]
      BY <1>3, <1>4
    <2>2. Y \in Seq(Nat) /\ Len(Y) = n
      BY <1>1, <2>1, FunctionSeq
    <2>3. \A i, j \in 1 .. n : base + i = base + j => i = j
      BY <1>1
    <2>4. OneEach(Y)
      BY <1>4, <2>2, <2>3 DEF OneEach
    <2>5. ToSet(Y) = {base + r : r \in 1 .. n}
      BY <1>3 DEF ToSet
    <2> QED
      BY <2>2, <2>4, <2>5
  <1>6. Q \in Seq(Nat)
    <2>1. \A r \in 1 .. n : Q[r] \in Nat
      BY <1>2
    <2>2. Q = [r \in 1 .. n |-> Q[r]]
      BY <1>0, <1>2, LenProperties
    <2>3. Q \in [1 .. n -> Nat]
      BY <2>1, <2>2
    <2> QED
      BY <1>1, <2>3, SeqDef
  <1>7. X = [part EXCEPT !.written = Q, !.unlinked = 1 .. n, !.decls = <<>>, !.syms = Y, !.undefined = <<>>]
    BY <1>0, <1>2, <1>3
  <1>8. X \in Parts(values)
    <2>1. PICK A, B, C, M : A = Seq(Ids) /\ B = Seq(SUBSET STRING) /\ C = Seq(Nat) /\ M = [values -> Nat]
      OBVIOUS
    <2>2. Parts(values) = [syms : C, undefined : C, mainAt : M, decls : C, keep : A, toSuppress : B,
                           toKeep : B, unreferenced : SUBSET Nat, written : C, unlinked : SUBSET Nat]
      BY <2>1 DEF Parts
    <2>3. PICK no : no = <<>>
      OBVIOUS
    <2>4. no \in C /\ Q \in C /\ Y \in C
      BY <1>5, <1>6, <2>1, <2>3, EmptySeq
    <2>5. PICK U : U = 1 .. n
      OBVIOUS
    <2>6. U \in SUBSET Nat
      BY <2>5
    <2>7. X = [part EXCEPT !.written = Q, !.unlinked = U, !.decls = no, !.syms = Y, !.undefined = no]
      BY <1>7, <2>3, <2>5
    <2>8. /\ part.mainAt \in M /\ part.keep \in A /\ part.toSuppress \in B /\ part.toKeep \in B
          /\ part.unreferenced \in SUBSET Nat
      BY <2>2
    <2>9. X = [syms |-> Y, undefined |-> no, mainAt |-> part.mainAt, decls |-> no, keep |-> part.keep,
               toSuppress |-> part.toSuppress, toKeep |-> part.toKeep,
               unreferenced |-> part.unreferenced, written |-> Q, unlinked |-> U]
      <3>1. part = [syms |-> part.syms, undefined |-> part.undefined, mainAt |-> part.mainAt,
                    decls |-> part.decls, keep |-> part.keep, toSuppress |-> part.toSuppress,
                    toKeep |-> part.toKeep, unreferenced |-> part.unreferenced,
                    written |-> part.written, unlinked |-> part.unlinked]
        BY <2>2
      <3> QED
        BY <2>7, <3>1
    <2> QED
      BY <2>2, <2>4, <2>6, <2>8, <2>9
  <1>9. DOMAIN part = {"syms", "undefined", "mainAt", "decls", "keep", "toSuppress", "toKeep",
                       "unreferenced", "written", "unlinked"}
    BY DEF Parts
  <1>10. /\ X.written = Q /\ X.unlinked = 1 .. n /\ X.decls = <<>> /\ X.syms = Y /\ X.undefined = <<>>
         /\ X.mainAt = part.mainAt /\ X.keep = part.keep /\ X.toSuppress = part.toSuppress
         /\ X.toKeep = part.toKeep /\ X.unreferenced = part.unreferenced
    BY <1>7, <1>9
  <1>11. ASSUME NEW r \in 1 .. n
         PROVE  Alone(t, Y[r]) /\ Y[r] \notin 1 .. Len(s) /\ SameSymbol(t[Y[r]], s[Q[r]])
    <2>1. s[Q[r]] \in Symbols
      BY <1>1, <1>2, HeapLength
    <2>2. PICK i \in Nat : i = base + r /\ i \in 1 .. lt /\ i \notin 1 .. ls /\ Y[r] = i
      BY <1>4
    <2>3. t[i] = Copy(s[Q[r]], i)
      BY <1>0, <1>1, <2>2
    <2>4. Copy(s[Q[r]], i).main = i /\ Copy(s[Q[r]], i).nextAlias = 0 /\ SameSymbol(Copy(s[Q[r]], i), s[Q[r]])
      BY <2>1, CopyIs
    <2> QED
      BY <1>1, <2>2, <2>3, <2>4 DEF Alone
  <1>12. RowsRead(s, t, part, X)
    BY <1>0, <1>1, <1>5, <1>6, <1>10, <1>11 DEF RowsRead
  <1>13. ToSet(X.syms) = {base + r : r \in 1 .. n}
    BY <1>5, <1>10
  <1>14. count = n
    BY <1>1 DEF RowsPlaced
  <1> QED
    BY <1>8, <1>12, <1>13, <1>14 DEF RowsPut
=============================================================================
