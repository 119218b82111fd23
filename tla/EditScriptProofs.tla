-------------------------- MODULE EditScriptProofs --------------------------
(* Proofs about the edit scripts: the vectors of the search hold furthest   *)
(* reaching paths and the search finds a middle snake in time, for any two  *)
(* sequences and any relation between their elements.                       *)
EXTENDS EditScript, InductionLemmas

-----------------------------------------------------------------------------
(* Numbers.                                                                 *)
LEMMA OfTwo ==
    ASSUME NEW a \in Int, NEW b \in Int
    PROVE  /\ Max({a, b}) = IF a >= b THEN a ELSE b
           /\ Min({a, b}) = IF a <= b THEN a ELSE b
  BY DEF Max, Min

LEMMA GreatestNumber ==
    ASSUME NEW S, S \subseteq Nat, S # {}, NEW b \in Nat, \A x \in S : x <= b
    PROVE  Max(S) \in S /\ \A y \in S : y <= Max(S)
  <1> DEFINE T == {b - x : x \in S}
  <1>1. T \subseteq Nat /\ T # {}
    OBVIOUS
  <1>2. PICK t \in T : \A u \in T : t <= u
    BY <1>1, LeastNumber
  <1>3. PICK x \in S : t = b - x
    BY <1>2
  <1>4. \A y \in S : y <= x
    <2> SUFFICES ASSUME NEW y \in S
                 PROVE  y <= x
      OBVIOUS
    <2>1. b - x <= b - y
      BY <1>2, <1>3
    <2> QED
      BY <2>1
  <1>5. \E z \in S : \A y \in S : z >= y
    BY <1>4
  <1> QED
    BY <1>5 DEF Max

-----------------------------------------------------------------------------
(* The table of the longest common subsequences, a row after the other.     *)
Row(P, i, less, m) ==
    [j \in 0 .. m |->
       Max({less[j]} \cup {less[l - 1] + 1 : l \in {l \in 1 .. j : <<i - 1, l - 1>> \in P}})]

NoneYet(m) == [j \in 0 .. m |-> 0]

IsTable(f, P, n, m) ==
    f = [i \in 0 .. n |-> IF i = 0 THEN NoneYet(m) ELSE Row(P, i, f[i - 1], m)]

IsRows(f, n) == f = [i \in 0 .. n |-> f[i]]

LEMMA TableRows ==
    ASSUME NEW f, NEW P, NEW n \in Nat, NEW m, IsTable(f, P, n, m)
    PROVE  /\ f[0] = NoneYet(m)
           /\ \A i \in 1 .. n : f[i] = Row(P, i, f[i - 1], m)
  <1>1. PICK g : g = [i \in 0 .. n |-> IF i = 0 THEN NoneYet(m) ELSE Row(P, i, f[i - 1], m)]
    OBVIOUS
  <1>2. f = g
    BY <1>1 DEF IsTable
  <1>3. g[0] = NoneYet(m)
    BY <1>1
  <1>4. ASSUME NEW i \in 1 .. n
        PROVE  g[i] = Row(P, i, f[i - 1], m)
    BY <1>1
  <1> QED
    BY <1>2, <1>3, <1>4

LEMMA TableIs ==
    ASSUME NEW f, NEW P, NEW n \in Nat, NEW m, IsRows(f, n),
           f[0] = NoneYet(m),
           \A i \in 1 .. n : f[i] = Row(P, i, f[i - 1], m)
    PROVE  IsTable(f, P, n, m)
  <1>1. ASSUME NEW i \in 0 .. n
        PROVE  f[i] = IF i = 0 THEN NoneYet(m) ELSE Row(P, i, f[i - 1], m)
    <2>1. CASE i = 0
      BY <2>1
    <2>2. CASE i # 0
      BY <2>2, i \in 1 .. n
    <2> QED
      BY <2>1, <2>2
  <1>2. [i \in 0 .. n |-> f[i]]
          = [i \in 0 .. n |-> IF i = 0 THEN NoneYet(m) ELSE Row(P, i, f[i - 1], m)]
    BY <1>1
  <1> QED
    BY <1>2 DEF IsTable, IsRows

LEMMA TableExists ==
    ASSUME NEW P, NEW n \in Nat, NEW m
    PROVE  \E f : IsTable(f, P, n, m)
  <1> DEFINE S == {k \in 0 .. n : \E f : IsTable(f, P, k, m)}
  <1>1. 0 \in S
    <2>1. IsTable([i \in 0 .. 0 |-> NoneYet(m)], P, 0, m)
      BY DEF IsTable
    <2> QED
      BY <2>1
  <1>2. ASSUME NEW k \in 0 .. n, k # n, k \in S
        PROVE  k + 1 \in S
    <2>1. PICK f : IsTable(f, P, k, m)
      BY <1>2
    <2>2. PICK g : g = [i \in 0 .. k + 1 |-> IF i <= k THEN f[i] ELSE Row(P, k + 1, f[k], m)]
      OBVIOUS
    <2>3. IsRows(g, k + 1) /\ g[0] = f[0] /\ k + 1 \in Nat
      BY <2>2 DEF IsRows
    <2>4. ASSUME NEW i \in 1 .. k + 1
          PROVE  g[i] = Row(P, i, g[i - 1], m)
      <3>1. i - 1 \in 0 .. k + 1 /\ i - 1 <= k
        OBVIOUS
      <3>2. g[i - 1] = f[i - 1]
        BY <2>2, <3>1
      <3>3. CASE i <= k
        <4>1. g[i] = f[i]
          BY <2>2, <3>3
        <4>2. f[i] = Row(P, i, f[i - 1], m)
          BY <2>1, <3>3, i \in 1 .. k, TableRows
        <4> QED
          BY <3>2, <4>1, <4>2
      <3>4. CASE i = k + 1
        <4>1. g[i] = Row(P, k + 1, f[k], m)
          BY <2>2, <3>4
        <4> QED
          BY <3>2, <3>4, <4>1
      <3> QED
        BY <3>3, <3>4
    <2>5. g[0] = NoneYet(m)
      <3>1. k \in Nat /\ f[0] = NoneYet(m)
        <4>1. k \in Nat
          OBVIOUS
        <4> QED
          BY <2>1, <4>1, TableRows
      <3> QED
        BY <2>3, <3>1
    <2>6. IsTable(g, P, k + 1, m)
      BY <2>3, <2>4, <2>5, TableIs
    <2> QED
      BY <1>2, <2>6
  <1>3. 0 .. n \subseteq S
    <2> HIDE DEF S
    <2> QED
      BY <1>1, <1>2, InductionUpTo
  <1> QED
    BY <1>3

LEMMA TableUnique ==
    ASSUME NEW P, NEW n \in Nat, NEW k \in 0 .. n, NEW m, NEW f, NEW g,
           IsTable(f, P, n, m), IsTable(g, P, k, m)
    PROVE  f[k] = g[k]
  <1> DEFINE S == {i \in 0 .. k : f[i] = g[i]}
  <1>0. /\ f[0] = g[0]
        /\ \A i \in 1 .. n : f[i] = Row(P, i, f[i - 1], m)
        /\ \A i \in 1 .. k : g[i] = Row(P, i, g[i - 1], m)
    <2>1. k \in Nat
      OBVIOUS
    <2>2. f[0] = NoneYet(m) /\ \A i \in 1 .. n : f[i] = Row(P, i, f[i - 1], m)
      BY TableRows
    <2>3. g[0] = NoneYet(m) /\ \A i \in 1 .. k : g[i] = Row(P, i, g[i - 1], m)
      BY <2>1, TableRows
    <2> QED
      BY <2>2, <2>3
  <1>1. 0 \in S
    BY <1>0
  <1>2. ASSUME NEW i \in 0 .. k, i # k, i \in S
        PROVE  i + 1 \in S
    <2>1. i + 1 \in 1 .. n /\ i + 1 \in 1 .. k /\ (i + 1) - 1 = i
      BY <1>2
    <2>2. f[i + 1] = Row(P, i + 1, f[i], m)
      BY <1>0, <2>1
    <2>3. g[i + 1] = Row(P, i + 1, g[i], m)
      BY <1>0, <2>1
    <2> QED
      BY <1>2, <2>1, <2>2, <2>3
  <1>3. 0 .. k \subseteq S
    <2> HIDE DEF S
    <2> QED
      BY <1>1, <1>2, InductionUpTo
  <1> QED
    BY <1>3

LEMMA LcsIsTable ==
    ASSUME NEW P, NEW n \in Nat, NEW m
    PROVE  \E f : IsTable(f, P, n, m) /\ Lcs(P, n, m) = f[n]
  <1>1. PICK c : c = CHOOSE f : IsTable(f, P, n, m)
    OBVIOUS
  <1>2. IsTable(c, P, n, m)
    BY <1>1, TableExists
  <1>3. Lcs(P, n, m) = c[n]
    BY <1>1 DEF Lcs, IsTable, Row, NoneYet
  <1> QED
    BY <1>2, <1>3

(* Each row comes from the one before.                                      *)
LEMMA LcsRows ==
    ASSUME NEW P, NEW n \in Nat, NEW m
    PROVE  /\ Lcs(P, 0, m) = NoneYet(m)
           /\ Lcs(P, n + 1, m) = Row(P, n + 1, Lcs(P, n, m), m)
  <1>1. PICK z : IsTable(z, P, 0, m) /\ Lcs(P, 0, m) = z[0]
    BY LcsIsTable
  <1>2. PICK f : IsTable(f, P, n, m) /\ Lcs(P, n, m) = f[n]
    BY LcsIsTable
  <1>3. PICK g : IsTable(g, P, n + 1, m) /\ Lcs(P, n + 1, m) = g[n + 1]
    BY LcsIsTable
  <1>4. f[n] = g[n]
    BY <1>2, <1>3, TableUnique
  <1>5. g[n + 1] = Row(P, n + 1, g[n], m)
    <2>1. PICK k \in Nat : k = n + 1
      OBVIOUS
    <2>2. \A i \in 1 .. k : g[i] = Row(P, i, g[i - 1], m)
      <3>1. IsTable(g, P, k, m)
        BY <1>3, <2>1
      <3> QED
        BY <3>1, TableRows
    <2>3. k \in 1 .. k /\ k - 1 = n
      BY <2>1
    <2> QED
      BY <2>1, <2>2, <2>3
  <1>6. z[0] = NoneYet(m)
    BY <1>1, TableRows
  <1> QED
    BY <1>1, <1>2, <1>3, <1>4, <1>5, <1>6

-----------------------------------------------------------------------------
(* The entries of a row, and of neighbouring rows, differ by one at most.   *)
IsRow(row, i, m) ==
    /\ row \in [0 .. m -> Nat] /\ row[0] = 0
    /\ \A j \in 1 .. m : row[j] = row[j - 1] \/ row[j] = row[j - 1] + 1
    /\ \A j \in 0 .. m : row[j] <= j /\ row[j] <= i

LEMMA RowGrows ==
    ASSUME NEW m \in Nat, NEW i, NEW row, IsRow(row, i, m),
           NEW j \in 0 .. m, NEW l \in 0 .. j
    PROVE  row[l] <= row[j]
  <1>0. PICK n \in Nat : n = j - l
    OBVIOUS
  <1> DEFINE S == {e \in 0 .. n : row[l] <= row[l + e]}
  <1>1. 0 \in S
    <2>1. l \in 0 .. m /\ l + 0 = l
      OBVIOUS
    <2>2. row[l] \in Nat
      BY <2>1 DEF IsRow
    <2> QED
      BY <1>0, <2>1, <2>2
  <1>2. ASSUME NEW e \in 0 .. n, e # n, e \in S
        PROVE  e + 1 \in S
    <2>1. l + e + 1 \in 1 .. m /\ (l + e + 1) - 1 = l + e /\ l \in 0 .. m /\ l + e \in 0 .. m
      BY <1>0, <1>2
    <2>2. row[l + e + 1] = row[l + e] \/ row[l + e + 1] = row[l + e] + 1
      BY <2>1 DEF IsRow
    <2>3. row[l] \in Nat /\ row[l + e] \in Nat
      BY <2>1 DEF IsRow
    <2>4. row[l] <= row[l + e]
      BY <1>2
    <2>5. row[l] <= row[l + (e + 1)]
      BY <2>1, <2>2, <2>3, <2>4, l + (e + 1) = l + e + 1
    <2> QED
      BY <1>2, <2>5
  <1>3. 0 .. n \subseteq S
    <2> HIDE DEF S
    <2> QED
      BY <1>1, <1>2, InductionUpTo
  <1>4. n \in S /\ l + n = j
    BY <1>0, <1>3
  <1> QED
    BY <1>4

Candidates(P, i, less, j) ==
    {less[j]} \cup {less[l - 1] + 1 : l \in {l \in 1 .. j : <<i - 1, l - 1>> \in P}}

LEMMA RowEntry ==
    ASSUME NEW P, NEW m \in Nat, NEW i \in Nat \ {0}, NEW less, IsRow(less, i - 1, m),
           NEW j \in 0 .. m
    PROVE  /\ Row(P, i, less, m)[j] \in Candidates(P, i, less, j)
           /\ \A c \in Candidates(P, i, less, j) : c \in Nat /\ c <= Row(P, i, less, m)[j]
           /\ Row(P, i, less, m)[j] \in {less[j], less[j] + 1}
  <1> DEFINE C == Candidates(P, i, less, j)
  <1>0. less[j] \in Nat /\ less[j] \in C
    BY DEF IsRow, Candidates
  <1>1. ASSUME NEW c \in C
        PROVE  c \in Nat /\ c <= less[j] + 1
    <2>1. CASE c = less[j]
      BY <1>0, <2>1
    <2>2. CASE \E l \in 1 .. j : c = less[l - 1] + 1
      <3>1. PICK l \in 1 .. j : c = less[l - 1] + 1
        BY <2>2
      <3>2. l - 1 \in 0 .. j /\ l - 1 \in 0 .. m
        OBVIOUS
      <3>3. less[l - 1] \in Nat
        BY <3>2 DEF IsRow
      <3>4. less[l - 1] <= less[j]
        BY <3>2, RowGrows
      <3> QED
        BY <1>0, <3>1, <3>3, <3>4
    <2> QED
      BY <2>1, <2>2 DEF Candidates
  <1>2. Row(P, i, less, m)[j] = Max(C)
    BY DEF Row, Candidates
  <1>3. PICK b \in Nat : b = less[j] + 1
    BY <1>0
  <1>4. Max(C) \in C /\ \A c \in C : c <= Max(C)
    <2>1. C \subseteq Nat /\ C # {} /\ \A c \in C : c <= b
      BY <1>0, <1>1, <1>3
    <2> HIDE DEF C
    <2> QED
      BY <2>1, GreatestNumber
  <1>5. Max(C) \in Nat /\ Max(C) <= less[j] + 1 /\ less[j] <= Max(C)
    BY <1>0, <1>1, <1>4
  <1>6. Max(C) \in {less[j], less[j] + 1}
    <2> HIDE DEF C
    <2> QED
      BY <1>0, <1>5
  <1> QED
    BY <1>1, <1>2, <1>4, <1>6

(* What a row has from the one before it.                                   *)
IsNext(row, less, P, i, m) ==
    /\ \A j \in 0 .. m : row[j] \in {less[j], less[j] + 1}
    /\ \A j \in 1 .. m :
         IF <<i - 1, j - 1>> \in P
         THEN row[j] = less[j - 1] + 1
         ELSE row[j] = less[j] \/ row[j] = row[j - 1]

LEMMA NextRow ==
    ASSUME NEW P, NEW m \in Nat, NEW i \in Nat \ {0}, NEW less, IsRow(less, i - 1, m),
           NEW row, row = Row(P, i, less, m)
    PROVE  IsRow(row, i, m) /\ IsNext(row, less, P, i, m)
  <1>0. /\ less \in [0 .. m -> Nat] /\ less[0] = 0
        /\ \A j \in 1 .. m : less[j] = less[j - 1] \/ less[j] = less[j - 1] + 1
        /\ \A j \in 0 .. m : less[j] <= j /\ less[j] <= i - 1
    BY DEF IsRow
  <1>1. ASSUME NEW j \in 0 .. m
        PROVE  /\ row[j] \in Candidates(P, i, less, j)
               /\ \A c \in Candidates(P, i, less, j) : c \in Nat /\ c <= row[j]
               /\ row[j] \in {less[j], less[j] + 1}
    BY RowEntry
  <1>2. \A j \in 0 .. m : row[j] \in Nat /\ row[j] \in {less[j], less[j] + 1}
    BY <1>0, <1>1
  <1>3. row \in [0 .. m -> Nat]
    <2>1. row = [j \in 0 .. m |-> row[j]]
      BY DEF Row
    <2> QED
      BY <1>2, <2>1
  <1>4. row[0] = 0
    <2>1. Candidates(P, i, less, 0) = {0}
      BY <1>0 DEF Candidates
    <2> QED
      BY <1>1, <2>1
  <1>5. ASSUME NEW j \in 1 .. m
        PROVE  /\ row[j] = row[j - 1] \/ row[j] = row[j - 1] + 1
               /\ row[j] <= j
               /\ IF <<i - 1, j - 1>> \in P
                  THEN row[j] = less[j - 1] + 1
                  ELSE row[j] = less[j] \/ row[j] = row[j - 1]
    <2>0. j \in 0 .. m /\ j - 1 \in 0 .. m
      OBVIOUS
    <2>1. less[j - 1] \in Nat /\ less[j] \in Nat /\ row[j - 1] \in Nat /\ row[j] \in Nat
      BY <1>0, <1>2, <2>0
    <2>2. less[j] = less[j - 1] \/ less[j] = less[j - 1] + 1
      BY <1>0
    <2>3. row[j - 1] \in {less[j - 1], less[j - 1] + 1} /\ row[j] \in {less[j], less[j] + 1}
      BY <1>2, <2>0
    <2>4. less[j - 1] <= j - 1 /\ less[j] <= j
      BY <1>0, <2>0
    <2>5. CASE <<i - 1, j - 1>> \in P
      <3>1. less[j - 1] + 1 \in Candidates(P, i, less, j)
        BY <2>5 DEF Candidates
      <3>2. less[j - 1] + 1 <= row[j]
        BY <1>1, <2>0, <3>1
      <3>3. row[j] \in Candidates(P, i, less, j)
        BY <1>1, <2>0
      <3>4. row[j] <= less[j - 1] + 1
        <4>1. CASE row[j] = less[j]
          BY <2>1, <2>2, <4>1
        <4>2. CASE \E l \in 1 .. j : row[j] = less[l - 1] + 1
          <5>1. PICK l \in 1 .. j : row[j] = less[l - 1] + 1
            BY <4>2
          <5>2. l - 1 \in 0 .. j - 1 /\ l - 1 \in 0 .. m
            OBVIOUS
          <5>3. less[l - 1] <= less[j - 1]
            BY <2>0, <5>2, RowGrows
          <5>4. less[l - 1] \in Nat
            BY <1>0, <5>2
          <5> QED
            BY <2>1, <5>1, <5>3, <5>4
        <4> QED
          BY <3>3, <4>1, <4>2 DEF Candidates
      <3>5. row[j] = less[j - 1] + 1
        BY <2>1, <3>2, <3>4
      <3> QED
        BY <2>1, <2>3, <2>4, <2>5, <3>5
    <2>6. CASE <<i - 1, j - 1>> \notin P
      <3>1. row[j] \in Candidates(P, i, less, j)
        BY <1>1, <2>0
      <3>2. row[j] = less[j] \/ row[j] \in Candidates(P, i, less, j - 1)
        <4> SUFFICES ASSUME row[j] # less[j]
                     PROVE  row[j] \in Candidates(P, i, less, j - 1)
          OBVIOUS
        <4>1. PICK l \in 1 .. j : <<i - 1, l - 1>> \in P /\ row[j] = less[l - 1] + 1
          BY <3>1 DEF Candidates
        <4>2. l \in 1 .. j - 1
          BY <2>6, <4>1
        <4> QED
          BY <4>1, <4>2 DEF Candidates
      <3>3. Candidates(P, i, less, j - 1) \subseteq {c \in Nat : c <= row[j - 1]}
        BY <1>1, <2>0
      <3>4. row[j] = less[j] \/ row[j] <= row[j - 1]
        BY <3>2, <3>3
      <3>5. row[j - 1] <= row[j]
        <4>1. CASE row[j - 1] = less[j - 1]
          BY <2>1, <2>2, <2>3, <4>1
        <4>2. CASE row[j - 1] # less[j - 1]
          <5>1. PICK l \in 1 .. j - 1 : <<i - 1, l - 1>> \in P /\ row[j - 1] = less[l - 1] + 1
            BY <1>1, <2>0, <4>2 DEF Candidates
          <5>2. row[j - 1] \in Candidates(P, i, less, j)
            BY <5>1, l \in 1 .. j DEF Candidates
          <5> QED
            BY <1>1, <2>0, <5>2
        <4> QED
          BY <4>1, <4>2
      <3> QED
        BY <2>1, <2>2, <2>3, <2>4, <2>6, <3>4, <3>5
    <2> QED
      BY <2>5, <2>6
  <1>6. ASSUME NEW j \in 0 .. m
        PROVE  row[j] <= j /\ row[j] <= i
    <2>1. row[j] <= j
      <3>1. CASE j = 0
        BY <1>4, <3>1
      <3>2. CASE j # 0
        <4>1. j \in 1 .. m
          BY <3>2
        <4> QED
          BY <1>5, <4>1
      <3> QED
        BY <3>1, <3>2
    <2>3. less[j] \in Nat /\ less[j] <= i - 1
      BY <1>0
    <2>4. row[j] <= i
      BY <1>2, <2>3
    <2> QED
      BY <2>1, <2>4
  <1> QED
    BY <1>2, <1>3, <1>4, <1>5, <1>6 DEF IsRow, IsNext

LEMMA GridRows ==
    ASSUME NEW P, NEW n \in Nat, NEW m \in Nat
    PROVE  /\ \A i \in 0 .. n : IsRow(Lcs(P, i, m), i, m)
           /\ \A i \in 1 .. n : Lcs(P, i, m) = Row(P, i, Lcs(P, i - 1, m), m)
  <1>1. ASSUME NEW i \in 1 .. n
        PROVE  Lcs(P, i, m) = Row(P, i, Lcs(P, i - 1, m), m)
    <2>1. PICK k \in Nat : k = i - 1
      OBVIOUS
    <2>2. Lcs(P, k + 1, m) = Row(P, k + 1, Lcs(P, k, m), m)
      BY LcsRows
    <2>3. k + 1 = i
      BY <2>1
    <2> QED
      BY <2>1, <2>2, <2>3
  <1> DEFINE S == {i \in 0 .. n : IsRow(Lcs(P, i, m), i, m)}
  <1>2. 0 \in S
    <2>1. IsRow(NoneYet(m), 0, m)
      BY DEF IsRow, NoneYet
    <2>2. Lcs(P, 0, m) = NoneYet(m)
      BY LcsRows
    <2> QED
      BY <2>1, <2>2
  <1>3. ASSUME NEW i \in 0 .. n, i # n, i \in S
        PROVE  i + 1 \in S
    <2>1. PICK k \in Nat \ {0} : k = i + 1
      OBVIOUS
    <2>2. k \in 1 .. n /\ k \in 0 .. n /\ k - 1 = i
      BY <1>3, <2>1
    <2>3. PICK less : less = Lcs(P, k - 1, m)
      OBVIOUS
    <2>4. IsRow(less, k - 1, m)
      BY <1>3, <2>2, <2>3
    <2>5. PICK row : row = Row(P, k, less, m)
      OBVIOUS
    <2>6. IsRow(row, k, m)
      BY <2>4, <2>5, NextRow
    <2>7. row = Lcs(P, k, m)
      BY <1>1, <2>2, <2>3, <2>5
    <2> QED
      BY <2>1, <2>2, <2>6, <2>7
  <1>4. 0 .. n \subseteq S
    <2> HIDE DEF S
    <2> QED
      BY <1>2, <1>3, InductionUpTo
  <1> QED
    BY <1>1, <1>4

(* How the entries of the table relate, n and m elements on the sides.      *)
IsGrid(G, P, n, m) ==
    \A x, y \in Nat :
      /\ G[x][y] \in Nat /\ G[x][y] <= x /\ G[x][y] <= y /\ G[x][y] <= n /\ G[x][y] <= m
      /\ G[x + 1][y] = G[x][y] \/ G[x + 1][y] = G[x][y] + 1
      /\ G[x][y + 1] = G[x][y] \/ G[x][y + 1] = G[x][y] + 1
      /\ IF <<x, y>> \in P
         THEN G[x + 1][y + 1] = G[x][y] + 1
         ELSE G[x + 1][y + 1] = G[x][y + 1] \/ G[x + 1][y + 1] = G[x + 1][y]
      /\ x >= n => G[x + 1][y] = G[x][y]
      /\ y >= m => G[x][y + 1] = G[x][y]

LEMMA LcsGrid ==
    ASSUME NEW n \in Nat, NEW m \in Nat, NEW P, P \subseteq Indexes(n) \X Indexes(m),
           NEW G, G = [x \in Nat |-> [y \in Nat |-> Lcs(P, Min({x, n}), m)[Min({y, m})]]]
    PROVE  IsGrid(G, P, n, m)
  <1> DEFINE L(i) == Lcs(P, i, m)
  <1>1. \A i \in 0 .. n : IsRow(L(i), i, m)
    BY GridRows
  <1>2. \A i \in 1 .. n :
          /\ \A j \in 0 .. m : L(i)[j] \in {L(i - 1)[j], L(i - 1)[j] + 1}
          /\ \A j \in 1 .. m :
               IF <<i - 1, j - 1>> \in P
               THEN L(i)[j] = L(i - 1)[j - 1] + 1
               ELSE L(i)[j] = L(i - 1)[j] \/ L(i)[j] = L(i)[j - 1]
    <2> SUFFICES ASSUME NEW i \in 1 .. n
                 PROVE  /\ \A j \in 0 .. m : L(i)[j] \in {L(i - 1)[j], L(i - 1)[j] + 1}
                        /\ \A j \in 1 .. m :
                             IF <<i - 1, j - 1>> \in P
                             THEN L(i)[j] = L(i - 1)[j - 1] + 1
                             ELSE L(i)[j] = L(i - 1)[j] \/ L(i)[j] = L(i)[j - 1]
      OBVIOUS
    <2>1. PICK less : less = L(i - 1)
      OBVIOUS
    <2>2. PICK row : row = L(i)
      OBVIOUS
    <2>3. row = Row(P, i, less, m)
      BY <2>1, <2>2, GridRows
    <2>4. IsRow(less, i - 1, m)
      <3>1. i - 1 \in 0 .. n
        OBVIOUS
      <3> HIDE DEF L
      <3> QED
        BY <1>1, <2>1, <3>1
    <2>5. i \in Nat \ {0}
      OBVIOUS
    <2>6. IsNext(row, less, P, i, m)
      BY <2>3, <2>4, <2>5, NextRow
    <2> HIDE DEF L
    <2> QED
      BY <2>1, <2>2, <2>6 DEF IsNext
  <1> DEFINE X(x) == IF x <= n THEN x ELSE n
             Y(y) == IF y <= m THEN y ELSE m
  <1>3. ASSUME NEW x \in Nat, NEW y \in Nat
        PROVE  G[x][y] = L(X(x))[Y(y)]
    <2>1. Min({x, n}) = X(x) /\ Min({y, m}) = Y(y)
      <3>1. x \in Int /\ n \in Int /\ y \in Int /\ m \in Int
        OBVIOUS
      <3>2. Min({x, n}) = IF x <= n THEN x ELSE n
        BY <3>1, OfTwo
      <3>3. Min({y, m}) = IF y <= m THEN y ELSE m
        BY <3>1, OfTwo
      <3> QED
        BY <3>2, <3>3
    <2>2. G[x][y] = Lcs(P, Min({x, n}), m)[Min({y, m})]
      OBVIOUS
    <2> HIDE DEF X, Y
    <2> QED
      BY <2>1, <2>2
  <1> HIDE DEF L
  <1>4. ASSUME NEW x \in Nat, NEW y \in Nat
        PROVE  /\ X(x) \in 0 .. n /\ Y(y) \in 0 .. m
               /\ x + 1 \in Nat /\ y + 1 \in Nat
               /\ x < n => X(x) = x /\ X(x + 1) = x + 1
               /\ ~(x < n) => X(x) = n /\ X(x + 1) = n
               /\ y < m => Y(y) = y /\ Y(y + 1) = y + 1
               /\ ~(y < m) => Y(y) = m /\ Y(y + 1) = m
    OBVIOUS
  <1>5. SUFFICES ASSUME NEW x \in Nat, NEW y \in Nat
        PROVE  /\ G[x][y] \in Nat /\ G[x][y] <= x /\ G[x][y] <= y /\ G[x][y] <= n /\ G[x][y] <= m
               /\ G[x + 1][y] = G[x][y] \/ G[x + 1][y] = G[x][y] + 1
               /\ G[x][y + 1] = G[x][y] \/ G[x][y + 1] = G[x][y] + 1
               /\ IF <<x, y>> \in P
                  THEN G[x + 1][y + 1] = G[x][y] + 1
                  ELSE G[x + 1][y + 1] = G[x][y + 1] \/ G[x + 1][y + 1] = G[x + 1][y]
               /\ x >= n => G[x + 1][y] = G[x][y]
               /\ y >= m => G[x][y + 1] = G[x][y]
    BY DEF IsGrid
  <1>6. /\ G[x][y] = L(X(x))[Y(y)] /\ G[x + 1][y] = L(X(x + 1))[Y(y)]
        /\ G[x][y + 1] = L(X(x))[Y(y + 1)] /\ G[x + 1][y + 1] = L(X(x + 1))[Y(y + 1)]
    <2> HIDE DEF X, Y
    <2> QED
      BY <1>3, <1>4
  <1>7. X(x) \in 0 .. n /\ Y(y) \in 0 .. m /\ X(x) <= x /\ Y(y) <= y /\ X(x) <= n /\ Y(y) <= m
    OBVIOUS
  <1>8. G[x][y] \in Nat /\ G[x][y] <= X(x) /\ G[x][y] <= Y(y)
    <2>1. IsRow(L(X(x)), X(x), m)
      <3> HIDE DEF X
      <3> QED
        BY <1>1, <1>7
    <2> HIDE DEF X, Y
    <2> QED
      BY <1>6, <1>7, <2>1 DEF IsRow
  <1>9. /\ G[x][y] \in Nat /\ G[x][y] <= x /\ G[x][y] <= y /\ G[x][y] <= n /\ G[x][y] <= m
    <2>1. X(x) \in Nat /\ Y(y) \in Nat
      BY <1>7
    <2> HIDE DEF X, Y
    <2> QED
      BY <1>7, <1>8, <2>1
  <1>10. G[x + 1][y] = G[x][y] \/ G[x + 1][y] = G[x][y] + 1
    <2>1. CASE x < n
      <3>1. X(x) = x /\ X(x + 1) = x + 1 /\ x + 1 \in 1 .. n /\ (x + 1) - 1 = x
        BY <1>4, <2>1
      <3> HIDE DEF X, Y
      <3>2. L(x + 1)[Y(y)] \in {L(x)[Y(y)], L(x)[Y(y)] + 1}
        BY <1>2, <1>7, <3>1
      <3> QED
        BY <1>6, <3>1, <3>2
    <2>2. CASE ~(x < n)
      <3>1. X(x) = X(x + 1)
        BY <1>4, <2>2
      <3> HIDE DEF X, Y
      <3> QED
        BY <1>6, <3>1
    <2> QED
      BY <2>1, <2>2
  <1>11. G[x][y + 1] = G[x][y] \/ G[x][y + 1] = G[x][y] + 1
    <2>1. CASE y < m
      <3>1. Y(y) = y /\ Y(y + 1) = y + 1 /\ y + 1 \in 1 .. m /\ (y + 1) - 1 = y
        BY <1>4, <2>1
      <3> HIDE DEF X, Y
      <3>2. IsRow(L(X(x)), X(x), m)
        BY <1>1, <1>7
      <3>3. L(X(x))[y + 1] = L(X(x))[y] \/ L(X(x))[y + 1] = L(X(x))[y] + 1
        BY <3>1, <3>2 DEF IsRow
      <3> QED
        BY <1>6, <3>1, <3>3
    <2>2. CASE ~(y < m)
      <3>1. Y(y) = Y(y + 1)
        BY <1>4, <2>2
      <3> HIDE DEF X, Y
      <3> QED
        BY <1>6, <3>1
    <2> QED
      BY <2>1, <2>2
  <1>12. ASSUME x < n, y < m
         PROVE  IF <<x, y>> \in P
                THEN G[x + 1][y + 1] = G[x][y] + 1
                ELSE G[x + 1][y + 1] = G[x][y + 1] \/ G[x + 1][y + 1] = G[x + 1][y]
    <2>1. /\ X(x) = x /\ X(x + 1) = x + 1 /\ x + 1 \in 1 .. n /\ (x + 1) - 1 = x
          /\ Y(y) = y /\ Y(y + 1) = y + 1 /\ y + 1 \in 1 .. m /\ (y + 1) - 1 = y
      BY <1>4, <1>12
    <2> HIDE DEF X, Y
    <2>2. IF <<x, y>> \in P
          THEN L(x + 1)[y + 1] = L(x)[y] + 1
          ELSE L(x + 1)[y + 1] = L(x)[y + 1] \/ L(x + 1)[y + 1] = L(x + 1)[y]
      BY <1>2, <2>1
    <2> QED
      BY <1>6, <2>1, <2>2
  <1>13. ASSUME ~(x < n /\ y < m)
         PROVE  /\ <<x, y>> \notin P
                /\ G[x + 1][y + 1] = G[x][y + 1] \/ G[x + 1][y + 1] = G[x + 1][y]
    <2>1. <<x, y>> \notin P
      BY <1>13 DEF Indexes
    <2>2. X(x) = X(x + 1) \/ Y(y) = Y(y + 1)
      BY <1>4, <1>13
    <2> HIDE DEF X, Y
    <2> QED
      BY <1>6, <2>1, <2>2
  <1>14. /\ x >= n => G[x + 1][y] = G[x][y]
         /\ y >= m => G[x][y + 1] = G[x][y]
    <2>1. (x >= n => X(x) = X(x + 1)) /\ (y >= m => Y(y) = Y(y + 1))
      BY <1>4
    <2> HIDE DEF X, Y
    <2> QED
      BY <1>6, <2>1
  <1> HIDE DEF X, Y
  <1> QED
    BY <1>9, <1>10, <1>11, <1>12, <1>13, <1>14

-----------------------------------------------------------------------------
(* The number of edits to each point, as a function.  The sequences have an *)
(* end, the graph need not: from there on nothing matches.                  *)
Counted(E, n, m) ==
    \A x, y \in Nat : \E g \in Nat : /\ E[x][y] = x + y - 2 * g
                                    /\ g <= x /\ g <= y /\ g <= n /\ g <= m
UnitSteps(E) ==
    \A x, y \in Nat : /\ E[x + 1][y] = E[x][y] + 1 \/ E[x + 1][y] = E[x][y] - 1
                      /\ E[x][y + 1] = E[x][y] + 1 \/ E[x][y + 1] = E[x][y] - 1
Matched(E, P) ==
    \A x, y \in Nat : IF <<x, y>> \in P
                      THEN E[x + 1][y + 1] = E[x][y]
                      ELSE \/ E[x + 1][y + 1] = E[x + 1][y] + 1
                           \/ E[x + 1][y + 1] = E[x][y + 1] + 1
Outside(E, n, m) ==
    \A x, y \in Nat : /\ x >= n => E[x + 1][y] = E[x][y] + 1
                      /\ y >= m => E[x][y + 1] = E[x][y] + 1
IsEdits(E, P, n, m) ==
    /\ E \in [Nat -> [Nat -> Nat]]
    /\ \A x \in Nat : E[x][0] = x /\ E[0][x] = x
    /\ Counted(E, n, m) /\ UnitSteps(E) /\ Matched(E, P) /\ Outside(E, n, m)

FromGrid(E, G) == \A x, y \in Nat : E[x][y] = x + y - 2 * G[x][y]

LEMMA EditsOfGrid ==
    ASSUME NEW P, NEW n \in Nat, NEW m \in Nat, NEW G, IsGrid(G, P, n, m),
           NEW E \in [Nat -> [Nat -> Nat]], FromGrid(E, G)
    PROVE  IsEdits(E, P, n, m)
  <1>1. ASSUME NEW x \in Nat, NEW y \in Nat
        PROVE  /\ E[x][y] = x + y - 2 * G[x][y] /\ E[x][y] \in Nat
               /\ G[x][y] \in Nat /\ G[x][y] <= x /\ G[x][y] <= y /\ G[x][y] <= n /\ G[x][y] <= m
    <2>1. E[x][y] = x + y - 2 * G[x][y]
      BY DEF FromGrid
    <2>2. G[x][y] \in Nat /\ G[x][y] <= x /\ G[x][y] <= y /\ G[x][y] <= n /\ G[x][y] <= m
      BY DEF IsGrid
    <2> QED
      BY <2>1, <2>2
  <1>2. ASSUME NEW x \in Nat
        PROVE  E[x][0] = x /\ E[0][x] = x
    <2>1. PICK p \in Nat, q \in Nat : p = G[x][0] /\ q = G[0][x]
      BY <1>1
    <2>2. p <= 0 /\ q <= 0
      BY <1>1, <2>1
    <2>3. p = 0 /\ q = 0
      BY <2>2
    <2>4. E[x][0] = x + 0 - 2 * p /\ E[0][x] = 0 + x - 2 * q
      BY <1>1, <2>1
    <2>5. E[x][0] \in Nat /\ E[0][x] \in Nat
      BY <1>1
    <2> QED
      BY <2>3, <2>4, <2>5
  <1>3. Counted(E, n, m)
    BY <1>1 DEF Counted
  <1>4. ASSUME NEW x \in Nat, NEW y \in Nat
        PROVE  /\ /\ E[x + 1][y] = E[x][y] + 1 \/ E[x + 1][y] = E[x][y] - 1
                  /\ E[x][y + 1] = E[x][y] + 1 \/ E[x][y + 1] = E[x][y] - 1
               /\ IF <<x, y>> \in P
                  THEN E[x + 1][y + 1] = E[x][y]
                  ELSE \/ E[x + 1][y + 1] = E[x + 1][y] + 1
                       \/ E[x + 1][y + 1] = E[x][y + 1] + 1
               /\ x >= n => E[x + 1][y] = E[x][y] + 1
               /\ y >= m => E[x][y + 1] = E[x][y] + 1
    <2>0. PICK u \in Nat, v \in Nat : u = x + 1 /\ v = y + 1
      OBVIOUS
    <2>1. PICK g \in Nat, a \in Nat, b \in Nat, c \in Nat :
            g = G[x][y] /\ a = G[u][y] /\ b = G[x][v] /\ c = G[u][v]
      BY <1>1
    <2>2. PICK e \in Nat, ea \in Nat, eb \in Nat, ec \in Nat :
            e = E[x][y] /\ ea = E[u][y] /\ eb = E[x][v] /\ ec = E[u][v]
      BY <1>1
    <2>3. /\ e = x + y - 2 * g /\ ea = u + y - 2 * a
          /\ eb = x + v - 2 * b /\ ec = u + v - 2 * c
      BY <1>1, <2>1, <2>2
    <2>4. /\ a = g \/ a = g + 1
          /\ b = g \/ b = g + 1
          /\ IF <<x, y>> \in P THEN c = g + 1 ELSE c = b \/ c = a
      BY <2>0, <2>1 DEF IsGrid
    <2>5. /\ ea = e + 1 \/ ea = e - 1
          /\ eb = e + 1 \/ eb = e - 1
          /\ IF <<x, y>> \in P THEN ec = e ELSE ec = ea + 1 \/ ec = eb + 1
      <3>1. ea = e + 1 \/ ea = e - 1
        BY <2>0, <2>3, <2>4
      <3>2. eb = e + 1 \/ eb = e - 1
        BY <2>0, <2>3, <2>4
      <3>3. c = g + 1 => ec = e
        BY <2>0, <2>3
      <3>4. ASSUME c = b
            PROVE  ec = eb + 1
        BY <2>0, <2>3, <3>4
      <3>5. ASSUME c = a
            PROVE  ec = ea + 1
        BY <2>0, <2>3, <3>5
      <3> QED
        BY <2>4, <3>1, <3>2, <3>3, <3>4, <3>5
    <2>6. (x >= n => a = g) /\ (y >= m => b = g)
      BY <2>0, <2>1 DEF IsGrid
    <2>7. ASSUME a = g
          PROVE  ea = e + 1
      BY <2>0, <2>3, <2>7
    <2>8. ASSUME b = g
          PROVE  eb = e + 1
      BY <2>0, <2>3, <2>8
    <2> QED
      BY <2>0, <2>2, <2>5, <2>6, <2>7, <2>8
  <1>5. UnitSteps(E)
    <2> SUFFICES ASSUME NEW x \in Nat, NEW y \in Nat
                 PROVE  /\ E[x + 1][y] = E[x][y] + 1 \/ E[x + 1][y] = E[x][y] - 1
                        /\ E[x][y + 1] = E[x][y] + 1 \/ E[x][y + 1] = E[x][y] - 1
      BY DEF UnitSteps
    <2> QED
      BY <1>4
  <1>6. Matched(E, P)
    <2> SUFFICES ASSUME NEW x \in Nat, NEW y \in Nat
                 PROVE  IF <<x, y>> \in P
                        THEN E[x + 1][y + 1] = E[x][y]
                        ELSE \/ E[x + 1][y + 1] = E[x + 1][y] + 1
                             \/ E[x + 1][y + 1] = E[x][y + 1] + 1
      BY DEF Matched
    <2> QED
      BY <1>4
  <1>7. Outside(E, n, m)
    BY <1>4 DEF Outside
  <1> QED
    BY <1>2, <1>3, <1>5, <1>6, <1>7 DEF IsEdits

Edits(P, r) == [x \in Nat |-> [y \in Nat |-> EditsTo(P, r, x, y)]]

LEMMA EditsOfLcs ==
    ASSUME NEW r, N(r) \in Nat, M(r) \in Nat,
           NEW P, P \subseteq Indexes(N(r)) \X Indexes(M(r))
    PROVE  IsEdits(Edits(P, r), P, N(r), M(r))
  <1>0. PICK n \in Nat, m \in Nat : n = N(r) /\ m = M(r)
    OBVIOUS
  <1>1. PICK G : G = [x \in Nat |-> [y \in Nat |-> Lcs(P, Min({x, n}), m)[Min({y, m})]]]
    OBVIOUS
  <1>2. IsGrid(G, P, n, m)
    BY <1>0, <1>1, LcsGrid
  <1>3. PICK E : E = [x \in Nat |-> [y \in Nat |-> x + y - 2 * G[x][y]]]
    OBVIOUS
  <1>4. \A x, y \in Nat : G[x][y] \in Nat /\ G[x][y] <= x /\ G[x][y] <= y
    BY <1>2 DEF IsGrid
  <1>5. ASSUME NEW x \in Nat, NEW y \in Nat
        PROVE  E[x][y] \in Nat
    <2>1. PICK g \in Nat : g = G[x][y]
      BY <1>4
    <2>2. g <= x /\ g <= y /\ E[x][y] = x + y - 2 * g
      BY <1>3, <1>4, <2>1
    <2>3. x + y - 2 * g \in Nat
      BY <2>2
    <2> QED
      BY <2>2, <2>3
  <1>6. E = [x \in Nat |-> [y \in Nat |-> E[x][y]]] /\ \A x, y \in Nat : E[x][y] = x + y - 2 * G[x][y]
    BY <1>3
  <1>7. E \in [Nat -> [Nat -> Nat]]
    BY <1>5, <1>6
  <1>8. IsEdits(E, P, n, m)
    <2>1. FromGrid(E, G)
      BY <1>6 DEF FromGrid
    <2> QED
      BY <1>2, <1>7, <2>1, EditsOfGrid
  <1>9. \A x, y \in Nat : x + y - 2 * G[x][y] = EditsTo(P, r, x, y)
    BY <1>0, <1>1 DEF EditsTo
  <1>10. E = [x \in Nat |-> [y \in Nat |-> EditsTo(P, r, x, y)]]
    BY <1>3, <1>9
  <1> QED
    BY <1>0, <1>8, <1>10 DEF Edits

(* Each edit is a step off the diagonal, and one beyond the sequences too.  *)
LEMMA EditsAtLeast ==
    ASSUME NEW E, NEW P, NEW n \in Nat, NEW m \in Nat, IsEdits(E, P, n, m),
           NEW x \in Nat, NEW y \in Nat
    PROVE  /\ E[x][y] \in Nat /\ E[x + 1][y] \in Nat /\ E[x][y + 1] \in Nat
           /\ E[x + 1][y + 1] \in Nat
           /\ E[x][y] >= x - y /\ E[x][y] >= y - x /\ E[x][y] >= x - n /\ E[x][y] >= y - m
           /\ (E[x][y] - (x + y)) % 2 = 0
           /\ E[x + 1][y + 1] >= E[x][y]
  <1>0. PICK u \in Nat, v \in Nat : u = x + 1 /\ v = y + 1
    OBVIOUS
  <1>1. E[x][y] \in Nat /\ E[u][y] \in Nat /\ E[x][v] \in Nat /\ E[u][v] \in Nat
    <2>1. E \in [Nat -> [Nat -> Nat]]
      BY DEF IsEdits
    <2> QED
      BY <2>1
  <1>2. PICK g \in Nat : E[x][y] = x + y - 2 * g /\ g <= x /\ g <= y /\ g <= n /\ g <= m
    BY DEF IsEdits, Counted
  <1>3. E[x][y] >= x - y /\ E[x][y] >= y - x /\ E[x][y] >= x - n /\ E[x][y] >= y - m
    BY <1>1, <1>2
  <1>4. (E[x][y] - (x + y)) % 2 = 0
    BY <1>1, <1>2
  <1>5. E[u][v] >= E[x][y]
    <2>1. /\ E[x + 1][y] = E[x][y] + 1 \/ E[x + 1][y] = E[x][y] - 1
          /\ E[x][y + 1] = E[x][y] + 1 \/ E[x][y + 1] = E[x][y] - 1
          /\ \/ E[x + 1][y + 1] = E[x][y]
             \/ E[x + 1][y + 1] = E[x + 1][y] + 1
             \/ E[x + 1][y + 1] = E[x][y + 1] + 1
      <3>1. UnitSteps(E) /\ Matched(E, P)
        BY DEF IsEdits
      <3>2. /\ E[x + 1][y] = E[x][y] + 1 \/ E[x + 1][y] = E[x][y] - 1
            /\ E[x][y + 1] = E[x][y] + 1 \/ E[x][y + 1] = E[x][y] - 1
        BY <3>1 DEF UnitSteps
      <3>3. IF <<x, y>> \in P
            THEN E[x + 1][y + 1] = E[x][y]
            ELSE \/ E[x + 1][y + 1] = E[x + 1][y] + 1
                 \/ E[x + 1][y + 1] = E[x][y + 1] + 1
        BY <3>1 DEF Matched
      <3> QED
        BY <3>2, <3>3
    <2>2. /\ E[u][y] = E[x][y] + 1 \/ E[u][y] = E[x][y] - 1
          /\ E[x][v] = E[x][y] + 1 \/ E[x][v] = E[x][y] - 1
          /\ E[u][v] = E[x][y] \/ E[u][v] = E[u][y] + 1 \/ E[u][v] = E[x][v] + 1
      BY <1>0, <2>1
    <2> QED
      BY <1>1, <2>2
  <1> QED
    BY <1>0, <1>1, <1>3, <1>4, <1>5

LEMMA AlongDiagonal ==
    ASSUME NEW E, NEW P, NEW n \in Nat, NEW m \in Nat, IsEdits(E, P, n, m),
           NEW x \in Nat, NEW y \in Nat, NEW i \in Nat
    PROVE  E[x + i][y + i] >= E[x][y]
  <1> DEFINE S == {j \in 0 .. i : E[x + j][y + j] >= E[x][y]}
  <1>1. 0 \in S
    <2>1. x + 0 = x /\ y + 0 = y
      OBVIOUS
    <2>2. E[x][y] \in Nat
      BY EditsAtLeast
    <2> QED
      BY <2>1, <2>2
  <1>2. ASSUME NEW j \in 0 .. i, j # i, j \in S
        PROVE  j + 1 \in S
    <2>1. PICK a \in Nat, b \in Nat : a = x + j /\ b = y + j
      OBVIOUS
    <2>2. /\ E[a + 1][b + 1] >= E[a][b] /\ E[a][b] \in Nat /\ E[a + 1][b + 1] \in Nat
      BY EditsAtLeast
    <2>3. E[a][b] >= E[x][y] /\ E[x][y] \in Nat
      BY <1>2, <2>1, EditsAtLeast
    <2>4. E[a + 1][b + 1] >= E[x][y]
      BY <2>2, <2>3
    <2>5. a + 1 = x + (j + 1) /\ b + 1 = y + (j + 1)
      BY <2>1
    <2>6. E[x + (j + 1)][y + (j + 1)] >= E[x][y]
      BY <2>4, <2>5
    <2> QED
      BY <1>2, <2>6
  <1>3. 0 .. i \subseteq S
    <2> HIDE DEF S
    <2> QED
      BY <1>1, <1>2, InductionUpTo
  <1>4. i \in S
    BY <1>3
  <1> QED
    BY <1>4

(* f elements of the first sequence is the furthest that d edits lead to on *)
(* the diagonal k.                                                          *)
Far(E, d, k, f) ==
    f \in Nat /\ f - k \in Nat /\ E[f][f - k] <= d /\ E[f + 1][f + 1 - k] > d

LEMMA FarIs ==
    ASSUME NEW E, NEW P, NEW n \in Nat, NEW m \in Nat, IsEdits(E, P, n, m),
           NEW d \in Int, NEW k \in Int, NEW f, Far(E, d, k, f),
           NEW x \in Nat, x - k \in Nat
    PROVE  E[x][x - k] <= d <=> x <= f
  <1>0. f \in Nat /\ f - k \in Nat /\ E[f][f - k] <= d /\ E[f + 1][f + 1 - k] > d
    BY DEF Far
  <1>1. PICK y \in Nat, h \in Nat : y = x - k /\ h = f - k
    BY <1>0
  <1>2. f + 1 - k = h + 1 /\ f + 1 \in Nat /\ h + 1 \in Nat
    BY <1>0, <1>1
  <1>3. E[x][y] \in Nat /\ E[f][h] \in Nat /\ E[f + 1][h + 1] \in Nat
    BY <1>0, EditsAtLeast
  <1>4. CASE x <= f
    <2>1. PICK i \in Nat : i = f - x
      BY <1>0, <1>4
    <2>2. x + i = f /\ y + i = h
      BY <1>0, <1>1, <2>1
    <2>3. E[x + i][y + i] >= E[x][y]
      BY AlongDiagonal
    <2>4. E[f][h] >= E[x][y]
      BY <2>2, <2>3
    <2>5. E[f][h] <= d
      BY <1>0, <1>1
    <2>6. E[x][y] <= d
      BY <1>3, <2>4, <2>5
    <2> QED
      BY <1>1, <1>4, <2>6
  <1>5. CASE ~(x <= f)
    <2>1. PICK i \in Nat : i = x - (f + 1)
      BY <1>0, <1>5
    <2>2. (f + 1) + i = x /\ (h + 1) + i = y
      BY <1>0, <1>1, <2>1
    <2>3. E[(f + 1) + i][(h + 1) + i] >= E[f + 1][h + 1]
      BY <1>0, <1>2, AlongDiagonal
    <2>4. E[x][y] >= E[f + 1][h + 1]
      BY <2>2, <2>3
    <2>5. E[f + 1][h + 1] > d
      BY <1>0, <1>2
    <2>6. ~(E[x][y] <= d)
      BY <1>3, <2>4, <2>5
    <2> QED
      BY <1>1, <1>5, <2>6
  <1> QED
    BY <1>4, <1>5

LEMMA FarIsFurthest ==
    ASSUME NEW r, N(r) \in Nat, M(r) \in Nat,
           NEW P, P \subseteq Indexes(N(r)) \X Indexes(M(r)),
           NEW E, E = Edits(P, r),
           NEW d \in Nat, NEW k \in Int, NEW f, Far(E, d, k, f)
    PROVE  Furthest(P, r, d, k) = f
  <1>0. PICK n \in Nat, m \in Nat : n = N(r) /\ m = M(r)
    OBVIOUS
  <1>1. IsEdits(E, P, n, m)
    BY <1>0, EditsOfLcs
  <1>2. \A x, y \in Nat : EditsTo(P, r, x, y) = E[x][y]
    BY DEF Edits
  <1> DEFINE S == {x \in Max({0, k}) .. N(r) + d : EditsTo(P, r, x, x - k) <= d}
  <1>3. Max({0, k}) = IF 0 >= k THEN 0 ELSE k
    BY OfTwo, 0 \in Int
  <1>4. \A x \in Max({0, k}) .. N(r) + d : x \in Nat /\ x - k \in Nat
    BY <1>3
  <1>5. f \in Nat /\ f - k \in Nat /\ E[f][f - k] <= d
    BY DEF Far
  <1>6. f \in S
    <2>1. PICK y \in Nat : y = f - k
      BY <1>5
    <2>2. E[f][y] >= f - n /\ E[f][y] \in Nat
      BY <1>1, <1>5, EditsAtLeast
    <2>3. E[f][y] <= d
      BY <1>5, <2>1
    <2>4. f <= n + d
      BY <1>5, <2>2, <2>3
    <2>5. f \in Max({0, k}) .. N(r) + d
      BY <1>0, <1>3, <1>5, <2>4
    <2>6. EditsTo(P, r, f, f - k) <= d
      BY <1>2, <1>5, <2>1, <2>3
    <2> QED
      BY <2>5, <2>6
  <1>7. ASSUME NEW x \in S
        PROVE  x \in Nat /\ x <= f
    <2>1. x \in Nat /\ x - k \in Nat /\ EditsTo(P, r, x, x - k) <= d
      BY <1>4
    <2>2. E[x][x - k] <= d
      BY <1>2, <2>1
    <2> QED
      <3>1. d \in Int /\ Far(E, d, k, f)
        OBVIOUS
      <3>2. E[x][x - k] <= d <=> x <= f
        BY <1>1, <2>1, <3>1, FarIs, Zenon
      <3> QED
        BY <2>1, <2>2, <3>2, Zenon
  <1>8. Max(S) \in S /\ \A x \in S : x <= Max(S)
    <2>1. S \subseteq Nat /\ S # {} /\ \A x \in S : x <= f
      BY <1>6, <1>7
    <2> HIDE DEF S
    <2> QED
      BY <1>5, <2>1, GreatestNumber
  <1>9. Max(S) = f
    <2> HIDE DEF S
    <2>1. Max(S) \in Nat /\ Max(S) <= f /\ f <= Max(S)
      BY <1>6, <1>7, <1>8
    <2> QED
      BY <1>5, <2>1
  <1> QED
    BY <1>9 DEF Furthest

(* The neighbours of a diagonal k from z on: not reached with d - 1 edits.  *)
Closed(E, d, k, x) ==
    \A z \in Nat : z >= x /\ z - k \in Nat => E[z + 1][z - k] >= d /\ E[z][z + 1 - k] >= d

(* Along elements that match no edit is needed; when the next ones do not,  *)
(* going on takes one more.                                                 *)
LEMMA RunIsFar ==
    ASSUME NEW E, NEW P, NEW n \in Nat, NEW m \in Nat, IsEdits(E, P, n, m),
           NEW d \in Int, NEW k \in Int, NEW x \in Nat, x - k \in Nat,
           E[x][x - k] <= d, Closed(E, d, k, x), NEW e \in Nat,
           \A i \in 0 .. e - 1 : <<x + i, x - k + i>> \in P, <<x + e, x - k + e>> \notin P
    PROVE  Far(E, d, k, x + e)
  <1>0. PICK y \in Nat : y = x - k
    OBVIOUS
  <1> DEFINE S == {i \in 0 .. e : E[x + i][y + i] <= d}
  <1>1. 0 \in S
    <2>1. x + 0 = x /\ y + 0 = y /\ 0 \in 0 .. e
      OBVIOUS
    <2> QED
      BY <1>0, <2>1
  <1>2. ASSUME NEW i \in 0 .. e, i # e, i \in S
        PROVE  i + 1 \in S
    <2>1. PICK a \in Nat, b \in Nat : a = x + i /\ b = y + i
      OBVIOUS
    <2>2. i \in 0 .. e - 1
      BY <1>2
    <2>3. <<a, b>> \in P
      BY <1>0, <2>1, <2>2
    <2>4. E[a + 1][b + 1] = E[a][b]
      BY <2>3 DEF IsEdits, Matched
    <2>5. a + 1 = x + (i + 1) /\ b + 1 = y + (i + 1) /\ E[a][b] <= d
      BY <1>2, <2>1
    <2>6. E[x + (i + 1)][y + (i + 1)] <= d
      BY <2>4, <2>5
    <2> QED
      BY <2>2, <2>6
  <1>3. 0 .. e \subseteq S
    <2> HIDE DEF S
    <2> QED
      BY <1>1, <1>2, InductionUpTo
  <1>4. PICK f \in Nat, h \in Nat : f = x + e /\ h = y + e
    OBVIOUS
  <1>5. E[f][h] <= d
    <2>1. e \in S
      BY <1>3
    <2> QED
      BY <1>4, <2>1
  <1>6. f - k = h /\ f >= x /\ f + 1 - k = h + 1
    BY <1>0, <1>4
  <1>7. E[f + 1][h] >= d /\ E[f][h + 1] >= d
    <2>1. f - k \in Nat
      BY <1>6
    <2>2. E[f + 1][f - k] >= d /\ E[f][f + 1 - k] >= d
      BY <1>6, <2>1 DEF Closed
    <2> QED
      BY <1>6, <2>2
  <1>8. <<f, h>> \notin P
    BY <1>0, <1>4
  <1>9. E[f + 1][h + 1] = E[f + 1][h] + 1 \/ E[f + 1][h + 1] = E[f][h + 1] + 1
    BY <1>8 DEF IsEdits, Matched
  <1>10. E[f + 1][h] \in Nat /\ E[f][h + 1] \in Nat /\ E[f + 1][h + 1] \in Nat
    BY EditsAtLeast
  <1>11. E[f + 1][h + 1] > d
    BY <1>7, <1>9, <1>10
  <1>12. Far(E, d, k, f)
    BY <1>5, <1>6, <1>11 DEF Far
  <1> QED
    BY <1>4, <1>12

(* Where the paths with d edits begin on the diagonal k: to the right of the *)
(* furthest point of the diagonal below, or below that of the one above.    *)
Begins(E, d, k, a, b, x) ==
    IF d = 0 THEN x = 0
    ELSE /\ k # d => Far(E, d - 1, k + 1, b)
         /\ k # -d => Far(E, d - 1, k - 1, a)
         /\ x = IF k = -d \/ (k # d /\ a < b) THEN b ELSE a + 1

LEMMA StepIsClosed ==
    ASSUME NEW E, NEW P, NEW n \in Nat, NEW m \in Nat, IsEdits(E, P, n, m),
           NEW d \in Nat, NEW k \in -d .. d, NEW a, NEW b, NEW x, Begins(E, d, k, a, b, x)
    PROVE  x \in Nat /\ x - k \in Nat /\ E[x][x - k] <= d /\ Closed(E, d, k, x)
  <1>1. CASE d = 0
    <2>1. k = 0 /\ x = 0 /\ x - k = 0
      BY <1>1 DEF Begins
    <2>2. E[x][x - k] = 0
      BY <2>1 DEF IsEdits
    <2>3. Closed(E, d, k, x)
      <3> SUFFICES ASSUME NEW z \in Nat, z >= x, z - k \in Nat
                   PROVE  E[z + 1][z - k] >= d /\ E[z][z + 1 - k] >= d
        BY DEF Closed
      <3>1. z - k = z /\ z + 1 - k = z + 1
        BY <2>1
      <3>2. E[z + 1][z] \in Nat /\ E[z][z + 1] \in Nat
        BY EditsAtLeast
      <3> QED
        BY <1>1, <3>1, <3>2
    <2> QED
      BY <1>1, <2>1, <2>2, <2>3
  <1>2. CASE d # 0
    <2>1. /\ k # d => Far(E, d - 1, k + 1, b)
          /\ k # -d => Far(E, d - 1, k - 1, a)
          /\ x = IF k = -d \/ (k # d /\ a < b) THEN b ELSE a + 1
      BY <1>2 DEF Begins
    <2>2. k \in Int /\ k + 1 \in Int /\ k - 1 \in Int /\ d - 1 \in Int
      OBVIOUS
    <2>3. /\ k # d => b \in Nat /\ b - (k + 1) \in Nat /\ E[b][b - (k + 1)] <= d - 1
          /\ k # -d => a \in Nat /\ a - (k - 1) \in Nat /\ E[a][a - (k - 1)] <= d - 1
      BY <2>1 DEF Far
    <2>4. x \in Nat /\ x - k \in Nat /\ E[x][x - k] <= d /\ (k # d => x >= b) /\ (k # -d => x >= a + 1)
      <3>1. CASE k = -d \/ (k # d /\ a < b)
        <4>1. x = b /\ k # d
          BY <1>2, <2>1, <3>1
        <4>2. PICK y \in Nat : y = b - (k + 1)
          BY <2>3, <4>1
        <4>3. b \in Nat /\ E[b][y] <= d - 1
          BY <2>3, <4>1, <4>2
        <4>4. E[b][y] \in Nat /\ E[b][y + 1] \in Nat
          BY <4>3, EditsAtLeast
        <4>5. E[b][y + 1] = E[b][y] + 1 \/ E[b][y + 1] = E[b][y] - 1
          BY <4>3 DEF IsEdits, UnitSteps
        <4>6. E[b][y + 1] <= d
          BY <4>3, <4>4, <4>5
        <4>7. b - k = y + 1
          BY <4>2, <4>3
        <4>8. k # -d => x >= a + 1
          BY <2>3, <3>1, <4>1, <4>3
        <4> QED
          BY <4>1, <4>3, <4>6, <4>7, <4>8
      <3>2. CASE ~(k = -d \/ (k # d /\ a < b))
        <4>1. x = a + 1 /\ k # -d
          BY <2>1, <3>2
        <4>2. PICK y \in Nat : y = a - (k - 1)
          BY <2>3, <4>1
        <4>3. a \in Nat /\ E[a][y] <= d - 1
          BY <2>3, <4>1, <4>2
        <4>4. E[a][y] \in Nat /\ E[a + 1][y] \in Nat
          BY <4>3, EditsAtLeast
        <4>5. E[a + 1][y] = E[a][y] + 1 \/ E[a + 1][y] = E[a][y] - 1
          BY <4>3 DEF IsEdits, UnitSteps
        <4>6. E[a + 1][y] <= d
          BY <4>3, <4>4, <4>5
        <4>7. (a + 1) - k = y /\ a + 1 \in Nat
          BY <4>2, <4>3
        <4>8. k # d => x >= b
          BY <2>3, <3>2, <4>1, <4>3
        <4> QED
          BY <4>1, <4>6, <4>7, <4>8
      <3> QED
        BY <3>1, <3>2
    <2>5. ASSUME NEW z \in Nat, z >= x, z - k \in Nat
          PROVE  E[z + 1][z - k] >= d /\ E[z][z + 1 - k] >= d
      <3>1. PICK y \in Nat : y = z - k
        BY <2>5
      <3>2. /\ E[z + 1][y] \in Nat /\ E[z][y + 1] \in Nat /\ z + 1 \in Nat /\ y + 1 \in Nat
        <4>1. E[z + 1][y] \in Nat /\ E[z][y + 1] \in Nat
          BY EditsAtLeast
        <4> QED
          BY <4>1
      <3>3. E[z + 1][y] >= d
        <4>1. CASE k = d
          <5>1. E[z + 1][y] >= (z + 1) - y
            BY <3>2, EditsAtLeast
          <5> QED
            BY <3>1, <3>2, <4>1, <5>1
        <4>2. CASE k # d
          <5>1. (z + 1) - (k + 1) = y /\ z + 1 > b /\ b \in Nat
            BY <2>3, <2>4, <2>5, <3>1, <4>2
          <5>2. E[z + 1][(z + 1) - (k + 1)] <= d - 1 <=> z + 1 <= b
            <6>1. PICK u \in Nat, c \in Int : u = z + 1 /\ c = k + 1
              BY <2>2
            <6>2. Far(E, d - 1, c, b) /\ u - c \in Nat
              BY <2>1, <4>2, <5>1, <6>1
            <6>3. E[u][u - c] <= d - 1 <=> u <= b
              BY <2>2, <6>2, FarIs
            <6> QED
              BY <6>1, <6>3
          <5>3. ~(E[z + 1][y] <= d - 1)
            BY <5>1, <5>2
          <5> QED
            BY <3>2, <5>3
        <4> QED
          BY <4>1, <4>2
      <3>4. E[z][y + 1] >= d
        <4>1. CASE k = -d
          <5>1. E[z][y + 1] >= (y + 1) - z
            BY <3>2, EditsAtLeast
          <5> QED
            BY <3>1, <3>2, <4>1, <5>1
        <4>2. CASE k # -d
          <5>1. z - (k - 1) = y + 1 /\ z > a /\ a \in Nat
            BY <2>3, <2>4, <2>5, <3>1, <4>2
          <5>2. E[z][z - (k - 1)] <= d - 1 <=> z <= a
            <6>1. PICK c \in Int : c = k - 1
              BY <2>2
            <6>2. Far(E, d - 1, c, a) /\ z - c \in Nat
              BY <2>1, <4>2, <5>1, <6>1
            <6>3. E[z][z - c] <= d - 1 <=> z <= a
              BY <2>2, <6>2, FarIs
            <6> QED
              BY <6>1, <6>3
          <5>3. ~(E[z][y + 1] <= d - 1)
            BY <5>1, <5>2
          <5> QED
            BY <3>2, <5>3
        <4> QED
          BY <4>1, <4>2
      <3> QED
        BY <3>1, <3>3, <3>4, z + 1 - k = y + 1
    <2> QED
      BY <2>4, <2>5 DEF Closed
  <1> QED
    BY <1>1, <1>2

-----------------------------------------------------------------------------
(* The same two sequences from their other ends: x and y elements are left  *)
(* where n - x and m - y have been consumed.                                *)
Opposite(P, Q, n, m) ==
    \A x \in 0 .. n - 1, y \in 0 .. m - 1 : <<x, y>> \in Q <=> <<n - 1 - x, m - 1 - y>> \in P

LEMMA OppositeOfOpposite ==
    ASSUME NEW P, NEW Q, NEW n \in Nat, NEW m \in Nat, Opposite(P, Q, n, m)
    PROVE  Opposite(Q, P, n, m)
  <1> SUFFICES ASSUME NEW x \in 0 .. n - 1, NEW y \in 0 .. m - 1
               PROVE  <<x, y>> \in P <=> <<n - 1 - x, m - 1 - y>> \in Q
    BY DEF Opposite
  <1>1. PICK u \in 0 .. n - 1, v \in 0 .. m - 1 : u = n - 1 - x /\ v = m - 1 - y
    OBVIOUS
  <1>2. n - 1 - u = x /\ m - 1 - v = y
    BY <1>1
  <1>3. <<u, v>> \in Q <=> <<n - 1 - u, m - 1 - v>> \in P
    BY DEF Opposite
  <1> QED
    BY <1>1, <1>2, <1>3

(* Through any point the way is at least as long as the shortest one.       *)
LEMMA Through ==
    ASSUME NEW n \in Nat, NEW m \in Nat, NEW E, NEW P, IsEdits(E, P, n, m),
           NEW B, NEW Q, IsEdits(B, Q, n, m), Opposite(P, Q, n, m)
    PROVE  \A x \in 0 .. n, y \in 0 .. m : E[n][m] <= E[n - x][m - y] + B[x][y]
  <1>0. PICK D \in Nat : D = E[n][m]
    BY EditsAtLeast
  <1> DEFINE T(x, y) == D <= E[n - x][m - y] + B[x][y]
             S == {s \in 0 .. n + m : \A x \in 0 .. n, y \in 0 .. m : x + y <= s => T(x, y)}
  <1>1. ASSUME NEW x \in 0 .. n, NEW y \in 0 .. m
        PROVE  /\ n - x \in Nat /\ m - y \in Nat /\ x \in Nat /\ y \in Nat
               /\ E[n - x][m - y] \in Nat /\ B[x][y] \in Nat
    <2>1. PICK u \in Nat, v \in Nat : u = n - x /\ v = m - y /\ x \in Nat /\ y \in Nat
      OBVIOUS
    <2>2. E[u][v] \in Nat
      BY EditsAtLeast
    <2>3. B[x][y] \in Nat
      BY <2>1, EditsAtLeast
    <2> QED
      BY <2>1, <2>2, <2>3
  <1>2. T(0, 0)
    <2>1. B[0][0] = 0
      BY DEF IsEdits
    <2>2. n - 0 = n /\ m - 0 = m
      OBVIOUS
    <2> QED
      BY <1>0, <2>1, <2>2
  <1>3. ASSUME NEW x \in 0 .. n, NEW y \in 0 .. m, x = 0 \/ y = 0, x # 0 \/ y # 0,
               x # 0 => T(x - 1, y), y # 0 => T(x, y - 1)
        PROVE  T(x, y)
    <2>1. CASE x # 0
      <3>1. PICK p \in 0 .. n : p = x - 1 /\ p + 1 = x /\ y = 0 /\ y \in Nat
        BY <1>3, <2>1
      <3>2. PICK u \in Nat, v \in Nat : u = n - x /\ v = m - y
        OBVIOUS
      <3>3. n - p = u + 1
        BY <3>1, <3>2
      <3>4. D <= E[u + 1][v] + B[p][y]
        BY <1>3, <2>1, <3>1, <3>2, <3>3
      <3>5. B[p][y] = p /\ B[x][y] = x
        BY <1>1, <3>1 DEF IsEdits
      <3>6. E[u + 1][v] = E[u][v] + 1 \/ E[u + 1][v] = E[u][v] - 1
        BY DEF IsEdits, UnitSteps
      <3>7. E[u][v] \in Nat /\ E[u + 1][v] \in Nat
        BY EditsAtLeast
      <3>8. D <= E[u][v] + B[x][y]
        BY <3>1, <3>4, <3>5, <3>6, <3>7
      <3> QED
        BY <3>2, <3>8
    <2>2. CASE y # 0
      <3>1. PICK p \in 0 .. m : p = y - 1 /\ p + 1 = y /\ x = 0 /\ x \in Nat
        BY <1>3, <2>2
      <3>2. PICK u \in Nat, v \in Nat : u = n - x /\ v = m - y
        OBVIOUS
      <3>3. m - p = v + 1
        BY <3>1, <3>2
      <3>4. D <= E[u][v + 1] + B[x][p]
        BY <1>3, <2>2, <3>1, <3>2, <3>3
      <3>5. B[x][p] = p /\ B[x][y] = y
        BY <1>1, <3>1 DEF IsEdits
      <3>6. E[u][v + 1] = E[u][v] + 1 \/ E[u][v + 1] = E[u][v] - 1
        BY DEF IsEdits, UnitSteps
      <3>7. E[u][v] \in Nat /\ E[u][v + 1] \in Nat
        BY EditsAtLeast
      <3>8. D <= E[u][v] + B[x][y]
        BY <3>1, <3>4, <3>5, <3>6, <3>7
      <3> QED
        BY <3>2, <3>8
    <2> QED
      BY <1>3, <2>1, <2>2
  <1>4. ASSUME NEW x \in 0 .. n, NEW y \in 0 .. m, x # 0, y # 0,
               T(x - 1, y - 1), T(x - 1, y), T(x, y - 1)
        PROVE  T(x, y)
    <2>1. PICK p \in Nat, q \in Nat : p = x - 1 /\ q = y - 1 /\ p + 1 = x /\ q + 1 = y
      BY <1>4
    <2>2. PICK u \in Nat, v \in Nat : u = n - x /\ v = m - y
      OBVIOUS
    <2>3. n - p = u + 1 /\ m - q = v + 1 /\ p \in 0 .. n - 1 /\ q \in 0 .. m - 1
          /\ n - 1 - p = u /\ m - 1 - q = v
      BY <2>1, <2>2
    <2>4. D <= E[u + 1][v + 1] + B[p][q] /\ D <= E[u + 1][v] + B[p][y] /\ D <= E[u][v + 1] + B[x][q]
      BY <1>4, <2>1, <2>2, <2>3
    <2>5. /\ E[u][v] \in Nat /\ E[u + 1][v] \in Nat /\ E[u][v + 1] \in Nat /\ E[u + 1][v + 1] \in Nat
      BY EditsAtLeast
    <2>6. /\ B[p][q] \in Nat /\ B[p + 1][q] \in Nat /\ B[p][q + 1] \in Nat /\ B[p + 1][q + 1] \in Nat
      BY EditsAtLeast
    <2>7. CASE <<p, q>> \in Q
      <3>1. <<u, v>> \in P
        BY <2>3, <2>7 DEF Opposite
      <3>2. E[u + 1][v + 1] = E[u][v]
        BY <3>1 DEF IsEdits, Matched
      <3>3. B[x][y] = B[p][q]
        BY <2>1, <2>7 DEF IsEdits, Matched
      <3> QED
        BY <2>2, <2>4, <3>2, <3>3
    <2>8. CASE <<p, q>> \notin Q
      <3>1. B[p + 1][q + 1] = B[p + 1][q] + 1 \/ B[p + 1][q + 1] = B[p][q + 1] + 1
        BY <2>8 DEF IsEdits, Matched
      <3>2. /\ E[u + 1][v] = E[u][v] + 1 \/ E[u + 1][v] = E[u][v] - 1
            /\ E[u][v + 1] = E[u][v] + 1 \/ E[u][v + 1] = E[u][v] - 1
        <4>1. UnitSteps(E)
          BY DEF IsEdits
        <4> QED
          BY <4>1 DEF UnitSteps
      <3>3. D <= E[u + 1][v] + B[p][q + 1] /\ D <= E[u][v + 1] + B[p + 1][q]
        BY <2>1, <2>4
      <3>4. D <= E[u][v] + B[p + 1][q + 1]
        BY <2>5, <2>6, <3>1, <3>2, <3>3
      <3> QED
        BY <2>1, <2>2, <3>4
    <2> QED
      BY <2>7, <2>8
  <1> HIDE DEF T
  <1>5. 0 \in S
    <2>1. \A x \in 0 .. n, y \in 0 .. m : x + y <= 0 => x = 0 /\ y = 0
      OBVIOUS
    <2> QED
      BY <1>2, <2>1
  <1>6. ASSUME NEW s \in 0 .. n + m, s # n + m, s \in S
        PROVE  s + 1 \in S
    <2> SUFFICES ASSUME NEW x \in 0 .. n, NEW y \in 0 .. m, x + y <= s + 1
                 PROVE  T(x, y)
      BY <1>6
    <2>1. \A p \in 0 .. n, q \in 0 .. m : p + q <= s => T(p, q)
      BY <1>6
    <2>2. x # 0 => x - 1 \in 0 .. n /\ (x - 1) + y <= s
      OBVIOUS
    <2>3. y # 0 => y - 1 \in 0 .. m /\ x + (y - 1) <= s
      OBVIOUS
    <2>4. x # 0 /\ y # 0 => (x - 1) + (y - 1) <= s
      BY <1>6
    <2>5. (x # 0 => T(x - 1, y)) /\ (y # 0 => T(x, y - 1)) /\ (x # 0 /\ y # 0 => T(x - 1, y - 1))
      BY <2>1, <2>2, <2>3, <2>4
    <2> QED
      BY <1>2, <1>3, <1>4, <2>5
  <1>7. 0 .. n + m \subseteq S
    <2> HIDE DEF S
    <2>1. n + m \in Nat
      OBVIOUS
    <2> QED
      BY <1>5, <1>6, <2>1, InductionUpTo
  <1>8. ASSUME NEW x \in 0 .. n, NEW y \in 0 .. m
        PROVE  T(x, y)
    <2>1. n + m \in S /\ x + y <= n + m
      BY <1>7
    <2> QED
      BY <2>1
  <1> QED
    BY <1>0, <1>8 DEF T

(* Some shortest way takes e edits to a point, any e, and the rest from it. *)
OnShortest(E, B, n, m, c, x, y) ==
    x \in 0 .. n /\ y \in 0 .. m /\ E[n - x][m - y] = E[n][m] - c /\ B[x][y] = c

LEMMA NextOnShortest ==
    ASSUME NEW n \in Nat, NEW m \in Nat, NEW E, NEW P, IsEdits(E, P, n, m),
           NEW B, NEW Q, IsEdits(B, Q, n, m), Opposite(P, Q, n, m),
           NEW c \in Nat, c < E[n][m], NEW x, NEW y, OnShortest(E, B, n, m, c, x, y)
    PROVE  \/ OnShortest(E, B, n, m, c + 1, x + 1, y) \/ OnShortest(E, B, n, m, c + 1, x, y + 1)
           \/ OnShortest(E, B, n, m, c, x + 1, y + 1)
  <1>0. PICK D \in Nat : D = E[n][m]
    BY EditsAtLeast
  <1>1. x \in 0 .. n /\ y \in 0 .. m /\ x \in Nat /\ y \in Nat
    BY DEF OnShortest
  <1>2. PICK u \in Nat, v \in Nat : u = n - x /\ v = m - y
    BY <1>1
  <1>3. E[u][v] = D - c /\ B[x][y] = c /\ c < D
    BY <1>0, <1>2 DEF OnShortest
  <1>4. ASSUME u # 0, E[u - 1][v] = D - c - 1
        PROVE  OnShortest(E, B, n, m, c + 1, x + 1, y)
    <2>1. x + 1 \in 0 .. n /\ n - (x + 1) = u - 1
      BY <1>1, <1>2, <1>4
    <2>2. B[x][y] \in Nat /\ B[x + 1][y] \in Nat
      BY <1>1, EditsAtLeast
    <2>3. B[x + 1][y] = B[x][y] + 1 \/ B[x + 1][y] = B[x][y] - 1
      BY <1>1 DEF IsEdits, UnitSteps
    <2>4. D <= E[u - 1][v] + B[x + 1][y]
      <3>1. E[n][m] <= E[n - (x + 1)][m - y] + B[x + 1][y]
        BY <1>1, <2>1, Through
      <3> QED
        BY <1>0, <1>2, <2>1, <3>1
    <2>5. B[x + 1][y] = c + 1
      BY <1>3, <1>4, <2>2, <2>3, <2>4
    <2>6. D - (c + 1) = D - c - 1
      OBVIOUS
    <2> QED
      BY <1>0, <1>1, <1>2, <1>4, <2>1, <2>5, <2>6 DEF OnShortest
  <1>5. ASSUME v # 0, E[u][v - 1] = D - c - 1
        PROVE  OnShortest(E, B, n, m, c + 1, x, y + 1)
    <2>1. y + 1 \in 0 .. m /\ m - (y + 1) = v - 1
      BY <1>1, <1>2, <1>5
    <2>2. B[x][y] \in Nat /\ B[x][y + 1] \in Nat
      BY <1>1, EditsAtLeast
    <2>3. B[x][y + 1] = B[x][y] + 1 \/ B[x][y + 1] = B[x][y] - 1
      BY <1>1 DEF IsEdits, UnitSteps
    <2>4. D <= E[u][v - 1] + B[x][y + 1]
      <3>1. E[n][m] <= E[n - x][m - (y + 1)] + B[x][y + 1]
        BY <1>1, <2>1, Through
      <3> QED
        BY <1>0, <1>2, <2>1, <3>1
    <2>5. B[x][y + 1] = c + 1
      BY <1>3, <1>5, <2>2, <2>3, <2>4
    <2>6. D - (c + 1) = D - c - 1
      OBVIOUS
    <2> QED
      BY <1>0, <1>1, <1>2, <1>5, <2>1, <2>5, <2>6 DEF OnShortest
  <1>6. CASE u = 0
    <2>1. E[u][v] = v
      BY <1>6 DEF IsEdits
    <2>2. v # 0 /\ v - 1 \in Nat /\ v = D - c
      BY <1>3, <2>1
    <2>3. E[u][v - 1] = v - 1
      BY <1>6, <2>2 DEF IsEdits
    <2> QED
      BY <1>5, <2>2, <2>3
  <1>7. CASE v = 0
    <2>1. E[u][v] = u
      BY <1>7 DEF IsEdits
    <2>2. u # 0 /\ u - 1 \in Nat /\ u = D - c
      BY <1>3, <2>1
    <2>3. E[u - 1][v] = u - 1
      BY <1>7, <2>2 DEF IsEdits
    <2> QED
      BY <1>4, <2>2, <2>3
  <1>8. CASE u # 0 /\ v # 0
    <2>1. PICK p \in Nat, q \in Nat : p = u - 1 /\ q = v - 1 /\ p + 1 = u /\ q + 1 = v
      BY <1>8
    <2>2. /\ E[p][q] \in Nat /\ E[p + 1][q] \in Nat /\ E[p][q + 1] \in Nat /\ E[p + 1][q + 1] \in Nat
      BY EditsAtLeast
    <2>3. CASE <<p, q>> \in P
      <3>1. E[p + 1][q + 1] = E[p][q]
        BY <2>3 DEF IsEdits, Matched
      <3>2. /\ x \in 0 .. n - 1 /\ y \in 0 .. m - 1 /\ n - 1 - x = p /\ m - 1 - y = q
            /\ x + 1 \in 0 .. n /\ y + 1 \in 0 .. m /\ n - (x + 1) = p /\ m - (y + 1) = q
        BY <1>1, <1>2, <2>1
      <3>3. <<x, y>> \in Q
        BY <2>3, <3>2 DEF Opposite
      <3>4. B[x + 1][y + 1] = B[x][y]
        BY <1>1, <3>3 DEF IsEdits, Matched
      <3>5. OnShortest(E, B, n, m, c, x + 1, y + 1)
        BY <1>0, <1>3, <2>1, <3>1, <3>2, <3>4 DEF OnShortest
      <3> QED
        BY <3>5
    <2>4. CASE <<p, q>> \notin P
      <3>1. E[p + 1][q + 1] = E[p + 1][q] + 1 \/ E[p + 1][q + 1] = E[p][q + 1] + 1
        BY <2>4 DEF IsEdits, Matched
      <3>2. E[p + 1][q] = D - c - 1 \/ E[p][q + 1] = D - c - 1
        BY <1>3, <2>1, <2>2, <3>1
      <3> QED
        BY <1>4, <1>5, <1>8, <2>1, <3>2
    <2> QED
      BY <2>3, <2>4
  <1> QED
    BY <1>6, <1>7, <1>8

LEMMA PointOnShortest ==
    ASSUME NEW n \in Nat, NEW m \in Nat, NEW E, NEW P, IsEdits(E, P, n, m),
           NEW B, NEW Q, IsEdits(B, Q, n, m), Opposite(P, Q, n, m),
           NEW c \in Nat, c <= E[n][m]
    PROVE  \E x, y \in Nat : OnShortest(E, B, n, m, c, x, y)
  <1>0. PICK D \in Nat : D = E[n][m]
    BY EditsAtLeast
  <1> DEFINE On(i) == \E x, y \in Nat : OnShortest(E, B, n, m, i, x, y)
             S == {i \in 0 .. c : On(i)}
  <1>1. 0 \in S
    <2>1. B[0][0] = 0
      BY DEF IsEdits
    <2>2. n - 0 = n /\ m - 0 = m /\ D - 0 = D
      OBVIOUS
    <2>3. OnShortest(E, B, n, m, 0, 0, 0)
      BY <1>0, <2>1, <2>2 DEF OnShortest
    <2> QED
      BY <2>3
  <1>2. ASSUME NEW i \in 0 .. c, i # c, i \in S
        PROVE  i + 1 \in S
    <2>0. i \in Nat /\ i < E[n][m]
      BY <1>0, <1>2
    <2> DEFINE Left == {l \in 0 .. n : \E x, y \in Nat : OnShortest(E, B, n, m, i, x, y) /\ l = n - x}
    <2>1. Left \subseteq Nat /\ Left # {}
      <3>1. PICK x \in Nat, y \in Nat : OnShortest(E, B, n, m, i, x, y)
        BY <1>2
      <3>2. n - x \in 0 .. n
        BY <3>1 DEF OnShortest
      <3> QED
        BY <3>1, <3>2
    <2>2. PICK l \in Left : \A j \in Left : l <= j
      <3> HIDE DEF Left
      <3> QED
        BY <2>1, LeastNumber
    <2>3. PICK x \in Nat, y \in Nat : OnShortest(E, B, n, m, i, x, y) /\ l = n - x
      BY <2>2
    <2>4. ~OnShortest(E, B, n, m, i, x + 1, y + 1)
      <3> SUFFICES ASSUME OnShortest(E, B, n, m, i, x + 1, y + 1)
                   PROVE  FALSE
        OBVIOUS
      <3>1. x + 1 \in Nat /\ y + 1 \in Nat /\ n - (x + 1) \in 0 .. n
        BY DEF OnShortest
      <3>2. n - (x + 1) \in Left
        BY <3>1
      <3>3. l <= n - (x + 1)
        BY <2>2, <3>2
      <3> HIDE DEF Left
      <3> QED
        BY <2>3, <3>3
    <2>5. OnShortest(E, B, n, m, i + 1, x + 1, y) \/ OnShortest(E, B, n, m, i + 1, x, y + 1)
      <3> HIDE DEF Left
      <3> QED
        BY <2>0, <2>3, <2>4, NextOnShortest
    <2>6. On(i + 1)
      BY <2>5, x + 1 \in Nat, y + 1 \in Nat
    <2> QED
      BY <1>2, <2>6, i + 1 \in 0 .. c
  <1>3. 0 .. c \subseteq S
    <2> HIDE DEF S
    <2> QED
      BY <1>1, <1>2, InductionUpTo
  <1>4. c \in S
    BY <1>3
  <1> QED
    BY <1>4

(* Back and forth it is as long.                                            *)
LEMMA SameLength ==
    ASSUME NEW n \in Nat, NEW m \in Nat, NEW E, NEW P, IsEdits(E, P, n, m),
           NEW B, NEW Q, IsEdits(B, Q, n, m), Opposite(P, Q, n, m)
    PROVE  E[n][m] = B[n][m]
  <1>1. Opposite(Q, P, n, m)
    BY OppositeOfOpposite
  <1>2. n \in 0 .. n /\ m \in 0 .. m /\ n - n = 0 /\ m - m = 0
    OBVIOUS
  <1>3. E[0][0] = 0 /\ B[0][0] = 0
    BY DEF IsEdits
  <1>4. E[n][m] <= E[n - n][m - m] + B[n][m]
    BY <1>2, Through
  <1>5. B[n][m] <= B[n - n][m - m] + E[n][m]
    BY <1>1, <1>2, Through
  <1>6. E[n][m] \in Nat
    BY EditsAtLeast
  <1>7. B[n][m] \in Nat
    BY EditsAtLeast
  <1> QED
    BY <1>2, <1>3, <1>4, <1>5, <1>6, <1>7

(* From a point on a shortest way the furthest reaching path does not leave *)
(* the sequences: from beyond them there would be a shorter one.            *)
LEMMA FarIsInside ==
    ASSUME NEW n \in Nat, NEW m \in Nat, NEW E, NEW P, IsEdits(E, P, n, m),
           NEW B, NEW Q, IsEdits(B, Q, n, m), Opposite(P, Q, n, m),
           NEW x \in 0 .. n, NEW y \in 0 .. m, NEW e \in Nat, NEW c \in Nat,
           E[x][y] = e, B[n - x][m - y] = c, e + c = E[n][m],
           NEW k \in Int, k = x - y, NEW f, Far(E, e, k, f)
    PROVE  x <= f /\ f <= n /\ f - k <= m
  <1>0. f \in Nat /\ f - k \in Nat /\ x \in Nat /\ y \in Nat
    BY DEF Far
  <1>1. x <= f
    <2>1. x - k \in Nat /\ e \in Int /\ E[x][x - k] <= e
      <3>1. x - k = y
        BY <1>0
      <3> QED
        BY <1>0, <3>1
    <2> QED
      BY <1>0, <2>1, FarIs
  <1>2. PICK u \in Nat, v \in Nat : u = n - x /\ v = m - y
    OBVIOUS
  <1>3. c >= u - v /\ c >= v - u
    BY <1>2, EditsAtLeast
  <1>4. ASSUME n - k <= m, f >= n + 1
        PROVE  FALSE
    <2>1. PICK h \in Nat : h = n + 1 - k
      BY <1>0
    <2>2. PICK z \in Nat : z = n + 1
      OBVIOUS
    <2>3. z - k = h /\ z <= f
      BY <1>4, <2>1, <2>2
    <2>4. E[z][z - k] <= e
      <3>1. e \in Int /\ z - k \in Nat
        BY <2>1, <2>3
      <3> QED
        BY <2>3, <3>1, FarIs
    <2>5. E[n + 1][h] <= e
      BY <2>2, <2>3, <2>4
    <2>6. E[n + 1][h] = E[n][h] + 1
      BY DEF IsEdits, Outside
    <2>7. E[n][h] \in Nat /\ E[n][m] \in Nat /\ E[n][m + 1] \in Nat
      BY EditsAtLeast
    <2>8. CASE h <= m
      <3>1. PICK w \in 0 .. m : w = m - h /\ m - w = h /\ w \in Nat
        BY <2>8
      <3>2. 0 \in 0 .. n /\ n - 0 = n
        OBVIOUS
      <3>3. E[n][m] <= E[n][h] + B[0][w]
        BY <3>1, <3>2, Through
      <3>4. B[0][w] = w
        BY <3>1 DEF IsEdits
      <3> QED
        BY <1>2, <1>3, <2>1, <2>5, <2>6, <2>7, <3>1, <3>3, <3>4
    <2>9. CASE h > m
      <3>1. h = m + 1
        BY <1>4, <2>1, <2>9
      <3>2. E[n][m + 1] = E[n][m] + 1
        BY DEF IsEdits, Outside
      <3> QED
        BY <2>5, <2>6, <2>7, <3>1, <3>2
    <2> QED
      BY <2>1, <2>8, <2>9
  <1>5. ASSUME n - k > m, f - k >= m + 1
        PROVE  FALSE
    <2>1. PICK h \in Nat : h = m + 1 + k
      BY <1>0
    <2>2. h - k = m + 1 /\ h <= f /\ h <= n
      BY <1>0, <1>5, <2>1
    <2>3. E[h][m + 1] <= e
      <3>1. e \in Int /\ h - k \in Nat
        BY <2>1, <2>2
      <3>2. E[h][h - k] <= e
        BY <2>2, <3>1, FarIs
      <3> QED
        BY <2>2, <3>2
    <2>4. E[h][m + 1] = E[h][m] + 1
      BY DEF IsEdits, Outside
    <2>5. E[h][m] \in Nat /\ E[n][m] \in Nat
      BY EditsAtLeast
    <2>6. PICK w \in 0 .. n : w = n - h /\ n - w = h /\ w \in Nat
      BY <2>2
    <2>7. 0 \in 0 .. m /\ m - 0 = m
      OBVIOUS
    <2>8. E[n][m] <= E[h][m] + B[w][0]
      BY <2>6, <2>7, Through
    <2>9. B[w][0] = w
      BY <2>6 DEF IsEdits
    <2> QED
      BY <1>2, <1>3, <2>1, <2>3, <2>4, <2>5, <2>6, <2>8, <2>9
  <1>6. f <= n /\ f - k <= m
    BY <1>0, <1>4, <1>5
  <1> QED
    BY <1>1, <1>6

(* Where the shortest way takes d edits and c more, the furthest reaching   *)
(* paths with as many edits from either side pass each other on some        *)
(* diagonal, within the sequences.                                          *)
LEMMA PathsMeet ==
    ASSUME NEW n \in Nat, NEW m \in Nat, NEW E, NEW P, IsEdits(E, P, n, m),
           NEW B, NEW Q, IsEdits(B, Q, n, m), Opposite(P, Q, n, m),
           NEW d \in Nat, NEW c \in Nat, E[n][m] = d + c
    PROVE  \E k \in -d .. d :
             /\ (k + d) % 2 = 0 /\ n - m - k \in -c .. c /\ (n - m - k + c) % 2 = 0
             /\ \A f, b : Far(E, d, k, f) /\ Far(B, c, n - m - k, b) =>
                  f <= n /\ f - k <= m /\ b <= n /\ b - (n - m - k) <= m /\ f + b >= n
  <1>1. PICK p \in Nat, q \in Nat : OnShortest(E, B, n, m, c, p, q)
    <2>1. c <= E[n][m]
      OBVIOUS
    <2> QED
      BY <2>1, PointOnShortest
  <1>2. p \in 0 .. n /\ q \in 0 .. m /\ E[n - p][m - q] = d /\ B[p][q] = c
    <2>1. (d + c) - c = d
      OBVIOUS
    <2> QED
      BY <1>1, <2>1 DEF OnShortest
  <1>3. PICK x \in 0 .. n, y \in 0 .. m : x = n - p /\ y = m - q /\ n - x = p /\ m - y = q
    BY <1>2
  <1>4. E[x][y] = d /\ x \in Nat /\ y \in Nat
    BY <1>2, <1>3
  <1>5. PICK k \in Int : k = x - y
    BY <1>4
  <1>6. PICK l \in Int : l = p - q
    OBVIOUS
  <1>7. n - m - k = l
    BY <1>3, <1>5, <1>6
  <1>8. k \in -d .. d /\ (k + d) % 2 = 0
    <2>1. d >= x - y /\ d >= y - x /\ (d - (x + y)) % 2 = 0
      <3>1. E[x][y] >= x - y /\ E[x][y] >= y - x /\ (E[x][y] - (x + y)) % 2 = 0
        <4>1. x \in Nat /\ y \in Nat
          OBVIOUS
        <4> QED
          BY <4>1, EditsAtLeast
      <3> QED
        BY <1>4, <3>1
    <2> QED
      BY <1>4, <1>5, <2>1
  <1>9. l \in -c .. c /\ (l + c) % 2 = 0
    <2>1. c >= p - q /\ c >= q - p /\ (c - (p + q)) % 2 = 0
      <3>1. B[p][q] >= p - q /\ B[p][q] >= q - p /\ (B[p][q] - (p + q)) % 2 = 0
        BY EditsAtLeast
      <3> QED
        BY <1>2, <3>1
    <2> QED
      BY <1>6, <2>1
  <1>10. ASSUME NEW f, NEW b, Far(E, d, k, f), Far(B, c, l, b)
         PROVE  f <= n /\ f - k <= m /\ b <= n /\ b - l <= m /\ f + b >= n
    <2>1. x <= f /\ f <= n /\ f - k <= m
      BY <1>2, <1>3, <1>4, <1>5, <1>10, FarIsInside
    <2>2. Opposite(Q, P, n, m) /\ B[n][m] = c + d
      BY OppositeOfOpposite, SameLength
    <2>3. p <= b /\ b <= n /\ b - l <= m
      BY <1>2, <1>6, <1>10, <2>2, FarIsInside
    <2>4. f \in Nat /\ b \in Nat
      BY <1>10 DEF Far
    <2> QED
      BY <1>3, <2>1, <2>3, <2>4
  <1> QED
    BY <1>7, <1>8, <1>9, <1>10

-----------------------------------------------------------------------------
(* The paths of the code.                                                   *)
LEMMA RegionPairs ==
    ASSUME NEW r, N(r) \in Nat, M(r) \in Nat
    PROVE  /\ FromStart(r) \subseteq Indexes(N(r)) \X Indexes(M(r))
           /\ FromEnd(r) \subseteq Indexes(N(r)) \X Indexes(M(r))
           /\ Opposite(FromStart(r), FromEnd(r), N(r), M(r))
  <1>1. PICK n \in Nat, m \in Nat : n = N(r) /\ m = M(r)
    OBVIOUS
  <1>2. ASSUME NEW x \in 0 .. n - 1, NEW y \in 0 .. m - 1
        PROVE  <<x, y>> \in FromEnd(r) <=> <<n - 1 - x, m - 1 - y>> \in FromStart(r)
    <2>1. n - 1 - x \in 0 .. n - 1 /\ m - 1 - y \in 0 .. m - 1
      OBVIOUS
    <2>2. <<x, y>> \in FromEnd(r) <=> EqualAt(r, n - 1 - x, m - 1 - y)
      BY <1>1 DEF FromEnd, Indexes
    <2>3. <<n - 1 - x, m - 1 - y>> \in FromStart(r) <=> EqualAt(r, n - 1 - x, m - 1 - y)
      BY <1>1, <2>1 DEF FromStart, Indexes
    <2> QED
      BY <2>2, <2>3
  <1>3. Opposite(FromStart(r), FromEnd(r), n, m)
    BY <1>2 DEF Opposite
  <1> QED
    BY <1>1, <1>3 DEF FromStart, FromEnd

LEMMA RunEnds ==
    ASSUME NEW P, NEW x \in Nat, NEW y \in Nat, NEW n \in Nat, <<x + n, y + n>> \notin P
    PROVE  \E e \in 0 .. n : /\ \A i \in 0 .. e - 1 : <<x + i, y + i>> \in P
                             /\ <<x + e, y + e>> \notin P
  <1> DEFINE S == {e \in Nat : <<x + e, y + e>> \notin P}
  <1>1. PICK e \in S : \A i \in S : e <= i
    BY LeastNumber
  <1>2. e \in 0 .. n /\ <<x + e, y + e>> \notin P
    BY <1>1
  <1>3. ASSUME NEW i \in 0 .. e - 1
        PROVE  <<x + i, y + i>> \in P
    BY <1>1, <1>2
  <1> QED
    BY <1>2, <1>3

(* The run of RunAhead and RunBack: as long as elements match.              *)
IsRun(P, x, y, e) ==
    e \in Nat /\ (\A i \in 0 .. e - 1 : <<x + i, y + i>> \in P) /\ <<x + e, y + e>> \notin P

LEMMA RunAheadIs ==
    ASSUME NEW r, N(r) \in Nat, M(r) \in Nat, NEW x \in Int, NEW y \in Int, x >= -1, y >= -1
    PROVE  IsRun(FromStart(r), x + 1, y + 1, RunAhead(r, x, y))
  <1>1. PICK n \in Nat, m \in Nat : n = N(r) /\ m = M(r)
    OBVIOUS
  <1>2. PICK X \in Nat, Y \in Nat : X = x + 1 /\ Y = y + 1
    OBVIOUS
  <1> DEFINE P == FromStart(r)
             Ok(e) == /\ \A i \in 1 .. e : x + i < n /\ y + i < m /\ EqualAt(r, x + i, y + i)
                      /\ ~(x + e + 1 < n /\ y + e + 1 < m /\ EqualAt(r, x + e + 1, y + e + 1))
  <1>3. ASSUME NEW i \in Nat
        PROVE  <<X + i, Y + i>> \in P
                 <=> x + i + 1 < n /\ y + i + 1 < m /\ EqualAt(r, x + i + 1, y + i + 1)
    <2>1. X + i = x + i + 1 /\ Y + i = y + i + 1 /\ X + i \in Nat /\ Y + i \in Nat
      BY <1>2
    <2>2. \A a, b \in Nat : <<a, b>> \in P <=> a < n /\ b < m /\ EqualAt(r, a, b)
      BY <1>1 DEF FromStart, Indexes
    <2> HIDE DEF P
    <2> QED
      BY <2>1, <2>2
  <1>4. ASSUME NEW e \in Nat
        PROVE  Ok(e) <=> IsRun(P, X, Y, e)
    <2>1. <<X + e, Y + e>> \in P
            <=> x + e + 1 < n /\ y + e + 1 < m /\ EqualAt(r, x + e + 1, y + e + 1)
      BY <1>3
    <2>2. (\A i \in 1 .. e : x + i < n /\ y + i < m /\ EqualAt(r, x + i, y + i))
            <=> \A i \in 0 .. e - 1 : <<X + i, Y + i>> \in P
      <3>1. ASSUME NEW i \in 1 .. e, \A j \in 0 .. e - 1 : <<X + j, Y + j>> \in P
            PROVE  x + i < n /\ y + i < m /\ EqualAt(r, x + i, y + i)
        <4>1. PICK j \in 0 .. e - 1 : j = i - 1 /\ j \in Nat /\ x + j + 1 = x + i /\ y + j + 1 = y + i
          OBVIOUS
        <4> HIDE DEF P
        <4> QED
          BY <1>3, <3>1, <4>1
      <3>2. ASSUME NEW i \in 0 .. e - 1,
                   \A j \in 1 .. e : x + j < n /\ y + j < m /\ EqualAt(r, x + j, y + j)
            PROVE  <<X + i, Y + i>> \in P
        <4>1. PICK j \in 1 .. e : j = i + 1 /\ i \in Nat /\ x + i + 1 = x + j /\ y + i + 1 = y + j
          OBVIOUS
        <4> HIDE DEF P
        <4> QED
          BY <1>3, <3>2, <4>1
      <3> QED
        BY <3>1, <3>2
    <2> HIDE DEF P
    <2> QED
      BY <2>1, <2>2 DEF IsRun
  <1>5. \E e \in 0 .. n : IsRun(P, X, Y, e)
    <2>1. <<X + n, Y + n>> \notin P
      BY <1>2, <1>3
    <2> HIDE DEF P
    <2>2. PICK e \in 0 .. n : /\ \A i \in 0 .. e - 1 : <<X + i, Y + i>> \in P
                              /\ <<X + e, Y + e>> \notin P
      BY <2>1, RunEnds
    <2>3. IsRun(P, X, Y, e)
      BY <2>2 DEF IsRun
    <2> QED
      BY <2>3
  <1>6. PICK e : e = CHOOSE i \in 0 .. n : Ok(i)
    OBVIOUS
  <1> HIDE DEF P
  <1>7. e \in 0 .. n /\ Ok(e)
    <2>1. \E i \in 0 .. n : Ok(i)
      <3>1. PICK i \in 0 .. n : IsRun(P, X, Y, i)
        BY <1>5
      <3>2. i \in Nat
        OBVIOUS
      <3> HIDE DEF Ok
      <3>3. Ok(i)
        BY <1>4, <3>1, <3>2
      <3> QED
        BY <3>3
    <2> HIDE DEF Ok
    <2> QED
      BY <1>6, <2>1
  <1>8. e = RunAhead(r, x, y)
    BY <1>1, <1>6 DEF RunAhead
  <1>9. IsRun(P, X, Y, e)
    <2> HIDE DEF Ok
    <2> QED
      BY <1>4, <1>7
  <1> QED
    BY <1>2, <1>8, <1>9 DEF P

LEMMA RunBackIs ==
    ASSUME NEW r, N(r) \in Nat, M(r) \in Nat, NEW x \in Nat, NEW y \in Nat
    PROVE  IsRun(FromEnd(r), x, y, RunBack(r, N(r) - 1 - x, M(r) - 1 - y))
  <1>1. PICK n \in Nat, m \in Nat : n = N(r) /\ m = M(r)
    OBVIOUS
  <1>2. PICK X \in Int, Y \in Int : X = n - 1 - x /\ Y = m - 1 - y
    OBVIOUS
  <1> DEFINE P == FromEnd(r)
             Ok(e) == /\ \A i \in 0 .. e - 1 : X - i >= 0 /\ Y - i >= 0 /\ EqualAt(r, X - i, Y - i)
                      /\ ~(X - e >= 0 /\ Y - e >= 0 /\ EqualAt(r, X - e, Y - e))
  <1>3. ASSUME NEW i \in Nat
        PROVE  <<x + i, y + i>> \in P <=> X - i >= 0 /\ Y - i >= 0 /\ EqualAt(r, X - i, Y - i)
    <2>1. /\ x + i \in Nat /\ y + i \in Nat
          /\ n - 1 - (x + i) = X - i /\ m - 1 - (y + i) = Y - i
          /\ x + i < n <=> X - i >= 0
          /\ y + i < m <=> Y - i >= 0
      BY <1>2
    <2>2. \A a, b \in Nat : <<a, b>> \in P <=> a < n /\ b < m /\ EqualAt(r, n - 1 - a, m - 1 - b)
      BY <1>1 DEF FromEnd, Indexes
    <2> HIDE DEF P
    <2> QED
      BY <2>1, <2>2
  <1>4. ASSUME NEW e \in Nat
        PROVE  Ok(e) <=> IsRun(P, x, y, e)
    <2>1. <<x + e, y + e>> \in P <=> X - e >= 0 /\ Y - e >= 0 /\ EqualAt(r, X - e, Y - e)
      BY <1>3
    <2>2. ASSUME NEW i \in 0 .. e - 1
          PROVE  <<x + i, y + i>> \in P <=> X - i >= 0 /\ Y - i >= 0 /\ EqualAt(r, X - i, Y - i)
      BY <1>3
    <2> HIDE DEF P
    <2> QED
      BY <2>1, <2>2 DEF IsRun
  <1>5. \E e \in 0 .. n : IsRun(P, x, y, e)
    <2>1. <<x + n, y + n>> \notin P
      BY <1>2, <1>3
    <2> HIDE DEF P
    <2>2. PICK e \in 0 .. n : /\ \A i \in 0 .. e - 1 : <<x + i, y + i>> \in P
                              /\ <<x + e, y + e>> \notin P
      BY <2>1, RunEnds
    <2>3. IsRun(P, x, y, e)
      BY <2>2 DEF IsRun
    <2> QED
      BY <2>3
  <1>6. PICK e : e = CHOOSE i \in 0 .. n : Ok(i)
    OBVIOUS
  <1> HIDE DEF P
  <1>7. e \in 0 .. n /\ Ok(e)
    <2>1. \E i \in 0 .. n : Ok(i)
      <3>1. PICK i \in 0 .. n : IsRun(P, x, y, i)
        BY <1>5
      <3>2. i \in Nat
        OBVIOUS
      <3> HIDE DEF Ok
      <3>3. Ok(i)
        BY <1>4, <3>1, <3>2
      <3> QED
        BY <3>3
    <2> HIDE DEF Ok
    <2> QED
      BY <1>6, <2>1
  <1>8. e = RunBack(r, X, Y)
    BY <1>1, <1>6 DEF RunBack
  <1>9. IsRun(P, x, y, e)
    <2> HIDE DEF Ok
    <2> QED
      BY <1>4, <1>7
  <1> QED
    BY <1>1, <1>2, <1>8, <1>9 DEF P

(* What a vector of furthest points holds after the turn for d edits, and   *)
(* before that turn.                                                        *)
HeldAhead(E, v, d) == \A j \in -d .. d : (j + d) % 2 = 0 => Far(E, d, j, v[j] + 1)
ReadyAhead(E, v, d) == IF d = 0 THEN v[1] = -1 ELSE HeldAhead(E, v, d - 1)

HeldBack(B, v, n, m, d) ==
    \A j \in -d .. d : (j + d) % 2 = 0 => Far(B, d, -j, n - 1 - v[j + (n - m)])
ReadyBack(B, v, n, m, d) ==
    IF d = 0 THEN v[(n - m) + 1] = n ELSE HeldBack(B, v, n, m, d - 1)

LEMMA SnakeOf ==
    ASSUME NEW begin \in Points, NEW middle \in Points, NEW end \in Points,
           NEW diagonal \in Points, NEW forward \in BOOLEAN
    PROVE  [begin |-> begin, middle |-> middle, end |-> end, diagonal |-> diagonal,
            forward |-> forward] \in Snakes
  BY DEF Snakes

(* What a snake is made of: an edit, then elements that match.              *)
AheadParts(r, E, d, s) ==
    LET x == s.middle[1] + 1
        y == s.middle[2] + 1
        u == s.begin[1] + 1
        v == s.begin[2] + 1
    IN  /\ \E run : /\ IsRun(FromStart(r), x, y, run) /\ s.end[1] = s.middle[1] + run
                    /\ s.diagonal = IF run = 0 THEN NoPoint ELSE <<x, y>>
        /\ E[x][y] <= d
        /\ d # 0 => /\ u \in Nat /\ v \in Nat /\ E[u][v] <= d - 1
                    /\ s.middle = <<u - 1, v>> \/ s.middle = <<u, v - 1>>

BackParts(r, B, d, s) ==
    LET x == N(r) - 1 - s.middle[1]
        y == M(r) - 1 - s.middle[2]
    IN  /\ \E run : /\ IsRun(FromEnd(r), x, y, run) /\ s.end[1] = s.middle[1] - run
                    /\ s.diagonal = IF run = 0 THEN NoPoint ELSE s.middle
        /\ x \in Nat /\ y \in Nat /\ B[x][y] <= d

LEMMA SnakeAheadIs ==
    ASSUME NEW r, N(r) \in Nat, M(r) \in Nat, NEW E, IsEdits(E, FromStart(r), N(r), M(r)),
           NEW d \in Nat, NEW k \in -d .. d, (k + d) % 2 = 0, NEW v \in [Diagonals(r) -> Int],
           k - 1 \in Diagonals(r), k + 1 \in Diagonals(r),
           ReadyAhead(E, v, d), NEW s, s = SnakeAhead(r, v, d, k)
    PROVE  /\ s \in Snakes /\ s.forward /\ s.begin \in Int \X Int /\ s.end \in Int \X Int /\ s.middle \in Int \X Int
           /\ s.end[2] = s.end[1] - k /\ s.middle[2] = s.middle[1] - k
           /\ s.middle[1] >= -1 /\ s.middle[2] >= -1 /\ s.middle[1] <= s.end[1]
           /\ Far(E, d, k, s.end[1] + 1) /\ AheadParts(r, E, d, s)
  <1>0. PICK n \in Nat, m \in Nat : n = N(r) /\ m = M(r)
    OBVIOUS
  <1>1. PICK down \in BOOLEAN : down = (k = -d \/ (k # d /\ v[k - 1] < v[k + 1]))
    OBVIOUS
  <1>2. PICK lo \in Int, hi \in Int : lo = v[k - 1] /\ hi = v[k + 1]
    OBVIOUS
  <1>b. down <=> (k = -d \/ (k # d /\ lo < hi))
    BY <1>1, <1>2, Zenon
  <1>3. PICK x \in Int : x = IF down THEN hi ELSE lo + 1
    BY <1>2
  <1>4. PICK begin \in Int \X Int :
          begin = IF down THEN <<hi, hi - (k + 1)>> ELSE <<lo, lo - (k - 1)>>
    <2>1. hi - (k + 1) \in Int /\ lo - (k - 1) \in Int
      OBVIOUS
    <2>2. <<hi, hi - (k + 1)>> \in Int \X Int /\ <<lo, lo - (k - 1)>> \in Int \X Int
      BY <2>1
    <2> QED
      BY <2>2, Zenon
  <1>5. PICK run : run = RunAhead(r, x, x - k)
    OBVIOUS
  <1>6. s = [begin |-> begin, middle |-> <<x, x - k>>, end |-> <<x + run, x - k + run>>,
             diagonal |-> IF run = 0 THEN NoPoint ELSE <<x + 1, x - k + 1>>, forward |-> TRUE]
    <2>1. begin = IF down THEN <<v[k + 1], v[k + 1] - (k + 1)>> ELSE <<v[k - 1], v[k - 1] - (k - 1)>>
      BY <1>2, <1>4
    <2>2. x = IF down THEN begin[1] ELSE begin[1] + 1
      BY <1>3, <1>4
    <2> QED
      BY <1>1, <1>5, <2>1, <2>2 DEF SnakeAhead
  <1>7. Begins(E, d, k, lo + 1, hi + 1, x + 1)
    <2>1. CASE d = 0
      <3>1. k = 0 /\ k + 1 = 1 /\ k = -d
        <4>1. k = 0
          BY <2>1
        <4>2. k = -d
          <5>1. PICK c \in Int : c = -d
            OBVIOUS
          <5>2. c + d = 0
            BY <5>1
          <5>3. c = 0
            BY <2>1, <5>2
          <5> QED
            BY <4>1, <5>1, <5>3
        <4>3. k + 1 = 1
          BY <4>1
        <4> QED
          BY <4>1, <4>2, <4>3
      <3>2. v[1] = -1
        BY <2>1, Zenon DEF ReadyAhead
      <3>3. hi = -1 /\ down
        BY <1>b, <1>2, <3>1, <3>2, Zenon
      <3>4. x + 1 = 0
        BY <1>3, <3>3
      <3> QED
        BY <2>1, <3>4 DEF Begins
    <2>2. CASE d # 0
      <3>1. HeldAhead(E, v, d - 1)
        BY <2>2 DEF ReadyAhead
      <3>2. ASSUME k # d
            PROVE  Far(E, d - 1, k + 1, hi + 1)
        <4>1. k + 1 \in -(d - 1) .. d - 1 /\ ((k + 1) + (d - 1)) % 2 = 0
          BY <2>2, <3>2
        <4> QED
          BY <1>2, <3>1, <4>1 DEF HeldAhead
      <3>3. ASSUME k # -d
            PROVE  Far(E, d - 1, k - 1, lo + 1)
        <4>1. k - 1 \in -(d - 1) .. d - 1 /\ ((k - 1) + (d - 1)) % 2 = 0
          BY <2>2, <3>3
        <4> QED
          BY <1>2, <3>1, <4>1 DEF HeldAhead
      <3>4. x + 1 = IF k = -d \/ (k # d /\ lo + 1 < hi + 1) THEN hi + 1 ELSE (lo + 1) + 1
        <4>0. lo + 1 < hi + 1 <=> lo < hi
          OBVIOUS
        <4>1. down <=> (k = -d \/ (k # d /\ lo + 1 < hi + 1))
          BY <1>b, <4>0, Zenon
        <4> QED
          BY <1>3, <4>1
      <3> QED
        BY <2>2, <3>2, <3>3, <3>4 DEF Begins
    <2> QED
      BY <2>1, <2>2
  <1>8. PICK X \in Int : X = x + 1
    OBVIOUS
  <1>9. X \in Nat /\ X - k \in Nat /\ E[X][X - k] <= d /\ Closed(E, d, k, X)
    <2>1. \E a, b : Begins(E, d, k, a, b, X)
      BY <1>7, <1>8
    <2> QED
      BY <1>0, <2>1, StepIsClosed
  <1>10. IsRun(FromStart(r), X, X - k, run)
    <2>1. PICK y \in Int : y = x - k
      OBVIOUS
    <2>2. x >= -1 /\ y >= -1 /\ y + 1 = X - k
      BY <1>8, <1>9, <2>1
    <2>3. IsRun(FromStart(r), x + 1, y + 1, RunAhead(r, x, y))
      BY <2>2, RunAheadIs
    <2> QED
      BY <1>5, <1>8, <2>1, <2>2, <2>3
  <1>11. run \in Nat /\ Far(E, d, k, X + run)
    <2>1. /\ run \in Nat
          /\ \A i \in 0 .. run - 1 : <<X + i, X - k + i>> \in FromStart(r)
          /\ <<X + run, X - k + run>> \notin FromStart(r)
      BY <1>10 DEF IsRun
    <2> QED
      BY <1>0, <1>9, <2>1, RunIsFar
  <1>12. X + run = x + run + 1 /\ x - k + run = x + run - k
    BY <1>8, <1>11
  <1>13. s \in Snakes
    <2>1. <<x, x - k>> \in Points /\ <<x + run, x - k + run>> \in Points /\ begin \in Points
      BY <1>11 DEF Points
    <2>2. (IF run = 0 THEN NoPoint ELSE <<x + 1, x - k + 1>>) \in Points
      BY DEF Points
    <2> QED
      BY <1>6, <2>1, <2>2 DEF Snakes
  <1>14. s.end = <<x + run, x - k + run>> /\ s.middle = <<x, x - k>> /\ s.forward
    BY <1>6
  <1>15. /\ s.end[2] = s.end[1] - k /\ s.middle[2] = s.middle[1] - k
         /\ s.middle[1] >= -1 /\ s.middle[2] >= -1 /\ s.middle[1] <= s.end[1]
    BY <1>8, <1>9, <1>11, <1>12, <1>14
  <1>16. s.begin \in Int \X Int /\ s.end \in Int \X Int /\ s.middle \in Int \X Int
    BY <1>6, <1>11, <1>14
  <1>17. s.middle[1] = x /\ s.middle[2] = x - k /\ s.end[1] = x + run
    BY <1>14
  <1>18. /\ IsRun(FromStart(r), s.middle[1] + 1, s.middle[2] + 1, run)
         /\ s.end[1] = s.middle[1] + run
         /\ s.diagonal = IF run = 0 THEN NoPoint ELSE <<s.middle[1] + 1, s.middle[2] + 1>>
    <2>1. s.middle[1] + 1 = X /\ s.middle[2] + 1 = X - k
      BY <1>8, <1>17
    <2>2. s.diagonal = IF run = 0 THEN NoPoint ELSE <<x + 1, x - k + 1>>
      BY <1>6
    <2> QED
      BY <1>10, <1>17, <2>1, <2>2
  <1>19. E[s.middle[1] + 1][s.middle[2] + 1] <= d
    <2>1. s.middle[1] + 1 = X /\ s.middle[2] + 1 = X - k
      BY <1>8, <1>17
    <2> QED
      BY <1>9, <2>1
  <1>20. ASSUME d # 0
         PROVE  /\ s.begin[1] + 1 \in Nat /\ s.begin[2] + 1 \in Nat
                /\ E[s.begin[1] + 1][s.begin[2] + 1] <= d - 1
                /\ \/ s.middle = <<s.begin[1] + 1 - 1, s.begin[2] + 1>>
                   \/ s.middle = <<s.begin[1] + 1, s.begin[2] + 1 - 1>>
    <2>0. s.begin = begin /\ s.middle = <<x, x - k>>
      BY <1>6
    <2>1. CASE down
      <3>1. begin[1] = hi /\ begin[2] = hi - (k + 1) /\ x = hi
        BY <1>3, <1>4, <2>1
      <3>2. k = -d \/ (k # d /\ lo < hi)
        BY <1>b, <2>1
      <3>3. k # d
        BY <1>20, <3>2
      <3>4. Far(E, d - 1, k + 1, hi + 1)
        BY <1>7, <1>20, <3>3 DEF Begins
      <3>5. hi + 1 \in Nat /\ hi + 1 - (k + 1) \in Nat /\ E[hi + 1][hi + 1 - (k + 1)] <= d - 1
        BY <3>4 DEF Far
      <3>6. /\ begin[1] + 1 = hi + 1 /\ begin[2] + 1 = hi + 1 - (k + 1)
            /\ x = begin[1] + 1 - 1 /\ x - k = begin[2] + 1
        BY <3>1
      <3> QED
        BY <2>0, <3>5, <3>6
    <2>2. CASE ~down
      <3>1. begin[1] = lo /\ begin[2] = lo - (k - 1) /\ x = lo + 1
        BY <1>3, <1>4, <2>2
      <3>2. k # -d
        BY <1>b, <2>2
      <3>4. Far(E, d - 1, k - 1, lo + 1)
        BY <1>7, <1>20, <3>2 DEF Begins
      <3>5. lo + 1 \in Nat /\ lo + 1 - (k - 1) \in Nat /\ E[lo + 1][lo + 1 - (k - 1)] <= d - 1
        BY <3>4 DEF Far
      <3>6. /\ begin[1] + 1 = lo + 1 /\ begin[2] + 1 = lo + 1 - (k - 1)
            /\ x = begin[1] + 1 /\ x - k = begin[2] + 1 - 1
        BY <3>1
      <3> QED
        BY <2>0, <3>5, <3>6
    <2> QED
      BY <2>1, <2>2
  <1>21. AheadParts(r, E, d, s)
    <2>1. PICK p, q, u, w : /\ p = s.middle[1] + 1 /\ q = s.middle[2] + 1
                            /\ u = s.begin[1] + 1 /\ w = s.begin[2] + 1
      OBVIOUS
    <2>2. /\ IsRun(FromStart(r), p, q, run) /\ s.end[1] = s.middle[1] + run
          /\ s.diagonal = IF run = 0 THEN NoPoint ELSE <<p, q>>
      BY <1>18, <2>1
    <2>3. E[p][q] <= d
      BY <1>19, <2>1
    <2>4. d # 0 => /\ u \in Nat /\ w \in Nat /\ E[u][w] <= d - 1
                   /\ s.middle = <<u - 1, w>> \/ s.middle = <<u, w - 1>>
      <3> SUFFICES ASSUME d # 0
                   PROVE  /\ u \in Nat /\ w \in Nat /\ E[u][w] <= d - 1
                          /\ s.middle = <<u - 1, w>> \/ s.middle = <<u, w - 1>>
        OBVIOUS
      <3>1. u \in Nat /\ w \in Nat /\ E[u][w] <= d - 1
        BY <1>20, <2>1
      <3>2. s.middle = <<u - 1, w>> \/ s.middle = <<u, w - 1>>
        <4>1. PICK f \in Int, g \in Int : f = s.begin[1] /\ g = s.begin[2]
          BY <1>16
        <4>2. s.middle = <<f + 1 - 1, g + 1>> \/ s.middle = <<f + 1, g + 1 - 1>>
          BY <1>20, <4>1
        <4>3. u \in Int /\ w \in Int /\ u = f + 1 /\ w = g + 1
          BY <2>1, <4>1
        <4>4. u - 1 = f + 1 - 1 /\ w - 1 = g + 1 - 1
          BY <4>3
        <4> QED
          BY <4>2, <4>3, <4>4
      <3> QED
        BY <3>1, <3>2
    <2> QED
      BY <2>1, <2>2, <2>3, <2>4, Zenon DEF AheadParts
  <1> QED
    BY <1>11, <1>12, <1>13, <1>14, <1>15, <1>16, <1>21

LEMMA SnakeBackIs ==
    ASSUME NEW r, N(r) \in Nat, M(r) \in Nat, NEW B, IsEdits(B, FromEnd(r), N(r), M(r)),
           NEW d \in Nat, NEW j \in -d .. d, (j + d) % 2 = 0, NEW v \in [Diagonals(r) -> Int],
           NEW k \in Int, k = j + Delta(r),
           k - 1 \in Diagonals(r), k + 1 \in Diagonals(r),
           ReadyBack(B, v, N(r), M(r), d), NEW s, s = SnakeBack(r, v, d, k)
    PROVE  /\ s \in Snakes /\ ~s.forward /\ s.begin \in Int \X Int /\ s.end \in Int \X Int /\ s.middle \in Int \X Int
           /\ s.end[2] = s.end[1] - k /\ s.middle[2] = s.middle[1] - k
           /\ s.middle[1] <= N(r) - 1 /\ s.middle[2] <= M(r) - 1 /\ s.end[1] <= s.middle[1]
           /\ Far(B, d, -j, N(r) - 1 - s.end[1]) /\ BackParts(r, B, d, s)
  <1>0. PICK n \in Nat, m \in Nat : n = N(r) /\ m = M(r)
    OBVIOUS
  <1>a. Delta(r) = n - m /\ k = j + (n - m)
    BY <1>0 DEF Delta
  <1>1. PICK left \in BOOLEAN : left = (k = -d + Delta(r) \/ (k # d + Delta(r) /\ v[k + 1] <= v[k - 1]))
    OBVIOUS
  <1>2. PICK lo \in Int, hi \in Int : lo = v[k - 1] /\ hi = v[k + 1]
    OBVIOUS
  <1>b. left <=> (k = -d + Delta(r) \/ (k # d + Delta(r) /\ hi <= lo))
    BY <1>1, <1>2, Zenon
  <1>3. PICK x \in Int : x = IF left THEN hi - 1 ELSE lo
    BY <1>2
  <1>4. PICK begin \in Int \X Int :
          begin = IF left THEN <<hi, hi - (k + 1)>> ELSE <<lo, lo - (k - 1)>>
    <2>1. hi - (k + 1) \in Int /\ lo - (k - 1) \in Int
      OBVIOUS
    <2>2. <<hi, hi - (k + 1)>> \in Int \X Int /\ <<lo, lo - (k - 1)>> \in Int \X Int
      BY <2>1
    <2> QED
      BY <2>2, Zenon
  <1>5. PICK run : run = RunBack(r, x, x - k)
    OBVIOUS
  <1>6. s = [begin |-> begin, middle |-> <<x, x - k>>, end |-> <<x - run, x - k - run>>,
             diagonal |-> IF run = 0 THEN NoPoint ELSE <<x, x - k>>, forward |-> FALSE]
    <2>1. begin = IF left THEN <<v[k + 1], v[k + 1] - (k + 1)>> ELSE <<v[k - 1], v[k - 1] - (k - 1)>>
      BY <1>2, <1>4
    <2>2. x = IF left THEN begin[1] - 1 ELSE begin[1]
      BY <1>3, <1>4
    <2> QED
      BY <1>1, <1>5, <2>1, <2>2 DEF SnakeBack
  <1>7. PICK l \in -d .. d : l = -j
    OBVIOUS
  <1>8. PICK X \in Int : X = n - 1 - x
    OBVIOUS
  <1>9. Begins(B, d, l, n - 1 - hi, n - 1 - lo, X)
    <2>1. CASE d = 0
      <3>1. j = 0 /\ k = n - m /\ v[(n - m) + 1] = n
        BY <1>0, <1>a, <2>1 DEF ReadyBack
      <3>2. left /\ hi = n
        <4>1. k = -d + Delta(r) /\ k + 1 = (n - m) + 1
          BY <1>a, <2>1, <3>1
        <4> QED
          BY <1>b, <1>2, <3>1, <4>1, Zenon
      <3>3. X = 0
        BY <1>3, <1>8, <3>2
      <3> QED
        BY <2>1, <3>3 DEF Begins
    <2>2. CASE d # 0
      <3>1. HeldBack(B, v, n, m, d - 1)
        BY <1>0, <2>2 DEF ReadyBack
      <3>2. ASSUME l # -d
            PROVE  Far(B, d - 1, l - 1, n - 1 - hi)
        <4>1. /\ j + 1 \in -(d - 1) .. d - 1 /\ ((j + 1) + (d - 1)) % 2 = 0
              /\ (j + 1) + (n - m) = k + 1 /\ -(j + 1) = l - 1
          BY <1>a, <1>7, <2>2, <3>2
        <4>2. Far(B, d - 1, -(j + 1), n - 1 - v[(j + 1) + (n - m)])
          BY <3>1, <4>1 DEF HeldBack
        <4> QED
          BY <1>2, <4>1, <4>2
      <3>3. ASSUME l # d
            PROVE  Far(B, d - 1, l + 1, n - 1 - lo)
        <4>1. /\ j - 1 \in -(d - 1) .. d - 1 /\ ((j - 1) + (d - 1)) % 2 = 0
              /\ (j - 1) + (n - m) = k - 1 /\ -(j - 1) = l + 1
          BY <1>a, <1>7, <2>2, <3>3
        <4>2. Far(B, d - 1, -(j - 1), n - 1 - v[(j - 1) + (n - m)])
          BY <3>1, <4>1 DEF HeldBack
        <4> QED
          BY <1>2, <4>1, <4>2
      <3>4. X = IF l = -d \/ (l # d /\ n - 1 - hi < n - 1 - lo) THEN n - 1 - lo ELSE (n - 1 - hi) + 1
        <4>1. left <=> (l = d \/ (l # -d /\ hi <= lo))
          <5>1. (k = -d + Delta(r) <=> l = d) /\ (k # d + Delta(r) <=> l # -d)
            BY <1>a, <1>7
          <5> QED
            BY <1>b, <5>1, Zenon
        <4>2. left <=> ~(l = -d \/ (l # d /\ n - 1 - hi < n - 1 - lo))
          BY <2>2, <4>1
        <4> QED
          BY <1>3, <1>8, <4>2
      <3> QED
        BY <2>2, <3>2, <3>3, <3>4 DEF Begins
    <2> QED
      BY <2>1, <2>2
  <1>10. X \in Nat /\ X - l \in Nat /\ B[X][X - l] <= d /\ Closed(B, d, l, X)
    <2>1. \E a, b : Begins(B, d, l, a, b, X)
      BY <1>9
    <2> QED
      BY <1>0, <2>1, StepIsClosed
  <1>11. IsRun(FromEnd(r), X, X - l, run)
    <2>1. PICK y \in Nat : y = X - l
      BY <1>10
    <2>2. n - 1 - X = x /\ m - 1 - y = x - k
      BY <1>a, <1>7, <1>8, <2>1
    <2>3. IsRun(FromEnd(r), X, y, RunBack(r, N(r) - 1 - X, M(r) - 1 - y))
      BY <1>10, RunBackIs
    <2> QED
      BY <1>0, <1>5, <2>1, <2>2, <2>3
  <1>12. run \in Nat /\ Far(B, d, l, X + run)
    <2>1. /\ run \in Nat
          /\ \A i \in 0 .. run - 1 : <<X + i, X - l + i>> \in FromEnd(r)
          /\ <<X + run, X - l + run>> \notin FromEnd(r)
      BY <1>11 DEF IsRun
    <2> QED
      BY <1>0, <1>10, <2>1, RunIsFar
  <1>13. X + run = n - 1 - (x - run) /\ x - k - run = x - run - k
    BY <1>8, <1>12
  <1>14. s \in Snakes
    <2>1. <<x, x - k>> \in Points /\ <<x - run, x - k - run>> \in Points /\ begin \in Points
      BY <1>12 DEF Points
    <2>2. PICK di \in Points : di = IF run = 0 THEN NoPoint ELSE <<x, x - k>>
      <3>1. NoPoint \in Points
        BY DEF Points
      <3> QED
        BY <2>1, <3>1, Zenon
    <2>3. PICK mi \in Points, en \in Points : mi = <<x, x - k>> /\ en = <<x - run, x - k - run>>
      BY <2>1
    <2>4. s = [begin |-> begin, middle |-> mi, end |-> en, diagonal |-> di, forward |-> FALSE]
      BY <1>6, <2>2, <2>3
    <2> QED
      <3>1. FALSE \in BOOLEAN /\ begin \in Points
        BY <2>1
      <3>2. [begin |-> begin, middle |-> mi, end |-> en, diagonal |-> di, forward |-> FALSE] \in Snakes
        BY <3>1, SnakeOf
      <3> QED
        BY <2>4, <3>2, Zenon
  <1>15. s.end = <<x - run, x - k - run>> /\ s.middle = <<x, x - k>> /\ ~s.forward
    BY <1>6
  <1>16. /\ s.end[2] = s.end[1] - k /\ s.middle[2] = s.middle[1] - k
         /\ s.middle[1] <= n - 1 /\ s.middle[2] <= m - 1 /\ s.end[1] <= s.middle[1]
    BY <1>a, <1>7, <1>8, <1>10, <1>12, <1>13, <1>15
  <1>17. s.begin \in Int \X Int /\ s.end \in Int \X Int /\ s.middle \in Int \X Int
    BY <1>6, <1>12, <1>15
  <1>18. N(r) - 1 - s.middle[1] = X /\ M(r) - 1 - s.middle[2] = X - l
    BY <1>0, <1>a, <1>7, <1>8, <1>15
  <1>19. s.end[1] = s.middle[1] - run /\ s.diagonal = IF run = 0 THEN NoPoint ELSE s.middle
    BY <1>6
  <1>20. BackParts(r, B, d, s)
    <2>1. PICK p, q : p = N(r) - 1 - s.middle[1] /\ q = M(r) - 1 - s.middle[2]
      OBVIOUS
    <2>2. p = X /\ q = X - l
      BY <1>18, <2>1
    <2>3. IsRun(FromEnd(r), p, q, run) /\ p \in Nat /\ q \in Nat /\ B[p][q] <= d
      BY <1>10, <1>11, <2>2
    <2> QED
      BY <1>19, <2>1, <2>3 DEF BackParts
  <1> QED
    BY <1>0, <1>7, <1>12, <1>13, <1>14, <1>15, <1>16, <1>17, <1>20

-----------------------------------------------------------------------------
(* The search.  What the code tests on a diagonal: the two ends are in the  *)
(* edit graph and overlap.                                                  *)
AheadMeets(v, w, n, m, d, k) ==
    /\ v[k] < n /\ v[k] - k < m /\ (n - m) % 2 # 0
    /\ k \in (n - m) - (d - 1) .. (n - m) + (d - 1) /\ v[k] >= w[k]

BackMeets(v, w, n, m, d, k) ==
    w[k] >= -1 /\ w[k] - k >= -1 /\ (n - m) % 2 = 0 /\ k \in -d .. d /\ v[k] >= w[k]

(* A turn that ends without an overlap: there is no script that short.      *)
LEMMA AheadTurnEnds ==
    ASSUME NEW n \in Nat, NEW m \in Nat, NEW E, NEW P, IsEdits(E, P, n, m),
           NEW B, NEW Q, IsEdits(B, Q, n, m), Opposite(P, Q, n, m),
           NEW d \in Nat, NEW K, -d .. d \subseteq K, NEW v \in [K -> Int], NEW w \in [K -> Int],
           HeldAhead(E, v, d), ReadyBack(B, w, n, m, d),
           \A k \in -d .. d : (k + d) % 2 = 0 => ~AheadMeets(v, w, n, m, d, k),
           E[n][m] >= 2 * d - 1
    PROVE  E[n][m] >= 2 * d
  <1>0. PICK D \in Nat : D = E[n][m]
    BY EditsAtLeast
  <1>1. (D - (n + m)) % 2 = 0
    <2>1. (E[n][m] - (n + m)) % 2 = 0
      BY EditsAtLeast
    <2> QED
      BY <1>0, <2>1
  <1> SUFFICES ASSUME D = 2 * d - 1
               PROVE  FALSE
    <2>1. D >= 2 * d - 1
      BY <1>0
    <2>2. D # 2 * d - 1 => D >= 2 * d
      BY <2>1
    <2> QED
      BY <1>0, <2>2
  <1>2. (n - m) % 2 # 0 /\ d # 0
    BY <1>1
  <1>3. PICK c \in Nat : c = d - 1
    BY <1>2
  <1>4. HeldBack(B, w, n, m, c)
    BY <1>2, <1>3 DEF ReadyBack
  <1>5. E[n][m] = d + c
    BY <1>0, <1>3
  <1>6. PICK k \in -d .. d :
             /\ (k + d) % 2 = 0 /\ n - m - k \in -c .. c /\ (n - m - k + c) % 2 = 0
             /\ \A f, b : Far(E, d, k, f) /\ Far(B, c, n - m - k, b) =>
                  f <= n /\ f - k <= m /\ b <= n /\ b - (n - m - k) <= m /\ f + b >= n
    BY <1>5, PathsMeet
  <1>7. Far(E, d, k, v[k] + 1)
    BY <1>6 DEF HeldAhead
  <1>8. Far(B, c, n - m - k, n - 1 - w[k])
    <2>1. PICK j \in -c .. c : j = k - (n - m)
      BY <1>6
    <2>2. (j + c) % 2 = 0
      BY <1>3, <1>6, <2>1
    <2>3. -j = n - m - k /\ j + (n - m) = k
      BY <2>1
    <2>4. Far(B, c, -j, n - 1 - w[j + (n - m)])
      BY <1>4, <2>2 DEF HeldBack
    <2> QED
      BY <2>3, <2>4
  <1>a. v[k] \in Int /\ w[k] \in Int
    BY <1>6
  <1>9. PICK f \in Nat : f = v[k] + 1
    BY <1>7 DEF Far
  <1>10. PICK b \in Nat : b = n - 1 - w[k]
    BY <1>8 DEF Far
  <1>11. f <= n /\ f - k <= m /\ f + b >= n
    BY <1>6, <1>7, <1>8, <1>9, <1>10
  <1>12. k \in (n - m) - (d - 1) .. (n - m) + (d - 1)
    BY <1>3, <1>6
  <1>13. AheadMeets(v, w, n, m, d, k)
    <2>1. v[k] < n /\ v[k] - k < m /\ v[k] >= w[k]
      BY <1>a, <1>9, <1>10, <1>11
    <2> QED
      BY <1>2, <1>12, <2>1 DEF AheadMeets
  <1> QED
    BY <1>6, <1>13

LEMMA BackTurnEnds ==
    ASSUME NEW n \in Nat, NEW m \in Nat, NEW E, NEW P, IsEdits(E, P, n, m),
           NEW B, NEW Q, IsEdits(B, Q, n, m), Opposite(P, Q, n, m),
           NEW d \in Nat, NEW K, -d .. d \subseteq K, NEW v \in [K -> Int], NEW w \in [K -> Int],
           HeldAhead(E, v, d), HeldBack(B, w, n, m, d),
           \A j \in -d .. d : (j + d) % 2 = 0 => ~BackMeets(v, w, n, m, d, j + (n - m)),
           E[n][m] >= 2 * d
    PROVE  E[n][m] >= 2 * d + 1
  <1>0. PICK D \in Nat : D = E[n][m]
    BY EditsAtLeast
  <1>1. (D - (n + m)) % 2 = 0
    <2>1. (E[n][m] - (n + m)) % 2 = 0
      BY EditsAtLeast
    <2> QED
      BY <1>0, <2>1
  <1> SUFFICES ASSUME D = 2 * d
               PROVE  FALSE
    <2>1. D >= 2 * d
      BY <1>0
    <2>2. D # 2 * d => D >= 2 * d + 1
      BY <2>1
    <2> QED
      BY <1>0, <2>2
  <1>2. (n - m) % 2 = 0
    BY <1>1
  <1>5. E[n][m] = d + d
    BY <1>0
  <1>6. PICK k \in -d .. d :
             /\ (k + d) % 2 = 0 /\ n - m - k \in -d .. d /\ (n - m - k + d) % 2 = 0
             /\ \A f, b : Far(E, d, k, f) /\ Far(B, d, n - m - k, b) =>
                  f <= n /\ f - k <= m /\ b <= n /\ b - (n - m - k) <= m /\ f + b >= n
    BY <1>5, PathsMeet
  <1>7. Far(E, d, k, v[k] + 1)
    BY <1>6 DEF HeldAhead
  <1>8. PICK j \in -d .. d : j = k - (n - m)
    BY <1>6
  <1>9. (j + d) % 2 = 0 /\ -j = n - m - k /\ j + (n - m) = k
    BY <1>6, <1>8
  <1>10. Far(B, d, n - m - k, n - 1 - w[k])
    <2>1. Far(B, d, -j, n - 1 - w[j + (n - m)])
      BY <1>9 DEF HeldBack
    <2> QED
      BY <1>9, <2>1
  <1>11. PICK f \in Nat : f = v[k] + 1
    BY <1>7 DEF Far
  <1>12. PICK b \in Nat : b = n - 1 - w[k]
    BY <1>10 DEF Far
  <1>13. b <= n /\ b - (n - m - k) <= m /\ f + b >= n
    BY <1>6, <1>7, <1>10, <1>11, <1>12
  <1>14. BackMeets(v, w, n, m, d, k)
    <2>1. v[k] \in Int /\ w[k] \in Int
      BY <1>6
    <2>2. w[k] >= -1 /\ w[k] - k >= -1 /\ v[k] >= w[k]
      BY <1>11, <1>12, <1>13, <2>1
    <2> QED
      BY <1>2, <2>2 DEF BackMeets
  <1> QED
    BY <1>9, <1>14

(* Between two steps of the search: the edits and the diagonal to come, the *)
(* vectors, and what the diagonals of this turn so far have shown.          *)
SearchType(r, s) ==
    /\ s \in [d : Nat, k : Int, ahead : BOOLEAN,
              forward : [Diagonals(r) -> Int], reverse : [Diagonals(r) -> Int]]
    /\ s.k \in -s.d .. s.d /\ (s.k + s.d) % 2 = 0

TurnAhead(E, B, n, m, v, w, d, k) ==
    /\ E[n][m] >= 2 * d - 1
    /\ ReadyAhead(E, v, d) /\ ReadyBack(B, w, n, m, d)
    /\ \A j \in -d .. d : (j + d) % 2 = 0 /\ j < k =>
         Far(E, d, j, v[j] + 1) /\ ~AheadMeets(v, w, n, m, d, j)

TurnBack(E, B, n, m, v, w, d, k) ==
    /\ E[n][m] >= 2 * d
    /\ HeldAhead(E, v, d) /\ ReadyBack(B, w, n, m, d)
    /\ \A j \in -d .. d : (j + d) % 2 = 0 /\ j < k =>
         Far(B, d, -j, n - 1 - w[j + (n - m)]) /\ ~BackMeets(v, w, n, m, d, j + (n - m))

Searching(E, B, r, s) ==
    /\ SearchType(r, s)
    /\ s.ahead => TurnAhead(E, B, N(r), M(r), s.forward, s.reverse, s.d, s.k)
    /\ ~s.ahead => TurnBack(E, B, N(r), M(r), s.forward, s.reverse, s.d, s.k)

(* The diagonals in reach have their place in the vectors.                  *)
LEMMA DiagonalsInReach ==
    ASSUME NEW r, N(r) \in Nat \ {0}, M(r) \in Nat \ {0}, NEW d \in Nat,
           2 * d - 1 <= N(r) + M(r)
    PROVE  /\ \A k \in -d .. d : k - 1 \in Diagonals(r) /\ k \in Diagonals(r) /\ k + 1 \in Diagonals(r)
           /\ \A k \in -d .. d : /\ k + Delta(r) - 1 \in Diagonals(r) /\ k + Delta(r) \in Diagonals(r)
                                 /\ k + Delta(r) + 1 \in Diagonals(r)
  <1>1. PICK n \in Nat \ {0}, m \in Nat \ {0} : n = N(r) /\ m = M(r)
    OBVIOUS
  <1>2. PICK gap \in Int : gap = Max({Delta(r), -Delta(r)}) /\ gap = IF n >= m THEN n - m ELSE m - n
    <2>1. PICK a \in Int, b \in Int : a = Delta(r) /\ b = -Delta(r) /\ a = n - m /\ b = m - n
      BY <1>1 DEF Delta
    <2>2. Max({a, b}) = IF a >= b THEN a ELSE b
      BY OfTwo
    <2>3. (IF a >= b THEN a ELSE b) = IF n >= m THEN n - m ELSE m - n
      BY <2>1
    <2>4. (IF a >= b THEN a ELSE b) \in Int
      OBVIOUS
    <2> QED
      BY <2>1, <2>2, <2>3, <2>4, Zenon
  <1>3. Diagonals(r) = -(n + m + gap) .. 3 * (n + m) - gap + 2
    BY <1>1, <1>2 DEF Diagonals
  <1>4. Delta(r) = n - m
    BY <1>1 DEF Delta
  <1>5. gap \in Nat /\ gap <= n + m - 2 /\ n - m <= gap /\ m - n <= gap
    BY <1>2
  <1>6. 2 * d - 1 <= n + m
    BY <1>1
  <1>7. ASSUME NEW k \in -d .. d
        PROVE  k - 1 \in Diagonals(r) /\ k \in Diagonals(r) /\ k + 1 \in Diagonals(r)
    <2>1. k - 1 >= -(n + m + gap) /\ k + 1 <= 3 * (n + m) - gap + 2
      <3>1. d + 1 <= n + m + gap /\ d + 1 <= 3 * (n + m) - gap + 2
        BY <1>2, <1>5, <1>6
      <3> QED
        BY <1>5, <3>1
    <2>2. k \in Int /\ k - 1 <= 3 * (n + m) - gap + 2 /\ k + 1 >= -(n + m + gap)
      BY <2>1
    <2> QED
      BY <1>3, <2>1, <2>2
  <1>8. ASSUME NEW k \in -d .. d
        PROVE  /\ k + Delta(r) - 1 \in Diagonals(r) /\ k + Delta(r) \in Diagonals(r)
               /\ k + Delta(r) + 1 \in Diagonals(r)
    <2>1. PICK l \in Int : l = k + (n - m)
      OBVIOUS
    <2>2. l - 1 >= -(n + m + gap) /\ l + 1 <= 3 * (n + m) - gap + 2
      <3>0. d + 1 <= n + m
        BY <1>6
      <3>1. d + 1 <= n + m /\ d + 1 <= 3 * (n + m) - gap + 2 - gap
        BY <1>5, <3>0
      <3>2. k >= -d /\ k <= d
        OBVIOUS
      <3> QED
        BY <1>2, <1>5, <2>1, <3>1, <3>2
    <2>3. l \in Int /\ l - 1 <= 3 * (n + m) - gap + 2 /\ l + 1 >= -(n + m + gap)
      BY <2>2
    <2>4. k + Delta(r) = l
      BY <1>4, <2>1
    <2>5. l - 1 \in Diagonals(r) /\ l \in Diagonals(r) /\ l + 1 \in Diagonals(r)
      BY <1>3, <2>2, <2>3
    <2>6. k + Delta(r) - 1 = l - 1 /\ k + Delta(r) + 1 = l + 1
      BY <1>4, <2>1
    <2> QED
      BY <2>4, <2>5, <2>6, Zenon
  <1> QED
    BY <1>7, <1>8

(* Writing the diagonals of one parity leaves those of the other.           *)
LEMMA HeldAheadWritten ==
    ASSUME NEW E, NEW K, NEW v \in [K -> Int], NEW d \in Int, -d .. d \subseteq K,
           NEW k \in Int, (k + d) % 2 # 0, NEW x, HeldAhead(E, v, d)
    PROVE  HeldAhead(E, [v EXCEPT ![k] = x], d)
  <1> SUFFICES ASSUME NEW j \in -d .. d, (j + d) % 2 = 0
               PROVE  Far(E, d, j, [v EXCEPT ![k] = x][j] + 1)
    BY DEF HeldAhead
  <1>1. j # k /\ j \in K
    OBVIOUS
  <1>2. [v EXCEPT ![k] = x][j] = v[j]
    BY <1>1
  <1>3. Far(E, d, j, v[j] + 1)
    BY DEF HeldAhead
  <1> QED
    BY <1>2, <1>3

LEMMA HeldBackWritten ==
    ASSUME NEW B, NEW K, NEW w \in [K -> Int], NEW n \in Int, NEW m \in Int, NEW d \in Int,
           \A j \in -d .. d : j + (n - m) \in K,
           NEW k \in Int, (k + d) % 2 # 0, NEW x, HeldBack(B, w, n, m, d)
    PROVE  HeldBack(B, [w EXCEPT ![k + (n - m)] = x], n, m, d)
  <1> SUFFICES ASSUME NEW j \in -d .. d, (j + d) % 2 = 0
               PROVE  Far(B, d, -j, n - 1 - [w EXCEPT ![k + (n - m)] = x][j + (n - m)])
    BY DEF HeldBack
  <1>1. j # k
    OBVIOUS
  <1>2. PICK a \in K, b \in Int : a = j + (n - m) /\ b = k + (n - m) /\ a # b
    BY <1>1
  <1>3. [w EXCEPT ![b] = x][a] = w[a]
    BY <1>2
  <1>4. Far(B, d, -j, n - 1 - w[j + (n - m)])
    BY DEF HeldBack
  <1> QED
    BY <1>2, <1>3, <1>4

LEMMA EditsAtMost ==
    ASSUME NEW E, NEW P, NEW n \in Nat, NEW m \in Nat, IsEdits(E, P, n, m),
           NEW d \in Nat, E[n][m] >= 2 * d - 1
    PROVE  2 * d - 1 <= n + m
  <1>1. PICK g \in Nat : E[n][m] = n + m - 2 * g
    BY DEF IsEdits, Counted
  <1>2. E[n][m] \in Nat
    BY EditsAtLeast
  <1> QED
    BY <1>1, <1>2

(* The fields of a search are independent.                                  *)
IsSearchWith(t, s, d, k, a, v, w) ==
    t = [s EXCEPT !.d = d, !.k = k, !.ahead = a, !.forward = v, !.reverse = w]

LEMMA SearchWith ==
    ASSUME NEW r, NEW s, SearchType(r, s), NEW d \in Nat, NEW k \in Int, NEW a \in BOOLEAN,
           NEW v \in [Diagonals(r) -> Int], NEW w \in [Diagonals(r) -> Int],
           k \in -d .. d, (k + d) % 2 = 0,
           NEW t, IsSearchWith(t, s, d, k, a, v, w)
    PROVE  /\ SearchType(r, t)
           /\ t.d = d /\ t.k = k /\ t.ahead = a /\ t.forward = v /\ t.reverse = w
  <1>1. t.d = d /\ t.k = k /\ t.ahead = a /\ t.forward = v /\ t.reverse = w
    BY DEF SearchType, IsSearchWith
  <1>2. t \in [d : Nat, k : Int, ahead : BOOLEAN,
               forward : [Diagonals(r) -> Int], reverse : [Diagonals(r) -> Int]]
    BY DEF SearchType, IsSearchWith
  <1> QED
    BY <1>1, <1>2 DEF SearchType

AheadFound(r, s, snake) ==
    /\ InGraph(r, snake)
    /\ Delta(r) % 2 # 0
    /\ s.k \in Delta(r) - (s.d - 1) .. Delta(r) + (s.d - 1)
    /\ Overlap(snake.end, <<s.reverse[s.k], s.reverse[s.k] - s.k>>)

LEMMA AheadSnake ==
    ASSUME NEW r, N(r) \in Nat \ {0}, M(r) \in Nat \ {0},
           NEW E, IsEdits(E, FromStart(r), N(r), M(r)), NEW B,
           NEW s, Searching(E, B, r, s), s.ahead,
           NEW snake, snake = SnakeAhead(r, s.forward, s.d, s.k)
    PROVE  /\ snake \in Snakes /\ snake.forward /\ snake.begin \in Int \X Int
           /\ snake.end \in Int \X Int /\ snake.middle \in Int \X Int
           /\ snake.end[2] = snake.end[1] - s.k /\ snake.middle[2] = snake.middle[1] - s.k
           /\ snake.middle[1] >= -1 /\ snake.middle[2] >= -1 /\ snake.middle[1] <= snake.end[1]
           /\ Far(E, s.d, s.k, snake.end[1] + 1) /\ AheadParts(r, E, s.d, snake)
           /\ \A k \in -s.d .. s.d : k \in Diagonals(r) /\ k + Delta(r) \in Diagonals(r)
           /\ 1 \in Diagonals(r) /\ Delta(r) + 1 \in Diagonals(r)
  <1>0. PICK d \in Nat, k \in Int, v \in [Diagonals(r) -> Int] : d = s.d /\ k = s.k /\ v = s.forward
    BY DEF Searching, SearchType
  <1>1. k \in -d .. d /\ (k + d) % 2 = 0
    BY <1>0 DEF Searching, SearchType
  <1>2. ReadyAhead(E, v, d) /\ E[N(r)][M(r)] >= 2 * d - 1
    BY <1>0 DEF Searching, TurnAhead
  <1>3. N(r) \in Nat /\ M(r) \in Nat
    OBVIOUS
  <1>4. 2 * d - 1 <= N(r) + M(r)
    BY <1>2, <1>3, EditsAtMost
  <1>5. k - 1 \in Diagonals(r) /\ k + 1 \in Diagonals(r)
    BY <1>1, <1>4, DiagonalsInReach
  <1>6. snake = SnakeAhead(r, v, d, k)
    BY <1>0
  <1>7. \A j \in -d .. d : j \in Diagonals(r) /\ j + Delta(r) \in Diagonals(r)
    BY <1>4, DiagonalsInReach
  <1>8. 1 \in Diagonals(r) /\ Delta(r) + 1 \in Diagonals(r)
    <2>1. 2 * 0 - 1 <= N(r) + M(r) /\ 0 \in -0 .. 0 /\ 0 \in Nat
      BY <1>3
    <2>2. 0 + 1 \in Diagonals(r) /\ 0 + Delta(r) + 1 \in Diagonals(r)
      BY <2>1, DiagonalsInReach
    <2>3. 0 + 1 = 1 /\ 0 + Delta(r) + 1 = Delta(r) + 1
      BY <1>3 DEF Delta
    <2> QED
      BY <2>2, <2>3, Zenon
  <1>9. /\ snake \in Snakes /\ snake.forward /\ snake.begin \in Int \X Int
        /\ snake.end \in Int \X Int /\ snake.middle \in Int \X Int
        /\ snake.end[2] = snake.end[1] - k /\ snake.middle[2] = snake.middle[1] - k
        /\ snake.middle[1] >= -1 /\ snake.middle[2] >= -1 /\ snake.middle[1] <= snake.end[1]
        /\ Far(E, d, k, snake.end[1] + 1) /\ AheadParts(r, E, d, snake)
    BY <1>1, <1>2, <1>3, <1>5, <1>6, SnakeAheadIs
  <1> QED
    BY <1>0, <1>7, <1>8, <1>9, Zenon

IsWritten(u, v, k, x) == u = [v EXCEPT ![k] = x]

BothWays(E, P, B, Q, n, m) == IsEdits(E, P, n, m) /\ IsEdits(B, Q, n, m) /\ Opposite(P, Q, n, m)

IsTurn(K, v, w, d, k) ==
    /\ d \in Nat /\ k \in -d .. d /\ (k + d) % 2 = 0
    /\ -d .. d \subseteq K /\ 1 \in K /\ v \in [K -> Int] /\ w \in [K -> Int]

(* One more diagonal of a turn.                                             *)
LEMMA AheadTurnGoesOn ==
    ASSUME NEW n \in Nat, NEW m \in Nat, NEW E, NEW P, NEW B, NEW Q,
           BothWays(E, P, B, Q, n, m), NEW d, NEW k, NEW K, NEW v, NEW w, IsTurn(K, v, w, d, k),
           TurnAhead(E, B, n, m, v, w, d, k),
           NEW x \in Int, Far(E, d, k, x + 1), NEW u, IsWritten(u, v, k, x),
           ~AheadMeets(u, w, n, m, d, k)
    PROVE  /\ u \in [K -> Int]
           /\ k + 2 <= d => TurnAhead(E, B, n, m, u, w, d, k + 2)
           /\ ~(k + 2 <= d) => TurnBack(E, B, n, m, u, w, d, -d)
  <1> USE DEF IsTurn, BothWays
  <1>1. u \in [K -> Int] /\ u[k] = x /\ \A j \in K : j # k => u[j] = v[j]
    BY k \in K DEF IsWritten
  <1>2. E[n][m] >= 2 * d - 1 /\ ReadyAhead(E, v, d) /\ ReadyBack(B, w, n, m, d)
    BY DEF TurnAhead
  <1>3. ASSUME NEW j \in -d .. d, (j + d) % 2 = 0, j < k + 2
        PROVE  Far(E, d, j, u[j] + 1) /\ ~AheadMeets(u, w, n, m, d, j)
    <2>1. CASE j = k
      BY <1>1, <2>1
    <2>2. CASE j # k
      <3>1. j < k
        BY <1>3, <2>2
      <3>2. Far(E, d, j, v[j] + 1) /\ ~AheadMeets(v, w, n, m, d, j)
        BY <1>3, <3>1 DEF TurnAhead
      <3>3. u[j] = v[j]
        BY <1>1, <2>2
      <3> QED
        BY <3>2, <3>3 DEF AheadMeets
    <2> QED
      BY <2>1, <2>2
  <1>4. CASE k + 2 <= d
    <2>1. ReadyAhead(E, u, d)
      <3>1. CASE d = 0
        BY <1>4, <3>1
      <3>2. CASE d # 0
        <4>1. HeldAhead(E, v, d - 1)
          BY <1>2, <3>2 DEF ReadyAhead
        <4>2. d - 1 \in Int /\ -(d - 1) .. d - 1 \subseteq K /\ (k + (d - 1)) % 2 # 0
          OBVIOUS
        <4>3. HeldAhead(E, u, d - 1)
          <5>1. PICK c \in Int : c = d - 1
            BY <4>2
          <5>2. HeldAhead(E, v, c) /\ -c .. c \subseteq K /\ (k + c) % 2 # 0
            BY <4>1, <4>2, <5>1
          <5>3. HeldAhead(E, u, c)
            <6>1. HeldAhead(E, [v EXCEPT ![k] = x], c)
              <7>1. k \in Int
                OBVIOUS
              <7> QED
                BY <5>2, <7>1, HeldAheadWritten, Zenon
            <6> QED
              BY <6>1 DEF IsWritten
          <5> QED
            BY <5>1, <5>3
        <4> QED
          BY <3>2, <4>3 DEF ReadyAhead
      <3> QED
        BY <3>1, <3>2
    <2> QED
      BY <1>1, <1>2, <1>3, <1>4, <2>1 DEF TurnAhead
  <1>5. CASE ~(k + 2 <= d)
    <2>1. \A j \in -d .. d : j < k + 2
      BY <1>5
    <2>2. HeldAhead(E, u, d)
      BY <1>3, <2>1 DEF HeldAhead
    <2>3. \A j \in -d .. d : (j + d) % 2 = 0 => ~AheadMeets(u, w, n, m, d, j)
      BY <1>3, <2>1
    <2>4. E[n][m] >= 2 * d
      BY <1>1, <1>2, <2>2, <2>3, AheadTurnEnds
    <2>5. \A j \in -d .. d : ~(j < -d)
      OBVIOUS
    <2> QED
      BY <1>1, <1>2, <1>5, <2>2, <2>4, <2>5 DEF TurnBack
  <1> QED
    BY <1>1, <1>4, <1>5

LEMMA AheadNext ==
    ASSUME NEW r, N(r) \in Nat \ {0}, M(r) \in Nat \ {0},
           NEW E, IsEdits(E, FromStart(r), N(r), M(r)),
           NEW B, IsEdits(B, FromEnd(r), N(r), M(r)),
           NEW s, Searching(E, B, r, s), s.ahead,
           NEW snake, snake = SnakeAhead(r, s.forward, s.d, s.k), ~AheadFound(r, s, snake)
    PROVE  Searching(E, B, r, NextDiagonal([s EXCEPT !.forward[s.k] = snake.end[1]]))
  <1>t. PICK t : t = NextDiagonal([s EXCEPT !.forward[s.k] = snake.end[1]])
    OBVIOUS
  <1>0. PICK n \in Nat, m \in Nat : n = N(r) /\ m = M(r) /\ Delta(r) = n - m
    BY DEF Delta
  <1>1. PICK d \in Nat, k \in Int, v \in [Diagonals(r) -> Int], w \in [Diagonals(r) -> Int] :
            d = s.d /\ k = s.k /\ v = s.forward /\ w = s.reverse
    BY DEF Searching, SearchType
  <1>2. SearchType(r, s) /\ k \in -d .. d /\ (k + d) % 2 = 0
    BY <1>1 DEF Searching, SearchType
  <1>3. TurnAhead(E, B, n, m, v, w, d, k)
    BY <1>0, <1>1 DEF Searching
  <1>4. PICK x \in Int : x = snake.end[1] /\ snake.end[2] = x - k /\ snake.forward /\ Far(E, d, k, x + 1)
    BY <1>1, AheadSnake
  <1>5. -d .. d \subseteq Diagonals(r) /\ 1 \in Diagonals(r)
    BY <1>1, AheadSnake
  <1>6. PICK u : IsWritten(u, v, k, x)
    BY DEF IsWritten
  <1>7. u \in [Diagonals(r) -> Int] /\ u[k] = x
    BY <1>2, <1>5, <1>6 DEF IsWritten
  <1>8. ~AheadMeets(u, w, n, m, d, k)
    <2>1. x + 1 >= 0 /\ x + 1 - k >= 0
      BY <1>4 DEF Far
    <2>2. x >= -1 /\ x - k >= -1
      BY <2>1
    <2>3. Overlap(snake.end, <<s.reverse[s.k], s.reverse[s.k] - s.k>>) <=> x >= w[k]
      BY <1>1, <1>4 DEF Overlap
    <2>4. InGraph(r, snake) <=> x < n /\ x - k < m
      BY <1>0, <1>4, <2>2 DEF InGraph
    <2>5. s.k \in Delta(r) - (s.d - 1) .. Delta(r) + (s.d - 1) <=> k \in (n - m) - (d - 1) .. (n - m) + (d - 1)
      BY <1>0, <1>1
    <2>6. Delta(r) % 2 # 0 <=> (n - m) % 2 # 0
      BY <1>0
    <2>7. u[k] < n /\ u[k] - k < m /\ u[k] >= w[k] <=> x < n /\ x - k < m /\ x >= w[k]
      BY <1>7
    <2> QED
      BY <2>3, <2>4, <2>5, <2>6, <2>7, Zenon DEF AheadFound, AheadMeets
  <1>9. Opposite(FromStart(r), FromEnd(r), n, m)
    BY <1>0, RegionPairs
  <1>10. /\ k + 2 <= d => TurnAhead(E, B, n, m, u, w, d, k + 2)
         /\ ~(k + 2 <= d) => TurnBack(E, B, n, m, u, w, d, -d)
    <2>1. PICK P, Q, K : P = FromStart(r) /\ Q = FromEnd(r) /\ K = Diagonals(r)
      OBVIOUS
    <2>2. BothWays(E, P, B, Q, n, m)
      BY <1>0, <1>9, <2>1 DEF BothWays
    <2>3. IsTurn(K, v, w, d, k)
      BY <1>2, <1>5, <2>1 DEF IsTurn
    <2> QED
      BY <1>3, <1>4, <1>6, <1>8, <2>2, <2>3, AheadTurnGoesOn
  <1>11. ASSUME k + 2 <= d
         PROVE  Searching(E, B, r, t)
    <2>1. PICK l \in Int : l = k + 2
      OBVIOUS
    <2>a. PICK a \in BOOLEAN : a = TRUE
      OBVIOUS
    <2>2. IsSearchWith(t, s, d, l, a, u, w)
      BY <1>t, <1>1, <1>2, <1>4, <1>6, <1>11, <2>1, <2>a DEF NextDiagonal, SearchType, IsWritten, IsSearchWith
    <2>3. l \in -d .. d /\ (l + d) % 2 = 0
      BY <1>2, <1>11, <2>1
    <2>4. SearchType(r, t) /\ t.d = d /\ t.k = l /\ t.ahead = a /\ t.forward = u /\ t.reverse = w
      BY <1>2, <1>7, <2>2, <2>3, SearchWith
    <2> QED
      BY <1>0, <1>10, <1>11, <2>1, <2>a, <2>4 DEF Searching
  <1>12. ASSUME ~(k + 2 <= d)
         PROVE  Searching(E, B, r, t)
    <2>1. PICK l \in Int : l = -d
      OBVIOUS
    <2>a. PICK a \in BOOLEAN : a = FALSE
      OBVIOUS
    <2>2. IsSearchWith(t, s, d, l, a, u, w)
      BY <1>t, <1>1, <1>2, <1>4, <1>6, <1>12, <2>1, <2>a DEF NextDiagonal, SearchType, IsWritten, IsSearchWith
    <2>3. l \in -d .. d /\ (l + d) % 2 = 0
      BY <2>1
    <2>4. SearchType(r, t) /\ t.d = d /\ t.k = l /\ t.ahead = a /\ t.forward = u /\ t.reverse = w
      BY <1>2, <1>7, <2>2, <2>3, SearchWith
    <2> QED
      BY <1>0, <1>10, <1>12, <2>1, <2>a, <2>4 DEF Searching
  <1> QED
    BY <1>t, <1>11, <1>12

IsTurnBack(K, v, w, n, m, d, j) ==
    /\ d \in Nat /\ j \in -d .. d /\ (j + d) % 2 = 0
    /\ -d .. d \subseteq K /\ (\A i \in -d .. d : i + (n - m) \in K)
    /\ v \in [K -> Int] /\ w \in [K -> Int]

LEMMA BackTurnGoesOn ==
    ASSUME NEW n \in Nat, NEW m \in Nat, NEW E, NEW P, NEW B, NEW Q,
           BothWays(E, P, B, Q, n, m), NEW d, NEW j, NEW K, NEW v, NEW w,
           IsTurnBack(K, v, w, n, m, d, j), NEW k \in Int, k = j + (n - m),
           TurnBack(E, B, n, m, v, w, d, j),
           NEW x \in Int, Far(B, d, -j, n - 1 - x), NEW u, IsWritten(u, w, k, x),
           ~BackMeets(v, u, n, m, d, k)
    PROVE  /\ u \in [K -> Int]
           /\ j + 2 <= d => TurnBack(E, B, n, m, v, u, d, j + 2)
           /\ ~(j + 2 <= d) => TurnAhead(E, B, n, m, v, u, d + 1, -(d + 1))
  <1> USE DEF IsTurnBack, BothWays
  <1>0. k \in K
    OBVIOUS
  <1>1. u \in [K -> Int] /\ u[k] = x /\ \A l \in K : l # k => u[l] = w[l]
    BY <1>0 DEF IsWritten
  <1>2. E[n][m] >= 2 * d /\ HeldAhead(E, v, d) /\ ReadyBack(B, w, n, m, d)
    BY DEF TurnBack
  <1>3. ASSUME NEW i \in -d .. d, (i + d) % 2 = 0, i < j + 2
        PROVE  Far(B, d, -i, n - 1 - u[i + (n - m)]) /\ ~BackMeets(v, u, n, m, d, i + (n - m))
    <2>1. CASE i = j
      <3>1. i + (n - m) = k /\ -i = -j
        BY <2>1
      <3> QED
        BY <1>1, <3>1
    <2>2. CASE i # j
      <3>1. i < j
        BY <1>3, <2>2
      <3>2. Far(B, d, -i, n - 1 - w[i + (n - m)]) /\ ~BackMeets(v, w, n, m, d, i + (n - m))
        BY <1>3, <3>1 DEF TurnBack
      <3>3. u[i + (n - m)] = w[i + (n - m)]
        <4>1. i + (n - m) \in K /\ i + (n - m) # k
          BY <2>2
        <4> QED
          BY <1>1, <4>1
      <3> QED
        BY <3>2, <3>3 DEF BackMeets
    <2> QED
      BY <2>1, <2>2
  <1>4. CASE j + 2 <= d
    <2>1. ReadyBack(B, u, n, m, d)
      <3>1. CASE d = 0
        BY <1>4, <3>1
      <3>2. CASE d # 0
        <4>1. HeldBack(B, w, n, m, d - 1)
          BY <1>2, <3>2 DEF ReadyBack
        <4>2. PICK c \in Int : c = d - 1
          OBVIOUS
        <4>3. HeldBack(B, w, n, m, c) /\ (j + c) % 2 # 0 /\ j \in Int /\ n \in Int /\ m \in Int
          BY <4>1, <4>2
        <4>4. \A i \in -c .. c : i + (n - m) \in K
          BY <4>2
        <4>5. HeldBack(B, u, n, m, c)
          <5>1. HeldBack(B, [w EXCEPT ![j + (n - m)] = x], n, m, c)
            BY <4>3, <4>4, HeldBackWritten, Zenon
          <5> QED
            BY <5>1 DEF IsWritten
        <4> QED
          BY <3>2, <4>2, <4>5 DEF ReadyBack
      <3> QED
        BY <3>1, <3>2
    <2> QED
      BY <1>1, <1>2, <1>3, <1>4, <2>1 DEF TurnBack
  <1>5. CASE ~(j + 2 <= d)
    <2>1. \A i \in -d .. d : i < j + 2
      BY <1>5
    <2>2. HeldBack(B, u, n, m, d)
      BY <1>3, <2>1 DEF HeldBack
    <2>3. \A i \in -d .. d : (i + d) % 2 = 0 => ~BackMeets(v, u, n, m, d, i + (n - m))
      BY <1>3, <2>1
    <2>4. E[n][m] >= 2 * d + 1
      BY <1>1, <1>2, <2>2, <2>3, BackTurnEnds
    <2>5. PICK e \in Nat : e = d + 1 /\ e # 0 /\ e - 1 = d
      OBVIOUS
    <2>6. ReadyAhead(E, v, e) /\ ReadyBack(B, u, n, m, e)
      BY <1>2, <2>2, <2>5 DEF ReadyAhead, ReadyBack
    <2>7. E[n][m] >= 2 * e - 1
      BY <2>4, <2>5
    <2>8. \A i \in -e .. e : ~(i < -e)
      OBVIOUS
    <2>9. TurnAhead(E, B, n, m, v, u, e, -e)
      BY <2>6, <2>7, <2>8 DEF TurnAhead
    <2> QED
      BY <1>1, <1>5, <2>5, <2>9
  <1> QED
    BY <1>1, <1>4, <1>5

BackFound(r, s, snake) ==
    /\ InGraph(r, snake)
    /\ Delta(r) % 2 = 0
    /\ s.k + Delta(r) \in -s.d .. s.d
    /\ Overlap(<<s.forward[s.k + Delta(r)], s.forward[s.k + Delta(r)] - (s.k + Delta(r))>>, snake.end)

LEMMA BackSnake ==
    ASSUME NEW r, N(r) \in Nat \ {0}, M(r) \in Nat \ {0},
           NEW B, IsEdits(B, FromEnd(r), N(r), M(r)),
           NEW E, IsEdits(E, FromStart(r), N(r), M(r)),
           NEW s, Searching(E, B, r, s), ~s.ahead,
           NEW k \in Int, k = s.k + Delta(r),
           NEW snake, snake = SnakeBack(r, s.reverse, s.d, k)
    PROVE  /\ snake \in Snakes /\ ~snake.forward /\ snake.begin \in Int \X Int
           /\ snake.end \in Int \X Int /\ snake.middle \in Int \X Int
           /\ snake.end[2] = snake.end[1] - k /\ snake.middle[2] = snake.middle[1] - k
           /\ snake.middle[1] <= N(r) - 1 /\ snake.middle[2] <= M(r) - 1
           /\ snake.end[1] <= snake.middle[1]
           /\ Far(B, s.d, -s.k, N(r) - 1 - snake.end[1]) /\ BackParts(r, B, s.d, snake)
           /\ \A i \in -s.d .. s.d : i \in Diagonals(r) /\ i + Delta(r) \in Diagonals(r)
  <1>0. PICK d \in Nat, j \in Int, v \in [Diagonals(r) -> Int] : d = s.d /\ j = s.k /\ v = s.reverse
    BY DEF Searching, SearchType
  <1>1. j \in -d .. d /\ (j + d) % 2 = 0
    BY <1>0 DEF Searching, SearchType
  <1>2. ReadyBack(B, v, N(r), M(r), d) /\ E[N(r)][M(r)] >= 2 * d
    BY <1>0 DEF Searching, TurnBack
  <1>3. N(r) \in Nat /\ M(r) \in Nat
    OBVIOUS
  <1>4. 2 * d - 1 <= N(r) + M(r)
    <2>1. PICK D \in Nat : D = E[N(r)][M(r)]
      BY <1>3, EditsAtLeast
    <2>2. E[N(r)][M(r)] >= 2 * d - 1
      BY <1>2, <2>1
    <2> QED
      BY <1>3, <2>2, EditsAtMost
  <1>5. k - 1 \in Diagonals(r) /\ k + 1 \in Diagonals(r) /\ k = j + Delta(r)
    <2>1. j + Delta(r) - 1 \in Diagonals(r) /\ j + Delta(r) + 1 \in Diagonals(r)
      BY <1>1, <1>4, DiagonalsInReach
    <2>2. PICK g \in Int : g = Delta(r)
      BY <1>3 DEF Delta
    <2>3. j + g - 1 = k - 1 /\ j + g + 1 = k + 1 /\ k = j + g
      BY <1>0, <2>2
    <2> QED
      BY <2>1, <2>2, <2>3, Zenon
  <1>6. snake = SnakeBack(r, v, d, k)
    BY <1>0
  <1>7. \A i \in -d .. d : i \in Diagonals(r) /\ i + Delta(r) \in Diagonals(r)
    BY <1>4, DiagonalsInReach
  <1>9. /\ snake \in Snakes /\ ~snake.forward /\ snake.begin \in Int \X Int
        /\ snake.end \in Int \X Int /\ snake.middle \in Int \X Int
        /\ snake.end[2] = snake.end[1] - k /\ snake.middle[2] = snake.middle[1] - k
        /\ snake.middle[1] <= N(r) - 1 /\ snake.middle[2] <= M(r) - 1 /\ snake.end[1] <= snake.middle[1]
        /\ Far(B, d, -j, N(r) - 1 - snake.end[1]) /\ BackParts(r, B, d, snake)
    BY <1>1, <1>2, <1>3, <1>5, <1>6, SnakeBackIs
  <1> QED
    BY <1>0, <1>7, <1>9, Zenon

LEMMA BackNext ==
    ASSUME NEW r, N(r) \in Nat \ {0}, M(r) \in Nat \ {0},
           NEW E, IsEdits(E, FromStart(r), N(r), M(r)),
           NEW B, IsEdits(B, FromEnd(r), N(r), M(r)),
           NEW s, Searching(E, B, r, s), ~s.ahead, NEW k \in Int, k = s.k + Delta(r),
           NEW snake, snake = SnakeBack(r, s.reverse, s.d, k), ~BackFound(r, s, snake)
    PROVE  Searching(E, B, r, NextDiagonal([s EXCEPT !.reverse[k] = snake.end[1]]))
  <1>t. PICK t : t = NextDiagonal([s EXCEPT !.reverse[k] = snake.end[1]])
    OBVIOUS
  <1>0. PICK n \in Nat, m \in Nat : n = N(r) /\ m = M(r) /\ Delta(r) = n - m
    BY DEF Delta
  <1>1. PICK d \in Nat, j \in Int, v \in [Diagonals(r) -> Int], w \in [Diagonals(r) -> Int] :
            d = s.d /\ j = s.k /\ v = s.forward /\ w = s.reverse
    BY DEF Searching, SearchType
  <1>2. SearchType(r, s) /\ j \in -d .. d /\ (j + d) % 2 = 0 /\ k = j + (n - m)
    BY <1>0, <1>1 DEF Searching, SearchType
  <1>3. TurnBack(E, B, n, m, v, w, d, j)
    BY <1>0, <1>1 DEF Searching
  <1>4. PICK x \in Int : x = snake.end[1] /\ snake.end[2] = x - k /\ ~snake.forward /\ Far(B, d, -j, n - 1 - x)
    BY <1>0, <1>1, BackSnake
  <1>5. -d .. d \subseteq Diagonals(r) /\ \A i \in -d .. d : i + (n - m) \in Diagonals(r)
    BY <1>0, <1>1, BackSnake
  <1>6. PICK u : IsWritten(u, w, k, x)
    BY DEF IsWritten
  <1>7. u \in [Diagonals(r) -> Int] /\ u[k] = x
    BY <1>2, <1>5, <1>6 DEF IsWritten
  <1>8. ~BackMeets(v, u, n, m, d, k)
    <2>3. Overlap(<<s.forward[s.k + Delta(r)], s.forward[s.k + Delta(r)] - (s.k + Delta(r))>>, snake.end)
            <=> v[k] >= x
      BY <1>1, <1>4 DEF Overlap
    <2>4. InGraph(r, snake) <=> x >= -1 /\ x - k >= -1
      BY <1>4 DEF InGraph
    <2>5. s.k + Delta(r) \in -s.d .. s.d <=> k \in -d .. d
      BY <1>1
    <2>6. Delta(r) % 2 = 0 <=> (n - m) % 2 = 0
      BY <1>0
    <2>7. u[k] >= -1 /\ u[k] - k >= -1 /\ v[k] >= u[k] <=> x >= -1 /\ x - k >= -1 /\ v[k] >= x
      BY <1>7
    <2> QED
      BY <2>3, <2>4, <2>5, <2>6, <2>7, Zenon DEF BackFound, BackMeets
  <1>9. Opposite(FromStart(r), FromEnd(r), n, m)
    BY <1>0, RegionPairs
  <1>10. /\ j + 2 <= d => TurnBack(E, B, n, m, v, u, d, j + 2)
         /\ ~(j + 2 <= d) => TurnAhead(E, B, n, m, v, u, d + 1, -(d + 1))
    <2>1. PICK P, Q, K : P = FromStart(r) /\ Q = FromEnd(r) /\ K = Diagonals(r)
      OBVIOUS
    <2>2. BothWays(E, P, B, Q, n, m)
      BY <1>0, <1>9, <2>1 DEF BothWays
    <2>3. IsTurnBack(K, v, w, n, m, d, j)
      BY <1>2, <1>5, <2>1 DEF IsTurnBack
    <2> QED
      BY <1>2, <1>3, <1>4, <1>6, <1>8, <2>2, <2>3, BackTurnGoesOn
  <1>11. ASSUME j + 2 <= d
         PROVE  Searching(E, B, r, t)
    <2>1. PICK l \in Int : l = j + 2
      OBVIOUS
    <2>a. PICK a \in BOOLEAN : a = FALSE
      OBVIOUS
    <2>2. IsSearchWith(t, s, d, l, a, v, u)
      BY <1>t, <1>1, <1>2, <1>4, <1>6, <1>11, <2>1, <2>a DEF NextDiagonal, SearchType, IsWritten, IsSearchWith
    <2>3. l \in -d .. d /\ (l + d) % 2 = 0
      BY <1>2, <1>11, <2>1
    <2>4. SearchType(r, t) /\ t.d = d /\ t.k = l /\ t.ahead = a /\ t.forward = v /\ t.reverse = u
      BY <1>2, <1>7, <2>2, <2>3, SearchWith
    <2> QED
      BY <1>0, <1>10, <1>11, <2>1, <2>a, <2>4 DEF Searching
  <1>12. ASSUME ~(j + 2 <= d)
         PROVE  Searching(E, B, r, t)
    <2>1. PICK c \in Nat, l \in Int : c = d + 1 /\ l = -c
      OBVIOUS
    <2>a. PICK a \in BOOLEAN : a = TRUE
      OBVIOUS
    <2>2. IsSearchWith(t, s, c, l, a, v, u)
      BY <1>t, <1>1, <1>2, <1>4, <1>6, <1>12, <2>1, <2>a DEF NextDiagonal, SearchType, IsWritten, IsSearchWith
    <2>3. l \in -c .. c /\ (l + c) % 2 = 0
      BY <2>1
    <2>4. SearchType(r, t) /\ t.d = c /\ t.k = l /\ t.ahead = a /\ t.forward = v /\ t.reverse = u
      BY <1>2, <1>7, <2>2, <2>3, SearchWith
    <2> QED
      BY <1>0, <1>10, <1>12, <2>1, <2>a, <2>4 DEF Searching
  <1> QED
    BY <1>t, <1>11, <1>12

(* The search begins.                                                       *)
LEMMA AlmostZero ==
    ASSUME NEW K, NEW i, NEW x \in Int
    PROVE  [[k \in K |-> 0] EXCEPT ![i] = x] \in [K -> Int]
  <1>1. PICK f : f = [k \in K |-> 0]
    OBVIOUS
  <1>2. f \in [K -> Int]
    BY <1>1
  <1>3. [f EXCEPT ![i] = x] \in [K -> Int]
    BY <1>2
  <1> QED
    BY <1>1, <1>3, Zenon

LEMMA NewSearchType ==
    ASSUME NEW r, N(r) \in Nat, M(r) \in Nat
    PROVE  SearchType(r, NewSearch(r))
  <1>1. [[k \in Diagonals(r) |-> 0] EXCEPT ![1] = -1] \in [Diagonals(r) -> Int]
    <2>1. -1 \in Int
      OBVIOUS
    <2> QED
      BY <2>1, AlmostZero, Zenon
  <1>2. [[k \in Diagonals(r) |-> 0] EXCEPT ![Delta(r) + 1] = N(r)] \in [Diagonals(r) -> Int]
    <2>1. N(r) \in Int
      OBVIOUS
    <2> QED
      BY <2>1, AlmostZero, Zenon
  <1>3. PICK v \in [Diagonals(r) -> Int], w \in [Diagonals(r) -> Int] :
             NewSearch(r) = [d |-> 0, k |-> 0, ahead |-> TRUE, forward |-> v, reverse |-> w]
    BY <1>1, <1>2 DEF NewSearch
  <1>4. NewSearch(r) \in [d : Nat, k : Int, ahead : BOOLEAN,
                          forward : [Diagonals(r) -> Int], reverse : [Diagonals(r) -> Int]]
    BY <1>3
  <1>5. NewSearch(r).d = 0 /\ NewSearch(r).k = 0
    BY <1>3
  <1>6. 0 \in -0 .. 0 /\ (0 + 0) % 2 = 0
    OBVIOUS
  <1> QED
    BY <1>4, <1>5, <1>6, Zenon DEF SearchType

LEMMA SearchBegins ==
    ASSUME NEW r, N(r) \in Nat \ {0}, M(r) \in Nat \ {0},
           NEW E, NEW P, IsEdits(E, P, N(r), M(r)), NEW B, 1 \in Diagonals(r), Delta(r) + 1 \in Diagonals(r)
    PROVE  Searching(E, B, r, NewSearch(r))
  <1>0. PICK n \in Nat, m \in Nat : n = N(r) /\ m = M(r) /\ Delta(r) = n - m
    BY DEF Delta
  <1>1. PICK s : s = NewSearch(r)
    OBVIOUS
  <1>2. SearchType(r, s)
    BY <1>1, NewSearchType
  <1>3. s.d = 0 /\ s.k = 0 /\ s.ahead = TRUE
    BY <1>1 DEF NewSearch
  <1>4. s.forward[1] = -1
    BY <1>1 DEF NewSearch
  <1>5. s.reverse[(n - m) + 1] = n
    BY <1>0, <1>1 DEF NewSearch
  <1>6. E[n][m] >= 2 * 0 - 1
    <2>1. E[n][m] \in Nat
      BY <1>0, EditsAtLeast
    <2> QED
      BY <2>1
  <1>7. ReadyAhead(E, s.forward, 0) /\ ReadyBack(B, s.reverse, n, m, 0)
    BY <1>4, <1>5 DEF ReadyAhead, ReadyBack
  <1>8. \A j \in -0 .. 0 : ~(j < 0)
    OBVIOUS
  <1>9. TurnAhead(E, B, n, m, s.forward, s.reverse, 0, 0)
    BY <1>6, <1>7, <1>8 DEF TurnAhead
  <1> QED
    BY <1>0, <1>1, <1>2, <1>3, <1>9, Zenon DEF Searching

(* What the turns so far leave in the vectors when the next one begins.     *)
LEMMA TurnsAreFurthest ==
    ASSUME NEW r, N(r) \in Nat \ {0}, M(r) \in Nat \ {0},
           NEW E, E = Edits(FromStart(r), r),
           NEW B, B = Edits(FromEnd(r), r),
           NEW s, Searching(E, B, r, s), s.k = -s.d,
           NEW done \in Int, done = IF s.ahead THEN s.d - 1 ELSE s.d
    PROVE  /\ \A k \in {k \in -done .. done : (k + done) % 2 = 0} :
                s.forward[k] = Furthest(FromStart(r), r, done, k) - 1
           /\ \A k \in {k \in -(s.d - 1) .. s.d - 1 : (k + s.d - 1) % 2 = 0} :
                s.reverse[k + Delta(r)] = N(r) - 1 - Furthest(FromEnd(r), r, s.d - 1, -k)
  <1>0. PICK n \in Nat \ {0}, m \in Nat \ {0}, d \in Nat : n = N(r) /\ m = M(r) /\ d = s.d /\ Delta(r) = n - m
    BY DEF Searching, SearchType, Delta
  <1>1. PICK v \in [Diagonals(r) -> Int], w \in [Diagonals(r) -> Int], a \in BOOLEAN :
            v = s.forward /\ w = s.reverse /\ a = s.ahead
    BY DEF Searching, SearchType
  <1>2. IsEdits(E, FromStart(r), n, m)
    BY <1>0, RegionPairs, EditsOfLcs
  <1>3. 2 * d - 1 <= n + m
    <2>1. E[n][m] >= 2 * d - 1
      <3>1. PICK D \in Nat : D = E[n][m]
        BY <1>2, EditsAtLeast
      <3>2. D >= 2 * d - 1 \/ D >= 2 * d
        BY <1>0, <3>1 DEF Searching, TurnAhead, TurnBack
      <3> QED
        BY <3>1, <3>2
    <2> QED
      BY <1>2, <2>1, EditsAtMost
  <1>4. \A k \in -d .. d : k \in Diagonals(r) /\ k + (n - m) \in Diagonals(r)
    BY <1>0, <1>3, DiagonalsInReach
  <1>5. (IF a THEN ReadyAhead(E, v, d) ELSE HeldAhead(E, v, d)) /\ ReadyBack(B, w, n, m, d)
    BY <1>0, <1>1 DEF Searching, TurnAhead, TurnBack
  <1>6. done <= d /\ (done # -1 => done \in Nat)
    BY <1>0, <1>1
  <1>7. done \in Nat => HeldAhead(E, v, done)
    BY <1>0, <1>1, <1>5 DEF ReadyAhead
  <1>8. ASSUME NEW k \in -done .. done, (k + done) % 2 = 0
        PROVE  v[k] = Furthest(FromStart(r), r, done, k) - 1
    <2>1. done \in Nat /\ v[k] \in Int
      BY <1>4, <1>6
    <2>2. PICK f \in Nat : f = v[k] + 1 /\ Far(E, done, k, f)
      BY <1>7, <1>8, <2>1 DEF HeldAhead, Far
    <2>3. Furthest(FromStart(r), r, done, k) = f
      BY <1>0, <2>1, <2>2, RegionPairs, FarIsFurthest
    <2> QED
      BY <2>1, <2>2, <2>3
  <1>9. ASSUME NEW c \in Int, c = d - 1, NEW k \in -c .. c, (k + c) % 2 = 0
        PROVE  w[k + (n - m)] = n - 1 - Furthest(FromEnd(r), r, c, -k)
    <2>1. c \in Nat /\ w[k + (n - m)] \in Int
      <3>1. c \in Nat /\ k \in -d .. d
        BY <1>9
      <3>2. k + (n - m) \in Diagonals(r)
        BY <1>4, <3>1
      <3> QED
        BY <3>1, <3>2
    <2>2. HeldBack(B, w, n, m, c)
      BY <1>5, <1>9, <2>1 DEF ReadyBack
    <2>3. PICK f \in Nat, l \in Int : f = n - 1 - w[k + (n - m)] /\ l = -k /\ Far(B, c, l, f)
      BY <1>9, <2>2 DEF HeldBack, Far
    <2>4. Furthest(FromEnd(r), r, c, l) = f
      BY <1>0, <2>1, <2>3, RegionPairs, FarIsFurthest
    <2> QED
      BY <2>1, <2>3, <2>4
  <1>10. ASSUME NEW k \in -(s.d - 1) .. s.d - 1, (k + s.d - 1) % 2 = 0
         PROVE  s.reverse[k + Delta(r)] = N(r) - 1 - Furthest(FromEnd(r), r, s.d - 1, -k)
    <2>1. PICK c \in Int : c = s.d - 1 /\ c = d - 1
      BY <1>0
    <2>2. k \in -c .. c /\ (k + c) % 2 = 0
      BY <1>0, <1>10, <2>1
    <2>3. w[k + (n - m)] = n - 1 - Furthest(FromEnd(r), r, c, -k)
      BY <1>9, <2>1, <2>2
    <2> QED
      BY <1>0, <1>1, <2>1, <2>3
  <1> QED
    BY <1>1, <1>8, <1>10

-----------------------------------------------------------------------------
(* The sequences of the script.                                             *)
LEMMA LengthOfScript ==
    ASSUME NEW es \in Scripts
    PROVE  ScriptLength(es) \in Nat
  <1>1. es.deletions \in Seq(Int) /\ es.insertions \in Seq(Insertions)
    BY DEF Scripts
  <1>2. PICK q : q = [e \in DOMAIN es.insertions |-> es.insertions[e].inserted]
    OBVIOUS
  <1>3. q \in Seq(Seq(Int))
    <2>1. Len(es.insertions) \in Nat /\ DOMAIN es.insertions = 1 .. Len(es.insertions)
      BY <1>1, LenProperties
    <2>2. \A e \in 1 .. Len(es.insertions) : es.insertions[e].inserted \in Seq(Int)
      <3>1. \A e \in 1 .. Len(es.insertions) : es.insertions[e] \in Insertions
        BY <1>1, ElementOfSeq
      <3> QED
        BY <3>1 DEF Insertions
    <2> QED
      BY <1>2, <2>1, <2>2, SeqDef
  <1>4. InsertedIndexes(es) \in Seq(Int)
    BY <1>2, <1>3, FlattenType DEF InsertedIndexes
  <1> QED
    BY <1>1, <1>4, LenProperties DEF ScriptLength

LEMMA RangeOfIndexes ==
    ASSUME NEW first \in Int, NEW end \in Int, first <= end
    PROVE  [i \in 1 .. end - first |-> first + i - 1] \in Seq(Int)
  <1>1. end - first \in Nat
    OBVIOUS
  <1>2. PICK n \in Nat : n = end - first
    BY <1>1
  <1>3. \A i \in 1 .. n : first + i - 1 \in Int
    OBVIOUS
  <1>4. [i \in 1 .. n |-> first + i - 1] \in Seq(Int)
    BY <1>3, SeqDef
  <1> QED
    BY <1>2, <1>4

LEMMA DeleteType ==
    ASSUME NEW es \in Scripts, NEW first \in Int, NEW end \in Int, first <= end
    PROVE  Delete(es, first, end) \in Scripts
  <1>1. PICK q \in Seq(Int) : q = [i \in 1 .. end - first |-> first + i - 1]
    BY RangeOfIndexes
  <1>2. es.deletions \o q \in Seq(Int)
    BY ConcatProperties DEF Scripts
  <1>3. Delete(es, first, end) = [es EXCEPT !.deletions = es.deletions \o q]
    BY <1>1 DEF Delete
  <1>4. PICK t \in Seq(Int) : t = es.deletions \o q
    BY <1>2
  <1>5. [es EXCEPT !.deletions = t] \in Scripts
    BY DEF Scripts
  <1> QED
    BY <1>3, <1>4, <1>5

LEMMA InsertType ==
    ASSUME NEW es \in Scripts, NEW point \in Int, NEW first \in Int, NEW end \in Int, first <= end
    PROVE  Insert(es, point, first, end) \in Scripts
  <1>1. PICK q \in Seq(Int) : q = [i \in 1 .. end - first |-> first + i - 1]
    BY RangeOfIndexes
  <1>2. [point |-> point, inserted |-> q] \in Insertions
    BY DEF Insertions
  <1>3. Append(es.insertions, [point |-> point, inserted |-> q]) \in Seq(Insertions)
    BY <1>2, AppendProperties DEF Scripts
  <1>4. PICK t \in Seq(Insertions) : t = Append(es.insertions, [point |-> point, inserted |-> q])
    BY <1>3
  <1>5. Insert(es, point, first, end) = [es EXCEPT !.insertions = t]
    BY <1>1, <1>4 DEF Insert
  <1>6. [es EXCEPT !.insertions = t] \in Scripts
    BY DEF Scripts
  <1> QED
    BY <1>5, <1>6

LEMMA TraceType ==
    ASSUME NEW snake \in Snakes, snake.end \in Int \X Int
    PROVE  Trace(snake) \in Seq(Points)
  <1>1. CASE snake.diagonal = NoPoint
    BY <1>1 DEF Trace
  <1>2. CASE snake.diagonal # NoPoint
    <2>1. PICK x \in Int, y \in Int : x = snake.diagonal[1] /\ y = snake.diagonal[2]
      BY <1>2 DEF Snakes, Points
    <2>2. PICK c \in Int : c = snake.end[1] - x + 1
      OBVIOUS
    <2>3. Max({0, c}) = IF 0 >= c THEN 0 ELSE c
      BY OfTwo, 0 \in Int
    <2>4. PICK n \in Nat : n = Max({0, c})
      BY <2>3
    <2>5. Trace(snake) = [i \in 1 .. n |-> <<x + i - 1, y + i - 1>>]
      BY <1>2, <2>1, <2>2, <2>4 DEF Trace
    <2>6. \A i \in 1 .. n : <<x + i - 1, y + i - 1>> \in Points
      BY DEF Points
    <2>7. PICK t : t = [i \in 1 .. n |-> <<x + i - 1, y + i - 1>>]
      OBVIOUS
    <2>8. t \in [1 .. n -> Points]
      BY <2>6, <2>7
    <2>9. t \in Seq(Points)
      BY <2>8, SeqDef
    <2> QED
      BY <2>5, <2>7, <2>9, Zenon
  <1> QED
    BY <1>1, <1>2

-----------------------------------------------------------------------------
(* What is found is in the region, in the coordinates of the sequences.     *)
InRange(p, a, aEnd, b, bEnd) == p[1] + 1 \in a .. aEnd /\ p[2] + 1 \in b .. bEnd

FitsIn(r, snake) ==
    /\ snake.begin \in Int \X Int /\ snake.middle \in Int \X Int /\ snake.end \in Int \X Int
    /\ InRange(SnakeStart(snake), r.a, r.aEnd, r.b, r.bEnd)
    /\ InRange(SnakeEnd(snake), r.a, r.aEnd, r.b, r.bEnd)

LEMMA PointsDiffer ==
    ASSUME NEW p \in Int \X Int
    PROVE  p # NoPoint /\ p \in Points
  <1>1. DOMAIN p = 1 .. 2
    OBVIOUS
  <1>2. DOMAIN NoPoint = {}
    BY DEF NoPoint
  <1>3. 1 \in 1 .. 2
    OBVIOUS
  <1> QED
    BY <1>1, <1>2, <1>3 DEF Points

MovedBy(r, p) == IF p = NoPoint THEN NoPoint ELSE <<p[1] + r.a, p[2] + r.b>>

LEMMA MovedPoint ==
    ASSUME NEW r \in Regions, NEW p \in Points
    PROVE  /\ MovedBy(r, p) \in Points
           /\ p \in Int \X Int => /\ MovedBy(r, p) \in Int \X Int
                                  /\ MovedBy(r, p)[1] = p[1] + r.a /\ MovedBy(r, p)[2] = p[2] + r.b
  <1>1. r.a \in Int /\ r.b \in Int
    BY DEF Regions
  <1>2. CASE p = NoPoint
    <2>1. MovedBy(r, p) = NoPoint /\ ~(p \in Int \X Int) /\ NoPoint \in Points
      BY <1>2, PointsDiffer DEF MovedBy, Points
    <2> QED
      BY <2>1
  <1>3. CASE p # NoPoint
    <2>1. p \in Int \X Int
      BY <1>3 DEF Points
    <2>2. MovedBy(r, p) = <<p[1] + r.a, p[2] + r.b>>
      BY <1>3 DEF MovedBy
    <2>3. MovedBy(r, p) \in Int \X Int /\ MovedBy(r, p)[1] = p[1] + r.a /\ MovedBy(r, p)[2] = p[2] + r.b
      BY <1>1, <2>1, <2>2
    <2> QED
      BY <2>3, PointsDiffer
  <1> QED
    BY <1>2, <1>3

LEMMA ShiftedIs ==
    ASSUME NEW r \in Regions, NEW snake \in Snakes, NEW t, t = Shifted(r, snake)
    PROVE  /\ t \in Snakes /\ t.forward = snake.forward
           /\ t.begin = MovedBy(r, snake.begin) /\ t.middle = MovedBy(r, snake.middle)
           /\ t.end = MovedBy(r, snake.end) /\ t.diagonal = MovedBy(r, snake.diagonal)
  <1>1. PICK be \in Points, mi \in Points, en \in Points, di \in Points :
            /\ be = MovedBy(r, snake.begin) /\ mi = MovedBy(r, snake.middle)
            /\ en = MovedBy(r, snake.end) /\ di = MovedBy(r, snake.diagonal)
    <2>1. /\ snake.begin \in Points /\ snake.middle \in Points /\ snake.end \in Points
          /\ snake.diagonal \in Points
      BY DEF Snakes
    <2> QED
      BY <2>1, MovedPoint
  <1>2. t = [snake EXCEPT !.begin = be, !.middle = mi, !.end = en, !.diagonal = di]
    BY <1>1 DEF Shifted, MovedBy
  <1>3. [snake EXCEPT !.begin = be, !.middle = mi, !.end = en, !.diagonal = di] \in Snakes
    BY DEF Snakes
  <1>4. /\ t.begin = be /\ t.middle = mi /\ t.end = en /\ t.forward = snake.forward
        /\ t.diagonal = di
    BY <1>2 DEF Snakes
  <1> QED
    BY <1>1, <1>2, <1>3, <1>4

LEMMA ShiftedFits ==
    ASSUME NEW r \in Regions, NEW snake \in Snakes, NEW t, t = Shifted(r, snake),
           snake.begin \in Int \X Int, snake.middle \in Int \X Int, snake.end \in Int \X Int,
           InRange(SnakeStart(snake), 0, N(r), 0, M(r)), InRange(SnakeEnd(snake), 0, N(r), 0, M(r))
    PROVE  t \in Snakes /\ FitsIn(r, t)
  <1>1. /\ t \in Snakes /\ t.forward = snake.forward
        /\ t.begin = MovedBy(r, snake.begin) /\ t.middle = MovedBy(r, snake.middle)
        /\ t.end = MovedBy(r, snake.end)
    BY ShiftedIs
  <1>2. snake.begin \in Points /\ snake.middle \in Points /\ snake.end \in Points
    BY PointsDiffer
  <1>3. /\ t.begin \in Int \X Int /\ t.middle \in Int \X Int /\ t.end \in Int \X Int
        /\ t.middle[1] = snake.middle[1] + r.a /\ t.middle[2] = snake.middle[2] + r.b
        /\ t.end[1] = snake.end[1] + r.a /\ t.end[2] = snake.end[2] + r.b
    BY <1>1, <1>2, MovedPoint
  <1>4. PICK p \in Int \X Int, q \in Int \X Int :
            /\ p = SnakeStart(snake) /\ q = SnakeEnd(snake)
            /\ SnakeStart(t)[1] = p[1] + r.a /\ SnakeStart(t)[2] = p[2] + r.b
            /\ SnakeEnd(t)[1] = q[1] + r.a /\ SnakeEnd(t)[2] = q[2] + r.b
    BY <1>1, <1>3 DEF SnakeStart, SnakeEnd
  <1>5. /\ p[1] + 1 \in 0 .. N(r) /\ p[2] + 1 \in 0 .. M(r)
        /\ q[1] + 1 \in 0 .. N(r) /\ q[2] + 1 \in 0 .. M(r)
    BY <1>4 DEF InRange
  <1>6. PICK a \in Int, aEnd \in Int, b \in Int, bEnd \in Int :
            a = r.a /\ aEnd = r.aEnd /\ b = r.b /\ bEnd = r.bEnd /\ N(r) = aEnd - a /\ M(r) = bEnd - b
    BY DEF Regions, N, M
  <1>7. InRange(SnakeStart(t), r.a, r.aEnd, r.b, r.bEnd) /\ InRange(SnakeEnd(t), r.a, r.aEnd, r.b, r.bEnd)
    <2>1. ASSUME NEW x \in Int, NEW n \in Int, x + 1 \in 0 .. n, NEW c \in Int
          PROVE  x + c + 1 \in c .. c + n
      BY <2>1
    <2>2. a + N(r) = aEnd /\ b + M(r) = bEnd /\ N(r) \in Int /\ M(r) \in Int
      BY <1>6
    <2>3. /\ p[1] + a + 1 \in a .. aEnd /\ p[2] + b + 1 \in b .. bEnd
          /\ q[1] + a + 1 \in a .. aEnd /\ q[2] + b + 1 \in b .. bEnd
      BY <1>5, <1>6
    <2> QED
      BY <1>4, <1>6, <2>3 DEF InRange
  <1> QED
    BY <1>1, <1>3, <1>7 DEF FitsIn

LEMMA AheadFits ==
    ASSUME NEW r \in Regions, N(r) \in Nat \ {0}, M(r) \in Nat \ {0},
           NEW E, IsEdits(E, FromStart(r), N(r), M(r)), NEW B,
           NEW s, Searching(E, B, r, s), s.ahead,
           NEW snake, snake = SnakeAhead(r, s.forward, s.d, s.k), InGraph(r, snake),
           NEW t, t = Shifted(r, snake)
    PROVE  t \in Snakes /\ FitsIn(r, t)
  <1>1. /\ snake \in Snakes /\ snake.forward /\ snake.begin \in Int \X Int
        /\ snake.end \in Int \X Int /\ snake.middle \in Int \X Int
        /\ snake.end[2] = snake.end[1] - s.k /\ snake.middle[2] = snake.middle[1] - s.k
        /\ snake.middle[1] >= -1 /\ snake.middle[2] >= -1 /\ snake.middle[1] <= snake.end[1]
    BY AheadSnake
  <1>2. snake.end[1] < N(r) /\ snake.end[2] < M(r)
    BY <1>1 DEF InGraph
  <1>3. PICK x \in Int, y \in Int, u \in Int, v \in Int, k \in Int :
            /\ x = snake.middle[1] /\ y = snake.middle[2] /\ u = snake.end[1] /\ v = snake.end[2]
            /\ k = s.k
    BY <1>1 DEF Searching, SearchType
  <1>4. /\ x + 1 \in 0 .. N(r) /\ y + 1 \in 0 .. M(r) /\ u + 1 \in 0 .. N(r) /\ v + 1 \in 0 .. M(r)
    BY <1>1, <1>2, <1>3
  <1>5. SnakeStart(snake) = snake.middle /\ SnakeEnd(snake) = snake.end
    BY <1>1 DEF SnakeStart, SnakeEnd
  <1>6. InRange(SnakeStart(snake), 0, N(r), 0, M(r)) /\ InRange(SnakeEnd(snake), 0, N(r), 0, M(r))
    BY <1>3, <1>4, <1>5 DEF InRange
  <1> QED
    BY <1>1, <1>6, ShiftedFits

LEMMA BackFits ==
    ASSUME NEW r \in Regions, N(r) \in Nat \ {0}, M(r) \in Nat \ {0},
           NEW B, IsEdits(B, FromEnd(r), N(r), M(r)),
           NEW E, IsEdits(E, FromStart(r), N(r), M(r)),
           NEW s, Searching(E, B, r, s), ~s.ahead, NEW k \in Int, k = s.k + Delta(r),
           NEW snake, snake = SnakeBack(r, s.reverse, s.d, k), InGraph(r, snake),
           NEW t, t = Shifted(r, snake)
    PROVE  t \in Snakes /\ FitsIn(r, t)
  <1>1. /\ snake \in Snakes /\ ~snake.forward /\ snake.begin \in Int \X Int
        /\ snake.end \in Int \X Int /\ snake.middle \in Int \X Int
        /\ snake.end[2] = snake.end[1] - k /\ snake.middle[2] = snake.middle[1] - k
        /\ snake.middle[1] <= N(r) - 1 /\ snake.middle[2] <= M(r) - 1
        /\ snake.end[1] <= snake.middle[1]
    BY BackSnake
  <1>2. snake.end[1] >= -1 /\ snake.end[2] >= -1
    BY DEF InGraph
  <1>3. PICK x \in Int, y \in Int, u \in Int, v \in Int :
            x = snake.middle[1] /\ y = snake.middle[2] /\ u = snake.end[1] /\ v = snake.end[2]
    BY <1>1
  <1>4. /\ x + 1 \in 0 .. N(r) /\ y + 1 \in 0 .. M(r) /\ u + 1 \in 0 .. N(r) /\ v + 1 \in 0 .. M(r)
    BY <1>1, <1>2, <1>3
  <1>5. SnakeStart(snake) = snake.end /\ SnakeEnd(snake) = snake.middle
    BY <1>1 DEF SnakeStart, SnakeEnd
  <1>6. InRange(SnakeStart(snake), 0, N(r), 0, M(r)) /\ InRange(SnakeEnd(snake), 0, N(r), 0, M(r))
    BY <1>3, <1>4, <1>5 DEF InRange
  <1> QED
    BY <1>1, <1>6, ShiftedFits

-----------------------------------------------------------------------------
(* The calls.                                                               *)
Frames == [region : Regions, from : Nat, at : Places, snake : Snakes, length : Nat]

IsWithin(r, outer) ==
    /\ r.a \in outer.a .. r.aEnd /\ r.aEnd <= outer.aEnd
    /\ r.b \in outer.b .. r.bEnd /\ r.bEnd <= outer.bEnd

Waits(c) == c.at \in {"before", "after"}
HasFound(c) == c.at \in {"found", "before"} => FitsIn(c.region, c.snake)
OuterOf(s, i, whole) == IF i = Len(s) THEN whole ELSE s[i + 1].region

Stack(s, whole) ==
    \A i \in 1 .. Len(s) : /\ IsWithin(s[i].region, OuterOf(s, i, whole))
                           /\ i > 1 => Waits(s[i])
                           /\ HasFound(s[i])

LEMMA RegionSizes ==
    ASSUME NEW r \in Regions, NEW outer, IsWithin(r, outer)
    PROVE  N(r) \in Nat /\ M(r) \in Nat /\ r.a <= r.aEnd /\ r.b <= r.bEnd
  <1>1. PICK a \in Nat, aEnd \in Nat, b \in Nat, bEnd \in Nat :
            a = r.a /\ aEnd = r.aEnd /\ b = r.b /\ bEnd = r.bEnd
    BY DEF Regions
  <1>2. a <= aEnd /\ b <= bEnd
    BY <1>1 DEF IsWithin
  <1>3. aEnd - a \in Nat /\ bEnd - b \in Nat
    BY <1>2
  <1> QED
    BY <1>1, <1>2, <1>3 DEF N, M

LEMMA StackTop ==
    ASSUME NEW s \in Seq(Frames), s # <<>>, NEW whole, Stack(s, whole)
    PROVE  /\ Head(s) \in Frames /\ Head(s) = s[1] /\ Head(s).region \in Regions
           /\ N(Head(s).region) \in Nat /\ M(Head(s).region) \in Nat
           /\ Head(s).region.a <= Head(s).region.aEnd /\ Head(s).region.b <= Head(s).region.bEnd
           /\ IsWithin(Head(s).region, OuterOf(s, 1, whole)) /\ HasFound(Head(s))
  <1>1. Len(s) \in Nat \ {0} /\ Head(s) = s[1] /\ s[1] \in Frames
    BY Pop
  <1>2. IsWithin(s[1].region, OuterOf(s, 1, whole)) /\ HasFound(s[1])
    BY <1>1, 1 \in 1 .. Len(s) DEF Stack
  <1>3. s[1].region \in Regions
    BY <1>1 DEF Frames
  <1> QED
    BY <1>1, <1>2, <1>3, RegionSizes

LEMMA StackPop ==
    ASSUME NEW s \in Seq(Frames), s # <<>>, NEW whole, Stack(s, whole)
    PROVE  /\ Tail(s) \in Seq(Frames) /\ Stack(Tail(s), whole)
           /\ Tail(s) # <<>> => Waits(Head(Tail(s)))
  <1>1. PICK t \in Seq(Frames) : t = Tail(s)
    BY Pop
  <1>2. /\ Len(s) \in Nat \ {0} /\ Len(t) = Len(s) - 1
        /\ \A i \in 1 .. Len(t) : t[i] = s[i + 1]
    BY <1>1, Pop
  <1>3. ASSUME NEW i \in 1 .. Len(t)
        PROVE  /\ IsWithin(t[i].region, OuterOf(t, i, whole)) /\ Waits(t[i]) /\ HasFound(t[i])
    <2>1. PICK j \in 1 .. Len(s) : j = i + 1 /\ j > 1 /\ t[i] = s[j]
      BY <1>2
    <2>2. IsWithin(s[j].region, OuterOf(s, j, whole)) /\ Waits(s[j]) /\ HasFound(s[j])
      BY <2>1 DEF Stack
    <2>3. OuterOf(t, i, whole) = OuterOf(s, j, whole)
      <3>1. i = Len(t) <=> j = Len(s)
        BY <1>2, <2>1
      <3>2. i # Len(t) => t[i + 1] = s[j + 1]
        BY <1>2, <2>1
      <3> QED
        BY <3>1, <3>2 DEF OuterOf
    <2> QED
      BY <2>1, <2>2, <2>3
  <1>4. ASSUME t # <<>>
        PROVE  Waits(Head(t))
    <2>1. Len(t) \in Nat \ {0} /\ Head(t) = t[1]
      BY <1>4, Pop
    <2>2. 1 \in 1 .. Len(t)
      BY <2>1
    <2> QED
      BY <1>3, <2>1, <2>2
  <1>5. Stack(t, whole)
    BY <1>3 DEF Stack
  <1> QED
    BY <1>1, <1>4, <1>5

LEMMA StackPut ==
    ASSUME NEW s \in Seq(Frames), s # <<>>, NEW whole, Stack(s, whole),
           NEW x \in Frames, x.region = Head(s).region, HasFound(x)
    PROVE  /\ <<x>> \o Tail(s) \in Seq(Frames) /\ Stack(<<x>> \o Tail(s), whole)
           /\ Head(<<x>> \o Tail(s)) = x /\ <<x>> \o Tail(s) # <<>>
           /\ Len(<<x>> \o Tail(s)) = Len(s)
  <1>1. PICK t \in Seq(Frames) : t = <<x>> \o Tail(s)
    BY PutFirst
  <1>2. /\ Len(s) \in Nat \ {0} /\ Len(t) = Len(s) /\ t[1] = x /\ Head(s) = s[1]
        /\ \A i \in 2 .. Len(s) : t[i] = s[i]
    BY <1>1, PutFirst, Pop
  <1>3. t # <<>> /\ Head(t) = x
    <2>1. t # <<>>
      BY <1>2, EmptySeq
    <2> QED
      BY <1>2, <2>1, Pop
  <1>4. ASSUME NEW i \in 1 .. Len(t)
        PROVE  /\ IsWithin(t[i].region, OuterOf(t, i, whole))
               /\ i > 1 => Waits(t[i])
               /\ HasFound(t[i])
    <2>1. /\ IsWithin(s[i].region, OuterOf(s, i, whole))
          /\ i > 1 => Waits(s[i])
          /\ HasFound(s[i])
      BY <1>2 DEF Stack
    <2>2. OuterOf(t, i, whole) = OuterOf(s, i, whole)
      <3>1. i # Len(s) => t[i + 1] = s[i + 1]
        BY <1>2
      <3> QED
        BY <1>2, <3>1 DEF OuterOf
    <2>3. t[i].region = s[i].region
      BY <1>2
    <2>4. i > 1 => t[i] = s[i]
      BY <1>2
    <2>5. HasFound(t[i])
      <3>1. i = 1 \/ i > 1
        BY <1>2
      <3> QED
        BY <1>2, <2>1, <2>4, <3>1
    <2> QED
      BY <2>1, <2>2, <2>3, <2>4, <2>5
  <1>5. Stack(t, whole)
    BY <1>4 DEF Stack
  <1> QED
    BY <1>1, <1>2, <1>3, <1>5

LEMMA StackPush ==
    ASSUME NEW s \in Seq(Frames), s # <<>>, NEW whole, Stack(s, whole), Waits(Head(s)),
           NEW c \in Frames, IsWithin(c.region, Head(s).region), HasFound(c)
    PROVE  /\ <<c>> \o s \in Seq(Frames) /\ Stack(<<c>> \o s, whole)
           /\ Head(<<c>> \o s) = c /\ <<c>> \o s # <<>>
  <1>1. PICK t \in Seq(Frames) : t = <<c>> \o s
    BY Push
  <1>2. /\ Len(s) \in Nat \ {0} /\ Len(t) = Len(s) + 1 /\ t[1] = c /\ Head(s) = s[1]
        /\ \A i \in 1 .. Len(s) : t[i + 1] = s[i]
    BY <1>1, Push, Pop
  <1>3. t # <<>> /\ Head(t) = c
    <2>1. t # <<>>
      BY <1>2, EmptySeq
    <2> QED
      BY <1>2, <2>1, Pop
  <1>4. ASSUME NEW i \in 1 .. Len(t)
        PROVE  /\ IsWithin(t[i].region, OuterOf(t, i, whole))
               /\ i > 1 => Waits(t[i])
               /\ HasFound(t[i])
    <2>1. CASE i = 1
      <3>1. i # Len(t) /\ t[i + 1] = s[1]
        BY <1>2, <2>1, 1 \in 1 .. Len(s)
      <3>2. OuterOf(t, i, whole) = Head(s).region
        BY <1>2, <3>1 DEF OuterOf
      <3> QED
        BY <1>2, <2>1, <3>2
    <2>2. CASE i # 1
      <3>1. PICK j \in 1 .. Len(s) : i = j + 1 /\ t[i] = s[j]
        <4>1. i - 1 \in 1 .. Len(s) /\ i = (i - 1) + 1
          BY <1>2, <2>2
        <4> QED
          BY <1>2, <4>1
      <3>2. /\ IsWithin(s[j].region, OuterOf(s, j, whole))
            /\ j > 1 => Waits(s[j])
            /\ HasFound(s[j])
        BY DEF Stack
      <3>3. OuterOf(t, i, whole) = OuterOf(s, j, whole)
        <4>1. j # Len(s) => t[i + 1] = s[j + 1]
          BY <1>2, <3>1
        <4>2. i = Len(t) <=> j = Len(s)
          BY <1>2, <3>1
        <4> QED
          BY <4>1, <4>2 DEF OuterOf
      <3>4. Waits(s[j])
        BY <1>2, <3>2
      <3> QED
        BY <3>1, <3>2, <3>3, <3>4
    <2> QED
      BY <2>1, <2>2
  <1>5. Stack(t, whole)
    BY <1>4 DEF Stack
  <1> QED
    BY <1>1, <1>3, <1>5

LEMMA TwoFirst ==
    ASSUME NEW S, NEW c \in S, NEW x \in S
    PROVE  <<c>> \o <<x>> = <<c, x>>
  <1>a. <<c>> \in Seq(S) /\ <<x>> \in Seq(S) /\ <<c, x>> \in Seq(S)
    OBVIOUS
  <1>1. PICK p \in Seq(S), q \in Seq(S) : p = <<c>> /\ q = <<x>>
    BY <1>a
  <1>2. Len(p) = 1 /\ Len(q) = 1 /\ p[1] = c /\ q[1] = x
    BY <1>1
  <1>3. p \o q \in Seq(S) /\ Len(p \o q) = 2 /\ (p \o q)[1] = c /\ (p \o q)[2] = x
    BY <1>2, ConcatProperties
  <1>4. PICK t \in Seq(S) : t = <<c, x>> /\ Len(t) = 2 /\ t[1] = c /\ t[2] = x
    BY <1>a
  <1>5. \A i \in 1 .. Len(t) : (p \o q)[i] = t[i]
    BY <1>3, <1>4
  <1>6. p \o q = t
    BY <1>3, <1>4, <1>5, SeqEqual
  <1> QED
    BY <1>1, <1>4, <1>6

LEMMA StackPushOnto ==
    ASSUME NEW s \in Seq(Frames), s # <<>>, NEW whole, Stack(s, whole),
           NEW x \in Frames, x.region = Head(s).region, HasFound(x), Waits(x),
           NEW c \in Frames, IsWithin(c.region, x.region), HasFound(c)
    PROVE  /\ <<c, x>> \o Tail(s) \in Seq(Frames) /\ Stack(<<c, x>> \o Tail(s), whole)
           /\ Head(<<c, x>> \o Tail(s)) = c /\ <<c, x>> \o Tail(s) # <<>>
  <1>1. PICK t : t = <<x>> \o Tail(s)
    OBVIOUS
  <1>2. t \in Seq(Frames) /\ Stack(t, whole) /\ Head(t) = x /\ t # <<>>
    BY <1>1, StackPut
  <1>3. /\ <<c>> \o t \in Seq(Frames) /\ Stack(<<c>> \o t, whole)
        /\ Head(<<c>> \o t) = c /\ <<c>> \o t # <<>>
    BY <1>2, StackPush
  <1>4. <<c, x>> \o Tail(s) = <<c>> \o (<<x>> \o Tail(s))
    <2>1. Tail(s) \in Seq(Frames) /\ <<x>> \in Seq(Frames) /\ <<c>> \in Seq(Frames)
      BY Pop
    <2>2. <<c>> \o (<<x>> \o Tail(s)) = (<<c>> \o <<x>>) \o Tail(s)
      BY <2>1, ConcatAssociative
    <2>3. <<c>> \o <<x>> = <<c, x>>
      BY TwoFirst
    <2> QED
      BY <2>2, <2>3
  <1> QED
    BY <1>1, <1>3, <1>4

-----------------------------------------------------------------------------
(* The inductive invariant.                                                 *)
There(r) == Edits(FromStart(r), r)
Back(r) == Edits(FromEnd(r), r)

Whole == Region(0, aSize, 0, bSize)

DataType ==
    /\ aSize \in 0 .. MaxA /\ bSize \in 0 .. MaxB
    /\ match \subseteq Indexes(aSize) \X Indexes(bSize)
    /\ script \in Scripts /\ lcs \in Seq(Points)

CallsNest == calls \in Seq(Frames) /\ Stack(calls, Whole)

SearchOf(r, s) == N(r) # 0 /\ M(r) # 0 /\ Searching(There(r), Back(r), r, s)

SearchKeepsOn ==
    /\ ~At("search") => search = NoSearch
    /\ \A r : At("search") /\ r = Here => SearchOf(r, search)

IInv == DataType /\ CallsNest /\ SearchKeepsOn

(* The edits to the points of a region depend on nothing but the input.     *)
LEMMA SameEdits ==
    ASSUME match' = match, NEW r
    PROVE  There(r)' = There(r) /\ Back(r)' = Back(r)
  BY DEF There, Back, Edits, EditsTo, FromStart, FromEnd, EqualAt

LEMMA EditsOfRegion ==
    ASSUME NEW r, N(r) \in Nat, M(r) \in Nat
    PROVE  /\ IsEdits(There(r), FromStart(r), N(r), M(r))
           /\ IsEdits(Back(r), FromEnd(r), N(r), M(r))
  BY RegionPairs, EditsOfLcs DEF There, Back

(* The innermost call while it searches.                                    *)
LEMMA SearchHere ==
    ASSUME IInv, At("search")
    PROVE  \E r \in Regions :
             /\ r = Here /\ calls # <<>> /\ Current \in Frames /\ Current.region = r
             /\ N(r) \in Nat \ {0} /\ M(r) \in Nat \ {0}
             /\ SearchType(r, search) /\ Searching(There(r), Back(r), r, search)
             /\ IsEdits(There(r), FromStart(r), N(r), M(r))
             /\ IsEdits(Back(r), FromEnd(r), N(r), M(r))
  <1>1. calls # <<>> /\ calls \in Seq(Frames) /\ Stack(calls, Whole)
    BY DEF IInv, CallsNest, At
  <1>2. Current \in Frames /\ Here \in Regions /\ N(Here) \in Nat /\ M(Here) \in Nat
    BY <1>1, StackTop DEF Current, Here
  <1>3. PICK r \in Regions : r = Here
    BY <1>2
  <1>4. SearchOf(r, search)
    BY <1>3 DEF IInv, SearchKeepsOn
  <1>5. N(r) \in Nat /\ M(r) \in Nat /\ N(r) # 0 /\ M(r) # 0
    BY <1>2, <1>3, <1>4 DEF SearchOf
  <1>6. N(r) \in Nat \ {0} /\ M(r) \in Nat \ {0}
    BY <1>5
  <1>7. Searching(There(r), Back(r), r, search) /\ SearchType(r, search)
    BY <1>4 DEF SearchOf, Searching
  <1>8. IsEdits(There(r), FromStart(r), N(r), M(r)) /\ IsEdits(Back(r), FromEnd(r), N(r), M(r))
    BY <1>5, EditsOfRegion
  <1>9. Current.region = r
    BY <1>3 DEF Here
  <1> QED
    BY <1>1, <1>2, <1>3, <1>6, <1>7, <1>8, <1>9

LEMMA VectorsType ==
    ASSUME IInv
    PROVE  /\ search.forward \in [Diagonals(IF At("search") THEN Here ELSE Region(0, 0, 0, 0)) -> Int]
           /\ search.reverse \in [DOMAIN search.forward -> Int]
  <1>1. PICK R : R = IF At("search") THEN Here ELSE Region(0, 0, 0, 0)
    OBVIOUS
  <1>2. SearchType(R, search)
    <2>1. CASE At("search")
      BY <1>1, <2>1, SearchHere
    <2>2. CASE ~At("search")
      <3>1. R = Region(0, 0, 0, 0) /\ search = NewSearch(R)
        BY <1>1, <2>2 DEF IInv, SearchKeepsOn, NoSearch
      <3>2. N(R) = 0 /\ M(R) = 0
        BY <3>1 DEF Region, N, M
      <3>3. N(R) \in Nat /\ M(R) \in Nat
        BY <3>2
      <3> QED
        BY <3>1, <3>3, NewSearchType
    <2> QED
      BY <2>1, <2>2
  <1>3. PICK v \in [Diagonals(R) -> Int], w \in [Diagonals(R) -> Int] :
            v = search.forward /\ w = search.reverse
    BY <1>2 DEF SearchType
  <1>4. DOMAIN search.forward = Diagonals(R)
    BY <1>3
  <1> QED
    BY <1>1, <1>3, <1>4, Zenon

LEMMA InvImpliesType ==
    ASSUME IInv
    PROVE  TypeOK
  <1>1. calls \in Seq(Frames) /\ Stack(calls, Whole) /\ DOMAIN calls = 1 .. Len(calls)
    BY LenProperties DEF IInv, CallsNest
  <1>2. ASSUME NEW i \in DOMAIN calls, NEW r, r = calls[i].region, NEW outer,
               outer = IF i = Len(calls) THEN Region(0, aSize, 0, bSize) ELSE calls[i + 1].region
        PROVE  /\ r.a \in outer.a .. r.aEnd /\ r.aEnd <= outer.aEnd
               /\ r.b \in outer.b .. r.bEnd /\ r.bEnd <= outer.bEnd
               /\ i > 1 => calls[i].at \in {"before", "after"}
    <2>1. IsWithin(calls[i].region, OuterOf(calls, i, Whole)) /\ (i > 1 => Waits(calls[i]))
      BY <1>1 DEF Stack
    <2>2. OuterOf(calls, i, Whole) = outer
      BY <1>2 DEF OuterOf, Whole
    <2> QED
      BY <1>2, <2>1, <2>2 DEF IsWithin, Waits
  <1>3. \A i \in DOMAIN calls :
          LET r == calls[i].region
              outer == IF i = Len(calls) THEN Region(0, aSize, 0, bSize) ELSE calls[i + 1].region
          IN  /\ r.a \in outer.a .. r.aEnd /\ r.aEnd <= outer.aEnd
              /\ r.b \in outer.b .. r.bEnd /\ r.bEnd <= outer.bEnd
              /\ i > 1 => calls[i].at \in {"before", "after"}
    BY <1>2, Zenon
  <1>4. /\ search.forward \in [Diagonals(IF At("search") THEN Here ELSE Region(0, 0, 0, 0)) -> Int]
        /\ search.reverse \in [DOMAIN search.forward -> Int]
    BY VectorsType
  <1>5. DataType
    BY DEF IInv
  <1> QED
    BY <1>1, <1>3, <1>4, <1>5, Zenon DEF TypeOK, DataType, Frames

LEMMA InvImpliesFound ==
    ASSUME IInv, At("search")
    PROVE  search.d <= DMax(Here)
  <1>1. PICK r \in Regions :
             /\ r = Here /\ N(r) \in Nat \ {0} /\ M(r) \in Nat \ {0}
             /\ SearchType(r, search) /\ Searching(There(r), Back(r), r, search)
             /\ IsEdits(There(r), FromStart(r), N(r), M(r))
    BY SearchHere
  <1>e. PICK E : E = There(r)
    OBVIOUS
  <1>2. PICK n \in Nat, m \in Nat, d \in Nat :
             n = N(r) /\ m = M(r) /\ d = search.d /\ E = There(r) /\ IsEdits(E, FromStart(r), n, m)
    BY <1>1, <1>e DEF SearchType
  <1>3. E[n][m] >= 2 * d - 1
    <2>1. PICK D \in Nat : D = E[n][m]
      BY <1>2, EditsAtLeast
    <2>2. D >= 2 * d - 1 \/ D >= 2 * d
      BY <1>1, <1>2, <2>1 DEF Searching, TurnAhead, TurnBack
    <2> QED
      BY <2>1, <2>2
  <1>4. 2 * d - 1 <= n + m
    BY <1>2, <1>3, EditsAtMost
  <1>5. d <= (n + m) \div 2 + 1
    BY <1>4
  <1> QED
    BY <1>1, <1>2, <1>5 DEF DMax

LEMMA InvImpliesFurthest ==
    ASSUME IInv
    PROVE  PathsReachFurthest
  <1> SUFFICES ASSUME At("search"), search.k = -search.d
               PROVE  LET r == Here
                          done == IF search.ahead THEN search.d - 1 ELSE search.d
                      IN  /\ \A k \in {k \in -done .. done : (k + done) % 2 = 0} :
                               search.forward[k] = Furthest(FromStart(r), r, done, k) - 1
                          /\ \A k \in {k \in -(search.d - 1) .. search.d - 1 : (k + search.d - 1) % 2 = 0} :
                               search.reverse[k + Delta(r)]
                                 = N(r) - 1 - Furthest(FromEnd(r), r, search.d - 1, -k)
    BY DEF PathsReachFurthest
  <1>1. PICK r \in Regions :
             /\ r = Here /\ N(r) \in Nat \ {0} /\ M(r) \in Nat \ {0}
             /\ SearchType(r, search) /\ Searching(There(r), Back(r), r, search)
    BY SearchHere
  <1>2. PICK s, E, B : s = search /\ E = There(r) /\ B = Back(r)
    OBVIOUS
  <1>3. PICK done \in Int : done = IF s.ahead THEN s.d - 1 ELSE s.d
    BY <1>1, <1>2 DEF SearchType
  <1>4. E = Edits(FromStart(r), r) /\ B = Edits(FromEnd(r), r)
    BY <1>2 DEF There, Back
  <1>5. Searching(E, B, r, s) /\ s.k = -s.d
    BY <1>1, <1>2
  <1>6. /\ \A k \in {k \in -done .. done : (k + done) % 2 = 0} :
             s.forward[k] = Furthest(FromStart(r), r, done, k) - 1
        /\ \A k \in {k \in -(s.d - 1) .. s.d - 1 : (k + s.d - 1) % 2 = 0} :
             s.reverse[k + Delta(r)] = N(r) - 1 - Furthest(FromEnd(r), r, s.d - 1, -k)
    BY <1>1, <1>3, <1>4, <1>5, TurnsAreFurthest
  <1> QED
    BY <1>1, <1>2, <1>3, <1>6, Zenon

LEMMA InvImplies ==
    ASSUME IInv
    PROVE  SearchIsRight
  BY InvImpliesType, InvImpliesFound, InvImpliesFurthest DEF SearchIsRight, MiddleSnakeFound

-----------------------------------------------------------------------------
(* Every step keeps it.                                                     *)
SameInput == aSize' = aSize /\ bSize' = bSize /\ match' = match

LEMMA NotSearching ==
    ASSUME IInv, SameInput, script' \in Scripts, lcs' \in Seq(Points), search' = NoSearch,
           calls' \in Seq(Frames), Stack(calls', Whole),
           calls' # <<>> => Head(calls').at # "search"
    PROVE  IInv'
  <1>1. DataType'
    BY DEF IInv, DataType, SameInput
  <1>2. Whole' = Whole
    BY DEF Whole, SameInput
  <1>3. CallsNest'
    BY <1>2 DEF CallsNest
  <1>4. ~At("search")'
    BY DEF At, Current
  <1>5. SearchKeepsOn'
    BY <1>4 DEF SearchKeepsOn, NoSearch
  <1> QED
    BY <1>1, <1>3, <1>5 DEF IInv

LEMMA StillSearching ==
    ASSUME IInv, SameInput, script' = script, lcs' = lcs,
           calls' \in Seq(Frames), Stack(calls', Whole), calls' # <<>>, Head(calls').at = "search",
           NEW r, Head(calls').region = r, N(r) # 0, M(r) # 0,
           NEW t, search' = t, Searching(There(r), Back(r), r, t)
    PROVE  IInv'
  <1>1. DataType'
    BY DEF IInv, DataType, SameInput
  <1>2. Whole' = Whole
    BY DEF Whole, SameInput
  <1>3. CallsNest'
    BY <1>2 DEF CallsNest
  <1>4. At("search")' /\ Here' = r
    BY DEF At, Current, Here
  <1>5. There(r)' = There(r) /\ Back(r)' = Back(r)
    BY SameEdits DEF SameInput
  <1>6. SearchOf(r, search)'
    BY <1>5 DEF SearchOf
  <1>7. \A q : At("search")' /\ q = Here' => SearchOf(q, search)'
    BY <1>4, <1>6
  <1>8. SearchKeepsOn'
    BY <1>4, <1>7 DEF SearchKeepsOn
  <1> QED
    BY <1>1, <1>3, <1>8 DEF IInv

(* The innermost call.                                                      *)
LEMMA Innermost ==
    ASSUME IInv, NEW place, At(place)
    PROVE  /\ calls \in Seq(Frames) /\ calls # <<>> /\ Stack(calls, Whole)
           /\ Current \in Frames /\ Current = Head(calls) /\ Current.at = place /\ Here = Current.region
           /\ Here \in Regions /\ N(Here) \in Nat /\ M(Here) \in Nat
           /\ Here.a <= Here.aEnd /\ Here.b <= Here.bEnd /\ HasFound(Current)
           /\ script \in Scripts /\ lcs \in Seq(Points)
           /\ place # "search" => search = NoSearch
  <1>1. calls # <<>> /\ calls \in Seq(Frames) /\ Stack(calls, Whole)
    BY DEF IInv, CallsNest, At
  <1>2. Current = Head(calls) /\ Here = Current.region /\ Current.at = place
    BY DEF Current, Here, At
  <1>3. place # "search" => search = NoSearch
    BY DEF IInv, SearchKeepsOn, At
  <1>4. script \in Scripts /\ lcs \in Seq(Points)
    BY DEF IInv, DataType
  <1> QED
    BY <1>1, <1>2, <1>3, <1>4, StackTop

LEMMA Returned ==
    ASSUME IInv, NEW place, At(place), place # "search", Return, SameInput,
           script' \in Scripts, lcs' \in Seq(Points), search' = search
    PROVE  IInv'
  <1>1. calls \in Seq(Frames) /\ calls # <<>> /\ Stack(calls, Whole) /\ search = NoSearch
    BY Innermost
  <1>2. /\ calls' \in Seq(Frames) /\ Stack(calls', Whole)
        /\ calls' # <<>> => Waits(Head(calls'))
    BY <1>1, StackPop DEF Return
  <1>3. calls' # <<>> => Head(calls').at # "search"
    BY <1>2 DEF Waits
  <1> QED
    BY <1>1, <1>2, <1>3, NotSearching

LEMMA OneSidedKeeps ==
    ASSUME IInv, OneSided
    PROVE  IInv'
  <1>1. /\ At("begin") /\ Return /\ SameInput /\ lcs' = lcs /\ search' = search
    BY DEF OneSided, SameInput
  <1>2. /\ Here \in Regions /\ Here.a <= Here.aEnd /\ Here.b <= Here.bEnd
        /\ script \in Scripts /\ lcs \in Seq(Points)
    BY <1>1, Innermost
  <1>3. PICK a \in Int, aEnd \in Int, b \in Int, bEnd \in Int :
            /\ a = Here.a /\ aEnd = Here.aEnd /\ b = Here.b /\ bEnd = Here.bEnd
            /\ a <= aEnd /\ b <= bEnd
    BY <1>2 DEF Regions
  <1>4. PICK deleted \in Scripts : deleted = Delete(script, a, aEnd)
    BY <1>2, <1>3, DeleteType
  <1>5. PICK last \in Int : last = aEnd - 1
    OBVIOUS
  <1>6. Insert(deleted, last, b, bEnd) \in Scripts
    BY <1>3, InsertType
  <1>7. script' = IF M(Here) > 0 THEN Insert(deleted, last, b, bEnd) ELSE deleted
    BY <1>3, <1>4, <1>5 DEF OneSided
  <1>8. script' \in Scripts
    BY <1>6, <1>7
  <1>9. "begin" # "search"
    OBVIOUS
  <1> QED
    BY <1>1, <1>2, <1>8, <1>9, Returned

LEMMA NoEditKeeps ==
    ASSUME IInv, NoEdit
    PROVE  IInv'
  <1>1. /\ At("found") /\ Return /\ SameInput /\ script' = script /\ search' = search
        /\ lcs' = lcs \o Trace(Current.snake)
    BY DEF NoEdit, SameInput
  <1>2. /\ script \in Scripts /\ lcs \in Seq(Points) /\ Current \in Frames
        /\ HasFound(Current) /\ Current.at = "found"
    BY <1>1, Innermost
  <1>3. Current.snake \in Snakes /\ Current.snake.end \in Int \X Int
    BY <1>2 DEF Frames, HasFound, FitsIn
  <1>4. lcs' \in Seq(Points)
    BY <1>1, <1>2, <1>3, TraceType, ConcatProperties
  <1>9. "found" # "search"
    OBVIOUS
  <1> QED
    BY <1>1, <1>2, <1>4, <1>9, Returned

LEMMA OneEditKeeps ==
    ASSUME IInv, OneEdit
    PROVE  IInv'
  <1>1. /\ At("found") /\ Return /\ SameInput /\ lcs' = lcs /\ search' = search
    BY DEF OneEdit, SameInput
  <1>2. /\ script \in Scripts /\ lcs \in Seq(Points) /\ Current \in Frames
        /\ HasFound(Current) /\ Current.at = "found"
    BY <1>1, Innermost
  <1>3. Current.snake.begin \in Int \X Int /\ Current.snake.middle \in Int \X Int
    BY <1>2 DEF HasFound, FitsIn
  <1>4. PICK x \in Int, y \in Int, u \in Int :
            x = Current.snake.middle[1] /\ y = Current.snake.middle[2] /\ u = Current.snake.begin[1]
    BY <1>3
  <1>5. PICK z \in Int : z = IF Current.snake.forward THEN x ELSE u
    OBVIOUS
  <1>6. PICK yy \in Int, zz \in Int : yy = y + 1 /\ zz = z + 1 /\ y <= yy /\ z <= zz
    OBVIOUS
  <1>7. script' = IF u = x THEN Insert(script, x, y, yy) ELSE Delete(script, z, zz)
    BY <1>4, <1>5, <1>6 DEF OneEdit
  <1>8. Insert(script, x, y, yy) \in Scripts /\ Delete(script, z, zz) \in Scripts
    BY <1>2, <1>6, InsertType, DeleteType
  <1>9. script' \in Scripts /\ "found" # "search"
    BY <1>7, <1>8
  <1> QED
    BY <1>1, <1>2, <1>9, Returned

LEMMA JoinedKeeps ==
    ASSUME IInv, Joined
    PROVE  IInv'
  <1>1. /\ At("after") /\ Return /\ SameInput /\ script' = script /\ lcs' = lcs /\ search' = search
        /\ "after" # "search"
    BY DEF Joined, SameInput
  <1>2. script \in Scripts /\ lcs \in Seq(Points)
    BY <1>1, Innermost
  <1> QED
    BY <1>1, <1>2, Returned

LEMMA CallType ==
    ASSUME NEW r \in Regions, script \in Scripts
    PROVE  /\ Call(r) \in Frames /\ Call(r).region = r /\ Call(r).at = "begin" /\ HasFound(Call(r))
  <1>1. PICK from \in Nat : from = ScriptLength(script)
    BY LengthOfScript
  <1>2. PICK snake \in Snakes : snake = NoSnake
    <2>1. PICK no \in Points, yes \in BOOLEAN : no = NoPoint /\ yes = TRUE
      <3>1. NoPoint \in Points /\ TRUE \in BOOLEAN
        BY DEF Points
      <3> QED
        BY <3>1, Zenon
    <2>2. NoSnake = [begin |-> no, middle |-> no, end |-> no, diagonal |-> no, forward |-> yes]
      BY <2>1 DEF NoSnake
    <2> QED
      BY <2>2, SnakeOf
  <1>3. Call(r) = [region |-> r, from |-> from, at |-> "begin", snake |-> snake, length |-> 0]
    BY <1>1, <1>2 DEF Call
  <1>4. Call(r) \in Frames
    BY <1>3 DEF Frames, Places
  <1> QED
    BY <1>3, <1>4 DEF HasFound

LEMMA GoneOn ==
    ASSUME NEW c \in Frames, NEW place \in Places, HasFound(c),
           place = "found" => FALSE, place = "before" => c.at = "found",
           NEW x, x = [c EXCEPT !.at = place]
    PROVE  x \in Frames /\ x.region = c.region /\ x.at = place /\ HasFound(x)
  <1>1. x \in Frames /\ x.region = c.region /\ x.at = place /\ x.snake = c.snake
    BY DEF Frames
  <1> QED
    BY <1>1 DEF HasFound

LEMMA StartSearchKeeps ==
    ASSUME IInv, StartSearch
    PROVE  IInv'
  <1>1. /\ At("begin") /\ GoOn("search") /\ SameInput /\ script' = script /\ lcs' = lcs
        /\ N(Here) > 0 /\ M(Here) > 0 /\ search' = NewSearch(Here)
    BY DEF StartSearch, SameInput
  <1>2. /\ calls \in Seq(Frames) /\ calls # <<>> /\ Stack(calls, Whole)
        /\ Current \in Frames /\ Current = Head(calls) /\ Current.at = "begin" /\ Here = Current.region
        /\ Here \in Regions /\ N(Here) \in Nat /\ M(Here) \in Nat /\ HasFound(Current)
    BY <1>1, Innermost
  <1>3. PICK r \in Regions : r = Here
    BY <1>2
  <1>4. N(r) \in Nat \ {0} /\ M(r) \in Nat \ {0} /\ N(r) \in Nat /\ M(r) \in Nat
    BY <1>1, <1>2, <1>3
  <1>5. PICK x : x = [Current EXCEPT !.at = "search"]
    OBVIOUS
  <1>6. x \in Frames /\ x.region = r /\ x.at = "search" /\ HasFound(x)
    <2>1. PICK place \in Places : place = "search"
      BY DEF Places
    <2>2. x \in Frames /\ x.region = Current.region /\ x.at = place /\ HasFound(x)
      BY <1>2, <1>5, <2>1, GoneOn
    <2> QED
      BY <1>2, <1>3, <2>1, <2>2
  <1>7. calls' = <<x>> \o Tail(calls)
    BY <1>1, <1>5 DEF GoOn
  <1>8. /\ calls' \in Seq(Frames) /\ Stack(calls', Whole) /\ calls' # <<>> /\ Head(calls') = x
    BY <1>2, <1>3, <1>6, <1>7, StackPut
  <1>9. 1 \in Diagonals(r) /\ Delta(r) + 1 \in Diagonals(r)
    <2>1. 2 * 0 - 1 <= N(r) + M(r) /\ 0 \in -0 .. 0 /\ 0 \in Nat
      BY <1>4
    <2>2. 0 + 1 \in Diagonals(r) /\ 0 + Delta(r) + 1 \in Diagonals(r)
      BY <1>4, <2>1, DiagonalsInReach
    <2>3. 0 + 1 = 1 /\ 0 + Delta(r) + 1 = Delta(r) + 1
      BY <1>4 DEF Delta
    <2> QED
      BY <2>2, <2>3, Zenon
  <1>10. Searching(There(r), Back(r), r, NewSearch(r))
    BY <1>4, <1>9, EditsOfRegion, SearchBegins
  <1>11. search' = NewSearch(r)
    BY <1>1, <1>3
  <1>12. N(r) # 0 /\ M(r) # 0 /\ Head(calls').region = r /\ Head(calls').at = "search"
    BY <1>4, <1>6, <1>8
  <1> QED
    BY <1>1, <1>8, <1>10, <1>11, <1>12, StillSearching

LEMMA CalledFrom ==
    ASSUME IInv, NEW place, At(place), place # "search", SameInput,
           script' = script, lcs' \in Seq(Points), search' = search,
           NEW next \in {"before", "after"}, next = "before" => place = "found",
           NEW r \in Regions, IsWithin(r, Here), CallFrom(next, r)
    PROVE  IInv'
  <1>2. /\ calls \in Seq(Frames) /\ calls # <<>> /\ Stack(calls, Whole) /\ search = NoSearch
        /\ Current \in Frames /\ Current = Head(calls) /\ Current.at = place /\ Here = Current.region
        /\ HasFound(Current) /\ script \in Scripts
    BY Innermost
  <1>3. PICK x : x = [Current EXCEPT !.at = next]
    OBVIOUS
  <1>4. x \in Frames /\ x.region = Current.region /\ x.at = next /\ HasFound(x)
    <2>1. next \in Places /\ (next = "found" => FALSE) /\ (next = "before" => Current.at = "found")
      BY <1>2 DEF Places
    <2> QED
      BY <1>2, <1>3, <2>1, GoneOn
  <1>5. PICK c \in Frames : c = Call(r) /\ c.region = r /\ c.at = "begin" /\ HasFound(c)
    BY <1>2, CallType
  <1>6. calls' = <<c, x>> \o Tail(calls)
    BY <1>3, <1>5 DEF CallFrom
  <1>7. Waits(x) /\ IsWithin(c.region, x.region)
    BY <1>2, <1>4, <1>5 DEF Waits
  <1>8. calls' \in Seq(Frames) /\ Stack(calls', Whole) /\ Head(calls') = c
    BY <1>2, <1>4, <1>5, <1>6, <1>7, StackPushOnto
  <1>9. Head(calls').at # "search"
    BY <1>5, <1>8
  <1>10. script' \in Scripts /\ search' = NoSearch
    BY <1>2
  <1> QED
    BY <1>8, <1>9, <1>10, NotSearching

LEMMA HalfRegions ==
    ASSUME NEW r \in Regions, NEW p, InRange(p, r.a, r.aEnd, r.b, r.bEnd)
    PROVE  /\ Region(r.a, p[1] + 1, r.b, p[2] + 1) \in Regions
           /\ IsWithin(Region(r.a, p[1] + 1, r.b, p[2] + 1), r)
           /\ Region(p[1] + 1, r.aEnd, p[2] + 1, r.bEnd) \in Regions
           /\ IsWithin(Region(p[1] + 1, r.aEnd, p[2] + 1, r.bEnd), r)
  <1>1. PICK a \in Nat, aEnd \in Nat, b \in Nat, bEnd \in Nat :
            a = r.a /\ aEnd = r.aEnd /\ b = r.b /\ bEnd = r.bEnd
    BY DEF Regions
  <1>2. PICK x \in a .. aEnd, y \in b .. bEnd : x = p[1] + 1 /\ y = p[2] + 1
    BY <1>1 DEF InRange
  <1>3. x \in Nat /\ y \in Nat /\ a <= x /\ x <= aEnd /\ b <= y /\ y <= bEnd
    BY <1>1
  <1>4. Region(a, x, b, y) \in Regions /\ Region(x, aEnd, y, bEnd) \in Regions
    BY <1>3 DEF Region, Regions
  <1>5. IsWithin(Region(a, x, b, y), r) /\ IsWithin(Region(x, aEnd, y, bEnd), r)
    BY <1>1, <1>3 DEF Region, IsWithin
  <1> QED
    BY <1>1, <1>2, <1>4, <1>5

LEMMA BeforeKeeps ==
    ASSUME IInv, Before
    PROVE  IInv'
  <1>1. PICK p : /\ p = SnakeStart(Current.snake)
                 /\ CallFrom("before", Region(Here.a, p[1] + 1, Here.b, p[2] + 1))
    BY DEF Before
  <1>2. At("found") /\ SameInput /\ script' = script /\ lcs' = lcs /\ search' = search
    BY DEF Before, SameInput
  <1>3. /\ Here \in Regions /\ HasFound(Current) /\ Current.at = "found" /\ Here = Current.region
        /\ lcs \in Seq(Points)
    BY <1>2, Innermost
  <1>4. InRange(p, Here.a, Here.aEnd, Here.b, Here.bEnd)
    BY <1>1, <1>3 DEF HasFound, FitsIn
  <1>5. PICK r \in Regions : r = Region(Here.a, p[1] + 1, Here.b, p[2] + 1) /\ IsWithin(r, Here)
    BY <1>3, <1>4, HalfRegions
  <1>6. PICK next \in {"before", "after"} : next = "before"
    OBVIOUS
  <1>7. CallFrom(next, r)
    BY <1>1, <1>5, <1>6
  <1>8. "found" # "search"
    OBVIOUS
  <1> QED
    BY <1>2, <1>3, <1>5, <1>7, <1>8, CalledFrom

LEMMA AfterKeeps ==
    ASSUME IInv, After
    PROVE  IInv'
  <1>1. PICK p : /\ p = SnakeEnd(Current.snake)
                 /\ CallFrom("after", Region(p[1] + 1, Here.aEnd, p[2] + 1, Here.bEnd))
    BY DEF After
  <1>2. /\ At("before") /\ SameInput /\ script' = script /\ search' = search
        /\ lcs' = lcs \o Trace(Current.snake)
    BY DEF After, SameInput
  <1>3. /\ Here \in Regions /\ HasFound(Current) /\ Current.at = "before" /\ Here = Current.region
        /\ lcs \in Seq(Points) /\ Current \in Frames
    BY <1>2, Innermost
  <1>a. Current.snake \in Snakes /\ Current.snake.end \in Int \X Int
    BY <1>3 DEF Frames, HasFound, FitsIn
  <1>b. lcs' \in Seq(Points)
    BY <1>2, <1>3, <1>a, TraceType, ConcatProperties
  <1>4. InRange(p, Here.a, Here.aEnd, Here.b, Here.bEnd)
    BY <1>1, <1>3 DEF HasFound, FitsIn
  <1>5. PICK r \in Regions : r = Region(p[1] + 1, Here.aEnd, p[2] + 1, Here.bEnd) /\ IsWithin(r, Here)
    BY <1>3, <1>4, HalfRegions
  <1>6. PICK next \in {"before", "after"} : next = "after"
    OBVIOUS
  <1>7. CallFrom(next, r) /\ next # "before"
    BY <1>1, <1>5, <1>6
  <1>8. "before" # "search"
    OBVIOUS
  <1> QED
    BY <1>2, <1>5, <1>7, <1>8, <1>b, CalledFrom

LEMMA FoundKeeps ==
    ASSUME IInv, At("search"), SameInput, script' = script, lcs' = lcs,
           NEW snake, NEW t, t = Shifted(Here, snake), t \in Snakes, FitsIn(Here, t),
           NEW length \in Nat, Found(snake, length)
    PROVE  IInv'
  <1>1. /\ calls \in Seq(Frames) /\ calls # <<>> /\ Stack(calls, Whole)
        /\ Current \in Frames /\ Current = Head(calls) /\ Here = Current.region
        /\ script \in Scripts /\ lcs \in Seq(Points)
    BY Innermost
  <1>2. PICK x : x = [Current EXCEPT !.at = "found", !.snake = t, !.length = length]
    OBVIOUS
  <1>3. x \in Frames /\ x.region = Current.region /\ x.at = "found" /\ x.snake = t
    BY <1>1, <1>2 DEF Frames, Places
  <1>4. HasFound(x)
    BY <1>1, <1>3 DEF HasFound
  <1>5. calls' = <<x>> \o Tail(calls) /\ search' = NoSearch
    BY <1>2 DEF Found
  <1>6. calls' \in Seq(Frames) /\ Stack(calls', Whole) /\ Head(calls') = x
    BY <1>1, <1>3, <1>4, <1>5, StackPut
  <1>7. Head(calls').at # "search"
    BY <1>3, <1>6
  <1> QED
    BY <1>1, <1>5, <1>6, <1>7, NotSearching

LEMMA GoesOn ==
    ASSUME IInv, At("search"), SameInput, script' = script, lcs' = lcs, calls' = calls,
           NEW t, search' = t, Searching(There(Here), Back(Here), Here, t)
    PROVE  IInv'
  <1>1. /\ calls \in Seq(Frames) /\ calls # <<>> /\ Stack(calls, Whole)
        /\ Current = Head(calls) /\ Here = Current.region /\ Current.at = "search"
    BY Innermost
  <1>2. PICK r : r = Here /\ N(r) # 0 /\ M(r) # 0
    BY SearchHere
  <1>3. Head(calls').at = "search" /\ Head(calls').region = r
    BY <1>1, <1>2
  <1>4. Searching(There(r), Back(r), r, t)
    BY <1>2
  <1> QED
    BY <1>1, <1>2, <1>3, <1>4, StillSearching

LEMMA ExtendAheadKeeps ==
    ASSUME IInv, ExtendAhead
    PROVE  IInv'
  <1>1. At("search") /\ search.ahead /\ SameInput /\ script' = script /\ lcs' = lcs
    BY DEF ExtendAhead, SameInput
  <1>2. PICK r \in Regions :
             /\ r = Here /\ N(r) \in Nat \ {0} /\ M(r) \in Nat \ {0}
             /\ SearchType(r, search) /\ Searching(There(r), Back(r), r, search)
             /\ IsEdits(There(r), FromStart(r), N(r), M(r))
             /\ IsEdits(Back(r), FromEnd(r), N(r), M(r))
    BY <1>1, SearchHere
  <1>3. PICK s, E, B : s = search /\ E = There(r) /\ B = Back(r)
    OBVIOUS
  <1>4. /\ Searching(E, B, r, s) /\ s.ahead /\ s.d \in Nat
        /\ IsEdits(E, FromStart(r), N(r), M(r)) /\ IsEdits(B, FromEnd(r), N(r), M(r))
    BY <1>1, <1>2, <1>3 DEF SearchType
  <1>5. PICK snake : snake = SnakeAhead(r, s.forward, s.d, s.k)
    OBVIOUS
  <1>6. IF AheadFound(r, s, snake)
        THEN Found(snake, 2 * s.d - 1)
        ELSE /\ search' = NextDiagonal([s EXCEPT !.forward[s.k] = snake.end[1]])
             /\ calls' = calls
    BY <1>2, <1>3, <1>5, Zenon DEF ExtendAhead, AheadFound
  <1>7. CASE AheadFound(r, s, snake)
    <2>1. InGraph(r, snake)
      BY <1>7 DEF AheadFound
    <2>2. PICK length \in Nat : length = 2 * s.d - 1
      <3>1. PICK d \in Nat, g \in Int, k \in Int : d = s.d /\ g = Delta(r) /\ k = s.k
        BY <1>2, <1>4 DEF Searching, SearchType, Delta
      <3>2. k \in g - (d - 1) .. g + (d - 1)
        BY <1>7, <3>1 DEF AheadFound
      <3>3. d # 0
        BY <3>2
      <3>4. 2 * d - 1 \in Nat
        BY <3>3
      <3> QED
        BY <3>1, <3>4
    <2>3. PICK t : t = Shifted(r, snake)
      OBVIOUS
    <2>4. t \in Snakes /\ FitsIn(r, t)
      BY <1>2, <1>4, <1>5, <2>1, <2>3, AheadFits
    <2>5. Found(snake, length)
      BY <1>6, <1>7, <2>2
    <2>6. t = Shifted(Here, snake) /\ FitsIn(Here, t)
      BY <1>2, <2>3, <2>4
    <2> QED
      BY <1>1, <2>4, <2>5, <2>6, FoundKeeps
  <1>8. CASE ~AheadFound(r, s, snake)
    <2>1. PICK t : t = NextDiagonal([s EXCEPT !.forward[s.k] = snake.end[1]])
      OBVIOUS
    <2>2. Searching(E, B, r, NextDiagonal([s EXCEPT !.forward[s.k] = snake.end[1]]))
      BY <1>2, <1>4, <1>5, <1>8, AheadNext
    <2>3. Searching(There(Here), Back(Here), Here, t)
      BY <1>2, <1>3, <2>1, <2>2
    <2>4. search' = t /\ calls' = calls
      BY <1>6, <1>8, <2>1
    <2> QED
      BY <1>1, <2>3, <2>4, GoesOn
  <1> QED
    BY <1>7, <1>8

LEMMA ExtendBackKeeps ==
    ASSUME IInv, ExtendBack
    PROVE  IInv'
  <1>1. At("search") /\ ~search.ahead /\ SameInput /\ script' = script /\ lcs' = lcs
    BY DEF ExtendBack, SameInput
  <1>2. PICK r \in Regions :
             /\ r = Here /\ N(r) \in Nat \ {0} /\ M(r) \in Nat \ {0}
             /\ SearchType(r, search) /\ Searching(There(r), Back(r), r, search)
             /\ IsEdits(There(r), FromStart(r), N(r), M(r))
             /\ IsEdits(Back(r), FromEnd(r), N(r), M(r))
    BY <1>1, SearchHere
  <1>3. PICK s, E, B : s = search /\ E = There(r) /\ B = Back(r)
    OBVIOUS
  <1>4. /\ Searching(E, B, r, s) /\ ~s.ahead /\ s.d \in Nat /\ s.k \in Int
        /\ IsEdits(E, FromStart(r), N(r), M(r)) /\ IsEdits(B, FromEnd(r), N(r), M(r))
    BY <1>1, <1>2, <1>3 DEF SearchType
  <1>k. PICK k \in Int : k = s.k + Delta(r)
    BY <1>2, <1>4 DEF Delta
  <1>5. PICK snake : snake = SnakeBack(r, s.reverse, s.d, k)
    OBVIOUS
  <1>6. IF BackFound(r, s, snake)
        THEN Found(snake, 2 * s.d)
        ELSE /\ search' = NextDiagonal([s EXCEPT !.reverse[k] = snake.end[1]])
             /\ calls' = calls
    BY <1>2, <1>3, <1>5, <1>k, Zenon DEF ExtendBack, BackFound
  <1>7. CASE BackFound(r, s, snake)
    <2>1. InGraph(r, snake)
      BY <1>7 DEF BackFound
    <2>2. PICK length \in Nat : length = 2 * s.d
      BY <1>4
    <2>3. PICK t : t = Shifted(r, snake)
      OBVIOUS
    <2>4. t \in Snakes /\ FitsIn(r, t)
      BY <1>2, <1>4, <1>5, <1>k, <2>1, <2>3, BackFits
    <2>5. Found(snake, length)
      BY <1>6, <1>7, <2>2
    <2>6. t = Shifted(Here, snake) /\ FitsIn(Here, t)
      BY <1>2, <2>3, <2>4
    <2> QED
      BY <1>1, <2>4, <2>5, <2>6, FoundKeeps
  <1>8. CASE ~BackFound(r, s, snake)
    <2>1. PICK t : t = NextDiagonal([s EXCEPT !.reverse[k] = snake.end[1]])
      OBVIOUS
    <2>2. Searching(E, B, r, NextDiagonal([s EXCEPT !.reverse[k] = snake.end[1]]))
      BY <1>2, <1>4, <1>5, <1>k, <1>8, BackNext
    <2>3. Searching(There(Here), Back(Here), Here, t)
      BY <1>2, <1>3, <2>1, <2>2
    <2>4. search' = t /\ calls' = calls
      BY <1>6, <1>8, <2>1
    <2> QED
      BY <1>1, <2>3, <2>4, GoesOn
  <1> QED
    BY <1>7, <1>8

LEMMA InitKeeps ==
    ASSUME Init
    PROVE  IInv
  <1>0. MaxA \in Nat /\ MaxB \in Nat
    BY SizesAssumption
  <1>1. DataType
    <2>1. EmptyScript \in Scripts /\ <<>> \in Seq(Points)
      BY EmptySeq DEF EmptyScript, Scripts
    <2> QED
      BY <2>1 DEF Init, DataType
  <1>2. aSize \in Nat /\ bSize \in Nat
    BY <1>0 DEF Init
  <1>3. PICK r \in Regions : r = Region(0, aSize, 0, bSize) /\ IsWithin(r, Whole)
    <2>1. Region(0, aSize, 0, bSize) \in Regions
      BY <1>2 DEF Region, Regions
    <2>2. IsWithin(Region(0, aSize, 0, bSize), Whole)
      BY <1>2 DEF Whole, Region, IsWithin
    <2> QED
      BY <2>1, <2>2
  <1>4. PICK snake \in Snakes : snake = NoSnake
    <2>1. PICK no \in Points, yes \in BOOLEAN : no = NoPoint /\ yes = TRUE
      <3>1. NoPoint \in Points /\ TRUE \in BOOLEAN
        BY DEF Points
      <3> QED
        BY <3>1, Zenon
    <2>2. NoSnake = [begin |-> no, middle |-> no, end |-> no, diagonal |-> no, forward |-> yes]
      BY <2>1 DEF NoSnake
    <2> QED
      BY <2>2, SnakeOf
  <1>5. PICK c : c = [region |-> r, from |-> 0, at |-> "begin", snake |-> snake, length |-> 0]
    OBVIOUS
  <1>6. c \in Frames /\ c.at = "begin" /\ c.region = r
    BY <1>5 DEF Frames, Places
  <1>7. calls = <<c>> /\ search = NoSearch
    BY <1>3, <1>4, <1>5 DEF Init
  <1>8. calls \in Seq(Frames) /\ Len(calls) = 1 /\ calls[1] = c /\ calls # <<>>
    BY <1>6, <1>7
  <1>9. Stack(calls, Whole)
    <2>1. OuterOf(calls, 1, Whole) = Whole
      BY <1>8 DEF OuterOf
    <2>2. IsWithin(calls[1].region, OuterOf(calls, 1, Whole)) /\ HasFound(calls[1])
      BY <1>3, <1>6, <1>8, <2>1 DEF HasFound
    <2>3. \A i \in 1 .. Len(calls) : i = 1 /\ ~(i > 1)
      BY <1>8
    <2> QED
      BY <2>2, <2>3 DEF Stack
  <1>10. ~At("search")
    BY <1>6, <1>7, <1>8 DEF At, Current
  <1>11. SearchKeepsOn
    BY <1>7, <1>10 DEF SearchKeepsOn
  <1> QED
    BY <1>1, <1>8, <1>9, <1>11 DEF IInv, CallsNest

LEMMA StutterKeeps ==
    ASSUME IInv, UNCHANGED vars
    PROVE  IInv'
  <1>1. CASE At("search")
    <2>1. /\ SameInput /\ script' = script /\ lcs' = lcs /\ calls' = calls /\ search' = search
      BY DEF vars, SameInput
    <2>2. PICK t : t = search
      OBVIOUS
    <2>3. Searching(There(Here), Back(Here), Here, t)
      BY <1>1, <2>2, SearchHere
    <2> QED
      BY <1>1, <2>1, <2>2, <2>3, GoesOn
  <1>2. CASE ~At("search")
    <2>1. /\ SameInput /\ script' = script /\ lcs' = lcs /\ calls' = calls /\ search' = search
      BY DEF vars, SameInput
    <2>2. /\ script \in Scripts /\ lcs \in Seq(Points) /\ search = NoSearch
          /\ calls \in Seq(Frames) /\ Stack(calls, Whole)
      BY <1>2 DEF IInv, DataType, CallsNest, SearchKeepsOn
    <2>3. calls # <<>> => Head(calls).at # "search"
      BY <1>2 DEF At, Current
    <2> QED
      BY <2>1, <2>2, <2>3, NotSearching
  <1> QED
    BY <1>1, <1>2

(* The search of every call finds a middle snake before it has tried as many *)
(* edits as the code allows it, and its vectors hold furthest reaching paths *)
(* after every turn, for sequences of any length.                            *)
THEOREM SearchRight == Spec => []SearchIsRight
  <1>1. Init => IInv
    BY InitKeeps
  <1>2. IInv /\ [Next]_vars => IInv'
    <2> SUFFICES ASSUME IInv, [Next]_vars
                 PROVE  IInv'
      OBVIOUS
    <2>1. CASE OneSided
      BY <2>1, OneSidedKeeps
    <2>2. CASE StartSearch
      BY <2>2, StartSearchKeeps
    <2>3. CASE ExtendAhead
      BY <2>3, ExtendAheadKeeps
    <2>4. CASE ExtendBack
      BY <2>4, ExtendBackKeeps
    <2>5. CASE NoEdit
      BY <2>5, NoEditKeeps
    <2>6. CASE OneEdit
      BY <2>6, OneEditKeeps
    <2>7. CASE Before
      BY <2>7, BeforeKeeps
    <2>8. CASE After
      BY <2>8, AfterKeeps
    <2>9. CASE Joined
      BY <2>9, JoinedKeeps
    <2>10. CASE UNCHANGED vars
      BY <2>10, StutterKeeps
    <2> QED
      BY <2>1, <2>2, <2>3, <2>4, <2>5, <2>6, <2>7, <2>8, <2>9, <2>10 DEF Next
  <1>3. IInv => SearchIsRight
    BY InvImplies
  <1> QED
    BY <1>1, <1>2, <1>3, PTL DEF Spec

-----------------------------------------------------------------------------
(* The edits to a point depend on what is before it only: those of a half   *)
(* are those of the whole.                                                  *)
LEMMA EditsUnfold ==
    ASSUME NEW E, NEW P, NEW n \in Nat, NEW m \in Nat, IsEdits(E, P, n, m),
           NEW x \in Nat, NEW y \in Nat
    PROVE  E[x + 1][y + 1] = IF <<x, y>> \in P THEN E[x][y]
                             ELSE IF E[x + 1][y] < E[x][y + 1] THEN E[x + 1][y] + 1
                             ELSE E[x][y + 1] + 1
  <1>1. PICK u \in Nat, v \in Nat : u = x + 1 /\ v = y + 1
    OBVIOUS
  <1>2. E[x][y] \in Nat /\ E[u][y] \in Nat /\ E[x][v] \in Nat /\ E[u][v] \in Nat
    BY <1>1, EditsAtLeast
  <1>3. /\ E[x + 1][v] = E[x][v] + 1 \/ E[x + 1][v] = E[x][v] - 1
        /\ E[u][y + 1] = E[u][y] + 1 \/ E[u][y + 1] = E[u][y] - 1
    BY <1>1 DEF IsEdits, UnitSteps
  <1>4. IF <<x, y>> \in P
        THEN E[x + 1][y + 1] = E[x][y]
        ELSE \/ E[x + 1][y + 1] = E[x + 1][y] + 1
             \/ E[x + 1][y + 1] = E[x][y + 1] + 1
    BY DEF IsEdits, Matched
  <1>5. /\ E[u][v] = E[x][v] + 1 \/ E[u][v] = E[x][v] - 1
        /\ E[u][v] = E[u][y] + 1 \/ E[u][v] = E[u][y] - 1
        /\ <<x, y>> \in P => E[u][v] = E[x][y]
        /\ <<x, y>> \notin P => E[u][v] = E[u][y] + 1 \/ E[u][v] = E[x][v] + 1
    BY <1>1, <1>3, <1>4
  <1>6. E[u][v] = IF <<x, y>> \in P THEN E[x][y]
                  ELSE IF E[u][y] < E[x][v] THEN E[u][y] + 1 ELSE E[x][v] + 1
    BY <1>2, <1>5
  <1> QED
    BY <1>1, <1>6

SameBefore(P, R, a, b) ==
    \A x \in 0 .. a - 1, y \in 0 .. b - 1 : <<x, y>> \in P <=> <<x, y>> \in R

LEMMA EditsAgree ==
    ASSUME NEW n \in Nat, NEW m \in Nat, NEW E, NEW P, IsEdits(E, P, n, m),
           NEW p \in Nat, NEW q \in Nat, NEW F, NEW R, IsEdits(F, R, p, q),
           NEW a \in Nat, NEW b \in Nat, SameBefore(P, R, a, b)
    PROVE  \A x \in 0 .. a, y \in 0 .. b : E[x][y] = F[x][y]
  <1> DEFINE S == {i \in 0 .. a : \A y \in 0 .. b : E[i][y] = F[i][y]}
  <1>0. \A x \in Nat : E[x][0] = x /\ E[0][x] = x /\ F[x][0] = x /\ F[0][x] = x
    BY DEF IsEdits
  <1>1. 0 \in S
    BY <1>0
  <1>2. ASSUME NEW i \in 0 .. a, i # a, i \in S
        PROVE  i + 1 \in S
    <2> DEFINE T == {j \in 0 .. b : E[i + 1][j] = F[i + 1][j]}
    <2>1. 0 \in T
      BY <1>0
    <2>2. ASSUME NEW j \in 0 .. b, j # b, j \in T
          PROVE  j + 1 \in T
      <3>1. <<i, j>> \in P <=> <<i, j>> \in R
        BY <1>2, <2>2 DEF SameBefore
      <3>2. E[i][j] = F[i][j] /\ E[i][j + 1] = F[i][j + 1] /\ E[i + 1][j] = F[i + 1][j]
        BY <1>2, <2>2
      <3>3. i \in Nat /\ j \in Nat
        OBVIOUS
      <3>4. E[i + 1][j + 1] = IF <<i, j>> \in P THEN E[i][j]
                             ELSE IF E[i + 1][j] < E[i][j + 1] THEN E[i + 1][j] + 1
                             ELSE E[i][j + 1] + 1
        BY <3>3, EditsUnfold
      <3>5. F[i + 1][j + 1] = IF <<i, j>> \in R THEN F[i][j]
                             ELSE IF F[i + 1][j] < F[i][j + 1] THEN F[i + 1][j] + 1
                             ELSE F[i][j + 1] + 1
        BY <3>3, EditsUnfold
      <3>6. E[i + 1][j + 1] = F[i + 1][j + 1]
        <4>1. PICK u, v, w : u = E[i][j] /\ v = E[i][j + 1] /\ w = E[i + 1][j]
          OBVIOUS
        <4>2. E[i + 1][j + 1] = IF <<i, j>> \in P THEN u ELSE IF w < v THEN w + 1 ELSE v + 1
          BY <3>4, <4>1
        <4>3. F[i + 1][j + 1] = IF <<i, j>> \in R THEN u ELSE IF w < v THEN w + 1 ELSE v + 1
          BY <3>2, <3>5, <4>1
        <4> QED
          BY <3>1, <4>2, <4>3
      <3> QED
        BY <2>2, <3>6
    <2>3. 0 .. b \subseteq T
      <3> HIDE DEF T
      <3> QED
        BY <2>1, <2>2, InductionUpTo
    <2> QED
      BY <1>2, <2>3
  <1>3. 0 .. a \subseteq S
    <2> HIDE DEF S
    <2> QED
      BY <1>1, <1>2, InductionUpTo
  <1> QED
    BY <1>3

(* Along elements that match the edits stay as many.                        *)
FreeRun(P, x, y, e) == \A i \in 0 .. e - 1 : <<x + i, y + i>> \in P

LEMMA RunIsFree ==
    ASSUME NEW E, NEW P, NEW n \in Nat, NEW m \in Nat, IsEdits(E, P, n, m),
           NEW x \in Nat, NEW y \in Nat, NEW e \in Nat,
           FreeRun(P, x, y, e)
    PROVE  E[x + e][y + e] = E[x][y]
  <1> DEFINE S == {i \in 0 .. e : E[x + i][y + i] = E[x][y]}
  <1>1. 0 \in S
    <2>1. x + 0 = x /\ y + 0 = y /\ 0 \in 0 .. e
      OBVIOUS
    <2> QED
      BY <2>1
  <1>2. ASSUME NEW i \in 0 .. e, i # e, i \in S
        PROVE  i + 1 \in S
    <2>1. PICK a \in Nat, b \in Nat : a = x + i /\ b = y + i
      OBVIOUS
    <2>2. i \in 0 .. e - 1
      BY <1>2
    <2>3. <<a, b>> \in P
      BY <2>1, <2>2 DEF FreeRun
    <2>4. E[a + 1][b + 1] = E[a][b]
      BY <2>3 DEF IsEdits, Matched
    <2>5. a + 1 = x + (i + 1) /\ b + 1 = y + (i + 1) /\ E[a][b] = E[x][y]
      BY <1>2, <2>1
    <2>6. E[x + (i + 1)][y + (i + 1)] = E[x][y]
      BY <2>4, <2>5
    <2> QED
      BY <2>2, <2>6
  <1>3. 0 .. e \subseteq S
    <2> HIDE DEF S
    <2> QED
      BY <1>1, <1>2, InductionUpTo
  <1> QED
    BY <1>3

(* Where no edit is needed, everything matches.                             *)
LEMMA NoEditsMatch ==
    ASSUME NEW E, NEW P, NEW n \in Nat, NEW m \in Nat, IsEdits(E, P, n, m),
           NEW x \in Nat, NEW y \in Nat, E[x][y] = 0
    PROVE  x = y /\ \A i \in 0 .. x - 1 : <<i, i>> \in P
  <1>1. E[x][y] >= x - y /\ E[x][y] >= y - x
    BY EditsAtLeast
  <1>2. x = y
    BY <1>1
  <1>3. ASSUME NEW i \in 0 .. x - 1
        PROVE  <<i, i>> \in P
    <2>1. PICK j \in Nat, u \in Nat : j = x - (i + 1) /\ u = i + 1 /\ i \in Nat
      OBVIOUS
    <2>2. E[u + j][u + j] >= E[u][u] /\ u + j = x
      <3>1. E[u + j][u + j] >= E[u][u]
        BY AlongDiagonal
      <3> QED
        BY <2>1, <3>1
    <2>3. E[u][u] \in Nat /\ E[u][i] \in Nat /\ E[i][u] \in Nat
      BY <2>1, EditsAtLeast
    <2>4. E[i + 1][i + 1] = 0
      BY <1>2, <2>1, <2>2, <2>3
    <2>5. E[i + 1][i] \in Nat /\ E[i][i + 1] \in Nat
      BY <2>1, <2>3
    <2>6. IF <<i, i>> \in P
          THEN E[i + 1][i + 1] = E[i][i]
          ELSE \/ E[i + 1][i + 1] = E[i + 1][i] + 1
               \/ E[i + 1][i + 1] = E[i][i + 1] + 1
      BY <2>1 DEF IsEdits, Matched
    <2> QED
      BY <2>4, <2>5, <2>6
  <1> QED
    BY <1>2, <1>3

LEMMA PairsFrom ==
    ASSUME NEW r, NEW x \in 0 .. N(r) - 1, NEW y \in 0 .. M(r) - 1
    PROVE  /\ <<x, y>> \in FromStart(r) <=> <<r.a + x, r.b + y>> \in match
           /\ <<x, y>> \in FromEnd(r) <=> <<r.a + (N(r) - 1 - x), r.b + (M(r) - 1 - y)>> \in match
  <1>1. <<x, y>> \in Indexes(N(r)) \X Indexes(M(r)) /\ <<x, y>>[1] = x /\ <<x, y>>[2] = y
    BY DEF Indexes
  <1>2. <<x, y>> \in FromStart(r) <=> EqualAt(r, x, y)
    BY <1>1 DEF FromStart
  <1>3. <<x, y>> \in FromEnd(r) <=> EqualAt(r, N(r) - 1 - x, M(r) - 1 - y)
    BY <1>1 DEF FromEnd
  <1> QED
    BY <1>2, <1>3 DEF EqualAt

Opt(r) == There(r)[N(r)][M(r)]

LEMMA OptIs ==
    ASSUME NEW r, N(r) \in Nat, M(r) \in Nat
    PROVE  Opt(r) \in Nat /\ Opt(r) = Back(r)[N(r)][M(r)]
  <1>1. PICK n \in Nat, m \in Nat : n = N(r) /\ m = M(r)
    OBVIOUS
  <1>2. PICK E, B, P, Q : E = There(r) /\ B = Back(r) /\ P = FromStart(r) /\ Q = FromEnd(r)
    OBVIOUS
  <1>3. IsEdits(E, P, n, m) /\ IsEdits(B, Q, n, m) /\ Opposite(P, Q, n, m)
    BY <1>1, <1>2, EditsOfRegion, RegionPairs
  <1>4. E[n][m] = B[n][m]
    BY <1>3, SameLength
  <1>5. E[n][m] \in Nat
    BY <1>3, EditsAtLeast
  <1> QED
    BY <1>1, <1>2, <1>4, <1>5 DEF Opt

LEMMA OptOfFirst ==
    ASSUME NEW r \in Regions, N(r) \in Nat, M(r) \in Nat,
           NEW x \in 0 .. N(r), NEW y \in 0 .. M(r),
           NEW f, f = Region(r.a, r.a + x, r.b, r.b + y)
    PROVE  Opt(f) = There(r)[x][y]
  <1>1. PICK n \in Nat, m \in Nat, a \in Nat, b \in Nat : n = N(r) /\ m = M(r) /\ a = r.a /\ b = r.b
    BY DEF Regions
  <1>2. f.a = a /\ f.b = b /\ N(f) = x /\ M(f) = y /\ x \in Nat /\ y \in Nat
    BY <1>1 DEF Region, N, M
  <1>3. PICK E, F, P, R : E = There(r) /\ F = There(f) /\ P = FromStart(r) /\ R = FromStart(f)
    OBVIOUS
  <1>4. IsEdits(E, P, n, m) /\ IsEdits(F, R, x, y)
    BY <1>1, <1>2, <1>3, EditsOfRegion
  <1>5. ASSUME NEW i \in 0 .. x - 1, NEW j \in 0 .. y - 1
        PROVE  <<i, j>> \in P <=> <<i, j>> \in R
    <2>1. i \in 0 .. N(r) - 1 /\ j \in 0 .. M(r) - 1
      BY <1>1, <1>2
    <2>2. <<i, j>> \in FromStart(r) <=> <<r.a + i, r.b + j>> \in match
      BY <2>1, PairsFrom
    <2>3. i \in 0 .. N(f) - 1 /\ j \in 0 .. M(f) - 1
      BY <1>2
    <2>4. <<i, j>> \in FromStart(f) <=> <<f.a + i, f.b + j>> \in match
      BY <2>3, PairsFrom
    <2> QED
      BY <1>1, <1>2, <1>3, <2>2, <2>4
  <1>6. \A i \in 0 .. x, j \in 0 .. y : E[i][j] = F[i][j]
    <2>1. PICK p \in Nat, q \in Nat : p = x /\ q = y
      BY <1>2
    <2>2. SameBefore(P, R, p, q) /\ IsEdits(F, R, p, q)
      BY <1>4, <1>5, <2>1 DEF SameBefore
    <2>3. \A i \in 0 .. p, j \in 0 .. q : E[i][j] = F[i][j]
      BY <1>4, <2>2, EditsAgree
    <2> QED
      BY <2>1, <2>3
  <1>7. E[x][y] = F[x][y]
    BY <1>2, <1>6
  <1> QED
    BY <1>2, <1>3, <1>7 DEF Opt

LEMMA OptOfLast ==
    ASSUME NEW r \in Regions, N(r) \in Nat, M(r) \in Nat,
           NEW u \in 0 .. N(r), NEW v \in 0 .. M(r),
           NEW f, f = Region(r.a + u, r.aEnd, r.b + v, r.bEnd)
    PROVE  Opt(f) = Back(r)[N(r) - u][M(r) - v]
  <1>1. PICK n \in Nat, m \in Nat, a \in Nat, b \in Nat : n = N(r) /\ m = M(r) /\ a = r.a /\ b = r.b
    BY DEF Regions
  <1>2. PICK x \in Nat, y \in Nat : x = n - u /\ y = m - v
    BY <1>1
  <1>3. f.a = a + u /\ f.b = b + v /\ N(f) = x /\ M(f) = y
    BY <1>1, <1>2 DEF Region, N, M, Regions
  <1>4. PICK E, F, P, R : E = Back(r) /\ F = Back(f) /\ P = FromEnd(r) /\ R = FromEnd(f)
    OBVIOUS
  <1>5. IsEdits(E, P, n, m) /\ IsEdits(F, R, x, y)
    BY <1>1, <1>3, <1>4, EditsOfRegion
  <1>6. ASSUME NEW i \in 0 .. x - 1, NEW j \in 0 .. y - 1
        PROVE  <<i, j>> \in P <=> <<i, j>> \in R
    <2>1. i \in 0 .. N(r) - 1 /\ j \in 0 .. M(r) - 1
      BY <1>1, <1>2
    <2>2. <<i, j>> \in FromEnd(r) <=> <<r.a + (N(r) - 1 - i), r.b + (M(r) - 1 - j)>> \in match
      BY <2>1, PairsFrom
    <2>3. i \in 0 .. N(f) - 1 /\ j \in 0 .. M(f) - 1
      BY <1>3
    <2>4. <<i, j>> \in FromEnd(f) <=> <<f.a + (N(f) - 1 - i), f.b + (M(f) - 1 - j)>> \in match
      BY <2>3, PairsFrom
    <2>5. /\ r.a + (N(r) - 1 - i) = f.a + (N(f) - 1 - i)
          /\ r.b + (M(r) - 1 - j) = f.b + (M(f) - 1 - j)
      BY <1>1, <1>2, <1>3
    <2> QED
      BY <1>4, <2>2, <2>4, <2>5
  <1>7. \A i \in 0 .. x, j \in 0 .. y : E[i][j] = F[i][j]
    <2>1. SameBefore(P, R, x, y)
      BY <1>6 DEF SameBefore
    <2> QED
      BY <1>5, <2>1, EditsAgree
  <1>8. E[x][y] = F[x][y]
    BY <1>7
  <1>9. Opt(f) = F[x][y]
    BY <1>3, <1>4, OptIs
  <1> QED
    BY <1>1, <1>2, <1>4, <1>8, <1>9

-----------------------------------------------------------------------------
(* What a search has found, in the coordinates of the sequences: elements   *)
(* that match, between the two halves.                                      *)
SnakeMatches(snake, e) ==
    LET p == SnakeStart(snake)
        q == SnakeEnd(snake)
    IN  /\ q[1] = p[1] + e /\ q[2] = p[2] + e
        /\ \A i \in 1 .. e : <<p[1] + i, p[2] + i>> \in match
        /\ \/ snake.diagonal = NoPoint
           \/ snake.forward /\ snake.diagonal = <<p[1] + 1, p[2] + 1>>
           \/ ~snake.forward /\ e # 0 /\ snake.diagonal = q

LEMMA RunAheadMatches ==
    ASSUME NEW r \in Regions, N(r) \in Nat, M(r) \in Nat,
           NEW x \in Nat, NEW y \in Nat, NEW run, IsRun(FromStart(r), x, y, run),
           NEW i \in 0 .. run - 1
    PROVE  run \in Nat /\ <<r.a + (x + i), r.b + (y + i)>> \in match
  <1>1. run \in Nat /\ <<x + i, y + i>> \in FromStart(r)
    BY DEF IsRun
  <1>2. x + i \in 0 .. N(r) - 1 /\ y + i \in 0 .. M(r) - 1
    BY <1>1, RegionPairs DEF Indexes
  <1>3. <<x + i, y + i>> \in FromStart(r) <=> <<r.a + (x + i), r.b + (y + i)>> \in match
    BY <1>2, PairsFrom
  <1> QED
    BY <1>1, <1>3

LEMMA RunBackMatches ==
    ASSUME NEW r \in Regions, N(r) \in Nat, M(r) \in Nat,
           NEW x \in Nat, NEW y \in Nat, NEW run, IsRun(FromEnd(r), x, y, run),
           NEW i \in 0 .. run - 1
    PROVE  /\ run \in Nat
           /\ <<r.a + (N(r) - 1 - (x + i)), r.b + (M(r) - 1 - (y + i))>> \in match
  <1>1. run \in Nat /\ <<x + i, y + i>> \in FromEnd(r)
    BY DEF IsRun
  <1>2. x + i \in 0 .. N(r) - 1 /\ y + i \in 0 .. M(r) - 1
    BY <1>1, RegionPairs DEF Indexes
  <1>3. <<x + i, y + i>> \in FromEnd(r)
          <=> <<r.a + (N(r) - 1 - (x + i)), r.b + (M(r) - 1 - (y + i))>> \in match
    BY <1>2, PairsFrom
  <1> QED
    BY <1>1, <1>3

(* The points of a snake, moved.                                            *)
LEMMA ShiftedPoints ==
    ASSUME NEW r \in Regions, NEW snake \in Snakes, NEW t, t = Shifted(r, snake),
           snake.begin \in Int \X Int, snake.middle \in Int \X Int, snake.end \in Int \X Int
    PROVE  /\ t \in Snakes /\ t.forward = snake.forward
           /\ t.begin \in Int \X Int /\ t.middle \in Int \X Int /\ t.end \in Int \X Int
           /\ t.begin[1] = snake.begin[1] + r.a /\ t.begin[2] = snake.begin[2] + r.b
           /\ t.middle[1] = snake.middle[1] + r.a /\ t.middle[2] = snake.middle[2] + r.b
           /\ t.end[1] = snake.end[1] + r.a /\ t.end[2] = snake.end[2] + r.b
           /\ t.diagonal = MovedBy(r, snake.diagonal)
  <1>1. /\ t \in Snakes /\ t.forward = snake.forward
        /\ t.begin = MovedBy(r, snake.begin) /\ t.middle = MovedBy(r, snake.middle)
        /\ t.end = MovedBy(r, snake.end) /\ t.diagonal = MovedBy(r, snake.diagonal)
    BY ShiftedIs
  <1>2. snake.begin \in Points /\ snake.middle \in Points /\ snake.end \in Points
    BY PointsDiffer
  <1> QED
    BY <1>1, <1>2, MovedPoint

LEMMA AheadSnakeMatches ==
    ASSUME NEW r \in Regions, N(r) \in Nat, M(r) \in Nat, NEW E, NEW d, NEW k \in Int,
           NEW snake \in Snakes, AheadParts(r, E, d, snake), snake.forward,
           snake.begin \in Int \X Int, snake.middle \in Int \X Int, snake.end \in Int \X Int,
           snake.end[2] = snake.end[1] - k, snake.middle[2] = snake.middle[1] - k,
           snake.middle[1] >= -1, snake.middle[2] >= -1,
           NEW t, t = Shifted(r, snake)
    PROVE  \E e \in Nat : SnakeMatches(t, e)
  <1>1. PICK run : /\ IsRun(FromStart(r), snake.middle[1] + 1, snake.middle[2] + 1, run)
                   /\ snake.end[1] = snake.middle[1] + run
                   /\ snake.diagonal = IF run = 0 THEN NoPoint
                                       ELSE <<snake.middle[1] + 1, snake.middle[2] + 1>>
    BY DEF AheadParts
  <1>2. PICK x \in Int, y \in Int, a \in Nat, b \in Nat :
          x = snake.middle[1] /\ y = snake.middle[2] /\ a = r.a /\ b = r.b
    BY DEF Regions
  <1>3. run \in Nat /\ x + 1 \in Nat /\ y + 1 \in Nat
    BY <1>1, <1>2 DEF IsRun
  <1>4. /\ t.forward /\ t.middle[1] = x + a /\ t.middle[2] = y + b
        /\ t.end[1] = x + run + a /\ t.end[2] = y + run + b
        /\ t.diagonal = MovedBy(r, snake.diagonal)
    <2>0. t.forward = snake.forward
      BY ShiftedIs
    <2>1. /\ t.middle[1] = snake.middle[1] + r.a /\ t.middle[2] = snake.middle[2] + r.b
          /\ t.end[1] = snake.end[1] + r.a /\ t.end[2] = snake.end[2] + r.b
          /\ t.diagonal = MovedBy(r, snake.diagonal)
      <3>1. t.middle[1] = snake.middle[1] + r.a /\ t.middle[2] = snake.middle[2] + r.b
        BY ShiftedPoints
      <3>2. t.end[1] = snake.end[1] + r.a /\ t.end[2] = snake.end[2] + r.b
        BY ShiftedPoints
      <3>3. t.diagonal = MovedBy(r, snake.diagonal)
        BY ShiftedPoints
      <3> QED
        BY <3>1, <3>2, <3>3
    <2>2. snake.end[1] = x + run /\ snake.end[2] = y + run
      BY <1>1, <1>2, <1>3
    <2> QED
      BY <1>2, <2>0, <2>1, <2>2
  <1>5. ASSUME NEW i \in 1 .. run
        PROVE  <<t.middle[1] + i, t.middle[2] + i>> \in match
    <2>1. PICK p \in Nat, q \in Nat, j \in 0 .. run - 1 : p = x + 1 /\ q = y + 1 /\ j = i - 1
      BY <1>3
    <2>2. IsRun(FromStart(r), p, q, run)
      BY <1>1, <1>2, <2>1
    <2>3. <<r.a + (p + j), r.b + (q + j)>> \in match
      BY <2>2, RunAheadMatches
    <2>4. r.a + (p + j) = t.middle[1] + i /\ r.b + (q + j) = t.middle[2] + i
      BY <1>2, <1>4, <2>1
    <2> QED
      BY <2>3, <2>4
  <1>6. t.diagonal = NoPoint \/ t.diagonal = <<t.middle[1] + 1, t.middle[2] + 1>>
    <2>1. CASE run = 0
      BY <1>1, <1>4, <2>1 DEF MovedBy
    <2>2. CASE run # 0
      <3>1. snake.diagonal = <<x + 1, y + 1>> /\ <<x + 1, y + 1>> \in Int \X Int
        BY <1>1, <1>2, <2>2
      <3>2. snake.diagonal # NoPoint
        BY <3>1, PointsDiffer
      <3>3. t.diagonal = <<snake.diagonal[1] + r.a, snake.diagonal[2] + r.b>>
        BY <1>4, <3>2 DEF MovedBy
      <3>4. snake.diagonal[1] + r.a = t.middle[1] + 1 /\ snake.diagonal[2] + r.b = t.middle[2] + 1
        BY <1>2, <1>4, <3>1
      <3> QED
        BY <3>3, <3>4
    <2> QED
      BY <2>1, <2>2
  <1>7. SnakeStart(t) = t.middle /\ SnakeEnd(t) = t.end
    BY <1>4 DEF SnakeStart, SnakeEnd
  <1>8. t.end[1] = t.middle[1] + run /\ t.end[2] = t.middle[2] + run
    <2>1. PICK g \in Int, c \in Int, h \in Nat : g = x + a /\ c = y + b /\ h = run
      BY <1>2, <1>3
    <2>2. t.middle[1] = g /\ t.middle[2] = c /\ t.end[1] = g + h /\ t.end[2] = c + h
      BY <1>2, <1>3, <1>4, <2>1
    <2> QED
      BY <2>1, <2>2
  <1>9. SnakeMatches(t, run)
    <2>1. PICK p, q : p = t.middle /\ q = t.end
      OBVIOUS
    <2> QED
      BY <1>4, <1>5, <1>6, <1>7, <1>8, <2>1, Zenon DEF SnakeMatches
  <1> QED
    BY <1>3, <1>9

LEMMA BackSnakeMatches ==
    ASSUME NEW r \in Regions, N(r) \in Nat, M(r) \in Nat, NEW B, NEW d, NEW k \in Int,
           NEW snake \in Snakes, BackParts(r, B, d, snake), ~snake.forward,
           snake.begin \in Int \X Int, snake.middle \in Int \X Int, snake.end \in Int \X Int,
           snake.end[2] = snake.end[1] - k, snake.middle[2] = snake.middle[1] - k,
           NEW t, t = Shifted(r, snake)
    PROVE  \E e \in Nat : SnakeMatches(t, e)
  <1>1. PICK run : /\ IsRun(FromEnd(r), N(r) - 1 - snake.middle[1], M(r) - 1 - snake.middle[2], run)
                   /\ snake.end[1] = snake.middle[1] - run
                   /\ snake.diagonal = IF run = 0 THEN NoPoint ELSE snake.middle
    BY DEF BackParts
  <1>2. PICK x \in Int, y \in Int, a \in Nat, b \in Nat, n \in Nat, m \in Nat :
          /\ x = snake.middle[1] /\ y = snake.middle[2] /\ a = r.a /\ b = r.b
          /\ n = N(r) /\ m = M(r)
    BY DEF Regions
  <1>3. run \in Nat /\ n - 1 - x \in Nat /\ m - 1 - y \in Nat
    BY <1>1, <1>2 DEF IsRun, BackParts
  <1>4. /\ ~t.forward /\ t.middle[1] = x + a /\ t.middle[2] = y + b
        /\ t.end[1] = x - run + a /\ t.end[2] = y - run + b
        /\ t.middle \in Int \X Int
        /\ t.diagonal = MovedBy(r, snake.diagonal)
    <2>1. /\ t.forward = snake.forward
          /\ t.middle[1] = snake.middle[1] + r.a /\ t.middle[2] = snake.middle[2] + r.b
          /\ t.end[1] = snake.end[1] + r.a /\ t.end[2] = snake.end[2] + r.b
          /\ t.middle \in Int \X Int
          /\ t.diagonal = MovedBy(r, snake.diagonal)
      BY ShiftedPoints, Zenon
    <2>2. snake.end[1] = x - run /\ snake.end[2] = y - run
      BY <1>1, <1>2, <1>3
    <2> QED
      BY <1>2, <2>1, <2>2
  <1>5. ASSUME NEW i \in 1 .. run
        PROVE  <<t.end[1] + i, t.end[2] + i>> \in match
    <2>1. PICK p \in Nat, q \in Nat, j \in 0 .. run - 1 :
            p = n - 1 - x /\ q = m - 1 - y /\ j = run - i
      BY <1>3
    <2>2. IsRun(FromEnd(r), p, q, run)
      BY <1>1, <1>2, <2>1
    <2>3. <<r.a + (N(r) - 1 - (p + j)), r.b + (M(r) - 1 - (q + j))>> \in match
      BY <2>2, RunBackMatches
    <2>4. /\ r.a + (N(r) - 1 - (p + j)) = t.end[1] + i
          /\ r.b + (M(r) - 1 - (q + j)) = t.end[2] + i
      BY <1>2, <1>3, <1>4, <2>1
    <2> QED
      BY <2>3, <2>4
  <1>6. t.diagonal = NoPoint \/ (run # 0 /\ t.diagonal = t.middle)
    <2>1. CASE run = 0
      BY <1>1, <1>4, <2>1 DEF MovedBy
    <2>2. CASE run # 0
      <3>1. snake.diagonal = snake.middle
        BY <1>1, <2>2
      <3> QED
        BY <1>4, <2>2, <3>1, ShiftedIs
    <2> QED
      BY <2>1, <2>2
  <1>7. SnakeStart(t) = t.end /\ SnakeEnd(t) = t.middle
    BY <1>4 DEF SnakeStart, SnakeEnd
  <1>8. t.middle[1] = t.end[1] + run /\ t.middle[2] = t.end[2] + run
    <2>1. PICK g \in Int, c \in Int, h \in Nat : g = x + a /\ c = y + b /\ h = run
      BY <1>2, <1>3
    <2>2. t.middle[1] = g /\ t.middle[2] = c /\ t.end[1] = g - h /\ t.end[2] = c - h
      BY <1>2, <1>3, <1>4, <2>1
    <2> QED
      BY <2>1, <2>2
  <1>9. SnakeMatches(t, run)
    <2>1. PICK p, q : p = t.middle /\ q = t.end
      OBVIOUS
    <2> QED
      BY <1>4, <1>5, <1>6, <1>7, <1>8, <2>1, Zenon DEF SnakeMatches
  <1> QED
    BY <1>3, <1>9

-----------------------------------------------------------------------------
(* A search that has found something has found the length of the script,    *)
(* and what is left for the halves is the rest of it.                       *)
LEMMA AheadSplits ==
    ASSUME NEW n \in Nat, NEW m \in Nat, NEW E, NEW P, NEW B, NEW Q, BothWays(E, P, B, Q, n, m),
           NEW d \in Nat, d # 0, NEW k \in Int, (k + d) % 2 = 0, (n - m) % 2 # 0,
           k \in (n - m) - (d - 1) .. (n - m) + (d - 1), E[n][m] >= 2 * d - 1,
           NEW w, HeldBack(B, w, n, m, d - 1), w[k] \in Int,
           NEW x \in Nat, NEW y \in Nat, NEW e \in Nat, x + e <= n, y + e <= m, y = x - k,
           E[x][y] <= d, FreeRun(P, x, y, e), x + e - 1 >= w[k]
    PROVE  E[n][m] = 2 * d - 1 /\ E[x][y] = d /\ B[n - (x + e)][m - (y + e)] = d - 1
  <1>0. IsEdits(E, P, n, m) /\ IsEdits(B, Q, n, m) /\ Opposite(P, Q, n, m)
    BY DEF BothWays
  <1>1. PICK u \in 0 .. n, v \in 0 .. m : u = x + e /\ v = y + e
    OBVIOUS
  <1>2. PICK g \in 0 .. n, h \in 0 .. m : g = n - u /\ h = m - v /\ n - g = u /\ m - h = v
    BY <1>1
  <1>3. E[u][v] = E[x][y]
    BY <1>0, <1>1, RunIsFree
  <1>4. E[n][m] <= E[u][v] + B[g][h]
    <2>1. E[n][m] <= E[n - g][m - h] + B[g][h]
      BY <1>0, Through
    <2> QED
      BY <1>2, <2>1
  <1>5. B[g][h] <= d - 1
    <2>1. PICK c \in Nat, j \in Int : c = d - 1 /\ j = k - (n - m)
      OBVIOUS
    <2>2. j \in -c .. c /\ (j + c) % 2 = 0 /\ j + (n - m) = k
      BY <2>1
    <2>3. HeldBack(B, w, n, m, c)
      BY <2>1
    <2>4. PICK l \in Int, f \in Int : l = -j /\ f = n - 1 - w[k]
      BY <2>1
    <2>5. Far(B, c, l, f)
      BY <2>2, <2>3, <2>4 DEF HeldBack
    <2>6. g \in Nat /\ g - l = h /\ h \in Nat /\ g <= f
      BY <1>1, <1>2, <2>1, <2>4
    <2>7. B[g][g - l] <= c <=> g <= f
      <3>1. c \in Int /\ g - l \in Nat
        BY <2>6
      <3> QED
        BY <1>0, <2>5, <2>6, <3>1, FarIs
    <2> QED
      BY <2>1, <2>6, <2>7
  <1>6. E[n][m] \in Nat /\ E[x][y] \in Nat
    BY <1>0, EditsAtLeast
  <1>7. B[g][h] \in Nat
    <2>1. g \in Nat /\ h \in Nat
      OBVIOUS
    <2> QED
      BY <1>0, <2>1, EditsAtLeast
  <1>8. E[n][m] = 2 * d - 1 /\ E[x][y] = d /\ B[g][h] = d - 1
    BY <1>3, <1>4, <1>5, <1>6, <1>7
  <1> QED
    BY <1>1, <1>2, <1>8

LEMMA AtMostTwice ==
    ASSUME NEW D \in Nat, NEW s \in Nat, NEW t \in Nat, NEW d \in Nat,
           D <= s + t, s <= d, t <= d, D >= 2 * d
    PROVE  D = 2 * d /\ s = d /\ t = d
  OBVIOUS

LEMMA BackSplits ==
    ASSUME NEW n \in Nat, NEW m \in Nat, NEW E, NEW P, NEW B, NEW Q, BothWays(E, P, B, Q, n, m),
           NEW d \in Nat, NEW k \in -d .. d, (k + d) % 2 = 0, E[n][m] >= 2 * d,
           NEW v, HeldAhead(E, v, d), v[k] \in Int,
           NEW x \in Nat, NEW y \in Nat, NEW e \in Nat, x + e <= n, y + e <= m, y - x = k - (n - m),
           B[x][y] <= d, FreeRun(Q, x, y, e), v[k] >= n - 1 - (x + e)
    PROVE  E[n][m] = 2 * d /\ B[x][y] = d /\ E[n - (x + e)][m - (y + e)] = d
  <1>0. IsEdits(E, P, n, m) /\ IsEdits(B, Q, n, m) /\ Opposite(P, Q, n, m)
    BY DEF BothWays
  <1>1. PICK p \in 0 .. n, q \in 0 .. m : p = x + e /\ q = y + e
    OBVIOUS
  <1>2. PICK g \in Nat, h \in Nat : g = n - p /\ h = m - q
    OBVIOUS
  <1>3. B[p][q] = B[x][y]
    BY <1>0, <1>1, RunIsFree
  <1>4. E[n][m] <= E[g][h] + B[p][q]
    <2>1. E[n][m] <= E[n - p][m - q] + B[p][q]
      BY <1>0, Through
    <2> QED
      BY <1>2, <2>1
  <1>5. E[g][h] <= d
    <2>1. PICK f \in Int, l \in Int, c \in Int : f = v[k] + 1 /\ l = k /\ c = d
      OBVIOUS
    <2>2. Far(E, c, l, f)
      BY <2>1 DEF HeldAhead
    <2>3. g - l = h /\ g <= f
      <3>1. PICK z \in Int, j \in Int : z = v[k] /\ j = k
        OBVIOUS
      <3>2. y - x = j - (n - m) /\ z >= n - 1 - (x + e) /\ f = z + 1 /\ l = j
        BY <2>1, <3>1
      <3> QED
        BY <1>1, <1>2, <3>2
    <2>4. E[g][g - l] <= c <=> g <= f
      <3>1. g - l \in Nat
        BY <2>3
      <3> QED
        BY <1>0, <2>2, <3>1, FarIs
    <2> QED
      BY <2>1, <2>3, <2>4
  <1>6. E[n][m] \in Nat /\ E[g][h] \in Nat
    BY <1>0, EditsAtLeast
  <1>7. B[x][y] \in Nat
    BY <1>0, EditsAtLeast
  <1>8. E[n][m] = 2 * d /\ B[x][y] = d /\ E[g][h] = d
    <2>1. PICK D \in Nat, s \in Nat, t \in Nat : D = E[n][m] /\ s = E[g][h] /\ t = B[x][y]
      BY <1>6, <1>7
    <2>2. D <= s + t /\ s <= d /\ t <= d /\ D >= 2 * d
      BY <1>3, <1>4, <1>5, <2>1
    <2>3. D = 2 * d /\ s = d /\ t = d
      BY <2>2, AtMostTwice
    <2> QED
      BY <2>1, <2>3
  <1> QED
    BY <1>1, <1>2, <1>8

-----------------------------------------------------------------------------
(* The halves of a region.                                                  *)
FirstPart(r, snake) == LET p == SnakeStart(snake) IN Region(r.a, p[1] + 1, r.b, p[2] + 1)
LastPart(r, snake) == LET p == SnakeEnd(snake) IN Region(p[1] + 1, r.aEnd, p[2] + 1, r.bEnd)

(* A single edit comes after elements that match.                           *)
OneStep(r, snake) ==
    LET x == snake.begin[1] + 1
        y == snake.begin[2] + 1
    IN  /\ snake.forward
        /\ x - r.a \in Nat /\ y - r.b \in Nat /\ There(r)[x - r.a][y - r.b] = 0
        /\ snake.middle = <<x - 1, y>> \/ snake.middle = <<x, y - 1>>

Splits(r, snake, length) ==
    /\ length = Opt(r)
    /\ Opt(FirstPart(r, snake)) \in Nat /\ Opt(LastPart(r, snake)) \in Nat
    /\ Opt(FirstPart(r, snake)) + Opt(LastPart(r, snake)) = length
    /\ \E e \in Nat : SnakeMatches(snake, e)
    /\ length = 1 => OneStep(r, snake)

PartsAt(r, t, x, y, e) ==
    /\ x + e <= N(r) /\ y + e <= M(r)
    /\ SnakeStart(t)[1] + 1 = r.a + x /\ SnakeStart(t)[2] + 1 = r.b + y
    /\ SnakeEnd(t)[1] + 1 = r.a + (x + e) /\ SnakeEnd(t)[2] + 1 = r.b + (y + e)

PartsFit(r, t, x, y, e) ==
    /\ r \in Regions /\ N(r) \in Nat /\ M(r) \in Nat /\ x \in Nat /\ y \in Nat /\ e \in Nat
    /\ PartsAt(r, t, x, y, e)

LEMMA PartsOf ==
    ASSUME NEW r, NEW t, NEW x, NEW y, NEW e, PartsFit(r, t, x, y, e)
    PROVE  /\ Opt(FirstPart(r, t)) = There(r)[x][y]
           /\ Opt(LastPart(r, t)) = Back(r)[N(r) - (x + e)][M(r) - (y + e)]
  <1>0. /\ r \in Regions /\ N(r) \in Nat /\ M(r) \in Nat /\ x \in Nat /\ y \in Nat /\ e \in Nat
        /\ PartsAt(r, t, x, y, e)
    BY DEF PartsFit
  <1>1. FirstPart(r, t) = Region(r.a, r.a + x, r.b, r.b + y)
    BY <1>0 DEF FirstPart, PartsAt
  <1>2. LastPart(r, t) = Region(r.a + (x + e), r.aEnd, r.b + (y + e), r.bEnd)
    BY <1>0 DEF LastPart, PartsAt
  <1>3. x \in 0 .. N(r) /\ y \in 0 .. M(r) /\ x + e \in 0 .. N(r) /\ y + e \in 0 .. M(r)
    BY <1>0 DEF PartsAt
  <1>4. PICK u \in 0 .. N(r), v \in 0 .. M(r) : u = x + e /\ v = y + e
    BY <1>3
  <1>5. Opt(FirstPart(r, t)) = There(r)[x][y]
    BY <1>0, <1>1, <1>3, OptOfFirst
  <1>6. Opt(LastPart(r, t)) = Back(r)[N(r) - u][M(r) - v]
    BY <1>0, <1>2, <1>4, OptOfLast
  <1> QED
    BY <1>4, <1>5, <1>6

LEMMA AheadHalves ==
    ASSUME NEW r \in Regions, N(r) \in Nat \ {0}, M(r) \in Nat \ {0},
           NEW s, Searching(There(r), Back(r), r, s), s.ahead,
           NEW snake, snake = SnakeAhead(r, s.forward, s.d, s.k), AheadFound(r, s, snake),
           NEW t, t = Shifted(r, snake), NEW length, length = 2 * s.d - 1
    PROVE  Splits(r, t, length)
  <1>1. PICK n \in Nat, m \in Nat, d \in Nat, k \in Int, v, w \in [Diagonals(r) -> Int] :
          /\ n = N(r) /\ m = M(r) /\ d = s.d /\ k = s.k /\ v = s.forward /\ w = s.reverse
          /\ k \in -d .. d /\ (k + d) % 2 = 0
    BY DEF Searching, SearchType
  <1>2. PICK E, B, P, Q : E = There(r) /\ B = Back(r) /\ P = FromStart(r) /\ Q = FromEnd(r)
    OBVIOUS
  <1>3. BothWays(E, P, B, Q, n, m)
    BY <1>1, <1>2, EditsOfRegion, RegionPairs DEF BothWays
  <1>4. E[n][m] >= 2 * d - 1 /\ ReadyBack(B, w, n, m, d)
    BY <1>1, <1>2 DEF Searching, TurnAhead
  <1>5. /\ InGraph(r, snake) /\ (n - m) % 2 # 0
        /\ k \in (n - m) - (d - 1) .. (n - m) + (d - 1)
        /\ Overlap(snake.end, <<w[k], w[k] - k>>)
    BY <1>1 DEF AheadFound, Delta
  <1>6. d # 0 /\ HeldBack(B, w, n, m, d - 1)
    <2>1. d # 0
      BY <1>5
    <2> QED
      BY <1>4, <2>1 DEF ReadyBack
  <1>7. /\ snake \in Snakes /\ snake.forward /\ snake.begin \in Int \X Int
        /\ snake.end \in Int \X Int /\ snake.middle \in Int \X Int
        /\ snake.end[2] = snake.end[1] - k /\ snake.middle[2] = snake.middle[1] - k
        /\ snake.middle[1] >= -1 /\ snake.middle[2] >= -1
        /\ AheadParts(r, E, d, snake) /\ k \in Diagonals(r)
    <2>1. IsEdits(There(r), FromStart(r), N(r), M(r)) /\ N(r) \in Nat \ {0} /\ M(r) \in Nat \ {0}
      BY <1>1, EditsOfRegion
    <2>2. /\ snake \in Snakes /\ snake.forward /\ snake.begin \in Int \X Int
          /\ snake.end \in Int \X Int /\ snake.middle \in Int \X Int
          /\ snake.end[2] = snake.end[1] - s.k /\ snake.middle[2] = snake.middle[1] - s.k
          /\ snake.middle[1] >= -1 /\ snake.middle[2] >= -1
          /\ AheadParts(r, There(r), s.d, snake)
          /\ \A i \in -s.d .. s.d : i \in Diagonals(r) /\ i + Delta(r) \in Diagonals(r)
      BY <2>1, AheadSnake
    <2> QED
      BY <1>1, <1>2, <2>2
  <1>8. PICK run : /\ IsRun(P, snake.middle[1] + 1, snake.middle[2] + 1, run)
                   /\ snake.end[1] = snake.middle[1] + run
    BY <1>2, <1>7 DEF AheadParts
  <1>9. PICK x \in Nat, y \in Nat : x = snake.middle[1] + 1 /\ y = snake.middle[2] + 1
    BY <1>7
  <1>10. PICK e \in Nat : e = run
    BY <1>8 DEF IsRun
  <1>11. /\ FreeRun(P, x, y, e) /\ E[x][y] <= d /\ y = x - k
         /\ snake.end[1] + 1 = x + e /\ snake.end[2] + 1 = y + e
    <2>1. FreeRun(P, x, y, e)
      BY <1>8, <1>9, <1>10 DEF IsRun, FreeRun
    <2>2. E[x][y] <= d
      BY <1>7, <1>9 DEF AheadParts
    <2>3. y = x - k /\ snake.end[1] + 1 = x + e /\ snake.end[2] + 1 = y + e
      BY <1>7, <1>8, <1>9, <1>10
    <2> QED
      BY <2>1, <2>2, <2>3
  <1>12. x + e <= n /\ y + e <= m
    <2>1. snake.end[1] < n /\ snake.end[2] < m
      BY <1>1, <1>5, <1>7 DEF InGraph
    <2> QED
      BY <1>7, <1>11, <2>1
  <1>13. x + e - 1 >= w[k] /\ w[k] \in Int
    <2>1. snake.end[1] >= w[k] /\ w[k] \in Int
      BY <1>5, <1>7 DEF Overlap
    <2> QED
      BY <1>7, <1>11, <2>1
  <1>14. E[n][m] = 2 * d - 1 /\ E[x][y] = d /\ B[n - (x + e)][m - (y + e)] = d - 1
    <2>1. /\ BothWays(E, P, B, Q, n, m) /\ d # 0 /\ (k + d) % 2 = 0 /\ (n - m) % 2 # 0
          /\ k \in (n - m) - (d - 1) .. (n - m) + (d - 1) /\ E[n][m] >= 2 * d - 1
          /\ HeldBack(B, w, n, m, d - 1) /\ w[k] \in Int
          /\ x + e <= n /\ y + e <= m /\ y = x - k
          /\ E[x][y] <= d /\ FreeRun(P, x, y, e) /\ x + e - 1 >= w[k]
      BY <1>1, <1>3, <1>4, <1>5, <1>6, <1>11, <1>12, <1>13
    <2> QED
      BY <2>1, AheadSplits
  <1>15. /\ t \in Snakes /\ t.forward /\ t.begin \in Int \X Int /\ t.middle \in Int \X Int
         /\ t.begin[1] = snake.begin[1] + r.a /\ t.begin[2] = snake.begin[2] + r.b
         /\ t.middle[1] = snake.middle[1] + r.a /\ t.middle[2] = snake.middle[2] + r.b
         /\ t.end[1] = snake.end[1] + r.a /\ t.end[2] = snake.end[2] + r.b
    <2>1. t \in Snakes /\ t.forward = snake.forward
      BY <1>7, ShiftedIs
    <2>2. /\ t.begin \in Int \X Int /\ t.middle \in Int \X Int
          /\ t.begin[1] = snake.begin[1] + r.a /\ t.begin[2] = snake.begin[2] + r.b
          /\ t.middle[1] = snake.middle[1] + r.a /\ t.middle[2] = snake.middle[2] + r.b
          /\ t.end[1] = snake.end[1] + r.a /\ t.end[2] = snake.end[2] + r.b
      BY <1>7, ShiftedPoints
    <2> QED
      BY <1>7, <2>1, <2>2
  <1>16. Opt(FirstPart(r, t)) = d /\ Opt(LastPart(r, t)) = d - 1
    <2>1. SnakeStart(t) = t.middle /\ SnakeEnd(t) = t.end
      BY <1>15 DEF SnakeStart, SnakeEnd
    <2>2. /\ t.middle[1] + 1 = r.a + x /\ t.middle[2] + 1 = r.b + y
          /\ t.end[1] + 1 = r.a + (x + e) /\ t.end[2] + 1 = r.b + (y + e)
      <3>1. PICK a \in Nat, b \in Nat : a = r.a /\ b = r.b
        BY DEF Regions
      <3> QED
        BY <1>7, <1>9, <1>11, <1>15, <3>1
    <2>3. N(r) \in Nat /\ M(r) \in Nat /\ x + e <= N(r) /\ y + e <= M(r)
      BY <1>1, <1>12
    <2>4. /\ Opt(FirstPart(r, t)) = There(r)[x][y]
          /\ Opt(LastPart(r, t)) = Back(r)[N(r) - (x + e)][M(r) - (y + e)]
      <3>1. PartsFit(r, t, x, y, e)
        BY <2>1, <2>2, <2>3 DEF PartsAt, PartsFit
      <3> QED
        BY <3>1, PartsOf
    <2> QED
      BY <1>1, <1>2, <1>14, <2>4
  <1>17. \E f \in Nat : SnakeMatches(t, f)
    BY <1>1, <1>7, AheadSnakeMatches
  <1>18. ASSUME length = 1
         PROVE  OneStep(r, t)
    <2>1. d = 1
      BY <1>1, <1>18
    <2>2. PICK u \in Nat, z \in Nat : u = snake.begin[1] + 1 /\ z = snake.begin[2] + 1
      BY <1>6, <1>7 DEF AheadParts
    <2>3. E[u][z] <= 0 /\ (snake.middle = <<u - 1, z>> \/ snake.middle = <<u, z - 1>>)
      BY <1>7, <2>1, <2>2 DEF AheadParts
    <2>4. E[u][z] = 0
      <3>1. E[u][z] \in Nat
        BY <1>3, EditsAtLeast DEF BothWays
      <3> QED
        BY <2>3, <3>1
    <2>5. PICK a \in Nat, b \in Nat : a = r.a /\ b = r.b
      BY DEF Regions
    <2>6. PICK g \in Int, h \in Int : g = t.begin[1] + 1 /\ h = t.begin[2] + 1
      BY <1>15
    <2>7. g - a = u /\ h - b = z /\ g = u + a /\ h = z + b
      <3>1. PICK p \in Int, q \in Int : p = snake.begin[1] /\ q = snake.begin[2]
        BY <1>7
      <3>2. t.begin[1] = p + a /\ t.begin[2] = q + b
        BY <1>15, <2>5, <3>1
      <3>3. g = p + a + 1 /\ h = q + b + 1 /\ u = p + 1 /\ z = q + 1
        BY <2>2, <2>6, <3>1, <3>2
      <3> QED
        BY <3>3
    <2>8. t.middle = <<g - 1, h>> \/ t.middle = <<g, h - 1>>
      <3>1. t.middle = <<t.middle[1], t.middle[2]>>
        BY <1>15
      <3>2. CASE snake.middle = <<u - 1, z>>
        <4>1. t.middle[1] = g - 1 /\ t.middle[2] = h
          BY <1>15, <2>5, <2>7, <3>2
        <4> QED
          BY <3>1, <4>1
      <3>3. CASE snake.middle = <<u, z - 1>>
        <4>1. t.middle[1] = g /\ t.middle[2] = h - 1
          BY <1>15, <2>5, <2>7, <3>3
        <4> QED
          BY <3>1, <4>1
      <3> QED
        BY <2>3, <3>2, <3>3
    <2> QED
      <3>1. /\ t.begin[1] + 1 = g /\ t.begin[2] + 1 = h
            /\ g - r.a \in Nat /\ h - r.b \in Nat /\ There(r)[g - r.a][h - r.b] = 0
        BY <1>2, <2>4, <2>5, <2>6, <2>7
      <3> QED
        BY <1>15, <2>8, <3>1, Zenon DEF OneStep
  <1>19. length = Opt(r)
    BY <1>1, <1>2, <1>14 DEF Opt
  <1>20. d - 1 \in Nat /\ d + (d - 1) = length
    BY <1>1, <1>6
  <1> QED
    BY <1>16, <1>17, <1>18, <1>19, <1>20 DEF Splits

LEMMA BackHalves ==
    ASSUME NEW r \in Regions, N(r) \in Nat \ {0}, M(r) \in Nat \ {0},
           NEW s, Searching(There(r), Back(r), r, s), ~s.ahead,
           NEW j \in Int, j = s.k + Delta(r),
           NEW snake, snake = SnakeBack(r, s.reverse, s.d, j), BackFound(r, s, snake),
           NEW t, t = Shifted(r, snake), NEW length, length = 2 * s.d
    PROVE  Splits(r, t, length)
  <1>1. PICK n \in Nat, m \in Nat, d \in Nat, k \in Int, v, w \in [Diagonals(r) -> Int] :
          /\ n = N(r) /\ m = M(r) /\ d = s.d /\ k = j /\ v = s.forward /\ w = s.reverse
          /\ s.k \in Int /\ k = s.k + (n - m) /\ s.k \in -d .. d /\ (s.k + d) % 2 = 0
    BY DEF Searching, SearchType, Delta
  <1>2. PICK E, B, P, Q : E = There(r) /\ B = Back(r) /\ P = FromStart(r) /\ Q = FromEnd(r)
    OBVIOUS
  <1>3. BothWays(E, P, B, Q, n, m)
    BY <1>1, <1>2, EditsOfRegion, RegionPairs DEF BothWays
  <1>4. E[n][m] >= 2 * d /\ HeldAhead(E, v, d)
    BY <1>1, <1>2 DEF Searching, TurnBack
  <1>5. /\ InGraph(r, snake) /\ (n - m) % 2 = 0 /\ k \in -d .. d
        /\ Overlap(<<v[k], v[k] - k>>, snake.end)
    BY <1>1 DEF BackFound, Delta
  <1>6. (k + d) % 2 = 0
    <2>1. PICK g \in Int : g = s.k
      BY <1>1
    <2> QED
      BY <1>1, <1>5, <2>1
  <1>7. /\ snake \in Snakes /\ ~snake.forward /\ snake.begin \in Int \X Int
        /\ snake.end \in Int \X Int /\ snake.middle \in Int \X Int
        /\ snake.end[2] = snake.end[1] - k /\ snake.middle[2] = snake.middle[1] - k
        /\ BackParts(r, B, d, snake) /\ k \in Diagonals(r)
    <2>1. /\ IsEdits(Back(r), FromEnd(r), N(r), M(r)) /\ N(r) \in Nat \ {0} /\ M(r) \in Nat \ {0}
          /\ IsEdits(There(r), FromStart(r), N(r), M(r))
      BY <1>1, EditsOfRegion
    <2>2. /\ snake \in Snakes /\ ~snake.forward /\ snake.begin \in Int \X Int
          /\ snake.end \in Int \X Int /\ snake.middle \in Int \X Int
          /\ snake.end[2] = snake.end[1] - j /\ snake.middle[2] = snake.middle[1] - j
          /\ BackParts(r, Back(r), s.d, snake)
          /\ \A i \in -s.d .. s.d : i \in Diagonals(r) /\ i + Delta(r) \in Diagonals(r)
      BY <2>1, BackSnake
    <2> QED
      BY <1>1, <1>2, <1>5, <2>2
  <1>8. PICK run : /\ IsRun(Q, n - 1 - snake.middle[1], m - 1 - snake.middle[2], run)
                   /\ snake.end[1] = snake.middle[1] - run
    BY <1>1, <1>2, <1>7 DEF BackParts
  <1>9. PICK x \in Nat, y \in Nat : x = n - 1 - snake.middle[1] /\ y = m - 1 - snake.middle[2]
    BY <1>1, <1>7 DEF BackParts
  <1>10. PICK e \in Nat : e = run
    BY <1>8 DEF IsRun
  <1>e. PICK mx \in Int, my \in Int, ex \in Int, ey \in Int :
          /\ mx = snake.middle[1] /\ my = snake.middle[2] /\ ex = snake.end[1] /\ ey = snake.end[2]
          /\ my = mx - k /\ ey = ex - k /\ ex = mx - e /\ x = n - 1 - mx /\ y = m - 1 - my
    BY <1>7, <1>8, <1>9, <1>10
  <1>11. /\ FreeRun(Q, x, y, e) /\ B[x][y] <= d /\ y - x = k - (n - m)
         /\ ex = n - 1 - (x + e) /\ ey = m - 1 - (y + e)
    <2>1. FreeRun(Q, x, y, e)
      BY <1>8, <1>9, <1>10 DEF IsRun, FreeRun
    <2>2. B[x][y] <= d
      BY <1>1, <1>7, <1>9 DEF BackParts
    <2>3. y - x = k - (n - m) /\ ex = n - 1 - (x + e) /\ ey = m - 1 - (y + e)
      BY <1>e
    <2> QED
      BY <2>1, <2>2, <2>3
  <1>12. x + e <= n /\ y + e <= m
    <2>1. ex >= -1 /\ ey >= -1
      BY <1>5, <1>e DEF InGraph
    <2> QED
      BY <1>11, <2>1
  <1>13. v[k] >= n - 1 - (x + e) /\ v[k] \in Int
    <2>1. v[k] >= ex /\ v[k] \in Int
      <3>1. v[k] \in Int
        <4>1. v \in [Diagonals(r) -> Int]
          BY <1>1 DEF Searching, SearchType
        <4> QED
          BY <1>7, <4>1
      <3> QED
        BY <1>5, <1>e, <3>1 DEF Overlap
    <2> QED
      BY <1>11, <2>1
  <1>14. E[n][m] = 2 * d /\ B[x][y] = d /\ E[n - (x + e)][m - (y + e)] = d
    <2>1. /\ BothWays(E, P, B, Q, n, m) /\ k \in -d .. d /\ (k + d) % 2 = 0 /\ E[n][m] >= 2 * d
          /\ HeldAhead(E, v, d) /\ v[k] \in Int
          /\ x + e <= n /\ y + e <= m /\ y - x = k - (n - m)
          /\ B[x][y] <= d /\ FreeRun(Q, x, y, e) /\ v[k] >= n - 1 - (x + e)
      BY <1>3, <1>4, <1>5, <1>6, <1>11, <1>12, <1>13
    <2> QED
      BY <2>1, BackSplits
  <1>15. /\ t \in Snakes /\ ~t.forward
         /\ t.middle[1] = mx + r.a /\ t.middle[2] = my + r.b
         /\ t.end[1] = ex + r.a /\ t.end[2] = ey + r.b
    <2>1. t \in Snakes /\ t.forward = snake.forward
      BY <1>7, ShiftedIs
    <2>2. /\ t.middle[1] = snake.middle[1] + r.a /\ t.middle[2] = snake.middle[2] + r.b
          /\ t.end[1] = snake.end[1] + r.a /\ t.end[2] = snake.end[2] + r.b
      BY <1>7, ShiftedPoints
    <2> QED
      BY <1>7, <1>e, <2>1, <2>2
  <1>16. Opt(FirstPart(r, t)) = d /\ Opt(LastPart(r, t)) = d
    <2>1. SnakeStart(t) = t.end /\ SnakeEnd(t) = t.middle
      BY <1>15 DEF SnakeStart, SnakeEnd
    <2>2. PICK g \in Nat, h \in Nat : g = n - (x + e) /\ h = m - (y + e)
      BY <1>12
    <2>3. g + e <= n /\ h + e <= m /\ n - (g + e) = x /\ m - (h + e) = y
      BY <2>2
    <2>4. /\ t.end[1] + 1 = r.a + g /\ t.end[2] + 1 = r.b + h
          /\ t.middle[1] + 1 = r.a + (g + e) /\ t.middle[2] + 1 = r.b + (h + e)
      <3>1. PICK a \in Nat, b \in Nat : a = r.a /\ b = r.b
        BY DEF Regions
      <3>2. t.end[1] = ex + a /\ t.end[2] = ey + b /\ t.middle[1] = mx + a /\ t.middle[2] = my + b
        BY <1>15, <3>1
      <3>3. ex + 1 = g /\ ey + 1 = h /\ mx + 1 = g + e /\ my + 1 = h + e
        <4>1. x = n - 1 - mx /\ y = m - 1 - my /\ ex = n - 1 - (x + e) /\ ey = m - 1 - (y + e)
          BY <1>e, <1>11
        <4>2. mx = n - 1 - x /\ my = m - 1 - y
          BY <4>1
        <4> QED
          BY <2>2, <4>1, <4>2
      <3> QED
        BY <3>1, <3>2, <3>3
    <2>5. PartsAt(r, t, g, h, e) /\ N(r) \in Nat /\ M(r) \in Nat
      BY <1>1, <2>1, <2>3, <2>4 DEF PartsAt
    <2>6. /\ Opt(FirstPart(r, t)) = There(r)[g][h]
          /\ Opt(LastPart(r, t)) = Back(r)[N(r) - (g + e)][M(r) - (h + e)]
      <3>1. PartsFit(r, t, g, h, e)
        BY <2>5 DEF PartsFit
      <3> QED
        BY <3>1, PartsOf
    <2>7. There(r)[g][h] = d /\ Back(r)[x][y] = d
      BY <1>2, <1>14, <2>2
    <2> QED
      BY <1>1, <2>3, <2>6, <2>7
  <1>17. \E f \in Nat : SnakeMatches(t, f)
    BY <1>1, <1>7, BackSnakeMatches
  <1>19. length = Opt(r)
    BY <1>1, <1>2, <1>14 DEF Opt
  <1>20. d + d = length /\ length # 1
    BY <1>1
  <1> QED
    BY <1>16, <1>17, <1>19, <1>20 DEF Splits

-----------------------------------------------------------------------------
(* A script up to a point of the two sequences, as edit_script applies it.  *)
Items == [new : BOOLEAN, index : Int]
NewItem(j) == [new |-> TRUE, index |-> j]
KeptItem(i) == [new |-> FALSE, index |-> i]
NewItems(q) == [x \in DOMAIN q |-> NewItem(q[x])]
NewPart(ins, i) == IF ins.point = i THEN NewItems(ins.inserted) ELSE <<>>
NewAt(es, i) == FlattenSeq([e \in DOMAIN es.insertions |-> NewPart(es.insertions[e], i)])
KeptAt(es, i) ==
    IF i = -1 \/ i \in ToSet(es.deletions) THEN <<>> ELSE <<KeptItem(i)>>

Piece(es, i) == KeptAt(es, i) \o NewAt(es, i)
Pieces(es, k) == [i \in 1 .. k |-> Piece(es, i - 2)]
EditedTo(es, a) == FlattenSeq(Pieces(es, a + 1))

LEMMA ItemsAre ==
    ASSUME NEW i \in Int
    PROVE  /\ NewItem(i) \in Items /\ NewItem(i).new /\ NewItem(i).index = i
           /\ KeptItem(i) \in Items /\ ~KeptItem(i).new /\ KeptItem(i).index = i
  <1>1. PICK yes \in BOOLEAN, no \in BOOLEAN : yes = TRUE /\ no = FALSE
    OBVIOUS
  <1>2. NewItem(i) = [new |-> yes, index |-> i] /\ KeptItem(i) = [new |-> no, index |-> i]
    BY <1>1, Zenon DEF NewItem, KeptItem
  <1>3. [new |-> yes, index |-> i] \in Items /\ [new |-> no, index |-> i] \in Items
    BY DEF Items
  <1>4. /\ [new |-> yes, index |-> i].new = yes /\ [new |-> yes, index |-> i].index = i
        /\ [new |-> no, index |-> i].new = no /\ [new |-> no, index |-> i].index = i
    OBVIOUS
  <1> QED
    BY <1>1, <1>2, <1>3, <1>4

LEMMA EditedIs ==
    ASSUME NEW es, NEW n
    PROVE  Edited(es, n) = EditedTo(es, n)
  BY DEF Edited, EditedTo, Pieces, Piece, KeptAt, NewAt, NewPart, NewItems, NewItem, KeptItem

IndexRange(first, end) == [i \in 1 .. end - first |-> first + i - 1]

LEMMA RangeIs ==
    ASSUME NEW first \in Int, NEW end \in Int, first <= end
    PROVE  /\ IndexRange(first, end) \in Seq(Int) /\ Len(IndexRange(first, end)) = end - first
           /\ \A i \in 1 .. end - first : IndexRange(first, end)[i] = first + i - 1
  <1>1. PICK n \in Nat : n = end - first
    OBVIOUS
  <1>2. \A i \in 1 .. n : first + i - 1 \in Int
    OBVIOUS
  <1>3. PICK q : q = [i \in 1 .. n |-> first + i - 1]
    OBVIOUS
  <1>4. q \in [1 .. n -> Int] /\ \A i \in 1 .. n : q[i] = first + i - 1
    BY <1>2, <1>3
  <1>5. q \in Seq(Int) /\ Len(q) = n
    <2>1. q \in Seq(Int)
      BY <1>4, SeqDef
    <2>2. DOMAIN q = 1 .. n
      BY <1>4
    <2> QED
      BY <2>1, <2>2, LenProperties
  <1> QED
    BY <1>1, <1>3, <1>4, <1>5 DEF IndexRange

LEMMA NewItemsType ==
    ASSUME NEW q \in Seq(Int)
    PROVE  /\ NewItems(q) \in Seq(Items) /\ Len(NewItems(q)) = Len(q)
           /\ \A x \in 1 .. Len(q) : NewItems(q)[x] = NewItem(q[x])
  <1>1. PICK n \in Nat : n = Len(q) /\ DOMAIN q = 1 .. n /\ \A x \in 1 .. n : q[x] \in Int
    BY LenProperties, ElementOfSeq
  <1>3. PICK t : t = [x \in 1 .. n |-> NewItem(q[x])]
    OBVIOUS
  <1>4. \A x \in 1 .. n : NewItem(q[x]) \in Items
    BY <1>1, ItemsAre
  <1>5. t \in [1 .. n -> Items] /\ \A x \in 1 .. n : t[x] = NewItem(q[x])
    BY <1>3, <1>4
  <1>6. t \in Seq(Items) /\ Len(t) = n
    <2>1. t \in Seq(Items)
      BY <1>5, SeqDef
    <2>2. DOMAIN t = 1 .. n
      BY <1>5
    <2> QED
      BY <2>1, <2>2, LenProperties
  <1>7. NewItems(q) = t
    BY <1>1, <1>3 DEF NewItems
  <1> QED
    BY <1>1, <1>5, <1>6, <1>7

LEMMA NewPartType ==
    ASSUME NEW ins \in Insertions, NEW i
    PROVE  NewPart(ins, i) \in Seq(Items) /\ (ins.point # i => NewPart(ins, i) = <<>>)
  <1>1. NewItems(ins.inserted) \in Seq(Items)
    BY NewItemsType DEF Insertions
  <1>2. <<>> \in Seq(Items)
    OBVIOUS
  <1> QED
    BY <1>1, <1>2 DEF NewPart

(* The parts that the insertions contribute.                                *)
NewParts(es, i) == [e \in DOMAIN es.insertions |-> NewPart(es.insertions[e], i)]

LEMMA NewPartsAre ==
    ASSUME NEW es \in Scripts, NEW i
    PROVE  /\ NewParts(es, i) \in Seq(Seq(Items)) /\ Len(NewParts(es, i)) = Len(es.insertions)
           /\ \A e \in 1 .. Len(es.insertions) : NewParts(es, i)[e] = NewPart(es.insertions[e], i)
           /\ NewAt(es, i) = FlattenSeq(NewParts(es, i)) /\ NewAt(es, i) \in Seq(Items)
  <1>1. PICK s \in Seq(Insertions) : s = es.insertions
    BY DEF Scripts
  <1>2. PICK n \in Nat : n = Len(s) /\ DOMAIN s = 1 .. n /\ \A e \in 1 .. n : s[e] \in Insertions
    BY LenProperties, ElementOfSeq
  <1>3. PICK t : t = [e \in 1 .. n |-> NewPart(s[e], i)]
    OBVIOUS
  <1>4. \A e \in 1 .. n : NewPart(s[e], i) \in Seq(Items)
    BY <1>2, NewPartType
  <1>5. t \in [1 .. n -> Seq(Items)] /\ \A e \in 1 .. n : t[e] = NewPart(s[e], i)
    BY <1>3, <1>4
  <1>6. t \in Seq(Seq(Items)) /\ Len(t) = n
    <2>1. t \in Seq(Seq(Items))
      BY <1>5, SeqDef
    <2>2. DOMAIN t = 1 .. n
      BY <1>5
    <2> QED
      BY <2>1, <2>2, LenProperties
  <1>7. NewParts(es, i) = t
    BY <1>1, <1>2, <1>3 DEF NewParts
  <1>8. NewAt(es, i) = FlattenSeq(NewParts(es, i))
    BY DEF NewAt, NewParts
  <1>9. FlattenSeq(t) \in Seq(Items)
    BY <1>6, FlattenType
  <1> QED
    BY <1>1, <1>2, <1>5, <1>6, <1>7, <1>8, <1>9

LEMMA PiecesAre ==
    ASSUME NEW es \in Scripts, NEW k \in Nat
    PROVE  /\ Pieces(es, k) \in Seq(Seq(Items)) /\ Len(Pieces(es, k)) = k
           /\ \A i \in 1 .. k : Pieces(es, k)[i] = Piece(es, i - 2)
  <1>1. ASSUME NEW i \in Int
        PROVE  Piece(es, i) \in Seq(Items)
    <2>1. NewAt(es, i) \in Seq(Items)
      BY NewPartsAre
    <2>2. KeptAt(es, i) \in Seq(Items)
      <3>1. PICK item \in Items : item = KeptItem(i)
        BY ItemsAre
      <3>2. <<>> \in Seq(Items) /\ <<item>> \in Seq(Items)
        OBVIOUS
      <3> QED
        BY <3>1, <3>2 DEF KeptAt
    <2> QED
      BY <2>1, <2>2, ConcatProperties DEF Piece
  <1>2. \A i \in 1 .. k : Piece(es, i - 2) \in Seq(Items)
    BY <1>1
  <1>3. PICK t : t = [i \in 1 .. k |-> Piece(es, i - 2)]
    OBVIOUS
  <1>4. t \in [1 .. k -> Seq(Items)] /\ \A i \in 1 .. k : t[i] = Piece(es, i - 2)
    BY <1>2, <1>3
  <1>5. t \in Seq(Seq(Items)) /\ Len(t) = k
    <2>1. t \in Seq(Seq(Items))
      BY <1>4, SeqDef
    <2>2. DOMAIN t = 1 .. k
      BY <1>4
    <2> QED
      BY <2>1, <2>2, LenProperties
  <1> QED
    BY <1>3, <1>4, <1>5 DEF Pieces

(* One more element of the first sequence.                                  *)
LEMMA PiecesGrow ==
    ASSUME NEW es \in Scripts, NEW k \in Nat
    PROVE  /\ FlattenSeq(Pieces(es, k)) \in Seq(Items) /\ Piece(es, k - 1) \in Seq(Items)
           /\ FlattenSeq(Pieces(es, k + 1)) = FlattenSeq(Pieces(es, k)) \o Piece(es, k - 1)
  <1>1. PICK l \in Nat : l = k + 1
    OBVIOUS
  <1>2. /\ Pieces(es, k) \in Seq(Seq(Items)) /\ Len(Pieces(es, k)) = k
        /\ \A i \in 1 .. k : Pieces(es, k)[i] = Piece(es, i - 2)
    BY PiecesAre
  <1>3. /\ Pieces(es, l) \in Seq(Seq(Items)) /\ Len(Pieces(es, l)) = l
        /\ \A i \in 1 .. l : Pieces(es, l)[i] = Piece(es, i - 2)
    BY PiecesAre
  <1>4. FlattenSeq(Pieces(es, l)) = FlattenSeq(Pieces(es, k)) \o Pieces(es, l)[l]
    <2>1. PICK p \in Seq(Seq(Items)), q \in Seq(Seq(Items)) : p = Pieces(es, k) /\ q = Pieces(es, l)
      BY <1>2, <1>3
    <2>2. Len(p) = k /\ Len(q) = Len(p) + 1 /\ SameFirst(q, p, Len(p)) /\ Len(q) = l
      BY <1>1, <1>2, <1>3, <2>1 DEF SameFirst
    <2>3. FlattenSeq(q) = FlattenSeq(p) \o q[Len(q)]
      BY <2>2, FlattenGrows
    <2> QED
      BY <2>1, <2>2, <2>3
  <1>5. Pieces(es, l)[l] = Piece(es, k - 1) /\ Pieces(es, l)[l] \in Seq(Items)
    <2>1. l \in 1 .. l /\ l - 2 = k - 1
      BY <1>1
    <2> QED
      BY <1>3, <2>1, ElementOfSeq
  <1>6. FlattenSeq(Pieces(es, k)) \in Seq(Items)
    BY <1>2, FlattenType
  <1> QED
    BY <1>1, <1>4, <1>5, <1>6

LEMMA EditedGrows ==
    ASSUME NEW es \in Scripts, NEW a \in Nat
    PROVE  /\ EditedTo(es, a) \in Seq(Items) /\ Piece(es, a) \in Seq(Items)
           /\ EditedTo(es, a + 1) = EditedTo(es, a) \o Piece(es, a)
  <1>1. PICK k \in Nat : k = a + 1 /\ k - 1 = a
    OBVIOUS
  <1> QED
    BY <1>1, PiecesGrow DEF EditedTo

-----------------------------------------------------------------------------
(* The script turns the first a elements into the first b ones, and has not *)
(* touched the others yet.                                                  *)
IsRight(item, pairs, j) == IF item.new THEN item.index = j ELSE <<item.index, j>> \in pairs
RightFrom(q, pairs, b) == \A i \in 1 .. Len(q) : IsRight(q[i], pairs, b + i - 1)

DeletedBefore(es, a) == \A i \in 1 .. Len(es.deletions) : es.deletions[i] \in 0 .. a - 1
InsertedBefore(es, a) == \A e \in 1 .. Len(es.insertions) : es.insertions[e].point \in -1 .. a - 1

Done(es, pairs, a, b) ==
    /\ DeletedBefore(es, a) /\ InsertedBefore(es, a)
    /\ Len(EditedTo(es, a)) = b /\ RightFrom(EditedTo(es, a), pairs, 0)

LEMMA RightGrows ==
    ASSUME NEW q \in Seq(Items), NEW x \in Seq(Items), NEW pairs,
           RightFrom(q, pairs, 0), RightFrom(x, pairs, Len(q))
    PROVE  RightFrom(q \o x, pairs, 0) /\ Len(q \o x) = Len(q) + Len(x)
  <1>1. PICK n \in Nat, l \in Nat : n = Len(q) /\ l = Len(x)
    BY LenProperties
  <1>2. /\ Len(q \o x) = n + l
        /\ \A i \in 1 .. n + l : (q \o x)[i] = IF i <= n THEN q[i] ELSE x[i - n]
    BY <1>1, ConcatProperties
  <1>3. ASSUME NEW i \in 1 .. n + l
        PROVE  IsRight((q \o x)[i], pairs, 0 + i - 1)
    <2>1. CASE i <= n
      BY <1>1, <1>2, <2>1 DEF RightFrom
    <2>2. CASE ~(i <= n)
      <3>1. PICK j \in 1 .. l : j = i - n
        BY <2>2
      <3>2. IsRight(x[j], pairs, n + j - 1)
        BY <1>1 DEF RightFrom
      <3>3. n + j - 1 = 0 + i - 1
        BY <3>1
      <3> QED
        BY <1>2, <2>2, <3>1, <3>2, <3>3
    <2> QED
      BY <2>1, <2>2
  <1> QED
    BY <1>1, <1>2, <1>3 DEF RightFrom

LEMMA PieceBeyond ==
    ASSUME NEW es \in Scripts, NEW a \in Nat, NEW i \in Nat, i >= a,
           DeletedBefore(es, a), InsertedBefore(es, a)
    PROVE  NewAt(es, i) = <<>> /\ KeptAt(es, i) = <<KeptItem(i)>>
  <1>1. PICK q \in Seq(Seq(Items)) :
          /\ q = NewParts(es, i) /\ Len(q) = Len(es.insertions) /\ NewAt(es, i) = FlattenSeq(q)
          /\ \A e \in 1 .. Len(es.insertions) : q[e] = NewPart(es.insertions[e], i)
    BY NewPartsAre
  <1>2. ASSUME NEW e \in 1 .. Len(q)
        PROVE  q[e] = <<>>
    <2>1. es.insertions[e].point \in -1 .. a - 1
      BY <1>1 DEF InsertedBefore
    <2>2. es.insertions[e].point # i
      BY <2>1
    <2> QED
      BY <1>1, <2>2 DEF NewPart
  <1>3. NewAt(es, i) = <<>>
    BY <1>1, <1>2, FlattenEmpty DEF AllEmpty
  <1>4. i \notin ToSet(es.deletions)
    <2>1. PICK s \in Seq(Int) : s = es.deletions
      BY DEF Scripts
    <2>2. DOMAIN s = 1 .. Len(s)
      BY LenProperties
    <2>3. \A l \in 1 .. Len(s) : s[l] # i
      BY <2>1 DEF DeletedBefore
    <2> QED
      BY <2>1, <2>2, <2>3 DEF ToSet
  <1>5. i # -1
    OBVIOUS
  <1> QED
    BY <1>3, <1>4, <1>5 DEF KeptAt

LEMMA KeepOne ==
    ASSUME NEW es \in Scripts, NEW pairs, NEW a \in Nat, NEW b \in Nat,
           Done(es, pairs, a, b), <<a, b>> \in pairs
    PROVE  Done(es, pairs, a + 1, b + 1)
  <1>1. DeletedBefore(es, a + 1) /\ InsertedBefore(es, a + 1)
    <2>1. \A i \in Int : (i \in 0 .. a - 1 => i \in 0 .. (a + 1) - 1)
                         /\ (i \in -1 .. a - 1 => i \in -1 .. (a + 1) - 1)
      OBVIOUS
    <2>2. ASSUME NEW i \in 1 .. Len(es.deletions)
          PROVE  es.deletions[i] \in 0 .. (a + 1) - 1
      <3>1. es.deletions[i] \in 0 .. a - 1
        BY DEF Done, DeletedBefore
      <3> QED
        BY <2>1, <3>1
    <2>3. ASSUME NEW i \in 1 .. Len(es.insertions)
          PROVE  es.insertions[i].point \in -1 .. (a + 1) - 1
      <3>1. es.insertions[i].point \in -1 .. a - 1
        BY DEF Done, InsertedBefore
      <3> QED
        BY <2>1, <3>1
    <2> QED
      BY <2>2, <2>3 DEF DeletedBefore, InsertedBefore
  <1>2. PICK q \in Seq(Items) : q = EditedTo(es, a) /\ EditedTo(es, a + 1) = q \o Piece(es, a)
    BY EditedGrows
  <1>4. PICK item \in Items : item = KeptItem(a) /\ ~item.new /\ item.index = a
    BY ItemsAre
  <1>5. PICK x \in Seq(Items) : x = <<item>> /\ Len(x) = 1 /\ x[1] = item
    <2>1. <<item>> \in Seq(Items) /\ Len(<<item>>) = 1 /\ <<item>>[1] = item
      OBVIOUS
    <2> QED
      BY <2>1
  <1>6. Piece(es, a) = x
    <2>1. NewAt(es, a) = <<>> /\ KeptAt(es, a) = x
      <3>1. DeletedBefore(es, a) /\ InsertedBefore(es, a) /\ a >= a
        BY DEF Done
      <3>2. NewAt(es, a) = <<>> /\ KeptAt(es, a) = <<KeptItem(a)>>
        BY <3>1, PieceBeyond
      <3> QED
        BY <1>4, <1>5, <3>2
    <2>2. x \o <<>> = x
      BY ConcatEmptySeq
    <2> QED
      BY <2>1, <2>2 DEF Piece
  <1>7. Len(q) = b /\ RightFrom(q, pairs, 0)
    BY <1>2 DEF Done
  <1>8. RightFrom(x, pairs, b)
    <2>1. IsRight(item, pairs, b)
      BY <1>4 DEF IsRight
    <2>2. \A i \in 1 .. Len(x) : x[i] = item /\ b + i - 1 = b
      BY <1>5
    <2> QED
      BY <2>1, <2>2 DEF RightFrom
  <1>9. RightFrom(q \o x, pairs, 0) /\ Len(q \o x) = b + 1
    BY <1>5, <1>7, <1>8, RightGrows
  <1> QED
    BY <1>1, <1>2, <1>6, <1>9 DEF Done

LEMMA KeepRun ==
    ASSUME NEW es \in Scripts, NEW pairs, NEW a \in Nat, NEW b \in Nat, NEW e \in Nat,
           Done(es, pairs, a, b), FreeRun(pairs, a, b, e)
    PROVE  Done(es, pairs, a + e, b + e)
  <1> DEFINE S == {i \in 0 .. e : Done(es, pairs, a + i, b + i)}
  <1>1. 0 \in S
    <2>1. a + 0 = a /\ b + 0 = b /\ 0 \in 0 .. e
      OBVIOUS
    <2> QED
      BY <2>1
  <1>2. ASSUME NEW i \in 0 .. e, i # e, i \in S
        PROVE  i + 1 \in S
    <2>1. PICK x \in Nat, y \in Nat : x = a + i /\ y = b + i
      OBVIOUS
    <2>2. i \in 0 .. e - 1 /\ i + 1 \in 0 .. e
      BY <1>2
    <2>3. <<x, y>> \in pairs /\ Done(es, pairs, x, y)
      BY <1>2, <2>1, <2>2 DEF FreeRun
    <2>4. Done(es, pairs, x + 1, y + 1)
      BY <2>3, KeepOne
    <2>5. x + 1 = a + (i + 1) /\ y + 1 = b + (i + 1)
      BY <2>1
    <2> QED
      BY <2>2, <2>4, <2>5
  <1>3. 0 .. e \subseteq S
    <2> HIDE DEF S
    <2> QED
      BY <1>1, <1>2, InductionUpTo
  <1> QED
    BY <1>3

-----------------------------------------------------------------------------
(* Deletions and insertions.                                                *)
HasDeleted(t, es, first, end) ==
    /\ t \in Scripts /\ t.insertions = es.insertions
    /\ t.deletions = es.deletions \o IndexRange(first, end)
    /\ Len(t.deletions) = Len(es.deletions) + (end - first)
    /\ \A i \in 1 .. Len(t.deletions) :
         IF i <= Len(es.deletions) THEN t.deletions[i] = es.deletions[i]
         ELSE t.deletions[i] \in first .. end - 1
    /\ \A i \in Int : i \in ToSet(t.deletions)
                        <=> i \in ToSet(es.deletions) \/ i \in first .. end - 1

LEMMA DeletedIs ==
    ASSUME NEW es \in Scripts, NEW first \in Int, NEW end \in Int, first <= end,
           NEW t, t = Delete(es, first, end)
    PROVE  HasDeleted(t, es, first, end)
  <1>1. PICK q \in Seq(Int), s \in Seq(Int) : q = IndexRange(first, end) /\ s = es.deletions
    BY RangeIs DEF Scripts
  <1>2. PICK n \in Nat, l \in Nat : n = Len(s) /\ l = end - first
    BY LenProperties
  <1>3. Len(q) = l /\ \A i \in 1 .. l : q[i] = first + i - 1
    BY <1>1, <1>2, RangeIs
  <1>4. PICK p \in Seq(Int) :
          /\ p = s \o q /\ Len(p) = n + l
          /\ \A i \in 1 .. n + l : p[i] = IF i <= n THEN s[i] ELSE q[i - n]
    <2>1. /\ s \o q \in Seq(Int) /\ Len(s \o q) = Len(s) + Len(q)
          /\ \A i \in 1 .. Len(s) + Len(q) : (s \o q)[i] = IF i <= Len(s) THEN s[i] ELSE q[i - Len(s)]
      BY ConcatProperties
    <2> QED
      BY <1>2, <1>3, <2>1
  <1>5. t.insertions = es.insertions /\ t.deletions = p /\ t \in Scripts
    <2>1. Delete(es, first, end) = [es EXCEPT !.deletions = es.deletions \o q]
      BY <1>1 DEF Delete, IndexRange
    <2>2. t = [es EXCEPT !.deletions = p]
      BY <1>1, <1>4, <2>1
    <2> QED
      BY <2>2 DEF Scripts
  <1>6. ASSUME NEW i \in 1 .. n + l
        PROVE  IF i <= n THEN p[i] = s[i] ELSE p[i] \in first .. end - 1
    <2>1. CASE i <= n
      BY <1>4, <2>1
    <2>2. CASE ~(i <= n)
      <3>1. PICK j \in 1 .. l : j = i - n
        BY <2>2
      <3>2. p[i] = first + j - 1
        BY <1>3, <1>4, <2>2, <3>1
      <3> QED
        BY <1>2, <2>2, <3>2
    <2> QED
      BY <2>1, <2>2
  <1>7. DOMAIN p = 1 .. n + l /\ DOMAIN s = 1 .. n
    BY <1>2, <1>4, LenProperties
  <1>8. ASSUME NEW i \in Int
        PROVE  i \in ToSet(p) <=> i \in ToSet(s) \/ i \in first .. end - 1
    <2>1. ASSUME i \in ToSet(p)
          PROVE  i \in ToSet(s) \/ i \in first .. end - 1
      <3>1. PICK j \in 1 .. n + l : p[j] = i
        BY <1>7, <2>1 DEF ToSet
      <3>2. j <= n => j \in 1 .. n
        OBVIOUS
      <3> QED
        BY <1>6, <1>7, <3>1, <3>2 DEF ToSet
    <2>2. ASSUME i \in ToSet(s)
          PROVE  i \in ToSet(p)
      <3>1. PICK j \in 1 .. n : s[j] = i
        BY <1>7, <2>2 DEF ToSet
      <3>2. j \in 1 .. n + l /\ j <= n
        OBVIOUS
      <3>3. p[j] = i
        BY <1>4, <3>1, <3>2
      <3> QED
        BY <1>7, <3>2, <3>3 DEF ToSet
    <2>3. ASSUME i \in first .. end - 1
          PROVE  i \in ToSet(p)
      <3>1. PICK j \in 1 .. l : j = i - first + 1
        BY <1>2, <2>3
      <3>2. PICK h \in 1 .. n + l : h = n + j /\ ~(h <= n) /\ h - n = j
        OBVIOUS
      <3>3. p[h] = q[j] /\ q[j] = first + j - 1
        BY <1>3, <1>4, <3>2
      <3>4. p[h] = i
        BY <3>1, <3>3
      <3> QED
        BY <1>7, <3>4 DEF ToSet
    <2> QED
      BY <2>1, <2>2, <2>3
  <1> QED
    BY <1>1, <1>2, <1>4, <1>5, <1>6, <1>8 DEF HasDeleted

SamePieces(es, fs, k) == \A i \in 1 .. k : Piece(es, i - 2) = Piece(fs, i - 2)

LEMMA SamePiecesAgree ==
    ASSUME NEW es \in Scripts, NEW fs \in Scripts, NEW k \in Nat, SamePieces(es, fs, k)
    PROVE  FlattenSeq(Pieces(es, k)) = FlattenSeq(Pieces(fs, k))
  BY DEF Pieces, SamePieces

LEMMA DeleteDone ==
    ASSUME NEW es \in Scripts, NEW pairs, NEW a \in Nat, NEW b \in Nat, NEW aEnd \in Nat, a <= aEnd,
           Done(es, pairs, a, b), NEW t, t = Delete(es, a, aEnd)
    PROVE  Done(t, pairs, aEnd, b)
  <1>1. /\ t \in Scripts /\ t.insertions = es.insertions
        /\ Len(t.deletions) = Len(es.deletions) + (aEnd - a)
        /\ \A i \in 1 .. Len(t.deletions) :
             IF i <= Len(es.deletions) THEN t.deletions[i] = es.deletions[i]
             ELSE t.deletions[i] \in a .. aEnd - 1
        /\ \A i \in Int : i \in ToSet(t.deletions) <=> i \in ToSet(es.deletions) \/ i \in a .. aEnd - 1
    <2>1. a \in Int /\ aEnd \in Int
      OBVIOUS
    <2>2. HasDeleted(t, es, a, aEnd)
      BY <2>1, DeletedIs
    <2> QED
      BY <2>2 DEF HasDeleted
  <1>2. DeletedBefore(t, aEnd)
    <2>1. ASSUME NEW i \in 1 .. Len(t.deletions)
          PROVE  t.deletions[i] \in 0 .. aEnd - 1
      <3>1. CASE i <= Len(es.deletions)
        <4>1. PICK n \in Nat : n = Len(es.deletions)
          BY LenProperties DEF Scripts
        <4>2. i \in 1 .. Len(es.deletions)
          BY <3>1, <4>1
        <4>3. es.deletions[i] \in 0 .. a - 1
          BY <4>2 DEF Done, DeletedBefore
        <4> QED
          BY <1>1, <3>1, <4>3
      <3>2. CASE ~(i <= Len(es.deletions))
        BY <1>1, <3>2
      <3> QED
        BY <3>1, <3>2
    <2> QED
      BY <2>1 DEF DeletedBefore
  <1>3. InsertedBefore(t, aEnd)
    <2>1. ASSUME NEW i \in 1 .. Len(t.insertions)
          PROVE  t.insertions[i].point \in -1 .. aEnd - 1
      <3>1. t.insertions[i].point \in -1 .. a - 1
        BY <1>1 DEF Done, InsertedBefore
      <3> QED
        BY <3>1
    <2> QED
      BY <2>1 DEF InsertedBefore
  <1>4. \A i : NewAt(t, i) = NewAt(es, i)
    BY <1>1 DEF NewAt
  <1>5. EditedTo(t, a) = EditedTo(es, a)
    <2>1. ASSUME NEW i \in 1 .. a + 1
          PROVE  Piece(t, i - 2) = Piece(es, i - 2)
      <3>1. PICK j \in Int : j = i - 2 /\ j \notin a .. aEnd - 1
        OBVIOUS
      <3>2. j \in ToSet(t.deletions) <=> j \in ToSet(es.deletions)
        BY <1>1, <3>1
      <3> QED
        BY <1>4, <3>1, <3>2 DEF Piece, KeptAt
    <2>2. PICK k \in Nat : k = a + 1
      OBVIOUS
    <2>3. SamePieces(t, es, k)
      BY <2>1, <2>2 DEF SamePieces
    <2>4. FlattenSeq(Pieces(t, k)) = FlattenSeq(Pieces(es, k))
      BY <1>1, <2>3, SamePiecesAgree
    <2> QED
      BY <2>2, <2>4 DEF EditedTo
  <1>6. PICK c \in Nat : c = aEnd - a
    OBVIOUS
  <1> DEFINE S == {i \in 0 .. c : EditedTo(t, a + i) = EditedTo(es, a)}
  <1>7. 0 \in S
    <2>1. a + 0 = a /\ 0 \in 0 .. c
      OBVIOUS
    <2> QED
      BY <1>5, <2>1
  <1>8. ASSUME NEW i \in 0 .. c, i # c, i \in S
        PROVE  i + 1 \in S
    <2>1. PICK x \in Nat : x = a + i /\ x >= a /\ x \in a .. aEnd - 1 /\ x # -1
      BY <1>6, <1>8
    <2>2. NewAt(t, x) = <<>>
      BY <1>4, <2>1, PieceBeyond DEF Done
    <2>3. KeptAt(t, x) = <<>>
      BY <1>1, <2>1 DEF KeptAt
    <2>4. Piece(t, x) = <<>>
      <3>1. PICK no \in Seq(Items) : no = <<>>
        BY EmptySeq
      <3>2. no \o no = no
        BY <3>1, ConcatEmptySeq
      <3> QED
        BY <2>2, <2>3, <3>1, <3>2 DEF Piece
    <2>5. EditedTo(t, x) \in Seq(Items) /\ EditedTo(t, x + 1) = EditedTo(t, x) \o Piece(t, x)
      BY <1>1, EditedGrows
    <2>6. EditedTo(t, x + 1) = EditedTo(t, x)
      BY <2>4, <2>5, ConcatEmptySeq
    <2>7. x + 1 = a + (i + 1) /\ EditedTo(t, x) = EditedTo(es, a) /\ i + 1 \in 0 .. c
      BY <1>8, <2>1
    <2>8. EditedTo(t, a + (i + 1)) = EditedTo(es, a)
      BY <2>6, <2>7
    <2> QED
      BY <2>7, <2>8
  <1>9. 0 .. c \subseteq S
    <2> HIDE DEF S
    <2> QED
      BY <1>7, <1>8, InductionUpTo
  <1>10. EditedTo(t, aEnd) = EditedTo(es, a)
    <2>1. c \in 0 .. c /\ a + c = aEnd
      BY <1>6
    <2> QED
      BY <1>9, <2>1
  <1> QED
    BY <1>2, <1>3, <1>10 DEF Done

HasInserted(t, es, ins) ==
    /\ t \in Scripts /\ t.deletions = es.deletions
    /\ t.insertions \in Seq(Insertions) /\ Len(t.insertions) = Len(es.insertions) + 1
    /\ \A i \in 1 .. Len(t.insertions) :
         t.insertions[i] = IF i <= Len(es.insertions) THEN es.insertions[i] ELSE ins

LEMMA InsertedIs ==
    ASSUME NEW es \in Scripts, NEW point \in Int, NEW first \in Int, NEW end \in Int, first <= end,
           NEW ins, ins = [point |-> point, inserted |-> IndexRange(first, end)],
           NEW t, t = Insert(es, point, first, end)
    PROVE  ins \in Insertions /\ HasInserted(t, es, ins)
  <1>1. PICK q \in Seq(Int), s \in Seq(Insertions) : q = IndexRange(first, end) /\ s = es.insertions
    BY RangeIs DEF Scripts
  <1>2. ins \in Insertions
    BY <1>1 DEF Insertions
  <1>3. PICK p \in Seq(Insertions) :
          /\ p = Append(s, ins) /\ Len(p) = Len(s) + 1
          /\ \A i \in 1 .. Len(s) + 1 : p[i] = IF i <= Len(s) THEN s[i] ELSE ins
    <2>1. /\ Append(s, ins) \in Seq(Insertions) /\ Len(Append(s, ins)) = Len(s) + 1
          /\ \A i \in 1 .. Len(s) : Append(s, ins)[i] = s[i]
          /\ Append(s, ins)[Len(s) + 1] = ins
      BY <1>2, AppendProperties
    <2>2. PICK p : p = Append(s, ins)
      OBVIOUS
    <2>3. PICK n \in Nat : n = Len(s)
      BY LenProperties
    <2>4. \A i \in 1 .. n + 1 : p[i] = IF i <= n THEN s[i] ELSE ins
      BY <2>1, <2>2, <2>3
    <2> QED
      BY <2>1, <2>2, <2>3, <2>4
  <1>4. t.deletions = es.deletions /\ t.insertions = p /\ t \in Scripts
    <2>1. t = [es EXCEPT !.insertions = Append(es.insertions, ins)]
      BY <1>2 DEF Insert, IndexRange
    <2>2. t = [es EXCEPT !.insertions = p]
      BY <1>1, <1>3, <2>1
    <2> QED
      BY <2>2 DEF Scripts
  <1> QED
    BY <1>1, <1>2, <1>3, <1>4 DEF HasInserted

(* What an insertion adds at a point.                                       *)
LEMMA ItemsAssociate ==
    ASSUME NEW p \in Seq(Items), NEW q \in Seq(Items), NEW x \in Seq(Items)
    PROVE  p \o (q \o x) = (p \o q) \o x
  <1>1. PICK S : S = Items
    OBVIOUS
  <1>2. p \in Seq(S) /\ q \in Seq(S) /\ x \in Seq(S)
    BY <1>1
  <1>3. (p \o q) \o x = p \o (q \o x)
    BY <1>2, ConcatAssociative
  <1> QED
    BY <1>3

LEMMA InsertedAt ==
    ASSUME NEW es \in Scripts, NEW ins \in Insertions, NEW t, HasInserted(t, es, ins), NEW i
    PROVE  NewAt(t, i) = NewAt(es, i) \o NewPart(ins, i)
  <1>1. t \in Scripts
    BY DEF HasInserted
  <1>2. PICK p \in Seq(Seq(Items)) :
          /\ p = NewParts(es, i) /\ Len(p) = Len(es.insertions) /\ NewAt(es, i) = FlattenSeq(p)
          /\ \A e \in 1 .. Len(es.insertions) : p[e] = NewPart(es.insertions[e], i)
    BY NewPartsAre
  <1>3. PICK q \in Seq(Seq(Items)) :
          /\ q = NewParts(t, i) /\ Len(q) = Len(t.insertions) /\ NewAt(t, i) = FlattenSeq(q)
          /\ \A e \in 1 .. Len(t.insertions) : q[e] = NewPart(t.insertions[e], i)
    BY <1>1, NewPartsAre
  <1>4. PICK n \in Nat : n = Len(p) /\ Len(q) = n + 1
    BY <1>2, <1>3, LenProperties DEF HasInserted
  <1>5. ASSUME NEW e \in 1 .. n
        PROVE  q[e] = p[e]
    <2>1. /\ e \in 1 .. n + 1 /\ e <= n /\ Len(t.insertions) = n + 1 /\ Len(es.insertions) = n
      BY <1>2, <1>3, <1>4
    <2>2. t.insertions[e] = es.insertions[e]
      BY <2>1 DEF HasInserted
    <2> QED
      BY <1>2, <1>3, <2>1, <2>2
  <1>6. q[n + 1] = NewPart(ins, i)
    <2>1. n + 1 \in 1 .. n + 1 /\ ~(n + 1 <= n) /\ Len(t.insertions) = n + 1 /\ Len(es.insertions) = n
      BY <1>2, <1>3, <1>4
    <2>2. t.insertions[n + 1] = ins
      BY <2>1 DEF HasInserted
    <2> QED
      BY <1>3, <2>1, <2>2
  <1>7. SameFirst(q, p, Len(p))
    BY <1>4, <1>5 DEF SameFirst
  <1>8. FlattenSeq(q) = FlattenSeq(p) \o q[Len(q)]
    BY <1>4, <1>7, FlattenGrows
  <1> QED
    BY <1>2, <1>3, <1>4, <1>6, <1>8

LEMMA InsertDone ==
    ASSUME NEW es \in Scripts, NEW pairs, NEW a \in Nat, NEW b \in Nat, NEW bEnd \in Nat, b <= bEnd,
           Done(es, pairs, a, b), NEW t, t = Insert(es, a - 1, b, bEnd)
    PROVE  Done(t, pairs, a, bEnd)
  <1>1. PICK point \in Int, first \in Int, end \in Int :
          point = a - 1 /\ first = b /\ end = bEnd /\ first <= end
    OBVIOUS
  <1>2. PICK q \in Seq(Int) : q = IndexRange(first, end)
    BY <1>1, RangeIs
  <1>3. PICK n \in Nat : n = bEnd - b /\ Len(q) = n /\ \A i \in 1 .. n : q[i] = b + i - 1
    <2>1. Len(q) = end - first /\ \A i \in 1 .. end - first : q[i] = first + i - 1
      BY <1>1, <1>2, RangeIs
    <2> QED
      BY <1>1, <2>1
  <1>4. PICK ins : ins = [point |-> point, inserted |-> q]
    OBVIOUS
  <1>5. ins \in Insertions /\ HasInserted(t, es, ins)
    <2>1. t = Insert(es, point, first, end) /\ ins = [point |-> point, inserted |-> IndexRange(first, end)]
      BY <1>1, <1>2, <1>4
    <2> QED
      BY <1>1, <2>1, InsertedIs
  <1>6. t \in Scripts /\ t.deletions = es.deletions /\ ins.point = point /\ ins.inserted = q
    BY <1>4, <1>5 DEF HasInserted
  <1>7. DeletedBefore(t, a)
    BY <1>6 DEF Done, DeletedBefore
  <1>8. InsertedBefore(t, a)
    <2>1. ASSUME NEW i \in 1 .. Len(t.insertions)
          PROVE  t.insertions[i].point \in -1 .. a - 1
      <3>1. PICK l \in Nat : l = Len(es.insertions)
        BY LenProperties DEF Scripts
      <3>2. CASE i <= l
        <4>1. i \in 1 .. l
          BY <3>2
        <4> QED
          BY <1>5, <3>1, <3>2, <4>1 DEF HasInserted, Done, InsertedBefore
      <3>3. CASE ~(i <= l)
        <4>1. t.insertions[i] = ins
          BY <1>5, <3>1, <3>3 DEF HasInserted
        <4> QED
          BY <1>1, <1>6, <4>1
      <3> QED
        BY <3>2, <3>3
    <2> QED
      BY <2>1 DEF InsertedBefore
  <1>9. PICK x \in Seq(Items) :
          /\ x = NewItems(q) /\ Len(x) = n
          /\ \A i \in 1 .. n : x[i] = NewItem(q[i])
    BY <1>3, NewItemsType
  <1>10. \A i : KeptAt(t, i) = KeptAt(es, i)
    BY <1>6 DEF KeptAt
  <1>11. FlattenSeq(Pieces(t, a)) = FlattenSeq(Pieces(es, a))
    <2>1. ASSUME NEW i \in 1 .. a
          PROVE  Piece(t, i - 2) = Piece(es, i - 2)
      <3>1. PICK j \in Int : j = i - 2 /\ j # point
        BY <1>1
      <3>2. NewPart(ins, j) = <<>>
        BY <1>5, <1>6, <3>1, NewPartType
      <3>3. NewAt(t, j) = NewAt(es, j) \o <<>> /\ NewAt(es, j) \in Seq(Items)
        <4>1. NewAt(t, j) = NewAt(es, j) \o NewPart(ins, j)
          BY <1>5, InsertedAt
        <4>2. NewAt(es, j) \in Seq(Items)
          BY NewPartsAre
        <4> QED
          BY <3>2, <4>1, <4>2
      <3>4. NewAt(t, j) = NewAt(es, j)
        BY <3>3, ConcatEmptySeq
      <3> QED
        BY <1>10, <3>1, <3>4 DEF Piece
    <2>2. SamePieces(t, es, a)
      BY <2>1 DEF SamePieces
    <2> QED
      BY <1>6, <2>2, SamePiecesAgree
  <1>12. Piece(t, point) = Piece(es, point) \o x
    <2>1. NewPart(ins, point) = x
      BY <1>6, <1>9 DEF NewPart
    <2>k. PICK k : k = KeptAt(es, point)
      OBVIOUS
    <2>2. PICK u \in Seq(Items) : u = NewAt(es, point) /\ k = KeptAt(es, point) /\ NewAt(t, point) = u \o x
      <3>1. NewAt(t, point) = NewAt(es, point) \o NewPart(ins, point)
        BY <1>5, InsertedAt
      <3>2. NewAt(es, point) \in Seq(Items)
        BY NewPartsAre
      <3> QED
        BY <2>1, <2>k, <3>1, <3>2
    <2>3. k \in Seq(Items)
      <3>1. PICK item \in Items : item = KeptItem(point)
        BY ItemsAre
      <3>2. <<>> \in Seq(Items) /\ <<item>> \in Seq(Items)
        OBVIOUS
      <3> QED
        BY <2>2, <3>1, <3>2 DEF KeptAt
    <2>4. k \o (u \o x) = (k \o u) \o x
      BY <2>3, ItemsAssociate
    <2> QED
      BY <1>10, <2>2, <2>4 DEF Piece
  <1>13. EditedTo(t, a) = EditedTo(es, a) \o x
    <2>1. PICK g \in Seq(Items), h \in Seq(Items) :
            /\ g = FlattenSeq(Pieces(es, a)) /\ h = Piece(es, a - 1)
            /\ FlattenSeq(Pieces(es, a + 1)) = g \o h
      BY PiecesGrow
    <2>2. FlattenSeq(Pieces(t, a + 1)) = g \o Piece(t, a - 1)
      BY <1>6, <1>11, <2>1, PiecesGrow
    <2>3. Piece(t, a - 1) = h \o x
      BY <1>1, <1>12, <2>1
    <2>4. g \o (h \o x) = (g \o h) \o x
      BY ItemsAssociate
    <2> QED
      BY <2>1, <2>2, <2>3, <2>4 DEF EditedTo
  <1>14. RightFrom(x, pairs, b)
    <2>1. ASSUME NEW i \in 1 .. n
          PROVE  IsRight(x[i], pairs, b + i - 1)
      <3>1. PICK j \in Int : j = b + i - 1
        OBVIOUS
      <3>2. x[i] = NewItem(j) /\ NewItem(j).new /\ NewItem(j).index = j
        BY <1>3, <1>9, <3>1, ItemsAre
      <3> QED
        BY <3>1, <3>2 DEF IsRight
    <2> QED
      BY <1>9, <2>1 DEF RightFrom
  <1>15. PICK y \in Seq(Items) : y = EditedTo(es, a) /\ Len(y) = b /\ RightFrom(y, pairs, 0)
    BY EditedGrows DEF Done
  <1>16. RightFrom(y \o x, pairs, 0) /\ Len(y \o x) = b + n
    BY <1>9, <1>14, <1>15, RightGrows
  <1>17. b + n = bEnd
    BY <1>3
  <1> QED
    BY <1>7, <1>8, <1>13, <1>15, <1>16, <1>17 DEF Done

(* The indexes inserted, and the length.                                    *)
LEMMA IndexesInserted ==
    ASSUME NEW es \in Scripts, NEW ins \in Insertions, NEW t, HasInserted(t, es, ins)
    PROVE  InsertedIndexes(t) = InsertedIndexes(es) \o ins.inserted
  <1>1. ASSUME NEW fs \in Scripts
        PROVE  /\ [e \in DOMAIN fs.insertions |-> fs.insertions[e].inserted] \in Seq(Seq(Int))
               /\ Len([e \in DOMAIN fs.insertions |-> fs.insertions[e].inserted]) = Len(fs.insertions)
    <2>1. PICK s \in Seq(Insertions), n \in Nat :
            s = fs.insertions /\ n = Len(s) /\ DOMAIN s = 1 .. n /\ \A e \in 1 .. n : s[e] \in Insertions
      <3>1. fs.insertions \in Seq(Insertions)
        BY DEF Scripts
      <3> QED
        BY <3>1, LenProperties, ElementOfSeq
    <2>2. PICK q : q = [e \in 1 .. n |-> s[e].inserted]
      OBVIOUS
    <2>3. \A e \in 1 .. n : s[e].inserted \in Seq(Int)
      BY <2>1 DEF Insertions
    <2>4. q \in [1 .. n -> Seq(Int)]
      BY <2>2, <2>3
    <2>5. q \in Seq(Seq(Int)) /\ Len(q) = n
      <3>1. q \in Seq(Seq(Int))
        BY <2>4, SeqDef
      <3>2. DOMAIN q = 1 .. n
        BY <2>4
      <3> QED
        BY <3>1, <3>2, LenProperties
    <2> QED
      BY <2>1, <2>2, <2>5
  <1>2. t \in Scripts
    BY DEF HasInserted
  <1>3. PICK p \in Seq(Seq(Int)), q \in Seq(Seq(Int)), n \in Nat :
          /\ p = [e \in DOMAIN es.insertions |-> es.insertions[e].inserted]
          /\ q = [e \in DOMAIN t.insertions |-> t.insertions[e].inserted]
          /\ n = Len(p) /\ n = Len(es.insertions) /\ Len(q) = Len(t.insertions)
    BY <1>1, <1>2, LenProperties
  <1>4. DOMAIN es.insertions = 1 .. n /\ DOMAIN t.insertions = 1 .. n + 1 /\ Len(q) = n + 1
    BY <1>2, <1>3, LenProperties DEF HasInserted, Scripts
  <1>5. ASSUME NEW i \in 1 .. n
        PROVE  q[i] = p[i]
    <2>1. i \in 1 .. n + 1 /\ i <= n
      OBVIOUS
    <2>2. t.insertions[i] = es.insertions[i]
      BY <1>3, <1>4, <2>1 DEF HasInserted
    <2> QED
      BY <1>3, <1>4, <2>1, <2>2
  <1>6. q[n + 1] = ins.inserted
    <2>1. n + 1 \in 1 .. n + 1 /\ ~(n + 1 <= n)
      OBVIOUS
    <2>2. t.insertions[n + 1] = ins
      BY <1>3, <1>4, <2>1 DEF HasInserted
    <2> QED
      BY <1>3, <1>4, <2>1, <2>2
  <1>7. SameFirst(q, p, Len(p))
    BY <1>3, <1>5 DEF SameFirst
  <1>8. FlattenSeq(q) = FlattenSeq(p) \o q[Len(q)]
    <2>1. Len(q) = Len(p) + 1
      BY <1>3, <1>4
    <2> QED
      BY <1>7, <2>1, FlattenGrows
  <1> QED
    BY <1>3, <1>4, <1>6, <1>8 DEF InsertedIndexes

LEMMA IndexesType ==
    ASSUME NEW es \in Scripts
    PROVE  InsertedIndexes(es) \in Seq(Int) /\ es.deletions \in Seq(Int) /\ es.insertions \in Seq(Insertions)
  <1>1. PICK s \in Seq(Insertions), n \in Nat :
          s = es.insertions /\ n = Len(s) /\ DOMAIN s = 1 .. n /\ \A e \in 1 .. n : s[e] \in Insertions
    <2>1. es.insertions \in Seq(Insertions)
      BY DEF Scripts
    <2> QED
      BY <2>1, LenProperties, ElementOfSeq
  <1>2. PICK q : q = [e \in 1 .. n |-> s[e].inserted]
    OBVIOUS
  <1>3. \A e \in 1 .. n : s[e].inserted \in Seq(Int)
    BY <1>1 DEF Insertions
  <1>4. q \in [1 .. n -> Seq(Int)]
    BY <1>2, <1>3
  <1>5. q \in Seq(Seq(Int))
    BY <1>4, SeqDef
  <1>6. FlattenSeq(q) \in Seq(Int)
    BY <1>5, FlattenType
  <1>7. InsertedIndexes(es) = FlattenSeq(q)
    BY <1>1, <1>2 DEF InsertedIndexes
  <1> QED
    BY <1>6, <1>7 DEF Scripts

LEMMA LengthDeleted ==
    ASSUME NEW es \in Scripts, NEW first \in Int, NEW end \in Int, first <= end,
           NEW t, t = Delete(es, first, end)
    PROVE  /\ t \in Scripts /\ ScriptLength(t) = ScriptLength(es) + (end - first)
           /\ InsertedIndexes(t) = InsertedIndexes(es)
  <1>1. HasDeleted(t, es, first, end)
    BY DeletedIs
  <1>2. t \in Scripts /\ InsertedIndexes(t) = InsertedIndexes(es)
    BY <1>1 DEF HasDeleted, InsertedIndexes
  <1>3. PICK n \in Nat, l \in Nat : n = Len(es.deletions) /\ l = Len(InsertedIndexes(es))
    BY IndexesType, LenProperties
  <1>4. Len(t.deletions) = n + (end - first) /\ Len(InsertedIndexes(t)) = l
    BY <1>1, <1>2, <1>3 DEF HasDeleted
  <1> QED
    BY <1>2, <1>3, <1>4 DEF ScriptLength

LEMMA LengthInserted ==
    ASSUME NEW es \in Scripts, NEW point \in Int, NEW first \in Int, NEW end \in Int, first <= end,
           NEW t, t = Insert(es, point, first, end)
    PROVE  /\ t \in Scripts /\ ScriptLength(t) = ScriptLength(es) + (end - first)
           /\ InsertedIndexes(t) = InsertedIndexes(es) \o IndexRange(first, end)
           /\ t.deletions = es.deletions
  <1>1. PICK q \in Seq(Int) : q = IndexRange(first, end) /\ Len(q) = end - first
    BY RangeIs
  <1>2. PICK ins : ins = [point |-> point, inserted |-> q]
    OBVIOUS
  <1>3. ins \in Insertions /\ HasInserted(t, es, ins) /\ ins.inserted = q
    <2>1. ins = [point |-> point, inserted |-> IndexRange(first, end)]
      BY <1>1, <1>2
    <2>2. ins \in Insertions /\ HasInserted(t, es, ins)
      BY <2>1, InsertedIs
    <2> QED
      BY <1>2, <2>2
  <1>4. t \in Scripts /\ t.deletions = es.deletions
    BY <1>3 DEF HasInserted
  <1>5. InsertedIndexes(t) = InsertedIndexes(es) \o q
    BY <1>3, IndexesInserted
  <1>6. PICK p \in Seq(Int) : p = InsertedIndexes(es)
    BY IndexesType
  <1>7. PICK n \in Nat, l \in Nat : n = Len(es.deletions) /\ l = Len(p)
    BY IndexesType, LenProperties
  <1>8. Len(p \o q) = l + (end - first)
    BY <1>1, <1>7, ConcatProperties
  <1>9. Len(t.deletions) = n /\ Len(InsertedIndexes(t)) = l + (end - first)
    BY <1>4, <1>5, <1>6, <1>7, <1>8
  <1>10. ScriptLength(t) = n + (l + (end - first)) /\ ScriptLength(es) = n + l
    BY <1>6, <1>7, <1>9 DEF ScriptLength
  <1>11. ScriptLength(t) = ScriptLength(es) + (end - first)
    <2>1. PICK g \in Int : g = end - first
      OBVIOUS
    <2>2. n + (l + g) = (n + l) + g
      BY <2>1
    <2> QED
      BY <1>10, <2>1, <2>2
  <1> QED
    BY <1>1, <1>4, <1>5, <1>11

-----------------------------------------------------------------------------
(* What is in lcs is behind a point, and the script keeps it.               *)
InLcs(ls, pairs, a, b) ==
    \A i \in 1 .. Len(ls) : ls[i] \in pairs /\ ls[i][1] < a /\ ls[i][2] < b
Ordered(ls) ==
    \A i, j \in 1 .. Len(ls) : i < j => ls[i][1] < ls[j][1] /\ ls[i][2] < ls[j][2]
IndexesBefore(q, b) == \A i \in 1 .. Len(q) : q[i] < b
Spares(ls, q, c) == \A i \in 1 .. Len(ls) : \A l \in 1 .. Len(q) : ls[i][c] # q[l]

LcsUpTo(ls, es, pairs, a, b) ==
    /\ InLcs(ls, pairs, a, b) /\ Ordered(ls)
    /\ IndexesBefore(InsertedIndexes(es), b)
    /\ Spares(ls, es.deletions, 1) /\ Spares(ls, InsertedIndexes(es), 2)

LEMMA LcsFurther ==
    ASSUME NEW ls, NEW es \in Scripts, NEW pairs, pairs \subseteq Int \X Int,
           NEW a \in Int, NEW b \in Int, LcsUpTo(ls, es, pairs, a, b),
           NEW c \in Int, NEW d \in Int, a <= c, b <= d
    PROVE  LcsUpTo(ls, es, pairs, c, d)
  <1>1. InLcs(ls, pairs, c, d)
    <2>1. ASSUME NEW i \in 1 .. Len(ls)
          PROVE  ls[i] \in pairs /\ ls[i][1] < c /\ ls[i][2] < d
      <3>1. ls[i] \in pairs /\ ls[i][1] < a /\ ls[i][2] < b
        BY DEF LcsUpTo, InLcs
      <3>2. PICK x \in Int, y \in Int : x = ls[i][1] /\ y = ls[i][2]
        BY <3>1
      <3> QED
        BY <3>1, <3>2
    <2> QED
      BY <2>1 DEF InLcs
  <1>2. IndexesBefore(InsertedIndexes(es), d)
    <2>1. PICK q \in Seq(Int) : q = InsertedIndexes(es)
      BY IndexesType
    <2>2. ASSUME NEW i \in 1 .. Len(q)
          PROVE  q[i] < d
      <3>1. q[i] \in Int /\ q[i] < b
        BY <2>1, ElementOfSeq DEF LcsUpTo, IndexesBefore
      <3> QED
        BY <3>1
    <2> QED
      BY <2>1, <2>2 DEF IndexesBefore
  <1> QED
    BY <1>1, <1>2 DEF LcsUpTo

(* Indexes that come from a point on do not touch what is behind it.        *)
PointsBefore(ls, c, b) == \A i \in 1 .. Len(ls) : ls[i][c] \in Int /\ ls[i][c] < b
IndexesFrom(q, b) == \A i \in 1 .. Len(q) : q[i] >= b

LEMMA StillSpares ==
    ASSUME NEW ls, NEW q \in Seq(Int), NEW p \in Seq(Int), NEW c, Spares(ls, q, c), NEW b \in Int,
           PointsBefore(ls, c, b), IndexesFrom(p, b)
    PROVE  Spares(ls, q \o p, c)
  <1>1. PICK n \in Nat, m \in Nat : n = Len(q) /\ m = Len(p)
    BY LenProperties
  <1>2. /\ Len(q \o p) = n + m
        /\ \A i \in 1 .. n + m : (q \o p)[i] = IF i <= n THEN q[i] ELSE p[i - n]
    BY <1>1, ConcatProperties
  <1>3. ASSUME NEW i \in 1 .. Len(ls), NEW l \in 1 .. n + m
        PROVE  ls[i][c] # (q \o p)[l]
    <2>1. CASE l <= n
      BY <1>1, <1>2, <2>1 DEF Spares
    <2>2. CASE ~(l <= n)
      <3>1. PICK j \in 1 .. m : j = l - n
        BY <2>2
      <3>2. p[j] >= b /\ p[j] \in Int /\ (q \o p)[l] = p[j]
        BY <1>1, <1>2, <2>2, <3>1, ElementOfSeq DEF IndexesFrom
      <3>3. ls[i][c] \in Int /\ ls[i][c] < b
        BY DEF PointsBefore
      <3> QED
        BY <3>2, <3>3
    <2> QED
      BY <2>1, <2>2
  <1> QED
    BY <1>2, <1>3 DEF Spares

LEMMA PointsBehind ==
    ASSUME NEW ls, NEW pairs, pairs \subseteq Int \X Int, NEW a, NEW b, InLcs(ls, pairs, a, b)
    PROVE  PointsBefore(ls, 1, a) /\ PointsBefore(ls, 2, b)
  <1>1. ASSUME NEW i \in 1 .. Len(ls)
        PROVE  ls[i][1] \in Int /\ ls[i][1] < a /\ ls[i][2] \in Int /\ ls[i][2] < b
    <2>1. ls[i] \in Int \X Int /\ ls[i][1] < a /\ ls[i][2] < b
      BY DEF InLcs
    <2> QED
      BY <2>1
  <1> QED
    BY <1>1 DEF PointsBefore

LEMMA RangeFrom ==
    ASSUME NEW first \in Int, NEW end \in Int, first <= end
    PROVE  /\ IndexRange(first, end) \in Seq(Int) /\ IndexesFrom(IndexRange(first, end), first)
           /\ IndexesBefore(IndexRange(first, end), end)
  <1>1. PICK q \in Seq(Int), n \in Nat :
          /\ q = IndexRange(first, end) /\ n = end - first /\ Len(q) = n
          /\ \A i \in 1 .. n : q[i] = first + i - 1
    BY RangeIs
  <1>2. ASSUME NEW i \in 1 .. n
        PROVE  q[i] >= first /\ q[i] < end
    <2>1. q[i] = first + i - 1
      BY <1>1
    <2> QED
      BY <1>1, <2>1
  <1> QED
    BY <1>1, <1>2 DEF IndexesFrom, IndexesBefore

LEMMA LcsDelete ==
    ASSUME NEW ls, NEW es \in Scripts, NEW pairs, pairs \subseteq Int \X Int,
           NEW a \in Int, NEW b \in Int, LcsUpTo(ls, es, pairs, a, b),
           NEW end \in Int, a <= end, NEW t, t = Delete(es, a, end)
    PROVE  LcsUpTo(ls, t, pairs, end, b)
  <1>1. t \in Scripts /\ InsertedIndexes(t) = InsertedIndexes(es)
    BY LengthDeleted
  <1>2. PICK q \in Seq(Int), p \in Seq(Int) : q = es.deletions /\ p = IndexRange(a, end) /\ t.deletions = q \o p
    <2>1. HasDeleted(t, es, a, end)
      BY DeletedIs
    <2> QED
      BY <2>1, RangeFrom, IndexesType DEF HasDeleted
  <1>3. PointsBefore(ls, 1, a) /\ Spares(ls, q, 1)
    BY <1>2, PointsBehind DEF LcsUpTo
  <1>4. IndexesFrom(p, a)
    BY <1>2, RangeFrom
  <1>5. Spares(ls, q \o p, 1)
    BY <1>3, <1>4, StillSpares
  <1>6. LcsUpTo(ls, t, pairs, a, b)
    BY <1>1, <1>2, <1>5 DEF LcsUpTo
  <1>7. b <= b
    OBVIOUS
  <1> QED
    BY <1>1, <1>6, <1>7, LcsFurther

LEMMA LcsInsert ==
    ASSUME NEW ls, NEW es \in Scripts, NEW pairs, pairs \subseteq Int \X Int,
           NEW a \in Int, NEW b \in Int, LcsUpTo(ls, es, pairs, a, b), NEW point \in Int,
           NEW end \in Int, b <= end, NEW t, t = Insert(es, point, b, end)
    PROVE  LcsUpTo(ls, t, pairs, a, end)
  <1>1. t \in Scripts /\ t.deletions = es.deletions
    BY LengthInserted
  <1>2. PICK q \in Seq(Int), p \in Seq(Int) :
          q = InsertedIndexes(es) /\ p = IndexRange(b, end) /\ InsertedIndexes(t) = q \o p
    <2>1. InsertedIndexes(t) = InsertedIndexes(es) \o IndexRange(b, end)
      BY LengthInserted
    <2>2. IndexRange(b, end) \in Seq(Int)
      BY RangeFrom
    <2>3. InsertedIndexes(es) \in Seq(Int)
      BY IndexesType
    <2> QED
      BY <2>1, <2>2, <2>3
  <1>3. PointsBefore(ls, 2, b) /\ Spares(ls, q, 2)
    BY <1>2, PointsBehind DEF LcsUpTo
  <1>4. IndexesFrom(p, b) /\ IndexesBefore(p, end)
    BY <1>2, RangeFrom
  <1>5. Spares(ls, q \o p, 2)
    BY <1>3, <1>4, StillSpares
  <1>6. a <= a
    OBVIOUS
  <1>7. LcsUpTo(ls, es, pairs, a, end)
    BY <1>6, LcsFurther
  <1>8. IndexesBefore(q \o p, end)
    <2>1. PICK n \in Nat, m \in Nat : n = Len(q) /\ m = Len(p)
      BY LenProperties
    <2>2. /\ Len(q \o p) = n + m
          /\ \A i \in 1 .. n + m : (q \o p)[i] = IF i <= n THEN q[i] ELSE p[i - n]
      BY <2>1, ConcatProperties
    <2>3. ASSUME NEW i \in 1 .. n + m
          PROVE  (q \o p)[i] < end
      <3>1. CASE i <= n
        <4>1. i \in 1 .. Len(q)
          BY <2>1, <3>1
        <4>2. q[i] < end
          BY <1>2, <1>7, <4>1 DEF LcsUpTo, IndexesBefore
        <4> QED
          BY <2>2, <3>1, <4>2
      <3>2. CASE ~(i <= n)
        <4>1. PICK j \in 1 .. m : j = i - n
          BY <3>2
        <4>3. j \in 1 .. Len(p)
          BY <2>1, <4>1
        <4>2. p[j] < end
          BY <1>4, <4>3 DEF IndexesBefore
        <4> QED
          BY <2>2, <3>2, <4>1, <4>2
      <3> QED
        BY <3>1, <3>2
    <2> QED
      BY <2>2, <2>3 DEF IndexesBefore
  <1> QED
    BY <1>1, <1>2, <1>5, <1>7, <1>8 DEF LcsUpTo

(* The trace of a snake: elements from its first point on.                  *)
GoesFrom(tr, a, b, n) == Len(tr) = n /\ \A i \in 1 .. n : tr[i] = <<a + i - 1, b + i - 1>>

LEMMA TraceIs ==
    ASSUME NEW snake \in Snakes, NEW e \in Nat, SnakeMatches(snake, e),
           NEW a \in Int, NEW b \in Int, SnakeStart(snake)[1] + 1 = a, SnakeStart(snake)[2] + 1 = b,
           snake.middle \in Int \X Int, snake.end \in Int \X Int
    PROVE  \E n \in Nat : n <= e /\ GoesFrom(Trace(snake), a, b, n)
  <1>0. PICK p \in Int \X Int, q \in Int \X Int : p = SnakeStart(snake) /\ q = SnakeEnd(snake)
    BY DEF SnakeStart, SnakeEnd
  <1>1. /\ q[1] = p[1] + e /\ q[2] = p[2] + e
        /\ \/ snake.diagonal = NoPoint
           \/ snake.forward /\ snake.diagonal = <<p[1] + 1, p[2] + 1>>
           \/ ~snake.forward /\ e # 0 /\ snake.diagonal = q
    BY <1>0, Zenon DEF SnakeMatches
  <1>2. CASE snake.diagonal = NoPoint
    <2>1. Trace(snake) = <<>>
      BY <1>2 DEF Trace
    <2>2. GoesFrom(Trace(snake), a, b, 0)
      BY <2>1 DEF GoesFrom
    <2> QED
      BY <2>2
  <1>3. CASE snake.diagonal # NoPoint
    <2>1. PICK x \in Int, y \in Int : x = snake.diagonal[1] /\ y = snake.diagonal[2]
      BY <1>0, <1>1, <1>3
    <2>2. PICK c \in Int : c = snake.end[1] - x + 1
      BY <2>1
    <2>3. Max({0, c}) = IF 0 >= c THEN 0 ELSE c
      BY OfTwo, 0 \in Int
    <2>4. PICK n \in Nat : n = Max({0, c})
      BY <2>3
    <2>5. Trace(snake) = [i \in 1 .. n |-> <<x + i - 1, y + i - 1>>]
      BY <1>3, <2>1, <2>2, <2>4 DEF Trace
    <2>6. PICK t : t = [i \in 1 .. n |-> <<x + i - 1, y + i - 1>>]
      OBVIOUS
    <2>7. Len(t) = n /\ \A i \in 1 .. n : t[i] = <<x + i - 1, y + i - 1>>
      <3>1. \A i \in 1 .. n : <<x + i - 1, y + i - 1>> \in Int \X Int
        OBVIOUS
      <3>2. t \in [1 .. n -> Int \X Int] /\ \A i \in 1 .. n : t[i] = <<x + i - 1, y + i - 1>>
        BY <2>6, <3>1
      <3>3. t \in Seq(Int \X Int)
        BY <3>2, SeqDef
      <3>4. DOMAIN t = 1 .. n
        BY <3>2
      <3>5. Len(t) = n
        BY <3>3, <3>4, LenProperties
      <3> QED
        BY <3>2, <3>5
    <2>8. CASE snake.forward
      <3>1. x = a /\ y = b /\ snake.end = q
        BY <1>0, <1>1, <1>3, <2>1, <2>8 DEF SnakeEnd
      <3>2. c = e
        <4>1. PICK u \in Int : u = p[1]
          OBVIOUS
        <4>2. snake.end[1] = u + e /\ a = u + 1
          BY <1>0, <1>1, <3>1, <4>1
        <4> QED
          BY <2>2, <3>1, <4>1, <4>2
      <3>3. n = e
        BY <2>3, <2>4, <3>2
      <3> QED
        BY <2>5, <2>6, <2>7, <3>1, <3>3 DEF GoesFrom
    <2>9. CASE ~snake.forward
      <3>1. x = q[1] /\ snake.end = p /\ e # 0
        BY <1>0, <1>1, <1>3, <2>1, <2>9 DEF SnakeStart
      <3>2. c <= 0
        <4>1. PICK u \in Int, v \in Int : u = p[1] /\ v = q[1]
          OBVIOUS
        <4>2. v = u + e /\ snake.end[1] = u /\ x = v
          BY <1>1, <3>1, <4>1
        <4> QED
          BY <2>2, <3>1, <4>2
      <3>3. n = 0
        BY <2>3, <2>4, <3>2
      <3>4. GoesFrom(Trace(snake), a, b, 0)
        BY <2>5, <2>6, <2>7, <3>3 DEF GoesFrom
      <3> QED
        BY <3>4
    <2> QED
      BY <2>8, <2>9
  <1> QED
    BY <1>2, <1>3

-----------------------------------------------------------------------------
(* A script and an lcs that deal with what is before a point of the two     *)
(* sequences, and with nothing else.                                        *)
LEMMA LcsGrows ==
    ASSUME NEW ls \in Seq(Points), NEW tr \in Seq(Points), NEW es \in Scripts,
           NEW pairs, pairs \subseteq Int \X Int, NEW a \in Int, NEW b \in Int,
           LcsUpTo(ls, es, pairs, a, b), DeletedBefore(es, a),
           NEW n \in Nat, GoesFrom(tr, a, b, n), FreeRun(pairs, a, b, n)
    PROVE  LcsUpTo(ls \o tr, es, pairs, a + n, b + n)
  <1>1. PICK l \in Nat : l = Len(ls)
    BY LenProperties
  <1>2. Len(tr) = n /\ \A i \in 1 .. n : tr[i] = <<a + i - 1, b + i - 1>>
    BY DEF GoesFrom
  <1>3. PICK q : q = ls \o tr
    OBVIOUS
  <1>4. /\ Len(q) = l + n
        /\ \A i \in 1 .. l + n : q[i] = IF i <= l THEN ls[i] ELSE tr[i - l]
    BY <1>1, <1>2, <1>3, ConcatProperties
  <1>5. ASSUME NEW i \in 1 .. l
        PROVE  /\ q[i] = ls[i] /\ ls[i] \in pairs /\ ls[i][1] \in Int /\ ls[i][2] \in Int
               /\ ls[i][1] < a /\ ls[i][2] < b
    <2>1. q[i] = ls[i]
      BY <1>4
    <2>2. ls[i] \in pairs /\ ls[i][1] < a /\ ls[i][2] < b
      BY <1>1 DEF LcsUpTo, InLcs
    <2>3. ls[i] \in Int \X Int
      BY <2>2
    <2> QED
      BY <2>1, <2>2, <2>3
  <1>6. ASSUME NEW j \in 0 .. n - 1
        PROVE  /\ q[l + j + 1] = <<a + j, b + j>> /\ q[l + j + 1] \in pairs
               /\ q[l + j + 1][1] = a + j /\ q[l + j + 1][2] = b + j
    <2>1. PICK i \in 1 .. n : i = j + 1
      OBVIOUS
    <2>2. l + i \in 1 .. l + n /\ ~(l + i <= l) /\ (l + i) - l = i
      BY <1>1
    <2>3. q[l + i] = tr[i]
      BY <1>4, <2>2
    <2>4. tr[i] = <<a + i - 1, b + i - 1>>
      BY <1>2
    <2>5. l + j + 1 = l + i /\ a + i - 1 = a + j /\ b + i - 1 = b + j
      BY <1>1, <2>1
    <2>6. q[l + j + 1] = <<a + j, b + j>>
      BY <2>3, <2>4, <2>5
    <2>7. <<a + j, b + j>> \in pairs
      BY DEF FreeRun
    <2> QED
      BY <2>6, <2>7
  <1>7. ASSUME NEW i \in 1 .. l + n
        PROVE  i \in 1 .. l \/ \E j \in 0 .. n - 1 : i = l + j + 1
    <2>1. CASE i <= l
      BY <2>1
    <2>2. CASE ~(i <= l)
      <3>1. i - l - 1 \in 0 .. n - 1 /\ i = l + (i - l - 1) + 1
        BY <1>1, <2>2
      <3> QED
        BY <3>1
    <2> QED
      BY <2>1, <2>2
  <1>8. InLcs(q, pairs, a + n, b + n)
    <2>1. ASSUME NEW i \in 1 .. l + n
          PROVE  q[i] \in pairs /\ q[i][1] < a + n /\ q[i][2] < b + n
      <3>1. CASE i \in 1 .. l
        <4>1. PICK x \in Int, y \in Int : x = ls[i][1] /\ y = ls[i][2] /\ x < a /\ y < b
          BY <1>5, <3>1
        <4>2. q[i][1] = x /\ q[i][2] = y /\ q[i] \in pairs
          BY <1>5, <3>1, <4>1
        <4> QED
          BY <4>1, <4>2
      <3>2. ASSUME NEW j \in 0 .. n - 1, i = l + j + 1
            PROVE  q[i] \in pairs /\ q[i][1] < a + n /\ q[i][2] < b + n
        <4>1. q[i] \in pairs /\ q[i][1] = a + j /\ q[i][2] = b + j
          BY <1>6, <3>2
        <4>2. a + j < a + n /\ b + j < b + n
          OBVIOUS
        <4> QED
          BY <4>1, <4>2
      <3> QED
        BY <1>7, <3>1, <3>2
    <2> QED
      BY <1>4, <2>1 DEF InLcs
  <1>9. Ordered(q)
    <2>1. ASSUME NEW i \in 1 .. l + n, NEW j \in 1 .. l + n, i < j
          PROVE  q[i][1] < q[j][1] /\ q[i][2] < q[j][2]
      <3>1. CASE j \in 1 .. l
        <4>1. i \in 1 .. l
          BY <1>1, <2>1, <3>1
        <4>2. ls[i][1] < ls[j][1] /\ ls[i][2] < ls[j][2]
          BY <1>1, <2>1, <3>1, <4>1 DEF LcsUpTo, Ordered
        <4>3. q[i] = ls[i] /\ q[j] = ls[j]
          BY <1>5, <3>1, <4>1
        <4> QED
          BY <4>2, <4>3
      <3>2. ASSUME NEW v \in 0 .. n - 1, j = l + v + 1
            PROVE  q[i][1] < q[j][1] /\ q[i][2] < q[j][2]
        <4>1. q[j][1] = a + v /\ q[j][2] = b + v
          BY <1>6, <3>2
        <4>2. CASE i \in 1 .. l
          <5>1. PICK x \in Int, y \in Int : x = ls[i][1] /\ y = ls[i][2] /\ x < a /\ y < b
            BY <1>5, <4>2
          <5>2. q[i][1] = x /\ q[i][2] = y
            BY <1>5, <4>2, <5>1
          <5>3. x < a + v /\ y < b + v
            BY <5>1
          <5> QED
            BY <4>1, <5>2, <5>3
        <4>3. ASSUME NEW u \in 0 .. n - 1, i = l + u + 1
              PROVE  q[i][1] < q[j][1] /\ q[i][2] < q[j][2]
          <5>1. q[i][1] = a + u /\ q[i][2] = b + u
            BY <1>6, <4>3
          <5>2. u < v
            BY <1>1, <2>1, <3>2, <4>3
          <5>3. a + u < a + v /\ b + u < b + v
            BY <5>2
          <5> QED
            BY <4>1, <5>1, <5>3
        <4> QED
          BY <1>7, <4>2, <4>3
      <3> QED
        BY <1>7, <3>1, <3>2
    <2> QED
      BY <1>4, <2>1 DEF Ordered
  <1>10. PICK p \in Seq(Int), w \in Seq(Int) :
           /\ p = es.deletions /\ w = InsertedIndexes(es)
           /\ Spares(ls, p, 1) /\ Spares(ls, w, 2) /\ IndexesBefore(w, b)
    BY IndexesType DEF LcsUpTo
  <1>11. Spares(q, p, 1)
    <2>1. ASSUME NEW i \in 1 .. l + n, NEW j \in 1 .. Len(p)
          PROVE  q[i][1] # p[j]
      <3>1. CASE i \in 1 .. l
        BY <1>1, <1>5, <1>10, <3>1 DEF Spares
      <3>2. ASSUME NEW u \in 0 .. n - 1, i = l + u + 1
            PROVE  q[i][1] # p[j]
        <4>1. p[j] \in 0 .. a - 1
          BY <1>10 DEF DeletedBefore
        <4>2. q[i][1] = a + u
          BY <1>6, <3>2
        <4> QED
          BY <4>1, <4>2
      <3> QED
        BY <1>7, <3>1, <3>2
    <2> QED
      BY <1>4, <2>1 DEF Spares
  <1>12. Spares(q, w, 2)
    <2>1. ASSUME NEW i \in 1 .. l + n, NEW j \in 1 .. Len(w)
          PROVE  q[i][2] # w[j]
      <3>1. CASE i \in 1 .. l
        BY <1>1, <1>5, <1>10, <3>1 DEF Spares
      <3>2. ASSUME NEW u \in 0 .. n - 1, i = l + u + 1
            PROVE  q[i][2] # w[j]
        <4>1. w[j] < b /\ w[j] \in Int
          BY <1>10, ElementOfSeq DEF IndexesBefore
        <4>2. q[i][2] = b + u
          BY <1>6, <3>2
        <4> QED
          BY <4>1, <4>2
      <3> QED
        BY <1>7, <3>1, <3>2
    <2> QED
      BY <1>4, <2>1 DEF Spares
  <1>13. IndexesBefore(w, b + n)
    <2>1. ASSUME NEW j \in 1 .. Len(w)
          PROVE  w[j] < b + n
      <3>1. w[j] < b /\ w[j] \in Int
        BY <1>10, ElementOfSeq DEF IndexesBefore
      <3> QED
        BY <3>1
    <2> QED
      BY <2>1 DEF IndexesBefore
  <1> QED
    BY <1>3, <1>8, <1>9, <1>10, <1>11, <1>12, <1>13 DEF LcsUpTo

Reached(es, ls, a, b) == Done(es, match, a, b) /\ LcsUpTo(ls, es, match, a, b)

InputType == match \subseteq Int \X Int

LEMMA RunReached ==
    ASSUME InputType, NEW es \in Scripts, NEW ls \in Seq(Points), NEW a \in Nat, NEW b \in Nat,
           NEW e \in Nat, Reached(es, ls, a, b), FreeRun(match, a, b, e)
    PROVE  Reached(es, ls, a + e, b + e)
  <1>1. Done(es, match, a + e, b + e)
    BY KeepRun DEF Reached
  <1>2. PICK c \in Int, d \in Int : c = a + e /\ d = b + e
    OBVIOUS
  <1>3. LcsUpTo(ls, es, match, a, b) /\ match \subseteq Int \X Int /\ a <= c /\ b <= d
        /\ a \in Int /\ b \in Int
    BY <1>2 DEF Reached, InputType
  <1>4. LcsUpTo(ls, es, match, c, d)
    BY <1>3, LcsFurther
  <1> QED
    BY <1>1, <1>2, <1>4 DEF Reached

LEMMA DeleteReached ==
    ASSUME InputType, NEW es \in Scripts, NEW ls \in Seq(Points), NEW a \in Nat, NEW b \in Nat,
           NEW end \in Nat, a <= end, Reached(es, ls, a, b), NEW t, t = Delete(es, a, end)
    PROVE  /\ t \in Scripts /\ Reached(t, ls, end, b)
           /\ ScriptLength(t) = ScriptLength(es) + (end - a)
  <1>1. a \in Int /\ b \in Int /\ end \in Int
    OBVIOUS
  <1>2. t \in Scripts /\ ScriptLength(t) = ScriptLength(es) + (end - a)
    BY <1>1, LengthDeleted
  <1>3. Done(es, match, a, b) /\ LcsUpTo(ls, es, match, a, b) /\ match \subseteq Int \X Int
    BY DEF Reached, InputType
  <1>4. Done(t, match, end, b)
    BY <1>3, DeleteDone
  <1>5. LcsUpTo(ls, t, match, end, b)
    BY <1>1, <1>3, LcsDelete
  <1> QED
    BY <1>2, <1>4, <1>5 DEF Reached

LEMMA InsertReached ==
    ASSUME InputType, NEW es \in Scripts, NEW ls \in Seq(Points), NEW a \in Nat, NEW b \in Nat,
           NEW end \in Nat, b <= end, Reached(es, ls, a, b), NEW t, t = Insert(es, a - 1, b, end)
    PROVE  /\ t \in Scripts /\ Reached(t, ls, a, end)
           /\ ScriptLength(t) = ScriptLength(es) + (end - b)
  <1>1. a \in Int /\ b \in Int /\ end \in Int
    OBVIOUS
  <1>2. PICK point \in Int : point = a - 1
    BY <1>1
  <1>3. t = Insert(es, point, b, end)
    BY <1>2
  <1>4. t \in Scripts /\ ScriptLength(t) = ScriptLength(es) + (end - b)
    BY <1>1, <1>3, LengthInserted
  <1>5. Done(es, match, a, b) /\ LcsUpTo(ls, es, match, a, b) /\ match \subseteq Int \X Int
    BY DEF Reached, InputType
  <1>6. Done(t, match, a, end)
    BY <1>5, InsertDone
  <1>7. LcsUpTo(ls, t, match, a, end)
    BY <1>1, <1>3, <1>5, LcsInsert
  <1> QED
    BY <1>4, <1>6, <1>7 DEF Reached

(* The elements of a snake, and their trace.                                *)
LEMMA SnakeIsFree ==
    ASSUME NEW snake, NEW e \in Nat, SnakeMatches(snake, e), SnakeStart(snake) \in Int \X Int,
           NEW a \in Int, NEW b \in Int, SnakeStart(snake)[1] + 1 = a, SnakeStart(snake)[2] + 1 = b
    PROVE  FreeRun(match, a, b, e)
  <1>1. PICK p \in Int \X Int : p = SnakeStart(snake)
    OBVIOUS
  <1>2. PICK x \in Int, y \in Int : x = p[1] /\ y = p[2] /\ x + 1 = a /\ y + 1 = b
    BY <1>1
  <1>3. \A i \in 1 .. e : <<x + i, y + i>> \in match
    BY <1>1, <1>2 DEF SnakeMatches
  <1>4. ASSUME NEW i \in 0 .. e - 1
        PROVE  <<a + i, b + i>> \in match
    <2>1. i + 1 \in 1 .. e /\ a + i = x + (i + 1) /\ b + i = y + (i + 1)
      BY <1>2
    <2> QED
      BY <1>3, <2>1
  <1> QED
    BY <1>4 DEF FreeRun

LEMMA SnakeReached ==
    ASSUME InputType, NEW es \in Scripts, NEW ls \in Seq(Points), NEW a \in Nat, NEW b \in Nat,
           Reached(es, ls, a, b), NEW snake \in Snakes, NEW e \in Nat, SnakeMatches(snake, e),
           SnakeStart(snake)[1] + 1 = a, SnakeStart(snake)[2] + 1 = b,
           snake.middle \in Int \X Int, snake.end \in Int \X Int
    PROVE  Reached(es, ls \o Trace(snake), a + e, b + e)
  <1>1. a \in Int /\ b \in Int /\ SnakeStart(snake) \in Int \X Int
    BY DEF SnakeStart
  <1>2. FreeRun(match, a, b, e)
    BY <1>1, SnakeIsFree
  <1>3. PICK n \in Nat : n <= e /\ GoesFrom(Trace(snake), a, b, n)
    BY <1>1, TraceIs
  <1>4. PICK tr \in Seq(Points) : tr = Trace(snake)
    BY TraceType
  <1>5. FreeRun(match, a, b, n)
    <2>1. \A i \in 0 .. n - 1 : i \in 0 .. e - 1
      BY <1>3
    <2> QED
      BY <1>2, <2>1 DEF FreeRun
  <1>6. /\ LcsUpTo(ls, es, match, a, b) /\ DeletedBefore(es, a) /\ match \subseteq Int \X Int
        /\ Done(es, match, a, b) /\ GoesFrom(tr, a, b, n)
    BY <1>3, <1>4 DEF Reached, InputType, Done
  <1>7. LcsUpTo(ls \o tr, es, match, a + n, b + n)
    BY <1>1, <1>5, <1>6, LcsGrows
  <1>8. PICK u \in Int, v \in Int, c \in Int, d \in Int : u = a + n /\ v = b + n /\ c = a + e /\ d = b + e
    OBVIOUS
  <1>9. LcsUpTo(ls \o tr, es, match, u, v) /\ u <= c /\ v <= d
    BY <1>3, <1>7, <1>8
  <1>10. LcsUpTo(ls \o tr, es, match, c, d)
    BY <1>6, <1>9, LcsFurther
  <1>11. Done(es, match, a + e, b + e)
    BY <1>2, <1>6, KeepRun
  <1> QED
    BY <1>4, <1>8, <1>10, <1>11 DEF Reached

-----------------------------------------------------------------------------
(* What the running calls have done, and what each still has to do.         *)
FirstHalf(c) == FirstPart(c.region, c.snake)
LastHalf(c) == LastPart(c.region, c.snake)

FoundRight(c) == c.at \in {"found", "before", "after"} => Splits(c.region, c.snake, c.length)

(* What a call is made for, and what its caller had added by then.          *)
Follows(c, caller) ==
    /\ caller.at = "before" => c.region = FirstHalf(caller) /\ c.from = caller.from
    /\ caller.at = "after" =>
         c.region = LastHalf(caller) /\ c.from = caller.from + Opt(FirstHalf(caller))

Chained(s) ==
    /\ s # <<>> => s[Len(s)].from = 0 /\ s[Len(s)].region = Whole
    /\ \A i \in 1 .. Len(s) : FoundRight(s[i])
    /\ \A i \in 2 .. Len(s) : Follows(s[i - 1], s[i])

(* How far a call has come: the edits it has added, and up to which point.  *)
Added(c) ==
    IF c.at = "before" THEN Opt(FirstHalf(c)) ELSE IF c.at = "after" THEN Opt(c.region) ELSE 0
AheadTo(c) ==
    IF c.at = "before" THEN FirstHalf(c).aEnd ELSE IF c.at = "after" THEN c.region.aEnd ELSE c.region.a
DownTo(c) ==
    IF c.at = "before" THEN FirstHalf(c).bEnd ELSE IF c.at = "after" THEN c.region.bEnd ELSE c.region.b

Progress(s, es, ls) ==
    /\ Chained(s)
    /\ IF s = <<>>
       THEN ScriptLength(es) = Opt(Whole) /\ Reached(es, ls, aSize, bSize)
       ELSE /\ ScriptLength(es) = Head(s).from + Added(Head(s))
            /\ Reached(es, ls, AheadTo(Head(s)), DownTo(Head(s)))

HalvesInv ==
    /\ IInv
    /\ \A s, es, ls : s = calls /\ es = script /\ ls = lcs => Progress(s, es, ls)

(* All of that depends on nothing but the input.                            *)
LEMMA SameParts ==
    ASSUME match' = match, NEW r, NEW snake, NEW length
    PROVE  Opt(r)' = Opt(r) /\ Splits(r, snake, length)' = Splits(r, snake, length)
  <1>1. \A q : There(q)' = There(q)
    BY SameEdits
  <1>2. ASSUME NEW q
        PROVE  Opt(q)' = Opt(q)
    BY <1>1 DEF Opt, N, M
  <1>3. /\ Opt(FirstPart(r, snake))' = Opt(FirstPart(r, snake))
        /\ Opt(LastPart(r, snake))' = Opt(LastPart(r, snake))
    <2>1. PICK p, q : p = FirstPart(r, snake) /\ q = LastPart(r, snake)
      OBVIOUS
    <2> QED
      BY <1>2
  <1>4. \A e : SnakeMatches(snake, e)' <=> SnakeMatches(snake, e)
    BY DEF SnakeMatches
  <1>5. OneStep(r, snake)' <=> OneStep(r, snake)
    BY <1>1 DEF OneStep
  <1> QED
    BY <1>2, <1>3, <1>4, <1>5, Zenon DEF Splits

LEMMA SameProgress ==
    ASSUME SameInput, NEW s, NEW es, NEW ls, Progress(s, es, ls)
    PROVE  Progress(s, es, ls)'
  <1>1. match' = match /\ aSize' = aSize /\ bSize' = bSize
    BY DEF SameInput
  <1>2. ASSUME NEW r
        PROVE  Opt(r)' = Opt(r)
    BY <1>1, SameParts
  <1>3. Whole' = Whole
    BY <1>1 DEF Whole
  <1>4. Opt(Whole)' = Opt(Whole)
    <2>1. Opt(Whole)' = There(Whole)'[N(Whole)][M(Whole)]
      BY <1>3 DEF Opt, N, M
    <2> QED
      BY <1>1, <1>3 DEF Opt, There, Edits, EditsTo, FromStart, EqualAt, N, M
  <1>5. ASSUME NEW c
        PROVE  FoundRight(c)' <=> FoundRight(c)
    BY <1>1, SameParts DEF FoundRight
  <1>6. ASSUME NEW c, NEW caller
        PROVE  Follows(c, caller)' <=> Follows(c, caller)
    BY <1>2 DEF Follows, FirstHalf, LastHalf
  <1>7. Chained(s)' <=> Chained(s)
    BY <1>3, <1>5, <1>6 DEF Chained
  <1>8. ASSUME NEW c
        PROVE  Added(c)' = Added(c)
    BY <1>2 DEF Added, FirstHalf
  <1>9. \A a, b : Reached(es, ls, a, b)' <=> Reached(es, ls, a, b)
    BY <1>1 DEF Reached
  <1>10. Reached(es, ls, aSize, bSize)' <=> Reached(es, ls, aSize, bSize)
    BY <1>1 DEF Reached
  <1> QED
    BY <1>4, <1>7, <1>8, <1>9, <1>10 DEF Progress, AheadTo, DownTo, FirstHalf

(* The innermost call goes on.                                              *)
Starting(c) == c.at \in {"begin", "search", "found"}

LEMMA PutIs ==
    ASSUME NEW s \in Seq(Frames), s # <<>>, NEW x \in Frames, NEW t, t = <<x>> \o Tail(s)
    PROVE  /\ Len(s) \in Nat \ {0} /\ Len(t) = Len(s) /\ t[1] = x /\ Head(s) = s[1]
           /\ t \in Seq(Frames) /\ t # <<>> /\ Head(t) = x
           /\ \A i \in 2 .. Len(s) : t[i] = s[i]
  <1>1. /\ t \in Seq(Frames) /\ Len(t) = Len(s) /\ t[1] = x
        /\ \A i \in 2 .. Len(s) : t[i] = s[i]
    BY PutFirst
  <1>2. Len(s) \in Nat \ {0} /\ Head(s) = s[1]
    BY Pop
  <1>3. t # <<>>
    BY <1>1, <1>2, EmptySeq
  <1>4. Head(t) = x
    BY <1>1, <1>3, Pop
  <1> QED
    BY <1>1, <1>2, <1>3, <1>4

LEMMA ChainPut ==
    ASSUME NEW s \in Seq(Frames), s # <<>>, Chained(s), NEW x \in Frames,
           x.region = Head(s).region, x.from = Head(s).from, FoundRight(x),
           NEW t, t = <<x>> \o Tail(s)
    PROVE  Chained(t)
  <1>1. PICK n \in Nat \ {0} : n = Len(s) /\ Len(t) = n /\ t[1] = x /\ Head(s) = s[1] /\ t # <<>>
    BY PutIs
  <1>2. \A i \in 2 .. n : t[i] = s[i]
    BY <1>1, PutIs
  <1>3. s[n].from = 0 /\ s[n].region = Whole
    BY <1>1 DEF Chained
  <1>4. t[n].from = 0 /\ t[n].region = Whole
    <2>1. CASE n = 1
      BY <1>1, <1>3, <2>1
    <2>2. CASE n # 1
      <3>1. n \in 2 .. n
        BY <2>2
      <3>2. t[n] = s[n]
        BY <1>2, <3>1
      <3> QED
        BY <1>3, <3>2
    <2> QED
      BY <2>1, <2>2
  <1>5. ASSUME NEW i \in 1 .. n
        PROVE  FoundRight(t[i])
    <2>1. CASE i = 1
      BY <1>1, <2>1
    <2>2. CASE i # 1
      BY <1>1, <1>2, <2>2 DEF Chained
    <2> QED
      BY <2>1, <2>2
  <1>6. ASSUME NEW i \in 2 .. n
        PROVE  Follows(t[i - 1], t[i])
    <2>1. Follows(s[i - 1], s[i]) /\ t[i] = s[i]
      BY <1>1, <1>2 DEF Chained
    <2>2. t[i - 1].region = s[i - 1].region /\ t[i - 1].from = s[i - 1].from
      <3>1. CASE i = 2
        BY <1>1, <3>1
      <3>2. CASE i # 2
        <4>1. i - 1 \in 2 .. n
          BY <3>2
        <4>2. t[i - 1] = s[i - 1]
          BY <1>2, <4>1
        <4> QED
          BY <4>2
      <3> QED
        BY <3>1, <3>2
    <2> QED
      BY <2>1, <2>2 DEF Follows
  <1> QED
    BY <1>1, <1>4, <1>5, <1>6 DEF Chained

LEMMA ProgressPut ==
    ASSUME NEW s \in Seq(Frames), s # <<>>, NEW es, NEW ls, Progress(s, es, ls), NEW x \in Frames,
           Starting(Head(s)), Starting(x),
           x.region = Head(s).region, x.from = Head(s).from, FoundRight(x),
           NEW t, t = <<x>> \o Tail(s)
    PROVE  Progress(t, es, ls)
  <1>1. Chained(s)
    BY DEF Progress
  <1>2. Chained(t)
    BY <1>1, ChainPut
  <1>3. t # <<>> /\ Head(t) = x
    BY PutIs
  <1>4. PICK c : c = Head(s)
    OBVIOUS
  <1>5. /\ Added(c) = 0 /\ AheadTo(c) = c.region.a /\ DownTo(c) = c.region.b
        /\ Added(x) = 0 /\ AheadTo(x) = c.region.a /\ DownTo(x) = c.region.b
    BY <1>4 DEF Starting, Added, AheadTo, DownTo
  <1>6. ScriptLength(es) = c.from + 0 /\ Reached(es, ls, c.region.a, c.region.b)
    BY <1>4, <1>5 DEF Progress
  <1> QED
    BY <1>2, <1>3, <1>4, <1>5, <1>6 DEF Progress

(* A call is made for a half.                                               *)
LEMMA ChainPush ==
    ASSUME NEW s \in Seq(Frames), s # <<>>, Chained(s),
           NEW c \in Frames, Starting(c), FoundRight(c), Follows(c, Head(s)),
           NEW t, t = <<c>> \o s
    PROVE  Chained(t) /\ t # <<>> /\ Head(t) = c
  <1>1. PICK n \in Nat \ {0} : n = Len(s) /\ Head(s) = s[1]
    BY Pop
  <1>2. t \in Seq(Frames) /\ Len(t) = n + 1 /\ t[1] = c /\ \A i \in 1 .. n : t[i + 1] = s[i]
    BY <1>1, Push
  <1>3. t # <<>>
    BY <1>2, EmptySeq
  <1>4. Head(t) = c
    BY <1>2, <1>3, Pop
  <1>5. t[n + 1].from = 0 /\ t[n + 1].region = Whole
    BY <1>1, <1>2 DEF Chained
  <1>6. ASSUME NEW i \in 1 .. n + 1
        PROVE  FoundRight(t[i])
    <2>1. CASE i = 1
      BY <1>2, <2>1
    <2>2. CASE i # 1
      <3>1. PICK j \in 1 .. n : i = j + 1
        BY <2>2
      <3> QED
        BY <1>1, <1>2, <3>1 DEF Chained
    <2> QED
      BY <2>1, <2>2
  <1>7. ASSUME NEW i \in 2 .. n + 1
        PROVE  Follows(t[i - 1], t[i])
    <2>1. PICK j \in 1 .. n : i = j + 1 /\ i - 1 = j
      OBVIOUS
    <2>2. t[i] = s[j]
      BY <1>2, <2>1
    <2>3. CASE j = 1
      BY <1>1, <1>2, <2>1, <2>2, <2>3
    <2>4. CASE j # 1
      <3>1. PICK l \in 1 .. n : j = l + 1 /\ l = j - 1
        BY <2>4
      <3>2. t[i - 1] = s[j - 1]
        BY <1>2, <2>1, <3>1
      <3>3. Follows(s[j - 1], s[j])
        BY <1>1, <2>4 DEF Chained
      <3> QED
        BY <2>2, <3>2, <3>3
    <2> QED
      BY <2>3, <2>4
  <1> QED
    BY <1>2, <1>3, <1>4, <1>5, <1>6, <1>7 DEF Chained

LEMMA ProgressPush ==
    ASSUME NEW s \in Seq(Frames), s # <<>>, Chained(s),
           NEW x \in Frames, x.region = Head(s).region, x.from = Head(s).from, FoundRight(x),
           NEW c \in Frames, Starting(c), FoundRight(c), Follows(c, x),
           NEW es, NEW ls, ScriptLength(es) = c.from, c.from \in Nat,
           Reached(es, ls, c.region.a, c.region.b),
           NEW t, t = <<c, x>> \o Tail(s)
    PROVE  Progress(t, es, ls)
  <1>1. PICK u : u = <<x>> \o Tail(s)
    OBVIOUS
  <1>2. u \in Seq(Frames) /\ u # <<>> /\ Head(u) = x
    BY <1>1, PutIs
  <1>3. Chained(u)
    BY <1>1, ChainPut
  <1>4. t = <<c>> \o u
    <2>1. Tail(s) \in Seq(Frames) /\ <<x>> \in Seq(Frames) /\ <<c>> \in Seq(Frames)
      BY Pop
    <2>2. <<c>> \o (<<x>> \o Tail(s)) = (<<c>> \o <<x>>) \o Tail(s)
      BY <2>1, ConcatAssociative
    <2>3. <<c>> \o <<x>> = <<c, x>>
      BY TwoFirst
    <2> QED
      BY <1>1, <2>2, <2>3
  <1>5. Chained(t) /\ t # <<>> /\ Head(t) = c
    BY <1>2, <1>3, <1>4, ChainPush
  <1>6. Added(c) = 0 /\ AheadTo(c) = c.region.a /\ DownTo(c) = c.region.b
    BY DEF Starting, Added, AheadTo, DownTo
  <1>7. ScriptLength(es) = c.from + 0
    OBVIOUS
  <1> QED
    BY <1>5, <1>6, <1>7 DEF Progress

(* A call returns: its region is done, and its caller goes on from there.   *)
LEMMA ProgressPop ==
    ASSUME NEW s \in Seq(Frames), s # <<>>, Chained(s), Stack(s, Whole),
           NEW c, c = Head(s), NEW es, NEW ls,
           ScriptLength(es) = c.from + Opt(c.region), Opt(c.region) \in Nat,
           Reached(es, ls, c.region.aEnd, c.region.bEnd)
    PROVE  Progress(Tail(s), es, ls)
  <1>1. PICK n \in Nat \ {0}, t \in Seq(Frames) :
          n = Len(s) /\ c = s[1] /\ t = Tail(s) /\ Len(t) = n - 1
    BY Pop
  <1>2. \A i \in 1 .. n - 1 : t[i] = s[i + 1]
    BY <1>1, Pop
  <1>3. c \in Frames
    BY <1>1, Pop
  <1>4. CASE n = 1
    <2>1. t = <<>>
      BY <1>1, <1>4, EmptySeq
    <2>2. c.from = 0 /\ c.region = Whole
      BY <1>1, <1>4 DEF Chained
    <2>3. Whole.aEnd = aSize /\ Whole.bEnd = bSize
      BY DEF Whole, Region
    <2>4. ScriptLength(es) = Opt(Whole) /\ Reached(es, ls, aSize, bSize)
      BY <2>2, <2>3
    <2>5. \A i \in 1 .. Len(t) : FALSE
      BY <1>1, <1>4
    <2>6. \A i \in 2 .. Len(t) : FALSE
      BY <1>1, <1>4
    <2>7. Chained(t)
      BY <2>1, <2>5, <2>6, Zenon DEF Chained
    <2> QED
      BY <1>1, <2>1, <2>4, <2>7, Zenon DEF Progress
  <1>5. CASE n # 1
    <2>1. PICK x \in Frames : x = s[2] /\ x = t[1] /\ x = Head(t) /\ t # <<>>
      <3>1. t # <<>>
        <4>1. n - 1 # 0
          BY <1>5
        <4> QED
          BY <1>1, <4>1, EmptySeq
      <3>2. Head(t) = t[1] /\ t[1] \in Frames
        BY <3>1, Pop
      <3>3. t[1] = s[2]
        BY <1>2, <1>5
      <3> QED
        BY <3>1, <3>2, <3>3
    <2>2. Follows(c, x) /\ FoundRight(x)
      <3>1. 2 \in 2 .. Len(s) /\ 2 \in 1 .. Len(s)
        BY <1>1, <1>5
      <3>2. Follows(s[2 - 1], s[2]) /\ FoundRight(s[2])
        BY <3>1 DEF Chained
      <3> QED
        BY <1>1, <2>1, <3>2
    <2>3. Waits(x)
      BY <2>1, <1>1, StackPop
    <2>4. Chained(t)
      <3>1. t[n - 1].from = 0 /\ t[n - 1].region = Whole
        <4>1. s[n].from = 0 /\ s[n].region = Whole
          BY <1>1 DEF Chained
        <4>2. n - 1 \in 1 .. n - 1 /\ (n - 1) + 1 = n
          BY <1>5
        <4>3. t[n - 1] = s[n]
          BY <1>2, <4>2
        <4> QED
          BY <4>1, <4>3
      <3>2. ASSUME NEW i \in 1 .. n - 1
            PROVE  FoundRight(t[i])
        <4>1. i + 1 \in 1 .. Len(s) /\ t[i] = s[i + 1]
          BY <1>1, <1>2
        <4> QED
          BY <4>1 DEF Chained
      <3>3. ASSUME NEW i \in 2 .. n - 1
            PROVE  Follows(t[i - 1], t[i])
        <4>1. PICK l \in 1 .. n - 1, j \in 2 .. n : l = i - 1 /\ j = i + 1 /\ l + 1 = j - 1
          OBVIOUS
        <4>2. t[i] = s[j] /\ t[i - 1] = s[j - 1]
          BY <1>2, <4>1
        <4>3. Follows(s[j - 1], s[j])
          BY <1>1 DEF Chained
        <4> QED
          BY <4>2, <4>3
      <3> QED
        BY <1>1, <3>1, <3>2, <3>3 DEF Chained
    <2>5. CASE x.at = "before"
      <3>1. c.region = FirstHalf(x) /\ c.from = x.from
        BY <2>2, <2>5 DEF Follows
      <3>2. Added(x) = Opt(FirstHalf(x)) /\ AheadTo(x) = FirstHalf(x).aEnd /\ DownTo(x) = FirstHalf(x).bEnd
        BY <2>5 DEF Added, AheadTo, DownTo
      <3>3. ScriptLength(es) = x.from + Added(x) /\ Reached(es, ls, AheadTo(x), DownTo(x))
        BY <3>1, <3>2
      <3> QED
        BY <1>1, <2>1, <2>4, <3>3, Zenon DEF Progress
    <2>6. CASE x.at = "after"
      <3>1. c.region = LastHalf(x) /\ c.from = x.from + Opt(FirstHalf(x))
        BY <2>2, <2>6 DEF Follows
      <3>2. Added(x) = Opt(x.region) /\ AheadTo(x) = x.region.aEnd /\ DownTo(x) = x.region.bEnd
        BY <2>6 DEF Added, AheadTo, DownTo
      <3>3. c.region.aEnd = x.region.aEnd /\ c.region.bEnd = x.region.bEnd
        BY <3>1 DEF LastHalf, LastPart, Region
      <3>4. /\ Opt(FirstHalf(x)) \in Nat /\ Opt(LastHalf(x)) \in Nat
            /\ Opt(FirstHalf(x)) + Opt(LastHalf(x)) = Opt(x.region)
        <4>1. Splits(x.region, x.snake, x.length)
          BY <2>2, <2>6 DEF FoundRight
        <4> QED
          BY <4>1 DEF Splits, FirstHalf, LastHalf
      <3>5. PICK u \in Nat, v \in Nat, f \in Nat :
              u = Opt(FirstHalf(x)) /\ v = Opt(LastHalf(x)) /\ f = x.from
        BY <3>4 DEF Frames
      <3>6. ScriptLength(es) = (f + u) + v /\ Added(x) = u + v
        BY <3>1, <3>2, <3>4, <3>5
      <3>7. (f + u) + v = f + (u + v)
        OBVIOUS
      <3>8. ScriptLength(es) = x.from + Added(x) /\ Reached(es, ls, AheadTo(x), DownTo(x))
        BY <3>2, <3>3, <3>5, <3>6, <3>7
      <3> QED
        BY <1>1, <2>1, <2>4, <3>8, Zenon DEF Progress
    <2> QED
      BY <2>3, <2>5, <2>6 DEF Waits
  <1> QED
    BY <1>4, <1>5

(* Where no edit is needed, all elements match.                             *)
LEMMA FreeTo ==
    ASSUME NEW r \in Regions, N(r) \in Nat, M(r) \in Nat, NEW x \in Nat, NEW y \in Nat,
           There(r)[x][y] = 0
    PROVE  x = y /\ FreeRun(match, r.a, r.b, x)
  <1>1. IsEdits(There(r), FromStart(r), N(r), M(r))
    BY EditsOfRegion
  <1>2. PICK E, P : E = There(r) /\ P = FromStart(r)
    OBVIOUS
  <1>3. x = y /\ \A i \in 0 .. x - 1 : <<i, i>> \in P
    BY <1>1, <1>2, NoEditsMatch
  <1>4. ASSUME NEW i \in 0 .. x - 1
        PROVE  <<r.a + i, r.b + i>> \in match
    <2>1. <<i, i>> \in FromStart(r)
      BY <1>2, <1>3
    <2> QED
      BY <2>1 DEF FromStart, EqualAt
  <1> QED
    BY <1>3, <1>4 DEF FreeRun

LEMMA RegionReached ==
    ASSUME InputType, NEW r \in Regions, N(r) \in Nat, M(r) \in Nat, Opt(r) = 0,
           NEW es \in Scripts, NEW ls \in Seq(Points), Reached(es, ls, r.a, r.b)
    PROVE  Reached(es, ls, r.aEnd, r.bEnd)
  <1>1. PICK n \in Nat, m \in Nat, a \in Nat, b \in Nat :
          n = N(r) /\ m = M(r) /\ a = r.a /\ b = r.b
    BY DEF Regions
  <1>2. There(r)[n][m] = 0
    BY <1>1 DEF Opt
  <1>3. n = m /\ FreeRun(match, a, b, n)
    BY <1>1, <1>2, FreeTo
  <1>4. Reached(es, ls, a + n, b + n)
    BY <1>1, <1>3, RunReached
  <1>5. a + n = r.aEnd /\ b + m = r.bEnd
    BY <1>1 DEF N, M, Regions
  <1> QED
    BY <1>3, <1>4, <1>5

(* One of the sequences is at its end.                                      *)
LEMMA OptOneSided ==
    ASSUME NEW r \in Regions, N(r) \in Nat, M(r) \in Nat, N(r) = 0 \/ M(r) = 0
    PROVE  Opt(r) = N(r) + M(r)
  <1>1. IsEdits(There(r), FromStart(r), N(r), M(r))
    BY EditsOfRegion
  <1>e. PICK E : E = There(r)
    OBVIOUS
  <1>2. PICK n \in Nat, m \in Nat : n = N(r) /\ m = M(r) /\ E = There(r)
    BY <1>e
  <1>3. E[n][0] = n /\ E[0][m] = m
    BY <1>1, <1>2 DEF IsEdits
  <1> QED
    BY <1>2, <1>3 DEF Opt

LEMMA OneSidedReached ==
    ASSUME InputType, NEW r \in Regions, N(r) \in Nat, M(r) \in Nat, N(r) = 0 \/ M(r) = 0,
           NEW es \in Scripts, NEW ls \in Seq(Points), Reached(es, ls, r.a, r.b),
           NEW from \in Nat, ScriptLength(es) = from,
           NEW deleted, deleted = Delete(es, r.a, r.aEnd), NEW t,
           t = IF M(r) > 0 THEN Insert(deleted, r.aEnd - 1, r.b, r.bEnd) ELSE deleted
    PROVE  /\ Reached(t, ls, r.aEnd, r.bEnd)
           /\ ScriptLength(t) = from + Opt(r)
  <1>1. PICK n \in Nat, m \in Nat, a \in Nat, aEnd \in Nat, b \in Nat, bEnd \in Nat :
          /\ n = N(r) /\ m = M(r) /\ a = r.a /\ aEnd = r.aEnd /\ b = r.b /\ bEnd = r.bEnd
          /\ n = aEnd - a /\ m = bEnd - b
    BY DEF Regions, N, M
  <1>2. a <= aEnd /\ b <= bEnd
    <2>1. n = aEnd - a /\ m = bEnd - b
      BY <1>1
    <2> QED
      BY <2>1
  <1>3. /\ deleted \in Scripts /\ Reached(deleted, ls, aEnd, b)
        /\ ScriptLength(deleted) = from + (aEnd - a)
    BY <1>1, <1>2, DeleteReached
  <1>4. Opt(r) = n + m
    BY <1>1, OptOneSided
  <1>5. CASE m > 0
    <2>1. t = Insert(deleted, aEnd - 1, b, bEnd)
      BY <1>1, <1>5
    <2>2. Reached(t, ls, aEnd, bEnd) /\ ScriptLength(t) = ScriptLength(deleted) + (bEnd - b)
      BY <1>2, <1>3, <2>1, InsertReached
    <2>3. ScriptLength(t) = (from + n) + m
      BY <1>1, <1>3, <2>2
    <2>4. (from + n) + m = from + (n + m)
      OBVIOUS
    <2> QED
      BY <1>1, <1>4, <2>2, <2>3, <2>4
  <1>6. CASE ~(m > 0)
    <2>1. t = deleted
      BY <1>1, <1>6
    <2>2. m = 0 /\ b = bEnd
      BY <1>1, <1>6
    <2>3. ScriptLength(t) = from + n /\ n + m = n
      BY <1>1, <1>3, <2>1, <2>2
    <2> QED
      BY <1>1, <1>3, <1>4, <2>1, <2>2, <2>3
  <1> QED
    BY <1>5, <1>6

(* The points of a snake that was found.                                    *)
LEMMA PartRegions ==
    ASSUME NEW r \in Regions, NEW snake \in Snakes, FitsIn(r, snake), r.a <= r.aEnd, r.b <= r.bEnd
    PROVE  /\ FirstPart(r, snake) \in Regions /\ LastPart(r, snake) \in Regions
           /\ N(FirstPart(r, snake)) \in Nat /\ M(FirstPart(r, snake)) \in Nat
           /\ N(LastPart(r, snake)) \in Nat /\ M(LastPart(r, snake)) \in Nat
           /\ FirstPart(r, snake).a = r.a /\ FirstPart(r, snake).b = r.b
           /\ FirstPart(r, snake).aEnd = SnakeStart(snake)[1] + 1
           /\ FirstPart(r, snake).bEnd = SnakeStart(snake)[2] + 1
           /\ LastPart(r, snake).a = SnakeEnd(snake)[1] + 1
           /\ LastPart(r, snake).b = SnakeEnd(snake)[2] + 1
           /\ LastPart(r, snake).aEnd = r.aEnd /\ LastPart(r, snake).bEnd = r.bEnd
           /\ SnakeStart(snake)[1] + 1 \in Nat /\ SnakeStart(snake)[2] + 1 \in Nat
           /\ SnakeEnd(snake)[1] + 1 \in Nat /\ SnakeEnd(snake)[2] + 1 \in Nat
  <1>1. PICK p \in Int \X Int, q \in Int \X Int : p = SnakeStart(snake) /\ q = SnakeEnd(snake)
    BY DEF SnakeStart, SnakeEnd, FitsIn
  <1>2. PICK a \in Nat, aEnd \in Nat, b \in Nat, bEnd \in Nat :
          a = r.a /\ aEnd = r.aEnd /\ b = r.b /\ bEnd = r.bEnd
    BY DEF Regions
  <1>3. PICK x \in Int, y \in Int, u \in Int, v \in Int :
          x = p[1] + 1 /\ y = p[2] + 1 /\ u = q[1] + 1 /\ v = q[2] + 1
    OBVIOUS
  <1>4. /\ x \in a .. aEnd /\ y \in b .. bEnd /\ u \in a .. aEnd /\ v \in b .. bEnd
    BY <1>1, <1>2, <1>3 DEF FitsIn, InRange
  <1>5. x \in Nat /\ y \in Nat /\ u \in Nat /\ v \in Nat
    BY <1>4
  <1>6. FirstPart(r, snake) = Region(a, x, b, y) /\ LastPart(r, snake) = Region(u, aEnd, v, bEnd)
    BY <1>1, <1>2, <1>3 DEF FirstPart, LastPart
  <1>7. /\ Region(a, x, b, y) \in Regions /\ Region(u, aEnd, v, bEnd) \in Regions
    BY <1>5 DEF Region, Regions
  <1>8. /\ N(Region(a, x, b, y)) = x - a /\ M(Region(a, x, b, y)) = y - b
        /\ N(Region(u, aEnd, v, bEnd)) = aEnd - u /\ M(Region(u, aEnd, v, bEnd)) = bEnd - v
        /\ Region(a, x, b, y).a = a /\ Region(a, x, b, y).b = b
        /\ Region(a, x, b, y).aEnd = x /\ Region(a, x, b, y).bEnd = y
        /\ Region(u, aEnd, v, bEnd).a = u /\ Region(u, aEnd, v, bEnd).b = v
        /\ Region(u, aEnd, v, bEnd).aEnd = aEnd /\ Region(u, aEnd, v, bEnd).bEnd = bEnd
    BY DEF N, M, Region
  <1>9. x - a \in Nat /\ y - b \in Nat /\ aEnd - u \in Nat /\ bEnd - v \in Nat
    BY <1>4
  <1> QED
    BY <1>1, <1>2, <1>3, <1>5, <1>6, <1>7, <1>8, <1>9

(* The snake of a region continues what is before it.                       *)
LEMMA SnakeFollows ==
    ASSUME InputType, NEW r \in Regions, NEW snake \in Snakes, FitsIn(r, snake),
           r.a <= r.aEnd, r.b <= r.bEnd, NEW e \in Nat, SnakeMatches(snake, e),
           NEW es \in Scripts, NEW ls \in Seq(Points),
           NEW f, f = FirstPart(r, snake), NEW l, l = LastPart(r, snake),
           Reached(es, ls, f.aEnd, f.bEnd)
    PROVE  Reached(es, ls \o Trace(snake), l.a, l.b)
  <1>1. PICK a \in Nat, b \in Nat : /\ a = f.aEnd /\ b = f.bEnd
                                    /\ SnakeStart(snake)[1] + 1 = a /\ SnakeStart(snake)[2] + 1 = b
    BY PartRegions
  <1>2. snake.middle \in Int \X Int /\ snake.end \in Int \X Int
    BY DEF FitsIn
  <1>3. Reached(es, ls \o Trace(snake), a + e, b + e)
    BY <1>1, <1>2, SnakeReached
  <1>4. PICK p \in Int \X Int, q \in Int \X Int : p = SnakeStart(snake) /\ q = SnakeEnd(snake)
    BY <1>2 DEF SnakeStart, SnakeEnd
  <1>5. q[1] = p[1] + e /\ q[2] = p[2] + e
    BY <1>4 DEF SnakeMatches
  <1>6. PICK x \in Int, y \in Int : x = p[1] /\ y = p[2] /\ x + 1 = a /\ y + 1 = b
    BY <1>1, <1>4
  <1>7. l.a = SnakeEnd(snake)[1] + 1 /\ l.b = SnakeEnd(snake)[2] + 1
    BY PartRegions
  <1>8. l.a = a + e /\ l.b = b + e
    <2>1. SnakeEnd(snake)[1] = x + e /\ SnakeEnd(snake)[2] = y + e
      BY <1>4, <1>5, <1>6
    <2>2. (x + e) + 1 = a + e /\ (y + e) + 1 = b + e
      <3>1. x + 1 = a /\ y + 1 = b
        BY <1>6
      <3> QED
        BY <3>1
    <2> QED
      BY <1>7, <2>1, <2>2
  <1> QED
    BY <1>3, <1>8

(* No edit: the elements before the snake, the snake, and those after it.   *)
LEMMA NoEditReached ==
    ASSUME InputType, NEW r \in Regions, r.a <= r.aEnd, r.b <= r.bEnd,
           NEW snake \in Snakes, FitsIn(r, snake), Splits(r, snake, 0),
           NEW es \in Scripts, NEW ls \in Seq(Points), Reached(es, ls, r.a, r.b)
    PROVE  Reached(es, ls \o Trace(snake), r.aEnd, r.bEnd)
  <1>1. PICK f \in Regions, l \in Regions :
          /\ f = FirstPart(r, snake) /\ l = LastPart(r, snake)
          /\ N(f) \in Nat /\ M(f) \in Nat /\ N(l) \in Nat /\ M(l) \in Nat
          /\ f.a = r.a /\ f.b = r.b /\ l.aEnd = r.aEnd /\ l.bEnd = r.bEnd
    BY PartRegions
  <1>2. Opt(f) = 0 /\ Opt(l) = 0
    <2>1. PICK u \in Nat, v \in Nat : u = Opt(f) /\ v = Opt(l) /\ u + v = 0
      BY <1>1 DEF Splits
    <2>2. u = 0 /\ v = 0
      BY <2>1
    <2> QED
      BY <2>1, <2>2
  <1>3. PICK e \in Nat : SnakeMatches(snake, e)
    BY DEF Splits
  <1>4. Reached(es, ls, f.a, f.b)
    BY <1>1
  <1>5. Reached(es, ls, f.aEnd, f.bEnd)
    BY <1>1, <1>2, <1>4, RegionReached
  <1>6. Reached(es, ls \o Trace(snake), l.a, l.b)
    BY <1>1, <1>3, <1>5, SnakeFollows
  <1>7. ls \o Trace(snake) \in Seq(Points)
    BY TraceType, ConcatProperties DEF FitsIn
  <1>8. PICK ms \in Seq(Points) : ms = ls \o Trace(snake)
    BY <1>7
  <1>9. Reached(es, ms, l.aEnd, l.bEnd)
    BY <1>1, <1>2, <1>6, <1>8, RegionReached
  <1> QED
    BY <1>1, <1>8, <1>9

(* The script is the same after the elements of a snake.                    *)
LEMMA PastSnake ==
    ASSUME InputType, NEW r \in Regions, NEW snake \in Snakes, FitsIn(r, snake),
           r.a <= r.aEnd, r.b <= r.bEnd, NEW e \in Nat, SnakeMatches(snake, e),
           NEW es \in Scripts, NEW ls \in Seq(Points),
           NEW f, f = FirstPart(r, snake), NEW l, l = LastPart(r, snake),
           Reached(es, ls, f.aEnd, f.bEnd)
    PROVE  Reached(es, ls, l.a, l.b)
  <1>1. PICK a \in Nat, b \in Nat : /\ a = f.aEnd /\ b = f.bEnd
                                    /\ SnakeStart(snake)[1] + 1 = a /\ SnakeStart(snake)[2] + 1 = b
    BY PartRegions
  <1>2. SnakeStart(snake) \in Int \X Int /\ SnakeEnd(snake) \in Int \X Int /\ a \in Int /\ b \in Int
    BY DEF FitsIn, SnakeStart, SnakeEnd
  <1>3. FreeRun(match, a, b, e)
    BY <1>1, <1>2, SnakeIsFree
  <1>4. Reached(es, ls, a + e, b + e)
    BY <1>1, <1>3, RunReached
  <1>5. PICK p \in Int \X Int, q \in Int \X Int : p = SnakeStart(snake) /\ q = SnakeEnd(snake)
    BY <1>2
  <1>6. q[1] = p[1] + e /\ q[2] = p[2] + e
    BY <1>5 DEF SnakeMatches
  <1>7. PICK x \in Int, y \in Int : x = p[1] /\ y = p[2] /\ x + 1 = a /\ y + 1 = b
    BY <1>1, <1>5
  <1>8. l.a = SnakeEnd(snake)[1] + 1 /\ l.b = SnakeEnd(snake)[2] + 1
    BY PartRegions
  <1>9. l.a = a + e /\ l.b = b + e
    <2>1. SnakeEnd(snake)[1] = x + e /\ SnakeEnd(snake)[2] = y + e
      BY <1>5, <1>6, <1>7
    <2>2. (x + e) + 1 = a + e /\ (y + e) + 1 = b + e
      <3>1. x + 1 = a /\ y + 1 = b
        BY <1>7
      <3> QED
        BY <3>1
    <2> QED
      BY <1>8, <2>1, <2>2
  <1> QED
    BY <1>4, <1>9

(* A single edit, after elements that match.                                *)
LEMMA BeforeTheEdit ==
    ASSUME InputType, NEW r \in Regions, N(r) \in Nat, M(r) \in Nat,
           NEW snake \in Snakes, FitsIn(r, snake), OneStep(r, snake),
           NEW es \in Scripts, NEW ls \in Seq(Points), Reached(es, ls, r.a, r.b)
    PROVE  \E x, y \in Nat : /\ x = snake.begin[1] + 1 /\ y = snake.begin[2] + 1
                             /\ Reached(es, ls, x, y) /\ x - r.a = y - r.b
                             /\ snake.forward
                             /\ snake.middle = <<x - 1, y>> \/ snake.middle = <<x, y - 1>>
  <1>1. PICK a \in Nat, b \in Nat : a = r.a /\ b = r.b
    BY DEF Regions
  <1>2. PICK x \in Int, y \in Int : x = snake.begin[1] + 1 /\ y = snake.begin[2] + 1
    BY DEF FitsIn
  <1>3. PICK u \in Nat, v \in Nat : u = x - a /\ v = y - b /\ There(r)[u][v] = 0
    BY <1>1, <1>2 DEF OneStep
  <1>4. /\ snake.forward
        /\ snake.middle = <<x - 1, y>> \/ snake.middle = <<x, y - 1>>
    BY <1>2, Zenon DEF OneStep
  <1>5. u = v /\ FreeRun(match, a, b, u)
    BY <1>1, <1>3, FreeTo
  <1>6. Reached(es, ls, a + u, b + u)
    BY <1>1, <1>5, RunReached
  <1>7. x = a + u /\ y = b + u /\ x \in Nat /\ y \in Nat
    <2>1. u = x - a /\ u = y - b
      BY <1>3, <1>5
    <2> QED
      BY <2>1
  <1>8. x - r.a = y - r.b
    BY <1>1, <1>3, <1>5
  <1>9. Reached(es, ls, x, y)
    BY <1>6, <1>7
  <1> QED
    BY <1>2, <1>4, <1>7, <1>8, <1>9

IsEdit(t, es, ls, from, x, y, g, h, i) ==
    /\ es \in Scripts /\ ls \in Seq(Points) /\ from \in Nat /\ ScriptLength(es) = from
    /\ x \in Nat /\ y \in Nat /\ g \in Int /\ h \in Int /\ i \in Int
    /\ Reached(es, ls, x, y)
    /\ x = g + 1 /\ ((h = x - 1 /\ i = y) \/ (h = x /\ i = y - 1))
    /\ t = IF g = h THEN Insert(es, h, i, i + 1) ELSE Delete(es, h, h + 1)

EditTo(x, y, h, i) == (h + 1 = x /\ i + 1 = y + 1) \/ (h + 1 = x + 1 /\ i + 1 = y)

LEMMA TheEdit ==
    ASSUME InputType, NEW t, NEW es, NEW ls, NEW from, NEW x, NEW y, NEW g, NEW h, NEW i,
           IsEdit(t, es, ls, from, x, y, g, h, i)
    PROVE  /\ t \in Scripts /\ ScriptLength(t) = from + 1
           /\ Reached(t, ls, h + 1, i + 1) /\ EditTo(x, y, h, i)
  <1>0. /\ es \in Scripts /\ ls \in Seq(Points) /\ from \in Nat /\ ScriptLength(es) = from
        /\ x \in Nat /\ y \in Nat /\ g \in Int /\ h \in Int /\ i \in Int
        /\ Reached(es, ls, x, y)
    BY DEF IsEdit
  <1>a. x = g + 1 /\ ((h = x - 1 /\ i = y) \/ (h = x /\ i = y - 1))
    BY DEF IsEdit
  <1>b. t = IF g = h THEN Insert(es, h, i, i + 1) ELSE Delete(es, h, h + 1)
    BY DEF IsEdit
  <1>1. CASE h = x - 1 /\ i = y
    <2>1. g = h /\ h + 1 = x
      BY <1>1, <1>a, <1>0
    <2>2. PICK end \in Nat : end = i + 1 /\ y <= end /\ end - y = 1
      BY <1>0, <1>1
    <2>3. t = Insert(es, x - 1, y, end)
      BY <1>1, <1>b, <2>1, <2>2
    <2>4. t \in Scripts /\ Reached(t, ls, x, end) /\ ScriptLength(t) = from + (end - y)
      BY <1>0, <2>2, <2>3, InsertReached
    <2> QED
      BY <1>0, <1>1, <2>1, <2>2, <2>4 DEF EditTo
  <1>2. CASE h = x /\ i = y - 1
    <2>1. g # h /\ i + 1 = y
      BY <1>2, <1>a, <1>0
    <2>2. PICK end \in Nat : end = h + 1 /\ x <= end /\ end - x = 1
      BY <1>0, <1>2
    <2>3. t = Delete(es, x, end)
      BY <1>2, <1>b, <2>1, <2>2
    <2>4. t \in Scripts /\ Reached(t, ls, end, y) /\ ScriptLength(t) = from + (end - x)
      BY <1>0, <2>2, <2>3, DeleteReached
    <2> QED
      BY <1>0, <1>2, <2>1, <2>2, <2>4 DEF EditTo
  <1> QED
    BY <1>1, <1>2, <1>a

LEMMA OneEditReached ==
    ASSUME InputType, NEW r \in Regions, N(r) \in Nat, M(r) \in Nat, r.a <= r.aEnd, r.b <= r.bEnd,
           NEW snake \in Snakes, FitsIn(r, snake), Splits(r, snake, 1),
           NEW es \in Scripts, NEW ls \in Seq(Points), Reached(es, ls, r.a, r.b),
           NEW from \in Nat, ScriptLength(es) = from,
           NEW t, t = IF snake.begin[1] = snake.middle[1]
                      THEN Insert(es, snake.middle[1], snake.middle[2], snake.middle[2] + 1)
                      ELSE LET z == IF snake.forward THEN snake.middle[1] ELSE snake.begin[1] IN
                           Delete(es, z, z + 1)
    PROVE  Reached(t, ls, r.aEnd, r.bEnd) /\ ScriptLength(t) = from + 1
  <1>1. PICK f \in Regions, l \in Regions :
          /\ f = FirstPart(r, snake) /\ l = LastPart(r, snake)
          /\ N(f) \in Nat /\ M(f) \in Nat /\ N(l) \in Nat /\ M(l) \in Nat
          /\ f.a = r.a /\ f.b = r.b /\ l.aEnd = r.aEnd /\ l.bEnd = r.bEnd
          /\ f.aEnd = SnakeStart(snake)[1] + 1 /\ f.bEnd = SnakeStart(snake)[2] + 1
    BY PartRegions
  <1>2. OneStep(r, snake)
    BY DEF Splits
  <1>3. PICK x \in Nat, y \in Nat :
          /\ x = snake.begin[1] + 1 /\ y = snake.begin[2] + 1
          /\ Reached(es, ls, x, y) /\ x - r.a = y - r.b
          /\ snake.forward
          /\ snake.middle = <<x - 1, y>> \/ snake.middle = <<x, y - 1>>
    BY <1>2, BeforeTheEdit
  <1>4. PICK g \in Int, h \in Int, i \in Int :
          g = snake.begin[1] /\ h = snake.middle[1] /\ i = snake.middle[2]
    BY DEF FitsIn
  <1>5. t = IF g = h THEN Insert(es, h, i, i + 1) ELSE Delete(es, h, h + 1)
    <2>1. PICK z : z = IF snake.forward THEN h ELSE g
      OBVIOUS
    <2>2. t = IF g = h THEN Insert(es, h, i, i + 1) ELSE Delete(es, z, z + 1)
      BY <1>4, <2>1, Zenon
    <2>3. z = h
      BY <1>3, <2>1, Zenon
    <2> QED
      BY <2>2, <2>3, Zenon
  <1>6. x = g + 1 /\ ((h = x - 1 /\ i = y) \/ (h = x /\ i = y - 1))
    <2>1. CASE snake.middle = <<x - 1, y>>
      <3>1. h = x - 1 /\ i = y
        BY <1>4, <2>1
      <3>2. x = g + 1
        BY <1>3, <1>4
      <3> QED
        BY <3>1, <3>2
    <2>2. CASE snake.middle = <<x, y - 1>>
      <3>1. h = x /\ i = y - 1
        BY <1>4, <2>2
      <3>2. x = g + 1
        BY <1>3, <1>4
      <3> QED
        BY <3>1, <3>2
    <2> QED
      BY <1>3, <2>1, <2>2, Zenon
  <1>7. /\ t \in Scripts /\ ScriptLength(t) = from + 1
        /\ Reached(t, ls, h + 1, i + 1) /\ EditTo(x, y, h, i)
    <2>1. Reached(es, ls, x, y)
      BY <1>3, Zenon
    <2>2. IsEdit(t, es, ls, from, x, y, g, h, i)
      BY <1>5, <1>6, <2>1 DEF IsEdit
    <2> QED
      BY <2>2, TheEdit
  <1>8. SnakeStart(snake) = snake.middle
    BY <1>3, Zenon DEF SnakeStart
  <1>9. f.aEnd = h + 1 /\ f.bEnd = i + 1
    BY <1>1, <1>4, <1>8
  <1>10. Opt(l) = 0
    <2>1. PICK u \in Nat, v \in Nat : u = Opt(f) /\ v = Opt(l) /\ u + v = 1
      BY <1>1 DEF Splits
    <2>2. u # 0
      <3> SUFFICES ASSUME u = 0
                   PROVE  FALSE
        OBVIOUS
      <3>1. There(f)[N(f)][M(f)] = 0
        BY <2>1 DEF Opt
      <3>2. N(f) = M(f)
        BY <1>1, <3>1, FreeTo
      <3>3. PICK a \in Nat, b \in Nat : a = r.a /\ b = r.b
        BY DEF Regions
      <3>4. (h + 1) - a = (i + 1) - b
        BY <1>1, <1>9, <3>2, <3>3 DEF N, M
      <3>5. x - a = y - b
        BY <1>3, <3>3, Zenon
      <3>6. (h + 1 = x /\ i + 1 = y + 1) \/ (h + 1 = x + 1 /\ i + 1 = y)
        BY <1>7 DEF EditTo
      <3> QED
        BY <3>4, <3>5, <3>6
    <2>3. v = 0
      BY <2>1, <2>2
    <2> QED
      BY <2>1, <2>3
  <1>11. PICK e \in Nat : SnakeMatches(snake, e)
    BY DEF Splits
  <1>12. Reached(t, ls, f.aEnd, f.bEnd)
    BY <1>7, <1>9
  <1>13. Reached(t, ls, l.a, l.b)
    BY <1>1, <1>7, <1>11, <1>12, PastSnake
  <1>14. Reached(t, ls, l.aEnd, l.bEnd)
    BY <1>1, <1>7, <1>10, <1>13, RegionReached
  <1> QED
    BY <1>1, <1>7, <1>14

-----------------------------------------------------------------------------
(* The steps.                                                               *)
Faces(s, es, ls, c, r, place) ==
    /\ s = calls /\ es = script /\ ls = lcs /\ c = Current /\ r = Here
    /\ s \in Seq(Frames) /\ s # <<>> /\ Stack(s, Whole) /\ Chained(s)
    /\ c = Head(s) /\ c \in Frames /\ c.at = place /\ r = c.region /\ r \in Regions
    /\ N(r) \in Nat /\ M(r) \in Nat /\ r.a <= r.aEnd /\ r.b <= r.bEnd
    /\ HasFound(c) /\ FoundRight(c)
    /\ es \in Scripts /\ ls \in Seq(Points) /\ InputType /\ Opt(r) \in Nat
    /\ Progress(s, es, ls) /\ ScriptLength(es) = c.from + Added(c)
    /\ Reached(es, ls, AheadTo(c), DownTo(c))

LEMMA InputIs ==
    ASSUME IInv
    PROVE  InputType
  <1>1. PICK n \in Int, m \in Int : n = aSize /\ m = bSize
    BY SizesAssumption DEF IInv, DataType
  <1>2. Indexes(n) \X Indexes(m) \subseteq Int \X Int
    BY DEF Indexes
  <1>3. match \subseteq Indexes(n) \X Indexes(m)
    BY <1>1 DEF IInv, DataType
  <1> QED
    BY <1>2, <1>3 DEF InputType

LEMMA NowFaces ==
    ASSUME HalvesInv, NEW place, At(place)
    PROVE  \E s, es, ls, c, r : Faces(s, es, ls, c, r, place)
  <1>1. IInv
    BY DEF HalvesInv
  <1>2. PICK s, es, ls, c, r : s = calls /\ es = script /\ ls = lcs /\ c = Current /\ r = Here
    OBVIOUS
  <1>3. /\ s \in Seq(Frames) /\ s # <<>> /\ Stack(s, Whole)
        /\ c \in Frames /\ c = Head(s) /\ c.at = place /\ r = c.region
        /\ r \in Regions /\ N(r) \in Nat /\ M(r) \in Nat
        /\ r.a <= r.aEnd /\ r.b <= r.bEnd /\ HasFound(c)
        /\ es \in Scripts /\ ls \in Seq(Points)
    BY <1>1, <1>2, Innermost
  <1>4. Progress(s, es, ls)
    BY <1>2 DEF HalvesInv
  <1>5. /\ Chained(s) /\ ScriptLength(es) = c.from + Added(c)
        /\ Reached(es, ls, AheadTo(c), DownTo(c))
    BY <1>3, <1>4 DEF Progress
  <1>6. FoundRight(c)
    <2>1. Len(s) \in Nat \ {0} /\ c = s[1]
      BY <1>3, Pop
    <2>2. 1 \in 1 .. Len(s)
      BY <2>1
    <2> QED
      BY <1>5, <2>1, <2>2 DEF Chained
  <1>7. InputType /\ Opt(r) \in Nat
    BY <1>1, <1>3, InputIs, OptIs
  <1>8. Faces(s, es, ls, c, r, place)
    BY <1>2, <1>3, <1>4, <1>5, <1>6, <1>7, Zenon DEF Faces
  <1> QED
    BY <1>8

(* A call that begins, searches or has found a snake has added nothing yet. *)
LEMMA NothingAdded ==
    ASSUME NEW s, NEW es, NEW ls, NEW c, NEW r, NEW place, Faces(s, es, ls, c, r, place),
           place \in {"begin", "search", "found"}
    PROVE  /\ ScriptLength(es) = c.from /\ c.from \in Nat /\ Reached(es, ls, r.a, r.b) /\ Starting(c)
  <1>1. /\ c.at = place /\ c \in Frames /\ r = c.region /\ ScriptLength(es) = c.from + Added(c)
        /\ Reached(es, ls, AheadTo(c), DownTo(c))
    BY DEF Faces
  <1>2. Added(c) = 0 /\ AheadTo(c) = r.a /\ DownTo(c) = r.b /\ Starting(c)
    BY <1>1 DEF Added, AheadTo, DownTo, Starting
  <1>3. c.from \in Nat
    BY <1>1 DEF Frames
  <1> QED
    BY <1>1, <1>2, <1>3

LEMMA NextHalves ==
    ASSUME IInv', SameInput, NEW t, NEW fs, NEW ms, t = calls', fs = script', ms = lcs',
           Progress(t, fs, ms)
    PROVE  HalvesInv'
  <1>1. ASSUME NEW s, NEW es, NEW ls, s = calls' /\ es = script' /\ ls = lcs'
        PROVE  Progress(s, es, ls)'
    <2>1. Progress(s, es, ls)
      BY <1>1
    <2> QED
      BY <2>1, SameProgress
  <1> QED
    BY <1>1 DEF HalvesInv

LEMMA ReturnHalves ==
    ASSUME IInv', SameInput, Return,
           NEW s, NEW es, NEW ls, NEW c, NEW r, NEW place, Faces(s, es, ls, c, r, place),
           NEW fs, NEW ms, fs = script', ms = lcs',
           ScriptLength(fs) = c.from + Opt(r), Reached(fs, ms, r.aEnd, r.bEnd)
    PROVE  HalvesInv'
  <1>1. /\ s = calls /\ s \in Seq(Frames) /\ s # <<>> /\ Chained(s) /\ Stack(s, Whole)
        /\ c = Head(s) /\ r = c.region /\ Opt(c.region) \in Nat
    BY DEF Faces
  <1>2. ScriptLength(fs) = c.from + Opt(c.region) /\ Reached(fs, ms, c.region.aEnd, c.region.bEnd)
    BY <1>1
  <1>3. PICK t : t = Tail(s)
    OBVIOUS
  <1>4. Progress(t, fs, ms)
    BY <1>1, <1>2, <1>3, ProgressPop
  <1>5. t = calls'
    BY <1>1, <1>3 DEF Return
  <1> QED
    BY <1>4, <1>5, NextHalves

LEMMA OneSidedHalves ==
    ASSUME HalvesInv, OneSided
    PROVE  HalvesInv'
  <1>1. IInv'
    BY OneSidedKeeps DEF HalvesInv
  <1>2. /\ At("begin") /\ Return /\ SameInput /\ lcs' = lcs
    BY DEF OneSided, SameInput
  <1>3. PICK s, es, ls, c, r : Faces(s, es, ls, c, r, "begin")
    BY <1>2, NowFaces
  <1>4. /\ es = script /\ ls = lcs /\ r = Here /\ r \in Regions /\ N(r) \in Nat /\ M(r) \in Nat
        /\ es \in Scripts /\ ls \in Seq(Points) /\ InputType
    BY <1>3 DEF Faces
  <1>5. ScriptLength(es) = c.from /\ c.from \in Nat /\ Reached(es, ls, r.a, r.b)
    BY <1>3, NothingAdded
  <1>6. PICK from \in Nat : from = c.from
    BY <1>5
  <1>7. PICK deleted : deleted = Delete(es, r.a, r.aEnd)
    OBVIOUS
  <1>8. PICK t : t = IF M(r) > 0 THEN Insert(deleted, r.aEnd - 1, r.b, r.bEnd) ELSE deleted
    OBVIOUS
  <1>9. t = script' /\ (N(r) = 0 \/ M(r) = 0)
    BY <1>4, <1>7, <1>8 DEF OneSided
  <1>10. Reached(t, ls, r.aEnd, r.bEnd) /\ ScriptLength(t) = from + Opt(r)
    BY <1>4, <1>5, <1>6, <1>7, <1>8, <1>9, OneSidedReached
  <1>11. ScriptLength(t) = c.from + Opt(r) /\ ls = lcs'
    BY <1>2, <1>4, <1>6, <1>10
  <1> QED
    BY <1>1, <1>2, <1>3, <1>9, <1>10, <1>11, ReturnHalves

LEMMA NoEditHalves ==
    ASSUME HalvesInv, NoEdit
    PROVE  HalvesInv'
  <1>1. IInv'
    BY NoEditKeeps DEF HalvesInv
  <1>2. /\ At("found") /\ Return /\ SameInput /\ script' = script /\ Current.length = 0
        /\ lcs' = lcs \o Trace(Current.snake)
    BY DEF NoEdit, SameInput
  <1>3. PICK s, es, ls, c, r : Faces(s, es, ls, c, r, "found")
    BY <1>2, NowFaces
  <1>4. /\ es = script /\ ls = lcs /\ r = Here /\ r \in Regions /\ r.a <= r.aEnd /\ r.b <= r.bEnd
        /\ es \in Scripts /\ ls \in Seq(Points) /\ InputType /\ c = Current /\ r = c.region
        /\ c.at = "found" /\ HasFound(c) /\ FoundRight(c) /\ c \in Frames
    BY <1>3 DEF Faces
  <1>5. ScriptLength(es) = c.from /\ c.from \in Nat /\ Reached(es, ls, r.a, r.b)
    BY <1>3, NothingAdded
  <1>6. PICK snake \in Snakes : snake = c.snake /\ FitsIn(r, snake) /\ Splits(r, snake, 0)
    <2>1. FitsIn(r, c.snake) /\ Splits(r, c.snake, c.length)
      BY <1>4 DEF HasFound, FoundRight
    <2> QED
      BY <1>2, <1>4, <2>1 DEF Frames
  <1>7. PICK ms : ms = ls \o Trace(snake)
    OBVIOUS
  <1>8. Reached(es, ms, r.aEnd, r.bEnd)
    BY <1>4, <1>5, <1>6, <1>7, NoEditReached
  <1>9. ScriptLength(es) = c.from + Opt(r)
    <2>1. Opt(r) = 0
      BY <1>6 DEF Splits
    <2> QED
      BY <1>5, <2>1
  <1>10. ms = lcs' /\ es = script'
    BY <1>2, <1>4, <1>6, <1>7
  <1> QED
    BY <1>1, <1>2, <1>3, <1>8, <1>9, <1>10, ReturnHalves

LEMMA OneEditHalves ==
    ASSUME HalvesInv, OneEdit
    PROVE  HalvesInv'
  <1>1. IInv'
    BY OneEditKeeps DEF HalvesInv
  <1>2. /\ At("found") /\ Return /\ SameInput /\ lcs' = lcs /\ Current.length = 1
    BY DEF OneEdit, SameInput
  <1>3. PICK s, es, ls, c, r : Faces(s, es, ls, c, r, "found")
    BY <1>2, NowFaces
  <1>4. /\ es = script /\ ls = lcs /\ r = Here /\ r \in Regions /\ r.a <= r.aEnd /\ r.b <= r.bEnd
        /\ es \in Scripts /\ ls \in Seq(Points) /\ InputType /\ c = Current /\ r = c.region
        /\ c.at = "found" /\ HasFound(c) /\ FoundRight(c) /\ c \in Frames
        /\ N(r) \in Nat /\ M(r) \in Nat
    BY <1>3 DEF Faces
  <1>5. ScriptLength(es) = c.from /\ c.from \in Nat /\ Reached(es, ls, r.a, r.b)
    BY <1>3, NothingAdded
  <1>6. PICK snake \in Snakes : snake = c.snake /\ FitsIn(r, snake) /\ Splits(r, snake, 1)
    <2>1. FitsIn(r, c.snake) /\ Splits(r, c.snake, c.length)
      BY <1>4 DEF HasFound, FoundRight
    <2> QED
      BY <1>2, <1>4, <2>1 DEF Frames
  <1>7. PICK from \in Nat : from = c.from /\ ScriptLength(es) = from
    BY <1>5
  <1>8. PICK t : t = IF snake.begin[1] = snake.middle[1]
                     THEN Insert(es, snake.middle[1], snake.middle[2], snake.middle[2] + 1)
                     ELSE LET z == IF snake.forward THEN snake.middle[1] ELSE snake.begin[1] IN
                          Delete(es, z, z + 1)
    OBVIOUS
  <1>9. t = script'
    <2>1. snake = Current.snake
      BY <1>4, <1>6
    <2> QED
      BY <1>4, <1>8, <2>1, Zenon DEF OneEdit
  <1>10. Reached(t, ls, r.aEnd, r.bEnd) /\ ScriptLength(t) = from + 1
    BY <1>4, <1>5, <1>6, <1>7, <1>8, OneEditReached
  <1>11. ScriptLength(t) = c.from + Opt(r) /\ ls = lcs'
    <2>1. Opt(r) = 1
      BY <1>6 DEF Splits
    <2> QED
      BY <1>2, <1>4, <1>7, <1>10, <2>1
  <1> QED
    BY <1>1, <1>2, <1>3, <1>9, <1>10, <1>11, ReturnHalves

LEMMA JoinedHalves ==
    ASSUME HalvesInv, Joined
    PROVE  HalvesInv'
  <1>1. IInv'
    BY JoinedKeeps DEF HalvesInv
  <1>2. /\ At("after") /\ Return /\ SameInput /\ script' = script /\ lcs' = lcs
    BY DEF Joined, SameInput
  <1>3. PICK s, es, ls, c, r : Faces(s, es, ls, c, r, "after")
    BY <1>2, NowFaces
  <1>4. /\ es = script /\ ls = lcs /\ r = c.region /\ c.at = "after"
        /\ ScriptLength(es) = c.from + Added(c) /\ Reached(es, ls, AheadTo(c), DownTo(c))
    BY <1>3 DEF Faces
  <1>5. Added(c) = Opt(r) /\ AheadTo(c) = r.aEnd /\ DownTo(c) = r.bEnd
    BY <1>4 DEF Added, AheadTo, DownTo
  <1>6. ScriptLength(es) = c.from + Opt(r) /\ Reached(es, ls, r.aEnd, r.bEnd)
    BY <1>4, <1>5
  <1>7. es = script' /\ ls = lcs'
    BY <1>2, <1>4
  <1> QED
    BY <1>1, <1>2, <1>3, <1>6, <1>7, ReturnHalves

(* The innermost call goes on with its own region.                          *)
LEMMA PutHalves ==
    ASSUME IInv', SameInput, script' = script, lcs' = lcs,
           NEW s, NEW es, NEW ls, NEW c, NEW r, NEW place, Faces(s, es, ls, c, r, place),
           place \in {"begin", "search", "found"},
           NEW x \in Frames, Starting(x), x.region = c.region, x.from = c.from, FoundRight(x),
           calls' = <<x>> \o Tail(calls)
    PROVE  HalvesInv'
  <1>1. /\ s = calls /\ s \in Seq(Frames) /\ s # <<>> /\ c = Head(s) /\ es = script /\ ls = lcs
        /\ Progress(s, es, ls)
    BY DEF Faces
  <1>2. Starting(Head(s)) /\ x.region = Head(s).region /\ x.from = Head(s).from
    BY <1>1, NothingAdded
  <1>3. PICK t : t = <<x>> \o Tail(s)
    OBVIOUS
  <1>4. Progress(t, es, ls)
    BY <1>1, <1>2, <1>3, ProgressPut
  <1>5. t = calls' /\ es = script' /\ ls = lcs'
    BY <1>1, <1>3
  <1> QED
    BY <1>4, <1>5, NextHalves

LEMMA StartSearchHalves ==
    ASSUME HalvesInv, StartSearch
    PROVE  HalvesInv'
  <1>1. IInv'
    BY StartSearchKeeps DEF HalvesInv
  <1>2. /\ At("begin") /\ GoOn("search") /\ SameInput /\ script' = script /\ lcs' = lcs
    BY DEF StartSearch, SameInput
  <1>3. PICK s, es, ls, c, r : Faces(s, es, ls, c, r, "begin")
    BY <1>2, NowFaces
  <1>4. c \in Frames /\ c = Current
    BY <1>3 DEF Faces
  <1>5. PICK x : x = [c EXCEPT !.at = "search"]
    OBVIOUS
  <1>6. x \in Frames /\ x.region = c.region /\ x.from = c.from /\ x.at = "search"
    BY <1>4, <1>5 DEF Frames, Places
  <1>7. Starting(x) /\ FoundRight(x)
    BY <1>6 DEF Starting, FoundRight
  <1>8. calls' = <<x>> \o Tail(calls)
    BY <1>2, <1>4, <1>5 DEF GoOn
  <1> QED
    BY <1>1, <1>2, <1>3, <1>6, <1>7, <1>8, PutHalves

(* A middle snake was found, or the search goes on.                         *)
LEMMA FoundHalves ==
    ASSUME IInv', SameInput, script' = script, lcs' = lcs,
           NEW s, NEW es, NEW ls, NEW c, NEW r, Faces(s, es, ls, c, r, "search"),
           NEW snake, NEW t, t = Shifted(r, snake), t \in Snakes,
           NEW length \in Nat, Found(snake, length), Splits(r, t, length)
    PROVE  HalvesInv'
  <1>1. c \in Frames /\ c = Current /\ r = Here /\ r = c.region
    BY DEF Faces
  <1>2. PICK x : x = [c EXCEPT !.at = "found", !.snake = t, !.length = length]
    OBVIOUS
  <1>3. /\ x \in Frames /\ x.region = r /\ x.from = c.from /\ x.at = "found" /\ x.snake = t
        /\ x.length = length
    BY <1>1, <1>2 DEF Frames, Places
  <1>4. Starting(x) /\ FoundRight(x)
    BY <1>3 DEF Starting, FoundRight
  <1>5. calls' = <<x>> \o Tail(calls)
    BY <1>1, <1>2 DEF Found
  <1> QED
    BY <1>1, <1>3, <1>4, <1>5, PutHalves

LEMMA SameCallsHalves ==
    ASSUME HalvesInv, IInv', SameInput, calls' = calls, script' = script, lcs' = lcs
    PROVE  HalvesInv'
  <1>1. PICK s, es, ls : s = calls /\ es = script /\ ls = lcs
    OBVIOUS
  <1>2. Progress(s, es, ls)
    BY <1>1 DEF HalvesInv
  <1>3. s = calls' /\ es = script' /\ ls = lcs'
    BY <1>1
  <1> QED
    BY <1>2, <1>3, NextHalves

LEMMA ExtendAheadHalves ==
    ASSUME HalvesInv, ExtendAhead
    PROVE  HalvesInv'
  <1>0. IInv /\ IInv'
    BY ExtendAheadKeeps DEF HalvesInv
  <1>1. At("search") /\ search.ahead /\ SameInput /\ script' = script /\ lcs' = lcs
    BY DEF ExtendAhead, SameInput
  <1>2. PICK r \in Regions :
             /\ r = Here /\ N(r) \in Nat \ {0} /\ M(r) \in Nat \ {0}
             /\ SearchType(r, search) /\ Searching(There(r), Back(r), r, search)
             /\ IsEdits(There(r), FromStart(r), N(r), M(r))
             /\ IsEdits(Back(r), FromEnd(r), N(r), M(r))
    BY <1>0, <1>1, SearchHere
  <1>3. PICK s : s = search
    OBVIOUS
  <1>4. Searching(There(r), Back(r), r, s) /\ s.ahead /\ s.d \in Nat
    BY <1>1, <1>2, <1>3 DEF SearchType
  <1>5. PICK snake : snake = SnakeAhead(r, s.forward, s.d, s.k)
    OBVIOUS
  <1>6. IF AheadFound(r, s, snake)
        THEN Found(snake, 2 * s.d - 1)
        ELSE /\ search' = NextDiagonal([s EXCEPT !.forward[s.k] = snake.end[1]])
             /\ calls' = calls
    BY <1>2, <1>3, <1>5, Zenon DEF ExtendAhead, AheadFound
  <1>7. CASE AheadFound(r, s, snake)
    <2>1. InGraph(r, snake)
      BY <1>7 DEF AheadFound
    <2>2. PICK t : t = Shifted(r, snake)
      OBVIOUS
    <2>3. t \in Snakes
      <3>1. PICK E, B : E = There(r) /\ B = Back(r)
        OBVIOUS
      <3>2. IsEdits(E, FromStart(r), N(r), M(r)) /\ Searching(E, B, r, s)
        BY <1>2, <1>4, <3>1
      <3> QED
        BY <1>2, <1>4, <1>5, <2>1, <2>2, <3>2, AheadFits
    <2>4. PICK length : length = 2 * s.d - 1
      OBVIOUS
    <2>5. Splits(r, t, length)
      BY <1>2, <1>4, <1>5, <1>7, <2>2, <2>4, AheadHalves
    <2>6. length \in Nat
      <3>1. length = Opt(r)
        BY <2>5 DEF Splits
      <3> QED
        BY <1>2, <3>1, OptIs
    <2>7. Found(snake, length)
      BY <1>6, <1>7, <2>4
    <2>8. PICK u, es, ls, c, q : Faces(u, es, ls, c, q, "search")
      BY <1>1, NowFaces
    <2>9. q = r
      BY <1>2, <2>8 DEF Faces
    <2>10. Faces(u, es, ls, c, r, "search")
      BY <2>8, <2>9
    <2> QED
      BY <1>0, <1>1, <2>2, <2>3, <2>5, <2>6, <2>7, <2>10, FoundHalves
  <1>8. CASE ~AheadFound(r, s, snake)
    <2>1. calls' = calls
      BY <1>6, <1>8
    <2> QED
      BY <1>0, <1>1, <2>1, SameCallsHalves
  <1> QED
    BY <1>7, <1>8

LEMMA ExtendBackHalves ==
    ASSUME HalvesInv, ExtendBack
    PROVE  HalvesInv'
  <1>0. IInv /\ IInv'
    BY ExtendBackKeeps DEF HalvesInv
  <1>1. At("search") /\ ~search.ahead /\ SameInput /\ script' = script /\ lcs' = lcs
    BY DEF ExtendBack, SameInput
  <1>2. PICK r \in Regions :
             /\ r = Here /\ N(r) \in Nat \ {0} /\ M(r) \in Nat \ {0}
             /\ SearchType(r, search) /\ Searching(There(r), Back(r), r, search)
             /\ IsEdits(There(r), FromStart(r), N(r), M(r))
             /\ IsEdits(Back(r), FromEnd(r), N(r), M(r))
    BY <1>0, <1>1, SearchHere
  <1>3. PICK s : s = search
    OBVIOUS
  <1>4. Searching(There(r), Back(r), r, s) /\ ~s.ahead /\ s.d \in Nat /\ s.k \in Int
    BY <1>1, <1>2, <1>3 DEF SearchType
  <1>k. PICK k \in Int : k = s.k + Delta(r)
    BY <1>2, <1>4 DEF Delta
  <1>5. PICK snake : snake = SnakeBack(r, s.reverse, s.d, k)
    OBVIOUS
  <1>6. IF BackFound(r, s, snake)
        THEN Found(snake, 2 * s.d)
        ELSE /\ search' = NextDiagonal([s EXCEPT !.reverse[k] = snake.end[1]])
             /\ calls' = calls
    BY <1>2, <1>3, <1>5, <1>k, Zenon DEF ExtendBack, BackFound
  <1>7. CASE BackFound(r, s, snake)
    <2>1. InGraph(r, snake)
      BY <1>7 DEF BackFound
    <2>2. PICK t : t = Shifted(r, snake)
      OBVIOUS
    <2>3. t \in Snakes
      <3>1. PICK E, B : E = There(r) /\ B = Back(r)
        OBVIOUS
      <3>2. /\ IsEdits(E, FromStart(r), N(r), M(r)) /\ Searching(E, B, r, s)
            /\ IsEdits(B, FromEnd(r), N(r), M(r))
        BY <1>2, <1>4, <3>1
      <3> QED
        BY <1>2, <1>4, <1>5, <1>k, <2>1, <2>2, <3>2, BackFits
    <2>4. PICK length : length = 2 * s.d
      OBVIOUS
    <2>5. Splits(r, t, length)
      BY <1>2, <1>4, <1>5, <1>k, <1>7, <2>2, <2>4, BackHalves
    <2>6. length \in Nat
      BY <1>4, <2>4
    <2>7. Found(snake, length)
      BY <1>6, <1>7, <2>4
    <2>8. PICK u, es, ls, c, q : Faces(u, es, ls, c, q, "search")
      BY <1>1, NowFaces
    <2>9. q = r
      BY <1>2, <2>8 DEF Faces
    <2>10. Faces(u, es, ls, c, r, "search")
      BY <2>8, <2>9
    <2> QED
      BY <1>0, <1>1, <2>2, <2>3, <2>5, <2>6, <2>7, <2>10, FoundHalves
  <1>8. CASE ~BackFound(r, s, snake)
    <2>1. calls' = calls
      BY <1>6, <1>8
    <2> QED
      BY <1>0, <1>1, <2>1, SameCallsHalves
  <1> QED
    BY <1>7, <1>8

(* A call for a half of the region.                                         *)
LEMMA CallHalves ==
    ASSUME IInv', SameInput, script' = script,
           NEW s, NEW es, NEW ls, NEW c, NEW r, NEW place, Faces(s, es, ls, c, r, place),
           NEW next \in {"before", "after"}, FitsIn(r, c.snake), Splits(r, c.snake, c.length),
           NEW half \in Regions, CallFrom(next, half),
           next = "before" => half = FirstPart(r, c.snake) /\ ScriptLength(es) = c.from,
           next = "after" => /\ half = LastPart(r, c.snake)
                             /\ ScriptLength(es) = c.from + Opt(FirstPart(r, c.snake)),
           NEW ms, ms = lcs', Reached(es, ms, half.a, half.b)
    PROVE  HalvesInv'
  <1>1. /\ s = calls /\ s \in Seq(Frames) /\ s # <<>> /\ Chained(s) /\ c = Head(s) /\ c = Current
        /\ es = script /\ es \in Scripts /\ c \in Frames /\ r = c.region
    BY DEF Faces
  <1>2. PICK x : x = [c EXCEPT !.at = next]
    OBVIOUS
  <1>3. /\ x \in Frames /\ x.region = r /\ x.from = c.from /\ x.at = next /\ x.snake = c.snake
        /\ x.length = c.length
    BY <1>1, <1>2 DEF Frames, Places
  <1>4. FoundRight(x)
    BY <1>3 DEF FoundRight
  <1>5. PICK y \in Frames : /\ y = Call(half) /\ y.region = half /\ y.at = "begin"
                            /\ y.from = ScriptLength(es) /\ y.from \in Nat
    <2>1. Call(half) \in Frames /\ Call(half).region = half /\ Call(half).at = "begin"
      BY <1>1, CallType
    <2>2. Call(half).from = ScriptLength(script)
      BY DEF Call
    <2> QED
      BY <1>1, <2>1, <2>2, LengthOfScript
  <1>6. Starting(y) /\ FoundRight(y)
    BY <1>5 DEF Starting, FoundRight
  <1>7. Follows(y, x)
    <2>1. CASE next = "before"
      BY <1>3, <1>5, <2>1 DEF Follows, FirstHalf
    <2>2. CASE next = "after"
      BY <1>3, <1>5, <2>2 DEF Follows, FirstHalf, LastHalf
    <2> QED
      BY <2>1, <2>2
  <1>8. PICK t : t = <<y, x>> \o Tail(s)
    OBVIOUS
  <1>9. x.region = Head(s).region /\ x.from = Head(s).from /\ ScriptLength(es) = y.from
        /\ Reached(es, ms, y.region.a, y.region.b)
    BY <1>1, <1>3, <1>5
  <1>10. Progress(t, es, ms)
    BY <1>1, <1>3, <1>4, <1>5, <1>6, <1>7, <1>8, <1>9, ProgressPush
  <1>11. t = calls' /\ es = script' /\ ms = lcs'
    BY <1>1, <1>2, <1>5, <1>8 DEF CallFrom
  <1> QED
    BY <1>10, <1>11, NextHalves

LEMMA BeforeHalves ==
    ASSUME HalvesInv, Before
    PROVE  HalvesInv'
  <1>1. IInv'
    BY BeforeKeeps DEF HalvesInv
  <1>2. /\ At("found") /\ SameInput /\ script' = script /\ lcs' = lcs
    BY DEF Before, SameInput
  <1>3. PICK s, es, ls, c, r : Faces(s, es, ls, c, r, "found")
    BY <1>2, NowFaces
  <1>4. /\ ls = lcs /\ r = Here /\ r \in Regions /\ r.a <= r.aEnd /\ r.b <= r.bEnd
        /\ c = Current /\ r = c.region
        /\ c.at = "found" /\ HasFound(c) /\ FoundRight(c) /\ c \in Frames
    BY <1>3 DEF Faces
  <1>5. ScriptLength(es) = c.from /\ Reached(es, ls, r.a, r.b)
    BY <1>3, NothingAdded
  <1>6. FitsIn(r, c.snake) /\ Splits(r, c.snake, c.length) /\ c.snake \in Snakes
    BY <1>4 DEF HasFound, FoundRight, Frames
  <1>7. PICK half \in Regions : half = FirstPart(r, c.snake) /\ half.a = r.a /\ half.b = r.b
    BY <1>4, <1>6, PartRegions
  <1>8. PICK next \in {"before", "after"} : next = "before"
    OBVIOUS
  <1>9. CallFrom(next, half)
    BY <1>4, <1>7, <1>8 DEF Before, FirstPart
  <1>10. Reached(es, ls, half.a, half.b) /\ ls = lcs'
    BY <1>2, <1>4, <1>5, <1>7
  <1>11. /\ next = "before" => half = FirstPart(r, c.snake) /\ ScriptLength(es) = c.from
         /\ next = "after" => /\ half = LastPart(r, c.snake)
                              /\ ScriptLength(es) = c.from + Opt(FirstPart(r, c.snake))
    BY <1>5, <1>7, <1>8
  <1> QED
    BY <1>1, <1>2, <1>3, <1>6, <1>9, <1>10, <1>11, CallHalves

LEMMA AfterHalves ==
    ASSUME HalvesInv, After
    PROVE  HalvesInv'
  <1>1. IInv'
    BY AfterKeeps DEF HalvesInv
  <1>2. /\ At("before") /\ SameInput /\ script' = script /\ lcs' = lcs \o Trace(Current.snake)
    BY DEF After, SameInput
  <1>3. PICK s, es, ls, c, r : Faces(s, es, ls, c, r, "before")
    BY <1>2, NowFaces
  <1>4. /\ ls = lcs /\ r = Here /\ r \in Regions /\ r.a <= r.aEnd /\ r.b <= r.bEnd
        /\ c = Current /\ r = c.region /\ InputType /\ es \in Scripts /\ ls \in Seq(Points)
        /\ c.at = "before" /\ HasFound(c) /\ FoundRight(c) /\ c \in Frames
        /\ ScriptLength(es) = c.from + Added(c) /\ Reached(es, ls, AheadTo(c), DownTo(c))
    BY <1>3 DEF Faces
  <1>5. PICK snake \in Snakes : snake = c.snake /\ FitsIn(r, snake) /\ Splits(r, snake, c.length)
    BY <1>4 DEF HasFound, FoundRight, Frames
  <1>6. PICK f : f = FirstPart(r, snake)
    OBVIOUS
  <1>7. /\ Added(c) = Opt(f) /\ AheadTo(c) = f.aEnd /\ DownTo(c) = f.bEnd
    BY <1>4, <1>5, <1>6 DEF Added, AheadTo, DownTo, FirstHalf
  <1>8. PICK half \in Regions : half = LastPart(r, snake)
    BY <1>4, <1>5, PartRegions
  <1>9. PICK e \in Nat : SnakeMatches(snake, e)
    BY <1>5 DEF Splits
  <1>10. PICK ms : ms = ls \o Trace(snake)
    OBVIOUS
  <1>11. Reached(es, ms, half.a, half.b)
    <2>1. Reached(es, ls, f.aEnd, f.bEnd)
      BY <1>4, <1>7
    <2> QED
      BY <1>4, <1>5, <1>6, <1>8, <1>9, <1>10, <2>1, SnakeFollows
  <1>12. ms = lcs'
    BY <1>2, <1>4, <1>5, <1>10
  <1>13. PICK next \in {"before", "after"} : next = "after"
    OBVIOUS
  <1>14. CallFrom(next, half)
    BY <1>4, <1>5, <1>8, <1>13 DEF After, LastPart
  <1>15. FitsIn(r, c.snake) /\ Splits(r, c.snake, c.length)
    BY <1>5
  <1>16. /\ next = "before" => half = FirstPart(r, c.snake) /\ ScriptLength(es) = c.from
         /\ next = "after" => /\ half = LastPart(r, c.snake)
                              /\ ScriptLength(es) = c.from + Opt(FirstPart(r, c.snake))
    BY <1>4, <1>5, <1>6, <1>7, <1>8, <1>13
  <1> QED
    BY <1>1, <1>2, <1>3, <1>11, <1>12, <1>14, <1>15, <1>16, CallHalves

LEMMA StutterHalves ==
    ASSUME HalvesInv, UNCHANGED vars
    PROVE  HalvesInv'
  <1>1. IInv'
    BY StutterKeeps DEF HalvesInv
  <1>2. SameInput /\ calls' = calls /\ script' = script /\ lcs' = lcs
    BY DEF vars, SameInput
  <1> QED
    BY <1>1, <1>2, SameCallsHalves

(* Before the first step nothing is done.                                   *)
LEMMA NothingReached ==
    ASSUME NEW es, es = EmptyScript, NEW ls, ls = <<>>
    PROVE  es \in Scripts /\ Reached(es, ls, 0, 0) /\ ScriptLength(es) = 0
  <1>1. PICK no : no = <<>>
    OBVIOUS
  <1>2. \A T : no \in Seq(T) /\ Len(no) = 0
    BY <1>1, EmptySeq
  <1>3. es.deletions = no /\ es.insertions = no
    BY <1>1 DEF EmptyScript
  <1>4. es \in Scripts
    BY <1>1, <1>2 DEF EmptyScript, Scripts
  <1>5. InsertedIndexes(es) = no /\ Len(InsertedIndexes(es)) = 0
    <2>1. PICK q : q = [e \in DOMAIN es.insertions |-> es.insertions[e].inserted]
      OBVIOUS
    <2>2. q = no
      BY <1>1, <1>3, <2>1
    <2>3. no \in Seq(Seq(Int)) /\ AllEmpty(no)
      BY <1>2 DEF AllEmpty
    <2>4. FlattenSeq(no) = <<>>
      BY <2>3, FlattenEmpty
    <2>5. InsertedIndexes(es) = FlattenSeq(q)
      BY <2>1 DEF InsertedIndexes
    <2> QED
      BY <1>1, <1>2, <2>2, <2>4, <2>5
  <1>6. Len(es.deletions) = 0 /\ Len(es.insertions) = 0
    BY <1>2, <1>3
  <1>7. ScriptLength(es) = 0
    BY <1>5, <1>6 DEF ScriptLength
  <1>8. EditedTo(es, 0) = no
    <2>1. NewAt(es, -1) = no
      <3>1. /\ NewParts(es, -1) \in Seq(Seq(Items)) /\ Len(NewParts(es, -1)) = 0
            /\ NewAt(es, -1) = FlattenSeq(NewParts(es, -1))
        BY <1>4, <1>6, NewPartsAre
      <3>2. AllEmpty(NewParts(es, -1))
        BY <3>1 DEF AllEmpty
      <3> QED
        BY <1>1, <3>1, <3>2, FlattenEmpty
    <2>2. KeptAt(es, -1) = no
      BY <1>1 DEF KeptAt
    <2>3. Piece(es, -1) = no
      <3>1. no \o no = no
        BY <1>1, <1>2, ConcatProperties
      <3> QED
        BY <2>1, <2>2, <3>1 DEF Piece
    <2>4. /\ Pieces(es, 1) \in Seq(Seq(Items)) /\ Len(Pieces(es, 1)) = 1
          /\ \A i \in 1 .. 1 : Pieces(es, 1)[i] = Piece(es, i - 2)
      BY <1>4, PiecesAre
    <2>5. AllEmpty(Pieces(es, 1))
      BY <1>1, <2>3, <2>4 DEF AllEmpty
    <2>6. FlattenSeq(Pieces(es, 1)) = no
      BY <1>1, <2>4, <2>5, FlattenEmpty
    <2>7. 0 + 1 = 1
      OBVIOUS
    <2> QED
      BY <2>6, <2>7 DEF EditedTo
  <1>9. Done(es, match, 0, 0)
    BY <1>2, <1>6, <1>8 DEF Done, DeletedBefore, InsertedBefore, RightFrom
  <1>10. Len(ls) = 0
    BY <1>1, <1>2
  <1>11. LcsUpTo(ls, es, match, 0, 0)
    BY <1>5, <1>6, <1>10 DEF LcsUpTo, InLcs, Ordered, IndexesBefore, Spares
  <1> QED
    BY <1>4, <1>7, <1>9, <1>11 DEF Reached

LEMMA InitHalves ==
    ASSUME Init
    PROVE  HalvesInv
  <1>1. IInv
    BY InitKeeps
  <1>2. ASSUME NEW s, NEW es, NEW ls, s = calls /\ es = script /\ ls = lcs
        PROVE  Progress(s, es, ls)
    <2>1. es = EmptyScript /\ ls = <<>>
      BY <1>2 DEF Init
    <2>2. Reached(es, ls, 0, 0) /\ ScriptLength(es) = 0
      BY <2>1, NothingReached
    <2>3. PICK c : c = [region |-> Region(0, aSize, 0, bSize), from |-> 0, at |-> "begin",
                        snake |-> NoSnake, length |-> 0]
      OBVIOUS
    <2>4. s = <<c>>
      BY <1>2, <2>3 DEF Init
    <2>5. s # <<>> /\ Head(s) = c /\ Len(s) = 1 /\ s[1] = c
      BY <2>4
    <2>6. c.from = 0 /\ c.region = Whole /\ c.at = "begin" /\ c.region.a = 0 /\ c.region.b = 0
      BY <2>3 DEF Whole, Region
    <2>7. FoundRight(c)
      BY <2>6 DEF FoundRight
    <2>8. Chained(s)
      <3>1. \A i \in 1 .. Len(s) : FoundRight(s[i])
        BY <2>5, <2>7
      <3>2. \A i \in 2 .. Len(s) : FALSE
        BY <2>5
      <3> QED
        BY <2>5, <2>6, <3>1, <3>2 DEF Chained
    <2>9. Added(c) = 0 /\ AheadTo(c) = 0 /\ DownTo(c) = 0
      BY <2>6 DEF Added, AheadTo, DownTo
    <2>10. ScriptLength(es) = c.from + Added(c) /\ Reached(es, ls, AheadTo(c), DownTo(c))
      BY <2>2, <2>6, <2>9
    <2> QED
      BY <2>5, <2>8, <2>10 DEF Progress
  <1> QED
    BY <1>1, <1>2 DEF HalvesInv

LEMMA NextKeepsHalves ==
    ASSUME HalvesInv, [Next]_vars
    PROVE  HalvesInv'
  <1>1. CASE OneSided
    BY <1>1, OneSidedHalves
  <1>2. CASE StartSearch
    BY <1>2, StartSearchHalves
  <1>3. CASE ExtendAhead
    BY <1>3, ExtendAheadHalves
  <1>4. CASE ExtendBack
    BY <1>4, ExtendBackHalves
  <1>5. CASE NoEdit
    BY <1>5, NoEditHalves
  <1>6. CASE OneEdit
    BY <1>6, OneEditHalves
  <1>7. CASE Before
    BY <1>7, BeforeHalves
  <1>8. CASE After
    BY <1>8, AfterHalves
  <1>9. CASE Joined
    BY <1>9, JoinedHalves
  <1>10. CASE UNCHANGED vars
    BY <1>10, StutterHalves
  <1> QED
    BY <1>1, <1>2, <1>3, <1>4, <1>5, <1>6, <1>7, <1>8, <1>9, <1>10 DEF Next

-----------------------------------------------------------------------------
(* What follows.                                                            *)
LEMMA HalvesLengths ==
    ASSUME HalvesInv
    PROVE  LengthsAgree
  <1> SUFFICES ASSUME At("after")
               PROVE  ScriptLength(script) - Current.from = Current.length
    BY DEF LengthsAgree
  <1>1. PICK s, es, ls, c, r : Faces(s, es, ls, c, r, "after")
    BY NowFaces
  <1>2. /\ es = script /\ c = Current /\ c.at = "after" /\ r = c.region /\ FoundRight(c)
        /\ ScriptLength(es) = c.from + Added(c) /\ c \in Frames
    BY <1>1 DEF Faces
  <1>3. Added(c) = c.length
    BY <1>2 DEF Added, FoundRight, Splits
  <1>4. PICK u \in Nat, v \in Nat : u = c.from /\ v = c.length
    BY <1>2 DEF Frames
  <1>5. (u + v) - u = v
    OBVIOUS
  <1>6. ScriptLength(script) = u + v /\ Current.from = u /\ Current.length = v
    BY <1>2, <1>3, <1>4
  <1> QED
    BY <1>5, <1>6

LEMMA LcsNow ==
    ASSUME HalvesInv
    PROVE  \E es, ls, a, b : es = script /\ ls = lcs /\ Reached(es, ls, a, b)
  <1>1. PICK s, es, ls : s = calls /\ es = script /\ ls = lcs
    OBVIOUS
  <1>2. Progress(s, es, ls)
    BY <1>1 DEF HalvesInv
  <1>3. \E a, b : Reached(es, ls, a, b)
    BY <1>2 DEF Progress
  <1> QED
    BY <1>1, <1>3

LEMMA HalvesLcs ==
    ASSUME HalvesInv
    PROVE  LcsIsKept
  <1>1. PICK es, ls, a, b : es = script /\ ls = lcs /\ Reached(es, ls, a, b)
    BY LcsNow
  <1>2. es \in Scripts /\ ls \in Seq(Points) /\ LcsUpTo(ls, es, match, a, b)
    BY <1>1 DEF HalvesInv, IInv, DataType, Reached
  <1>3. PICK p \in Seq(Int), q \in Seq(Int) : p = es.deletions /\ q = InsertedIndexes(es)
    BY <1>2, IndexesType
  <1>4. DOMAIN ls = 1 .. Len(ls) /\ DOMAIN p = 1 .. Len(p) /\ DOMAIN q = 1 .. Len(q)
    BY <1>2, <1>3, LenProperties
  <1>5. ToSet(ls) \subseteq match
    BY <1>2, <1>4 DEF ToSet, LcsUpTo, InLcs
  <1>6. \A i, j \in DOMAIN ls : i < j => ls[i][1] < ls[j][1] /\ ls[i][2] < ls[j][2]
    BY <1>2, <1>4 DEF LcsUpTo, Ordered
  <1>7. ToSet(p) \cap {x[1] : x \in ToSet(ls)} = {}
    <2>1. Spares(ls, p, 1)
      BY <1>2, <1>3 DEF LcsUpTo
    <2> QED
      BY <1>4, <2>1 DEF ToSet, Spares
  <1>8. ToSet(q) \cap {x[2] : x \in ToSet(ls)} = {}
    <2>1. Spares(ls, q, 2)
      BY <1>2, <1>3 DEF LcsUpTo
    <2> QED
      BY <1>4, <2>1 DEF ToSet, Spares
  <1> QED
    BY <1>1, <1>3, <1>5, <1>6, <1>7, <1>8 DEF LcsIsKept

(* The halves of every region fit together, whatever the sizes of the two    *)
(* sequences and whichever of their elements match: what the two calls for    *)
(* a region add is as long as what compute_diff expects from the middle      *)
(* snake, and the points in lcs stay points the script keeps, in order.       *)
THEOREM HalvesAlwaysFit == Spec => []HalvesFit
  <1>1. Init => HalvesInv
    BY InitHalves
  <1>2. HalvesInv /\ [Next]_vars => HalvesInv'
    BY NextKeepsHalves
  <1>3. HalvesInv => HalvesFit
    BY HalvesLengths, HalvesLcs DEF HalvesFit
  <1> QED
    BY <1>1, <1>2, <1>3, PTL DEF Spec

-----------------------------------------------------------------------------
(* What the caller gets.                                                    *)
LEMMA WholeIs ==
    ASSUME DataType
    PROVE  /\ aSize \in Nat /\ bSize \in Nat /\ N(Whole) = aSize /\ M(Whole) = bSize
           /\ FromStart(Whole) = match
  <1>1. PICK n \in Nat, m \in Nat : n = aSize /\ m = bSize
    BY SizesAssumption DEF DataType
  <1>2. N(Whole) = n - 0 /\ M(Whole) = m - 0 /\ Whole.a = 0 /\ Whole.b = 0
    BY <1>1 DEF Whole, Region, N, M
  <1>3. N(Whole) = n /\ M(Whole) = m
    BY <1>2
  <1>4. match \subseteq Indexes(n) \X Indexes(m)
    BY <1>1 DEF DataType
  <1>5. ASSUME NEW p \in Indexes(n) \X Indexes(m)
        PROVE  EqualAt(Whole, p[1], p[2]) <=> p \in match
    <2>1. p[1] \in Int /\ p[2] \in Int /\ p = <<p[1], p[2]>>
      BY DEF Indexes
    <2>2. 0 + p[1] = p[1] /\ 0 + p[2] = p[2]
      BY <2>1
    <2> QED
      BY <1>2, <2>1, <2>2 DEF EqualAt
  <1>6. FromStart(Whole) = match
    BY <1>3, <1>4, <1>5 DEF FromStart
  <1> QED
    BY <1>1, <1>3, <1>6

LEMMA WholeOpt ==
    ASSUME DataType
    PROVE  Opt(Whole) = aSize + bSize - 2 * Lcs(match, aSize, bSize)[bSize]
  <1>1. PICK n \in Nat, m \in Nat : n = aSize /\ m = bSize
    BY WholeIs
  <1>2. N(Whole) = n /\ M(Whole) = m /\ FromStart(Whole) = match
    BY <1>1, WholeIs
  <1>3. Min({n, n}) = n /\ Min({m, m}) = m
    <2>1. Min({n, n}) = IF n <= n THEN n ELSE n
      BY OfTwo
    <2>2. Min({m, m}) = IF m <= m THEN m ELSE m
      BY OfTwo
    <2> QED
      BY <2>1, <2>2
  <1>4. Opt(Whole) = EditsTo(match, Whole, n, m)
    BY <1>2 DEF Opt, There, Edits
  <1> QED
    BY <1>1, <1>2, <1>3, <1>4 DEF EditsTo

LEMMA WholeRebuilt ==
    ASSUME NEW es \in Scripts, NEW pairs, NEW n \in Nat, NEW m \in Nat, Done(es, pairs, n, m)
    PROVE  Rebuilds(es, pairs, n, m)
  <1>1. PICK q : q = EditedTo(es, n)
    OBVIOUS
  <1>2. Edited(es, n) = q /\ Len(q) = m /\ RightFrom(q, pairs, 0)
    BY <1>1, EditedIs DEF Done
  <1>3. ToSet(es.deletions) \subseteq Indexes(n)
    <2>1. DOMAIN es.deletions = 1 .. Len(es.deletions)
      BY LenProperties DEF Scripts
    <2>2. \A i \in 1 .. Len(es.deletions) : es.deletions[i] \in Indexes(n)
      BY DEF Done, DeletedBefore, Indexes
    <2> QED
      BY <2>1, <2>2 DEF ToSet
  <1>4. ASSUME NEW j \in Indexes(m)
        PROVE  IF q[j + 1].new THEN q[j + 1].index = j ELSE <<q[j + 1].index, j>> \in pairs
    <2>1. PICK i \in 1 .. m : i = j + 1
      BY DEF Indexes
    <2>2. 0 + i - 1 = j
      BY <2>1 DEF Indexes
    <2>3. IsRight(q[i], pairs, 0 + i - 1)
      BY <1>2 DEF RightFrom
    <2>4. IsRight(q[i], pairs, j)
      BY <2>2, <2>3
    <2> QED
      BY <2>1, <2>4, Zenon DEF IsRight
  <1> QED
    BY <1>2, <1>3, <1>4, Zenon DEF Rebuilds

(* The outermost call leaves a shortest script.                             *)
LEMMA AnswerIsRight ==
    ASSUME HalvesInv, calls = <<>>
    PROVE  /\ script \in Scripts /\ Rebuilds(script, match, aSize, bSize)
           /\ IsShortest(script, match, aSize, bSize)
  <1>1. PICK s, es, ls : s = calls /\ es = script /\ ls = lcs
    OBVIOUS
  <1>2. Progress(s, es, ls) /\ DataType
    BY <1>1 DEF HalvesInv, IInv
  <1>3. ScriptLength(es) = Opt(Whole) /\ Reached(es, ls, aSize, bSize) /\ es \in Scripts
    BY <1>1, <1>2 DEF Progress, DataType
  <1>4. Done(es, match, aSize, bSize) /\ aSize \in Nat /\ bSize \in Nat
    BY <1>2, <1>3, WholeIs DEF Reached
  <1>5. Rebuilds(es, match, aSize, bSize)
    BY <1>3, <1>4, WholeRebuilt
  <1>6. IsShortest(es, match, aSize, bSize)
    BY <1>2, <1>3, WholeOpt DEF IsShortest
  <1> QED
    BY <1>1, <1>3, <1>5, <1>6

LEMMA AnswerAtOnce ==
    ASSUME [Next]_vars
    PROVE  \/ calls # <<>> /\ calls' # <<>> /\ SameInput
           \/ calls # <<>> /\ calls' = <<>> /\ SameInput
           \/ calls' = calls /\ script' = script /\ SameInput
  <1>1. CASE Next
    <2>1. calls # <<>>
      BY <1>1 DEF Next, OneSided, StartSearch, ExtendAhead, ExtendBack, NoEdit, OneEdit, Before,
                  After, Joined, At
    <2>2. SameInput
      BY <1>1 DEF Next, OneSided, StartSearch, ExtendAhead, ExtendBack, NoEdit, OneEdit, Before,
                  After, Joined, SameInput
    <2> QED
      BY <2>1, <2>2
  <1>2. CASE UNCHANGED vars
    BY <1>2 DEF vars, SameInput
  <1> QED
    BY <1>1, <1>2

LEMMA CallerStarts ==
    ASSUME Init
    PROVE  Caller!Init
  <1>1. (calls = <<>>) = FALSE
    BY DEF Init
  <1> QED
    BY <1>1 DEF Init, Caller!Init, Indexes, Caller!Indexes, EmptyScript, Caller!EmptyScript

LEMMA SameGraph ==
    ASSUME NEW es, NEW pairs, NEW n, NEW m
    PROVE  /\ Caller!Scripts = Scripts
           /\ Caller!Rebuilds(es, pairs, n, m) = Rebuilds(es, pairs, n, m)
           /\ Caller!IsShortest(es, pairs, n, m) = IsShortest(es, pairs, n, m)
  <1>1. Caller!Scripts = Scripts
    BY DEF Caller!Scripts, Scripts, Caller!Insertions, Insertions
  <1>2. \A q : Caller!ToSet(q) = ToSet(q) /\ Caller!FlattenSeq(q) = FlattenSeq(q)
    BY DEF Caller!ToSet, ToSet, Caller!FlattenSeq, FlattenSeq
  <1>3. \A S : Caller!Max(S) = Max(S)
    BY DEF Caller!Max, Max
  <1>4. Caller!Edited(es, n) = Edited(es, n)
    BY <1>2 DEF Caller!Edited, Edited
  <1>5. Caller!Rebuilds(es, pairs, n, m) = Rebuilds(es, pairs, n, m)
    BY <1>2, <1>4 DEF Caller!Rebuilds, Rebuilds, Caller!Indexes, Indexes
  <1>6. Caller!ScriptLength(es) = ScriptLength(es)
    BY <1>2 DEF Caller!ScriptLength, ScriptLength, Caller!InsertedIndexes, InsertedIndexes
  <1>7. Caller!Lcs(pairs, n, m) = Lcs(pairs, n, m)
    BY <1>3 DEF Caller!Lcs, Lcs
  <1> QED
    BY <1>1, <1>5, <1>6, <1>7 DEF Caller!IsShortest, IsShortest

Answer ==
    calls = <<>> =>
        \A es, pairs, n, m : es = script /\ pairs = match /\ n = aSize /\ m = bSize
            => es \in Scripts /\ Rebuilds(es, pairs, n, m) /\ IsShortest(es, pairs, n, m)

LEMMA HalvesAnswer ==
    ASSUME HalvesInv
    PROVE  Answer
  BY AnswerIsRight DEF Answer

LEMMA CallerSteps ==
    ASSUME Answer', [Next]_vars
    PROVE  [Caller!ComputeDiff]_(Caller!vars)
  <1>1. CASE calls # <<>> /\ calls' # <<>> /\ SameInput
    BY <1>1 DEF Caller!vars, SameInput
  <1>2. CASE calls' = calls /\ script' = script /\ SameInput
    BY <1>2 DEF Caller!vars, SameInput
  <1>3. CASE calls # <<>> /\ calls' = <<>> /\ SameInput
    <2>1. PICK es, pairs, n, m : es = script' /\ pairs = match /\ n = aSize /\ m = bSize
      OBVIOUS
    <2>2. es = script' /\ pairs = match' /\ n = aSize' /\ m = bSize'
      BY <1>3, <2>1 DEF SameInput
    <2>3. es \in Scripts /\ Rebuilds(es, pairs, n, m) /\ IsShortest(es, pairs, n, m)
      BY <1>3, <2>2 DEF Answer
    <2>4. /\ es \in Caller!Scripts /\ Caller!Rebuilds(es, pairs, n, m)
          /\ Caller!IsShortest(es, pairs, n, m)
      BY <2>3, SameGraph
    <2>5. (IF calls = <<>> THEN script ELSE EmptyScript)' = es
      BY <1>3, <2>1
    <2>6. ~(calls = <<>>) /\ (calls = <<>>)' = TRUE
      BY <1>3
    <2> QED
      BY <1>3, <2>1, <2>4, <2>5, <2>6 DEF Caller!ComputeDiff, SameInput
  <1> QED
    BY <1>1, <1>2, <1>3, AnswerAtOnce

(* Whatever the sizes of the two sequences and whichever of their elements   *)
(* match, the script compute_diff leaves when its outermost call returns     *)
(* edits the first sequence into the second, and none is shorter: the        *)
(* recursive search implements the one step its callers rely on.             *)
THEOREM ScriptIsShortest == Spec => GivesShortestScript
  <1>1. Init => HalvesInv
    BY InitHalves
  <1>2. HalvesInv /\ [Next]_vars => HalvesInv'
    BY NextKeepsHalves
  <1>3. HalvesInv => Answer
    BY HalvesAnswer
  <1>4. Init => Caller!Init
    BY CallerStarts
  <1>5. Answer' /\ [Next]_vars => [Caller!ComputeDiff]_(Caller!vars)
    BY CallerSteps
  <1> QED
    BY <1>1, <1>2, <1>3, <1>4, <1>5, PTL DEF Spec, GivesShortestScript, Caller!Spec
=============================================================================
