----------------------------- MODULE EditGraph -----------------------------
(***************************************************************************)
(* Two sequences and the scripts that edit the one into the other, as      *)
(* include/abg-diff-utils.h has them.  The elements are known by their     *)
(* indexes only; which of them are equal is a relation, match, the set of  *)
(* the pairs <<i, j>> that the EqualityFunctor accepts.  Nothing makes     *)
(* that relation an equivalence: abg-comparison.cc compares declarations   *)
(* with operators that need not be transitive.                             *)
(***************************************************************************)
EXTENDS Integers, Sequences, SequencesExt, FiniteSetsExt

Indexes(n) == 0 .. n - 1

\* class insertion and class edit_script: the indexes of the elements of the
\* first sequence that go, and of the second that come, after a given element
\* of the first.
Insertions == [point : Int, inserted : Seq(Int)]
Scripts == [deletions : Seq(Int), insertions : Seq(Insertions)]

EmptyScript == [deletions |-> <<>>, insertions |-> <<>>]

InsertedIndexes(script) ==
  FlattenSeq([e \in DOMAIN script.insertions |-> script.insertions[e].inserted])

\* edit_script::length
ScriptLength(script) == Len(script.deletions) + Len(InsertedIndexes(script))

\* The pairs of a common subsequence are in the same order on both sides.
IsCommon(pairs) ==
  \A p, q \in pairs : p # q => \/ p[1] < q[1] /\ p[2] < q[2]
                               \/ q[1] < p[1] /\ q[2] < p[2]

\* The longest common subsequences, by their pairs.
LongestCommon(match) ==
  LET common == {pairs \in SUBSET match : IsCommon(pairs)} IN
  {pairs \in common : \A others \in common : Cardinality(others) <= Cardinality(pairs)}

\* Lcs(match, n, m)[j] is the length of the longest common subsequence of the
\* first n elements of the one sequence and the first j of the other, j <= m.
Lcs(match, n, m) ==
  LET upTo[i \in 0 .. n] ==
        IF i = 0
        THEN [j \in 0 .. m |-> 0]
        ELSE LET less == upTo[i - 1] IN
             [j \in 0 .. m |->
                Max({less[j]} \cup
                    {less[l - 1] + 1 : l \in {l \in 1 .. j : <<i - 1, l - 1>> \in match}})]
  IN  upTo[n]

\* What is left of the first sequence and what comes new from the second, in
\* the order an application of the script leaves them in.
Edited(script, n) ==
  LET new(i) == FlattenSeq([e \in DOMAIN script.insertions |->
                              IF script.insertions[e].point = i
                              THEN [x \in DOMAIN script.insertions[e].inserted |->
                                      [new |-> TRUE, index |-> script.insertions[e].inserted[x]]]
                              ELSE <<>>])
      kept(i) == IF i = -1 \/ i \in ToSet(script.deletions)
                 THEN <<>>
                 ELSE <<[new |-> FALSE, index |-> i]>>
  IN  FlattenSeq([i \in 1 .. n + 1 |-> kept(i - 2) \o new(i - 2)])

\* The script edits the first sequence into (what is equal to) the second.
Rebuilds(script, match, n, m) ==
  LET result == Edited(script, n) IN
  /\ ToSet(script.deletions) \subseteq Indexes(n)
  /\ Len(result) = m
  /\ \A j \in Indexes(m) : IF result[j + 1].new
                           THEN result[j + 1].index = j
                           ELSE <<result[j + 1].index, j>> \in match

\* No shorter script does.
IsShortest(script, match, n, m) ==
  ScriptLength(script) = n + m - 2 * Lcs(match, n, m)[m]
=============================================================================
