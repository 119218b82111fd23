--------------------------- MODULE DiffGraphProofs ---------------------------
(* Proofs about the graph of diffs: its types, the registry of canonical    *)
(* diffs, and the recursion of compute_diff on types that refer to          *)
(* themselves, for any comparison.                                          *)
EXTENDS DiffGraph, TLAPS, SequenceTheorems, FiniteSetTheorems, InductionLemmas

(* Sequences of sequences of diffs stay so when there are more diffs.       *)
LEMMA SeqGrows ==
    ASSUME NEW S, NEW T, S \subseteq T, NEW s \in Seq(S)
    PROVE  s \in Seq(T)
OBVIOUS

LEMMA SeqSeqGrows ==
    ASSUME NEW S, NEW T, S \subseteq T, NEW s \in Seq(Seq(S))
    PROVE  s \in Seq(Seq(T))
  <1>1. Seq(S) \subseteq Seq(T)
    BY SeqGrows
  <1> QED
    BY <1>1, SeqGrows

(* What is in a sequence.                                                   *)
LEMMA MembersType ==
    ASSUME NEW S, NEW s \in Seq(S)
    PROVE  Members(s) \subseteq S
  BY DEF Members

(* Sorting keeps the length and the members among the diffs.                *)
LEMMA SortingType ==
    ASSUME NEW S, NEW s \in Seq(S), NEW t \in Sortings(s)
    PROVE  t \in Seq(S)
  <1>1. t \in [1 .. Len(s) -> S]
    BY MembersType DEF Sortings
  <1>2. Len(s) \in Nat
    OBVIOUS
  <1> QED
    BY <1>1, <1>2

-----------------------------------------------------------------------------
(* A function on 1 .. n is a sequence.                                      *)
LEMMA FunctionIsSeq ==
    ASSUME NEW S, NEW n \in Nat, NEW f \in [1 .. n -> S]
    PROVE  f \in Seq(S) /\ Len(f) = n
OBVIOUS

LEMMA SeqUpdate ==
    ASSUME NEW S, NEW s \in Seq(S), NEW i \in 1 .. Len(s), NEW e \in S
    PROVE  [s EXCEPT ![i] = e] \in Seq(S) /\ Len([s EXCEPT ![i] = e]) = Len(s)
OBVIOUS

LEMMA SeqAppend ==
    ASSUME NEW S, NEW s \in Seq(S), NEW e \in S
    PROVE  /\ \A i \in 1 .. Len(s) : Append(s, e)[i] = s[i] /\ s[i] \in S
           /\ Append(s, e)[Len(s) + 1] = e
OBVIOUS

(* The record of a call of compute_diff when there are n diffs.             *)
CallWith(n) == [s : Subject, node : 0 .. n, got : Seq(1 .. n)]

LEMMA CallsGrow ==
    ASSUME NEW m \in Nat, NEW n \in Nat, m <= n, NEW c \in Seq(CallWith(m))
    PROVE  c \in Seq(CallWith(n))
  <1>1. Seq(1 .. m) \subseteq Seq(1 .. n)
    BY SeqGrows
  <1>2. 0 .. m \subseteq 0 .. n
    OBVIOUS
  <1>3. CallWith(m) \subseteq CallWith(n)
    BY <1>1, <1>2 DEF CallWith
  <1> QED
    BY <1>3, SeqGrows

(* The top of the stack is a call.                                          *)
LEMMA TopType ==
    ASSUME GraphTypeOK, calls # <<>>
    PROVE  /\ Len(calls) \in Nat \ {0}
           /\ Top \in CallWith(Len(subject))
           /\ Top.s \in Subject
           /\ Top.node \in 0 .. Len(subject)
           /\ Top.got \in Seq(Diff)
           /\ KindIn(abi, Top.s) \in Kinds
           /\ PartsIn(abi, Top.s) \in Seq(Subject)
  <1>1. calls \in Seq(CallWith(Len(subject)))
    BY DEF GraphTypeOK, CallsTypeOK, CallWith, Diff
  <1>2. Len(calls) \in Nat \ {0} /\ Top \in CallWith(Len(subject))
    BY <1>1 DEF Top
  <1> QED
    BY <1>2, ABIAssumption DEF CallWith, Diff, GraphTypeOK

(* A new node keeps the registry and the hierarchy in their types, whatever *)
(* its subject and whatever parts it holds.                                 *)
LEMMA NewDiffType ==
    ASSUME GraphTypeOK, NEW s \in Subject, NEW p \in Seq(Diff), NewDiff(s, p)
    PROVE  /\ Len(subject') = Len(subject) + 1
           /\ RegistryTypeOK'
           /\ HierarchyTypeOK'
  <1> DEFINE n == Len(subject) + 1
             c == IF canonicalOf[s] = 0 THEN n ELSE canonicalOf[s]
  <1>1. Len(subject) \in Nat /\ Len(subject') = n /\ subject' \in Seq(Subject)
    BY DEF GraphTypeOK, RegistryTypeOK, NewDiff
  <1>2. Diff \subseteq 1 .. n /\ 0 .. Len(subject) \subseteq 0 .. n /\ Diff' = 1 .. n
    BY <1>1 DEF Diff
  <1>3. c \in 1 .. n
    BY <1>1 DEF GraphTypeOK, RegistryTypeOK
  <1>4. canonicalOf' \in [Subject -> 0 .. n]
    <2>1. canonicalOf' = [canonicalOf EXCEPT ![s] = c]
      BY DEF NewDiff
    <2> HIDE DEF c
    <2> QED
      BY <2>1, <1>1, <1>3 DEF GraphTypeOK, RegistryTypeOK
  <1>5. canonical' \in Seq(1 .. n) /\ Len(canonical') = n
    <2>1. canonical' = Append(canonical, c)
      BY DEF NewDiff
    <2>2. canonical \in Seq(1 .. n)
      BY <1>2, SeqGrows DEF GraphTypeOK, RegistryTypeOK
    <2> HIDE DEF c
    <2> QED
      BY <2>1, <2>2, <1>3 DEF GraphTypeOK, RegistryTypeOK
  <1>6. parts' \in Seq(Seq(1 .. n)) /\ Len(parts') = n
    <2>1. parts' = Append(parts, p)
      BY DEF NewDiff
    <2>2. parts \in Seq(Seq(1 .. n)) /\ p \in Seq(1 .. n)
      BY <1>2, SeqGrows, SeqSeqGrows DEF GraphTypeOK, RegistryTypeOK
    <2> QED
      BY <2>1, <2>2 DEF GraphTypeOK, RegistryTypeOK
  <1>7. finished' \in Seq(BOOLEAN) /\ Len(finished') = n
    BY DEF GraphTypeOK, HierarchyTypeOK, NewDiff
  <1>8. children' \in Seq(Seq(1 .. n)) /\ Len(children') = n
    <2>1. children' = Append(children, <<>>)
      BY DEF NewDiff
    <2>2. children \in Seq(Seq(1 .. n))
      BY <1>2, SeqSeqGrows DEF GraphTypeOK, HierarchyTypeOK
    <2>3. <<>> \in Seq(1 .. n)
      OBVIOUS
    <2> QED
      BY <2>1, <2>2, <2>3 DEF GraphTypeOK, HierarchyTypeOK
  <1>9. parent' \in Seq(0 .. n) /\ Len(parent') = n
    <2>1. parent' = Append(parent, 0)
      BY DEF NewDiff
    <2>2. parent \in Seq(0 .. n)
      BY <1>2, SeqGrows DEF GraphTypeOK, HierarchyTypeOK
    <2> QED
      BY <2>1, <2>2, <1>1 DEF GraphTypeOK, HierarchyTypeOK
  <1> QED
    BY <1>1, <1>2, <1>4, <1>5, <1>6, <1>7, <1>8, <1>9 DEF RegistryTypeOK, HierarchyTypeOK

(* The stack below its top.                                                 *)
LEMMA BelowType ==
    ASSUME NEW S, calls \in Seq(S), calls # <<>>
    PROVE  /\ Below \in Seq(S)
           /\ Len(Below) = Len(calls) - 1
           /\ \A i \in DOMAIN Below : i \in DOMAIN calls /\ Below[i] = calls[i]
           /\ Len(calls) # 1 => Len(Below) \in Nat \ {0}
  <1>1. Len(calls) \in Nat \ {0} /\ DOMAIN calls = 1 .. Len(calls)
    OBVIOUS
  <1>2. /\ Below \in Seq(S)
        /\ Len(Below) = Len(calls) - 1
        /\ \A i \in 1 .. Len(calls) - 1 : Below[i] = calls[i]
    <2>1. \A i \in 1 .. Len(calls) - 1 : calls[i] \in S
      BY <1>1
    <2>2. /\ Below \in Seq(S)
          /\ Len(Below) = IF 1 <= Len(calls) - 1 THEN Len(calls) - 1 - 1 + 1 ELSE 0
          /\ \A i \in 1 .. Len(calls) - 1 - 1 + 1 : Below[i] = calls[1 + i - 1]
      BY <1>1, <2>1, SubSeqProperties DEF Below
    <2>3. Len(Below) = Len(calls) - 1
      <3>1. \A n \in Nat \ {0} : (IF 1 <= n - 1 THEN n - 1 - 1 + 1 ELSE 0) = n - 1
        OBVIOUS
      <3> QED
        BY <1>1, <2>2, <3>1, Zenon
    <2>4. ASSUME NEW i \in 1 .. Len(calls) - 1
          PROVE  Below[i] = calls[i]
      <3>1. 1 + i - 1 = i /\ i \in 1 .. Len(calls) - 1 - 1 + 1
        BY <1>1
      <3> QED
        BY <2>2, <3>1
    <2> QED
      BY <2>2, <2>3, <2>4
  <1> QED
    BY <1>1, <1>2

(* Returning a diff to the caller keeps the stack in its type.              *)
LEMMA ReturnType ==
    ASSUME GraphTypeOK, calls # <<>>,
           Len(subject') \in Nat, Len(subject) <= Len(subject'),
           NEW d \in 1 .. Len(subject'), Return(d),
           UNCHANGED <<abi, asked, roots>>
    PROVE  CallsTypeOK'
  <1> DEFINE n == Len(subject')
  <1>1. Len(subject) \in Nat /\ n \in Nat
    BY DEF GraphTypeOK, RegistryTypeOK
  <1>2. Diff' = 1 .. n /\ Diff \subseteq 1 .. n
    BY <1>1 DEF Diff
  <1>3. calls \in Seq(CallWith(n))
    <2>1. calls \in Seq(CallWith(Len(subject)))
      BY DEF GraphTypeOK, CallsTypeOK, CallWith, Diff
    <2> QED
      BY <2>1, <1>1, CallsGrow
  <1>4. calls' \in Seq(CallWith(n)) /\ result' \in 0 .. n
    <2>1. CASE Len(calls) = 1
      BY <2>1, <1>1 DEF Return
    <2>2. CASE Len(calls) # 1
      <3> DEFINE r == Below[Len(Below)]
                 ret == Call(r.s, r.node, Append(r.got, d))
      <3>1. /\ Below \in Seq(CallWith(n))
            /\ Len(Below) = Len(calls) - 1
            /\ Len(Below) \in Nat \ {0}
        BY <1>3, <2>2, BelowType
      <3>3. r \in CallWith(n)
        BY <3>1
      <3>4. ret \in CallWith(n)
        BY <3>3 DEF CallWith, Call
      <3>5. calls' = [Below EXCEPT ![Len(Below)] = ret]
        BY <2>2, <3>1 DEF Return
      <3>6. result' \in 0 .. n
        BY <2>2, <1>1 DEF Return, GraphTypeOK, CallsTypeOK
      <3> HIDE DEF ret
      <3> QED
        BY <3>1, <3>4, <3>5, <3>6
    <2> QED
      BY <2>1, <2>2
  <1>5. \/ asked' = Nobody
        \/ \E i \in DOMAIN roots' : asked' = Client("root", i)
        \/ \E i \in 1 .. n : asked' = Client("type", i)
    BY <1>2 DEF GraphTypeOK, CallsTypeOK
  <1>6. roots' \in Seq(0 .. n) /\ Len(roots') = Len(RootsIn(abi'))
    <2>1. 0 .. Len(subject) \subseteq 0 .. n
      BY <1>1
    <2> QED
      BY <2>1, SeqGrows DEF GraphTypeOK, CallsTypeOK
  <1> QED
    BY <1>2, <1>4, <1>5, <1>6 DEF CallsTypeOK, CallWith

-----------------------------------------------------------------------------
(* What a step does to the graph, wherever the traversals have got to.      *)
GraphStep ==
    \/ Build
    \/ \E i \in DOMAIN roots : AskRoot(i)
    \/ \E d \in Diff : Finish(d)

LEMMA NextIsStep == GraphNext => GraphStep
  BY DEF GraphNext, GraphStep, Finish, Reached

(* An outermost call is for a root, or for the type of a diff.              *)
LEMMA AskTypeOK ==
    ASSUME GraphTypeOK, NEW client, NEW s \in Subject, Ask(client, s),
           \/ \E i \in DOMAIN roots : client = Client("root", i)
           \/ \E d \in Diff : client = Client("type", d)
    PROVE  GraphTypeOK'
  <1>1. NewCall(s) \in CallWith(Len(subject))
    BY DEF NewCall, Call, CallWith, GraphTypeOK, RegistryTypeOK
  <1>2. calls' \in Seq(CallWith(Len(subject)))
    BY <1>1 DEF Ask
  <1>3. CallsTypeOK'
    BY <1>2 DEF Ask, GraphTypeOK, CallsTypeOK, CallWith, registry, Diff
  <1> QED
    BY <1>3 DEF Ask, GraphTypeOK, RegistryTypeOK, HierarchyTypeOK, registry, hierarchy, Diff

(* A node that is made and returned at once.                                *)
LEMMA NewDiffReturned ==
    ASSUME GraphTypeOK, calls # <<>>, NEW p \in Seq(Diff),
           NewDiff(Top.s, p), Return(Len(subject) + 1), UNCHANGED <<abi, asked, roots>>
    PROVE  GraphTypeOK'
  <1>1. /\ Len(subject') = Len(subject) + 1
        /\ RegistryTypeOK' /\ HierarchyTypeOK'
    BY TopType, NewDiffType
  <1>2. Len(subject) \in Nat
    BY DEF GraphTypeOK, RegistryTypeOK
  <1>3. CallsTypeOK'
    BY <1>1, <1>2, ReturnType
  <1> QED
    BY <1>1, <1>3 DEF GraphTypeOK

(* The sub-diffs of a diff are diffs.                                       *)
LEMMA PartsType ==
    ASSUME GraphTypeOK, NEW d \in Diff
    PROVE  Parts(d) \in Seq(Diff)
  <1>1. parts \in Seq(Seq(Diff)) /\ DOMAIN parts = Diff
    BY DEF GraphTypeOK, RegistryTypeOK, Diff
  <1>2. \A e \in Diff : parts[e] \in Seq(Diff)
    BY <1>1
  <1>3. canonical[d] \in Diff
    BY SMTT(30) DEF GraphTypeOK, RegistryTypeOK, Diff
  <1> QED
    BY <1>2, <1>3 DEF Parts

LEMMA GraphTypeInductive ==
    ASSUME GraphTypeOK, [GraphStep]_graphVars
    PROVE  GraphTypeOK'
  <1>0. Len(subject) \in Nat /\ <<>> \in Seq(Diff)
    BY DEF GraphTypeOK, RegistryTypeOK
  <1>1. CASE ComputeDeferred
    BY <1>0, <1>1, NewDiffReturned DEF ComputeDeferred
  <1>2. CASE ComputeKnownClass
    BY <1>0, <1>2, NewDiffReturned DEF ComputeKnownClass
  <1>3. CASE ComputeNewClass
    <2>1. /\ Len(subject') = Len(subject) + 1
          /\ RegistryTypeOK' /\ HierarchyTypeOK'
      BY <1>0, <1>3, TopType, NewDiffType DEF ComputeNewClass
    <2> DEFINE n == Len(subject')
               c == Call(Top.s, n, Top.got)
    <2>2. n \in Nat /\ Len(subject) <= n /\ Diff' = 1 .. n /\ Diff \subseteq 1 .. n
      BY <1>0, <2>1 DEF Diff
    <2>3. calls \in Seq(CallWith(n))
      <3>1. calls \in Seq(CallWith(Len(subject)))
        BY DEF GraphTypeOK, CallsTypeOK, CallWith, Diff
      <3> QED
        BY <1>0, <2>2, <3>1, CallsGrow
    <2>4. c \in CallWith(n)
      <3>1. Top.s \in Subject /\ Top.got \in Seq(1 .. n)
        BY <1>3, <2>2, TopType, SeqGrows DEF ComputeNewClass
      <3> QED
        BY <2>2, <3>1 DEF Call, CallWith
    <2>5. calls' = [calls EXCEPT ![Len(calls)] = c]
      BY <1>3, <2>1 DEF ComputeNewClass, Top
    <2>6. calls' \in Seq(CallWith(n))
      <3>1. Len(calls) \in 1 .. Len(calls)
        BY <1>3, TopType DEF ComputeNewClass
      <3> HIDE DEF c
      <3> QED
        BY <2>3, <2>4, <2>5, <3>1, SeqUpdate
    <2>7. CallsTypeOK'
      <3>1. roots' \in Seq(0 .. n) /\ result' \in 0 .. n
        <4>1. 0 .. Len(subject) \subseteq 0 .. n
          BY <1>0, <2>2
        <4> QED
          BY <1>3, <4>1, SeqGrows DEF ComputeNewClass, GraphTypeOK, CallsTypeOK
      <3> QED
        BY <1>3, <2>2, <2>6, <3>1 DEF ComputeNewClass, GraphTypeOK, CallsTypeOK, CallWith
    <2> QED
      BY <1>3, <2>1, <2>7 DEF ComputeNewClass, GraphTypeOK
  <1>4. CASE ComputePart
    <2>1. PartsIn(abi, Top.s)[Len(Top.got) + 1] \in Subject
      BY <1>4, TopType DEF ComputePart
    <2>2. NewCall(PartsIn(abi, Top.s)[Len(Top.got) + 1]) \in CallWith(Len(subject))
      BY <1>0, <2>1 DEF NewCall, Call, CallWith
    <2>3. calls' \in Seq(CallWith(Len(subject)))
      BY <1>4, <2>2 DEF ComputePart, GraphTypeOK, CallsTypeOK, CallWith, Diff
    <2> QED
      BY <1>4, <2>3 DEF ComputePart, GraphTypeOK, CallsTypeOK, RegistryTypeOK,
           HierarchyTypeOK, registry, hierarchy, CallWith, Diff
  <1>5. CASE FinishClass
    <2>1. Top.node \in Diff /\ Top.got \in Seq(Diff)
      BY <1>0, <1>5, TopType DEF FinishClass, Diff
    <2>2. CallsTypeOK'
      BY <1>0, <1>5, <2>1, ReturnType DEF FinishClass, Diff
    <2>3. parts' \in Seq(Seq(Diff)) /\ Len(parts') = Len(parts)
      <3>1. parts' = [parts EXCEPT ![Top.node] = Top.got]
        BY <1>5 DEF FinishClass
      <3>2. parts \in Seq(Seq(Diff)) /\ Top.node \in 1 .. Len(parts)
        BY <2>1 DEF GraphTypeOK, RegistryTypeOK, Diff
      <3> QED
        BY <2>1, <3>1, <3>2, SeqUpdate
    <2> QED
      BY <1>5, <2>2, <2>3 DEF FinishClass, GraphTypeOK, RegistryTypeOK, HierarchyTypeOK,
           hierarchy, Diff
  <1>6. CASE FinishCompound
    <2> DEFINE kept == IF KindIn(abi, Top.s) \in Deferred THEN <<>> ELSE Top.got
    <2>1. kept \in Seq(Diff)
      BY <1>6, TopType DEF FinishCompound
    <2>2. NewDiff(Top.s, kept) /\ Return(Len(subject) + 1) /\ UNCHANGED <<abi, asked, roots>>
      BY <1>6 DEF FinishCompound
    <2>3. calls # <<>>
      BY <1>6 DEF FinishCompound
    <2> HIDE DEF kept
    <2> QED
      BY <2>1, <2>2, <2>3, NewDiffReturned
  <1>7. CASE GetRoot
    <2>1. roots' \in Seq(0 .. Len(subject)) /\ Len(roots') = Len(roots)
      <3>1. roots' = [roots EXCEPT ![asked.of] = result] /\ asked.who = "root"
        BY <1>7 DEF GetRoot
      <3>2. asked.of \in 1 .. Len(roots)
        BY <3>1 DEF GraphTypeOK, CallsTypeOK, Client, Nobody
      <3>3. roots \in Seq(0 .. Len(subject)) /\ result \in 0 .. Len(subject)
        BY DEF GraphTypeOK, CallsTypeOK
      <3> QED
        BY <3>1, <3>2, <3>3, SeqUpdate
    <2>2. CallsTypeOK'
      BY <1>0, <1>7, <2>1 DEF GetRoot, Answered, GraphTypeOK, CallsTypeOK, registry, Diff
    <2> QED
      BY <1>7, <2>2 DEF GetRoot, GraphTypeOK, RegistryTypeOK, HierarchyTypeOK,
           registry, hierarchy, Diff
  <1>8. CASE GetType
    <2>1. parts' = [parts EXCEPT ![asked.of] = <<result>>] /\ asked.who = "type"
      BY <1>8 DEF GetType
    <2>2. asked.of \in 1 .. Len(parts)
      <3>1. PICK d \in Diff : asked = Client("type", d)
        <4>1. asked # Nobody /\ \A i \in DOMAIN roots : asked # Client("root", i)
          BY <2>1 DEF Client, Nobody
        <4> QED
          BY <4>1, Zenon DEF GraphTypeOK, CallsTypeOK
      <3>2. asked.of = d
        BY <3>1 DEF Client
      <3>3. Len(parts) = Len(subject)
        BY DEF GraphTypeOK, RegistryTypeOK
      <3> QED
        BY <3>2, <3>3 DEF Diff
    <2>3. <<result>> \in Seq(Diff) /\ parts \in Seq(Seq(Diff))
      BY <1>0, <1>8 DEF GetType, GraphTypeOK, CallsTypeOK, RegistryTypeOK, Diff
    <2>4. parts' \in Seq(Seq(Diff)) /\ Len(parts') = Len(parts)
      BY <2>1, <2>2, <2>3, SeqUpdate
    <2>5. CallsTypeOK'
      BY <1>0, <1>8 DEF GetType, Answered, GraphTypeOK, CallsTypeOK, Diff
    <2> QED
      BY <1>8, <2>4, <2>5 DEF GetType, GraphTypeOK, RegistryTypeOK, HierarchyTypeOK,
           hierarchy, Diff
  <1>9. ASSUME NEW i \in DOMAIN roots, AskRoot(i)
        PROVE  GraphTypeOK'
    <2>1. RootsIn(abi)[i] \in Subject
      BY SMTT(30), ABIAssumption DEF GraphTypeOK, CallsTypeOK
    <2> QED
      BY <1>9, <2>1, AskTypeOK DEF AskRoot
  <1>10. ASSUME NEW d \in Diff, AskType(d)
         PROVE  GraphTypeOK'
    <2>1. PartsIn(abi, subject[d])[1] \in Subject
      BY SMTT(30), <1>10, ABIAssumption DEF AskType, AwaitsType, GraphTypeOK, RegistryTypeOK, Diff
    <2> QED
      BY <1>10, <2>1, AskTypeOK DEF AskType
  <1>11. ASSUME NEW d \in Diff, FinishDiffType(d)
         PROVE  GraphTypeOK'
    <2>1. Parts(d) \in Seq(Diff)
      BY PartsType
    <2>2. PICK sorted \in Sortings(Parts(d)) : children' = [children EXCEPT ![d] = sorted]
      BY <1>11, Zenon DEF FinishDiffType
    <2>3. children' \in Seq(Seq(Diff)) /\ Len(children') = Len(children)
      <3>1. sorted \in Seq(Diff)
        BY <2>1, SortingType
      <3>2. children \in Seq(Seq(Diff)) /\ d \in 1 .. Len(children)
        BY DEF GraphTypeOK, HierarchyTypeOK, Diff
      <3> QED
        BY <2>2, <3>1, <3>2, SeqUpdate
    <2>4. parent' \in [1 .. Len(subject) -> 0 .. Len(subject)]
      <3>1. parent' = [c \in Diff |-> IF c \in Members(Parts(d)) THEN d ELSE parent[c]]
        BY <1>11, Zenon DEF FinishDiffType
      <3>2. Len(subject) \in Nat /\ parent \in Seq(0 .. Len(subject))
            /\ Len(parent) = Len(subject)
        BY <1>0 DEF GraphTypeOK, HierarchyTypeOK
      <3>3. d \in 0 .. Len(subject)
        BY <3>2 DEF Diff
      <3>4. \A c \in Diff : parent[c] \in 0 .. Len(subject)
        BY <3>2 DEF Diff
      <3> QED
        BY <3>1, <3>3, <3>4 DEF Diff
    <2>5. parent' \in Seq(0 .. Len(subject)) /\ Len(parent') = Len(subject)
      BY <1>0, <2>4, FunctionIsSeq
    <2>6. finished' \in Seq(BOOLEAN) /\ Len(finished') = Len(finished)
      <3>1. finished' = [finished EXCEPT ![d] = TRUE]
        BY <1>11, Zenon DEF FinishDiffType
      <3>2. finished \in Seq(BOOLEAN) /\ d \in 1 .. Len(finished)
        BY DEF GraphTypeOK, HierarchyTypeOK, Diff
      <3> QED
        BY <3>1, <3>2, SeqUpdate
    <2> QED
      BY <1>11, <2>3, <2>5, <2>6 DEF FinishDiffType, GraphTypeOK, CallsTypeOK, RegistryTypeOK,
           HierarchyTypeOK, registry, Diff
  <1>12. CASE UNCHANGED graphVars
    BY <1>12 DEF graphVars, GraphTypeOK, CallsTypeOK, RegistryTypeOK, HierarchyTypeOK,
         registry, hierarchy, Diff
  <1> QED
    BY <1>1, <1>2, <1>3, <1>4, <1>5, <1>6, <1>7, <1>8, <1>9, <1>10, <1>11, <1>12
       DEF GraphStep, Build, Compute, Finish

LEMMA GraphTypeInit == GraphInit => GraphTypeOK
  <1> SUFFICES ASSUME GraphInit PROVE GraphTypeOK
    OBVIOUS
  <1>1. Len(RootsIn(abi)) \in Nat /\ DOMAIN RootsIn(abi) = 1 .. Len(RootsIn(abi))
    BY ABIAssumption DEF GraphInit
  <1>2. roots \in Seq({0}) /\ Len(roots) = Len(RootsIn(abi))
    BY <1>1, FunctionIsSeq DEF GraphInit
  <1> QED
    BY <1>2 DEF GraphInit, GraphTypeOK, CallsTypeOK, RegistryTypeOK, HierarchyTypeOK, Diff

(* Every diff that a variable refers to exists.                             *)
THEOREM GraphTypeCorrect == GraphSpec => []GraphTypeOK
  <1>1. GraphTypeOK /\ [GraphNext]_graphVars => GraphTypeOK'
    BY GraphTypeInductive, NextIsStep
  <1> QED
    BY <1>1, GraphTypeInit, PTL DEF GraphSpec

-----------------------------------------------------------------------------
(* Why canonical diffs are canonical: the registry knows the subject of     *)
(* every node, and what it knows of a subject is a node of that subject.    *)
CanonicalInv ==
    /\ \A d \in Diff : canonical[d] = canonicalOf[subject[d]]
    /\ \A s \in Subject : canonicalOf[s] # 0 => subject[canonicalOf[s]] = s

LEMMA CanonicalInvSuffices ==
    ASSUME GraphTypeOK, CanonicalInv
    PROVE  CanonicalDiffs
  <1> SUFFICES ASSUME NEW d \in Diff
               PROVE  /\ subject[canonical[d]] = subject[d]
                      /\ canonical[canonical[d]] = canonical[d]
                      /\ canonicalOf[subject[d]] = canonical[d]
    BY DEF CanonicalDiffs
  <1>1. canonical[d] \in Diff /\ subject[d] \in Subject
    BY SMTT(30) DEF GraphTypeOK, RegistryTypeOK, Diff
  <1>2. canonicalOf[subject[d]] = canonical[d] /\ canonical[d] # 0
    BY <1>1 DEF CanonicalInv, Diff
  <1>3. subject[canonical[d]] = subject[d]
    BY <1>1, <1>2 DEF CanonicalInv
  <1>4. canonical[canonical[d]] = canonicalOf[subject[canonical[d]]]
    BY <1>1 DEF CanonicalInv
  <1> QED
    BY <1>2, <1>3, <1>4

LEMMA NewDiffCanonical ==
    ASSUME GraphTypeOK, CanonicalInv, NEW s \in Subject, NEW p, NewDiff(s, p)
    PROVE  CanonicalInv'
  <1> DEFINE n == Len(subject) + 1
             c == IF canonicalOf[s] = 0 THEN n ELSE canonicalOf[s]
  <1>1. /\ Len(subject) \in Nat /\ n \in Nat
        /\ subject' = Append(subject, s) /\ Len(subject') = n
        /\ canonical' = Append(canonical, c)
        /\ canonicalOf' = [canonicalOf EXCEPT ![s] = c]
    BY DEF NewDiff, GraphTypeOK, RegistryTypeOK
  <1>2. Diff' = Diff \cup {n} /\ n \notin Diff
    BY <1>1 DEF Diff
  <1>3. /\ \A d \in Diff : /\ subject'[d] = subject[d] /\ subject[d] \in Subject
                          /\ canonical'[d] = canonical[d] /\ canonical[d] \in Diff
        /\ subject'[n] = s /\ canonical'[n] = c
    <2>1. subject \in Seq(Subject) /\ canonical \in Seq(Diff) /\ Len(canonical) = Len(subject)
      BY DEF GraphTypeOK, RegistryTypeOK
    <2>2. canonical \in Seq(0 .. n) /\ c \in 0 .. n
      <3>1. Diff \subseteq 0 .. n
        BY <1>1 DEF Diff
      <3>2. canonicalOf[s] \in 0 .. n
        BY <1>1 DEF GraphTypeOK, RegistryTypeOK
      <3>3. canonical \in Seq(0 .. n)
        BY <2>1, <3>1, SeqGrows
      <3> QED
        BY <1>1, <3>2, <3>3
    <2>3. \A d \in Diff : canonical[d] \in Diff
      BY <2>1 DEF Diff
    <2> HIDE DEF c
    <2> QED
      BY <1>1, <2>1, <2>2, <2>3, SeqAppend DEF Diff
  <1>4. /\ canonicalOf'[s] = c
        /\ \A t \in Subject \ {s} : canonicalOf'[t] = canonicalOf[t]
        /\ \A t \in Subject : canonicalOf[t] \in Diff \cup {0}
    BY <1>1 DEF GraphTypeOK, RegistryTypeOK, Diff
  <1>5. c # 0 /\ (canonicalOf[s] # 0 => c = canonicalOf[s])
    BY <1>1
  <1>6. ASSUME NEW d \in Diff
        PROVE  canonical'[d] = canonicalOf'[subject'[d]]
    <2>1. canonical[d] = canonicalOf[subject[d]] /\ canonical[d] # 0
      BY <1>3 DEF CanonicalInv, Diff
    <2>2. canonicalOf'[subject[d]] = canonicalOf[subject[d]]
      BY <1>3, <1>4, <1>5, <2>1
    <2> QED
      BY <1>3, <2>1, <2>2
  <1>7. canonical'[n] = canonicalOf'[subject'[n]]
    BY <1>3, <1>4
  <1>8. ASSUME NEW t \in Subject, canonicalOf'[t] # 0
        PROVE  subject'[canonicalOf'[t]] = t
    <2>1. CASE t = s /\ canonicalOf[s] = 0
      BY <2>1, <1>3, <1>4
    <2>2. CASE canonicalOf[t] # 0
      <3>1. canonicalOf'[t] = canonicalOf[t] /\ canonicalOf[t] \in Diff
        BY <2>2, <1>4, <1>5
      <3> QED
        BY <2>2, <3>1, <1>3 DEF CanonicalInv
    <2>3. canonicalOf[t] # 0 \/ t = s
      BY <1>4, <1>8
    <2> QED
      BY <2>1, <2>2, <2>3
  <1> QED
    BY <1>2, <1>6, <1>7, <1>8 DEF CanonicalInv

LEMMA CanonicalInductive ==
    ASSUME GraphTypeOK, CanonicalInv, [GraphStep]_graphVars
    PROVE  CanonicalInv'
  <1>1. CASE UNCHANGED <<canonicalOf, subject, canonical>>
    BY <1>1 DEF CanonicalInv, Diff
  <1>2. CASE ComputeDeferred
    BY <1>2, TopType, NewDiffCanonical DEF ComputeDeferred
  <1>3. CASE ComputeKnownClass
    BY <1>3, TopType, NewDiffCanonical DEF ComputeKnownClass
  <1>4. CASE ComputeNewClass
    BY <1>4, TopType, NewDiffCanonical DEF ComputeNewClass
  <1>5. CASE FinishCompound
    BY <1>5, TopType, NewDiffCanonical DEF FinishCompound
  <1>6. \/ UNCHANGED <<canonicalOf, subject, canonical>>
        \/ ComputeDeferred \/ ComputeKnownClass \/ ComputeNewClass \/ FinishCompound
    BY DEF GraphStep, Build, Compute, Finish, ComputePart, FinishClass, GetRoot, GetType,
       AskRoot, AskType, Ask, FinishDiffType, graphVars, registry
  <1> QED
    BY <1>1, <1>2, <1>3, <1>4, <1>5, <1>6

LEMMA CanonicalInit == GraphInit => CanonicalInv
  BY DEF GraphInit, CanonicalInv, Diff

(* A canonical diff is of the same subject, is the registered one, and its  *)
(* own canonical diff: the map that visited_diff_nodes_, is_traversing()    *)
(* and reported_once() go through is well defined.                          *)
THEOREM CanonicalDiffsAlways == GraphSpec => []CanonicalDiffs
  <1>1. GraphInit => GraphTypeOK /\ CanonicalInv
    BY GraphTypeInit, CanonicalInit
  <1>2. GraphTypeOK /\ CanonicalInv /\ [GraphNext]_graphVars => (GraphTypeOK /\ CanonicalInv)'
    BY GraphTypeInductive, CanonicalInductive, NextIsStep
  <1>3. GraphTypeOK /\ CanonicalInv => CanonicalDiffs
    BY CanonicalInvSuffices
  <1> QED
    BY <1>1, <1>2, <1>3, PTL DEF GraphSpec

-----------------------------------------------------------------------------
(* Why compute_diff never works twice on a class at a time: a call that has *)
(* a node has registered it.                                                *)
CallsInv ==
    \A i \in DOMAIN calls : calls[i].node # 0 => canonicalOf[calls[i].s] # 0

(* What the steps do to the nodes that the calls hold.                      *)
CallsKeepNodes ==
    \A i \in DOMAIN calls' :
        calls'[i].node # 0 =>
            /\ i \in DOMAIN calls
            /\ calls'[i].s = calls[i].s
            /\ calls'[i].node = calls[i].node

RegistryKept == \A s \in Subject : canonicalOf[s] # 0 => canonicalOf'[s] # 0

LEMMA NewDiffKeepsRegistry ==
    ASSUME GraphTypeOK, NEW s \in Subject, NEW p, NewDiff(s, p)
    PROVE  RegistryKept /\ canonicalOf'[s] # 0
  <1>1. Len(subject) + 1 # 0 /\ canonicalOf \in [Subject -> 0 .. Len(subject)]
    BY DEF GraphTypeOK, RegistryTypeOK
  <1>2. canonicalOf' = [canonicalOf EXCEPT ![s] =
                          IF canonicalOf[s] = 0 THEN Len(subject) + 1 ELSE canonicalOf[s]]
    BY DEF NewDiff
  <1> QED
    BY <1>1, <1>2 DEF RegistryKept

LEMMA ReturnKeepsNodes ==
    ASSUME GraphTypeOK, calls # <<>>, NEW d, Return(d)
    PROVE  CallsKeepNodes
  <1>1. CASE Len(calls) = 1
    BY <1>1 DEF Return, CallsKeepNodes
  <1>2. CASE Len(calls) # 1
    <2> DEFINE r == Below[Len(Below)]
               ret == Call(r.s, r.node, Append(r.got, d))
    <2>1. /\ Len(Below) \in Nat \ {0}
          /\ DOMAIN Below = 1 .. Len(Below)
          /\ \A i \in DOMAIN Below : i \in DOMAIN calls /\ Below[i] = calls[i]
      <3>1. calls \in Seq([s : Subject, node : 0 .. Len(subject), got : Seq(Diff)])
        BY DEF GraphTypeOK, CallsTypeOK
      <3> QED
        BY <1>2, <3>1, BelowType
    <2>2. calls' = [Below EXCEPT ![Len(Below)] = ret]
      BY <1>2, <2>1 DEF Return
    <2>3. ret.s = r.s /\ ret.node = r.node
      BY DEF Call
    <2> HIDE DEF ret
    <2>4. \A i \in DOMAIN calls' :
             /\ i \in DOMAIN Below
             /\ calls'[i] = IF i = Len(Below) THEN ret ELSE Below[i]
      BY <2>1, <2>2
    <2> QED
      BY <2>1, <2>3, <2>4 DEF CallsKeepNodes
  <1> QED
    BY <1>1, <1>2

LEMMA ReentranceInductive ==
    ASSUME GraphTypeOK, CallsInv, NoReentrance, [GraphStep]_graphVars
    PROVE  CallsInv' /\ NoReentrance'
  <1>1. /\ Len(calls) \in Nat /\ DOMAIN calls = 1 .. Len(calls)
        /\ \A i \in DOMAIN calls : calls[i].s \in Subject
    <2>1. calls \in Seq(CallWith(Len(subject)))
      BY DEF GraphTypeOK, CallsTypeOK, CallWith, Diff
    <2>2. \A i \in DOMAIN calls : calls[i] \in CallWith(Len(subject))
      BY <2>1
    <2> QED
      BY <2>1, <2>2 DEF CallWith
  <1>2. CASE CallsKeepNodes /\ RegistryKept
    BY <1>1, <1>2 DEF CallsKeepNodes, RegistryKept, CallsInv, NoReentrance
  <1>3. CASE ComputeNewClass
    <2> DEFINE n == Len(calls)
               c == Call(Top.s, Len(subject) + 1, Top.got)
    <2>1. /\ n \in 1 .. Len(calls) /\ Top = calls[n]
          /\ canonicalOf[Top.s] = 0 /\ Top.s \in Subject
      BY <1>3, <1>1, TopType DEF ComputeNewClass, Top
    <2>2. calls' = [calls EXCEPT ![n] = c]
      BY <1>3 DEF ComputeNewClass, Top
    <2>3. RegistryKept /\ canonicalOf'[Top.s] # 0
      BY <1>3, <2>1, NewDiffKeepsRegistry DEF ComputeNewClass
    <2>4. c.s = Top.s
      BY DEF Call
    <2>5. /\ DOMAIN calls' = DOMAIN calls
          /\ calls'[n].s = Top.s
          /\ \A i \in DOMAIN calls : i # n => calls'[i] = calls[i]
      <3> HIDE DEF c
      <3> QED
        BY <1>1, <2>1, <2>2, <2>4
    <2>6. \A i \in DOMAIN calls : i # n /\ calls[i].node # 0 => calls[i].s # Top.s
      BY <2>1 DEF CallsInv
    <2>7. CallsInv'
      BY <1>1, <2>1, <2>3, <2>5 DEF CallsInv, RegistryKept
    <2>8. NoReentrance'
      BY <1>1, <2>1, <2>5, <2>6 DEF NoReentrance
    <2> QED
      BY <2>7, <2>8
  <1>4. CASE ComputeDeferred \/ ComputeKnownClass \/ FinishCompound
    <2>1. calls # <<>> /\ Return(Len(subject) + 1)
      BY <1>4 DEF ComputeDeferred, ComputeKnownClass, FinishCompound
    <2>2. \E p : NewDiff(Top.s, p)
      BY <1>4 DEF ComputeDeferred, ComputeKnownClass, FinishCompound
    <2>3. Top.s \in Subject
      BY <2>1, TopType
    <2> QED
      BY <1>2, <2>1, <2>2, <2>3, ReturnKeepsNodes, NewDiffKeepsRegistry
  <1>5. CASE ComputePart
    <2> DEFINE new == NewCall(PartsIn(abi, Top.s)[Len(Top.got) + 1])
    <2>1. calls' = Append(calls, new) /\ new.node = 0 /\ canonicalOf' = canonicalOf
      BY <1>5 DEF ComputePart, NewCall, Call, registry
    <2> HIDE DEF new
    <2>2. \A i \in DOMAIN calls' :
             IF i \in DOMAIN calls THEN calls'[i] = calls[i] ELSE calls'[i] = new
      BY SMTT(30), <1>1, <2>1 DEF GraphTypeOK, CallsTypeOK
    <2>3. CallsKeepNodes
      BY <2>1, <2>2 DEF CallsKeepNodes
    <2> QED
      BY <1>2, <2>1, <2>3 DEF RegistryKept
  <1>6. CASE FinishClass
    <2>1. calls # <<>> /\ Return(Top.node) /\ canonicalOf' = canonicalOf
      BY <1>6 DEF FinishClass
    <2> QED
      BY <1>2, <2>1, ReturnKeepsNodes DEF RegistryKept
  <1>7. CASE \E client, s : Ask(client, s)
    <2>1. PICK s : calls' = <<NewCall(s)>> /\ canonicalOf' = canonicalOf
      BY <1>7 DEF Ask, registry
    <2>2. CallsKeepNodes
      BY <2>1 DEF CallsKeepNodes, NewCall, Call
    <2> QED
      BY <1>2, <2>1, <2>2 DEF RegistryKept
  <1>8. CASE UNCHANGED <<calls, canonicalOf>>
    BY <1>2, <1>8 DEF CallsKeepNodes, RegistryKept
  <1>9. \/ ComputeNewClass \/ ComputeDeferred \/ ComputeKnownClass \/ FinishCompound
        \/ ComputePart \/ FinishClass
        \/ \E client, s : Ask(client, s)
        \/ UNCHANGED <<calls, canonicalOf>>
    BY DEF GraphStep, Build, Compute, Finish, GetRoot, GetType, AskRoot, AskType,
       FinishDiffType, graphVars, registry
  <1> QED
    BY <1>3, <1>4, <1>5, <1>6, <1>7, <1>8, <1>9

(* compute_diff never starts on the members of a class that it is working   *)
(* on, however the classes refer to each other.                             *)
THEOREM NoReentranceEver == GraphSpec => []NoReentrance
  <1>1. GraphInit => GraphTypeOK /\ CallsInv /\ NoReentrance
    BY GraphTypeInit DEF GraphInit, CallsInv, NoReentrance
  <1>2. /\ GraphTypeOK /\ CallsInv /\ NoReentrance /\ [GraphNext]_graphVars
        => (GraphTypeOK /\ CallsInv /\ NoReentrance)'
    BY GraphTypeInductive, ReentranceInductive, NextIsStep
  <1> QED
    BY <1>1, <1>2, PTL DEF GraphSpec

-----------------------------------------------------------------------------
(* What the traversals rely on while the graph grows under them: a diff     *)
(* never changes its canonical diff and never gets out of their reach.      *)
AdoptionInv ==
    /\ \A d \in Diff : \A c \in Members(children[d]) : parent[c] # 0
    /\ asked.who = "root" => roots[asked.of] = 0

LEMMA NewDiffKeeps ==
    ASSUME GraphTypeOK, AdoptionInv, NEW s, NEW p, s \in Subject, NewDiff(s, p)
    PROVE  /\ \A d \in Diff : /\ d \in Diff'
                              /\ canonical'[d] = canonical[d]
                              /\ parent'[d] = parent[d]
           /\ \A d \in Diff' : \A c \in Members(children'[d]) : parent'[c] # 0
  <1> DEFINE n == Len(subject) + 1
             e == IF canonicalOf[s] = 0 THEN n ELSE canonicalOf[s]
  <1>1. /\ Len(subject) \in Nat /\ Len(subject') = n
        /\ canonical' = Append(canonical, e)
        /\ parent' = Append(parent, 0)
        /\ children' = Append(children, <<>>)
    BY DEF NewDiff, GraphTypeOK, RegistryTypeOK
  <1>2. Diff' = Diff \cup {n}
    BY <1>1 DEF Diff
  <1>3. \A d \in Diff : canonical'[d] = canonical[d]
    <2>1. canonical \in Seq(Nat) /\ Len(canonical) = Len(subject)
      <3>1. Diff \subseteq Nat
        BY DEF Diff
      <3> QED
        BY <3>1, SeqGrows DEF GraphTypeOK, RegistryTypeOK
    <2>2. e \in Nat
      BY <1>1 DEF GraphTypeOK, RegistryTypeOK
    <2> HIDE DEF e
    <2> QED
      BY <1>1, <2>1, <2>2, SeqAppend DEF Diff
  <1>4. \A d \in Diff : parent'[d] = parent[d]
    BY <1>1, SeqAppend DEF GraphTypeOK, HierarchyTypeOK, Diff
  <1>5. /\ \A d \in Diff : children'[d] = children[d] /\ children[d] \in Seq(Diff)
        /\ children'[n] = <<>>
    <2>1. <<>> \in Seq(Diff)
      OBVIOUS
    <2> QED
      BY <1>1, <2>1, SeqAppend DEF GraphTypeOK, HierarchyTypeOK, Diff
  <1>6. ASSUME NEW d \in Diff', NEW c \in Members(children'[d])
        PROVE  parent'[c] # 0
    <2>1. d \in Diff
      BY <1>2, <1>5 DEF Members
    <2>2. c \in Members(children[d]) /\ c \in Diff
      BY <1>5, <2>1, MembersType
    <2> QED
      BY <1>4, <2>1, <2>2 DEF AdoptionInv
  <1> QED
    BY <1>2, <1>3, <1>4, <1>6

LEMMA FinishKeeps ==
    ASSUME GraphTypeOK, AdoptionInv, NEW e \in Diff, FinishDiffType(e)
    PROVE  /\ \A d \in Diff : parent[d] # 0 => parent'[d] # 0
           /\ \A d \in Diff : \A c \in Members(children'[d]) : parent'[c] # 0
  <1>1. parent' = [c \in Diff |-> IF c \in Members(Parts(e)) THEN e ELSE parent[c]]
    BY Zenon DEF FinishDiffType
  <1>2. PICK sorted \in Sortings(Parts(e)) : children' = [children EXCEPT ![e] = sorted]
    BY Zenon DEF FinishDiffType
  <1>3. /\ Len(subject) \in Nat /\ e # 0
        /\ children \in Seq(Seq(Diff)) /\ DOMAIN children = Diff
        /\ Parts(e) \in Seq(Diff)
    <2>1. Len(subject) \in Nat /\ e # 0
      BY DEF GraphTypeOK, RegistryTypeOK, Diff
    <2>2. children \in Seq(Seq(Diff)) /\ DOMAIN children = Diff
      BY DEF GraphTypeOK, HierarchyTypeOK, Diff
    <2>3. Parts(e) \in Seq(Diff)
      BY PartsType
    <2> QED
      BY <2>1, <2>2, <2>3
  <1>4. \A d \in Diff : parent[d] # 0 => parent'[d] # 0
    BY <1>1, <1>3
  <1>5. Members(sorted) \subseteq Members(Parts(e))
    BY <1>3 DEF Sortings, Members
  <1>6. ASSUME NEW d \in Diff, NEW c \in Members(children'[d])
        PROVE  parent'[c] # 0
    <2>1. CASE d = e
      <3>1. c \in Members(Parts(e)) /\ c \in Diff
        BY <1>2, <1>3, <1>5, <2>1, MembersType
      <3> QED
        BY <1>1, <1>3, <3>1
    <2>2. CASE d # e
      <3>1. children'[d] = children[d] /\ children[d] \in Seq(Diff)
        BY <1>2, <1>3, <2>2
      <3>2. c \in Members(children[d]) /\ c \in Diff
        BY <3>1, MembersType
      <3> QED
        BY <1>4, <3>2 DEF AdoptionInv
    <2> QED
      BY <2>1, <2>2
  <1> QED
    BY <1>4, <1>6

(* The diffs that a traversal can reach stay within reach.                  *)
GraphGrows ==
    /\ \A d \in Diff : d \in Diff' /\ canonical'[d] = canonical[d]
    /\ Reached \subseteq Reached'
    /\ DOMAIN roots' = DOMAIN roots
    /\ \A i \in DOMAIN roots : roots[i] # 0 => roots'[i] = roots[i]

LEMMA GrowsWithParents ==
    ASSUME GraphTypeOK,
           \A d \in Diff : /\ d \in Diff' /\ canonical'[d] = canonical[d]
                           /\ parent[d] # 0 => parent'[d] # 0,
           DOMAIN roots' = DOMAIN roots,
           \A i \in DOMAIN roots : roots[i] # 0 => roots'[i] = roots[i]
    PROVE  GraphGrows
  <1>1. ASSUME NEW d \in Diff, d \in Members(roots)
        PROVE  d \in Members(roots')
    <2>1. PICK i \in DOMAIN roots : d = roots[i]
      BY <1>1 DEF Members
    <2>2. d # 0
      BY DEF GraphTypeOK, RegistryTypeOK, Diff
    <2> QED
      BY <2>1, <2>2 DEF Members
  <1> QED
    BY <1>1 DEF GraphGrows, Reached

LEMMA GraphStepGrows ==
    ASSUME GraphTypeOK, AdoptionInv, [GraphStep]_graphVars
    PROVE  GraphGrows /\ AdoptionInv'
  <1>1. ASSUME NEW s \in Subject, NEW p, NewDiff(s, p), UNCHANGED <<asked, roots>>
        PROVE  GraphGrows /\ AdoptionInv'
    BY <1>1, NewDiffKeeps, GrowsWithParents DEF AdoptionInv
  <1>2. CASE ComputeDeferred
    BY <1>1, <1>2, TopType DEF ComputeDeferred
  <1>3. CASE ComputeKnownClass
    BY <1>1, <1>3, TopType DEF ComputeKnownClass
  <1>4. CASE ComputeNewClass
    BY <1>1, <1>4, TopType DEF ComputeNewClass
  <1>5. CASE FinishCompound
    BY <1>1, <1>5, TopType DEF FinishCompound
  <1>6. ASSUME UNCHANGED <<subject, canonical, hierarchy, roots>>,
               asked' = asked \/ asked' = Nobody
                 \/ (\E i \in DOMAIN roots : roots[i] = 0 /\ asked' = Client("root", i))
                 \/ (\E d \in Diff : asked' = Client("type", d))
        PROVE  GraphGrows /\ AdoptionInv'
    <2>1. GraphGrows
      BY <1>6 DEF GraphGrows, Reached, Diff, hierarchy
    <2>2. asked'.who = "root" => roots'[asked'.of] = 0
      BY <1>6 DEF AdoptionInv, Client, Nobody
    <2> QED
      BY <1>6, <2>1, <2>2 DEF AdoptionInv, Diff, hierarchy
  <1>7. CASE ComputePart
    BY <1>6, <1>7 DEF ComputePart, registry
  <1>8. CASE FinishClass
    BY <1>6, <1>8 DEF FinishClass
  <1>9. CASE GetType
    BY <1>6, <1>9 DEF GetType, Answered
  <1>10. ASSUME NEW i \in DOMAIN roots, AskRoot(i)
         PROVE  GraphGrows /\ AdoptionInv'
    BY <1>6, <1>10 DEF AskRoot, Ask, registry
  <1>11. ASSUME NEW d \in Diff, AskType(d)
         PROVE  GraphGrows /\ AdoptionInv'
    BY <1>6, <1>11 DEF AskType, Ask, registry
  <1>12. CASE GetRoot
    <2>1. roots' = [roots EXCEPT ![asked.of] = result] /\ roots[asked.of] = 0
      BY <1>12 DEF GetRoot, AdoptionInv
    <2>2. UNCHANGED <<subject, canonical, finished, children, parent>> /\ asked' = Nobody
      BY <1>12 DEF GetRoot, Answered, registry, hierarchy
    <2>3. /\ DOMAIN roots' = DOMAIN roots
          /\ \A i \in DOMAIN roots : roots[i] # 0 => roots'[i] = roots[i]
      BY <2>1 DEF GraphTypeOK, CallsTypeOK
    <2>4. GraphGrows
      BY <2>2, <2>3, GrowsWithParents DEF Diff
    <2> QED
      BY <2>2, <2>4 DEF AdoptionInv, Client, Nobody, Diff
  <1>13. ASSUME NEW d \in Diff, FinishDiffType(d)
         PROVE  GraphGrows /\ AdoptionInv'
    <2>1. UNCHANGED <<subject, canonical, asked, roots>>
      BY <1>13 DEF FinishDiffType, registry
    <2>2. GraphGrows
      BY <1>13, <2>1, FinishKeeps, GrowsWithParents DEF Diff
    <2> QED
      BY <1>13, <2>1, <2>2, FinishKeeps DEF AdoptionInv, Diff
  <1>14. CASE UNCHANGED graphVars
    BY <1>6, <1>14 DEF graphVars, registry
  <1> QED
    BY <1>2, <1>3, <1>4, <1>5, <1>7, <1>8, <1>9, <1>10, <1>11, <1>12, <1>13, <1>14
       DEF GraphStep, Build, Compute, Finish

(* What a diff is about does not change.                                    *)
SubjectsKept == abi' = abi /\ \A d \in Diff : subject'[d] = subject[d]

LEMMA GraphStepKeepsSubjects ==
    ASSUME GraphTypeOK, [GraphStep]_graphVars
    PROVE  SubjectsKept
  <1>1. ASSUME NEW s, subject' = Append(subject, s), abi' = abi
        PROVE  SubjectsKept
    <2>1. subject \in Seq(Subject) /\ Len(subject) \in Nat
      BY DEF GraphTypeOK, RegistryTypeOK
    <2>2. \A d \in 1 .. Len(subject) : Append(subject, s)[d] = subject[d]
      BY <2>1
    <2> QED
      BY <1>1, <2>2 DEF SubjectsKept, Diff
  <1>2. CASE ComputeDeferred
    BY <1>1, <1>2 DEF ComputeDeferred, NewDiff
  <1>3. CASE ComputeKnownClass
    BY <1>1, <1>3 DEF ComputeKnownClass, NewDiff
  <1>4. CASE ComputeNewClass
    BY <1>1, <1>4 DEF ComputeNewClass, NewDiff
  <1>5. CASE FinishCompound
    BY <1>1, <1>5 DEF FinishCompound, NewDiff
  <1>6. ASSUME UNCHANGED <<abi, subject>>
        PROVE  SubjectsKept
    BY <1>6 DEF SubjectsKept
  <1>7. CASE ComputePart \/ FinishClass \/ GetRoot \/ GetType \/ UNCHANGED graphVars
    BY <1>6, <1>7 DEF ComputePart, FinishClass, GetRoot, GetType, graphVars, registry
  <1>8. ASSUME NEW i, AskRoot(i)
        PROVE  SubjectsKept
    BY <1>6, <1>8 DEF AskRoot, Ask, registry
  <1>9. ASSUME NEW d, AskType(d)
        PROVE  SubjectsKept
    BY <1>6, <1>9 DEF AskType, Ask, registry
  <1>10. ASSUME NEW d, FinishDiffType(d)
         PROVE  SubjectsKept
    BY <1>6, <1>10 DEF FinishDiffType, registry
  <1> QED
    BY <1>2, <1>3, <1>4, <1>5, <1>7, <1>8, <1>9, <1>10 DEF GraphStep, Build, Compute, Finish

(* A diff that was finished stays so.                                       *)
LEMMA GraphStepKeepsFinished ==
    ASSUME GraphTypeOK, [GraphStep]_graphVars
    PROVE  \A d \in Diff : finished[d] => finished'[d]
  <1>1. /\ finished \in Seq(BOOLEAN) /\ Len(finished) = Len(subject) /\ DOMAIN finished = Diff
        /\ Len(subject) \in Nat
    BY DEF GraphTypeOK, HierarchyTypeOK, RegistryTypeOK, Diff
  <1>2. CASE finished' = Append(finished, FALSE)
    BY <1>1, <1>2 DEF Diff
  <1>3. CASE UNCHANGED finished
    BY <1>3
  <1>4. CASE ComputeDeferred \/ ComputeKnownClass \/ ComputeNewClass \/ FinishCompound
    BY <1>2, <1>4 DEF ComputeDeferred, ComputeKnownClass, ComputeNewClass, FinishCompound, NewDiff
  <1>5. CASE ComputePart \/ FinishClass \/ GetRoot \/ GetType \/ UNCHANGED graphVars
    BY <1>3, <1>5 DEF ComputePart, FinishClass, GetRoot, GetType, graphVars, hierarchy
  <1>6. ASSUME NEW c, NEW s, Ask(c, s)
        PROVE  \A d \in Diff : finished[d] => finished'[d]
    BY <1>3, <1>6 DEF Ask, hierarchy
  <1>7. ASSUME NEW e \in Diff, FinishDiffType(e)
        PROVE  \A d \in Diff : finished[d] => finished'[d]
    BY <1>1, <1>7 DEF FinishDiffType
  <1> QED
    BY <1>4, <1>5, <1>6, <1>7 DEF GraphStep, Build, Compute, Finish, AskRoot, AskType

LEMMA AdoptionInit == GraphInit => AdoptionInv
  BY DEF GraphInit, AdoptionInv, Nobody, Client, Diff

-----------------------------------------------------------------------------
(* What the types say of one diff, or of one call, at a time.               *)
LEMMA NodeFacts ==
    ASSUME GraphTypeOK
    PROVE  /\ Len(subject) \in Nat /\ Diff = 1 .. Len(subject)
           /\ 0 \notin Diff /\ Len(subject) + 1 \notin Diff
           /\ \A d \in Diff : /\ subject[d] \in Subject /\ canonical[d] \in Diff
                              /\ parts[d] \in Seq(Diff) /\ Members(parts[d]) \subseteq Diff
                              /\ children[d] \in Seq(Diff) /\ Members(children[d]) \subseteq Diff
                              /\ finished[d] \in BOOLEAN /\ parent[d] \in Diff \cup {0}
  <1>1. Len(subject) \in Nat /\ Diff = 1 .. Len(subject)
    BY DEF GraphTypeOK, RegistryTypeOK, Diff
  <1>2. 0 \notin Diff /\ Len(subject) + 1 \notin Diff /\ 0 .. Len(subject) = Diff \cup {0}
    BY <1>1
  <1> SUFFICES ASSUME NEW d \in Diff
               PROVE  /\ subject[d] \in Subject /\ canonical[d] \in Diff
                      /\ parts[d] \in Seq(Diff) /\ Members(parts[d]) \subseteq Diff
                      /\ children[d] \in Seq(Diff) /\ Members(children[d]) \subseteq Diff
                      /\ finished[d] \in BOOLEAN /\ parent[d] \in Diff \cup {0}
    BY <1>1, <1>2
  <1>3. subject[d] \in Subject /\ canonical[d] \in Diff
    BY <1>1, ElementOfSeq DEF GraphTypeOK, RegistryTypeOK
  <1>4. parts[d] \in Seq(Diff)
    BY <1>1, ElementOfSeq DEF GraphTypeOK, RegistryTypeOK
  <1>5. children[d] \in Seq(Diff)
    BY <1>1, ElementOfSeq DEF GraphTypeOK, HierarchyTypeOK
  <1>6. finished[d] \in BOOLEAN /\ parent[d] \in Diff \cup {0}
    BY <1>1, <1>2, ElementOfSeq DEF GraphTypeOK, HierarchyTypeOK
  <1> QED
    BY <1>3, <1>4, <1>5, <1>6, MembersType

LEMMA CallFacts ==
    ASSUME GraphTypeOK
    PROVE  /\ Len(calls) \in Nat /\ DOMAIN calls = 1 .. Len(calls)
           /\ result \in Diff \cup {0}
           /\ \A i \in DOMAIN calls :
                /\ calls[i].s \in Subject /\ calls[i].node \in Diff \cup {0}
                /\ calls[i].got \in Seq(Diff) /\ Members(calls[i].got) \subseteq Diff
           /\ calls # <<>> => Top = calls[Len(calls)] /\ Len(calls) \in DOMAIN calls
           /\ calls = <<>> <=> DOMAIN calls = {}
  <1>1. calls \in Seq(CallWith(Len(subject))) /\ result \in 0 .. Len(subject)
    BY DEF GraphTypeOK, CallsTypeOK, CallWith, Diff
  <1>2. Len(calls) \in Nat /\ DOMAIN calls = 1 .. Len(calls)
    BY <1>1, LenProperties
  <1>3. 0 .. Len(subject) = Diff \cup {0}
    BY NodeFacts
  <1>4. ASSUME NEW i \in DOMAIN calls
        PROVE  /\ calls[i].s \in Subject /\ calls[i].node \in Diff \cup {0}
               /\ calls[i].got \in Seq(Diff) /\ Members(calls[i].got) \subseteq Diff
    <2>1. calls[i] \in CallWith(Len(subject))
      BY <1>1, <1>2, ElementOfSeq
    <2>2. calls[i].got \in Seq(Diff)
      BY <2>1 DEF CallWith, Diff
    <2> QED
      BY <1>3, <2>1, <2>2, MembersType DEF CallWith
  <1>5. calls = <<>> <=> Len(calls) = 0
    BY <1>1, EmptySeq
  <1>6. calls # <<>> => Len(calls) \in DOMAIN calls
    BY <1>2, <1>5
  <1>7. DOMAIN calls = {} <=> Len(calls) = 0
    BY <1>2
  <1> QED
    BY <1>1, <1>2, <1>3, <1>4, <1>5, <1>6, <1>7 DEF Top

(* A new node leaves the others alone.                                      *)
OldKept ==
    \A d \in Diff : /\ subject'[d] = subject[d] /\ canonical'[d] = canonical[d]
                    /\ parts'[d] = parts[d] /\ finished'[d] = finished[d]
                    /\ children'[d] = children[d] /\ parent'[d] = parent[d]

LEMMA NewDiffFacts ==
    ASSUME GraphTypeOK, NEW s \in Subject, NEW p \in Seq(Diff), NewDiff(s, p),
           NEW n, n = Len(subject) + 1
    PROVE  /\ Diff' = Diff \cup {n} /\ n \notin Diff /\ n # 0
           /\ OldKept
           /\ subject'[n] = s /\ parts'[n] = p
           /\ canonical'[n] = (IF canonicalOf[s] = 0 THEN n ELSE canonicalOf[s])
           /\ ~finished'[n] /\ children'[n] = <<>> /\ parent'[n] = 0
  <1>1. /\ Len(subject) \in Nat /\ Len(subject') = n /\ n # 0
        /\ Diff = 1 .. Len(subject) /\ n \notin Diff
    BY NodeFacts, NewDiffType
  <1>2. Diff' = Diff \cup {n}
    BY <1>1 DEF Diff
  <1>3. PICK c : c = IF canonicalOf[s] = 0 THEN n ELSE canonicalOf[s]
    OBVIOUS
  <1>4. c \in Nat
    BY <1>1, <1>3 DEF GraphTypeOK, RegistryTypeOK
  <1>5. /\ subject \in Seq(Subject) /\ DOMAIN subject = Diff
        /\ canonical \in Seq(Nat) /\ Len(canonical) = Len(subject)
        /\ parts \in Seq(Seq(Diff)) /\ Len(parts) = Len(subject)
    <2>1. Diff \subseteq Nat
      BY <1>1
    <2> QED
      BY <1>1, <2>1, SeqGrows, LenProperties DEF GraphTypeOK, RegistryTypeOK
  <1>6. /\ finished \in Seq(BOOLEAN) /\ Len(finished) = Len(subject)
        /\ children \in Seq(Seq(Diff)) /\ Len(children) = Len(subject) /\ <<>> \in Seq(Diff)
        /\ parent \in Seq(0 .. Len(subject)) /\ Len(parent) = Len(subject)
        /\ 0 \in 0 .. Len(subject)
    BY <1>1 DEF GraphTypeOK, HierarchyTypeOK
  <1>7. /\ subject' = Append(subject, s) /\ canonical' = Append(canonical, c)
        /\ parts' = Append(parts, p) /\ finished' = Append(finished, FALSE)
        /\ children' = Append(children, <<>>) /\ parent' = Append(parent, 0)
    BY <1>3 DEF NewDiff
  <1>8. /\ \A d \in Diff : /\ subject'[d] = subject[d] /\ canonical'[d] = canonical[d]
                           /\ parts'[d] = parts[d]
        /\ subject'[n] = s /\ canonical'[n] = c /\ parts'[n] = p
    BY <1>1, <1>4, <1>5, <1>7, SeqAppend
  <1>9. /\ \A d \in Diff : /\ finished'[d] = finished[d] /\ children'[d] = children[d]
                           /\ parent'[d] = parent[d]
        /\ ~finished'[n] /\ children'[n] = <<>> /\ parent'[n] = 0
    <2>1. (\A d \in Diff : children'[d] = children[d]) /\ children'[n] = <<>>
      <3>1. PICK S : S = Seq(Diff)
        OBVIOUS
      <3>2. children \in Seq(S) /\ Len(children) = Len(subject) /\ <<>> \in S
        BY <1>6, <3>1
      <3>3. children' = Append(children, <<>>)
        BY <1>7
      <3> QED
        BY <1>1, <3>2, <3>3, SeqAppend
    <2>2. (\A d \in Diff : parent'[d] = parent[d]) /\ parent'[n] = 0
      BY <1>1, <1>6, <1>7, SeqAppend
    <2>3. (\A d \in Diff : finished'[d] = finished[d]) /\ finished'[n] = FALSE
      <3>1. PICK B : B = BOOLEAN
        OBVIOUS
      <3>2. PICK e \in B : e = FALSE
        BY <3>1
      <3>3. finished \in Seq(B) /\ Len(finished) = Len(subject) /\ finished' = Append(finished, e)
        BY <1>6, <1>7, <3>1, <3>2
      <3>4. /\ \A d \in 1 .. Len(finished) : Append(finished, e)[d] = finished[d]
            /\ Append(finished, e)[Len(finished) + 1] = e
        BY <3>3, SeqAppend
      <3> QED
        BY <1>1, <3>2, <3>3, <3>4
    <2> QED
      BY <2>1, <2>2, <2>3
  <1> QED
    BY <1>1, <1>2, <1>3, <1>8, <1>9 DEF OldKept

(* The call below the top gets the diff that is returned.                   *)
LEMMA ReturnFacts ==
    ASSUME GraphTypeOK, calls # <<>>, NEW d \in Nat, Return(d)
    PROVE  /\ DOMAIN calls' = 1 .. Len(calls) - 1
           /\ \A i \in DOMAIN calls' :
                /\ i \in DOMAIN calls /\ i # Len(calls)
                /\ calls'[i].s = calls[i].s /\ calls'[i].node = calls[i].node
                /\ calls'[i].got = IF i = Len(calls) - 1 THEN Append(calls[i].got, d)
                                                         ELSE calls[i].got
           /\ Len(calls) = 1 => calls' = <<>> /\ result' = d
           /\ Len(calls) # 1 => result' = result
  <1>1. calls \in Seq(CallWith(Len(subject))) /\ Len(calls) \in Nat \ {0}
    BY TopType DEF GraphTypeOK, CallsTypeOK, CallWith, Diff
  <1>2. CASE Len(calls) = 1
    BY <1>1, <1>2 DEF Return
  <1>3. CASE Len(calls) # 1
    <2> DEFINE r == Below[Len(Below)]
               ret == Call(r.s, r.node, Append(r.got, d))
    <2>1. /\ Below \in Seq(CallWith(Len(subject)))
          /\ Len(Below) = Len(calls) - 1 /\ Len(Below) \in Nat \ {0}
          /\ \A i \in DOMAIN Below : i \in DOMAIN calls /\ Below[i] = calls[i]
      BY <1>1, <1>3, BelowType
    <2>2. DOMAIN Below = 1 .. Len(Below) /\ Len(Below) \in DOMAIN Below
      BY <2>1
    <2>3. calls' = [Below EXCEPT ![Len(Below)] = ret] /\ result' = result
      BY <1>3, <2>1 DEF Return
    <2>4. ret.s = r.s /\ ret.node = r.node /\ ret.got = Append(r.got, d)
      BY DEF Call
    <2> HIDE DEF ret
    <2>5. /\ DOMAIN calls' = DOMAIN Below
          /\ \A i \in DOMAIN Below : calls'[i] = IF i = Len(Below) THEN ret ELSE Below[i]
      BY <2>1, <2>2, <2>3
    <2>6. \A i \in DOMAIN Below : i # Len(calls)
      BY <2>1, <2>2
    <2> QED
      BY <1>3, <2>1, <2>2, <2>3, <2>4, <2>5, <2>6
  <1> QED
    BY <1>2, <1>3

-----------------------------------------------------------------------------
(* Every node is held in one place: the call that made it hands it to its   *)
(* caller, which puts it among the parts of its own node.  So no two nodes  *)
(* have a part in common, the class diffs of a subject aside.               *)
Slot == {"parts", "got", "node", "result"} \X Nat

StackAt(c, w) ==
    \/ w[1] = "got" /\ w[2] \in DOMAIN calls /\ c \in Members(calls[w[2]].got)
    \/ w[1] = "node" /\ w[2] \in DOMAIN calls /\ c = calls[w[2]].node
    \/ w[1] = "result" /\ w[2] = 0 /\ c = result

At(c, w) == \/ StackAt(c, w)
            \/ w[1] = "parts" /\ w[2] \in Diff /\ c \in Members(parts[w[2]])

PlaceInv == \A c \in Diff : \A v, w \in Slot : At(c, v) /\ At(c, w) => v = w

(* What a place holds moves to a place of its own, or is dropped.           *)
MovesBy(M, n, z) ==
    \A c \in Diff', w \in Slot :
       At(c, w)' => \/ c = n /\ w = z
                    \/ c \in Diff /\ \E v \in Slot : At(c, v) /\ w = M[v]

LEMMA Moved ==
    ASSUME PlaceInv, NEW n, n \notin Diff, NEW z, NEW M, MovesBy(M, n, z)
    PROVE  PlaceInv'
  <1> SUFFICES ASSUME NEW c \in Diff', NEW v \in Slot, NEW w \in Slot, At(c, v)', At(c, w)'
               PROVE  v = w
    BY DEF PlaceInv
  <1>1. CASE c = n
    BY <1>1 DEF MovesBy
  <1>2. CASE c # n
    <2>1. PICK x \in Slot : c \in Diff /\ At(c, x) /\ v = M[x]
      BY <1>2 DEF MovesBy
    <2>2. PICK y \in Slot : At(c, y) /\ w = M[y]
      BY <1>2 DEF MovesBy
    <2>3. x = y
      BY <1>2, <2>1, <2>2 DEF PlaceInv
    <2> QED
      BY <2>1, <2>2, <2>3
  <1> QED
    BY <1>1, <1>2

LEMMA MembersAppend ==
    ASSUME NEW S, NEW s \in Seq(S), NEW e
    PROVE  Members(Append(s, e)) = Members(s) \cup {e}
  <1>1. /\ Len(s) \in Nat /\ DOMAIN s = 1 .. Len(s)
        /\ DOMAIN Append(s, e) = 1 .. Len(s) + 1
        /\ Append(s, e)[Len(s) + 1] = e
        /\ \A i \in 1 .. Len(s) : Append(s, e)[i] = s[i]
    <2>1. s \in Seq(S \cup {e})
      BY SeqGrows
    <2> QED
      BY <2>1, SeqAppend, LenProperties, AppendProperties
  <1>2. 1 .. Len(s) + 1 = 1 .. Len(s) \cup {Len(s) + 1}
    BY <1>1
  <1> QED
    BY <1>1, <1>2 DEF Members

LEMMA NoMembers == Members(<<>>) = {}
  BY DEF Members

(* Where the diff goes that the top call returns, and what is dropped.      *)
LEMMA ReturnPlaces ==
    ASSUME GraphTypeOK, calls # <<>>, NEW d \in Nat, Return(d),
           NEW k, k = Len(calls),
           NEW z, z = IF k = 1 THEN <<"result", 0>> ELSE <<"got", k - 1>>
    PROVE  \A c : \A w \in Slot :
              StackAt(c, w)' => \/ c = d /\ w = z
                                \/ StackAt(c, w) /\ w # <<"got", k>> /\ w # <<"node", k>>
  <1> SUFFICES ASSUME NEW c, NEW w \in Slot, StackAt(c, w)'
               PROVE  \/ c = d /\ w = z
                      \/ StackAt(c, w) /\ w # <<"got", k>> /\ w # <<"node", k>>
    OBVIOUS
  <1>1. w = <<w[1], w[2]>> /\ w[2] \in Nat
    BY DEF Slot
  <1>2. k \in Nat
    BY CallFacts
  <1>3. /\ \A i \in DOMAIN calls' :
             /\ i \in DOMAIN calls /\ i # k
             /\ calls'[i].node = calls[i].node
             /\ calls'[i].got = IF i = k - 1 THEN Append(calls[i].got, d) ELSE calls[i].got
        /\ k = 1 => calls' = <<>> /\ result' = d
        /\ k # 1 => result' = result
    BY ReturnFacts
  <1>4. CASE w[1] = "got" /\ w[2] \in DOMAIN calls' /\ c \in Members(calls'[w[2]].got)
    <2>1. CASE w[2] = k - 1
      <3>1. c \in Members(Append(calls[w[2]].got, d)) /\ calls[w[2]].got \in Seq(Diff)
        BY <1>3, <1>4, <2>1, CallFacts
      <3>2. c = d \/ c \in Members(calls[w[2]].got)
        BY <3>1, MembersAppend
      <3>3. k # 1
        BY <1>3, <1>4
      <3>4. w = z /\ w # <<"got", k>> /\ w # <<"node", k>>
        BY <1>1, <1>2, <1>4, <2>1, <3>3
      <3> QED
        BY <1>3, <1>4, <3>2, <3>4 DEF StackAt
    <2>2. CASE w[2] # k - 1
      BY <1>3, <1>4, <2>2 DEF StackAt
    <2> QED
      BY <2>1, <2>2
  <1>5. CASE w[1] = "node" /\ w[2] \in DOMAIN calls' /\ c = calls'[w[2]].node
    BY <1>3, <1>5 DEF StackAt
  <1>6. CASE w[1] = "result" /\ w[2] = 0 /\ c = result'
    BY <1>1, <1>3, <1>6 DEF StackAt
  <1> QED
    BY <1>4, <1>5, <1>6 DEF StackAt

LEMMA PlacedIsDiff ==
    ASSUME GraphTypeOK, NEW c, NEW w \in Slot, At(c, w), c # 0
    PROVE  c \in Diff
  BY NodeFacts, CallFacts DEF At, StackAt

(* A node is made and returned: it takes the parts that its call has got.   *)
LEMMA NewDiffPlaces ==
    ASSUME GraphTypeOK, PlaceInv, calls # <<>>, NEW p \in Seq(Diff), p = <<>> \/ p = Top.got,
           NewDiff(Top.s, p), Return(Len(subject) + 1)
    PROVE  PlaceInv'
  <1>1. PICK n : n = Len(subject) + 1
    OBVIOUS
  <1>2. PICK k : k = Len(calls)
    OBVIOUS
  <1>3. PICK z : z = IF k = 1 THEN <<"result", 0>> ELSE <<"got", k - 1>>
    OBVIOUS
  <1>4. PICK M : M = [w \in Slot |-> IF w = <<"got", k>> THEN <<"parts", n>> ELSE w]
    OBVIOUS
  <1>5. /\ Diff' = Diff \cup {n} /\ n \notin Diff /\ n # 0 /\ n \in Nat /\ 0 \notin Diff
        /\ \A d \in Diff : parts'[d] = parts[d]
        /\ parts'[n] = p
    BY <1>1, TopType, NodeFacts, NewDiffFacts DEF OldKept
  <1>6. /\ k \in Nat /\ k \in DOMAIN calls /\ Top = calls[k]
    BY <1>2, CallFacts
  <1>7. ASSUME NEW c \in Diff', NEW w \in Slot, At(c, w)'
        PROVE  \/ c = n /\ w = z
               \/ c \in Diff /\ \E v \in Slot : At(c, v) /\ w = M[v]
    <2>1. CASE StackAt(c, w)'
      <3>1. \/ c = n /\ w = z
            \/ StackAt(c, w) /\ w # <<"got", k>>
        BY <1>1, <1>2, <1>3, <1>5, <2>1, ReturnPlaces
      <3>2. CASE StackAt(c, w) /\ w # <<"got", k>>
        <4>1. At(c, w) /\ c \in Diff
          BY <1>5, <3>2, PlacedIsDiff DEF At
        <4> QED
          BY <1>4, <3>2, <4>1
      <3> QED
        BY <3>1, <3>2
    <2>2. CASE w[1] = "parts" /\ w[2] \in Diff' /\ c \in Members(parts'[w[2]])
      <3>1. w = <<w[1], w[2]>>
        BY DEF Slot
      <3>2. CASE w[2] = n
        <4>1. c \in Members(p) /\ p = Top.got
          BY <1>5, <2>2, <3>2, NoMembers
        <4>2. <<"got", k>> \in Slot /\ At(c, <<"got", k>>)
          BY <1>6, <4>1 DEF At, StackAt, Slot
        <4>3. c \in Diff
          BY <1>6, <4>1, CallFacts
        <4>4. M[<<"got", k>>] = w
          BY <1>4, <2>2, <3>1, <3>2, <4>2
        <4> QED
          BY <4>2, <4>3, <4>4
      <3>3. CASE w[2] # n
        <4>1. w[2] \in Diff /\ c \in Members(parts[w[2]])
          BY <1>5, <2>2, <3>3
        <4>2. At(c, w) /\ c \in Diff
          BY <2>2, <4>1, NodeFacts DEF At
        <4>3. w = M[w]
          BY <1>4, <2>2
        <4> QED
          BY <4>2, <4>3
      <3> QED
        BY <3>2, <3>3
    <2> QED
      BY <1>7, <2>1, <2>2 DEF At
  <1>8. MovesBy(M, n, z)
    BY <1>7 DEF MovesBy
  <1> QED
    BY <1>5, <1>8, Moved

(* What the other steps do to the stack.                                    *)
LEMMA NewClassFacts ==
    ASSUME GraphTypeOK, ComputeNewClass, NEW k, k = Len(calls)
    PROVE  /\ k \in DOMAIN calls /\ DOMAIN calls' = DOMAIN calls
           /\ \A i \in DOMAIN calls : i # k => calls'[i] = calls[i]
           /\ calls[k].node = 0 /\ calls'[k].node = Len(subject) + 1
           /\ calls'[k].s = calls[k].s /\ calls'[k].got = calls[k].got
           /\ NewDiff(Top.s, <<>>) /\ Top.s = calls[k].s /\ Top.s \in Subject
           /\ <<>> \in Seq(Diff) /\ calls # <<>> /\ KindIn(abi, calls[k].s) = "class"
           /\ canonicalOf[calls[k].s] = 0
  <1>1. calls # <<>> /\ <<>> \in Seq(Diff)
    BY DEF ComputeNewClass
  <1>2. k \in DOMAIN calls /\ Top = calls[k] /\ Top.s \in Subject
    BY <1>1, CallFacts, TopType
  <1>3. PICK c : c = Call(Top.s, Len(subject) + 1, Top.got)
    OBVIOUS
  <1>4. calls' = [calls EXCEPT ![k] = c]
    BY <1>2, <1>3 DEF ComputeNewClass
  <1>5. c.s = Top.s /\ c.node = Len(subject) + 1 /\ c.got = Top.got
    BY <1>3 DEF Call
  <1>6. /\ DOMAIN calls' = DOMAIN calls /\ calls'[k] = c
        /\ \A i \in DOMAIN calls : i # k => calls'[i] = calls[i]
    <2>1. calls = [i \in DOMAIN calls |-> calls[i]]
      <3>1. PICK S : S = CallWith(Len(subject))
        OBVIOUS
      <3>2. calls \in Seq(S)
        BY <3>1 DEF GraphTypeOK, CallsTypeOK, CallWith, Diff
      <3> QED
        BY <3>2
    <2> QED
      BY <1>2, <1>4, <2>1
  <1> QED
    BY <1>1, <1>2, <1>5, <1>6 DEF ComputeNewClass

LEMMA ComputePartFacts ==
    ASSUME GraphTypeOK, ComputePart, NEW k, k = Len(calls)
    PROVE  /\ k \in DOMAIN calls /\ Top = calls[k] /\ k \in Nat
           /\ DOMAIN calls' = DOMAIN calls \cup {k + 1} /\ k + 1 \notin DOMAIN calls
           /\ \A i \in DOMAIN calls : calls'[i] = calls[i]
           /\ calls'[k + 1] = NewCall(PartsIn(abi, Top.s)[Len(Top.got) + 1])
           /\ calls'[k + 1].node = 0 /\ calls'[k + 1].got = <<>>
           /\ calls'[k + 1].s = PartsIn(abi, Top.s)[Len(Top.got) + 1]
           /\ Len(Top.got) < Len(PartsIn(abi, Top.s))
           /\ KindIn(abi, Top.s) # "var"
           /\ KindIn(abi, Top.s) = "class" => Top.node # 0
           /\ UNCHANGED <<abi, registry, asked, result, roots, hierarchy>>
  <1>1. /\ k \in DOMAIN calls /\ Top = calls[k] /\ k \in Nat
        /\ DOMAIN calls = 1 .. k
    BY CallFacts DEF ComputePart
  <1>2. PICK c : c = NewCall(PartsIn(abi, Top.s)[Len(Top.got) + 1])
    OBVIOUS
  <1>3. calls' = Append(calls, c)
    BY <1>2 DEF ComputePart
  <1>4. c.node = 0 /\ c.got = <<>> /\ c.s = PartsIn(abi, Top.s)[Len(Top.got) + 1]
    BY <1>2 DEF NewCall, Call
  <1>5. /\ DOMAIN calls' = 1 .. k + 1 /\ calls'[k + 1] = c
        /\ \A i \in 1 .. k : calls'[i] = calls[i]
    <2>1. PICK S : S = CallWith(Len(subject)) \cup {c}
      OBVIOUS
    <2>2. calls \in Seq(S) /\ c \in S
      BY <2>1, SeqGrows DEF GraphTypeOK, CallsTypeOK, CallWith, Diff
    <2>3. Append(calls, c) \in Seq(S) /\ Len(Append(calls, c)) = k + 1
      BY <2>2, AppendProperties
    <2> QED
      BY <1>3, <2>2, <2>3, SeqAppend, LenProperties
  <1>6. 1 .. k + 1 = 1 .. k \cup {k + 1} /\ k + 1 \notin 1 .. k
    BY <1>1
  <1> QED
    BY <1>1, <1>2, <1>4, <1>5, <1>6 DEF ComputePart

LEMMA AskFacts ==
    ASSUME NEW client, NEW s, Ask(client, s)
    PROVE  /\ DOMAIN calls' = {1} /\ Len(calls') = 1 /\ calls'[1].s = s
           /\ calls'[1].node = 0 /\ calls'[1].got = <<>> /\ calls' # <<>>
           /\ Idle /\ asked' = client
           /\ UNCHANGED <<abi, registry, result, roots, hierarchy>>
  BY DEF Ask, NewCall, Call

LEMMA FinishClassFacts ==
    ASSUME GraphTypeOK, FinishClass, NEW k, k = Len(calls)
    PROVE  /\ k \in DOMAIN calls /\ Top = calls[k] /\ calls # <<>>
           /\ Top.node \in Diff /\ Top.node \in Nat /\ KindIn(abi, Top.s) = "class"
           /\ HasAllParts /\ Return(Top.node)
           /\ parts'[Top.node] = Top.got
           /\ \A d \in Diff : d # Top.node => parts'[d] = parts[d]
           /\ UNCHANGED <<abi, canonicalOf, subject, canonical, asked, roots, hierarchy, Diff>>
  <1>1. k \in DOMAIN calls /\ Top = calls[k] /\ calls # <<>>
    BY CallFacts DEF FinishClass
  <1>2. Top.node \in Diff /\ Top.node \in Nat
    BY <1>1, CallFacts, NodeFacts DEF FinishClass
  <1>3. parts' = [parts EXCEPT ![Top.node] = Top.got] /\ DOMAIN parts = Diff
    BY DEF FinishClass, GraphTypeOK, RegistryTypeOK, Diff
  <1>4. parts \in [Diff -> Seq(Diff)]
    BY <1>3 DEF GraphTypeOK, RegistryTypeOK
  <1> QED
    BY <1>1, <1>2, <1>3, <1>4 DEF FinishClass, Diff

LEMMA GetTypeFacts ==
    ASSUME GraphTypeOK, GetType
    PROVE  /\ asked.of \in Diff /\ asked = Client("type", asked.of) /\ result \in Diff
           /\ parts'[asked.of] = <<result>>
           /\ \A d \in Diff : d # asked.of => parts'[d] = parts[d]
           /\ asked' = Nobody /\ result' = 0
           /\ UNCHANGED <<abi, canonicalOf, subject, canonical, calls, roots, hierarchy, Diff>>
  <1>1. asked.who = "type" /\ result # 0
    BY DEF GetType
  <1>2. PICK d \in Diff : asked = Client("type", d)
    <2>1. asked # Nobody /\ \A i \in DOMAIN roots : asked # Client("root", i)
      BY <1>1 DEF Client, Nobody
    <2> QED
      BY <2>1, Zenon DEF GraphTypeOK, CallsTypeOK
  <1>3. asked.of = d
    BY <1>2 DEF Client
  <1>4. parts' = [parts EXCEPT ![asked.of] = <<result>>] /\ DOMAIN parts = Diff
    BY DEF GetType, GraphTypeOK, RegistryTypeOK, Diff
  <1>5. parts \in [Diff -> Seq(Diff)]
    BY <1>4 DEF GraphTypeOK, RegistryTypeOK
  <1>6. /\ parts'[asked.of] = <<result>>
        /\ \A e \in Diff : e # asked.of => parts'[e] = parts[e]
    BY <1>2, <1>3, <1>4, <1>5
  <1> QED
    BY <1>1, <1>2, <1>3, <1>6, CallFacts DEF GetType, Answered, Diff

LEMMA StaysPlaced ==
    ASSUME PlaceInv, Diff' = Diff,
           \A c \in Diff, w \in Slot : At(c, w)' => At(c, w)
    PROVE  PlaceInv'
  BY DEF PlaceInv

LEMMA PlaceInductive ==
    ASSUME GraphTypeOK, PlaceInv, [GraphStep]_graphVars
    PROVE  PlaceInv'
  <1>1. CASE ComputeDeferred \/ ComputeKnownClass
    <2>1. PICK p : p = <<>>
      OBVIOUS
    <2>2. p \in Seq(Diff) /\ calls # <<>> /\ NewDiff(Top.s, p) /\ Return(Len(subject) + 1)
      BY <1>1, <2>1 DEF ComputeDeferred, ComputeKnownClass
    <2> QED
      BY <2>1, <2>2, NewDiffPlaces
  <1>2. CASE FinishCompound
    <2>1. PICK p : p = IF KindIn(abi, Top.s) \in Deferred THEN <<>> ELSE Top.got
      OBVIOUS
    <2>2. calls # <<>> /\ NewDiff(Top.s, p) /\ Return(Len(subject) + 1)
      BY <1>2, <2>1 DEF FinishCompound
    <2>3. p \in Seq(Diff) /\ (p = <<>> \/ p = Top.got)
      BY <2>1, <2>2, TopType
    <2> QED
      BY <2>2, <2>3, NewDiffPlaces
  <1>3. CASE ComputeNewClass
    <2>1. PICK k : k = Len(calls)
      OBVIOUS
    <2>2. PICK n : n = Len(subject) + 1
      OBVIOUS
    <2>3. PICK M : M = [w \in Slot |-> w]
      OBVIOUS
    <2>4. /\ k \in DOMAIN calls /\ DOMAIN calls' = DOMAIN calls
          /\ \A i \in DOMAIN calls : i # k => calls'[i] = calls[i]
          /\ calls'[k].node = n /\ calls'[k].got = calls[k].got
          /\ NewDiff(Top.s, <<>>) /\ Top.s \in Subject /\ <<>> \in Seq(Diff)
          /\ result' = result
      BY <1>3, <2>1, <2>2, NewClassFacts DEF ComputeNewClass
    <2>5. /\ Diff' = Diff \cup {n} /\ n \notin Diff /\ 0 \notin Diff /\ n # 0
          /\ \A d \in Diff : parts'[d] = parts[d]
          /\ parts'[n] = <<>>
      <3>1. PICK p \in Seq(Diff) : p = <<>>
        BY <2>4
      <3>2. NewDiff(Top.s, p) /\ Top.s \in Subject
        BY <2>4, <3>1
      <3>3. OldKept /\ Diff' = Diff \cup {n} /\ n \notin Diff /\ n # 0 /\ parts'[n] = p
        BY <2>2, <3>2, NewDiffFacts
      <3> QED
        BY <3>1, <3>3, NodeFacts DEF OldKept
    <2>6. ASSUME NEW c \in Diff', NEW w \in Slot, At(c, w)'
          PROVE  \/ c = n /\ w = <<"node", k>>
                 \/ c \in Diff /\ \E v \in Slot : At(c, v) /\ w = M[v]
      <3>1. w = <<w[1], w[2]>> /\ M[w] = w
        BY <2>3 DEF Slot
      <3>2. CASE w[1] = "node" /\ w[2] = k
        BY <2>4, <2>6, <3>1, <3>2 DEF At, StackAt
      <3>3. CASE ~(w[1] = "node" /\ w[2] = k)
        <4>1. CASE StackAt(c, w)'
          <5>1. StackAt(c, w)
            BY <2>4, <3>3, <4>1 DEF StackAt
          <5>2. At(c, w) /\ c # 0
            BY <2>5, <5>1 DEF At
          <5> QED
            BY <3>1, <5>2, PlacedIsDiff
        <4>2. CASE w[1] = "parts" /\ w[2] \in Diff' /\ c \in Members(parts'[w[2]])
          <5>1. w[2] \in Diff /\ c \in Members(parts[w[2]])
            BY <2>5, <4>2, NoMembers
          <5>2. At(c, w) /\ c \in Diff
            BY <4>2, <5>1, NodeFacts DEF At
          <5> QED
            BY <3>1, <5>2
        <4> QED
          BY <2>6, <4>1, <4>2 DEF At
      <3> QED
        BY <3>2, <3>3
    <2>7. MovesBy(M, n, <<"node", k>>)
      BY <2>6 DEF MovesBy
    <2> QED
      BY <2>5, <2>7, Moved
  <1>4. CASE ComputePart
    <2>1. PICK k : k = Len(calls)
      OBVIOUS
    <2>2. /\ DOMAIN calls' = DOMAIN calls \cup {k + 1}
          /\ \A i \in DOMAIN calls : calls'[i] = calls[i]
          /\ calls'[k + 1].node = 0 /\ calls'[k + 1].got = <<>>
          /\ UNCHANGED <<registry, result>>
      BY <1>4, <2>1, ComputePartFacts
    <2>3. Diff' = Diff /\ parts' = parts /\ result' = result /\ 0 \notin Diff
      BY <2>2, NodeFacts DEF registry, Diff
    <2>4. ASSUME NEW c \in Diff, NEW w \in Slot, At(c, w)'
          PROVE  At(c, w)
      BY <2>2, <2>3, <2>4, NoMembers DEF At, StackAt
    <2> QED
      BY <2>3, <2>4, StaysPlaced
  <1>5. CASE FinishClass
    <2>1. PICK k : k = Len(calls)
      OBVIOUS
    <2>2. PICK n : n = Top.node
      OBVIOUS
    <2>3. PICK z : z = IF k = 1 THEN <<"result", 0>> ELSE <<"got", k - 1>>
      OBVIOUS
    <2>4. /\ k \in DOMAIN calls /\ Top = calls[k] /\ calls # <<>> /\ n \in Diff /\ n \in Nat
          /\ Return(n) /\ parts'[n] = Top.got
          /\ \A d \in Diff : d # n => parts'[d] = parts[d]
          /\ Diff' = Diff /\ 0 \notin Diff /\ k \in Nat
      BY <1>5, <2>1, <2>2, FinishClassFacts, NodeFacts, CallFacts
    <2>5. PICK M : M = [w \in Slot |-> IF w = <<"got", k>> THEN <<"parts", n>>
                                        ELSE IF w = <<"node", k>> THEN z ELSE w]
      OBVIOUS
    <2>6. <<"got", k>> \in Slot /\ <<"node", k>> \in Slot /\ <<"got", k>> # <<"node", k>>
      BY <2>4 DEF Slot
    <2>7. M[<<"got", k>>] = <<"parts", n>> /\ M[<<"node", k>>] = z
      BY <2>5, <2>6
    <2>8. ASSUME NEW c \in Diff', NEW w \in Slot, At(c, w)'
          PROVE  \E v \in Slot : At(c, v) /\ w = M[v]
      <3>1. CASE StackAt(c, w)'
        <4>1. \/ c = n /\ w = z
              \/ StackAt(c, w) /\ w # <<"got", k>> /\ w # <<"node", k>>
          BY <2>1, <2>3, <2>4, <3>1, ReturnPlaces
        <4>2. CASE c = n /\ w = z
          <5>1. At(c, <<"node", k>>)
            BY <2>2, <2>4, <4>2 DEF At, StackAt
          <5> QED
            BY <2>6, <2>7, <4>2, <5>1
        <4>3. CASE StackAt(c, w) /\ w # <<"got", k>> /\ w # <<"node", k>>
          BY <2>5, <4>3 DEF At
        <4> QED
          BY <4>1, <4>2, <4>3
      <3>2. CASE w[1] = "parts" /\ w[2] \in Diff' /\ c \in Members(parts'[w[2]])
        <4>1. w = <<w[1], w[2]>>
          BY DEF Slot
        <4>2. CASE w[2] = n
          <5>1. At(c, <<"got", k>>)
            BY <2>4, <3>2, <4>2 DEF At, StackAt
          <5> QED
            BY <2>6, <2>7, <3>2, <4>1, <4>2, <5>1
        <4>3. CASE w[2] # n
          <5>1. At(c, w)
            BY <2>4, <3>2, <4>3 DEF At
          <5>2. M[w] = w
            BY <2>5, <3>2
          <5> QED
            BY <5>1, <5>2
        <4> QED
          BY <4>2, <4>3
      <3> QED
        BY <2>8, <3>1, <3>2 DEF At
    <2>9. MovesBy(M, 0, z)
      BY <2>4, <2>8 DEF MovesBy
    <2> QED
      BY <2>4, <2>9, Moved
  <1>6. ASSUME NEW client, NEW s, Ask(client, s)
        PROVE  PlaceInv'
    <2>1. /\ DOMAIN calls' = {1} /\ calls'[1].node = 0 /\ calls'[1].got = <<>>
          /\ UNCHANGED <<registry, result>>
      BY <1>6, AskFacts
    <2>2. Diff' = Diff /\ parts' = parts /\ result' = result /\ 0 \notin Diff
      BY <2>1, NodeFacts DEF registry, Diff
    <2>3. ASSUME NEW c \in Diff, NEW w \in Slot, At(c, w)'
          PROVE  At(c, w)
      BY <2>1, <2>2, <2>3, NoMembers DEF At, StackAt
    <2> QED
      BY <2>2, <2>3, StaysPlaced
  <1>7. CASE GetRoot
    <2>1. Diff' = Diff /\ parts' = parts /\ calls' = calls /\ result' = 0 /\ 0 \notin Diff
      BY <1>7, NodeFacts DEF GetRoot, Answered, registry, Diff
    <2>2. ASSUME NEW c \in Diff, NEW w \in Slot, At(c, w)'
          PROVE  At(c, w)
      BY <2>1, <2>2 DEF At, StackAt
    <2> QED
      BY <2>1, <2>2, StaysPlaced
  <1>8. CASE GetType
    <2>1. PICK e : e = asked.of
      OBVIOUS
    <2>2. /\ e \in Diff /\ parts'[e] = <<result>> /\ result' = 0 /\ calls' = calls
          /\ \A d \in Diff : d # e => parts'[d] = parts[d]
          /\ Diff' = Diff /\ 0 \notin Diff
      BY <1>8, <2>1, GetTypeFacts, NodeFacts
    <2>3. PICK M : M = [w \in Slot |-> IF w = <<"result", 0>> THEN <<"parts", e>> ELSE w]
      OBVIOUS
    <2>4. <<"result", 0>> \in Slot /\ M[<<"result", 0>>] = <<"parts", e>>
      BY <2>3 DEF Slot
    <2>5. ASSUME NEW c \in Diff', NEW w \in Slot, At(c, w)'
          PROVE  \E v \in Slot : At(c, v) /\ w = M[v]
      <3>1. w = <<w[1], w[2]>>
        BY DEF Slot
      <3>2. CASE w[1] = "parts" /\ w[2] = e
        <4>1. c = result
          BY <2>2, <2>5, <3>2 DEF At, StackAt, Members
        <4>2. At(c, <<"result", 0>>)
          BY <4>1 DEF At, StackAt
        <4> QED
          BY <2>4, <3>1, <3>2, <4>2
      <3>3. CASE ~(w[1] = "parts" /\ w[2] = e)
        <4>1. At(c, w) /\ w[1] # "result"
          BY <2>2, <2>5, <3>3 DEF At, StackAt
        <4>2. M[w] = w
          BY <2>3, <4>1
        <4> QED
          BY <4>1, <4>2
      <3> QED
        BY <3>2, <3>3
    <2>6. MovesBy(M, 0, 0)
      BY <2>2, <2>5 DEF MovesBy
    <2> QED
      BY <2>2, <2>6, Moved
  <1>9. CASE UNCHANGED <<subject, parts, calls, result>>
    <2>1. Diff' = Diff /\ \A c, w : At(c, w)' => At(c, w)
      BY <1>9 DEF Diff, At, StackAt
    <2> QED
      BY <2>1, StaysPlaced
  <1>10. \/ ComputeDeferred \/ ComputeKnownClass \/ ComputeNewClass \/ ComputePart
         \/ FinishClass \/ FinishCompound \/ GetRoot \/ GetType
         \/ \E client, s : Ask(client, s)
         \/ UNCHANGED <<subject, parts, calls, result>>
    BY DEF GraphStep, Build, Compute, Finish, AskRoot, AskType, FinishDiffType, graphVars, registry
  <1> QED
    BY <1>1, <1>2, <1>3, <1>4, <1>5, <1>6, <1>7, <1>8, <1>9, <1>10

LEMMA PlaceInit == GraphInit => PlaceInv
  BY DEF GraphInit, PlaceInv, Diff

-----------------------------------------------------------------------------
(* The outermost calls take turns; only the top of a stack has a class diff *)
(* that it is still working on, and it is one of the subject of the call.   *)
TurnInv ==
    /\ Idle => calls = <<>> /\ result = 0
    /\ result # 0 => calls = <<>>
    /\ asked.who = "type" => AwaitsType(asked.of)

NodesInv ==
    \A i \in DOMAIN calls :
        calls[i].node # 0 => /\ KindIn(abi, calls[i].s) = "class"
                             /\ subject[calls[i].node] = calls[i].s

LEMMA NodesInductive ==
    ASSUME GraphTypeOK, NodesInv, [GraphStep]_graphVars
    PROVE  NodesInv'
  <1>1. ASSUME calls # <<>>, NEW d \in Nat, Return(d), abi' = abi,
               \A e \in Diff : subject'[e] = subject[e]
        PROVE  NodesInv'
    <2>1. \A i \in DOMAIN calls' : /\ i \in DOMAIN calls /\ calls'[i].s = calls[i].s
                                   /\ calls'[i].node = calls[i].node
      BY <1>1, ReturnFacts
    <2>2. \A i \in DOMAIN calls : calls[i].node \in Diff \cup {0}
      BY CallFacts
    <2> QED
      BY <1>1, <2>1, <2>2 DEF NodesInv
  <1>2. CASE ComputeDeferred \/ ComputeKnownClass \/ FinishCompound
    <2>1. /\ calls # <<>> /\ abi' = abi /\ Return(Len(subject) + 1)
          /\ \E p \in Seq(Diff) : NewDiff(Top.s, p)
      <3>1. calls # <<>> /\ abi' = abi /\ Return(Len(subject) + 1)
        BY <1>2 DEF ComputeDeferred, ComputeKnownClass, FinishCompound
      <3>2. Top.got \in Seq(Diff) /\ <<>> \in Seq(Diff)
        BY <3>1, TopType
      <3>3. NewDiff(Top.s, <<>>) \/ NewDiff(Top.s, Top.got)
        BY <1>2 DEF ComputeDeferred, ComputeKnownClass, FinishCompound
      <3> QED
        BY <3>1, <3>2, <3>3
    <2>2. Len(subject) + 1 \in Nat /\ Top.s \in Subject
      BY <2>1, NodeFacts, TopType
    <2>3. \A e \in Diff : subject'[e] = subject[e]
      BY <2>1, <2>2, NewDiffFacts DEF OldKept
    <2> QED
      BY <1>1, <2>1, <2>2, <2>3
  <1>3. CASE ComputeNewClass
    <2>1. PICK k : k = Len(calls)
      OBVIOUS
    <2>2. PICK n : n = Len(subject) + 1
      OBVIOUS
    <2>3. PICK p : p = <<>>
      OBVIOUS
    <2>4. /\ k \in DOMAIN calls /\ DOMAIN calls' = DOMAIN calls
          /\ \A i \in DOMAIN calls : i # k => calls'[i] = calls[i]
          /\ calls'[k].node = n /\ calls'[k].s = calls[k].s
          /\ KindIn(abi, calls[k].s) = "class" /\ Top.s = calls[k].s
          /\ p \in Seq(Diff) /\ Top.s \in Subject /\ NewDiff(Top.s, p)
      BY <1>3, <2>1, <2>2, <2>3, NewClassFacts
    <2>5. OldKept /\ subject'[n] = Top.s
      BY <2>2, <2>4, NewDiffFacts
    <2>6. \A i \in DOMAIN calls : calls[i].node \in Diff \cup {0}
      BY CallFacts
    <2>7. abi' = abi
      BY <1>3 DEF ComputeNewClass
    <2> QED
      BY <2>4, <2>5, <2>6, <2>7 DEF NodesInv, OldKept
  <1>4. CASE ComputePart
    <2>1. PICK k : k = Len(calls)
      OBVIOUS
    <2>2. /\ DOMAIN calls' = DOMAIN calls \cup {k + 1}
          /\ \A i \in DOMAIN calls : calls'[i] = calls[i]
          /\ calls'[k + 1].node = 0
          /\ UNCHANGED <<abi, registry>>
      BY <1>4, <2>1, ComputePartFacts
    <2> QED
      BY <2>2 DEF NodesInv, registry
  <1>5. CASE FinishClass
    BY <1>1, <1>5, FinishClassFacts
  <1>6. ASSUME NEW client, NEW s, Ask(client, s)
        PROVE  NodesInv'
    BY <1>6, AskFacts DEF NodesInv
  <1>7. CASE UNCHANGED <<abi, subject, calls>>
    BY <1>7 DEF NodesInv
  <1>8. \/ ComputeDeferred \/ ComputeKnownClass \/ ComputeNewClass \/ ComputePart
        \/ FinishClass \/ FinishCompound
        \/ \E client, s : Ask(client, s)
        \/ UNCHANGED <<abi, subject, calls>>
    BY DEF GraphStep, Build, Compute, Finish, GetRoot, GetType, AskRoot, AskType, FinishDiffType,
       graphVars, registry
  <1> QED
    BY <1>2, <1>3, <1>4, <1>5, <1>6, <1>7, <1>8

(* The type that the outermost call is for is still missing.                *)
LEMMA AwaitsKept ==
    ASSUME GraphTypeOK, NodesInv, [GraphStep]_graphVars, ~GetType, NEW d \in Diff
    PROVE  AwaitsType(d)' <=> AwaitsType(d)
  <1>1. CASE abi' = abi /\ subject'[d] = subject[d] /\ parts'[d] = parts[d]
    BY <1>1 DEF AwaitsType, Kind
  <1>2. CASE ComputeDeferred \/ ComputeKnownClass \/ ComputeNewClass \/ FinishCompound
    <2>1. calls # <<>> /\ abi' = abi
      BY <1>2 DEF ComputeDeferred, ComputeKnownClass, ComputeNewClass, FinishCompound
    <2>2. Top.got \in Seq(Diff) /\ <<>> \in Seq(Diff) /\ Top.s \in Subject
      BY <2>1, TopType
    <2>3. \E p \in Seq(Diff) : NewDiff(Top.s, p)
      <3>1. NewDiff(Top.s, <<>>) \/ NewDiff(Top.s, Top.got)
        BY <1>2 DEF ComputeDeferred, ComputeKnownClass, ComputeNewClass, FinishCompound
      <3> QED
        BY <2>2, <3>1
    <2>4. OldKept
      BY <2>2, <2>3, NewDiffFacts
    <2> QED
      BY <1>1, <2>1, <2>4 DEF OldKept
  <1>3. CASE FinishClass
    <2>1. PICK k : k = Len(calls)
      OBVIOUS
    <2>2. /\ k \in DOMAIN calls /\ Top = calls[k] /\ Top.node \in Diff
          /\ KindIn(abi, Top.s) = "class"
          /\ \A e \in Diff : e # Top.node => parts'[e] = parts[e]
          /\ abi' = abi /\ subject' = subject
      BY <1>3, <2>1, FinishClassFacts
    <2>3. CASE d # Top.node
      BY <1>1, <2>2, <2>3
    <2>4. CASE d = Top.node
      <3>1. Kind(d) = "class" /\ Kind(d)' = "class"
        BY <2>2, <2>4, NodeFacts DEF NodesInv, Kind
      <3> QED
        BY <3>1 DEF AwaitsType, Deferred
    <2> QED
      BY <2>3, <2>4
  <1>4. CASE UNCHANGED <<abi, subject, parts>>
    BY <1>1, <1>4
  <1>5. \/ ComputeDeferred \/ ComputeKnownClass \/ ComputeNewClass \/ FinishCompound
        \/ FinishClass
        \/ UNCHANGED <<abi, subject, parts>>
    BY DEF GraphStep, Build, Compute, Finish, ComputePart, GetRoot, AskRoot, AskType, Ask,
       FinishDiffType, graphVars, registry
  <1> QED
    BY <1>2, <1>3, <1>4, <1>5

LEMMA TurnInductive ==
    ASSUME GraphTypeOK, NodesInv, TurnInv, [GraphStep]_graphVars
    PROVE  TurnInv'
  <1>1. CASE Compute
    <2>1. calls # <<>> /\ asked' = asked /\ ~Idle /\ result = 0 /\ ~GetType
      <3>1. calls # <<>> /\ asked' = asked
        BY <1>1 DEF Compute, ComputeDeferred, ComputeKnownClass, ComputeNewClass, ComputePart,
           FinishClass, FinishCompound
      <3> QED
        BY <3>1 DEF TurnInv, GetType
    <2>2. result' # 0 => calls' = <<>>
      <3>1. CASE result' = result
        BY <2>1, <3>1
      <3>2. CASE \E d \in Nat : Return(d)
        BY <2>1, <3>2, ReturnFacts
      <3>3. Len(subject) + 1 \in Nat /\ (FinishClass => Top.node \in Nat)
        <4>1. FinishClass => Top.node \in Diff
          BY FinishClassFacts
        <4> QED
          BY <4>1, NodeFacts
      <3> QED
        BY <1>1, <3>1, <3>2, <3>3 DEF Compute, ComputeDeferred, ComputeKnownClass, ComputeNewClass,
           ComputePart, FinishClass, FinishCompound
    <2>3. asked.who = "type" => asked.of \in Diff /\ AwaitsType(asked.of)
      <3>1. asked.who = "type" => \E d \in Diff : asked = Client("type", d)
        BY DEF GraphTypeOK, CallsTypeOK, Client, Nobody
      <3> QED
        BY <3>1 DEF TurnInv, Client
    <2>4. ASSUME NEW d \in Diff, AwaitsType(d), d = asked.of
          PROVE  AwaitsType(asked.of)'
      <3>1. AwaitsType(d)'
        BY <2>1, <2>4, AwaitsKept
      <3>2. asked'.of = d /\ asked.of = d
        BY <2>1, <2>4
      <3> QED
        BY <3>1, <3>2
    <2>5. asked.who = "type" => AwaitsType(asked.of)'
      BY <2>3, <2>4
    <2> QED
      BY <2>1, <2>2, <2>5 DEF TurnInv, Idle
  <1>2. CASE GetRoot \/ GetType
    BY <1>2 DEF GetRoot, GetType, Answered, TurnInv, Idle, Nobody, Client
  <1>3. ASSUME NEW i \in DOMAIN roots, AskRoot(i)
        PROVE  TurnInv'
    BY <1>3 DEF AskRoot, Ask, TurnInv, Idle, Nobody, Client
  <1>4. ASSUME NEW d \in Diff, AskType(d)
        PROVE  TurnInv'
    <2>1. AwaitsType(d) /\ ~GetType
      BY <1>4 DEF AskType, Ask, TurnInv, GetType
    <2>2. AwaitsType(d)'
      BY <2>1, AwaitsKept
    <2>3. asked'.of = d /\ asked' # Nobody /\ result' = 0
      BY <1>4 DEF AskType, Ask, Client, Nobody, TurnInv
    <2> QED
      BY <2>2, <2>3 DEF TurnInv, Idle
  <1>5. CASE UNCHANGED <<abi, subject, parts, calls, result, asked>>
    BY <1>5 DEF TurnInv, Idle, AwaitsType, Kind
  <1>6. \/ Compute \/ GetRoot \/ GetType
        \/ \E i \in DOMAIN roots : AskRoot(i)
        \/ \E d \in Diff : AskType(d)
        \/ UNCHANGED <<abi, subject, parts, calls, result, asked>>
    BY DEF GraphStep, Build, Finish, FinishDiffType, graphVars, registry
  <1> QED
    BY <1>1, <1>2, <1>3, <1>4, <1>5, <1>6

-----------------------------------------------------------------------------
(* Sorting keeps the members.                                               *)
LEMMA SortingMembers ==
    ASSUME NEW S, NEW s \in Seq(S), NEW t \in Sortings(s)
    PROVE  Members(t) = Members(s)
  <1>1. PICK D : D = DOMAIN s
    OBVIOUS
  <1>2. IsFiniteSet(D)
    BY <1>1, LenProperties, FS_Interval
  <1>3. PICK p \in [D -> D] : /\ \A i, j \in D : i # j => p[i] # p[j]
                              /\ \A i \in D : t[i] = s[p[i]]
    BY <1>1 DEF Sortings
  <1>4. p \in Injection(D, D)
    BY <1>3 DEF Injection, IsInjective
  <1>5. p \in Surjection(D, D)
    BY <1>2, <1>4, FS_Injection
  <1>6. \A j \in D : \E i \in D : p[i] = j
    BY <1>5 DEF Surjection
  <1>7. DOMAIN t = D
    BY <1>1 DEF Sortings
  <1> QED
    BY <1>1, <1>3, <1>6, <1>7 DEF Members

(* Nobody is going to give a diff that is settled any more parts.           *)
Settled(d) ==
    /\ ~AwaitsType(d)
    /\ Kind(d) = "class" => \A i \in DOMAIN calls : calls[i].node # canonical[d]

(* A finished diff has all its children, for good; who has adopted a diff   *)
(* has it as a part.                                                        *)
Complete(d) == Settled(d) /\ Members(children[d]) = Members(Parts(d))

FinishedInv ==
    \A d \in Diff :
        /\ finished[d] => Complete(d)
        /\ ~finished[d] => children[d] = <<>>
        /\ parent[d] # 0 => finished[parent[d]] /\ d \in Members(Parts(parent[d]))

(* What a step leaves alone of the diffs that are settled.                  *)
SettledKept == \A d \in Diff : Settled(d) => Parts(d)' = Parts(d) /\ Settled(d)'

LEMMA SettledStay ==
    ASSUME GraphTypeOK, CanonicalInv, NodesInv, TurnInv, [GraphStep]_graphVars
    PROVE  SettledKept
  <1> SUFFICES ASSUME NEW d \in Diff, Settled(d)
               PROVE  /\ Parts(d)' = Parts(d)
                      /\ ~AwaitsType(d)'
                      /\ Kind(d)' = "class" => \A i \in DOMAIN calls' : calls'[i].node # canonical'[d]
    BY DEF SettledKept, Settled
  <1>1. /\ canonical[d] \in Diff /\ Kind(canonical[d]) = Kind(d)
        /\ ~AwaitsType(d)
        /\ Kind(d) = "class" => \A i \in DOMAIN calls : calls[i].node # canonical[d]
        /\ 0 \notin Diff
    BY NodeFacts, CanonicalInvSuffices DEF Settled, CanonicalDiffs, Kind
  <1>2. ASSUME abi' = abi, subject'[d] = subject[d], canonical'[d] = canonical[d],
               parts'[d] = parts[d], Kind(d) = "class" => parts'[canonical[d]] = parts[canonical[d]],
               \A i \in DOMAIN calls' : \/ i \in DOMAIN calls /\ calls'[i].node = calls[i].node
                                        \/ calls'[i].node \notin Diff
        PROVE  /\ Parts(d)' = Parts(d)
               /\ ~AwaitsType(d)'
               /\ Kind(d)' = "class" => \A i \in DOMAIN calls' : calls'[i].node # canonical'[d]
    <2>1. Kind(d)' = Kind(d)
      BY <1>2 DEF Kind
    <2>2. Parts(d)' = Parts(d)
      BY <1>2, <2>1 DEF Parts
    <2>3. ~AwaitsType(d)'
      BY <1>1, <1>2, <2>1 DEF AwaitsType
    <2> QED
      BY <1>1, <1>2, <2>1, <2>2, <2>3
  <1>3. CASE ComputeDeferred \/ ComputeKnownClass \/ FinishCompound
    <2>1. calls # <<>> /\ abi' = abi /\ Return(Len(subject) + 1)
      BY <1>3 DEF ComputeDeferred, ComputeKnownClass, FinishCompound
    <2>2. Top.got \in Seq(Diff) /\ <<>> \in Seq(Diff) /\ Top.s \in Subject
      BY <2>1, TopType
    <2>3. \E p \in Seq(Diff) : NewDiff(Top.s, p)
      <3>1. NewDiff(Top.s, <<>>) \/ NewDiff(Top.s, Top.got)
        BY <1>3 DEF ComputeDeferred, ComputeKnownClass, FinishCompound
      <3> QED
        BY <2>2, <3>1
    <2>4. OldKept
      BY <2>2, <2>3, NewDiffFacts
    <2>5. Len(subject) + 1 \in Nat
      BY NodeFacts
    <2>6. \A i \in DOMAIN calls' : i \in DOMAIN calls /\ calls'[i].node = calls[i].node
      BY <2>1, <2>5, ReturnFacts
    <2> QED
      BY <1>1, <1>2, <2>1, <2>4, <2>6 DEF OldKept
  <1>4. CASE ComputeNewClass
    <2>1. PICK k : k = Len(calls)
      OBVIOUS
    <2>2. PICK p : p = <<>>
      OBVIOUS
    <2>3. /\ k \in DOMAIN calls /\ DOMAIN calls' = DOMAIN calls
          /\ \A i \in DOMAIN calls : i # k => calls'[i] = calls[i]
          /\ calls'[k].node = Len(subject) + 1
          /\ p \in Seq(Diff) /\ Top.s \in Subject /\ NewDiff(Top.s, p)
      BY <1>4, <2>1, <2>2, NewClassFacts
    <2>4. OldKept
      BY <2>3, NewDiffFacts
    <2>5. calls'[k].node \notin Diff /\ abi' = abi
      BY <1>4, <2>3, NodeFacts DEF ComputeNewClass
    <2>6. \A i \in DOMAIN calls' : \/ i \in DOMAIN calls /\ calls'[i].node = calls[i].node
                                   \/ calls'[i].node \notin Diff
      BY <2>3, <2>5
    <2> QED
      BY <1>1, <1>2, <2>4, <2>5, <2>6 DEF OldKept
  <1>5. CASE ComputePart
    <2>1. PICK k : k = Len(calls)
      OBVIOUS
    <2>2. /\ DOMAIN calls' = DOMAIN calls \cup {k + 1}
          /\ \A i \in DOMAIN calls : calls'[i] = calls[i]
          /\ calls'[k + 1].node = 0
          /\ UNCHANGED <<abi, registry>>
      BY <1>5, <2>1, ComputePartFacts
    <2>3. \A i \in DOMAIN calls' : \/ i \in DOMAIN calls /\ calls'[i].node = calls[i].node
                                   \/ calls'[i].node \notin Diff
      BY <1>1, <2>2
    <2> QED
      BY <1>2, <2>2, <2>3 DEF registry
  <1>6. CASE FinishClass
    <2>1. PICK k : k = Len(calls)
      OBVIOUS
    <2>2. /\ k \in DOMAIN calls /\ Top = calls[k] /\ calls # <<>>
          /\ Top.node \in Diff /\ Top.node \in Nat /\ KindIn(abi, Top.s) = "class"
          /\ Return(Top.node)
          /\ \A e \in Diff : e # Top.node => parts'[e] = parts[e]
          /\ UNCHANGED <<abi, subject, canonical>>
      BY <1>6, <2>1, FinishClassFacts
    <2>3. \A i \in DOMAIN calls' : i \in DOMAIN calls /\ calls'[i].node = calls[i].node
      BY <2>2, ReturnFacts
    <2>4. Kind(Top.node) = "class"
      BY <1>1, <2>2 DEF NodesInv, Kind
    <2>5. Kind(d) = "class" => parts'[canonical[d]] = parts[canonical[d]]
      BY <1>1, <2>2
    <2>6. CASE d # Top.node
      BY <1>2, <2>2, <2>3, <2>5, <2>6
    <2>7. CASE d = Top.node
      <3>1. Kind(d) = "class" /\ Kind(d)' = "class"
        BY <2>2, <2>4, <2>7 DEF Kind
      <3>2. Parts(d)' = Parts(d)
        BY <2>2, <2>5, <3>1 DEF Parts
      <3>3. ~AwaitsType(d)'
        BY <3>1 DEF AwaitsType, Deferred
      <3> QED
        BY <1>1, <2>2, <2>3, <3>1, <3>2, <3>3
    <2> QED
      BY <2>6, <2>7
  <1>7. CASE GetType
    <2>1. /\ asked.of \in Diff /\ asked = Client("type", asked.of)
          /\ \A e \in Diff : e # asked.of => parts'[e] = parts[e]
          /\ UNCHANGED <<abi, subject, canonical, calls>>
      BY <1>7, GetTypeFacts
    <2>2. AwaitsType(asked.of)
      BY <1>7 DEF TurnInv, GetType
    <2>3. d # asked.of
      BY <1>1, <2>2
    <2>4. Kind(d) = "class" => canonical[d] # asked.of
      BY <1>1, <2>2 DEF AwaitsType, Deferred
    <2> QED
      BY <1>1, <1>2, <2>1, <2>3, <2>4
  <1>8. ASSUME NEW client, NEW s, Ask(client, s)
        PROVE  /\ Parts(d)' = Parts(d)
               /\ ~AwaitsType(d)'
               /\ Kind(d)' = "class" => \A i \in DOMAIN calls' : calls'[i].node # canonical'[d]
    BY <1>1, <1>2, <1>8, AskFacts DEF registry
  <1>9. CASE UNCHANGED <<abi, registry, calls>>
    BY <1>2, <1>9 DEF registry
  <1>10. \/ ComputeDeferred \/ ComputeKnownClass \/ ComputeNewClass \/ ComputePart
         \/ FinishClass \/ FinishCompound \/ GetType
         \/ \E client, s : Ask(client, s)
         \/ UNCHANGED <<abi, registry, calls>>
    BY DEF GraphStep, Build, Compute, Finish, GetRoot, AskRoot, AskType, FinishDiffType, graphVars
  <1> QED
    BY <1>3, <1>4, <1>5, <1>6, <1>7, <1>8, <1>9, <1>10

LEMMA FinishedInductive ==
    ASSUME GraphTypeOK, CanonicalInv, NodesInv, TurnInv, FinishedInv, [GraphStep]_graphVars
    PROVE  FinishedInv'
  <1>1. SettledKept
    BY SettledStay
  <1>2. ASSUME \A d \in Diff : /\ finished'[d] = finished[d] /\ children'[d] = children[d]
                               /\ parent'[d] = parent[d],
               \A d \in Diff' : d \in Diff \/ (~finished'[d] /\ children'[d] = <<>> /\ parent'[d] = 0)
        PROVE  FinishedInv'
    <2>1. ASSUME NEW d \in Diff
          PROVE  /\ finished'[d] => Complete(d)'
                 /\ ~finished'[d] => children'[d] = <<>>
                 /\ parent'[d] # 0 => finished'[parent'[d]] /\ d \in Members(Parts(parent[d])')
      <3>1. finished[d] => Complete(d)'
        BY <1>1, <1>2 DEF FinishedInv, SettledKept, Complete
      <3>2. parent[d] # 0 => /\ parent[d] \in Diff /\ finished[parent[d]]
                             /\ d \in Members(Parts(parent[d]))
        BY NodeFacts DEF FinishedInv
      <3>3. parent[d] # 0 => finished'[parent[d]] /\ d \in Members(Parts(parent[d])')
        BY <1>1, <1>2, <3>2 DEF FinishedInv, Complete, SettledKept
      <3> QED
        BY <1>2, <3>1, <3>3 DEF FinishedInv
    <2> QED
      BY <1>2, <2>1 DEF FinishedInv
  <1>3. CASE ComputeDeferred \/ ComputeKnownClass \/ ComputeNewClass \/ FinishCompound
    <2>1. calls # <<>>
      BY <1>3 DEF ComputeDeferred, ComputeKnownClass, ComputeNewClass, FinishCompound
    <2>2. Top.got \in Seq(Diff) /\ <<>> \in Seq(Diff) /\ Top.s \in Subject
      BY <2>1, TopType
    <2>3. PICK p \in Seq(Diff) : NewDiff(Top.s, p)
      <3>1. NewDiff(Top.s, <<>>) \/ NewDiff(Top.s, Top.got)
        BY <1>3 DEF ComputeDeferred, ComputeKnownClass, ComputeNewClass, FinishCompound
      <3> QED
        BY <2>2, <3>1
    <2>4. PICK n : n = Len(subject) + 1
      OBVIOUS
    <2>5. /\ OldKept /\ Diff' = Diff \cup {n}
          /\ ~finished'[n] /\ children'[n] = <<>> /\ parent'[n] = 0
      BY <2>2, <2>3, <2>4, NewDiffFacts
    <2> QED
      BY <1>2, <2>5 DEF OldKept
  <1>4. CASE UNCHANGED <<hierarchy, Diff>>
    BY <1>2, <1>4 DEF hierarchy
  <1>5. ASSUME NEW e \in Diff, FinishDiffType(e)
        PROVE  FinishedInv'
    <2>1. PICK sorted \in Sortings(Parts(e)) : children' = [children EXCEPT ![e] = sorted]
      BY <1>5, Zenon DEF FinishDiffType
    <2>2. /\ Idle /\ ~AwaitsType(e)
          /\ finished' = [finished EXCEPT ![e] = TRUE]
          /\ parent' = [c \in Diff |-> IF c \in Members(Parts(e)) THEN e ELSE parent[c]]
          /\ UNCHANGED <<abi, registry, calls>>
      BY <1>5, Zenon DEF FinishDiffType
    <2>3. DOMAIN finished = Diff /\ DOMAIN children = Diff /\ Diff' = Diff
      BY <2>2 DEF GraphTypeOK, HierarchyTypeOK, registry, Diff
    <2>4. /\ finished'[e] /\ \A d \in Diff : d # e => finished'[d] = finished[d]
          /\ children'[e] = sorted /\ \A d \in Diff : d # e => children'[d] = children[d]
      <3>1. finished = [d \in Diff |-> finished[d]] /\ children = [d \in Diff |-> children[d]]
        BY <2>3 DEF GraphTypeOK, HierarchyTypeOK
      <3> QED
        BY <2>1, <2>2, <3>1
    <2>5. \A d \in Diff : Parts(d)' = Parts(d) /\ AwaitsType(d)' = AwaitsType(d) /\ Kind(d)' = Kind(d)
      BY <2>2 DEF registry, Parts, AwaitsType, Kind
    <2>6. Members(sorted) = Members(Parts(e))
      BY PartsType, SortingMembers
    <2>7. calls = <<>> /\ calls' = calls
      BY <2>2 DEF TurnInv
    <2>8. ASSUME NEW d \in Diff
          PROVE  /\ finished'[d] => Complete(d)'
                 /\ ~finished'[d] => children'[d] = <<>>
                 /\ parent'[d] # 0 => finished'[parent'[d]] /\ d \in Members(Parts(parent[d])')
      <3>1. finished'[d] => Complete(d)'
        <4>1. ASSUME finished'[d]
              PROVE  ~AwaitsType(d) /\ Members(children'[d]) = Members(Parts(d))
          <5>1. CASE d = e
            BY <2>2, <2>4, <2>6, <5>1
          <5>2. CASE d # e
            BY <2>4, <4>1, <5>2 DEF FinishedInv, Complete, Settled
          <5> QED
            BY <5>1, <5>2
        <4> QED
          BY <2>5, <2>7, <4>1 DEF Complete, Settled
      <3>2. ~finished'[d] => children'[d] = <<>>
        BY <2>4 DEF FinishedInv
      <3>3. parent'[d] # 0 => /\ parent'[d] \in Diff /\ finished'[parent'[d]]
                              /\ d \in Members(Parts(parent'[d]))
        <4>1. CASE d \in Members(Parts(e))
          BY <2>2, <2>4, <4>1
        <4>2. CASE d \notin Members(Parts(e))
          <5>1. parent'[d] = parent[d]
            BY <2>2, <4>2
          <5>2. parent[d] # 0 => /\ parent[d] \in Diff /\ finished[parent[d]]
                                 /\ d \in Members(Parts(parent[d]))
            BY NodeFacts DEF FinishedInv
          <5> QED
            BY <2>4, <5>1, <5>2
        <4> QED
          BY <4>1, <4>2
      <3>4. \A x \in Diff : x = parent'[d] => Members(Parts(x)) = Members(Parts(parent[d])')
        <4> TAKE x \in Diff
        <4> HAVE x = parent'[d]
        <4>1. Parts(parent[d])' = Parts(x)'
          OBVIOUS
        <4> QED
          BY <2>5, <4>1
      <3> QED
        BY <3>1, <3>2, <3>3, <3>4
    <2> QED
      BY <2>3, <2>8 DEF FinishedInv
  <1>6. \/ ComputeDeferred \/ ComputeKnownClass \/ ComputeNewClass \/ FinishCompound
        \/ UNCHANGED <<hierarchy, Diff>>
        \/ \E d \in Diff : FinishDiffType(d)
    BY DEF GraphStep, Build, Compute, Finish, ComputePart, FinishClass, GetRoot, GetType, AskRoot,
       AskType, Ask, graphVars, registry, Diff
  <1> QED
    BY <1>3, <1>4, <1>5, <1>6

(* All of it together: what every step keeps true of the graph.             *)
GraphInv ==
    /\ GraphTypeOK
    /\ CanonicalInv
    /\ AdoptionInv
    /\ PlaceInv
    /\ NodesInv
    /\ TurnInv
    /\ FinishedInv

LEMMA GraphInvInit == GraphInit => GraphInv
  <1> SUFFICES ASSUME GraphInit
               PROVE  GraphInv
    OBVIOUS
  <1>1. GraphTypeOK /\ CanonicalInv /\ AdoptionInv /\ PlaceInv
    BY GraphTypeInit, CanonicalInit, AdoptionInit, PlaceInit
  <1>2. NodesInv /\ TurnInv
    BY DEF GraphInit, NodesInv, TurnInv, Nobody, Client
  <1>3. FinishedInv
    BY DEF GraphInit, FinishedInv, Diff
  <1> QED
    BY <1>1, <1>2, <1>3 DEF GraphInv

LEMMA GraphInvInductive ==
    ASSUME GraphInv, [GraphStep]_graphVars
    PROVE  GraphInv'
  <1> USE DEF GraphInv
  <1>1. GraphTypeOK' /\ CanonicalInv' /\ AdoptionInv'
    BY GraphTypeInductive, CanonicalInductive, GraphStepGrows
  <1>2. PlaceInv' /\ NodesInv'
    BY PlaceInductive, NodesInductive
  <1>3. TurnInv' /\ FinishedInv'
    BY TurnInductive, FinishedInductive
  <1> QED
    BY <1>1, <1>2, <1>3

LEMMA AnyParentSuffices ==
    ASSUME GraphInv
    PROVE  AnyParentWillDo
  <1> SUFFICES ASSUME NEW d \in Diff, NEW c \in Members(children[d])
               PROVE  parent[c] # 0 /\ Members(children[parent[c]]) = Members(children[d])
    BY DEF AnyParentWillDo
  <1>1. GraphTypeOK /\ PlaceInv /\ FinishedInv /\ c \in Diff
    BY NodeFacts DEF GraphInv
  <1>2. PICK p : p = parent[c]
    OBVIOUS
  <1>3. p # 0 /\ p \in Diff /\ finished[p] /\ c \in Members(Parts(p))
    BY <1>1, <1>2, NodeFacts DEF GraphInv, AdoptionInv, FinishedInv
  <1>4. finished[d] /\ c \in Members(Parts(d))
    BY <1>1, NoMembers DEF FinishedInv, Complete
  <1>5. \A e \in Diff : \E o \in Diff : Parts(e) = parts[o]
    BY <1>1, NodeFacts DEF Parts
  <1>6. PICK o \in Diff : Parts(p) = parts[o]
    BY <1>3, <1>5
  <1>7. PICK q \in Diff : Parts(d) = parts[q]
    BY <1>5
  <1>8. <<"parts", o>> \in Slot /\ <<"parts", q>> \in Slot
    BY <1>1, NodeFacts DEF Slot
  <1>9. At(c, <<"parts", o>>) /\ At(c, <<"parts", q>>)
    BY <1>3, <1>4, <1>6, <1>7 DEF At
  <1>10. <<"parts", o>> = <<"parts", q>>
    BY <1>1, <1>8, <1>9 DEF PlaceInv
  <1>11. Members(Parts(p)) = Members(Parts(d))
    BY <1>6, <1>7, <1>10
  <1> QED
    BY <1>1, <1>2, <1>3, <1>4, <1>11 DEF FinishedInv, Complete

(* Whichever class diff adopted a diff last, its siblings are the same: the *)
(* sibling test of the redundancy pass may ask parent_node().               *)
THEOREM AnyParentDoes == GraphSpec => []AnyParentWillDo
  <1>1. GraphInv /\ [GraphNext]_graphVars => GraphInv'
    BY GraphInvInductive, NextIsStep
  <1> QED
    BY <1>1, GraphInvInit, AnyParentSuffices, PTL DEF GraphSpec

-----------------------------------------------------------------------------
(* What the subjects of S depend on is the least set that has them and,     *)
(* with a subject, its parts.                                               *)
HasParts(X) == \A s \in X : Members(PartsIn(abi, s)) \subseteq X
WithParts == [X \in SUBSET Subject |-> X \cup UNION {Members(PartsIn(abi, s)) : s \in X}]

LEMMA WithPartsGrows ==
    ASSUME GraphTypeOK
    PROVE  /\ IsGrowth(WithParts, Subject)
           /\ \A X \in SUBSET Subject : WithParts[X] = X <=> HasParts(X)
  <1>1. \A s \in Subject : Members(PartsIn(abi, s)) \subseteq Subject
    BY ABIAssumption, MembersType DEF GraphTypeOK
  <1>2. \A X \in SUBSET Subject : WithParts[X] = X <=> HasParts(X)
    BY DEF WithParts, HasParts
  <1>3. WithParts \in [SUBSET Subject -> SUBSET Subject]
    BY <1>1 DEF WithParts
  <1>4. \A X \in SUBSET Subject : X \subseteq WithParts[X]
    BY DEF WithParts
  <1>5. ASSUME NEW X \in SUBSET Subject, NEW Y \in SUBSET Subject, X \subseteq Y, HasParts(Y)
        PROVE  WithParts[X] \subseteq Y
    BY <1>5 DEF WithParts, HasParts
  <1> QED
    BY <1>2, <1>3, <1>4, <1>5 DEF IsGrowth

LEMMA SubjectsBelowLeast ==
    ASSUME GraphTypeOK, NEW S \in SUBSET Subject
    PROVE  /\ SubjectsBelow(S) \in SUBSET Subject /\ S \subseteq SubjectsBelow(S)
           /\ HasParts(SubjectsBelow(S))
           /\ \A X \in SUBSET Subject : S \subseteq X /\ HasParts(X) => SubjectsBelow(S) \subseteq X
  <1> DEFINE Body(f) == [X \in SUBSET Subject |->
                           LET more == X \cup UNION {Members(PartsIn(abi, s)) : s \in X}
                           IN  IF more = X THEN X ELSE f[more]]
  <1>1. PICK F : F = WithParts
    OBVIOUS
  <1>2. IsGrowth(F, Subject)
    BY <1>1, WithPartsGrows
  <1>3. ASSUME NEW f
        PROVE  f = Body(f) <=> GrownBy(F, Subject, f)
    <2>1. ASSUME NEW X \in SUBSET Subject
          PROVE  F[X] = X \cup UNION {Members(PartsIn(abi, s)) : s \in X}
      BY <1>1 DEF WithParts
    <2> QED
      BY <2>1 DEF GrownBy
  <1>4. \E f : f = Body(f)
    BY <1>2, <1>3, GrowthExists
  <1>5. PICK c : c = CHOOSE f : f = Body(f)
    OBVIOUS
  <1>6. GrownBy(F, Subject, c)
    BY <1>3, <1>4, <1>5
  <1>7. SubjectsBelow(S) = c[S]
    BY <1>5 DEF SubjectsBelow
  <1>8. GrownTo(F, Subject, c, S)
    BY <1>2, <1>6, GrowthEnds, ABIAssumption
  <1> QED
    BY <1>1, <1>7, <1>8, WithPartsGrows DEF GrownTo

-----------------------------------------------------------------------------
(* Whose diffs the calls have got: those of the first parts of their        *)
(* subjects, in order; the call above works on the next part, and what the  *)
(* outermost call returns is the diff that was asked for.                   *)
AskedFor == IF asked.who = "root" THEN RootsIn(abi)[asked.of]
                                  ELSE PartsIn(abi, subject[asked.of])[1]

Matches(g, s) ==
    /\ Len(g) <= Len(PartsIn(abi, s))
    /\ \A j \in DOMAIN g : subject[g[j]] = PartsIn(abi, s)[j]

AsksNext(i) ==
    /\ Len(calls[i].got) < Len(PartsIn(abi, calls[i].s))
    /\ calls[i + 1].s = PartsIn(abi, calls[i].s)[Len(calls[i].got) + 1]

GotInv ==
    /\ \A i \in DOMAIN calls : Matches(calls[i].got, calls[i].s)
    /\ \A i \in DOMAIN calls : i + 1 \in DOMAIN calls => AsksNext(i)
    /\ calls # <<>> => calls[1].s = AskedFor
    /\ result # 0 => subject[result] = AskedFor

LEMMA AskedForKept ==
    ASSUME GraphTypeOK, ~Idle, abi' = abi, asked' = asked,
           \A d \in Diff : subject'[d] = subject[d]
    PROVE  AskedFor' = AskedFor
  <1>1. \/ asked.who = "root"
        \/ asked.of \in Diff
    BY DEF GraphTypeOK, CallsTypeOK, Idle, Client
  <1> QED
    BY <1>1 DEF AskedFor

LEMMA MatchesKept ==
    ASSUME GraphTypeOK, abi' = abi, \A d \in Diff : subject'[d] = subject[d],
           NEW g \in Seq(Diff), NEW s, Matches(g, s)
    PROVE  /\ Len(g) <= Len(PartsIn(abi', s))
           /\ \A j \in DOMAIN g : subject'[g[j]] = PartsIn(abi', s)[j]
  <1>1. \A j \in DOMAIN g : g[j] \in Diff
    BY MembersType DEF Members
  <1> QED
    BY <1>1 DEF Matches

LEMMA ReturnGot ==
    ASSUME GraphTypeOK, TurnInv, GotInv, calls # <<>>, NEW d \in Nat, Return(d),
           abi' = abi, asked' = asked, \A e \in Diff : subject'[e] = subject[e],
           subject'[d] = Top.s
    PROVE  GotInv'
  <1>1. PICK k : k = Len(calls)
    OBVIOUS
  <1>2. /\ k \in Nat /\ k \in DOMAIN calls /\ DOMAIN calls = 1 .. k /\ Top = calls[k]
        /\ \A i \in DOMAIN calls : calls[i].got \in Seq(Diff)
    BY <1>1, CallFacts
  <1>3. /\ DOMAIN calls' = 1 .. k - 1
        /\ \A i \in DOMAIN calls' :
             /\ i \in DOMAIN calls /\ i # k
             /\ calls'[i].s = calls[i].s
             /\ calls'[i].got = IF i = k - 1 THEN Append(calls[i].got, d) ELSE calls[i].got
        /\ k = 1 => calls' = <<>> /\ result' = d
        /\ k # 1 => result' = result
    BY <1>1, ReturnFacts
  <1>4. ~Idle /\ result = 0
    BY DEF TurnInv
  <1>5. AskedFor' = AskedFor
    BY <1>4, AskedForKept
  <1>6. ASSUME NEW i \in DOMAIN calls'
        PROVE  Matches(calls[i].got, calls[i].s)'
    <2>1. PICK g : g = calls[i].got
      OBVIOUS
    <2>2. PICK s : s = calls[i].s
      OBVIOUS
    <2>3. /\ g \in Seq(Diff) /\ Len(g) <= Len(PartsIn(abi', s))
          /\ \A j \in DOMAIN g : subject'[g[j]] = PartsIn(abi', s)[j]
      BY <1>2, <1>3, <2>1, <2>2, MatchesKept DEF GotInv
    <2>4. CASE i = k - 1
      <3>1. i + 1 = k /\ calls'[i].got = Append(g, d) /\ calls'[i].s = s
        <4>1. i + 1 = k
          BY <1>2, <1>3, <2>4
        <4>2. calls'[i].got = Append(calls[i].got, d) /\ calls'[i].s = calls[i].s
          BY <1>3, <2>4
        <4> QED
          BY <2>1, <2>2, <4>1, <4>2
      <3>2. Len(g) < Len(PartsIn(abi, s)) /\ Top.s = PartsIn(abi, s)[Len(g) + 1]
        BY <1>2, <1>3, <2>1, <2>2, <3>1 DEF GotInv, AsksNext
      <3>3. /\ Len(g) \in Nat /\ DOMAIN g = 1 .. Len(g)
            /\ Len(Append(g, d)) = Len(g) + 1 /\ DOMAIN Append(g, d) = 1 .. Len(g) + 1
            /\ Append(g, d)[Len(g) + 1] = d
            /\ \A j \in 1 .. Len(g) : Append(g, d)[j] = g[j]
        <4>1. PICK S : S = Diff \cup {d}
          OBVIOUS
        <4>2. g \in Seq(S) /\ d \in S
          BY <2>3, <4>1, SeqGrows
        <4> QED
          BY <4>2, SeqAppend, AppendProperties, LenProperties
      <3>4. PartsIn(abi, s) \in Seq(Subject)
        BY <1>2, <1>3, <2>2, CallFacts, ABIAssumption DEF GraphTypeOK
      <3>5. Len(g) + 1 <= Len(PartsIn(abi, s))
        BY <3>2, <3>3, <3>4, LenProperties
      <3>6. ASSUME NEW j \in 1 .. Len(g) + 1
            PROVE  subject'[Append(g, d)[j]] = PartsIn(abi, s)[j]
        BY <2>3, <3>2, <3>3
      <3> QED
        BY <3>1, <3>3, <3>5, <3>6 DEF Matches
    <2>5. CASE i # k - 1
      BY <1>3, <2>1, <2>2, <2>3, <2>5 DEF Matches
    <2> QED
      BY <2>4, <2>5
  <1>7. ASSUME NEW i \in DOMAIN calls', i + 1 \in DOMAIN calls'
        PROVE  AsksNext(i)'
    <2>1. i # k - 1 /\ i \in DOMAIN calls /\ i + 1 \in DOMAIN calls
      BY <1>2, <1>3, <1>7
    <2>2. calls'[i].got = calls[i].got /\ calls'[i].s = calls[i].s /\ calls'[i + 1].s = calls[i + 1].s
      BY <1>3, <1>7, <2>1
    <2> QED
      BY <2>1, <2>2 DEF GotInv, AsksNext
  <1>8. calls' # <<>> => calls'[1].s = AskedFor'
    <2>1. calls' # <<>> => k # 1 /\ 1 \in DOMAIN calls'
      BY <1>2, <1>3
    <2> QED
      BY <1>3, <1>5, <2>1 DEF GotInv
  <1>9. result' # 0 => subject'[result'] = AskedFor'
    <2>1. k = 1 => Top.s = AskedFor
      BY <1>2 DEF GotInv
    <2> QED
      BY <1>3, <1>4, <1>5, <2>1
  <1> QED
    BY <1>6, <1>7, <1>8, <1>9 DEF GotInv

LEMMA GotInductive ==
    ASSUME GraphTypeOK, NodesInv, TurnInv, GotInv, [GraphStep]_graphVars
    PROVE  GotInv'
  <1>1. CASE ComputeDeferred \/ ComputeKnownClass \/ FinishCompound
    <2>1. calls # <<>> /\ abi' = abi /\ asked' = asked /\ Return(Len(subject) + 1)
      BY <1>1 DEF ComputeDeferred, ComputeKnownClass, FinishCompound
    <2>2. Top.got \in Seq(Diff) /\ <<>> \in Seq(Diff) /\ Top.s \in Subject
      BY <2>1, TopType
    <2>3. PICK p \in Seq(Diff) : NewDiff(Top.s, p)
      <3>1. NewDiff(Top.s, <<>>) \/ NewDiff(Top.s, Top.got)
        BY <1>1 DEF ComputeDeferred, ComputeKnownClass, FinishCompound
      <3> QED
        BY <2>2, <3>1
    <2>4. PICK n : n = Len(subject) + 1
      OBVIOUS
    <2>5. OldKept /\ subject'[n] = Top.s /\ n \in Nat
      BY <2>2, <2>3, <2>4, NewDiffFacts, NodeFacts
    <2>6. \A e \in Diff : subject'[e] = subject[e]
      BY <2>5 DEF OldKept
    <2> QED
      BY <2>1, <2>4, <2>5, <2>6, ReturnGot
  <1>2. CASE ComputeNewClass
    <2>1. PICK k : k = Len(calls)
      OBVIOUS
    <2>2. PICK p : p = <<>>
      OBVIOUS
    <2>3. /\ k \in DOMAIN calls /\ DOMAIN calls' = DOMAIN calls /\ calls # <<>>
          /\ \A i \in DOMAIN calls : i # k => calls'[i] = calls[i]
          /\ calls'[k].s = calls[k].s /\ calls'[k].got = calls[k].got
          /\ p \in Seq(Diff) /\ Top.s \in Subject /\ NewDiff(Top.s, p)
      BY <1>2, <2>1, <2>2, NewClassFacts
    <2>4. \A i \in DOMAIN calls : calls'[i].s = calls[i].s /\ calls'[i].got = calls[i].got
      BY <2>3
    <2>5. \A e \in Diff : subject'[e] = subject[e]
      BY <2>3, NewDiffFacts DEF OldKept
    <2>6. abi' = abi /\ asked' = asked /\ result' = 0 /\ ~Idle
      BY <1>2, <2>3 DEF ComputeNewClass, TurnInv
    <2>7. AskedFor' = AskedFor
      BY <2>5, <2>6, AskedForKept
    <2>8. \A i \in DOMAIN calls : calls[i].got \in Seq(Diff)
      BY CallFacts
    <2>9. ASSUME NEW i \in DOMAIN calls
          PROVE  Matches(calls[i].got, calls[i].s)'
      <3>1. PICK g \in Seq(Diff) : g = calls[i].got
        BY <2>8
      <3>2. PICK s : s = calls[i].s
        OBVIOUS
      <3>3. /\ Len(g) <= Len(PartsIn(abi', s))
            /\ \A j \in DOMAIN g : subject'[g[j]] = PartsIn(abi', s)[j]
        BY <2>5, <2>6, <3>1, <3>2, MatchesKept DEF GotInv
      <3> QED
        BY <2>4, <3>1, <3>2, <3>3 DEF Matches
    <2>10. \A i \in DOMAIN calls : i + 1 \in DOMAIN calls => AsksNext(i)'
      BY <2>4, <2>6 DEF GotInv, AsksNext
    <2>11. calls'[1].s = AskedFor'
      <3>1. 1 \in DOMAIN calls
        BY <2>3, CallFacts
      <3> QED
        BY <2>3, <2>4, <2>7, <3>1 DEF GotInv
    <2> QED
      BY <2>3, <2>6, <2>9, <2>10, <2>11 DEF GotInv
  <1>3. CASE ComputePart
    <2>1. PICK k : k = Len(calls)
      OBVIOUS
    <2>2. /\ k \in DOMAIN calls /\ Top = calls[k] /\ k \in Nat
          /\ DOMAIN calls' = DOMAIN calls \cup {k + 1} /\ k + 1 \notin DOMAIN calls
          /\ \A i \in DOMAIN calls : calls'[i] = calls[i]
          /\ calls'[k + 1].got = <<>>
          /\ calls'[k + 1].s = PartsIn(abi, Top.s)[Len(Top.got) + 1]
          /\ Len(Top.got) < Len(PartsIn(abi, Top.s))
          /\ UNCHANGED <<abi, registry, asked, result>>
      BY <1>3, <2>1, ComputePartFacts
    <2>3. /\ calls # <<>> /\ ~Idle /\ result' = 0
          /\ DOMAIN calls = 1 .. k
      BY <2>1, <2>2, CallFacts DEF TurnInv
    <2>4. subject' = subject /\ abi' = abi
      BY <2>2 DEF registry
    <2>5. AskedFor' = AskedFor
      BY <2>2, <2>4 DEF AskedFor
    <2>6. ASSUME NEW i \in DOMAIN calls'
          PROVE  Matches(calls[i].got, calls[i].s)'
      <3>1. CASE i \in DOMAIN calls
        BY <2>2, <2>4, <3>1 DEF GotInv, Matches
      <3>2. CASE i = k + 1
        <4>1. \A i1, j \in DOMAIN calls : calls[i1].s \in Subject
          BY CallFacts
        <4>2. PartsIn(abi, Top.s) \in Seq(Subject)
          BY <2>2, <4>1, ABIAssumption DEF GraphTypeOK
        <4>3. calls'[k + 1].s \in Subject
          BY <2>2, <2>3, <4>2, TopType
        <4>4. PartsIn(abi, calls'[k + 1].s) \in Seq(Subject)
          BY <4>3, ABIAssumption DEF GraphTypeOK
        <4>5. 0 <= Len(PartsIn(abi, calls'[k + 1].s))
          BY <4>4, LenProperties
        <4> QED
          BY <2>2, <2>4, <3>2, <4>5 DEF Matches
      <3> QED
        BY <2>2, <3>1, <3>2
    <2>7. ASSUME NEW i \in DOMAIN calls', i + 1 \in DOMAIN calls'
          PROVE  AsksNext(i)'
      <3>1. i \in DOMAIN calls
        BY <2>2, <2>3, <2>7
      <3>2. CASE i + 1 \in DOMAIN calls
        BY <2>2, <2>4, <3>1, <3>2 DEF GotInv, AsksNext
      <3>3. CASE i + 1 = k + 1
        <4>1. i = k
          BY <2>2, <2>3, <3>1, <3>3
        <4> QED
          BY <2>2, <2>4, <4>1 DEF AsksNext
      <3> QED
        BY <2>2, <2>7, <3>2, <3>3
    <2>8. calls'[1].s = AskedFor'
      <3>1. 1 \in DOMAIN calls
        BY <2>2, <2>3
      <3> QED
        BY <2>2, <2>3, <2>5, <3>1 DEF GotInv
    <2> QED
      BY <2>3, <2>6, <2>7, <2>8 DEF GotInv
  <1>4. CASE FinishClass
    <2>1. PICK k : k = Len(calls)
      OBVIOUS
    <2>2. /\ k \in DOMAIN calls /\ Top = calls[k] /\ calls # <<>>
          /\ Top.node \in Diff /\ Top.node \in Nat
          /\ Return(Top.node)
          /\ UNCHANGED <<abi, subject, asked>>
      BY <1>4, <2>1, FinishClassFacts
    <2>3. subject'[Top.node] = Top.s
      BY <2>2, NodeFacts DEF NodesInv
    <2> QED
      BY <2>2, <2>3, ReturnGot
  <1>5. CASE GetRoot \/ GetType
    <2>1. calls = <<>> /\ calls' = <<>> /\ result' = 0
      BY <1>5 DEF GetRoot, GetType, Answered, TurnInv
    <2> QED
      BY <2>1 DEF GotInv
  <1>6. ASSUME NEW client, NEW s, Ask(client, s), s \in Subject,
               s = IF client.who = "root" THEN RootsIn(abi)[client.of]
                                          ELSE PartsIn(abi, subject[client.of])[1]
        PROVE  GotInv'
    <2>1. /\ DOMAIN calls' = {1} /\ calls'[1].s = s /\ calls'[1].got = <<>>
          /\ Idle /\ asked' = client
          /\ UNCHANGED <<abi, registry, result>>
      BY <1>6, AskFacts
    <2>2. AskedFor' = s /\ result' = 0
      BY <1>6, <2>1 DEF AskedFor, TurnInv, registry
    <2>3. 0 <= Len(PartsIn(abi, s))
      <3>1. PartsIn(abi, s) \in Seq(Subject)
        BY <1>6, ABIAssumption DEF GraphTypeOK
      <3> QED
        BY <3>1, LenProperties
    <2> QED
      BY <2>1, <2>2, <2>3 DEF GotInv, Matches
  <1>7. ASSUME NEW i \in DOMAIN roots, AskRoot(i)
        PROVE  GotInv'
    <2>1. RootsIn(abi)[i] \in Subject
      BY SMTT(30), ABIAssumption DEF GraphTypeOK, CallsTypeOK
    <2> QED
      BY <1>6, <1>7, <2>1 DEF AskRoot, Client
  <1>8. ASSUME NEW d \in Diff, AskType(d)
        PROVE  GotInv'
    <2>1. PartsIn(abi, subject[d])[1] \in Subject
      BY SMTT(30), <1>8, ABIAssumption DEF AskType, AwaitsType, GraphTypeOK, RegistryTypeOK, Diff
    <2> QED
      BY <1>6, <1>8, <2>1 DEF AskType, Client
  <1>9. CASE UNCHANGED <<abi, subject, calls, asked, result>>
    BY <1>9 DEF GotInv, Matches, AsksNext, AskedFor
  <1>10. \/ ComputeDeferred \/ ComputeKnownClass \/ ComputeNewClass \/ ComputePart
         \/ FinishClass \/ FinishCompound \/ GetRoot \/ GetType
         \/ \E i \in DOMAIN roots : AskRoot(i)
         \/ \E d \in Diff : AskType(d)
         \/ UNCHANGED <<abi, subject, calls, asked, result>>
    BY DEF GraphStep, Build, Compute, Finish, FinishDiffType, graphVars, registry
  <1> QED
    BY <1>1, <1>2, <1>3, <1>4, <1>5, <1>7, <1>8, <1>9, <1>10

-----------------------------------------------------------------------------
(* The diffs of the roots are those that were asked for; what compute_diff  *)
(* is done with has the diffs of all its parts.                             *)
RootsInv ==
    \A i \in DOMAIN roots : roots[i] # 0 => subject[roots[i]] = RootsIn(abi)[i]

HasAll(d) ==
    Members(PartsIn(abi, subject[d])) \subseteq {subject[c] : c \in Members(parts[d])}

AtWork(d) == \E i \in DOMAIN calls : calls[i].node = d

PartsInv ==
    \A d \in Diff :
        /\ Kind(d) \in Deferred => parts[d] = <<>> \/ HasAll(d)
        /\ Kind(d) = "class" /\ canonical[d] = d => HasAll(d) \/ AtWork(d)
        /\ Kind(d) \notin Deferred \cup {"class"} => HasAll(d)

RootFacts ==
    /\ DOMAIN roots = DOMAIN RootsIn(abi)
    /\ \A i \in DOMAIN roots : roots[i] \in Diff \cup {0}

LEMMA RootsType ==
    ASSUME GraphTypeOK
    PROVE  RootFacts
  <1>1. roots \in Seq(0 .. Len(subject)) /\ Len(roots) = Len(RootsIn(abi))
    BY DEF GraphTypeOK, CallsTypeOK
  <1>2. RootsIn(abi) \in Seq(Subject)
    BY ABIAssumption DEF GraphTypeOK
  <1>3. DOMAIN roots = 1 .. Len(roots) /\ DOMAIN RootsIn(abi) = DOMAIN roots
    BY <1>1, <1>2, LenProperties
  <1>4. 0 .. Len(subject) = Diff \cup {0}
    BY NodeFacts
  <1>5. \A i \in DOMAIN roots : roots[i] \in 0 .. Len(subject)
    BY <1>1, <1>3, ElementOfSeq
  <1> QED
    BY <1>3, <1>4, <1>5 DEF RootFacts

LEMMA RootsInductive ==
    ASSUME GraphTypeOK, GotInv, RootsInv, [GraphStep]_graphVars
    PROVE  RootsInv'
  <1>1. RootFacts
    BY RootsType
  <1>2. CASE roots' = roots /\ abi' = abi /\ \A d \in Diff : subject'[d] = subject[d]
    BY <1>1, <1>2 DEF RootsInv, RootFacts
  <1>3. CASE ComputeDeferred \/ ComputeKnownClass \/ ComputeNewClass \/ FinishCompound
    <2>1. calls # <<>> /\ abi' = abi /\ roots' = roots
      BY <1>3 DEF ComputeDeferred, ComputeKnownClass, ComputeNewClass, FinishCompound
    <2>2. Top.got \in Seq(Diff) /\ <<>> \in Seq(Diff) /\ Top.s \in Subject
      BY <2>1, TopType
    <2>3. \E p \in Seq(Diff) : NewDiff(Top.s, p)
      <3>1. NewDiff(Top.s, <<>>) \/ NewDiff(Top.s, Top.got)
        BY <1>3 DEF ComputeDeferred, ComputeKnownClass, ComputeNewClass, FinishCompound
      <3> QED
        BY <2>2, <3>1
    <2>4. OldKept
      BY <2>2, <2>3, NewDiffFacts
    <2> QED
      BY <1>2, <2>1, <2>4 DEF OldKept
  <1>4. CASE GetRoot
    <2>1. /\ roots' = [roots EXCEPT ![asked.of] = result] /\ result # 0 /\ asked.who = "root"
          /\ abi' = abi /\ subject' = subject
      BY <1>4 DEF GetRoot, registry
    <2>2. subject[result] = RootsIn(abi)[asked.of]
      BY <2>1 DEF GotInv, AskedFor
    <2>3. DOMAIN roots' = DOMAIN roots
      BY <2>1
    <2>4. roots = [i \in DOMAIN roots |-> roots[i]]
      BY DEF GraphTypeOK, CallsTypeOK
    <2>5. \A i \in DOMAIN roots : roots'[i] = IF i = asked.of THEN result ELSE roots[i]
      BY <2>1, <2>4
    <2> QED
      BY <2>1, <2>2, <2>3, <2>5 DEF RootsInv
  <1>5. CASE UNCHANGED <<abi, subject, roots>>
    BY <1>2, <1>5
  <1>6. \/ ComputeDeferred \/ ComputeKnownClass \/ ComputeNewClass \/ FinishCompound \/ GetRoot
        \/ UNCHANGED <<abi, subject, roots>>
    BY DEF GraphStep, Build, Compute, Finish, ComputePart, FinishClass, GetType, AskRoot, AskType,
       Ask, FinishDiffType, graphVars, registry
  <1> QED
    BY <1>3, <1>4, <1>5, <1>6

(* The diffs that a call has got are all that its subject needs.            *)
LEMMA GotAll ==
    ASSUME GraphTypeOK, NEW g \in Seq(Diff), NEW s \in Subject, Matches(g, s),
           Len(g) = Len(PartsIn(abi, s))
    PROVE  Members(PartsIn(abi, s)) \subseteq {subject[c] : c \in Members(g)}
  <1>1. PartsIn(abi, s) \in Seq(Subject)
    BY ABIAssumption DEF GraphTypeOK
  <1>2. DOMAIN g = 1 .. Len(g) /\ DOMAIN PartsIn(abi, s) = 1 .. Len(g)
    BY <1>1, LenProperties
  <1> QED
    BY <1>2 DEF Matches, Members

LEMMA PartsKept ==
    ASSUME GraphTypeOK, PartsInv, abi' = abi, NEW d \in Diff,
           \A e \in Diff : subject'[e] = subject[e],
           canonical'[d] = canonical[d], parts'[d] = parts[d],
           AtWork(d) => AtWork(d)' \/ HasAll(d)'
    PROVE  /\ Kind(d)' \in Deferred => parts'[d] = <<>> \/ HasAll(d)'
           /\ Kind(d)' = "class" /\ canonical'[d] = d => HasAll(d)' \/ AtWork(d)'
           /\ Kind(d)' \notin Deferred \cup {"class"} => HasAll(d)'
  <1>1. Kind(d)' = Kind(d)
    BY DEF Kind
  <1>2. HasAll(d)' <=> HasAll(d)
    <2>1. \A c \in Members(parts[d]) : subject'[c] = subject[c]
      BY NodeFacts
    <2>2. {subject'[c] : c \in Members(parts[d])} = {subject[c] : c \in Members(parts[d])}
      BY <2>1
    <2>3. PartsIn(abi', subject'[d]) = PartsIn(abi, subject[d])
      OBVIOUS
    <2> QED
      BY <2>2, <2>3 DEF HasAll
  <1> QED
    BY <1>1, <1>2 DEF PartsInv

LEMMA PartsInductive ==
    ASSUME GraphTypeOK, NodesInv, TurnInv, GotInv, PartsInv, [GraphStep]_graphVars
    PROVE  PartsInv'
  <1> DEFINE Right(d) == /\ Kind(d) \in Deferred => parts[d] = <<>> \/ HasAll(d)
                         /\ Kind(d) = "class" /\ canonical[d] = d => HasAll(d) \/ AtWork(d)
                         /\ Kind(d) \notin Deferred \cup {"class"} => HasAll(d)
  <1>0. 0 \notin Diff
    BY NodeFacts
  <1>1. ASSUME calls # <<>>, NEW p \in Seq(Diff), NewDiff(Top.s, p), Return(Len(subject) + 1),
               abi' = abi, \A d \in Diff : Top.node # d, NEW n, n = Len(subject) + 1,
               Right(n)'
        PROVE  PartsInv'
    <2>1. Top.s \in Subject /\ n \in Nat
      BY <1>1, TopType, NodeFacts
    <2>2. OldKept /\ Diff' = Diff \cup {n}
      BY <1>1, <2>1, NewDiffFacts
    <2>3. ASSUME NEW d \in Diff, AtWork(d)
          PROVE  AtWork(d)'
      <3>1. PICK i \in DOMAIN calls : calls[i].node = d
        BY <2>3 DEF AtWork
      <3>2. i # Len(calls) /\ DOMAIN calls = 1 .. Len(calls) /\ Len(calls) \in Nat
        BY <1>1, <3>1, CallFacts
      <3>3. i \in 1 .. Len(calls) - 1
        BY <3>2
      <3>4. i \in DOMAIN calls' /\ calls'[i].node = d
        BY <1>1, <2>1, <3>1, <3>3, ReturnFacts
      <3> QED
        BY <3>4 DEF AtWork
    <2>4. ASSUME NEW d \in Diff
          PROVE  Right(d)'
      BY <1>1, <2>2, <2>3, PartsKept DEF OldKept
    <2> QED
      BY <1>1, <2>2, <2>4 DEF PartsInv
  <1>2. CASE ComputeDeferred
    <2>1. PICK n : n = Len(subject) + 1
      OBVIOUS
    <2>2. PICK p : p = <<>>
      OBVIOUS
    <2>3. /\ calls # <<>> /\ KindIn(abi, Top.s) = "var" /\ p \in Seq(Diff)
          /\ NewDiff(Top.s, p) /\ Return(Len(subject) + 1) /\ abi' = abi
      BY <1>2, <2>2 DEF ComputeDeferred
    <2>4. subject'[n] = Top.s /\ parts'[n] = <<>>
      <3>1. Top.s \in Subject
        BY <2>3, TopType
      <3> QED
        <4>1. subject'[n] = Top.s /\ parts'[n] = p
          BY <2>1, <2>3, <3>1, NewDiffFacts
        <4> QED
          BY <2>2, <4>1
    <2>5. Kind(n)' = "var"
      BY <2>3, <2>4 DEF Kind
    <2>6. \A d \in Diff : Top.node # d
      BY <1>0, <2>3, CallFacts DEF NodesInv
    <2>7. Right(n)'
      BY <2>4, <2>5 DEF Deferred
    <2> QED
      BY <1>1, <2>1, <2>3, <2>6, <2>7
  <1>3. CASE ComputeKnownClass
    <2>1. PICK n : n = Len(subject) + 1
      OBVIOUS
    <2>2. PICK p : p = <<>>
      OBVIOUS
    <2>3. /\ calls # <<>> /\ KindIn(abi, Top.s) = "class" /\ p \in Seq(Diff)
          /\ Top.node = 0 /\ canonicalOf[Top.s] # 0
          /\ NewDiff(Top.s, p) /\ Return(Len(subject) + 1) /\ abi' = abi
      BY <1>3, <2>2 DEF ComputeKnownClass
    <2>4. Top.s \in Subject
      BY <2>3, TopType
    <2>5. subject'[n] = Top.s /\ canonical'[n] = canonicalOf[Top.s] /\ n \notin Diff
      BY <2>1, <2>3, <2>4, NewDiffFacts
    <2>6. canonicalOf[Top.s] \in Diff
      BY <2>3, <2>4, NodeFacts DEF GraphTypeOK, RegistryTypeOK
    <2>7. Kind(n)' = "class" /\ canonical'[n] # n
      BY <2>3, <2>5, <2>6 DEF Kind
    <2>8. Right(n)'
      BY <2>7 DEF Deferred
    <2> QED
      BY <1>0, <1>1, <2>1, <2>3, <2>8
  <1>4. CASE FinishCompound
    <2>1. PICK n : n = Len(subject) + 1
      OBVIOUS
    <2>2. PICK p : p = IF KindIn(abi, Top.s) \in Deferred THEN <<>> ELSE Top.got
      OBVIOUS
    <2>3. /\ calls # <<>> /\ KindIn(abi, Top.s) \in {"function", "parm", "compound", "qualified"}
          /\ NewDiff(Top.s, p) /\ Return(Len(subject) + 1) /\ abi' = abi /\ HasAllParts
      BY <1>4, <2>2 DEF FinishCompound
    <2>4. p \in Seq(Diff) /\ Top.s \in Subject /\ Top.got \in Seq(Diff)
      BY <2>2, <2>3, TopType
    <2>5. OldKept /\ subject'[n] = Top.s /\ parts'[n] = p
      BY <2>1, <2>3, <2>4, NewDiffFacts
    <2>6. Kind(n)' = KindIn(abi, Top.s)
      BY <2>3, <2>5 DEF Kind
    <2>7. \A d \in Diff : Top.node # d
      BY <1>0, <2>3, CallFacts DEF NodesInv
    <2>8. KindIn(abi, Top.s) \notin Deferred => HasAll(n)'
      <3>1. Matches(Top.got, Top.s) /\ Len(Top.got) = Len(PartsIn(abi, Top.s))
        BY <2>3, CallFacts DEF GotInv, HasAllParts
      <3>2. Members(PartsIn(abi, Top.s)) \subseteq {subject[c] : c \in Members(Top.got)}
        BY <2>4, <3>1, GotAll
      <3>3. \A c \in Members(Top.got) : subject'[c] = subject[c]
        BY <2>4, <2>5, MembersType DEF OldKept
      <3>4. {subject'[c] : c \in Members(Top.got)} = {subject[c] : c \in Members(Top.got)}
        BY <3>3
      <3> QED
        BY <2>2, <2>3, <2>5, <3>2, <3>4 DEF HasAll
    <2>9. Right(n)'
      BY <2>2, <2>3, <2>5, <2>6, <2>8 DEF Deferred
    <2> QED
      BY <1>1, <2>1, <2>3, <2>4, <2>7, <2>9
  <1>5. CASE ComputeNewClass
    <2>1. PICK k : k = Len(calls)
      OBVIOUS
    <2>2. PICK n : n = Len(subject) + 1
      OBVIOUS
    <2>3. PICK p : p = <<>>
      OBVIOUS
    <2>4. /\ k \in DOMAIN calls /\ DOMAIN calls' = DOMAIN calls
          /\ \A i \in DOMAIN calls : i # k => calls'[i] = calls[i]
          /\ calls[k].node = 0 /\ calls'[k].node = n
          /\ KindIn(abi, calls[k].s) = "class" /\ Top.s = calls[k].s
          /\ p \in Seq(Diff) /\ Top.s \in Subject /\ NewDiff(Top.s, p)
      BY <1>5, <2>1, <2>2, <2>3, NewClassFacts
    <2>5. OldKept /\ subject'[n] = Top.s /\ Diff' = Diff \cup {n} /\ abi' = abi
      BY <1>5, <2>2, <2>4, NewDiffFacts DEF ComputeNewClass
    <2>6. \A d \in Diff : AtWork(d) => AtWork(d)'
      BY <1>0, <2>4 DEF AtWork
    <2>7. ASSUME NEW d \in Diff
          PROVE  Right(d)'
      BY <2>5, <2>6, PartsKept DEF OldKept
    <2>8. Right(n)'
      <3>1. Kind(n)' = "class" /\ AtWork(n)'
        BY <2>4, <2>5 DEF Kind, AtWork
      <3> QED
        BY <3>1 DEF Deferred
    <2> QED
      BY <2>5, <2>7, <2>8 DEF PartsInv
  <1>6. CASE ComputePart
    <2>1. PICK k : k = Len(calls)
      OBVIOUS
    <2>2. /\ DOMAIN calls' = DOMAIN calls \cup {k + 1}
          /\ \A i \in DOMAIN calls : calls'[i] = calls[i]
          /\ UNCHANGED <<abi, registry>>
      BY <1>6, <2>1, ComputePartFacts
    <2>3. \A d \in Diff : AtWork(d) => AtWork(d)'
      BY <2>2 DEF AtWork
    <2>4. ASSUME NEW d \in Diff
          PROVE  Right(d)'
      BY <2>2, <2>3, PartsKept DEF registry
    <2> QED
      BY <2>2, <2>4 DEF PartsInv, registry, Diff
  <1>7. CASE FinishClass
    <2>1. PICK k : k = Len(calls)
      OBVIOUS
    <2>2. /\ k \in DOMAIN calls /\ Top = calls[k] /\ calls # <<>>
          /\ Top.node \in Diff /\ Top.node \in Nat /\ KindIn(abi, Top.s) = "class"
          /\ Return(Top.node) /\ HasAllParts
          /\ parts'[Top.node] = Top.got
          /\ \A e \in Diff : e # Top.node => parts'[e] = parts[e]
          /\ UNCHANGED <<abi, subject, canonical, Diff>>
      BY <1>7, <2>1, FinishClassFacts
    <2>3. subject[Top.node] = Top.s /\ Top.s \in Subject /\ Top.got \in Seq(Diff)
      BY <2>2, NodeFacts, TopType DEF NodesInv
    <2>4. PICK n : n = Top.node
      OBVIOUS
    <2>5. HasAll(n)'
      <3>1. Matches(Top.got, Top.s) /\ Len(Top.got) = Len(PartsIn(abi, Top.s))
        BY <2>2 DEF GotInv, HasAllParts
      <3>2. Members(PartsIn(abi, Top.s)) \subseteq {subject[c] : c \in Members(Top.got)}
        BY <2>3, <3>1, GotAll
      <3> QED
        BY <2>2, <2>3, <2>4, <3>2 DEF HasAll
    <2>6. ASSUME NEW d \in Diff
          PROVE  Right(d)'
      <3>1. CASE d = n
        <4>1. Kind(d)' = "class"
          BY <2>2, <2>3, <2>4, <3>1 DEF Kind
        <4>2. HasAll(d)'
          BY <2>5, <3>1
        <4> QED
          BY <4>1, <4>2 DEF Deferred
      <3>2. CASE d # n
        <4>1. AtWork(d) => AtWork(d)'
          <5> SUFFICES ASSUME AtWork(d)
                       PROVE  AtWork(d)'
            OBVIOUS
          <5>1. PICK i \in DOMAIN calls : calls[i].node = d
            BY DEF AtWork
          <5>2. i # k /\ DOMAIN calls = 1 .. k /\ k \in Nat
            BY <2>1, <2>2, <2>4, <3>2, <5>1, CallFacts
          <5>3. i \in 1 .. Len(calls) - 1
            BY <2>1, <5>2
          <5>4. i \in DOMAIN calls' /\ calls'[i].node = d
            BY <2>2, <5>1, <5>3, ReturnFacts
          <5> QED
            BY <5>4 DEF AtWork
        <4> QED
          BY <2>2, <2>4, <3>2, <4>1, PartsKept
      <3> QED
        BY <3>1, <3>2
    <2> QED
      BY <2>2, <2>6 DEF PartsInv
  <1>8. CASE GetType
    <2>1. PICK d : d = asked.of
      OBVIOUS
    <2>2. /\ d \in Diff /\ asked = Client("type", d) /\ result \in Diff
          /\ parts'[d] = <<result>>
          /\ \A e \in Diff : e # d => parts'[e] = parts[e]
          /\ UNCHANGED <<abi, subject, canonical, calls, Diff>>
      BY <1>8, <2>1, GetTypeFacts
    <2>3. AwaitsType(d) /\ subject[d] \in Subject
      BY <1>8, <2>1, <2>2, NodeFacts DEF TurnInv, GetType
    <2>4. Kind(d) \in Deferred /\ Kind(d)' = Kind(d)
      BY <2>2, <2>3 DEF AwaitsType, Kind
    <2>5. HasAll(d)'
      <3>1. PICK P : P = PartsIn(abi, subject[d])
        OBVIOUS
      <3>2. P \in Seq(Subject) /\ Len(P) <= 1
        BY <2>3, <2>4, <3>1, ABIAssumption DEF GraphTypeOK, Kind
      <3>3. subject[result] = P[1]
        BY <1>8, <2>1, <2>2, <3>1, NodeFacts DEF GotInv, AskedFor, GetType, Client
      <3>4. Members(P) \subseteq {P[1]}
        BY <3>2 DEF Members
      <3>5. result \in Members(<<result>>)
        BY DEF Members
      <3> QED
        BY <2>2, <3>1, <3>3, <3>4, <3>5 DEF HasAll
    <2>6. ASSUME NEW e \in Diff
          PROVE  Right(e)'
      <3>1. CASE e = d
        BY <2>4, <2>5, <3>1 DEF Deferred
      <3>2. CASE e # d
        <4>1. AtWork(e) => AtWork(e)'
          BY <2>2 DEF AtWork
        <4> QED
          BY <2>2, <3>2, <4>1, PartsKept
      <3> QED
        BY <3>1, <3>2
    <2> QED
      BY <2>2, <2>6 DEF PartsInv
  <1>9. ASSUME NEW client, NEW s, Ask(client, s)
        PROVE  PartsInv'
    <2>1. calls = <<>> /\ UNCHANGED <<abi, registry>>
      BY <1>9, AskFacts DEF TurnInv
    <2>2. \A d \in Diff : ~AtWork(d)
      BY <2>1 DEF AtWork
    <2>3. ASSUME NEW d \in Diff
          PROVE  Right(d)'
      BY <2>1, <2>2, PartsKept DEF registry
    <2> QED
      BY <2>1, <2>3 DEF PartsInv, registry, Diff
  <1>10. CASE UNCHANGED <<abi, registry, calls>>
    <2>1. \A d \in Diff : AtWork(d) => AtWork(d)'
      BY <1>10 DEF AtWork
    <2>2. ASSUME NEW d \in Diff
          PROVE  Right(d)'
      BY <1>10, <2>1, PartsKept DEF registry
    <2> QED
      BY <1>10, <2>2 DEF PartsInv, registry, Diff
  <1>11. \/ ComputeDeferred \/ ComputeKnownClass \/ ComputeNewClass \/ ComputePart
         \/ FinishClass \/ FinishCompound \/ GetType
         \/ \E client, s : Ask(client, s)
         \/ UNCHANGED <<abi, registry, calls>>
    BY DEF GraphStep, Build, Compute, Finish, GetRoot, AskRoot, AskType, FinishDiffType, graphVars
  <1> QED
    BY <1>2, <1>3, <1>4, <1>5, <1>6, <1>7, <1>8, <1>9, <1>10, <1>11

(* The parts of a diff are diffs of the parts of its subject.               *)
PartOf(c, d) == subject[c] \in Members(PartsIn(abi, subject[d]))

OwnParts == \A d \in Diff : \A c \in Members(parts[d]) : PartOf(c, d)

LEMMA GotPart ==
    ASSUME GraphTypeOK, NEW g \in Seq(Diff), NEW s \in Subject, Matches(g, s),
           NEW c \in Members(g)
    PROVE  subject[c] \in Members(PartsIn(abi, s))
  <1>1. PartsIn(abi, s) \in Seq(Subject)
    BY ABIAssumption DEF GraphTypeOK
  <1>2. PICK j \in DOMAIN g : c = g[j]
    BY DEF Members
  <1>3. j \in DOMAIN PartsIn(abi, s)
    <2>1. DOMAIN g = 1 .. Len(g) /\ DOMAIN PartsIn(abi, s) = 1 .. Len(PartsIn(abi, s))
          /\ Len(g) \in Nat /\ Len(PartsIn(abi, s)) \in Nat
      BY <1>1, LenProperties
    <2>2. Len(g) <= Len(PartsIn(abi, s))
      BY DEF Matches
    <2> QED
      BY <1>2, <2>1, <2>2
  <1> QED
    BY <1>2, <1>3 DEF Matches, Members

(* A diff whose parts do not change.                                        *)
LEMMA OwnPartsKept ==
    ASSUME GraphTypeOK, OwnParts, abi' = abi, NEW d \in Diff,
           \A e \in Diff : subject'[e] = subject[e], parts'[d] = parts[d]
    PROVE  \A c \in Members(parts'[d]) : PartOf(c, d)'
  <1>1. \A c \in Members(parts[d]) : c \in Diff /\ PartOf(c, d)
    BY NodeFacts DEF OwnParts
  <1> QED
    BY <1>1 DEF PartOf

LEMMA OwnPartsInductive ==
    ASSUME GraphTypeOK, NodesInv, TurnInv, GotInv, OwnParts, [GraphStep]_graphVars
    PROVE  OwnParts'
  <1>1. ASSUME NEW s \in Subject, NEW p \in Seq(Diff), NewDiff(s, p), abi' = abi,
               \A c \in Members(p) : subject[c] \in Members(PartsIn(abi, s))
        PROVE  OwnParts'
    <2>1. PICK n : n = Len(subject) + 1
      OBVIOUS
    <2>2. OldKept /\ Diff' = Diff \cup {n} /\ subject'[n] = s /\ parts'[n] = p
      BY <1>1, <2>1, NewDiffFacts
    <2>3. ASSUME NEW d \in Diff
          PROVE  \A c \in Members(parts'[d]) : PartOf(c, d)'
      BY <1>1, <2>2, OwnPartsKept DEF OldKept
    <2>4. \A c \in Members(parts'[n]) : PartOf(c, n)'
      BY <1>1, <2>2, MembersType DEF OldKept, PartOf
    <2> QED
      BY <2>2, <2>3, <2>4 DEF OwnParts
  <1>2. CASE ComputeDeferred \/ ComputeKnownClass \/ ComputeNewClass \/ FinishCompound
    <2>1. calls # <<>> /\ abi' = abi
      BY <1>2 DEF ComputeDeferred, ComputeKnownClass, ComputeNewClass, FinishCompound
    <2>2. Top.got \in Seq(Diff) /\ <<>> \in Seq(Diff) /\ Top.s \in Subject
          /\ Matches(Top.got, Top.s)
      BY <2>1, TopType, CallFacts DEF GotInv
    <2>3. NewDiff(Top.s, <<>>) \/ NewDiff(Top.s, Top.got)
      BY <1>2 DEF ComputeDeferred, ComputeKnownClass, ComputeNewClass, FinishCompound
    <2>4. \A c \in Members(Top.got) : subject[c] \in Members(PartsIn(abi, Top.s))
      BY <2>2, GotPart
    <2>5. \A c \in Members(<<>>) : subject[c] \in Members(PartsIn(abi, Top.s))
      BY NoMembers
    <2> QED
      BY <1>1, <2>1, <2>2, <2>3, <2>4, <2>5
  <1>3. CASE FinishClass
    <2>1. PICK n : n = Top.node
      OBVIOUS
    <2>2. /\ calls # <<>> /\ n \in Diff /\ Len(calls) \in DOMAIN calls /\ Top = calls[Len(calls)]
          /\ parts'[n] = Top.got
          /\ \A e \in Diff : e # n => parts'[e] = parts[e]
          /\ UNCHANGED <<abi, subject, Diff>>
      BY <1>3, <2>1, FinishClassFacts
    <2>3. subject[n] = Top.s /\ Top.s \in Subject /\ Top.got \in Seq(Diff)
          /\ Matches(Top.got, Top.s)
      BY <2>1, <2>2, NodeFacts, TopType DEF NodesInv, GotInv
    <2>4. \A c \in Members(parts'[n]) : PartOf(c, n)'
      BY <2>2, <2>3, GotPart DEF PartOf
    <2>5. ASSUME NEW d \in Diff, d # n
          PROVE  \A c \in Members(parts'[d]) : PartOf(c, d)'
      BY <2>2, <2>5, OwnPartsKept
    <2> QED
      BY <2>2, <2>4, <2>5 DEF OwnParts
  <1>4. CASE GetType
    <2>1. PICK d : d = asked.of
      OBVIOUS
    <2>2. /\ d \in Diff /\ asked = Client("type", d) /\ result \in Diff
          /\ parts'[d] = <<result>>
          /\ \A e \in Diff : e # d => parts'[e] = parts[e]
          /\ UNCHANGED <<abi, subject, Diff>>
      BY <1>4, <2>1, GetTypeFacts
    <2>3. AwaitsType(d) /\ subject[d] \in Subject
      BY <1>4, <2>1, <2>2, NodeFacts DEF TurnInv, GetType
    <2>4. subject[result] = PartsIn(abi, subject[d])[1]
      BY <1>4, <2>1, <2>2, NodeFacts DEF GotInv, AskedFor, GetType, Client
    <2>5. PartsIn(abi, subject[d]) \in Seq(Subject) /\ PartsIn(abi, subject[d]) # <<>>
      BY <2>3, ABIAssumption DEF GraphTypeOK, AwaitsType
    <2>6. 1 \in DOMAIN PartsIn(abi, subject[d])
      BY <2>5
    <2>7. \A c \in Members(<<result>>) : c = result
      BY DEF Members
    <2>8. \A c \in Members(parts'[d]) : PartOf(c, d)'
      BY <2>2, <2>4, <2>6, <2>7 DEF PartOf, Members
    <2>9. ASSUME NEW e \in Diff, e # d
          PROVE  \A c \in Members(parts'[e]) : PartOf(c, e)'
      BY <2>2, <2>9, OwnPartsKept
    <2> QED
      BY <2>2, <2>8, <2>9 DEF OwnParts
  <1>5. CASE UNCHANGED <<abi, registry>>
    <2>1. ASSUME NEW d \in Diff
          PROVE  \A c \in Members(parts'[d]) : PartOf(c, d)'
      BY <1>5, OwnPartsKept DEF registry
    <2> QED
      BY <1>5, <2>1 DEF OwnParts, registry, Diff
  <1>6. \/ ComputeDeferred \/ ComputeKnownClass \/ ComputeNewClass \/ FinishCompound
        \/ FinishClass \/ GetType \/ UNCHANGED <<abi, registry>>
    BY DEF GraphStep, Build, Compute, Finish, ComputePart, GetRoot, AskRoot, AskType, Ask,
       FinishDiffType, graphVars
  <1> QED
    BY <1>2, <1>3, <1>4, <1>5, <1>6

-----------------------------------------------------------------------------
(* compute_diff is only ever called on what the roots depend on.            *)
Needed(X) == Members(RootsIn(abi)) \subseteq X /\ HasParts(X)

NeededInv ==
    \A X \in SUBSET Subject :
        Needed(X) => /\ \A d \in Diff : subject[d] \in X
                     /\ \A i \in DOMAIN calls : calls[i].s \in X

LEMMA NeededInductive ==
    ASSUME GraphTypeOK, NeededInv, [GraphStep]_graphVars
    PROVE  NeededInv'
  <1>1. abi' = abi
    BY DEF GraphStep, Build, Compute, ComputeDeferred, ComputeKnownClass, ComputeNewClass,
       ComputePart, FinishClass, FinishCompound, GetRoot, GetType, AskRoot, Finish, AskType, Ask,
       FinishDiffType, graphVars
  <1> SUFFICES ASSUME NEW X \in SUBSET Subject, Needed(X)
               PROVE  /\ \A d \in Diff' : subject'[d] \in X
                      /\ \A i \in DOMAIN calls' : calls'[i].s \in X
    BY <1>1 DEF NeededInv, Needed, HasParts
  <1>2. /\ \A d \in Diff : subject[d] \in X
        /\ \A i \in DOMAIN calls : calls[i].s \in X
    BY DEF NeededInv
  <1>3. ASSUME NEW s \in X, NEW j \in 1 .. Len(PartsIn(abi, s))
        PROVE  PartsIn(abi, s)[j] \in X
    <2>1. PartsIn(abi, s) \in Seq(Subject)
      BY ABIAssumption DEF GraphTypeOK
    <2> QED
      BY <2>1, LenProperties DEF Needed, HasParts, Members
  <1>4. CASE ComputeDeferred \/ ComputeKnownClass \/ FinishCompound \/ ComputeNewClass
    <2>1. calls # <<>>
      BY <1>4 DEF ComputeDeferred, ComputeKnownClass, FinishCompound, ComputeNewClass
    <2>2. Top.got \in Seq(Diff) /\ <<>> \in Seq(Diff) /\ Top.s \in Subject /\ Top.s \in X
      BY <1>2, <2>1, TopType, CallFacts
    <2>3. PICK p \in Seq(Diff) : NewDiff(Top.s, p)
      <3>1. NewDiff(Top.s, <<>>) \/ NewDiff(Top.s, Top.got)
        BY <1>4 DEF ComputeDeferred, ComputeKnownClass, FinishCompound, ComputeNewClass
      <3> QED
        BY <2>2, <3>1
    <2>4. PICK n : n = Len(subject) + 1
      OBVIOUS
    <2>5. OldKept /\ subject'[n] = Top.s /\ Diff' = Diff \cup {n} /\ n \in Nat
      BY <2>2, <2>3, <2>4, NewDiffFacts, NodeFacts
    <2>6. \A i \in DOMAIN calls' : i \in DOMAIN calls /\ calls'[i].s = calls[i].s
      <3>1. CASE ComputeNewClass
        BY <3>1, NewClassFacts
      <3>2. CASE Return(Len(subject) + 1)
        BY <2>1, <2>4, <2>5, <3>2, ReturnFacts
      <3> QED
        BY <1>4, <3>1, <3>2 DEF ComputeDeferred, ComputeKnownClass, FinishCompound
    <2> QED
      BY <1>2, <2>2, <2>5, <2>6 DEF OldKept
  <1>5. CASE ComputePart
    <2>1. PICK k : k = Len(calls)
      OBVIOUS
    <2>2. /\ k \in DOMAIN calls /\ Top = calls[k]
          /\ DOMAIN calls' = DOMAIN calls \cup {k + 1}
          /\ \A i \in DOMAIN calls : calls'[i] = calls[i]
          /\ calls'[k + 1].s = PartsIn(abi, Top.s)[Len(Top.got) + 1]
          /\ Len(Top.got) < Len(PartsIn(abi, Top.s))
          /\ UNCHANGED registry
      BY <1>5, <2>1, ComputePartFacts
    <2>3. Len(Top.got) + 1 \in 1 .. Len(PartsIn(abi, Top.s)) /\ Top.s \in X
      <3>1. Top.got \in Seq(Diff) /\ PartsIn(abi, Top.s) \in Seq(Subject) /\ Top.s \in X
        BY <1>2, <1>5, <2>2, TopType DEF ComputePart
      <3>2. Len(Top.got) \in Nat /\ Len(PartsIn(abi, Top.s)) \in Nat
        BY <3>1, LenProperties
      <3> QED
        BY <2>2, <3>1, <3>2
    <2>4. calls'[k + 1].s \in X
      BY <1>3, <2>2, <2>3
    <2> QED
      BY <1>2, <2>2, <2>4 DEF registry, Diff
  <1>6. CASE FinishClass
    <2>1. /\ calls # <<>> /\ Top.node \in Nat /\ Return(Top.node)
          /\ UNCHANGED <<subject, Diff>>
      BY <1>6, FinishClassFacts
    <2>2. \A i \in DOMAIN calls' : i \in DOMAIN calls /\ calls'[i].s = calls[i].s
      BY <2>1, ReturnFacts
    <2> QED
      BY <1>2, <2>1, <2>2
  <1>7. ASSUME NEW client, NEW s \in X, Ask(client, s)
        PROVE  /\ \A d \in Diff' : subject'[d] \in X
               /\ \A i \in DOMAIN calls' : calls'[i].s \in X
    BY <1>2, <1>7, AskFacts DEF registry, Diff
  <1>8. ASSUME NEW i \in DOMAIN roots, AskRoot(i)
        PROVE  \E client : \E s \in X : Ask(client, s)
    <2>1. RootsIn(abi)[i] \in X
      BY RootsType DEF RootFacts, Needed, Members
    <2> QED
      BY <1>8, <2>1 DEF AskRoot
  <1>9. ASSUME NEW d \in Diff, AskType(d)
        PROVE  \E client : \E s \in X : Ask(client, s)
    <2>1. PartsIn(abi, subject[d]) \in Seq(Subject) /\ PartsIn(abi, subject[d]) # <<>>
      BY <1>9, NodeFacts, ABIAssumption DEF GraphTypeOK, AskType, AwaitsType
    <2>2. 1 \in 1 .. Len(PartsIn(abi, subject[d]))
      BY <2>1
    <2>3. PartsIn(abi, subject[d])[1] \in X
      BY <1>2, <1>3, <2>2
    <2> QED
      BY <1>9, <2>3 DEF AskType
  <1>10. CASE UNCHANGED <<subject, calls>>
    BY <1>2, <1>10 DEF Diff
  <1>11. \/ ComputeDeferred \/ ComputeKnownClass \/ FinishCompound \/ ComputeNewClass
         \/ ComputePart \/ FinishClass
         \/ \E i \in DOMAIN roots : AskRoot(i)
         \/ \E d \in Diff : AskType(d)
         \/ UNCHANGED <<subject, calls>>
    BY DEF GraphStep, Build, Compute, Finish, GetRoot, GetType, FinishDiffType, graphVars, registry
  <1> QED
    BY <1>4, <1>5, <1>6, <1>7, <1>8, <1>9, <1>10, <1>11

LossInv ==
    /\ GraphInv
    /\ GotInv
    /\ RootsInv
    /\ PartsInv
    /\ OwnParts
    /\ NeededInv

LEMMA LossInit == GraphInit => LossInv
  <1> SUFFICES ASSUME GraphInit
               PROVE  LossInv
    OBVIOUS
  <1>1. GraphInv
    BY GraphInvInit
  <1>2. GotInv
    BY DEF GraphInit, GotInv
  <1>3. RootsInv /\ PartsInv
    BY DEF GraphInit, RootsInv, PartsInv, Diff
  <1>4. NeededInv /\ OwnParts
    BY DEF GraphInit, NeededInv, OwnParts, Diff
  <1> QED
    BY <1>1, <1>2, <1>3, <1>4 DEF LossInv

LEMMA LossInductive ==
    ASSUME LossInv, [GraphStep]_graphVars
    PROVE  LossInv'
  <1> USE DEF LossInv, GraphInv
  <1>1. GraphInv'
    BY GraphInvInductive
  <1>2. GotInv' /\ RootsInv'
    BY GotInductive, RootsInductive
  <1>3. PartsInv' /\ OwnParts' /\ NeededInv'
    BY PartsInductive, OwnPartsInductive, NeededInductive
  <1> QED
    BY <1>1, <1>2, <1>3

(* A finished diff has a part of each of the subjects its own depends on.   *)
LEMMA FinishedHasAll ==
    ASSUME LossInv, NEW d \in Diff, finished[d]
    PROVE  Members(PartsIn(abi, subject[d])) \subseteq {subject[c] : c \in Members(Parts(d))}
  <1>1. /\ GraphTypeOK /\ CanonicalDiffs /\ ~AwaitsType(d)
        /\ canonical[d] \in Diff
    BY CanonicalInvSuffices, NodeFacts DEF LossInv, GraphInv, FinishedInv, Complete, Settled
  <1>2. Kind(d) = "class" => ~AtWork(canonical[d])
    BY DEF LossInv, GraphInv, FinishedInv, Complete, Settled, AtWork
  <1>3. CASE Kind(d) = "class"
    <2>1. PICK e \in Diff : e = canonical[d]
      BY <1>1
    <2>2. subject[e] = subject[d] /\ canonical[e] = e
      BY <1>1, <2>1 DEF CanonicalDiffs
    <2>3. HasAll(e)
      BY <1>2, <1>3, <2>1, <2>2 DEF LossInv, PartsInv, Kind
    <2> QED
      BY <1>3, <2>1, <2>2, <2>3 DEF HasAll, Parts
  <1>4. CASE Kind(d) \in Deferred
    <2>1. Kind(d) # "class"
      BY <1>4 DEF Deferred
    <2>2. PartsIn(abi, subject[d]) = <<>> \/ HasAll(d)
      BY <1>1, <1>4 DEF LossInv, PartsInv, AwaitsType
    <2> QED
      BY <2>1, <2>2, NoMembers DEF HasAll, Parts
  <1>5. CASE Kind(d) \notin Deferred \cup {"class"}
    BY <1>5 DEF LossInv, PartsInv, HasAll, Parts
  <1> QED
    BY <1>3, <1>4, <1>5

(* So are the children.                                                     *)
LEMMA ChildrenArePartsOf ==
    ASSUME LossInv, NEW d \in Diff
    PROVE  /\ \A c \in Members(Parts(d)) : c \in Diff /\ PartOf(c, d)
           /\ \A c \in Members(children[d]) : c \in Diff /\ PartOf(c, d)
  <1>1. PICK o \in Diff : Parts(d) = parts[o] /\ subject[o] = subject[d]
    BY NodeFacts, CanonicalInvSuffices DEF Parts, CanonicalDiffs, LossInv, GraphInv
  <1>2. \A c \in Members(Parts(d)) : c \in Diff /\ PartOf(c, d)
    BY <1>1, NodeFacts DEF LossInv, GraphInv, OwnParts, PartOf
  <1>3. Members(children[d]) \subseteq Members(Parts(d))
    BY NodeFacts, NoMembers DEF LossInv, GraphInv, FinishedInv, Complete
  <1> QED
    BY <1>2, <1>3

LEMMA NothingLostSuffices ==
    ASSUME LossInv
    PROVE  NoChangeLost
  <1> SUFFICES ASSUME Built
               PROVE  SubjectsBelow(Members(RootsIn(abi))) = {subject[d] : d \in Reached}
    BY DEF NoChangeLost
  <1>1. PICK B : B = SubjectsBelow(Members(RootsIn(abi)))
    OBVIOUS
  <1>2. PICK R : R = {subject[d] : d \in Reached}
    OBVIOUS
  <1>3. GraphTypeOK /\ Idle /\ RootsComputed /\ \A d \in Reached : finished[d]
    BY DEF Built, LossInv, GraphInv
  <1>4. R \in SUBSET Subject /\ Members(RootsIn(abi)) \in SUBSET Subject
    <2>1. Members(RootsIn(abi)) \subseteq Subject
      BY <1>3, ABIAssumption, MembersType DEF GraphTypeOK
    <2> QED
      BY <1>2, <1>3, <2>1, NodeFacts DEF Reached
  <1>5. /\ B \in SUBSET Subject /\ Members(RootsIn(abi)) \subseteq B /\ HasParts(B)
        /\ \A X \in SUBSET Subject : Members(RootsIn(abi)) \subseteq X /\ HasParts(X) => B \subseteq X
    BY <1>1, <1>3, <1>4, SubjectsBelowLeast
  <1>6. R \subseteq B
    BY <1>2, <1>5 DEF LossInv, NeededInv, Needed, Reached
  <1>7. Members(RootsIn(abi)) \subseteq R
    <2>1. RootFacts
      BY <1>3, RootsType
    <2>2. ASSUME NEW i \in DOMAIN RootsIn(abi)
          PROVE  RootsIn(abi)[i] \in R
      <3>1. i \in DOMAIN roots /\ roots[i] # 0
        BY <1>3, <2>1, <2>2 DEF RootFacts, RootsComputed
      <3>2. roots[i] \in Reached
        BY <2>1, <3>1 DEF RootFacts, Reached, Members
      <3>3. subject[roots[i]] = RootsIn(abi)[i]
        BY <3>1 DEF LossInv, RootsInv
      <3> QED
        BY <1>2, <3>2, <3>3
    <2> QED
      BY <2>2 DEF Members
  <1>8. HasParts(R)
    <2> SUFFICES ASSUME NEW d \in Reached, NEW t \in Members(PartsIn(abi, subject[d]))
                 PROVE  t \in R
      BY <1>2 DEF HasParts
    <2>1. d \in Diff /\ finished[d]
      BY <1>3 DEF Reached
    <2>2. PICK c \in Members(Parts(d)) : t = subject[c]
      BY <1>3, <2>1, FinishedHasAll
    <2>3. c \in Members(children[d]) /\ c \in Diff
      BY <1>3, <2>1, NodeFacts DEF LossInv, GraphInv, FinishedInv, Complete
    <2>4. parent[c] # 0
      BY <2>1, <2>3 DEF LossInv, GraphInv, AdoptionInv
    <2> QED
      BY <1>2, <2>2, <2>3, <2>4 DEF Reached
  <1> QED
    BY <1>1, <1>2, <1>4, <1>5, <1>6, <1>7, <1>8

(* When the graph is built, it has a diff within reach for each of the      *)
(* subjects that the changed functions and variables depend on, and for no  *)
(* other, although only one of the class diffs of a subject ever looks at   *)
(* the members.                                                             *)
THEOREM NothingLost == GraphSpec => []NoChangeLost
  <1>1. LossInv /\ [GraphNext]_graphVars => LossInv'
    BY LossInductive, NextIsStep
  <1> QED
    BY <1>1, LossInit, NothingLostSuffices, PTL DEF GraphSpec
=============================================================================
