------------------------------ MODULE DiffGraph ------------------------------
(****************************************************************************)
(* How libabigail builds the graph of diff nodes between two ABI corpora:   *)
(* the recursive compute_diff() overloads, the registry of canonical diffs  *)
(* kept by diff_context, and the adoption of the children of a node by      *)
(* finish_diff_type() the first time something traverses it.                *)
(*                                                                          *)
(* A *subject* stands for a pair (first, second) of artifacts of the two    *)
(* corpora, up to the deep equality that keys the registry.  A *diff* is a  *)
(* node created by one call of compute_diff; diffs are numbered from 1.     *)
(* One call creates one node: a type that is mentioned twice has two nodes, *)
(* which share a canonical diff.  The program's stack is finite: MaxDepth   *)
(* bounds the nesting of the calls of compute_diff.                         *)
(****************************************************************************)
EXTENDS Naturals, Sequences, FiniteSets

CONSTANTS Subject,      \* pairs of artifacts
          ABI,          \* the comparisons considered
          KindIn(_, _), \* the kind of a subject in a comparison
          PartsIn(_, _),\* the sub-diffs that compute_diff asks for, in order
          RankIn(_, _), \* the name its parent sorts it by
          RootsIn(_),   \* the changed functions and variables
          MaxDepth      \* how deep compute_diff may recurse

(* How compute_diff goes about a subject:                                   *)
(*  "class"     registers the canonical diff before it looks at the parts,  *)
(*              and only the canonical one looks at them;                   *)
(*  "var"       var_diff (and distinct_diff): registered at once, its only  *)
(*              part is computed when it is finished;                       *)
(*  "function"  function_type_diff,                                         *)
(*  "parm"      fn_parm_diff, and                                           *)
(*  "compound"  pointers, references, typedefs, bases, declarations, ...:   *)
(*              the parts are computed first, the node registered after;    *)
(*  "qualified" likewise, but what becomes its child is the diff of the     *)
(*              types below all qualifiers, computed when it is finished.   *)
Kinds == {"class", "var", "function", "parm", "compound", "qualified"}
Deferred == {"var", "qualified"}   \* compute a part when they are finished

(* The corpora are finite; what is deferred is one diff, that of the type.  *)
ASSUME ABIAssumption ==
    /\ IsFiniteSet(Subject)
    /\ \A a \in ABI :
         /\ RootsIn(a) \in Seq(Subject)
         /\ \A s \in Subject :
              /\ KindIn(a, s) \in Kinds
              /\ PartsIn(a, s) \in Seq(Subject)
              /\ KindIn(a, s) \in Deferred => Len(PartsIn(a, s)) <= 1
              /\ RankIn(a, s) \in Nat
ASSUME MaxDepthAssumption == MaxDepth \in Nat

VARIABLES
  abi,         \* the comparison at hand; never changes
  canonicalOf, \* diff_context::types_or_decls_diff_map: subject -> diff, 0 if none
  subject,     \* diff -> its subject
  canonical,   \* diff -> its canonical diff
  parts,       \* diff -> the sub-diffs its priv_ holds
  calls,       \* the stack of the calls of compute_diff under way
  asked,       \* what the outermost call is for: a root, the type of a deferred diff
  result,      \* what the outermost call returned, 0 before that
  roots,       \* diffs of the changed functions and variables, 0 if not computed
  finished,    \* diff -> finish_diff_type() was called
  children,    \* diff -> children_nodes()
  parent       \* diff -> parent_node(), 0 if none

registry == <<canonicalOf, subject, canonical, parts>>
hierarchy == <<finished, children, parent>>
graphVars == <<abi, registry, calls, asked, result, roots, hierarchy>>

Diff == 1 .. Len(subject)
Kind(d) == KindIn(abi, subject[d])

(* The private data a diff reads: a class_diff shares its canonical's.      *)
Parts(d) == IF Kind(d) = "class" THEN parts[canonical[d]] ELSE parts[d]

-----------------------------------------------------------------------------
(* The stack of compute_diff.  A call works on subject s, holds the node it *)
(* has created (0 while it has none) and the sub-diffs it has got so far.   *)
Top == calls[Len(calls)]
Below == SubSeq(calls, 1, Len(calls) - 1)
Call(s, n, g) == [s |-> s, node |-> n, got |-> g]
NewCall(s) == Call(s, 0, <<>>)

(* compute_diff(s) returns node n to its caller, or to the outside.         *)
Return(n) ==
    IF Len(calls) = 1
    THEN calls' = <<>> /\ result' = n
    ELSE /\ calls' = [Below EXCEPT ![Len(Below)] = Call(@.s, @.node, Append(@.got, n))]
         /\ UNCHANGED result

(* Mutants of NewDiff.  Every node its own canonical diff; no priv_ for one *)
(* that is not canonical.                                                   *)
NewDiffOwnCanonical(s, p) ==
    LET n == Len(subject) + 1
    IN /\ subject' = Append(subject, s)
       /\ canonical' = Append(canonical, n)
       /\ canonicalOf' = [canonicalOf EXCEPT ![s] = IF @ = 0 THEN n ELSE @]
       /\ parts' = Append(parts, p)
       /\ finished' = Append(finished, FALSE)
       /\ children' = Append(children, <<>>)
       /\ parent' = Append(parent, 0)

NewDiffWithoutPriv(s, p) ==
    LET n == Len(subject) + 1
        c == IF canonicalOf[s] = 0 THEN n ELSE canonicalOf[s]
    IN /\ subject' = Append(subject, s)
       /\ canonical' = Append(canonical, c)
       /\ canonicalOf' = [canonicalOf EXCEPT ![s] = c]
       /\ parts' = IF c = n THEN Append(parts, p) ELSE parts
       /\ finished' = Append(finished, FALSE)
       /\ children' = Append(children, <<>>)
       /\ parent' = Append(parent, 0)

(* A new node of subject s that holds the sub-diffs p;                      *)
(* initialize_canonical_diff() makes it canonical if s has no canonical     *)
(* diff yet, and points it to that canonical diff if it has.                *)
NewDiff(s, p) ==
    LET n == Len(subject) + 1
        c == IF canonicalOf[s] = 0 THEN n ELSE canonicalOf[s]
    IN /\ subject' = Append(subject, s)
       /\ canonical' = Append(canonical, c)
       /\ canonicalOf' = [canonicalOf EXCEPT ![s] = c]
       /\ parts' = Append(parts, p)
       /\ finished' = Append(finished, FALSE)
       /\ children' = Append(children, <<>>)
       /\ parent' = Append(parent, 0)

(* Mutant of HasAllParts: the first sub-diff will do.                       *)
HasOnePart == Top.got # <<>> \/ PartsIn(abi, Top.s) = <<>>

(* Everything compute_diff needs of the top call has been computed.         *)
HasAllParts == Len(Top.got) = Len(PartsIn(abi, Top.s))

(* var_diff: nothing but the node itself.                                   *)
ComputeDeferred ==
    /\ calls # <<>>
    /\ KindIn(abi, Top.s) = "var"
    /\ NewDiff(Top.s, <<>>)
    /\ Return(Len(subject) + 1)
    /\ UNCHANGED <<abi, asked, roots>>

(* Mutant of ComputeKnownClass: waits for the canonical class_diff to be    *)
(* complete.                                                                *)
ComputeKnownClassWhenComplete ==
    /\ calls # <<>>
    /\ KindIn(abi, Top.s) = "class"
    /\ Top.node = 0
    /\ canonicalOf[Top.s] # 0
    /\ \A i \in DOMAIN calls : calls[i].node # canonicalOf[Top.s]
    /\ NewDiff(Top.s, <<>>)
    /\ Return(Len(subject) + 1)
    /\ UNCHANGED <<abi, asked, roots>>

(* class_diff of a subject that already has a canonical diff: share its     *)
(* private data and return at once.                                         *)
ComputeKnownClass ==
    /\ calls # <<>>
    /\ KindIn(abi, Top.s) = "class"
    /\ Top.node = 0
    /\ canonicalOf[Top.s] # 0
    /\ NewDiff(Top.s, <<>>)
    /\ Return(Len(subject) + 1)
    /\ UNCHANGED <<abi, asked, roots>>

(* Mutant of ComputeNewClass: does not look into the registry.              *)
ComputeAnyClass ==
    /\ calls # <<>>
    /\ KindIn(abi, Top.s) = "class"
    /\ Top.node = 0
    /\ NewDiff(Top.s, <<>>)
    /\ calls' = [calls EXCEPT ![Len(calls)] = Call(@.s, Len(subject) + 1, @.got)]
    /\ UNCHANGED <<abi, asked, result, roots>>

(* class_diff of a new subject: registered before its members are compared. *)
ComputeNewClass ==
    /\ calls # <<>>
    /\ KindIn(abi, Top.s) = "class"
    /\ Top.node = 0
    /\ canonicalOf[Top.s] = 0
    /\ NewDiff(Top.s, <<>>)
    /\ calls' = [calls EXCEPT ![Len(calls)] = Call(@.s, Len(subject) + 1, @.got)]
    /\ UNCHANGED <<abi, asked, result, roots>>

(* Bases, members, virtual functions, return type, underlying type: the     *)
(* call asks for the diff of its next part.                                 *)
ComputePart ==
    /\ calls # <<>>
    /\ KindIn(abi, Top.s) # "var"
    /\ KindIn(abi, Top.s) = "class" => Top.node # 0
    /\ Len(Top.got) < Len(PartsIn(abi, Top.s))
    /\ Len(calls) < MaxDepth
    /\ calls' = Append(calls, NewCall(PartsIn(abi, Top.s)[Len(Top.got) + 1]))
    /\ UNCHANGED <<abi, registry, asked, result, roots, hierarchy>>

(* The canonical class_diff fills its lookup tables.                        *)
FinishClass ==
    /\ calls # <<>>
    /\ KindIn(abi, Top.s) = "class"
    /\ Top.node # 0
    /\ HasAllParts
    /\ parts' = [parts EXCEPT ![Top.node] = Top.got]
    /\ Return(Top.node)
    /\ UNCHANGED <<abi, canonicalOf, subject, canonical, asked, roots, hierarchy>>

(* The other kinds build and register their node once they have its parts.  *)
FinishCompound ==
    /\ calls # <<>>
    /\ KindIn(abi, Top.s) \in {"function", "parm", "compound", "qualified"}
    /\ HasAllParts
    /\ NewDiff(Top.s, IF KindIn(abi, Top.s) \in Deferred THEN <<>> ELSE Top.got)
    /\ Return(Len(subject) + 1)
    /\ UNCHANGED <<abi, asked, roots>>

Compute ==
    \/ ComputeDeferred
    \/ ComputeKnownClass
    \/ ComputeNewClass
    \/ ComputePart
    \/ FinishClass
    \/ FinishCompound

-----------------------------------------------------------------------------
(* The outermost calls.                                                     *)
Client(who, i) == [who |-> who, of |-> i]
Nobody == Client("nobody", 0)
Idle == asked = Nobody

Ask(client, s) ==
    /\ Idle
    /\ asked' = client
    /\ calls' = <<NewCall(s)>>
    /\ UNCHANGED <<abi, registry, result, roots, hierarchy>>

Answered == asked' = Nobody /\ result' = 0

(* The corpus diff computes the diffs of its changed functions and          *)
(* variables out of hash maps: in no particular order.                      *)
RootsComputed == \A i \in DOMAIN roots : roots[i] # 0

AskRoot(i) == roots[i] = 0 /\ Ask(Client("root", i), RootsIn(abi)[i])

GetRoot ==
    /\ result # 0
    /\ asked.who = "root"
    /\ roots' = [roots EXCEPT ![asked.of] = result]
    /\ Answered
    /\ UNCHANGED <<abi, registry, calls, hierarchy>>

(* var_diff::type_diff() and qualified_type_diff::leaf_underlying_type_diff *)
(* compute a diff the first time they are called and remember it.           *)
AwaitsType(d) == Kind(d) \in Deferred /\ parts[d] = <<>> /\ PartsIn(abi, subject[d]) # <<>>

AskType(d) ==
    /\ RootsComputed
    /\ AwaitsType(d)
    /\ Ask(Client("type", d), PartsIn(abi, subject[d])[1])

GetType ==
    /\ result # 0
    /\ asked.who = "type"
    /\ parts' = [parts EXCEPT ![asked.of] = <<result>>]
    /\ Answered
    /\ UNCHANGED <<abi, canonicalOf, subject, canonical, calls, roots, hierarchy>>

(* finish_diff_type(): chain_into_hierarchy() appends every part to the     *)
(* children, which are kept sorted by name, and makes this diff its parent. *)
RankOf(d) == RankIn(abi, subject[d])

Members(s) == {s[i] : i \in DOMAIN s}

(* What std::sort() may make of s, which leaves the order of equals open.   *)
Sortings(s) ==
    {t \in [DOMAIN s -> Members(s)] :
       /\ \A i, j \in DOMAIN s : i < j => RankOf(t[i]) <= RankOf(t[j])
       /\ \E p \in [DOMAIN s -> DOMAIN s] :
            /\ \A i, j \in DOMAIN s : i # j => p[i] # p[j]
            /\ \A i \in DOMAIN s : t[i] = s[p[i]]}

(* Mutant of FinishDiffType: a child that has a parent is not adopted.      *)
FinishDiffTypeOnce(d) ==
    /\ Idle /\ RootsComputed
    /\ ~finished[d]
    /\ ~AwaitsType(d)
    /\ finished' = [finished EXCEPT ![d] = TRUE]
    /\ LET orphans == SelectSeq(Parts(d), LAMBDA c : parent[c] = 0)
       IN \E sorted \in Sortings(orphans) : children' = [children EXCEPT ![d] = sorted]
    /\ parent' = [c \in Diff |-> IF c \in Members(Parts(d)) THEN d ELSE parent[c]]
    /\ UNCHANGED <<abi, registry, calls, asked, result, roots>>

FinishDiffType(d) ==
    /\ Idle /\ RootsComputed
    /\ ~finished[d]
    /\ ~AwaitsType(d)
    /\ finished' = [finished EXCEPT ![d] = TRUE]
    /\ \E sorted \in Sortings(Parts(d)) : children' = [children EXCEPT ![d] = sorted]
    /\ parent' = [c \in Diff |-> IF c \in Members(Parts(d)) THEN d ELSE parent[c]]
    /\ UNCHANGED <<abi, registry, calls, asked, result, roots>>

-----------------------------------------------------------------------------
GraphInit ==
    /\ abi \in ABI
    /\ canonicalOf = [s \in Subject |-> 0]
    /\ subject = <<>> /\ canonical = <<>> /\ parts = <<>>
    /\ calls = <<>> /\ asked = Nobody /\ result = 0
    /\ roots = [i \in DOMAIN RootsIn(abi) |-> 0]
    /\ finished = <<>> /\ children = <<>> /\ parent = <<>>

(* A traversal can reach the roots and whatever was adopted.                *)
Reached == {d \in Diff : d \in Members(roots) \/ parent[d] # 0}

Build == Compute \/ GetRoot \/ GetType
Finish(d) == AskType(d) \/ FinishDiffType(d)

(* The graph on its own: whatever the traversals and the report do, all they*)
(* can do to the graph is to ask for the type of a variable and to finish,  *)
(* in some order, the diffs they reach.                                     *)
GraphNext ==
    \/ Build
    \/ \E i \in DOMAIN roots : AskRoot(i)
    \/ \E d \in Diff : AskType(d)
    \/ \E d \in Reached : FinishDiffType(d)

GraphSpec == GraphInit /\ [][GraphNext]_graphVars /\ WF_graphVars(GraphNext)

-----------------------------------------------------------------------------
RegistryTypeOK ==
    /\ canonicalOf \in [Subject -> 0 .. Len(subject)]
    /\ subject \in Seq(Subject)
    /\ canonical \in Seq(Diff) /\ Len(canonical) = Len(subject)
    /\ parts \in Seq(Seq(Diff)) /\ Len(parts) = Len(subject)

CallsTypeOK ==
    /\ calls \in Seq([s : Subject, node : 0 .. Len(subject), got : Seq(Diff)])
    /\ \/ asked = Nobody
       \/ \E i \in DOMAIN roots : asked = Client("root", i)
       \/ \E d \in Diff : asked = Client("type", d)
    /\ result \in 0 .. Len(subject)
    /\ roots \in Seq(0 .. Len(subject)) /\ Len(roots) = Len(RootsIn(abi))

HierarchyTypeOK ==
    /\ finished \in Seq(BOOLEAN) /\ Len(finished) = Len(subject)
    /\ children \in Seq(Seq(Diff)) /\ Len(children) = Len(subject)
    /\ parent \in Seq(0 .. Len(subject)) /\ Len(parent) = Len(subject)

(* The types of the variables: every diff that anything refers to exists.   *)
GraphTypeOK ==
    /\ abi \in ABI
    /\ RegistryTypeOK
    /\ CallsTypeOK
    /\ HierarchyTypeOK

(* The canonical diff of a diff is about the same subjects, is the one the  *)
(* context has registered for them, and is its own canonical diff: what     *)
(* every "is it visited, traversed, reported?" test of the comparison       *)
(* engine relies on (initialize_canonical_diff, set_or_get_canonical_diff). *)
CanonicalDiffs ==
    \A d \in Diff : LET c == canonical[d] IN
        /\ subject[c] = subject[d]
        /\ canonical[c] = c
        /\ canonicalOf[subject[d]] = c

(* compute_diff never starts on the members of a class while it is still    *)
(* working on them: registering the class first is what stops the recursion *)
(* of compute_diff(class_decl_sptr) on types that refer to themselves.      *)
NoReentrance ==
    \A i, j \in DOMAIN calls :
        i < j /\ calls[i].node # 0 /\ calls[j].node # 0 => calls[i].s # calls[j].s

(* append_child_node() overwrites parent_ of a child that several class     *)
(* diffs share, so parent_node() is whoever adopted it last.  It does not   *)
(* matter for the sibling test of the redundancy pass: all the adopters of  *)
(* a diff have the same children.                                           *)
AnyParentWillDo ==
    \A d \in Diff : \A c \in Members(children[d]) :
        parent[c] # 0 /\ Members(children[parent[c]]) = Members(children[d])

(* Nothing more to do: every diff a traversal can reach is finished.        *)
Built == Idle /\ RootsComputed /\ \A d \in Reached : finished[d]

(* The subjects that those of S depend on, S included.                      *)
SubjectsBelow(S) ==
    LET closure[X \in SUBSET Subject] ==
          LET more == X \cup UNION {Members(PartsIn(abi, s)) : s \in X}
          IN IF more = X THEN X ELSE closure[more]
    IN closure[S]

(* No change is lost on the way: when the graph is built, every pair of     *)
(* artifacts that a changed function or variable depends on has a diff that *)
(* a traversal from the roots reaches, although only one of the class diffs *)
(* of a pair ever computes the members.                                     *)
NoChangeLost ==
    Built => SubjectsBelow(Members(RootsIn(abi))) = {subject[d] : d \in Reached}

(* Building and finishing the graph ends, whatever cycles the types have.   *)
GraphGetsBuilt == <>[]Built
=============================================================================
