--------------------------- MODULE DiffCategorize ---------------------------
(****************************************************************************)
(* corpus_diff::apply_filters_and_suppressions_before_reporting(): what     *)
(* decides which changes abidiff reports.  The changed functions and        *)
(* variables are walked one after the other by a series of visitors that    *)
(* put the diffs into categories:                                           *)
(*   suppress    the user's suppression specifications,                     *)
(*   harmless,                                                              *)
(*   harmful     the two filters, each followed by                          *)
(*   propagate   which hands the categories of the children to the parents, *)
(*   redundancy  what the report has already shown elsewhere.               *)
(* The walk is diff::traverse().  It finishes the diffs it comes to, so the *)
(* graph of module DiffGraph is still growing under the first visitors.     *)
(****************************************************************************)
EXTENDS DiffGraph

CONSTANTS LocalIn(_, _),      \* has_local_changes() of a subject
          OwnIn(_, _),        \* categories the filters give a subject's own change
          SuppressedIn(_, _), \* a suppression specification matches the subject
          VariadicIn(_, _),   \* a variadic parameter, or its type
          AllowedIn(_),       \* diff_context::allowed_category_
          ShowRedundantIn(_)  \* --redundant

Filtering == {"HARMLESS", "HARMFUL"}
Category == Filtering \cup {"SUPPRESSED", "REDUNDANT"}   \* EVERYTHING_CATEGORY

ASSUME CategoryAssumption ==
    \A a \in ABI :
      /\ AllowedIn(a) \subseteq Category
      /\ ShowRedundantIn(a) \in BOOLEAN
      /\ \A s \in Subject : /\ LocalIn(a, s) \in BOOLEAN
                            /\ OwnIn(a, s) \subseteq Filtering
                            /\ SuppressedIn(a, s) \in BOOLEAN
                            /\ VariadicIn(a, s) \in BOOLEAN

VARIABLES
  todo,          \* the walks still to do, each a visitor and a root
  walk,          \* the calls of diff::traverse() under way
  visited,       \* diff_context::visited_diff_nodes_
  traversing,    \* diffs whose traversing_ flag is set
  category,      \* <<d, c>>: diff d is in category c, inherited ones included
  localCategory, \* the same without what was inherited
  skip           \* the visitor's SKIP_CHILDREN_VISITING_KIND

marks == <<category, localCategory>>
walkVars == <<todo, walk, visited, traversing, marks, skip>>
vars == <<graphVars, walkVars>>

Allowed == AllowedIn(abi)
CategoryOf(d) == {c \in Category : <<d, c>> \in category}
LocalCategoryOf(d) == {c \in Category : <<d, c>> \in localCategory}
Local(d) == LocalIn(abi, subject[d])

(* has_changes(): the subjects differ, here or below.                       *)
Differs(s) == \E t \in SubjectsBelow({s}) : LocalIn(abi, t)
HasChanges(d) == Differs(subject[d])

Visited(d) == canonical[d] \in visited
IsTraversing(d) == canonical[d] \in traversing

(* diff::priv::is_filtered_out()                                            *)
FilteredOut(cats) ==
    /\ Allowed # Category
    /\ \/ "SUPPRESSED" \in cats
       \/ "REDUNDANT" \in cats /\ ~ShowRedundantIn(abi)
       \/ cats # {} /\ cats \cap (Allowed \ {"REDUNDANT"}) = {}

ToBeReported(d) == HasChanges(d) /\ ~FilteredOut(CategoryOf(d))
HasLocalToReport(d) == Local(d) /\ ~FilteredOut(LocalCategoryOf(d))

-----------------------------------------------------------------------------
(* The visitors: what each does to diff d before and after its children.    *)
(* Each is given the marks of before and yields those of after.             *)
With(rel, D, cats) == rel \cup (D \X cats)

(* Mutant of FilterPre: the canonical diff only gets the local category.    *)
FilterPreLocal(d, c) ==
    LET own == IF HasChanges(d) THEN OwnIn(abi, subject[d]) \cap {c} ELSE {}
    IN /\ category' = With(category, {d}, own)
       /\ localCategory' = With(localCategory, {d, canonical[d]}, own)

(* harmless_filter::visit() and harmful_filter::visit(), before the         *)
(* children: the diff and its canonical diff get the category.              *)
FilterPre(d, c) ==
    LET own == IF HasChanges(d) THEN OwnIn(abi, subject[d]) \cap {c} ELSE {}
    IN /\ category' = With(category, {d, canonical[d]}, own)
       /\ localCategory' = With(localCategory, {d, canonical[d]}, own)

(* visit_end() of the filters: a diff equivalent to one that was visited    *)
(* takes the local categories of its canonical diff.                        *)
FilterEnd(d) ==
    LET own == IF Visited(d) THEN LocalCategoryOf(canonical[d]) ELSE {}
    IN /\ category' = With(category, {d}, own)
       /\ localCategory' = With(localCategory, {d}, own)

(* Mutant of PropagateEnd: the children take the categories of the parent.  *)
PropagateDown(d) ==
    category' = With(category, Members(children[d]), CategoryOf(d)) /\ UNCHANGED localCategory

(* category_propagation_visitor::visit_end()                                *)
PropagateEnd(d) ==
    LET from == IF Visited(d) THEN {canonical[c] : c \in Members(children[d])}
                              ELSE Members(children[d])
        to == IF Visited(d) THEN {d} ELSE {d, canonical[d]}
        inherited == (UNION {CategoryOf(c) : c \in from}) \ {"REDUNDANT", "SUPPRESSED"}
    IN category' = With(category, to, inherited) /\ UNCHANGED localCategory

(* suppression_categorization_visitor                                       *)
SuppressBegin(d) ==
    LET s == IF SuppressedIn(abi, subject[d]) THEN {"SUPPRESSED"} ELSE {}
    IN /\ category' = With(category, {d}, s)
       /\ localCategory' = With(localCategory, {d}, s)

SuppressEnd(d) ==
    LET changed == {c \in Members(children[d]) : HasChanges(c)}
        all == /\ ~Local(d)
               /\ changed # {}
               /\ \A c \in changed : "SUPPRESSED" \in CategoryOf(c)
    IN /\ category' = With(category, {d}, IF all THEN {"SUPPRESSED"} ELSE {})
       /\ UNCHANGED localCategory

(* redundancy_marking_visitor::visit_begin(): siblings that repeat the same *)
(* change are not redundant.  A fn_parm_diff is looked through, up from its *)
(* type and down to it.                                                     *)
RepeatsSibling(d) ==
    LET up == parent[d]
        p == IF up # 0 /\ Kind(up) = "parm" THEN parent[up] ELSE up
    IN /\ p # 0
       /\ \E s \in Members(children[p]) :
            /\ s # d /\ d \notin Members(parts[s])
            /\ subject[d] = IF Kind(s) = "parm"
                            THEN PartsIn(abi, subject[s])[1] ELSE subject[s]

Redundant(d) ==
    /\ Visited(d) \/ IsTraversing(d)
    /\ HasChanges(d)
    /\ ~RepeatsSibling(d)
    /\ Kind(d) # "function"
    /\ ~VariadicIn(abi, subject[d])

RedundancyBegin(d) ==
    LET r == IF ToBeReported(d) /\ Redundant(d) THEN {"REDUNDANT"} ELSE {}
    IN /\ category' = With(category, {d}, r)
       /\ skip' = (skip \/ ~ToBeReported(d) \/ Redundant(d))
       /\ UNCHANGED localCategory

(* Mutants of RedundancyEnd: the parents are left alone; a diff is redundant*)
(* even if it has a change of its own.                                      *)
RedundancyEndNothing(d) == skip' = FALSE /\ UNCHANGED marks

RedundancyEndLocal(d) ==
    LET changed == {c \in Members(children[d]) : HasChanges(c)}
        all == /\ ~skip
               /\ changed # {}
               /\ \A c \in changed :
                    ~ToBeReported(c) \/ "REDUNDANT" \in CategoryOf(c)
    IN /\ category' = With(category, {d}, IF all THEN {"REDUNDANT"} ELSE {})
       /\ skip' = FALSE
       /\ UNCHANGED localCategory

(* visit_end(): a diff without a change of its own to report is redundant   *)
(* when none of its children is left to be shown.                           *)
RedundancyEnd(d) ==
    LET changed == {c \in Members(children[d]) : HasChanges(c)}
        all == /\ ~skip
               /\ ~HasLocalToReport(d)
               /\ changed # {}
               /\ \A c \in changed :
                    ~ToBeReported(c) \/ "REDUNDANT" \in CategoryOf(c)
    IN /\ category' = With(category, {d}, IF all THEN {"REDUNDANT"} ELSE {})
       /\ skip' = FALSE
       /\ UNCHANGED localCategory

-----------------------------------------------------------------------------
(* The walks, in the order in which they are done.  The filters and the     *)
(* propagation start from a clean slate of visited diffs; the suppressions  *)
(* and the redundancy pass visit every path, the latter on a slate that is  *)
(* cleaned once for all the roots.                                          *)
Visitor == {"suppress", "harmless", "harmful", "propagate", "redundancy"}
Unrepeated == {"harmless", "harmful", "propagate"}  \* forbid_visiting_a_node_twice(true)

Job(v, r) == [visitor |-> v, root |-> r,
              forget |-> v \in Unrepeated \/ (v = "redundancy" /\ r = 1)]

Walks(v) == [r \in DOMAIN RootsIn(abi) |-> Job(v, r)]

SuppressWalks ==
    IF \E s \in Subject : SuppressedIn(abi, s) THEN Walks("suppress") ELSE <<>>

(* maybe_apply_filters(): four walks of a root before those of the next.    *)
FilterPasses == <<"harmless", "propagate", "harmful", "propagate">>

FilterWalks ==
    IF Allowed = Category THEN <<>>
    ELSE [k \in 1 .. 4 * Len(RootsIn(abi)) |->
            Job(FilterPasses[((k - 1) % 4) + 1], ((k - 1) \div 4) + 1)]

RedundancyWalks == IF ShowRedundantIn(abi) THEN <<>> ELSE Walks("redundancy")

Now == todo[1]

(* A call of diff::traverse() on d: how far it is, its next child, whether  *)
(* d was visited before and is not visited again.                           *)
Frame(d, at, next, seen) == [d |-> d, at |-> at, next |-> next, seen |-> seen]
NewFrame(d) == Frame(d, "begin", 1, FALSE)
Here == walk[Len(walk)]
Put(f) == [walk EXCEPT ![Len(walk)] = f]

StartWalk ==
    /\ RootsComputed /\ Idle
    /\ walk = <<>> /\ todo # <<>>
    /\ walk' = <<NewFrame(roots[Now.root])>>
    /\ visited' = IF Now.forget THEN {} ELSE visited
    /\ skip' = FALSE
    /\ UNCHANGED <<graphVars, todo, traversing, marks>>

(* Mutant of FinishHere: the diff is adopted again each time it is walked.  *)
FinishAgain ==
    /\ walk # <<>> /\ Here.at = "begin" /\ Idle
    /\ \/ Finish(Here.d)
       \/ /\ finished[Here.d] /\ parent[Here.d] # 0
          /\ parent' = [c \in Diff |-> IF c \in Members(Parts(Here.d)) THEN Here.d ELSE parent[c]]
          /\ UNCHANGED <<abi, registry, calls, asked, result, roots, finished, children>>
    /\ UNCHANGED walkVars

(* finish_diff_type(), with the calls of compute_diff it makes.             *)
FinishHere ==
    /\ walk # <<>> /\ Here.at = "begin" /\ Idle
    /\ Finish(Here.d)
    /\ UNCHANGED walkVars

VisitBegin(v, d, seen) ==
    \/ seen /\ UNCHANGED <<marks, skip>>
    \/ ~seen /\ v = "harmless" /\ FilterPre(d, "HARMLESS") /\ UNCHANGED skip
    \/ ~seen /\ v = "harmful" /\ FilterPre(d, "HARMFUL") /\ UNCHANGED skip
    \/ ~seen /\ v = "propagate" /\ UNCHANGED <<marks, skip>>
    \/ v = "suppress" /\ SuppressBegin(d) /\ UNCHANGED skip
    \/ v = "redundancy" /\ RedundancyBegin(d)

VisitEnd(v, d) ==
    \/ v \in {"harmless", "harmful"} /\ FilterEnd(d) /\ UNCHANGED skip
    \/ v = "propagate" /\ PropagateEnd(d) /\ UNCHANGED skip
    \/ v = "suppress" /\ SuppressEnd(d) /\ UNCHANGED skip
    \/ v = "redundancy" /\ RedundancyEnd(d)

(* Mutant of Open: only the flag of the diff itself is looked at.           *)
OpenByDiff(d, seen) ==
    LET open == ~skip' /\ d \notin traversing /\ ~seen
    IN /\ walk' = Put(Frame(d, IF open THEN "open" ELSE "closed", 1, seen))
       /\ traversing' = IF open THEN traversing \cup {d, canonical[d]} ELSE traversing

(* begin_traversing(), unless the diff is open, skipped or visited before.  *)
Open(d, seen) ==
    LET open == ~skip' /\ ~IsTraversing(d) /\ ~seen
    IN /\ walk' = Put(Frame(d, IF open THEN "open" ELSE "closed", 1, seen))
       /\ traversing' = IF open THEN traversing \cup {d, canonical[d]} ELSE traversing

(* diff::traverse() up to the loop on the children.                         *)
Enter ==
    /\ walk # <<>> /\ Here.at = "begin" /\ Idle
    /\ finished[Here.d]
    /\ LET seen == Now.visitor \in Unrepeated /\ Visited(Here.d)
       IN VisitBegin(Now.visitor, Here.d, seen) /\ Open(Here.d, seen)
    /\ UNCHANGED <<graphVars, todo, visited>>

VisitChild ==
    /\ walk # <<>> /\ Here.at = "open"
    /\ Here.next <= Len(children[Here.d])
    /\ walk' = Append(Put(Frame(Here.d, "open", Here.next + 1, Here.seen)),
                      NewFrame(children[Here.d][Here.next]))
    /\ UNCHANGED <<graphVars, todo, visited, traversing, marks, skip>>

(* The end of diff::traverse(): close the diff if it is open, let the       *)
(* visitor conclude, mark the class of the diff as visited.                 *)
Leave ==
    /\ walk # <<>>
    /\ Here.at = "closed" \/ (Here.at = "open" /\ Here.next > Len(children[Here.d]))
    /\ traversing' = IF Here.at = "open"
                     THEN traversing \ {Here.d, canonical[Here.d]} ELSE traversing
    /\ VisitEnd(Now.visitor, Here.d)
    /\ visited' = IF Here.seen THEN visited ELSE visited \cup {canonical[Here.d]}
    /\ walk' = SubSeq(walk, 1, Len(walk) - 1)
    /\ todo' = IF Len(walk) = 1 THEN Tail(todo) ELSE todo
    /\ UNCHANGED graphVars

-----------------------------------------------------------------------------
Init ==
    /\ GraphInit
    /\ todo = SuppressWalks \o FilterWalks \o RedundancyWalks
    /\ walk = <<>>
    /\ visited = {} /\ traversing = {}
    /\ category = {} /\ localCategory = {}
    /\ skip = FALSE

ComputeGraph ==
    /\ Build \/ \E i \in DOMAIN roots : AskRoot(i)
    /\ UNCHANGED walkVars

Next == ComputeGraph \/ StartWalk \/ FinishHere \/ Enter \/ VisitChild \/ Leave

Spec == Init /\ [][Next]_vars /\ WF_vars(Next)

-----------------------------------------------------------------------------
ScheduleTypeOK ==
    todo \in Seq([visitor : Visitor, root : DOMAIN RootsIn(abi), forget : BOOLEAN])

WalkTypeOK ==
    /\ walk \in Seq([d : Diff, at : {"begin", "open", "closed"}, next : Nat \ {0}, seen : BOOLEAN])
    /\ visited \subseteq Diff
    /\ traversing \subseteq Diff
    /\ skip \in BOOLEAN

MarksTypeOK ==
    /\ category \subseteq Diff \X Category
    /\ localCategory \subseteq category

TypeOK ==
    /\ GraphTypeOK
    /\ ScheduleTypeOK
    /\ WalkTypeOK
    /\ MarksTypeOK

Done == RootsComputed /\ todo = <<>>

(* What the report goes through: the changed functions and variables that   *)
(* are to be reported and, below a diff it reports, the parts of it that    *)
(* are.                                                                     *)
Shown ==
    LET upTo[i \in 0 .. Len(subject)] ==
          IF i = 0 THEN {d \in Members(roots) : ToBeReported(d)}
          ELSE UNION {{d} \cup {c \in Members(Parts(d)) : ToBeReported(c)} : d \in upTo[i - 1]}
    IN upTo[Len(subject)]

ChangesBelow(s) == {t \in SubjectsBelow({s}) : Differs(t)}
CategoriesBelow(s) == UNION {OwnIn(abi, t) : t \in ChangesBelow(s)}

(* A category comes from below: no diff is in the category of a filter for  *)
(* a change that it does not depend on, although visit_end() of the filters *)
(* and of the propagation reads and writes canonical diffs that belong to   *)
(* other places of the graph.                                               *)
CategoriesComeFromBelow ==
    Done => \A d \in Diff :
              CategoryOf(d) \cap Filtering \subseteq CategoriesBelow(subject[d])

(* The subjects that some path from those of S reaches without going        *)
(* through a subject that a suppression specification matches.              *)
Unsuppressed(S) ==
    LET visible(X) == {s \in X : ~SuppressedIn(abi, s)}
        closure[X \in SUBSET Subject] ==
          LET more == X \cup visible(UNION {Members(PartsIn(abi, s)) : s \in X})
          IN IF more = X THEN X ELSE closure[more]
    IN closure[visible(S)]

(* A suppression specification does not spread too far: a diff is only      *)
(* suppressed when a specification matches it, or each change below it is   *)
(* behind something that a specification matches.                           *)
SuppressedForAReason ==
    Done => \A d \in Diff :
      "SUPPRESSED" \in CategoryOf(d) =>
        \A s \in Unsuppressed({subject[d]}) : ~LocalIn(abi, s)

(* "A suppression specification is a way for a user to instruct abidiff to  *)
(* avoid emitting reports for changes involving certain ABI artifacts":     *)
(* what a specification matches is not shown, as long as some category is   *)
(* switched off.  That is so unless a function type occurs within itself,   *)
(* through a callback: the walk does not go into the inner one, an          *)
(* equivalent diff with parts of its own, and nothing there gets marked.    *)
SuppressedNotShown ==
    Done /\ Allowed # Category => \A d \in Shown : ~SuppressedIn(abi, subject[d])

(* What apply_filters_and_compute_diff_stats() counts.                      *)
NetChanged == {i \in DOMAIN roots : ~FilteredOut(CategoryOf(roots[i]))}

(* abidiff's exit status says that the ABI changed whenever a change of an  *)
(* allowed category is found somewhere below the changed functions and      *)
(* variables: the filters and the redundancy pass never filter them all.    *)
ExitStatusTellsChange ==
    /\ Done
    /\ \E s \in Unsuppressed(Members(RootsIn(abi))) :
         LocalIn(abi, s) /\ OwnIn(abi, s) \cap Allowed # {}
    => NetChanged # {}

(* What is shown is there for a reason: it depends on a change that is      *)
(* allowed, or on one the filters have no category for.  (Below a function  *)
(* type within itself, again, the filters leave some harmless changes.)     *)
OnlyAllowedShown ==
    Done /\ Allowed # Category =>
      \A d \in Shown :
        \E t \in ChangesBelow(subject[d]) :
          (OwnIn(abi, t) = {} /\ LocalIn(abi, t)) \/ OwnIn(abi, t) \cap Allowed # {}

(* begin_traversing() and end_traversing() pair up: the diffs whose flag is *)
(* set are those that the walk is inside of, and their canonical diffs,     *)
(* although every diff of a class shares the flag of the canonical one.     *)
TraversingMatchesWalk ==
    traversing = UNION {{walk[i].d, canonical[walk[i].d]} :
                          i \in {j \in DOMAIN walk : walk[j].at = "open"}}

(* The walks do nothing to the graph but what module DiffGraph lets them.   *)
GraphIsBuilt == GraphInit /\ [][GraphNext]_graphVars

=============================================================================
