--------------------------- MODULE DiffReportProofs ---------------------------
(* Proofs about the walks that categorize the diffs: that they build the    *)
(* graph as module DiffGraph says and nothing else, and that the flags of   *)
(* diff::traverse() are exactly those of the diffs it is inside of, for any *)
(* comparison, any options and any suppressions.  Then proofs about the     *)
(* report: whatever cycles the types have and whatever the report is made   *)
(* to compute on its way, the details of a class are printed once, and what *)
(* the walks were shown to do holds with the report after them.             *)
EXTENDS DiffReport, DiffGraphProofs

(* The calls of diff::traverse() when the diffs are those of D.             *)
FrameOn(D) == [d : D, at : {"begin", "open", "closed"}, next : Nat \ {0}, seen : BOOLEAN]

LEMMA HereType ==
    ASSUME WalkTypeOK, walk # <<>>
    PROVE  /\ walk \in Seq(FrameOn(Diff))
           /\ Len(walk) \in Nat \ {0} /\ DOMAIN walk = 1 .. Len(walk)
           /\ Here \in FrameOn(Diff)
           /\ Here.d \in Diff /\ Here.next \in Nat \ {0} /\ Here.seen \in BOOLEAN
  <1>1. walk \in Seq(FrameOn(Diff))
    BY DEF WalkTypeOK, FrameOn
  <1>2. Len(walk) \in Nat \ {0} /\ DOMAIN walk = 1 .. Len(walk) /\ Here \in FrameOn(Diff)
    BY <1>1 DEF Here
  <1> QED
    BY <1>1, <1>2 DEF FrameOn

(* The walks step the graph, or leave it alone.                             *)
LEMMA NextIsGraphStep ==
    ASSUME WalkTypeOK, [Next]_vars
    PROVE  [GraphStep]_graphVars
  <1>1. CASE ComputeGraph
    BY <1>1 DEF ComputeGraph, GraphStep
  <1>2. CASE FinishHere
    <2>1. Here.d \in Diff
      BY <1>2, HereType DEF FinishHere
    <2> QED
      BY <1>2, <2>1 DEF FinishHere, GraphStep
  <1>3. CASE StartWalk \/ Enter \/ VisitChild \/ Leave
    BY <1>3 DEF StartWalk, Enter, VisitChild, Leave
  <1>4. CASE UNCHANGED vars
    BY <1>4 DEF vars
  <1> QED
    BY <1>1, <1>2, <1>3, <1>4 DEF Next

-----------------------------------------------------------------------------
(* The schedule of the walks.                                               *)
JobOf(a) == [visitor : Visitor, root : DOMAIN RootsIn(a), forget : BOOLEAN]

LEMMA JobType ==
    ASSUME NEW a, NEW v \in Visitor, NEW r \in DOMAIN RootsIn(a)
    PROVE  Job(v, r) \in JobOf(a)
  BY DEF Job, JobOf

LEMMA ScheduleInit == Init => ScheduleTypeOK
  <1> SUFFICES ASSUME Init PROVE ScheduleTypeOK
    OBVIOUS
  <1> DEFINE n == Len(RootsIn(abi))
  <1>1. n \in Nat /\ DOMAIN RootsIn(abi) = 1 .. n
    BY ABIAssumption DEF Init, GraphInit
  <1>2. ASSUME NEW v \in Visitor
        PROVE  Walks(v) \in Seq(JobOf(abi))
    BY <1>1, JobType, FunctionIsSeq DEF Walks
  <1>3. FilterWalks \in Seq(JobOf(abi))
    <2>1. <<>> \in Seq(JobOf(abi))
      OBVIOUS
    <2>2. ASSUME NEW k \in 1 .. 4 * n
          PROVE  Job(FilterPasses[((k - 1) % 4) + 1], ((k - 1) \div 4) + 1) \in JobOf(abi)
      <3>1. ((k - 1) % 4) + 1 \in 1 .. 4
        BY <1>1
      <3>2. FilterPasses[((k - 1) % 4) + 1] \in Visitor
        BY <3>1 DEF FilterPasses, Visitor
      <3>3. ((k - 1) \div 4) + 1 \in 1 .. n
        BY <1>1
      <3> QED
        BY <1>1, <3>2, <3>3, JobType
    <2>3. [k \in 1 .. 4 * n |-> Job(FilterPasses[((k - 1) % 4) + 1], ((k - 1) \div 4) + 1)]
            \in [1 .. 4 * n -> JobOf(abi)]
      BY <2>2
    <2>4. 4 * n \in Nat
      BY <1>1
    <2> QED
      BY <2>1, <2>3, <2>4, FunctionIsSeq DEF FilterWalks
  <1>4. SuppressWalks \in Seq(JobOf(abi)) /\ RedundancyWalks \in Seq(JobOf(abi))
    <2>1. <<>> \in Seq(JobOf(abi))
      OBVIOUS
    <2> QED
      BY <1>2, <2>1 DEF SuppressWalks, RedundancyWalks, Visitor
  <1>5. todo \in Seq(JobOf(abi))
    BY <1>3, <1>4 DEF Init
  <1> QED
    BY <1>5 DEF ScheduleTypeOK, JobOf

(* While something is walked, its job has not been done.                    *)
ScheduleInv == ScheduleTypeOK /\ (walk # <<>> => todo # <<>>)

LEMMA ScheduleInductive ==
    ASSUME WalkTypeOK, ScheduleInv, [Next]_vars
    PROVE  ScheduleInv'
  <1>1. abi' = abi
    BY DEF Next, vars, graphVars, ComputeGraph, Build, Compute, ComputeDeferred,
       ComputeKnownClass, ComputeNewClass, ComputePart, FinishClass, FinishCompound, GetRoot,
       GetType, AskRoot, Ask, StartWalk, FinishHere, Finish, AskType, FinishDiffType, Enter,
       VisitChild, Leave
  <1>2. CASE Leave
    <2>1. CASE Len(walk) = 1
      <3>1. walk' = <<>> /\ todo # <<>> /\ todo' = Tail(todo)
        <4>1. walk' = SubSeq(walk, 1, 0)
          BY <1>2, <2>1 DEF Leave
        <4>2. walk' = <<>>
          BY <4>1, SubSeqEmpty
        <4> QED
          BY <1>2, <2>1, <4>2 DEF Leave, ScheduleInv
      <3> QED
        BY <1>1, <3>1 DEF ScheduleInv, ScheduleTypeOK
    <2>2. CASE Len(walk) # 1
      BY <1>1, <1>2, <2>2 DEF Leave, ScheduleInv, ScheduleTypeOK
    <2> QED
      BY <2>1, <2>2
  <1>3. CASE UNCHANGED todo /\ (walk' # <<>> => todo # <<>>)
    BY <1>1, <1>3 DEF ScheduleInv, ScheduleTypeOK
  <1>4. Leave \/ (UNCHANGED todo /\ (walk # <<>> \/ walk' = walk \/ todo # <<>>))
    BY DEF Next, vars, walkVars, ComputeGraph, StartWalk, FinishHere, Enter, VisitChild
  <1> QED
    BY <1>2, <1>3, <1>4 DEF ScheduleInv

-----------------------------------------------------------------------------
(* The inductive invariant of a walk: only the diff at its head is not      *)
(* open, the open ones are of different classes of equivalence, and the     *)
(* flags that are set are those of the open diffs.                          *)
OneHead == \A i \in DOMAIN walk : i < Len(walk) => walk[i].at = "open"

NoClassTwice ==
    \A i, j \in DOMAIN walk :
        i < j /\ walk[j].at = "open" => canonical[walk[i].d] # canonical[walk[j].d]

WithinReach ==
    /\ \A i \in DOMAIN walk : walk[i].d \in Reached
    /\ walk # <<>> => RootsComputed

WalkInv == OneHead /\ NoClassTwice /\ WithinReach

(* The flags are those of diffs: each is a frame's, or its canonical diff.  *)
Flags(i) == {walk[i].d, canonical[walk[i].d]}

FlagsMatch ==
    \A d : d \in traversing <=> \E i \in DOMAIN walk : walk[i].at = "open" /\ d \in Flags(i)

LEMMA FlagsOfWalk == FlagsMatch => TraversingMatchesWalk
  BY DEF FlagsMatch, TraversingMatchesWalk, Flags

Inv ==
    /\ GraphTypeOK /\ CanonicalInv /\ AdoptionInv
    /\ ScheduleInv /\ WalkTypeOK /\ MarksTypeOK
    /\ WalkInv /\ FlagsMatch

(* Steps that only move the graph or the marks.                             *)
LEMMA WalkStands ==
    ASSUME Inv, GraphGrows, UNCHANGED <<walk, visited, traversing, skip>>
    PROVE  WalkTypeOK' /\ WalkInv' /\ FlagsMatch'
  <1>1. Diff \subseteq Diff' /\ \A d \in Diff : canonical'[d] = canonical[d]
    BY DEF GraphGrows
  <1>2. walk \in Seq(FrameOn(Diff)) /\ \A i \in DOMAIN walk : walk[i].d \in Diff
    <2>1. walk \in Seq(FrameOn(Diff))
      BY DEF Inv, WalkTypeOK, FrameOn
    <2>2. \A i \in DOMAIN walk : walk[i] \in FrameOn(Diff)
      BY <2>1
    <2> QED
      BY <2>1, <2>2 DEF FrameOn
  <1>3. WalkTypeOK'
    <2>1. FrameOn(Diff) \subseteq FrameOn(Diff')
      BY <1>1 DEF FrameOn
    <2>2. walk' \in Seq(FrameOn(Diff'))
      BY <1>2, <2>1, SeqGrows
    <2> QED
      BY <1>1, <2>2 DEF Inv, WalkTypeOK, FrameOn
  <1>4. OneHead' /\ NoClassTwice'
    BY <1>1, <1>2 DEF Inv, WalkInv, OneHead, NoClassTwice
  <1>5. WithinReach'
    BY DEF Inv, WalkInv, WithinReach, GraphGrows, RootsComputed
  <1>6. FlagsMatch'
    <2>1. \A i \in DOMAIN walk : Flags(i)' = Flags(i)
      BY <1>1, <1>2 DEF Flags
    <2>2. FlagsMatch
      BY DEF Inv
    <2> QED
      BY <2>1, <2>2 DEF FlagsMatch
  <1> QED
    BY <1>3, <1>4, <1>5, <1>6 DEF WalkInv

(* The frames of a walk.                                                    *)
LEMMA WalkFrames ==
    ASSUME Inv
    PROVE  /\ walk \in Seq(FrameOn(Diff)) /\ Len(walk) \in Nat
           /\ DOMAIN walk = 1 .. Len(walk)
           /\ \A i \in DOMAIN walk : /\ walk[i] \in FrameOn(Diff)
                                     /\ walk[i].d \in Diff
                                     /\ canonical[walk[i].d] \in Diff
  <1>1. walk \in Seq(FrameOn(Diff))
    BY DEF Inv, WalkTypeOK, FrameOn
  <1>2. /\ Len(walk) \in Nat /\ DOMAIN walk = 1 .. Len(walk)
        /\ \A i \in DOMAIN walk : walk[i] \in FrameOn(Diff)
    BY <1>1
  <1>3. \A d \in Diff : canonical[d] \in Diff
    BY SMTT(30) DEF Inv, GraphTypeOK, RegistryTypeOK, Diff
  <1> QED
    BY <1>1, <1>2, <1>3 DEF FrameOn

LEMMA StartWalkStep ==
    ASSUME Inv, StartWalk
    PROVE  WalkTypeOK' /\ WalkInv' /\ FlagsMatch'
  <1> DEFINE d == roots[Now.root]
  <1>1. todo \in Seq(JobOf(abi)) /\ todo # <<>>
    BY DEF StartWalk, Inv, ScheduleInv, ScheduleTypeOK, JobOf
  <1>2. Now \in JobOf(abi)
    BY <1>1 DEF Now
  <1>3. Now.root \in DOMAIN roots
    BY <1>2, ABIAssumption DEF JobOf, Inv, GraphTypeOK, CallsTypeOK
  <1>4. d \in Diff /\ d \in Members(roots)
    <2>1. roots \in Seq(0 .. Len(subject)) /\ Len(subject) \in Nat
      BY DEF Inv, GraphTypeOK, CallsTypeOK, RegistryTypeOK
    <2>2. d \in 0 .. Len(subject) /\ d # 0
      BY <1>3, <2>1 DEF StartWalk, RootsComputed
    <2> QED
      BY <1>3, <2>1, <2>2 DEF Diff, Members
  <1>5. NewFrame(d) \in FrameOn(Diff) /\ NewFrame(d).d = d /\ NewFrame(d).at = "begin"
    BY <1>4 DEF NewFrame, Frame, FrameOn
  <1>6. /\ walk' = <<NewFrame(d)>> /\ walk = <<>>
        /\ UNCHANGED <<graphVars, traversing>>
        /\ visited' \subseteq Diff /\ skip' = FALSE
    BY DEF StartWalk, Inv, WalkTypeOK
  <1>7. Diff' = Diff /\ canonical' = canonical /\ Reached' = Reached /\ RootsComputed'
    BY <1>6 DEF graphVars, registry, hierarchy, Diff, Reached, StartWalk, RootsComputed
  <1> HIDE DEF d
  <1>8. /\ DOMAIN walk' = {1} /\ Len(walk') = 1 /\ walk'[1] = NewFrame(d)
        /\ walk' \in Seq(FrameOn(Diff))
    BY <1>5, <1>6
  <1>9. WalkTypeOK'
    BY <1>6, <1>7, <1>8 DEF WalkTypeOK, FrameOn, Inv
  <1>10. WalkInv'
    <2>1. OneHead' /\ NoClassTwice'
      BY <1>8 DEF OneHead, NoClassTwice
    <2>2. WithinReach'
      BY <1>4, <1>5, <1>7, <1>8 DEF WithinReach, Reached
    <2> QED
      BY <2>1, <2>2 DEF WalkInv
  <1>11. FlagsMatch'
    <2>1. \A e : e \notin traversing
      BY <1>6 DEF Inv, FlagsMatch
    <2> QED
      BY <1>5, <1>6, <1>8, <2>1 DEF FlagsMatch
  <1> QED
    BY <1>9, <1>10, <1>11

(* The head of the walk is changed for another frame of the same diff.      *)
LEMMA PutFrame ==
    ASSUME Inv, walk # <<>>, NEW f \in FrameOn(Diff), f.d = Here.d
    PROVE  /\ Put(f) \in Seq(FrameOn(Diff)) /\ Len(Put(f)) = Len(walk)
           /\ DOMAIN Put(f) = DOMAIN walk
           /\ Put(f)[Len(walk)] = f
           /\ \A i \in DOMAIN walk : i # Len(walk) => Put(f)[i] = walk[i]
           /\ \A i \in DOMAIN walk : Put(f)[i].d = walk[i].d
  <1>1. walk \in Seq(FrameOn(Diff)) /\ Len(walk) \in 1 .. Len(walk)
    BY HereType DEF Inv
  <1>2. Put(f) = [walk EXCEPT ![Len(walk)] = f]
    BY DEF Put
  <1>3. Put(f) \in Seq(FrameOn(Diff)) /\ Len(Put(f)) = Len(walk)
    BY <1>1, <1>2, SeqUpdate
  <1> QED
    BY <1>1, <1>2, <1>3 DEF Here

LEMMA EnterStep ==
    ASSUME Inv, Enter, skip' \in BOOLEAN
    PROVE  WalkTypeOK' /\ WalkInv' /\ FlagsMatch'
  <1> DEFINE d == Here.d
             n == Len(walk)
             seen == Now.visitor \in Unrepeated /\ Visited(Here.d)
             open == ~skip' /\ ~IsTraversing(d) /\ ~seen
             f == Frame(d, IF open THEN "open" ELSE "closed", 1, seen)
  <1>1. walk # <<>> /\ Here.at = "begin" /\ UNCHANGED <<graphVars, todo, visited>>
    BY DEF Enter
  <1>2. /\ walk' = Put(f)
        /\ traversing' = IF open THEN traversing \cup {d, canonical[d]} ELSE traversing
    BY DEF Enter, Open
  <1>3. /\ d \in Diff /\ canonical[d] \in Diff /\ n \in DOMAIN walk /\ walk[n] = Here
        /\ n \in Nat /\ DOMAIN walk = 1 .. n
    BY <1>1, HereType, WalkFrames DEF Here, Inv
  <1>4. /\ f \in FrameOn(Diff) /\ f.d = d
        /\ f.at = "open" <=> open
    BY <1>3 DEF Frame, FrameOn, Visited
  <1>5. open => canonical[d] \notin traversing
    BY DEF IsTraversing
  <1>6. Diff' = Diff /\ canonical' = canonical /\ Reached' = Reached /\ RootsComputed' = RootsComputed
    BY <1>1 DEF graphVars, registry, hierarchy, Diff, Reached, RootsComputed
  <1> HIDE DEF f, d, open
  <1>7. /\ walk' \in Seq(FrameOn(Diff)) /\ Len(walk') = n /\ DOMAIN walk' = DOMAIN walk
        /\ walk'[n] = f
        /\ \A i \in DOMAIN walk : i # n => walk'[i] = walk[i]
        /\ \A i \in DOMAIN walk : walk'[i].d = walk[i].d
    BY <1>1, <1>2, <1>4, PutFrame DEF d
  <1>8. WalkTypeOK'
    <2>1. traversing' \subseteq Diff
      BY <1>2, <1>3 DEF Inv, WalkTypeOK
    <2> QED
      BY <1>1, <1>6, <1>7, <2>1 DEF WalkTypeOK, FrameOn, Inv
  <1>9. OneHead'
    BY <1>3, <1>7 DEF OneHead, Inv, WalkInv
  <1>10. \A i \in DOMAIN walk : i # n => walk[i].at = "open" /\ canonical[walk[i].d] \in traversing
    BY <1>3 DEF Inv, WalkInv, OneHead, FlagsMatch, Flags
  <1>11. NoClassTwice'
    <2> SUFFICES ASSUME NEW i \in DOMAIN walk, NEW j \in DOMAIN walk, i < j,
                        walk'[j].at = "open"
                 PROVE  canonical[walk[i].d] # canonical[walk[j].d]
      BY <1>6, <1>7 DEF NoClassTwice
    <2>1. CASE j = n
      <3>1. open /\ walk[j].d = d
        BY <1>3, <1>4, <1>7, <2>1 DEF d
      <3>2. i # n
        BY <2>1, <1>3
      <3> QED
        BY <1>5, <1>10, <3>1, <3>2
    <2>2. CASE j # n
      BY <1>7, <2>2 DEF Inv, WalkInv, NoClassTwice
    <2> QED
      BY <2>1, <2>2
  <1>12. WithinReach'
    <2>1. walk' # <<>>
      BY <1>3, <1>7
    <2> QED
      BY <1>1, <1>6, <1>7, <2>1 DEF WithinReach, Inv, WalkInv
  <1>13. FlagsMatch'
    <2>1. \A i \in DOMAIN walk : Flags(i)' = Flags(i)
      BY <1>6, <1>7 DEF Flags
    <2>2. Flags(n) = {d, canonical[d]}
      BY <1>3 DEF Flags, d
    <2>3. \A i \in DOMAIN walk : walk'[i].at = "open" <=> (IF i = n THEN open ELSE walk[i].at = "open")
      BY <1>4, <1>7
    <2>4. walk[n].at # "open"
      BY <1>1, <1>3
    <2>5. FlagsMatch
      BY DEF Inv
    <2>6. \A e : e \in traversing' <=> e \in traversing \/ (open /\ e \in Flags(n))
      BY <1>2, <2>2
    <2> QED
      BY <1>3, <1>7, <2>1, <2>3, <2>4, <2>5, <2>6 DEF FlagsMatch
  <1> QED
    BY <1>8, <1>9, <1>11, <1>12, <1>13 DEF WalkInv

LEMMA VisitChildStep ==
    ASSUME Inv, VisitChild
    PROVE  WalkTypeOK' /\ WalkInv' /\ FlagsMatch'
  <1> DEFINE d == Here.d
             n == Len(walk)
             c == children[d][Here.next]
             f == Frame(d, "open", Here.next + 1, Here.seen)
             g == NewFrame(c)
  <1>1. /\ walk # <<>> /\ Here.at = "open" /\ Here.next <= Len(children[d])
        /\ walk' = Append(Put(f), g)
        /\ UNCHANGED <<graphVars, visited, traversing, skip>>
    BY DEF VisitChild
  <1>2. /\ d \in Diff /\ n \in DOMAIN walk /\ walk[n] = Here
        /\ n \in Nat \ {0} /\ DOMAIN walk = 1 .. n /\ Here.next \in Nat \ {0}
        /\ f \in FrameOn(Diff) /\ f.d = d /\ f.at = "open"
    BY <1>1, HereType, WalkFrames DEF Here, Inv, Frame, FrameOn
  <1>3. c \in Diff /\ c \in Reached
    <2>1. children[d] \in Seq(Diff)
      BY <1>2 DEF Inv, GraphTypeOK, HierarchyTypeOK, Diff
    <2>2. Here.next # 0
      BY <1>2
    <2>3. c \in Diff /\ c \in Members(children[d])
      BY <1>1, <1>2, <2>1, <2>2 DEF Members
    <2> QED
      BY <1>2, <2>3 DEF Inv, AdoptionInv, Reached
  <1>4. g \in FrameOn(Diff) /\ g.d = c /\ g.at = "begin"
    BY <1>3 DEF NewFrame, Frame, FrameOn
  <1>5. Diff' = Diff /\ canonical' = canonical /\ Reached' = Reached /\ RootsComputed' = RootsComputed
    BY <1>1 DEF graphVars, registry, hierarchy, Diff, Reached, RootsComputed
  <1> HIDE DEF f, g, c, d
  <1>6. /\ Put(f) \in Seq(FrameOn(Diff)) /\ Len(Put(f)) = n /\ DOMAIN Put(f) = DOMAIN walk
        /\ Put(f)[n] = f
        /\ \A i \in DOMAIN walk : i # n => Put(f)[i] = walk[i]
        /\ \A i \in DOMAIN walk : Put(f)[i].d = walk[i].d
    BY <1>1, <1>2, PutFrame DEF d
  <1>7. /\ walk' \in Seq(FrameOn(Diff)) /\ Len(walk') = n + 1 /\ DOMAIN walk' = 1 .. n + 1
        /\ walk'[n + 1] = g
        /\ \A i \in DOMAIN walk : walk'[i] = Put(f)[i]
    BY <1>1, <1>2, <1>4, <1>6
  <1>8. WalkTypeOK'
    BY <1>1, <1>5, <1>7 DEF WalkTypeOK, FrameOn, Inv
  <1>9. \A i \in DOMAIN walk : walk'[i].at = "open" /\ walk[i].at = "open" /\ walk'[i].d = walk[i].d
    BY <1>1, <1>2, <1>6, <1>7 DEF Inv, WalkInv, OneHead
  <1>10. OneHead'
    BY <1>2, <1>7, <1>9 DEF OneHead
  <1>11. NoClassTwice'
    <2> SUFFICES ASSUME NEW i \in 1 .. n + 1, NEW j \in 1 .. n + 1, i < j,
                        walk'[j].at = "open"
                 PROVE  canonical[walk'[i].d] # canonical[walk'[j].d]
      BY <1>5, <1>7 DEF NoClassTwice
    <2>1. i \in DOMAIN walk /\ j \in DOMAIN walk
      BY <1>2, <1>4, <1>7
    <2> QED
      BY <1>9, <2>1 DEF Inv, WalkInv, NoClassTwice
  <1>12. WithinReach'
    <2>1. RootsComputed /\ \A i \in DOMAIN walk : walk[i].d \in Reached
      BY <1>1 DEF Inv, WalkInv, WithinReach
    <2>2. ASSUME NEW i \in 1 .. n + 1
          PROVE  walk'[i].d \in Reached
      BY <1>2, <1>3, <1>4, <1>7, <1>9, <2>1
    <2> QED
      BY <1>5, <1>7, <2>1, <2>2 DEF WithinReach
  <1>13. FlagsMatch'
    <2>1. \A i \in DOMAIN walk : Flags(i)' = Flags(i)
      BY <1>5, <1>9 DEF Flags
    <2>2. FlagsMatch
      BY DEF Inv
    <2>3. \A i \in 1 .. n + 1 : walk'[i].at = "open" => i \in DOMAIN walk
      BY <1>2, <1>4, <1>7
    <2>4. ASSUME NEW e
          PROVE  e \in traversing' <=>
                   \E i \in DOMAIN walk' : walk'[i].at = "open" /\ e \in Flags(i)'
      BY <1>1, <1>2, <1>7, <1>9, <2>1, <2>2, <2>3 DEF FlagsMatch
    <2> QED
      BY <2>4 DEF FlagsMatch
  <1> QED
    BY <1>8, <1>10, <1>11, <1>12, <1>13 DEF WalkInv

(* Two diffs of different classes share no flag.                            *)
LEMMA FlagsApart ==
    ASSUME Inv, NEW i \in DOMAIN walk, NEW j \in DOMAIN walk,
           canonical[walk[i].d] # canonical[walk[j].d]
    PROVE  Flags(i) \cap Flags(j) = {}
  <1>1. \A d \in Diff : canonical[canonical[d]] = canonical[d]
    BY CanonicalInvSuffices DEF Inv, CanonicalDiffs
  <1>2. walk[i].d \in Diff /\ walk[j].d \in Diff
    BY WalkFrames
  <1> QED
    BY <1>1, <1>2 DEF Flags

LEMMA LeaveStep ==
    ASSUME Inv, Leave
    PROVE  WalkTypeOK' /\ WalkInv' /\ FlagsMatch'
  <1> DEFINE d == Here.d
             n == Len(walk)
  <1>1. /\ walk # <<>> /\ walk' = SubSeq(walk, 1, n - 1)
        /\ traversing' = IF Here.at = "open" THEN traversing \ {d, canonical[d]} ELSE traversing
        /\ visited' = IF Here.seen THEN visited ELSE visited \cup {canonical[d]}
        /\ UNCHANGED graphVars
    BY DEF Leave
  <1>2. /\ d \in Diff /\ canonical[d] \in Diff /\ n \in DOMAIN walk /\ walk[n] = Here
        /\ n \in Nat \ {0} /\ DOMAIN walk = 1 .. n /\ walk \in Seq(FrameOn(Diff))
    BY <1>1, HereType, WalkFrames DEF Here, Inv
  <1>3. Diff' = Diff /\ canonical' = canonical /\ Reached' = Reached /\ RootsComputed' = RootsComputed
    BY <1>1 DEF graphVars, registry, hierarchy, Diff, Reached, RootsComputed
  <1>4. /\ walk' \in Seq(FrameOn(Diff)) /\ Len(walk') = n - 1 /\ DOMAIN walk' = 1 .. n - 1
        /\ \A i \in 1 .. n - 1 : walk'[i] = walk[i]
    <2>1. \A i \in 1 .. n - 1 : walk[i] \in FrameOn(Diff)
      BY <1>2
    <2>2. /\ walk' \in Seq(FrameOn(Diff))
          /\ Len(walk') = IF 1 <= n - 1 THEN n - 1 - 1 + 1 ELSE 0
          /\ \A i \in 1 .. n - 1 - 1 + 1 : walk'[i] = walk[1 + i - 1]
      BY <1>1, <1>2, <2>1, SubSeqProperties
    <2>3. \A m \in Nat \ {0} : (IF 1 <= m - 1 THEN m - 1 - 1 + 1 ELSE 0) = m - 1
      OBVIOUS
    <2> HIDE DEF n
    <2>4. Len(walk') = n - 1
      BY <1>2, <2>2, <2>3, Zenon
    <2>5. ASSUME NEW i \in 1 .. n - 1
          PROVE  walk'[i] = walk[i]
      <3>1. 1 + i - 1 = i /\ i \in 1 .. n - 1 - 1 + 1
        BY <1>2
      <3> QED
        BY <2>2, <3>1
    <2> QED
      BY <2>2, <2>4, <2>5
  <1>5. 1 .. n - 1 \subseteq DOMAIN walk /\ \A i \in DOMAIN walk : i # n => i \in 1 .. n - 1
    BY <1>2
  <1>6. WalkTypeOK'
    <2>1. visited' \subseteq Diff /\ traversing' \subseteq Diff
      BY <1>1, <1>2 DEF Inv, WalkTypeOK
    <2>2. skip' \in BOOLEAN
      BY DEF Leave, VisitEnd, FilterEnd, PropagateEnd, SuppressEnd, RedundancyEnd, Inv, WalkTypeOK
    <2> QED
      BY <1>3, <1>4, <2>1, <2>2 DEF WalkTypeOK, FrameOn
  <1>7. OneHead'
    <2>1. \A i \in 1 .. n - 1 : walk[i].at = "open"
      BY <1>2 DEF Inv, WalkInv, OneHead
    <2> QED
      BY <1>2, <1>4, <2>1 DEF OneHead
  <1>8. NoClassTwice'
    BY <1>3, <1>4, <1>5 DEF NoClassTwice, Inv, WalkInv
  <1>9. WithinReach'
    BY <1>1, <1>3, <1>4, <1>5 DEF WithinReach, Inv, WalkInv
  <1>10. FlagsMatch'
    <2> SUFFICES ASSUME NEW e
                 PROVE  e \in traversing' <=>
                          \E i \in 1 .. n - 1 : walk[i].at = "open" /\ e \in Flags(i)
      <3>1. \A i \in 1 .. n - 1 : Flags(i)' = Flags(i)
        BY <1>3, <1>4, <1>5 DEF Flags
      <3> QED
        BY <1>4, <3>1 DEF FlagsMatch
    <2>1. FlagsMatch
      BY DEF Inv
    <2>2. Flags(n) = {d, canonical[d]}
      BY <1>2 DEF Flags
    <2>3. CASE Here.at = "open"
      <3>1. \A i \in 1 .. n - 1 : Flags(i) \cap Flags(n) = {}
        <4>1. \A i \in 1 .. n - 1 : i \in DOMAIN walk /\ i < n
          BY <1>2, <1>5
        <4>2. \A i \in 1 .. n - 1 : canonical[walk[i].d] # canonical[walk[n].d]
          BY <1>2, <2>3, <4>1 DEF Inv, WalkInv, NoClassTwice
        <4> QED
          BY <1>2, <4>1, <4>2, FlagsApart
      <3>2. e \in traversing' <=> e \in traversing /\ e \notin Flags(n)
        BY <1>1, <2>2, <2>3
      <3> QED
        BY <1>2, <1>5, <2>1, <2>3, <3>1, <3>2 DEF FlagsMatch
    <2>4. CASE Here.at # "open"
      BY <1>1, <1>2, <1>5, <2>1, <2>4 DEF FlagsMatch
    <2> QED
      BY <2>3, <2>4
  <1> QED
    BY <1>6, <1>7, <1>8, <1>9, <1>10 DEF WalkInv

-----------------------------------------------------------------------------
(* The marks: a visitor only puts diffs into categories, and what is local  *)
(* to a diff is also among its categories.                                  *)
LEMMA SubsetMarks ==
    ASSUME Inv, NEW D \in SUBSET Diff, NEW C \in SUBSET Category,
           category' = With(category, D, C),
           localCategory' = With(localCategory, D, C) \/ localCategory' = localCategory
    PROVE  category' \subseteq Diff \X Category /\ localCategory' \subseteq category'
  <1>1. D \X C \subseteq Diff \X Category
    OBVIOUS
  <1> QED
    BY <1>1 DEF Inv, MarksTypeOK, With

LEMMA VisitBeginMarks ==
    ASSUME Inv, NEW d \in Diff, NEW v, NEW seen, VisitBegin(v, d, seen)
    PROVE  /\ category' \subseteq Diff \X Category /\ localCategory' \subseteq category'
           /\ skip' \in BOOLEAN
  <1>1. canonical[d] \in Diff /\ skip \in BOOLEAN
    BY SMTT(30) DEF Inv, GraphTypeOK, RegistryTypeOK, Diff, WalkTypeOK
  <1>2. ASSUME NEW c \in Filtering, FilterPre(d, c)
        PROVE  category' \subseteq Diff \X Category /\ localCategory' \subseteq category'
    <2> DEFINE own == IF HasChanges(d) THEN OwnIn(abi, subject[d]) \cap {c} ELSE {}
    <2>1. own \in SUBSET Category /\ {d, canonical[d]} \in SUBSET Diff
      BY <1>1 DEF Category
    <2>2. /\ category' = With(category, {d, canonical[d]}, own)
          /\ localCategory' = With(localCategory, {d, canonical[d]}, own)
      BY <1>2 DEF FilterPre
    <2> HIDE DEF own
    <2> QED
      BY <2>1, <2>2, SubsetMarks
  <1>3. ASSUME SuppressBegin(d)
        PROVE  category' \subseteq Diff \X Category /\ localCategory' \subseteq category'
    <2> DEFINE own == IF SuppressedIn(abi, subject[d]) THEN {"SUPPRESSED"} ELSE {}
    <2>1. own \in SUBSET Category /\ {d} \in SUBSET Diff
      BY DEF Category
    <2>2. category' = With(category, {d}, own) /\ localCategory' = With(localCategory, {d}, own)
      BY <1>3 DEF SuppressBegin
    <2> HIDE DEF own
    <2> QED
      BY <2>1, <2>2, SubsetMarks
  <1>4. ASSUME RedundancyBegin(d)
        PROVE  /\ category' \subseteq Diff \X Category /\ localCategory' \subseteq category'
               /\ skip' \in BOOLEAN
    <2> DEFINE own == IF ToBeReported(d) /\ Redundant(d) THEN {"REDUNDANT"} ELSE {}
    <2>1. own \in SUBSET Category /\ {d} \in SUBSET Diff
      BY DEF Category
    <2>2. category' = With(category, {d}, own) /\ localCategory' = localCategory
      BY <1>4 DEF RedundancyBegin
    <2>3. skip' \in BOOLEAN
      BY <1>4 DEF RedundancyBegin
    <2> HIDE DEF own
    <2> QED
      BY <2>1, <2>2, <2>3, SubsetMarks
  <1>5. "HARMLESS" \in Filtering /\ "HARMFUL" \in Filtering
    BY DEF Filtering
  <1>6. CASE UNCHANGED <<marks, skip>>
    BY <1>1, <1>6 DEF marks, Inv, MarksTypeOK
  <1> QED
    BY <1>1, <1>2, <1>3, <1>4, <1>5, <1>6 DEF VisitBegin

LEMMA VisitEndMarks ==
    ASSUME Inv, NEW d \in Diff, NEW v, VisitEnd(v, d)
    PROVE  category' \subseteq Diff \X Category /\ localCategory' \subseteq category'
  <1>1. canonical[d] \in Diff
    BY SMTT(30) DEF Inv, GraphTypeOK, RegistryTypeOK, Diff
  <1>2. ASSUME FilterEnd(d)
        PROVE  category' \subseteq Diff \X Category /\ localCategory' \subseteq category'
    <2> DEFINE own == IF Visited(d) THEN LocalCategoryOf(canonical[d]) ELSE {}
    <2>1. own \in SUBSET Category /\ {d} \in SUBSET Diff
      BY DEF LocalCategoryOf
    <2>2. category' = With(category, {d}, own) /\ localCategory' = With(localCategory, {d}, own)
      BY <1>2 DEF FilterEnd
    <2> HIDE DEF own
    <2> QED
      BY <2>1, <2>2, SubsetMarks
  <1>3. ASSUME PropagateEnd(d)
        PROVE  category' \subseteq Diff \X Category /\ localCategory' \subseteq category'
    <2> DEFINE from == IF Visited(d) THEN {canonical[c] : c \in Members(children[d])}
                                     ELSE Members(children[d])
               to == IF Visited(d) THEN {d} ELSE {d, canonical[d]}
               inherited == (UNION {CategoryOf(c) : c \in from}) \ {"REDUNDANT", "SUPPRESSED"}
    <2>1. inherited \in SUBSET Category
      <3> HIDE DEF from
      <3> QED
        BY DEF CategoryOf
    <2>2. to \in SUBSET Diff
      BY <1>1
    <2>3. category' = With(category, to, inherited) /\ localCategory' = localCategory
      BY <1>3 DEF PropagateEnd
    <2> HIDE DEF inherited, to
    <2> QED
      BY <2>1, <2>2, <2>3, SubsetMarks
  <1>4. ASSUME NEW C \in SUBSET Category,
               category' = With(category, {d}, C), localCategory' = localCategory
        PROVE  category' \subseteq Diff \X Category /\ localCategory' \subseteq category'
    <2>1. {d} \in SUBSET Diff
      OBVIOUS
    <2> QED
      BY <1>4, <2>1, SubsetMarks
  <1>6. ASSUME SuppressEnd(d)
        PROVE  category' \subseteq Diff \X Category /\ localCategory' \subseteq category'
    <2>1. PICK C \in SUBSET Category : category' = With(category, {d}, C)
      BY <1>6 DEF SuppressEnd, Category
    <2> QED
      BY <1>4, <1>6, <2>1 DEF SuppressEnd
  <1>7. ASSUME RedundancyEnd(d)
        PROVE  category' \subseteq Diff \X Category /\ localCategory' \subseteq category'
    <2>1. PICK C \in SUBSET Category : category' = With(category, {d}, C)
      BY <1>7 DEF RedundancyEnd, Category
    <2> QED
      BY <1>4, <1>7, <2>1 DEF RedundancyEnd
  <1> QED
    BY <1>2, <1>3, <1>6, <1>7 DEF VisitEnd

-----------------------------------------------------------------------------
LEMMA InvInit == Init => Inv
  <1> SUFFICES ASSUME Init PROVE Inv
    OBVIOUS
  <1>1. GraphTypeOK /\ CanonicalInv /\ AdoptionInv
    BY GraphTypeInit, CanonicalInit, AdoptionInit DEF Init
  <1>2. ScheduleInv
    BY ScheduleInit DEF ScheduleInv, Init
  <1>3. WalkTypeOK /\ MarksTypeOK
    <2>1. walk \in Seq(FrameOn(Diff))
      BY DEF Init
    <2>2. WalkTypeOK
      BY <2>1 DEF Init, WalkTypeOK, FrameOn
    <2>3. MarksTypeOK
      <3>1. \A S : {} \subseteq S
        OBVIOUS
      <3> QED
        BY <3>1 DEF Init, MarksTypeOK
    <2> QED
      BY <2>2, <2>3
  <1>4. WalkInv /\ FlagsMatch
    BY DEF Init, WalkInv, OneHead, NoClassTwice, WithinReach, FlagsMatch
  <1> QED
    BY <1>1, <1>2, <1>3, <1>4 DEF Inv

LEMMA WalkInductive ==
    ASSUME Inv, GraphGrows, [Next]_vars
    PROVE  WalkTypeOK' /\ WalkInv' /\ FlagsMatch' /\ MarksTypeOK'
  <1>1. ASSUME UNCHANGED marks
        PROVE  MarksTypeOK'
    <2>1. Diff \X Category \subseteq Diff' \X Category
      BY DEF GraphGrows
    <2> QED
      BY <1>1, <2>1 DEF Inv, MarksTypeOK, marks
  <1>2. ASSUME UNCHANGED walkVars
        PROVE  WalkTypeOK' /\ WalkInv' /\ FlagsMatch' /\ MarksTypeOK'
    BY <1>1, <1>2, WalkStands DEF walkVars
  <1>3. CASE ComputeGraph
    BY <1>2, <1>3 DEF ComputeGraph
  <1>4. CASE FinishHere
    BY <1>2, <1>4 DEF FinishHere
  <1>5. CASE UNCHANGED vars
    BY <1>2, <1>5 DEF vars
  <1>6. CASE StartWalk
    BY <1>1, <1>6, StartWalkStep DEF StartWalk
  <1>7. CASE VisitChild
    BY <1>1, <1>7, VisitChildStep DEF VisitChild
  <1>8. CASE Enter
    <2>1. Here.d \in Diff /\ Diff' = Diff
      BY <1>8, HereType DEF Enter, Inv, graphVars, registry, Diff
    <2>2. PICK seen : VisitBegin(Now.visitor, Here.d, seen)
      BY <1>8 DEF Enter
    <2>3. /\ category' \subseteq Diff \X Category /\ localCategory' \subseteq category'
          /\ skip' \in BOOLEAN
      BY <2>1, <2>2, VisitBeginMarks
    <2> QED
      BY <1>8, <2>1, <2>3, EnterStep DEF MarksTypeOK
  <1>9. CASE Leave
    <2>1. Here.d \in Diff /\ Diff' = Diff
      BY <1>9, HereType DEF Leave, Inv, graphVars, registry, Diff
    <2>2. category' \subseteq Diff \X Category /\ localCategory' \subseteq category'
      BY <1>9, <2>1, VisitEndMarks DEF Leave
    <2> QED
      BY <1>9, <2>1, <2>2, LeaveStep DEF MarksTypeOK
  <1> QED
    BY <1>3, <1>4, <1>5, <1>6, <1>7, <1>8, <1>9 DEF Next

LEMMA InvInductive ==
    ASSUME Inv, [Next]_vars
    PROVE  Inv'
  <1>1. [GraphStep]_graphVars
    BY NextIsGraphStep DEF Inv
  <1>2. GraphTypeOK' /\ CanonicalInv' /\ GraphGrows /\ AdoptionInv'
    BY <1>1, GraphTypeInductive, CanonicalInductive, GraphStepGrows DEF Inv
  <1>3. ScheduleInv'
    BY ScheduleInductive DEF Inv
  <1>4. WalkTypeOK' /\ WalkInv' /\ FlagsMatch' /\ MarksTypeOK'
    BY <1>2, WalkInductive
  <1> QED
    BY <1>2, <1>3, <1>4 DEF Inv

(* Every diff, job and frame that the walks refer to exists, and the        *)
(* categories of a diff include its local ones.                             *)
THEOREM TypeCorrect == Spec => []TypeOK
  <1>1. Inv => TypeOK
    BY DEF Inv, TypeOK, ScheduleInv
  <1> QED
    BY <1>1, InvInit, InvInductive, PTL DEF Spec

(* begin_traversing() and end_traversing() pair up, whatever the cycles of  *)
(* the types, although the diffs of a class share the flag of their         *)
(* canonical diff and the graph grows while it is walked.                   *)
THEOREM TraversalsPairUp == Spec => []TraversingMatchesWalk
  <1>1. Inv => TraversingMatchesWalk
    BY FlagsOfWalk DEF Inv
  <1> QED
    BY <1>1, InvInit, InvInductive, PTL DEF Spec

(* A step of the walks finishes a diff that is within their reach, or asks  *)
(* for what the graph lacks.                                                *)
LEMMA WalkStepBuildsGraph ==
    ASSUME Inv, [Next]_vars
    PROVE  [GraphNext]_graphVars
  <1>1. CASE FinishHere
    <2>1. Here.d \in Reached
      <3>1. Len(walk) \in DOMAIN walk
        BY <1>1, HereType DEF Inv, FinishHere
      <3> QED
        BY <3>1 DEF Here, Inv, WalkInv, WithinReach
    <2> QED
      BY <1>1, <2>1 DEF FinishHere, Finish, GraphNext, Reached
  <1>2. CASE ComputeGraph
    BY <1>2 DEF ComputeGraph, GraphNext
  <1>3. CASE UNCHANGED graphVars
    BY <1>3
  <1> QED
    BY <1>1, <1>2, <1>3 DEF Next, vars, StartWalk, Enter, VisitChild, Leave

(* What the walks do to the graph is what module DiffGraph allows: finish   *)
(* the diffs that are within their reach, once everything is computed.  So  *)
(* what is proved of that module is true of a graph that is being walked.   *)
THEOREM WalksBuildTheGraph == Spec => GraphIsBuilt
  <1>1. Init => GraphInit
    BY DEF Init
  <1> QED
    BY <1>1, WalkStepBuildsGraph, InvInit, InvInductive, PTL DEF Spec, GraphIsBuilt

(* The canonical diffs stay canonical under the walks.                      *)
COROLLARY CanonicalDuringWalks == Spec => []CanonicalDiffs
  <1>1. Inv => CanonicalDiffs
    BY CanonicalInvSuffices DEF Inv
  <1> QED
    BY <1>1, InvInit, InvInductive, PTL DEF Spec

-----------------------------------------------------------------------------
(* What a subject depends on does not change, and includes what its parts   *)
(* depend on.                                                               *)
LEMMA BelowKept ==
    ASSUME abi' = abi, NEW S
    PROVE  SubjectsBelow(S)' = SubjectsBelow(S) /\ Unsuppressed(S)' = Unsuppressed(S)
  <1>1. SubjectsBelow(S)' = SubjectsBelow(S)
    BY DEF SubjectsBelow
  <1>2. Unsuppressed(S)' = Unsuppressed(S)
    BY DEF Unsuppressed
  <1> QED
    BY <1>1, <1>2

LEMMA ChangesKept ==
    ASSUME abi' = abi, NEW s
    PROVE  Differs(s)' = Differs(s) /\ CategoriesBelow(s)' = CategoriesBelow(s)
  <1>1. ASSUME NEW t
        PROVE  Differs(t)' = Differs(t)
    <2>1. SubjectsBelow({t})' = SubjectsBelow({t})
      BY BelowKept
    <2> QED
      BY <2>1 DEF Differs
  <1>2. ChangesBelow(s)' = ChangesBelow(s)
    <2>1. SubjectsBelow({s})' = SubjectsBelow({s})
      BY BelowKept
    <2> QED
      BY <1>1, <2>1 DEF ChangesBelow
  <1>3. CategoriesBelow(s)' = CategoriesBelow(s)
    BY <1>2 DEF CategoriesBelow
  <1> QED
    BY <1>1, <1>3

LEMMA BelowItself ==
    ASSUME GraphTypeOK, NEW s \in Subject
    PROVE  s \in SubjectsBelow({s}) /\ SubjectsBelow({s}) \subseteq Subject
  <1>1. {s} \in SUBSET Subject
    OBVIOUS
  <1> QED
    BY <1>1, SubjectsBelowLeast

LEMMA PartBelow ==
    ASSUME GraphTypeOK, NEW s \in Subject, NEW t \in Members(PartsIn(abi, s))
    PROVE  /\ t \in Subject /\ SubjectsBelow({t}) \subseteq SubjectsBelow({s})
           /\ Differs(t) => Differs(s)
           /\ CategoriesBelow(t) \subseteq CategoriesBelow(s)
  <1>1. PICK B : B = SubjectsBelow({s})
    OBVIOUS
  <1>2. t \in Subject
    BY ABIAssumption, MembersType DEF GraphTypeOK
  <1>3. {s} \in SUBSET Subject /\ {t} \in SUBSET Subject
    BY <1>2
  <1>4. B \in SUBSET Subject /\ s \in B /\ HasParts(B)
    BY <1>1, <1>3, SubjectsBelowLeast
  <1>5. {t} \subseteq B
    BY <1>4 DEF HasParts
  <1>6. SubjectsBelow({t}) \subseteq B
    BY <1>3, <1>4, <1>5, SubjectsBelowLeast
  <1>7. Differs(t) => Differs(s)
    BY <1>1, <1>6 DEF Differs
  <1>8. CategoriesBelow(t) \subseteq CategoriesBelow(s)
    BY <1>1, <1>6 DEF CategoriesBelow, ChangesBelow
  <1> QED
    BY <1>1, <1>2, <1>6, <1>7, <1>8

(* What can be seen of S past the suppressions is the least set that has    *)
(* what is not suppressed of S and, with a subject, of its parts.           *)
HasVisible(X) ==
    \A s \in X : \A t \in Members(PartsIn(abi, s)) : ~SuppressedIn(abi, t) => t \in X

WithVisible ==
    [X \in SUBSET Subject |->
       X \cup {t \in UNION {Members(PartsIn(abi, s)) : s \in X} : ~SuppressedIn(abi, t)}]

LEMMA WithVisibleGrows ==
    ASSUME GraphTypeOK
    PROVE  /\ IsGrowth(WithVisible, Subject)
           /\ \A X \in SUBSET Subject : WithVisible[X] = X <=> HasVisible(X)
  <1>1. \A s \in Subject : Members(PartsIn(abi, s)) \subseteq Subject
    BY ABIAssumption, MembersType DEF GraphTypeOK
  <1>2. \A X \in SUBSET Subject : WithVisible[X] = X <=> HasVisible(X)
    BY DEF WithVisible, HasVisible
  <1>3. WithVisible \in [SUBSET Subject -> SUBSET Subject]
    BY <1>1 DEF WithVisible
  <1>4. \A X \in SUBSET Subject : X \subseteq WithVisible[X]
    BY DEF WithVisible
  <1>5. ASSUME NEW X \in SUBSET Subject, NEW Y \in SUBSET Subject, X \subseteq Y, HasVisible(Y)
        PROVE  WithVisible[X] \subseteq Y
    BY <1>5 DEF WithVisible, HasVisible
  <1> QED
    BY <1>2, <1>3, <1>4, <1>5 DEF IsGrowth

LEMMA UnsuppressedLeast ==
    ASSUME GraphTypeOK, NEW S \in SUBSET Subject
    PROVE  /\ Unsuppressed(S) \in SUBSET Subject /\ HasVisible(Unsuppressed(S))
           /\ \A s \in S : ~SuppressedIn(abi, s) => s \in Unsuppressed(S)
           /\ \A X \in SUBSET Subject :
                HasVisible(X) /\ (\A s \in S : ~SuppressedIn(abi, s) => s \in X)
                  => Unsuppressed(S) \subseteq X
  <1> DEFINE visible(X) == {s \in X : ~SuppressedIn(abi, s)}
             more(X) == X \cup visible(UNION {Members(PartsIn(abi, s)) : s \in X})
             Body(f) == [X \in SUBSET Subject |-> IF more(X) = X THEN X ELSE f[more(X)]]
  <1>1. PICK F : F = WithVisible
    OBVIOUS
  <1>2. IsGrowth(F, Subject)
    BY <1>1, WithVisibleGrows
  <1>3. ASSUME NEW f
        PROVE  f = Body(f) <=> GrownBy(F, Subject, f)
    <2>1. ASSUME NEW X \in SUBSET Subject
          PROVE  F[X] = more(X)
      BY <1>1 DEF WithVisible
    <2> HIDE DEF more
    <2> QED
      BY <2>1 DEF GrownBy
  <1>4. \E f : f = Body(f)
    BY <1>2, <1>3, GrowthExists
  <1>5. PICK c : c = CHOOSE f : f = Body(f)
    OBVIOUS
  <1>6. GrownBy(F, Subject, c)
    BY <1>3, <1>4, <1>5
  <1>7. PICK V \in SUBSET Subject : V = visible(S)
    OBVIOUS
  <1>8. Unsuppressed(S) = c[V]
    BY <1>5, <1>7 DEF Unsuppressed
  <1>9. GrownTo(F, Subject, c, V)
    BY <1>2, <1>6, GrowthEnds, ABIAssumption
  <1>10. \A s \in S : ~SuppressedIn(abi, s) <=> s \in V
    BY <1>7
  <1> HIDE DEF visible, Body
  <1>11. /\ c[V] \in SUBSET Subject /\ V \subseteq c[V] /\ F[c[V]] = c[V]
         /\ \A X \in SUBSET Subject : V \subseteq X /\ F[X] = X => c[V] \subseteq X
    BY <1>9 DEF GrownTo
  <1>12. \A X \in SUBSET Subject : (\A s \in S : ~SuppressedIn(abi, s) => s \in X) => V \subseteq X
    BY <1>7 DEF visible
  <1> QED
    BY <1>1, <1>8, <1>10, <1>11, <1>12, WithVisibleGrows

LEMMA UnsuppressedBelow ==
    ASSUME GraphTypeOK, NEW s \in Subject, NEW u \in Unsuppressed({s})
    PROVE  /\ u \in SubjectsBelow({s}) /\ ~SuppressedIn(abi, s)
           /\ u = s \/ \E t \in Members(PartsIn(abi, s)) : u \in Unsuppressed({t})
  <1>1. PICK U : U = Unsuppressed({s})
    OBVIOUS
  <1>2. PICK B : B = SubjectsBelow({s})
    OBVIOUS
  <1>3. {s} \in SUBSET Subject /\ \A t \in Members(PartsIn(abi, s)) : {t} \in SUBSET Subject
    BY PartBelow
  <1>4. \A X \in SUBSET Subject :
          HasVisible(X) /\ (~SuppressedIn(abi, s) => s \in X) => U \subseteq X
    BY <1>1, <1>3, UnsuppressedLeast
  <1>5. B \in SUBSET Subject /\ s \in B /\ HasParts(B)
    BY <1>2, <1>3, SubjectsBelowLeast
  <1>6. U \subseteq B
    BY <1>4, <1>5 DEF HasParts, HasVisible
  <1>7. SuppressedIn(abi, s) => U = {}
    <2>1. HasVisible({}) /\ {} \in SUBSET Subject
      BY DEF HasVisible
    <2> QED
      BY <1>4, <2>1
  <1>8. u = s \/ \E t \in Members(PartsIn(abi, s)) : u \in Unsuppressed({t})
    <2>1. PICK X : X = {x \in Subject : x = s \/ \E t \in Members(PartsIn(abi, s)) : x \in Unsuppressed({t})}
      OBVIOUS
    <2>2. HasVisible(X)
      <3> SUFFICES ASSUME NEW x \in X, NEW t \in Members(PartsIn(abi, x)), ~SuppressedIn(abi, t)
                   PROVE  t \in X
        BY DEF HasVisible
      <3>1. x \in Subject /\ t \in Subject
        BY <2>1, PartBelow
      <3>2. CASE x = s
        <4>1. t \in Unsuppressed({t})
          BY <1>3, <3>2, UnsuppressedLeast
        <4> QED
          BY <2>1, <3>1, <3>2, <4>1
      <3>3. ASSUME NEW r \in Members(PartsIn(abi, s)), x \in Unsuppressed({r})
            PROVE  t \in X
        <4>1. HasVisible(Unsuppressed({r}))
          BY <1>3, UnsuppressedLeast
        <4>2. t \in Unsuppressed({r})
          BY <3>3, <4>1 DEF HasVisible
        <4> QED
          BY <2>1, <3>1, <4>2
      <3> QED
        BY <2>1, <3>2, <3>3
    <2>3. U \subseteq X
      BY <1>4, <2>1, <2>2
    <2> QED
      BY <1>1, <2>1, <2>3
  <1> QED
    BY <1>1, <1>2, <1>6, <1>7, <1>8

-----------------------------------------------------------------------------
(* Why a diff is in a category: there is a change of a filter's category    *)
(* below, or all the changes below are behind what is suppressed.           *)
Unseen(s) == \A u \in Unsuppressed({s}) : ~LocalIn(abi, u)

HasReason(d) ==
    /\ \A c \in Filtering : <<d, c>> \in category => c \in CategoriesBelow(subject[d])
    /\ <<d, "SUPPRESSED">> \in category => Unseen(subject[d])
    /\ <<d, "SUPPRESSED">> \in localCategory => SuppressedIn(abi, subject[d])

ReasonsInv == \A d \in Diff : HasReason(d)

(* diff::traverse() has finished the diffs it looks at.                     *)
WalkFinishes == \A i \in DOMAIN walk : walk[i].at # "begin" => finished[walk[i].d]

MarksInv == Inv /\ LossInv /\ WalkFinishes /\ ReasonsInv

LEMMA UnseenKept ==
    ASSUME abi' = abi, NEW s
    PROVE  Unseen(s)' = Unseen(s)
  <1>1. Unsuppressed({s})' = Unsuppressed({s})
    BY BelowKept
  <1> QED
    BY <1>1 DEF Unseen

(* The graph grows: a new diff is in no category.                           *)
LEMMA ReasonsGrow ==
    ASSUME MarksTypeOK, GraphTypeOK, ReasonsInv, UNCHANGED <<abi, marks>>,
           \A d \in Diff : subject'[d] = subject[d]
    PROVE  ReasonsInv'
  <1>1. ASSUME NEW d \in Diff
        PROVE  HasReason(d)'
    <2>1. subject'[d] = subject[d]
      OBVIOUS
    <2>2. /\ CategoriesBelow(subject[d])' = CategoriesBelow(subject[d])
          /\ Unseen(subject[d])' = Unseen(subject[d])
      <3>1. PICK s : s = subject[d]
        OBVIOUS
      <3>2. CategoriesBelow(s)' = CategoriesBelow(s) /\ Unseen(s)' = Unseen(s)
        BY ChangesKept, UnseenKept
      <3>3. /\ CategoriesBelow(subject[d])' = CategoriesBelow(s)'
            /\ Unseen(subject[d])' = Unseen(s)'
        BY <2>1, <3>1 DEF CategoriesBelow, ChangesBelow, Differs, Unseen
      <3> QED
        BY <3>1, <3>2, <3>3
    <2> QED
      BY <2>2 DEF ReasonsInv, HasReason, marks
  <1>2. ASSUME NEW d, d \notin Diff
        PROVE  HasReason(d)'
    BY <1>2 DEF MarksTypeOK, HasReason, marks
  <1> QED
    BY <1>1, <1>2 DEF ReasonsInv

(* Diffs that have a reason to be in the categories that they get.          *)
LEMMA ReasonsAdd ==
    ASSUME Inv, ReasonsInv, UNCHANGED graphVars,
           NEW D \in SUBSET Diff, NEW C, category' = With(category, D, C),
           \/ localCategory' = localCategory
           \/ /\ localCategory' = With(localCategory, D, C)
              /\ "SUPPRESSED" \in C => \A e \in D : SuppressedIn(abi, subject[e]),
           \A e \in D : C \cap Filtering \subseteq CategoriesBelow(subject[e]),
           "SUPPRESSED" \in C => \A e \in D : Unseen(subject[e])
    PROVE  ReasonsInv'
  <1>1. UNCHANGED <<abi, subject, Diff>>
    BY DEF graphVars, registry, Diff
  <1> SUFFICES ASSUME NEW d \in Diff
               PROVE  HasReason(d)'
    BY <1>1 DEF ReasonsInv
  <1>2. PICK s : s = subject[d]
    OBVIOUS
  <1>3. CategoriesBelow(s)' = CategoriesBelow(s) /\ Unseen(s)' = Unseen(s)
    BY <1>1, ChangesKept, UnseenKept
  <1>4. /\ CategoriesBelow(subject[d])' = CategoriesBelow(s)'
        /\ Unseen(subject[d])' = Unseen(s)'
    BY <1>1, <1>2 DEF CategoriesBelow, ChangesBelow, Differs, Unseen
  <1>5. HasReason(d)
    BY DEF ReasonsInv
  <1>6. \A c : <<d, c>> \in category' <=> <<d, c>> \in category \/ (d \in D /\ c \in C)
    BY DEF With
  <1>7. <<d, "SUPPRESSED">> \in localCategory' =>
          <<d, "SUPPRESSED">> \in localCategory \/ SuppressedIn(abi, s)
    BY <1>2 DEF With
  <1>8. \A c \in Filtering : <<d, c>> \in category' => c \in CategoriesBelow(s)
    BY <1>2, <1>5, <1>6 DEF HasReason
  <1>9. <<d, "SUPPRESSED">> \in category' => Unseen(s)
    BY <1>2, <1>5, <1>6 DEF HasReason
  <1>10. <<d, "SUPPRESSED">> \in localCategory' => SuppressedIn(abi, s)
    BY <1>2, <1>5, <1>7 DEF HasReason
  <1>11. /\ \A c \in Filtering : <<d, c>> \in category' => c \in CategoriesBelow(subject[d])'
         /\ <<d, "SUPPRESSED">> \in category' => Unseen(subject[d])'
         /\ <<d, "SUPPRESSED">> \in localCategory' => SuppressedIn(abi', subject'[d])
    BY <1>1, <1>2, <1>3, <1>4, <1>8, <1>9, <1>10
  <1> QED
    BY <1>11 DEF HasReason

LEMMA CanonicalSubject ==
    ASSUME Inv, NEW d \in Diff
    PROVE  canonical[d] \in Diff /\ subject[canonical[d]] = subject[d] /\ subject[d] \in Subject
  BY NodeFacts, CanonicalInvSuffices DEF Inv, CanonicalDiffs

(* A suppressed subject hides all that is below it.                         *)
LEMMA SuppressedUnseen ==
    ASSUME GraphTypeOK, NEW s \in Subject, SuppressedIn(abi, s)
    PROVE  Unseen(s)
  BY UnsuppressedBelow DEF Unseen

LEMMA FilterPreReasons ==
    ASSUME MarksInv, UNCHANGED graphVars, NEW d \in Diff, NEW c \in Filtering, FilterPre(d, c)
    PROVE  ReasonsInv'
  <1> DEFINE own == IF HasChanges(d) THEN OwnIn(abi, subject[d]) \cap {c} ELSE {}
             D == {d, canonical[d]}
  <1>1. D \in SUBSET Diff /\ \A e \in D : subject[e] = subject[d]
    BY CanonicalSubject DEF MarksInv
  <1>2. "SUPPRESSED" \notin own
    BY DEF Filtering
  <1>3. own \subseteq CategoriesBelow(subject[d])
    <2>1. HasChanges(d) => subject[d] \in ChangesBelow(subject[d])
      BY CanonicalSubject, BelowItself DEF MarksInv, Inv, HasChanges, ChangesBelow
    <2> QED
      BY <2>1 DEF CategoriesBelow
  <1>4. category' = With(category, D, own) /\ localCategory' = With(localCategory, D, own)
    BY DEF FilterPre
  <1> HIDE DEF own, D
  <1>5. \A e \in D : own \cap Filtering \subseteq CategoriesBelow(subject[e])
    BY <1>1, <1>3
  <1> QED
    BY <1>1, <1>2, <1>4, <1>5, ReasonsAdd DEF MarksInv

LEMMA FilterEndReasons ==
    ASSUME MarksInv, UNCHANGED graphVars, NEW d \in Diff, FilterEnd(d)
    PROVE  ReasonsInv'
  <1> DEFINE own == IF Visited(d) THEN LocalCategoryOf(canonical[d]) ELSE {}
             D == {d}
  <1>1. /\ D \in SUBSET Diff /\ canonical[d] \in Diff /\ subject[canonical[d]] = subject[d]
        /\ subject[d] \in Subject
    BY CanonicalSubject DEF MarksInv
  <1>2. \A c \in own : <<canonical[d], c>> \in localCategory /\ <<canonical[d], c>> \in category
    BY DEF LocalCategoryOf, MarksInv, Inv, MarksTypeOK
  <1>3. category' = With(category, D, own) /\ localCategory' = With(localCategory, D, own)
    BY DEF FilterEnd
  <1>4. \A e \in D : e = d
    OBVIOUS
  <1> HIDE DEF own, D
  <1>5. HasReason(canonical[d])
    BY <1>1 DEF MarksInv, ReasonsInv
  <1>6. \A e \in D : own \cap Filtering \subseteq CategoriesBelow(subject[e])
    BY <1>1, <1>2, <1>4, <1>5 DEF HasReason
  <1>7. "SUPPRESSED" \in own => SuppressedIn(abi, subject[d])
    BY <1>1, <1>2, <1>5 DEF HasReason
  <1>8. "SUPPRESSED" \in own => \A e \in D : Unseen(subject[e])
    BY <1>1, <1>4, <1>7, SuppressedUnseen DEF MarksInv, Inv
  <1> QED
    BY <1>1, <1>3, <1>4, <1>6, <1>7, <1>8, ReasonsAdd DEF MarksInv

LEMMA PropagateEndReasons ==
    ASSUME MarksInv, UNCHANGED graphVars, NEW d \in Diff, PropagateEnd(d)
    PROVE  ReasonsInv'
  <1> DEFINE from == IF Visited(d) THEN {canonical[c] : c \in Members(children[d])}
                                   ELSE Members(children[d])
             D == IF Visited(d) THEN {d} ELSE {d, canonical[d]}
             inherited == (UNION {CategoryOf(c) : c \in from}) \ {"REDUNDANT", "SUPPRESSED"}
  <1>1. category' = With(category, D, inherited) /\ localCategory' = localCategory
    BY DEF PropagateEnd
  <1>2. D \in SUBSET Diff /\ \A e \in D : subject[e] = subject[d]
    BY CanonicalSubject DEF MarksInv
  <1>3. subject[d] \in Subject
    BY CanonicalSubject DEF MarksInv
  <1>4. ASSUME NEW c \in from
        PROVE  CategoryOf(c) \cap Filtering \subseteq CategoriesBelow(subject[d])
    <2>1. PICK b \in Members(children[d]) : c = b \/ c = canonical[b]
      <3>1. CASE Visited(d)
        BY <3>1
      <3>2. CASE ~Visited(d)
        BY <3>2
      <3> QED
        BY <3>1, <3>2
    <2>2. b \in Diff /\ subject[b] \in Members(PartsIn(abi, subject[d]))
      BY ChildrenArePartsOf DEF MarksInv, PartOf
    <2>3. c \in Diff /\ subject[c] = subject[b]
      BY <2>1, <2>2, CanonicalSubject DEF MarksInv
    <2>4. CategoryOf(c) \cap Filtering \subseteq CategoriesBelow(subject[c])
      BY <2>3 DEF MarksInv, ReasonsInv, HasReason, CategoryOf
    <2>5. CategoriesBelow(subject[b]) \subseteq CategoriesBelow(subject[d])
      BY <1>3, <2>2, PartBelow DEF MarksInv, Inv
    <2> QED
      BY <2>3, <2>4, <2>5
  <1> HIDE DEF from, D
  <1>5. PICK found : found = UNION {CategoryOf(c) : c \in from}
    OBVIOUS
  <1>6. /\ "SUPPRESSED" \notin inherited
        /\ inherited \cap Filtering \subseteq CategoriesBelow(subject[d])
    <2>1. found \cap Filtering \subseteq CategoriesBelow(subject[d])
      BY <1>4, <1>5
    <2>2. inherited = found \ {"REDUNDANT", "SUPPRESSED"}
      BY <1>5
    <2> HIDE DEF inherited
    <2> QED
      BY <2>1, <2>2
  <1> HIDE DEF inherited
  <1>7. \A e \in D : inherited \cap Filtering \subseteq CategoriesBelow(subject[e])
    BY <1>2, <1>6
  <1> QED
    BY <1>1, <1>2, <1>6, <1>7, ReasonsAdd DEF MarksInv

LEMMA SuppressBeginReasons ==
    ASSUME MarksInv, UNCHANGED graphVars, NEW d \in Diff, SuppressBegin(d)
    PROVE  ReasonsInv'
  <1> DEFINE own == IF SuppressedIn(abi, subject[d]) THEN {"SUPPRESSED"} ELSE {}
             D == {d}
  <1>1. D \in SUBSET Diff /\ subject[d] \in Subject
    BY CanonicalSubject DEF MarksInv
  <1>2. category' = With(category, D, own) /\ localCategory' = With(localCategory, D, own)
    BY DEF SuppressBegin
  <1>3. own \cap Filtering = {} /\ ("SUPPRESSED" \in own => SuppressedIn(abi, subject[d]))
    BY DEF Filtering
  <1>4. \A e \in D : e = d
    OBVIOUS
  <1> HIDE DEF own, D
  <1>5. "SUPPRESSED" \in own => \A e \in D : Unseen(subject[e])
    BY <1>1, <1>3, <1>4, SuppressedUnseen DEF MarksInv, Inv
  <1>6. "SUPPRESSED" \in own => \A e \in D : SuppressedIn(abi, subject[e])
    BY <1>3, <1>4
  <1>7. \A e \in D : own \cap Filtering \subseteq CategoriesBelow(subject[e])
    BY <1>3
  <1> QED
    BY <1>1, <1>2, <1>5, <1>6, <1>7, ReasonsAdd DEF MarksInv

(* A diff without a change of its own, all of whose changed children are    *)
(* suppressed: there is no change to be seen below it.                      *)
LEMMA ChildrenUnseen ==
    ASSUME MarksInv, NEW d \in Diff, finished[d], ~Local(d),
           \A c \in Members(children[d]) :
               HasChanges(c) => "SUPPRESSED" \in CategoryOf(c)
    PROVE  Unseen(subject[d])
  <1>1. /\ GraphTypeOK /\ subject[d] \in Subject
        /\ \A t \in Members(PartsIn(abi, subject[d])) : t \in Subject
    BY CanonicalSubject, PartBelow DEF MarksInv, Inv
  <1> SUFFICES ASSUME NEW u \in Unsuppressed({subject[d]})
               PROVE  ~LocalIn(abi, u)
    BY DEF Unseen
  <1>2. CASE u = subject[d]
    BY <1>2 DEF Local
  <1>3. ASSUME NEW t \in Members(PartsIn(abi, subject[d])), u \in Unsuppressed({t})
        PROVE  ~LocalIn(abi, u)
    <2>1. PICK c \in Members(Parts(d)) : t = subject[c]
      BY FinishedHasAll DEF MarksInv
    <2>2. c \in Members(children[d]) /\ c \in Diff
      BY <2>1, NodeFacts DEF MarksInv, LossInv, GraphInv, FinishedInv, Complete
    <2>3. CASE HasChanges(c)
      <3>1. <<c, "SUPPRESSED">> \in category
        BY <2>2, <2>3 DEF CategoryOf
      <3>2. Unseen(t)
        BY <2>1, <2>2, <3>1 DEF MarksInv, ReasonsInv, HasReason
      <3> QED
        BY <1>3, <3>2 DEF Unseen
    <2>4. CASE ~HasChanges(c)
      <3>1. u \in SubjectsBelow({t})
        BY <1>1, <1>3, UnsuppressedBelow
      <3> QED
        BY <2>1, <2>4, <3>1 DEF HasChanges, Differs
    <2> QED
      BY <2>3, <2>4
  <1> QED
    BY <1>1, <1>2, <1>3, UnsuppressedBelow

LEMMA SuppressEndReasons ==
    ASSUME MarksInv, UNCHANGED graphVars, NEW d \in Diff, finished[d], SuppressEnd(d)
    PROVE  ReasonsInv'
  <1> DEFINE changed == {c \in Members(children[d]) : HasChanges(c)}
             all == /\ ~Local(d)
                    /\ changed # {}
                    /\ \A c \in changed : "SUPPRESSED" \in CategoryOf(c)
             own == IF all THEN {"SUPPRESSED"} ELSE {}
             D == {d}
  <1>1. category' = With(category, D, own) /\ localCategory' = localCategory
    BY DEF SuppressEnd
  <1>2. all => Unseen(subject[d])
    BY ChildrenUnseen
  <1> HIDE DEF all
  <1>3. own \cap Filtering = {} /\ ("SUPPRESSED" \in own => Unseen(subject[d]))
    BY <1>2 DEF Filtering
  <1>4. D \in SUBSET Diff /\ \A e \in D : e = d
    OBVIOUS
  <1> HIDE DEF own, D
  <1>5. \A e \in D : own \cap Filtering \subseteq CategoriesBelow(subject[e])
    BY <1>3
  <1>6. "SUPPRESSED" \in own => \A e \in D : Unseen(subject[e])
    BY <1>3, <1>4
  <1> QED
    BY <1>1, <1>4, <1>5, <1>6, ReasonsAdd DEF MarksInv

(* The redundancy pass only puts diffs into a category of its own.          *)
LEMMA RedundancyReasons ==
    ASSUME MarksInv, UNCHANGED graphVars, NEW d \in Diff, RedundancyBegin(d) \/ RedundancyEnd(d)
    PROVE  ReasonsInv'
  <1>1. PICK own \in {{}, {"REDUNDANT"}} : category' = With(category, {d}, own)
    BY DEF RedundancyBegin, RedundancyEnd
  <1>2. localCategory' = localCategory
    BY DEF RedundancyBegin, RedundancyEnd
  <1>3. PICK D \in SUBSET Diff : D = {d}
    OBVIOUS
  <1>4. own \cap Filtering = {} /\ "SUPPRESSED" \notin own
    BY <1>1 DEF Filtering
  <1>5. \A e \in D : own \cap Filtering \subseteq CategoriesBelow(subject[e])
    BY <1>4
  <1> QED
    BY <1>1, <1>2, <1>3, <1>4, <1>5, ReasonsAdd DEF MarksInv

-----------------------------------------------------------------------------
LEMMA MarksInvInit == Init => MarksInv
  <1> SUFFICES ASSUME Init PROVE MarksInv
    OBVIOUS
  <1>1. Inv /\ LossInv
    BY InvInit, LossInit DEF Init
  <1>2. WalkFinishes /\ ReasonsInv
    BY DEF Init, GraphInit, WalkFinishes, ReasonsInv, Diff
  <1> QED
    BY <1>1, <1>2 DEF MarksInv

(* diff::traverse() finishes a diff before it opens it.                     *)
LEMMA WalkFinishesInductive ==
    ASSUME Inv, WalkFinishes, [Next]_vars
    PROVE  WalkFinishes'
  <1>1. \A d \in Diff : finished[d] => finished'[d]
    BY NextIsGraphStep, GraphStepKeepsFinished DEF Inv
  <1>2. /\ \A i \in DOMAIN walk : walk[i].d \in Diff
        /\ Len(walk) \in Nat /\ DOMAIN walk = 1 .. Len(walk) /\ walk \in Seq(FrameOn(Diff))
    BY WalkFrames
  <1>3. CASE UNCHANGED walk
    BY <1>1, <1>2, <1>3 DEF WalkFinishes
  <1>4. CASE StartWalk
    <2>1. walk' = <<NewFrame(roots[Now.root])>>
      BY <1>4 DEF StartWalk
    <2> QED
      BY <2>1 DEF WalkFinishes, NewFrame, Frame
  <1>5. CASE Enter
    <2>1. PICK seen, at : walk' = Put(Frame(Here.d, at, 1, seen))
      BY <1>5 DEF Enter, Open
    <2>2. walk # <<>> /\ finished[Here.d] /\ Here = walk[Len(walk)]
      BY <1>5 DEF Enter, Here
    <2>3. PICK f : f = Frame(Here.d, at, 1, seen)
      OBVIOUS
    <2>4. f.d = Here.d /\ walk' = [walk EXCEPT ![Len(walk)] = f]
      BY <2>1, <2>3 DEF Frame, Put
    <2>5. /\ DOMAIN walk' = DOMAIN walk
          /\ \A i \in DOMAIN walk : walk'[i] = IF i = Len(walk) THEN f ELSE walk[i]
      BY <1>2, <2>4
    <2>6. \A i \in DOMAIN walk' : walk'[i].at # "begin" => finished[walk'[i].d]
      BY <2>2, <2>4, <2>5 DEF WalkFinishes
    <2>7. \A i \in DOMAIN walk' : walk'[i].d \in Diff
      BY <1>2, <2>2, <2>4, <2>5, HereType DEF Inv
    <2> QED
      BY <1>1, <2>6, <2>7 DEF WalkFinishes
  <1>6. CASE VisitChild
    <2> DEFINE f == Frame(Here.d, "open", Here.next + 1, Here.seen)
               g == NewFrame(children[Here.d][Here.next])
    <2>1. /\ walk # <<>> /\ walk' = Append(Put(f), g) /\ finished' = finished
          /\ Here = walk[Len(walk)] /\ Here.at = "open"
      BY <1>6 DEF VisitChild, graphVars, hierarchy, Here
    <2>2. f \in FrameOn(Diff) /\ f.d = Here.d /\ g.at = "begin" /\ Len(walk) \in DOMAIN walk
      BY <1>2, <2>1, HereType DEF Inv, Frame, NewFrame, FrameOn
    <2> HIDE DEF f, g
    <2>3. /\ Put(f) \in Seq(FrameOn(Diff)) /\ Len(Put(f)) = Len(walk)
          /\ \A i \in DOMAIN walk : i # Len(walk) => Put(f)[i] = walk[i]
          /\ \A i \in DOMAIN walk : Put(f)[i].d = walk[i].d
      BY <2>1, <2>2, PutFrame
    <2>4. finished[Here.d]
      BY <2>1, <2>2 DEF WalkFinishes
    <2>5. \A i \in DOMAIN walk : Put(f)[i].at # "begin" => finished[Put(f)[i].d]
      BY <2>1, <2>3, <2>4 DEF WalkFinishes
    <2>6. PICK w : w = Put(f)
      OBVIOUS
    <2>7. /\ Len(walk') = Len(walk) + 1 /\ DOMAIN walk' = 1 .. Len(walk) + 1
          /\ \A i \in 1 .. Len(walk) : walk'[i] = w[i]
          /\ walk'[Len(walk) + 1] = g
      BY <1>2, <2>1, <2>3, <2>6
    <2> QED
      BY <1>2, <2>1, <2>2, <2>5, <2>6, <2>7 DEF WalkFinishes
  <1>7. CASE Leave
    <2>1. walk # <<>> /\ walk' = SubSeq(walk, 1, Len(walk) - 1) /\ finished' = finished
      BY <1>7 DEF Leave, graphVars, hierarchy
    <2>2. DOMAIN walk' = 1 .. Len(walk) - 1 /\ \A i \in DOMAIN walk' : walk'[i] = walk[i]
      BY <1>2, <2>1, SubSeqProperties
    <2> QED
      BY <1>2, <2>1, <2>2 DEF WalkFinishes
  <1> QED
    BY <1>3, <1>4, <1>5, <1>6, <1>7 DEF Next, ComputeGraph, FinishHere, vars, walkVars

(* A diff is only put into a category for a reason: the steps of the        *)
(* visitors, and those that leave the categories alone.                     *)
LEMMA ReasonsInductive ==
    ASSUME MarksInv, [Next]_vars
    PROVE  ReasonsInv'
  <1>1. ASSUME UNCHANGED marks
        PROVE  ReasonsInv'
    <2>1. SubjectsKept
      BY NextIsGraphStep, GraphStepKeepsSubjects DEF MarksInv, Inv
    <2> QED
      BY <1>1, <2>1, ReasonsGrow DEF MarksInv, Inv, SubjectsKept
  <1>2. CASE Enter
    <2>1. PICK d, v, seen : d \in Diff /\ VisitBegin(v, d, seen)
      BY <1>2, HereType DEF Enter, MarksInv, Inv
    <2>2. UNCHANGED graphVars
      BY <1>2 DEF Enter
    <2>3. ASSUME NEW c \in Filtering, FilterPre(d, c)
          PROVE  ReasonsInv'
      BY <2>1, <2>2, <2>3, FilterPreReasons
    <2> QED
      BY <1>1, <2>1, <2>2, <2>3, SuppressBeginReasons, RedundancyReasons DEF VisitBegin, Filtering
  <1>3. CASE Leave
    <2>1. PICK d \in Diff : d = Here.d /\ finished[d]
      <3>1. Len(walk) \in DOMAIN walk /\ Here = walk[Len(walk)] /\ Here.d \in Diff
        BY <1>3, HereType DEF Leave, Here, MarksInv, Inv
      <3> QED
        BY <1>3, <3>1 DEF Leave, MarksInv, WalkFinishes
    <2>2. UNCHANGED graphVars /\ VisitEnd(Now.visitor, d)
      BY <1>3, <2>1 DEF Leave
    <2> QED
      BY <2>1, <2>2, FilterEndReasons, PropagateEndReasons, SuppressEndReasons,
         RedundancyReasons DEF VisitEnd
  <1> QED
    BY <1>1, <1>2, <1>3 DEF Next, ComputeGraph, FinishHere, StartWalk, VisitChild, vars, walkVars

LEMMA MarksInvInductive ==
    ASSUME MarksInv, [Next]_vars
    PROVE  MarksInv'
  <1>1. Inv' /\ WalkFinishes' /\ ReasonsInv'
    BY InvInductive, WalkFinishesInductive, ReasonsInductive DEF MarksInv
  <1>2. LossInv'
    BY NextIsGraphStep, LossInductive DEF MarksInv, Inv
  <1> QED
    BY <1>1, <1>2 DEF MarksInv

LEMMA MarksInvSuffices ==
    ASSUME MarksInv
    PROVE  CategoriesComeFromBelow /\ SuppressedForAReason
  BY DEF MarksInv, ReasonsInv, HasReason, Unseen, CategoriesComeFromBelow,
     SuppressedForAReason, CategoryOf, Filtering, Category

(* No diff is in the category of a filter for a change that it does not     *)
(* depend on, although the filters and the propagation read and write       *)
(* canonical diffs that belong to other places of the graph: not only when  *)
(* the walks are done, but at any time.                                     *)
THEOREM CategoriesFromBelow == Spec => []CategoriesComeFromBelow
  <1> QED
    BY MarksInvInit, MarksInvInductive, MarksInvSuffices, PTL DEF Spec

(* A diff is only suppressed when a specification matches it, or each       *)
(* change below it is behind something that a specification matches.        *)
THEOREM SuppressedWithReason == Spec => []SuppressedForAReason
  <1> QED
    BY MarksInvInit, MarksInvInductive, MarksInvSuffices, PTL DEF Spec

(* What was proved of the graph holds while it is walked.                   *)
COROLLARY GraphDuringWalks == Spec => [](AnyParentWillDo /\ NoChangeLost)
  <1>1. MarksInv => AnyParentWillDo /\ NoChangeLost
    BY AnyParentSuffices, NothingLostSuffices DEF MarksInv, LossInv
  <1> QED
    BY <1>1, MarksInvInit, MarksInvInductive, PTL DEF Spec

-----------------------------------------------------------------------------

(* The calls of report() when the diffs are those of D.                     *)
PlaceOn(D) == [at : Nat, part : D]
PageOn(D) == [d : D, at : {"begin", "open"}, left : SUBSET PlaceOn(D)]

-----------------------------------------------------------------------------
(* The inductive invariant of the report: currently_reporting_ is set on    *)
(* the classes that are open and on their canonical diffs, those are of     *)
(* different classes of equivalence, and what was printed of a class is     *)
(* under one of the two flags.                                              *)
ClassOpen(i) == reports[i].at = "open" /\ MethodOf(reports[i].d) = "class"
Reports(i) == {reports[i].d, canonical[reports[i].d]}

ReportingOpen ==
    \A e : e \in reporting <=> \E i \in DOMAIN reports : ClassOpen(i) /\ e \in Reports(i)

OpenApart ==
    \A i, j \in DOMAIN reports :
        i # j /\ ClassOpen(i) /\ ClassOpen(j) => canonical[reports[i].d] # canonical[reports[j].d]

PrintedFlagged ==
    \A i \in DOMAIN printed :
        MethodOf(printed[i]) = "class" => canonical[printed[i]] \in reporting \cup reported

PrintedApart ==
    \A i, j \in DOMAIN printed :
        i # j /\ MethodOf(printed[i]) = "class" => canonical[printed[i]] # canonical[printed[j]]

FlagsInv == ReportingOpen /\ OpenApart /\ PrintedFlagged /\ PrintedApart

ReportInv == Inv /\ ReportTypeOK /\ FlagsInv

LEMMA FlagsInvSuffices ==
    ASSUME ReportTypeOK, FlagsInv
    PROVE  DetailsOnce
  <1>1. reporting = UNION {Reports(i) : i \in {j \in DOMAIN reports : ClassOpen(j)}}
    BY DEF FlagsInv, ReportingOpen
  <1> QED
    BY <1>1 DEF FlagsInv, PrintedApart, DetailsOnce, Reports, ClassOpen

(* What the graph says of a diff that exists.                               *)
LEMMA DiffFacts ==
    ASSUME Inv
    PROVE  /\ \A d \in Diff : /\ canonical[d] \in Diff
                              /\ canonical[canonical[d]] = canonical[d]
                              /\ MethodOf(canonical[d]) = MethodOf(d)
           /\ \A d \in Diff : Parts(d) \in Seq(Diff)
           /\ Len(roots) \in Nat
  <1>1. \A d \in Diff : canonical[d] \in Diff
    BY SMTT(30) DEF Inv, GraphTypeOK, RegistryTypeOK, Diff
  <1>2. CanonicalDiffs
    BY CanonicalInvSuffices DEF Inv
  <1>3. \A d \in Diff : Parts(d) \in Seq(Diff)
    BY PartsType DEF Inv
  <1>4. Len(roots) \in Nat
    BY DEF Inv, GraphTypeOK, CallsTypeOK
  <1> QED
    BY <1>1, <1>2, <1>3, <1>4 DEF CanonicalDiffs, MethodOf

LEMMA ReportsType ==
    ASSUME ReportTypeOK
    PROVE  /\ reports \in Seq(PageOn(Diff)) /\ Len(reports) \in Nat
           /\ DOMAIN reports = 1 .. Len(reports)
           /\ \A i \in DOMAIN reports : reports[i] \in PageOn(Diff) /\ reports[i].d \in Diff
           /\ printed \in Seq(Diff) /\ Len(printed) \in Nat
           /\ DOMAIN printed = 1 .. Len(printed)
           /\ \A i \in DOMAIN printed : printed[i] \in Diff
  <1>1. reports \in Seq(PageOn(Diff)) /\ printed \in Seq(Diff)
    BY DEF ReportTypeOK, PageOn, PlaceOn
  <1>2. \A i \in DOMAIN reports : reports[i] \in PageOn(Diff)
    BY <1>1
  <1>3. \A p \in PageOn(Diff) : p.d \in Diff
    BY DEF PageOn
  <1> QED
    BY <1>1, <1>2, <1>3

LEMMA PageType ==
    ASSUME ReportTypeOK, reports # <<>>
    PROVE  /\ Len(reports) \in Nat \ {0} /\ Len(reports) \in DOMAIN reports
           /\ Page = reports[Len(reports)]
           /\ Page \in PageOn(Diff) /\ Page.d \in Diff /\ Page.left \subseteq PlaceOn(Diff)
           /\ \A p \in Page.left : p.part \in Diff
  <1>1. Len(reports) \in Nat \ {0} /\ Len(reports) \in DOMAIN reports
    BY ReportsType
  <1>2. Page \in PageOn(Diff) /\ Page = reports[Len(reports)]
    BY <1>1, ReportsType DEF Page
  <1> QED
    BY <1>1, <1>2 DEF PageOn, PlaceOn

(* Steps that only move the graph or the walks.                             *)
LEMMA ReportStands ==
    ASSUME ReportInv, GraphGrows, SubjectsKept, Len(roots') = Len(roots), UNCHANGED reportVars
    PROVE  ReportTypeOK' /\ FlagsInv'
  <1>1. /\ Diff \subseteq Diff' /\ \A d \in Diff : canonical'[d] = canonical[d]
        /\ \A d \in Diff : MethodOf(d)' = MethodOf(d)
    BY DEF GraphGrows, SubjectsKept, MethodOf
  <1>2. UNCHANGED <<nextRoot, reports, reporting, reported, printed, referredTo>>
    BY DEF reportVars
  <1>3. ReportTypeOK'
    <2>1. PageOn(Diff) \subseteq PageOn(Diff')
      BY <1>1 DEF PageOn, PlaceOn
    <2>2. reports' \in Seq(PageOn(Diff')) /\ printed' \in Seq(Diff')
      BY <1>1, <1>2, <2>1, ReportsType, SeqGrows DEF ReportInv
    <2> QED
      BY <1>1, <1>2, <2>2 DEF ReportInv, ReportTypeOK, PageOn, PlaceOn
  <1>4. /\ \A i \in DOMAIN reports : reports[i].d \in Diff
        /\ \A i \in DOMAIN printed : printed[i] \in Diff
    BY ReportsType DEF ReportInv
  <1>5. \A i \in DOMAIN reports : ClassOpen(i)' = ClassOpen(i) /\ Reports(i)' = Reports(i)
    BY <1>1, <1>2, <1>4 DEF ClassOpen, Reports
  <1>6. ReportingOpen' /\ OpenApart'
    BY <1>1, <1>2, <1>4, <1>5 DEF ReportInv, FlagsInv, ReportingOpen, OpenApart
  <1>7. PrintedFlagged' /\ PrintedApart'
    BY <1>1, <1>2, <1>4 DEF ReportInv, FlagsInv, PrintedFlagged, PrintedApart
  <1> QED
    BY <1>3, <1>6, <1>7 DEF FlagsInv

-----------------------------------------------------------------------------
(* The steps of the report itself, which leave the graph and the walks.     *)
LEMMA GraphStands ==
    ASSUME UNCHANGED vars
    PROVE  /\ Diff' = Diff /\ UNCHANGED <<abi, subject, canonical, roots>>
           /\ \A d : MethodOf(d)' = MethodOf(d)
  BY DEF vars, graphVars, registry, Diff, MethodOf

LEMMA OuterPagesType ==
    ASSUME ReportTypeOK, reports # <<>>
    PROVE  /\ OuterPages \in Seq(PageOn(Diff)) /\ DOMAIN OuterPages = 1 .. Len(reports) - 1
           /\ \A i \in 1 .. Len(reports) - 1 : OuterPages[i] = reports[i]
           /\ 1 .. Len(reports) - 1 = DOMAIN reports \ {Len(reports)}
  <1> DEFINE n == Len(reports)
  <1>1. /\ n \in Nat \ {0} /\ reports \in Seq(PageOn(Diff)) /\ DOMAIN reports = 1 .. n
        /\ \A i \in 1 .. n - 1 : reports[i] \in PageOn(Diff)
    BY PageType, ReportsType
  <1>2. /\ OuterPages \in Seq(PageOn(Diff))
        /\ Len(OuterPages) = IF 1 <= n - 1 THEN n - 1 - 1 + 1 ELSE 0
        /\ \A i \in 1 .. n - 1 - 1 + 1 : OuterPages[i] = reports[1 + i - 1]
    BY <1>1, SubSeqProperties DEF OuterPages
  <1>3. \A m \in Nat \ {0} : (IF 1 <= m - 1 THEN m - 1 - 1 + 1 ELSE 0) = m - 1
    OBVIOUS
  <1> HIDE DEF n
  <1>4. Len(OuterPages) = n - 1
    BY <1>1, <1>2, <1>3, Zenon
  <1>5. ASSUME NEW i \in 1 .. n - 1
        PROVE  OuterPages[i] = reports[i]
    <2>1. 1 + i - 1 = i /\ i \in 1 .. n - 1 - 1 + 1
      BY <1>1
    <2> QED
      BY <1>2, <2>1
  <1>6. DOMAIN OuterPages = 1 .. n - 1
    BY <1>2, <1>4
  <1>7. 1 .. n - 1 = (1 .. n) \ {n}
    BY <1>1
  <1> QED
    BY <1>1, <1>2, <1>5, <1>6, <1>7 DEF n

LEMMA OnPageType ==
    ASSUME ReportTypeOK, reports # <<>>, NEW r \in PageOn(Diff)
    PROVE  /\ OnPage(r) \in Seq(PageOn(Diff)) /\ Len(OnPage(r)) = Len(reports)
           /\ DOMAIN OnPage(r) = DOMAIN reports
           /\ OnPage(r)[Len(reports)] = r
           /\ \A i \in DOMAIN reports : i # Len(reports) => OnPage(r)[i] = reports[i]
  <1>1. /\ reports \in Seq(PageOn(Diff)) /\ Len(reports) \in 1 .. Len(reports)
        /\ DOMAIN reports = 1 .. Len(reports)
    BY PageType, ReportsType
  <1>2. OnPage(r) \in Seq(PageOn(Diff)) /\ Len(OnPage(r)) = Len(reports)
    BY <1>1, SeqUpdate DEF OnPage
  <1> QED
    BY <1>1, <1>2 DEF OnPage

(* A step after which the same classes are open.                            *)
LEMMA SameOpen ==
    ASSUME ReportInv, UNCHANGED vars, UNCHANGED <<reporting, reported, printed>>,
           \A i \in DOMAIN reports :
               ClassOpen(i) => i \in DOMAIN reports' /\ reports'[i].d = reports[i].d
                               /\ reports'[i].at = "open",
           \A i \in DOMAIN reports' :
               reports'[i].at = "open" => i \in DOMAIN reports /\ reports[i].at = "open"
                                          /\ reports'[i].d = reports[i].d
    PROVE  FlagsInv'
  <1>1. /\ canonical' = canonical /\ \A d : MethodOf(d)' = MethodOf(d)
        /\ UNCHANGED <<reporting, reported, printed>>
    BY GraphStands
  <1>2. /\ \A i \in DOMAIN reports : ClassOpen(i) => i \in DOMAIN reports' /\ ClassOpen(i)'
                                                     /\ Reports(i)' = Reports(i)
        /\ \A i \in DOMAIN reports' : ClassOpen(i)' => i \in DOMAIN reports /\ ClassOpen(i)
                                                      /\ Reports(i)' = Reports(i)
                                                      /\ reports'[i].d = reports[i].d
    BY <1>1 DEF ClassOpen, Reports
  <1>3. ReportingOpen'
    BY <1>1, <1>2 DEF ReportInv, FlagsInv, ReportingOpen
  <1>4. OpenApart'
    BY <1>1, <1>2 DEF ReportInv, FlagsInv, OpenApart
  <1>5. PrintedFlagged' /\ PrintedApart'
    BY <1>1 DEF ReportInv, FlagsInv, PrintedFlagged, PrintedApart
  <1> QED
    BY <1>3, <1>4, <1>5 DEF FlagsInv

(* The type of what a step leaves.                                          *)
LEMMA ReportTypeStep ==
    ASSUME ReportInv, UNCHANGED vars,
           nextRoot' \in 1 .. Len(roots) + 1, reports' \in Seq(PageOn(Diff)),
           reporting' \subseteq Diff, reported' \subseteq Diff,
           printed' \in Seq(Diff), referredTo' \subseteq Diff
    PROVE  ReportTypeOK'
  BY GraphStands DEF ReportTypeOK, PageOn, PlaceOn

LEMMA ReportRootStep ==
    ASSUME ReportInv, ReportRoot
    PROVE  ReportTypeOK' /\ FlagsInv'
  <1> DEFINE d == roots[nextRoot]
  <1>1. /\ reports = <<>> /\ nextRoot <= Len(roots) /\ nextRoot' = nextRoot + 1
        /\ reports' = <<NewReport(d)>> \/ reports' = <<>>
        /\ UNCHANGED <<vars, reporting, reported, printed, referredTo>>
    BY DEF ReportRoot
  <1>2. nextRoot \in 1 .. Len(roots) /\ Len(roots) \in Nat
    BY <1>1, DiffFacts DEF ReportInv, ReportTypeOK
  <1>3. d \in Diff
    <2>1. roots \in Seq(0 .. Len(subject)) /\ Len(subject) \in Nat
      BY DEF ReportInv, Inv, GraphTypeOK, CallsTypeOK, RegistryTypeOK
    <2>2. d \in 0 .. Len(subject) /\ d # 0
      BY <1>2, <2>1 DEF ReportRoot, Reporting, Done, RootsComputed
    <2> QED
      BY <2>1, <2>2 DEF Diff
  <1>4. NewReport(d) \in PageOn(Diff) /\ NewReport(d).at = "begin"
    BY <1>3 DEF NewReport, Report, PageOn
  <1> HIDE DEF d
  <1>5. /\ reports' \in Seq(PageOn(Diff))
        /\ \A i \in DOMAIN reports' : reports'[i].at # "open"
    <2>1. CASE reports' = <<NewReport(d)>>
      BY <1>4, <2>1
    <2>2. CASE reports' = <<>>
      BY <2>2
    <2> QED
      BY <1>1, <2>1, <2>2
  <1>6. ReportTypeOK'
    BY <1>1, <1>2, <1>5, ReportTypeStep DEF ReportInv, ReportTypeOK
  <1>7. FlagsInv'
    BY <1>1, <1>5, SameOpen
  <1> QED
    BY <1>6, <1>7

(* The call of report() returns, and it was not printing a class.           *)
LEMMA ReturnStep ==
    ASSUME ReportInv, reports # <<>>, ~ClassOpen(Len(reports)), reports' = OuterPages,
           UNCHANGED <<vars, nextRoot, reporting, reported, printed>>,
           referredTo' \subseteq Diff
    PROVE  ReportTypeOK' /\ FlagsInv'
  <1>1. /\ reports' \in Seq(PageOn(Diff)) /\ DOMAIN reports' = DOMAIN reports \ {Len(reports)}
        /\ \A i \in DOMAIN reports' : reports'[i] = reports[i]
    BY OuterPagesType DEF ReportInv
  <1>2. ReportTypeOK'
    BY <1>1, ReportTypeStep DEF ReportInv, ReportTypeOK
  <1>3. FlagsInv'
    <2>1. \A i \in DOMAIN reports : ClassOpen(i) => i \in DOMAIN reports'
      BY <1>1
    <2> QED
      BY <1>1, <2>1, SameOpen DEF ClassOpen
  <1> QED
    BY <1>2, <1>3

LEMMA ReferToPartStep ==
    ASSUME ReportInv, NEW p, ReferToPart(p)
    PROVE  ReportTypeOK' /\ FlagsInv'
  <1> DEFINE n == Len(reports)
  <1>1. /\ reports # <<>> /\ Page.at = "open" /\ p \in Page.left
        /\ reports' = OnPage(PastPart(p))
        /\ referredTo' = referredTo \cup {p.part}
        /\ UNCHANGED <<vars, nextRoot, reporting, reported, printed>>
    BY DEF ReferToPart, AtPart
  <1>2. /\ n \in DOMAIN reports /\ Page = reports[n] /\ Page.d \in Diff
        /\ Page.left \subseteq PlaceOn(Diff) /\ p.part \in Diff
    BY <1>1, PageType DEF ReportInv
  <1>3. /\ PastPart(p) \in PageOn(Diff) /\ PastPart(p).d = Page.d /\ PastPart(p).at = "open"
    BY <1>2 DEF PastPart, Report, PageOn
  <1> HIDE DEF n
  <1>4. /\ reports' \in Seq(PageOn(Diff)) /\ DOMAIN reports' = DOMAIN reports
        /\ reports'[n] = PastPart(p)
        /\ \A i \in DOMAIN reports : i # n => reports'[i] = reports[i]
    BY <1>1, <1>3, OnPageType DEF ReportInv, n
  <1>5. ReportTypeOK'
    BY <1>1, <1>2, <1>4, ReportTypeStep DEF ReportInv, ReportTypeOK
  <1>6. \A i \in DOMAIN reports : /\ reports'[i].d = reports[i].d
                                 /\ reports'[i].at = reports[i].at
    BY <1>1, <1>2, <1>3, <1>4
  <1>7. FlagsInv'
    BY <1>1, <1>4, <1>6, SameOpen DEF ClassOpen
  <1> QED
    BY <1>5, <1>7

LEMMA ReportPartStep ==
    ASSUME ReportInv, NEW p, ReportPart(p)
    PROVE  ReportTypeOK' /\ FlagsInv'
  <1> DEFINE n == Len(reports)
             r == NewReport(p.part)
             turned == OnPage(PastPart(p))
  <1>1. /\ reports # <<>> /\ Page.at = "open" /\ p \in Page.left
        /\ reports' = Append(turned, r)
        /\ UNCHANGED <<vars, nextRoot, reporting, reported, printed, referredTo>>
    BY DEF ReportPart, AtPart
  <1>2. /\ n \in DOMAIN reports /\ Page = reports[n] /\ Page.d \in Diff
        /\ Page.left \subseteq PlaceOn(Diff) /\ p.part \in Diff
        /\ n \in Nat \ {0} /\ DOMAIN reports = 1 .. n
    BY <1>1, PageType, ReportsType DEF ReportInv
  <1>3. /\ PastPart(p) \in PageOn(Diff) /\ PastPart(p).d = Page.d /\ PastPart(p).at = "open"
        /\ r \in PageOn(Diff) /\ r.at = "begin"
    BY <1>2 DEF PastPart, NewReport, Report, PageOn
  <1> HIDE DEF r
  <1>4. /\ turned \in Seq(PageOn(Diff)) /\ Len(turned) = n /\ DOMAIN turned = DOMAIN reports
        /\ turned[n] = PastPart(p)
        /\ \A i \in DOMAIN reports : i # n => turned[i] = reports[i]
    BY <1>1, <1>3, OnPageType DEF ReportInv
  <1> HIDE DEF n, turned
  <1>5. /\ reports' \in Seq(PageOn(Diff)) /\ DOMAIN reports' = 1 .. n + 1
        /\ \A i \in DOMAIN reports : reports'[i] = turned[i]
        /\ reports'[n + 1] = r
    BY <1>1, <1>2, <1>3, <1>4, SeqAppend
  <1>6. ReportTypeOK'
    BY <1>1, <1>5, ReportTypeStep DEF ReportInv, ReportTypeOK
  <1>7. \A i \in DOMAIN reports : /\ i \in DOMAIN reports'
                                 /\ reports'[i].d = reports[i].d
                                 /\ reports'[i].at = reports[i].at
    BY <1>1, <1>2, <1>3, <1>4, <1>5
  <1>8. \A i \in DOMAIN reports' : reports'[i].at = "open" => i \in DOMAIN reports
    BY <1>2, <1>3, <1>5
  <1>9. FlagsInv'
    BY <1>1, <1>7, <1>8, SameOpen DEF ClassOpen
  <1> QED
    BY <1>6, <1>9

(* Two diffs of different classes of equivalence share no flag.             *)
LEMMA ReportsDisjoint ==
    ASSUME ReportInv, NEW i \in DOMAIN reports, NEW j \in DOMAIN reports,
           canonical[reports[i].d] # canonical[reports[j].d]
    PROVE  Reports(i) \cap Reports(j) = {}
  <1>1. reports[i].d \in Diff /\ reports[j].d \in Diff
    BY ReportsType DEF ReportInv
  <1> QED
    BY <1>1, DiffFacts DEF Reports, ReportInv

(* The report of a class is closed.                                         *)
LEMMA CloseClassStep ==
    ASSUME ReportInv, CloseReport, MethodOf(Page.d) = "class"
    PROVE  ReportTypeOK' /\ FlagsInv'
  <1> DEFINE n == Len(reports)
             flags == {Page.d, canonical[Page.d]}
  <1>1. /\ reports # <<>> /\ Page.at = "open" /\ reports' = OuterPages
        /\ reporting' = reporting \ flags /\ reported' = reported \cup flags
        /\ UNCHANGED <<vars, nextRoot, printed, referredTo>>
    BY DEF CloseReport, AtEnd
  <1>2. /\ n \in DOMAIN reports /\ Page = reports[n] /\ Page.d \in Diff /\ flags \subseteq Diff
    BY <1>1, PageType, DiffFacts DEF ReportInv
  <1>3. ClassOpen(n) /\ Reports(n) = flags
    BY <1>1, <1>2 DEF ClassOpen, Reports
  <1> HIDE DEF n, flags
  <1>4. /\ reports' \in Seq(PageOn(Diff)) /\ DOMAIN reports' = DOMAIN reports \ {n}
        /\ \A i \in DOMAIN reports' : reports'[i] = reports[i]
    BY <1>1, OuterPagesType DEF ReportInv, n
  <1>5. ReportTypeOK'
    BY <1>1, <1>2, <1>4, ReportTypeStep DEF ReportInv, ReportTypeOK
  <1>6. canonical' = canonical /\ \A d : MethodOf(d)' = MethodOf(d)
    BY <1>1, GraphStands
  <1>7. \A i \in DOMAIN reports' : /\ ClassOpen(i)' = ClassOpen(i)
                                  /\ Reports(i)' = Reports(i)
    BY <1>4, <1>6 DEF ClassOpen, Reports
  <1>8. \A i \in DOMAIN reports' : ClassOpen(i) => Reports(i) \cap flags = {}
    BY <1>2, <1>3, <1>4, ReportsDisjoint DEF ReportInv, FlagsInv, OpenApart
  <1>9. ReportingOpen'
    <2> SUFFICES ASSUME NEW e
                 PROVE  e \in reporting' <=>
                          \E i \in DOMAIN reports' : ClassOpen(i) /\ e \in Reports(i)
      BY <1>7 DEF ReportingOpen
    <2>1. e \in reporting <=> \E i \in DOMAIN reports : ClassOpen(i) /\ e \in Reports(i)
      BY DEF ReportInv, FlagsInv, ReportingOpen
    <2>2. e \in reporting' <=> e \in reporting /\ e \notin flags
      BY <1>1
    <2> QED
      BY <1>3, <1>4, <1>8, <2>1, <2>2
  <1>10. OpenApart'
    BY <1>4, <1>6, <1>7 DEF ReportInv, FlagsInv, OpenApart
  <1>11. PrintedFlagged' /\ PrintedApart'
    BY <1>1, <1>6 DEF ReportInv, FlagsInv, PrintedFlagged, PrintedApart
  <1> QED
    BY <1>5, <1>9, <1>10, <1>11 DEF FlagsInv

(* A diff is opened.                                                        *)
LEMMA OpenReportStep ==
    ASSUME ReportInv, OpenReport
    PROVE  ReportTypeOK' /\ FlagsInv'
  <1> DEFINE n == Len(reports)
             d == Page.d
             m == Len(printed)
             isClass == MethodOf(d) = "class"
             r == Report(d, "open", Listed(d))
  <1>1. /\ reports # <<>> /\ Page.at = "begin" /\ reports' = OnPage(r)
        /\ reporting' = IF isClass THEN reporting \cup {d, canonical[d]} ELSE reporting
        /\ printed' = Append(printed, d)
        /\ UNCHANGED <<vars, nextRoot, reported, referredTo>>
    BY DEF OpenReport, Begins
  <1>2. isClass => canonical[d] \notin reporting \cup reported
    BY DEF OpenReport, Guarded, Flagged, IsReporting, ReportedOnce
  <1>3. /\ n \in DOMAIN reports /\ Page = reports[n] /\ d \in Diff /\ canonical[d] \in Diff
        /\ \A e \in Diff : MethodOf(canonical[e]) = MethodOf(e)
    BY <1>1, PageType, DiffFacts DEF ReportInv
  <1>4. r \in PageOn(Diff) /\ r.d = d /\ r.at = "open"
    <2>1. Listed(d) \subseteq PlaceOn(Diff)
      <3>1. \A i \in DOMAIN Parts(d) : Place(i, Parts(d)[i]) \in PlaceOn(Diff)
        BY <1>3, DiffFacts DEF ReportInv, Place, PlaceOn
      <3> QED
        BY <3>1 DEF Listed
    <2> QED
      BY <1>3, <2>1 DEF Report, PageOn
  <1>5. canonical' = canonical /\ \A e : MethodOf(e)' = MethodOf(e)
    BY <1>1, GraphStands
  <1> HIDE DEF n, d, r, isClass
  <1>6. /\ reports' \in Seq(PageOn(Diff)) /\ DOMAIN reports' = DOMAIN reports
        /\ reports'[n] = r
        /\ \A i \in DOMAIN reports : i # n => reports'[i] = reports[i]
    BY <1>1, <1>4, OnPageType DEF ReportInv, n
  <1>7. /\ m \in Nat /\ DOMAIN printed = 1 .. m /\ DOMAIN printed' = 1 .. m + 1
        /\ printed' \in Seq(Diff)
        /\ \A i \in DOMAIN printed : printed'[i] = printed[i] /\ printed[i] \in Diff
        /\ printed'[m + 1] = d
    BY <1>1, <1>3, ReportsType, SeqAppend DEF ReportInv
  <1> HIDE DEF m
  <1>8. ReportTypeOK'
    BY <1>1, <1>3, <1>6, <1>7, ReportTypeStep DEF ReportInv, ReportTypeOK
  <1> DEFINE opened(i) == IF i = n THEN isClass ELSE ClassOpen(i)
             on(i) == IF i = n THEN d ELSE reports[i].d
  <1>9. /\ \A i \in DOMAIN reports : /\ ClassOpen(i)' = opened(i)
                                    /\ reports'[i].d = on(i)
                                    /\ Reports(i)' = {on(i), canonical[on(i)]}
        /\ ~ClassOpen(n)
    BY <1>1, <1>3, <1>4, <1>5, <1>6 DEF ClassOpen, Reports, isClass
  <1>10. /\ \A i \in DOMAIN reports : ClassOpen(i) => canonical[reports[i].d] \in reporting
         /\ \A i \in DOMAIN reports : i # n => Reports(i) = {on(i), canonical[on(i)]}
    BY DEF ReportInv, FlagsInv, ReportingOpen, Reports
  <1>11. ReportingOpen'
    <2> SUFFICES ASSUME NEW e
                 PROVE  e \in reporting' <=>
                          \E i \in DOMAIN reports : opened(i) /\ e \in {on(i), canonical[on(i)]}
      BY <1>6, <1>9 DEF ReportingOpen
    <2>1. e \in reporting <=> \E i \in DOMAIN reports : ClassOpen(i) /\ e \in Reports(i)
      BY DEF ReportInv, FlagsInv, ReportingOpen
    <2>2. e \in reporting' <=> e \in reporting \/ (isClass /\ e \in {d, canonical[d]})
      BY <1>1
    <2>3. e \in reporting => \E i \in DOMAIN reports : opened(i) /\ e \in {on(i), canonical[on(i)]}
      <3>1. SUFFICES ASSUME NEW i \in DOMAIN reports, ClassOpen(i), e \in Reports(i)
                     PROVE  opened(i) /\ e \in {on(i), canonical[on(i)]}
        BY <2>1
      <3>2. i # n
        BY <1>9, <3>1
      <3> QED
        BY <1>10, <3>1, <3>2
    <2>4. ASSUME NEW i \in DOMAIN reports, opened(i), e \in {on(i), canonical[on(i)]}, i # n
          PROVE  e \in reporting
      BY <1>10, <2>1, <2>4
    <2> QED
      BY <1>3, <2>2, <2>3, <2>4
  <1>12. OpenApart'
    <2> SUFFICES ASSUME NEW i \in DOMAIN reports, NEW j \in DOMAIN reports, i # j,
                        opened(i), opened(j)
                 PROVE  canonical[on(i)] # canonical[on(j)]
      BY <1>5, <1>6, <1>9 DEF OpenApart
    <2>1. CASE i # n /\ j # n
      BY <2>1 DEF ReportInv, FlagsInv, OpenApart
    <2>2. CASE i = n
      BY <1>2, <1>10, <2>2
    <2>3. CASE j = n
      BY <1>2, <1>10, <2>3
    <2> QED
      BY <2>1, <2>2, <2>3
  <1>13. PrintedFlagged'
    <2>1. ASSUME NEW i \in DOMAIN printed, MethodOf(printed[i]) = "class"
          PROVE  canonical[printed[i]] \in reporting' \cup reported'
      BY <1>1, <2>1 DEF ReportInv, FlagsInv, PrintedFlagged
    <2>2. isClass => canonical[d] \in reporting'
      BY <1>1
    <2> QED
      BY <1>5, <1>7, <2>1, <2>2 DEF PrintedFlagged, isClass
  <1>14. PrintedApart'
    <2>1. ASSUME NEW i \in DOMAIN printed, MethodOf(printed[i]) = "class" \/ isClass
          PROVE  canonical[printed[i]] # canonical[d]
      <3>1. CASE MethodOf(printed[i]) = "class" /\ isClass
        BY <1>2, <3>1 DEF ReportInv, FlagsInv, PrintedFlagged
      <3>2. CASE MethodOf(printed[i]) # MethodOf(d)
        BY <1>3, <1>7, <3>2
      <3> QED
        BY <2>1, <3>1, <3>2 DEF isClass
    <2> SUFFICES ASSUME NEW i \in 1 .. m + 1, NEW j \in 1 .. m + 1, i # j,
                        MethodOf(printed'[i]) = "class"
                 PROVE  canonical[printed'[i]] # canonical[printed'[j]]
      BY <1>5, <1>7 DEF PrintedApart
    <2>2. CASE i \in DOMAIN printed /\ j \in DOMAIN printed
      BY <1>7, <2>2 DEF ReportInv, FlagsInv, PrintedApart
    <2>3. CASE i = m + 1
      <3>1. j \in DOMAIN printed
        BY <1>7, <2>3
      <3> QED
        BY <1>7, <2>1, <2>3, <3>1 DEF isClass
    <2>4. CASE j = m + 1
      <3>1. i \in DOMAIN printed
        BY <1>7, <2>4
      <3> QED
        BY <1>7, <2>1, <2>4, <3>1
    <2> QED
      BY <1>7, <2>2, <2>3, <2>4
  <1> QED
    BY <1>8, <1>11, <1>12, <1>13, <1>14 DEF FlagsInv

LEMMA CloseReportStep ==
    ASSUME ReportInv, CloseReport
    PROVE  ReportTypeOK' /\ FlagsInv'
  <1>1. CASE MethodOf(Page.d) = "class"
    BY <1>1, CloseClassStep
  <1>2. CASE MethodOf(Page.d) # "class"
    <2>1. /\ reports # <<>> /\ reports' = OuterPages
          /\ UNCHANGED <<vars, nextRoot, reporting, reported, printed, referredTo>>
      BY <1>2 DEF CloseReport, AtEnd
    <2>2. ~ClassOpen(Len(reports))
      BY <1>2 DEF ClassOpen, Page
    <2> QED
      BY <2>1, <2>2, ReturnStep DEF ReportInv, ReportTypeOK
  <1> QED
    BY <1>1, <1>2

(* The report goes away from a diff that it has not opened.                 *)
LEMMA TurnAwayStep ==
    ASSUME ReportInv, SkipReport \/ ReferToItself
    PROVE  ReportTypeOK' /\ FlagsInv'
  <1>1. /\ reports # <<>> /\ Page.at = "begin" /\ reports' = OuterPages
        /\ UNCHANGED <<vars, nextRoot, reporting, reported, printed>>
        /\ referredTo' = referredTo \/ referredTo' = referredTo \cup {Page.d}
    BY DEF SkipReport, ReferToItself, Begins
  <1>2. Page.d \in Diff /\ ~ClassOpen(Len(reports))
    BY <1>1, PageType DEF ReportInv, ClassOpen
  <1>3. referredTo' \subseteq Diff
    BY <1>1, <1>2 DEF ReportInv, ReportTypeOK
  <1> QED
    BY <1>1, <1>2, <1>3, ReturnStep

-----------------------------------------------------------------------------
LEMMA ReportInvInit == ReportInit => ReportInv
  <1> SUFFICES ASSUME ReportInit PROVE ReportInv
    OBVIOUS
  <1>1. Inv
    BY InvInit DEF ReportInit
  <1>2. ReportTypeOK
    <2>1. Len(roots) \in Nat
      BY <1>1, DiffFacts
    <2> QED
      BY <2>1 DEF ReportInit, ReportTypeOK
  <1>3. FlagsInv
    BY DEF ReportInit, FlagsInv, ReportingOpen, OpenApart, PrintedFlagged, PrintedApart
  <1> QED
    BY <1>1, <1>2, <1>3 DEF ReportInv

(* The steps of the graph go on under the report.                           *)
LEMMA GraphUnderReport ==
    ASSUME ReportInv, [GraphStep]_graphVars, UNCHANGED reportVars
    PROVE  ReportTypeOK' /\ FlagsInv'
  <1>1. GraphGrows /\ SubjectsKept
    BY GraphStepGrows, GraphStepKeepsSubjects DEF ReportInv, Inv
  <1>2. GraphTypeOK' /\ GraphTypeOK
    BY GraphTypeInductive DEF ReportInv, Inv
  <1>3. Len(roots') = Len(roots)
    BY <1>1, <1>2 DEF GraphTypeOK, CallsTypeOK, SubjectsKept
  <1> QED
    BY <1>1, <1>3, ReportStands

(* A type that is only compared for the report.                             *)
LEMMA ReportAsksTypeStep ==
    ASSUME ReportInv, ReportAsksType
    PROVE  ReportInv'
  <1>1. Page.d \in Diff /\ AskType(Page.d) /\ UNCHANGED <<walkVars, reportVars>>
    BY PageType DEF ReportAsksType, Begins, ReportInv
  <1>2. [GraphStep]_graphVars
    BY <1>1 DEF GraphStep, Finish
  <1>3. GraphTypeOK' /\ CanonicalInv' /\ GraphGrows /\ AdoptionInv'
    BY <1>2, GraphTypeInductive, CanonicalInductive, GraphStepGrows DEF ReportInv, Inv
  <1>4. WalkTypeOK' /\ WalkInv' /\ FlagsMatch'
    BY <1>1, <1>3, WalkStands DEF ReportInv, walkVars
  <1>5. ScheduleInv'
    BY <1>1 DEF ReportInv, Inv, ScheduleInv, ScheduleTypeOK, walkVars, AskType, Ask
  <1>6. MarksTypeOK'
    <2>1. Diff \X Category \subseteq Diff' \X Category
      BY <1>3 DEF GraphGrows
    <2> QED
      BY <1>1, <2>1 DEF ReportInv, Inv, MarksTypeOK, walkVars, marks
  <1>7. ReportTypeOK' /\ FlagsInv'
    BY <1>1, <1>2, GraphUnderReport
  <1> QED
    BY <1>3, <1>4, <1>5, <1>6, <1>7 DEF ReportInv, Inv

LEMMA ReportInvInductive ==
    ASSUME ReportInv, [ReportNext]_allVars
    PROVE  ReportInv'
  <1>1. ASSUME [Next]_vars, UNCHANGED reportVars
        PROVE  ReportInv'
    <2>1. Inv'
      BY <1>1, InvInductive DEF ReportInv
    <2>2. [GraphStep]_graphVars
      BY <1>1, NextIsGraphStep DEF ReportInv, Inv
    <2> QED
      BY <1>1, <2>1, <2>2, GraphUnderReport DEF ReportInv
  <1>2. ASSUME UNCHANGED vars, ReportTypeOK', FlagsInv'
        PROVE  ReportInv'
    BY <1>2, InvInductive DEF ReportInv
  <1>3. CASE Categorize \/ UNCHANGED allVars
    BY <1>1, <1>3 DEF Categorize, allVars
  <1>4. CASE ReportAsksType
    BY <1>4, ReportAsksTypeStep
  <1>5. CASE ReportRoot
    BY <1>2, <1>5, ReportRootStep DEF ReportRoot
  <1>6. CASE SkipReport \/ ReferToItself
    BY <1>2, <1>6, TurnAwayStep DEF SkipReport, ReferToItself
  <1>7. CASE OpenReport
    BY <1>2, <1>7, OpenReportStep DEF OpenReport
  <1>8. ASSUME NEW p, ReferToPart(p)
        PROVE  ReportInv'
    BY <1>2, <1>8, ReferToPartStep DEF ReferToPart
  <1>9. ASSUME NEW p, ReportPart(p)
        PROVE  ReportInv'
    BY <1>2, <1>9, ReportPartStep DEF ReportPart
  <1>10. CASE CloseReport
    BY <1>2, <1>10, CloseReportStep DEF CloseReport
  <1> QED
    BY <1>3, <1>4, <1>5, <1>6, <1>7, <1>8, <1>9, <1>10 DEF ReportNext, WriteReport

(* The details of a class are printed once, and currently_reporting_ is set *)
(* on the classes that are being printed and on no others: report() prints  *)
(* no class within itself, however the types refer to each other and        *)
(* whatever the graph still gets while it is printed.                       *)
THEOREM DetailsPrintedOnce == ReportSpec => []DetailsOnce
  <1>1. ReportInv => DetailsOnce
    BY FlagsInvSuffices DEF ReportInv
  <1> QED
    BY <1>1, ReportInvInit, ReportInvInductive, PTL DEF ReportSpec

(* The report refers to diffs that exist, and leaves the graph and the      *)
(* categories well formed.                                                  *)
THEOREM ReportedGraphTypeCorrect == ReportSpec => []TypeOK
  <1>1. ReportInv => TypeOK
    BY DEF ReportInv, Inv, TypeOK, ScheduleInv
  <1> QED
    BY <1>1, ReportInvInit, ReportInvInductive, PTL DEF ReportSpec

(* The flags of diff::traverse() are those of the walks when a report is    *)
(* written after them, too.                                                 *)
THEOREM ReportKeepsTraversals == ReportSpec => []TraversingMatchesWalk
  <1>1. ReportInv => TraversingMatchesWalk
    BY FlagsOfWalk DEF ReportInv, Inv
  <1> QED
    BY <1>1, ReportInvInit, ReportInvInductive, PTL DEF ReportSpec

(* What the walks and the report do to the graph is what module DiffGraph   *)
(* allows: a report asks for the diff of a type only, and changes no other  *)
(* diff.  So what is proved of that module is true of a graph that is being *)
(* printed.                                                                 *)
THEOREM ReportBuildsTheGraph == ReportSpec => GraphIsBuilt
  <1>1. ReportInit => GraphInit
    BY DEF ReportInit, Init
  <1>2. ReportInv /\ [ReportNext]_allVars => [GraphNext]_graphVars
    <2> SUFFICES ASSUME ReportInv, [ReportNext]_allVars
                 PROVE  [GraphNext]_graphVars
      OBVIOUS
    <2>1. CASE [Next]_vars
      BY <2>1, WalkStepBuildsGraph DEF ReportInv
    <2>2. CASE ReportAsksType
      <3>1. Page.d \in Diff /\ AskType(Page.d)
        BY <2>2, PageType DEF ReportAsksType, Begins, ReportInv
      <3> QED
        BY <3>1 DEF GraphNext
    <2>3. CASE UNCHANGED vars
      BY <2>1, <2>3
    <2> QED
      BY <2>1, <2>2, <2>3 DEF ReportNext, Categorize, WriteReport, allVars, ReportRoot,
         SkipReport, ReferToItself, OpenReport, ReferToPart, ReportPart, CloseReport
  <1> QED
    BY <1>1, <1>2, ReportInvInit, ReportInvInductive, PTL DEF ReportSpec, GraphIsBuilt

-----------------------------------------------------------------------------
(* What the walks were shown to keep true stays so under the report.        *)
LEMMA MarksUnderReport ==
    ASSUME ReportInv, MarksInv, [ReportNext]_allVars
    PROVE  MarksInv'
  <1>1. CASE [Next]_vars
    BY <1>1, MarksInvInductive
  <1>2. CASE ReportAsksType
    <2>1. Page.d \in Diff /\ AskType(Page.d) /\ UNCHANGED <<walkVars, reportVars>>
      BY <1>2, PageType DEF ReportAsksType, Begins, ReportInv
    <2>2. [GraphStep]_graphVars
      BY <2>1 DEF GraphStep, Finish
    <2>3. LossInv' /\ SubjectsKept /\ (\A d \in Diff : finished[d] => finished'[d])
      BY <2>2, LossInductive, GraphStepKeepsSubjects, GraphStepKeepsFinished DEF MarksInv, Inv
    <2>4. Inv'
      BY <1>2, ReportAsksTypeStep DEF ReportInv
    <2>5. WalkFinishes'
      BY <2>1, <2>3, WalkFrames DEF MarksInv, WalkFinishes, walkVars
    <2>6. ReasonsInv'
      BY <2>1, <2>3, ReasonsGrow DEF MarksInv, Inv, SubjectsKept, walkVars
    <2> QED
      BY <2>3, <2>4, <2>5, <2>6 DEF MarksInv
  <1> QED
    BY <1>1, <1>2 DEF ReportNext, WriteReport, Categorize, allVars, ReportRoot,
       SkipReport, ReferToItself, OpenReport, ReferToPart, ReportPart, CloseReport

-----------------------------------------------------------------------------
(* What the flags cut out.  A diff is handled when it is printed, or its    *)
(* class of equivalence is; it is awaited when a page has not come to it.   *)
Printed == Members(printed)

Handled(d) ==
    \/ d \in Printed
    \/ MethodOf(d) = "class" /\ \E e \in Printed : canonical[e] = canonical[d]

AwaitedAt(i, d) ==
    \/ reports[i].at = "begin" /\ reports[i].d = d
    \/ reports[i].at = "open" /\ \E p \in reports[i].left : p.part = d

Awaited(d) == \E i \in DOMAIN reports : AwaitedAt(i, d)

(* The diffs of X include the roots and, with one whose parts are settled,  *)
(* the parts that are listed under it.                                      *)
Covers(X) ==
    /\ \A r \in Members(roots) : ToBeReported(r) => r \in X
    /\ \A d \in X : Settled(d) => \A c \in ListedParts(d) : ToBeReported(c) => c \in X

PrintedInv == \A d \in Printed : ToBeReported(d) /\ Settled(d)

PagesInv ==
    \A i \in DOMAIN reports :
        reports[i].at = "open" => /\ reports[i].d \in Printed
                                  /\ reports[i].left \subseteq Listed(reports[i].d)

OnlyNeeded ==
    \A X \in SUBSET Diff : Covers(X) =>
        /\ Printed \subseteq X
        /\ \A i \in DOMAIN reports : ToBeReported(reports[i].d) => reports[i].d \in X

PartsHandled ==
    \A d \in Printed : \A c \in ListedParts(d) : ToBeReported(c) => Handled(c) \/ Awaited(c)

RootsHandled ==
    \A i \in DOMAIN roots :
        i < nextRoot /\ ToBeReported(roots[i]) => Handled(roots[i]) \/ Awaited(roots[i])

FlaggedPrinted ==
    \A f \in reporting \cup reported :
        MethodOf(f) = "class" /\ \E e \in Printed : canonical[e] = canonical[f]

ReferredPrinted == \A f \in referredTo : \E e \in Printed : subject[e] = subject[f]

(* The report has not begun, or the walks are over.                         *)
NotBegun ==
    /\ nextRoot = 1 /\ reports = <<>> /\ printed = <<>>
    /\ reporting = {} /\ reported = {} /\ referredTo = {}

PagesOK == PrintedInv /\ PagesInv /\ OnlyNeeded /\ PartsHandled /\ RootsHandled
           /\ FlaggedPrinted /\ ReferredPrinted

CutInv == ReportInv /\ MarksInv /\ PagesOK /\ (NotBegun \/ Done)

LEMMA NotBegunSuffices ==
    ASSUME NotBegun, ReportInv
    PROVE  PagesOK
  <1>1. Printed = {} /\ DOMAIN reports = {} /\ \A i \in DOMAIN roots : ~(i < nextRoot)
    <2>1. \A i \in DOMAIN roots : i \in Nat \ {0}
      BY DEF ReportInv, Inv, GraphTypeOK, CallsTypeOK
    <2> QED
      BY <2>1, NoMembers DEF NotBegun, Printed
  <1> QED
    BY <1>1 DEF NotBegun, PagesOK, PrintedInv, PagesInv, OnlyNeeded, PartsHandled, RootsHandled,
       FlaggedPrinted, ReferredPrinted

(* A diff's class of equivalence is flagged: it was printed.                *)
LEMMA FlaggedHandled ==
    ASSUME CutInv, NEW d \in Diff, Flagged(d)
    PROVE  Handled(d) /\ \E e \in Printed : subject[e] = subject[d]
  <1>1. /\ canonical[d] \in Diff /\ canonical[canonical[d]] = canonical[d]
        /\ MethodOf(canonical[d]) = MethodOf(d)
    BY DiffFacts DEF CutInv, ReportInv
  <1>2. MethodOf(d) = "class"
    BY <1>1 DEF CutInv, PagesOK, FlaggedPrinted, Flagged, IsReporting, ReportedOnce
  <1>3. PICK e \in Printed : canonical[e] = canonical[d]
    BY <1>1 DEF CutInv, PagesOK, FlaggedPrinted, Flagged, IsReporting, ReportedOnce
  <1>4. e \in Diff
    BY ReportsType DEF CutInv, ReportInv, Printed, Members
  <1>5. subject[e] = subject[d]
    BY <1>3, <1>4, CanonicalSubject DEF CutInv, ReportInv
  <1> QED
    BY <1>2, <1>3, <1>5 DEF Handled

(* What a report goes into is among the diffs.                              *)
LEMMA ListedType ==
    ASSUME Inv, NEW d \in Diff
    PROVE  /\ Listed(d) \subseteq PlaceOn(Diff)
           /\ ListedParts(d) \subseteq Members(Parts(d)) /\ ListedParts(d) \subseteq Diff
  <1>1. Parts(d) \in Seq(Diff)
    BY DiffFacts
  <1>2. \A i \in DOMAIN Parts(d) : /\ Place(i, Parts(d)[i]) \in PlaceOn(Diff)
                                   /\ Place(i, Parts(d)[i]).part = Parts(d)[i]
                                   /\ Parts(d)[i] \in Diff
    BY <1>1 DEF Place, PlaceOn
  <1> QED
    BY <1>2 DEF Listed, ListedParts, Members

(* Once the walks are over, what is to be reported stays so, and so do the  *)
(* parts that are listed under a diff whose parts are settled.              *)
LEMMA ReportableKept ==
    ASSUME SubjectsKept, UNCHANGED marks, NEW d \in Diff
    PROVE  ToBeReported(d)' = ToBeReported(d)
  <1>1. PICK s : s = subject[d]
    OBVIOUS
  <1>2. Differs(s)' = Differs(s)
    BY ChangesKept DEF SubjectsKept
  <1>3. HasChanges(d)' = HasChanges(d)
    <2>1. HasChanges(d)' = Differs(s)'
      BY <1>1 DEF HasChanges, Differs, SubjectsKept
    <2> QED
      BY <1>1, <1>2, <2>1 DEF HasChanges
  <1>4. CategoryOf(d)' = CategoryOf(d) /\ Allowed' = Allowed
    BY DEF CategoryOf, marks, Allowed, SubjectsKept
  <1>5. FilteredOut(CategoryOf(d))' = FilteredOut(CategoryOf(d))
    BY <1>4 DEF FilteredOut, SubjectsKept
  <1> QED
    BY <1>3, <1>5 DEF ToBeReported

LEMMA ListedKept ==
    ASSUME Inv, SubjectsKept, UNCHANGED marks, NEW d \in Diff, Parts(d)' = Parts(d)
    PROVE  Listed(d)' = Listed(d) /\ ListedParts(d)' = ListedParts(d)
  <1>1. PICK P : P = {Place(i, Parts(d)[i]) : i \in DOMAIN Parts(d)}
    OBVIOUS
  <1>2. P = {Place(i, Parts(d)[i]) : i \in DOMAIN Parts(d)}'
    BY <1>1 DEF Place
  <1>3. \A p \in P : ToBeReported(p.part)' = ToBeReported(p.part)
    <2>1. \A i \in DOMAIN Parts(d) : Parts(d)[i] \in Diff
      BY DiffFacts
    <2>2. \A p \in P : p.part \in Diff
      BY <1>1, <2>1 DEF Place
    <2> QED
      BY <2>2, ReportableKept
  <1>4. MethodOf(d)' = MethodOf(d) /\ RenamedIn(abi', subject'[d]) = RenamedIn(abi, subject[d])
    BY DEF MethodOf, SubjectsKept
  <1>5. Listed(d)' = Listed(d)
    BY <1>1, <1>2, <1>3, <1>4 DEF Listed
  <1> QED
    BY <1>5 DEF ListedParts

(* The graph grows under the report: for the type of a variable, once the   *)
(* walks are over.                                                          *)
LEMMA PagesUnderGraph ==
    ASSUME CutInv, [GraphStep]_graphVars, UNCHANGED <<marks, reportVars>>, RootsComputed
    PROVE  PagesOK'
  <1> USE DEF CutInv, PagesOK
  <1>1. /\ SubjectsKept /\ GraphGrows /\ SettledKept
        /\ \A d \in Diff : canonical'[d] = canonical[d] /\ d \in Diff'
    BY GraphStepKeepsSubjects, GraphStepGrows, SettledStay
       DEF ReportInv, Inv, GraphGrows, MarksInv, LossInv, GraphInv
  <1>2. UNCHANGED <<nextRoot, reports, reporting, reported, printed, referredTo>>
    BY DEF reportVars
  <1>3. /\ Printed \subseteq Diff /\ \A i \in DOMAIN reports : reports[i].d \in Diff
        /\ reporting \cup reported \subseteq Diff /\ referredTo \subseteq Diff
    BY ReportsType DEF ReportInv, ReportTypeOK, Printed, Members
  <1>4. Printed' = Printed /\ \A c : Awaited(c)' = Awaited(c)
    BY <1>2 DEF Printed, Awaited, AwaitedAt
  <1>5. \A d \in Diff : /\ ToBeReported(d)' = ToBeReported(d)
                        /\ MethodOf(d)' = MethodOf(d)
    BY <1>1, ReportableKept DEF SubjectsKept, MethodOf
  <1>6. \A d \in Diff : Settled(d) => /\ Settled(d)' /\ Listed(d)' = Listed(d)
                                      /\ ListedParts(d)' = ListedParts(d)
    BY <1>1, ListedKept DEF SettledKept, ReportInv
  <1>7. \A d \in Diff : Handled(d) => Handled(d)'
    BY <1>1, <1>3, <1>4, <1>5 DEF Handled
  <1>8. \A d \in Diff : ListedParts(d) \subseteq Diff
    BY ListedType DEF ReportInv
  <1>9. DOMAIN roots' = DOMAIN roots /\ \A i \in DOMAIN roots : roots'[i] = roots[i]
    BY <1>1 DEF GraphGrows, RootsComputed
  <1>10. \A i \in DOMAIN roots : roots[i] \in Diff
    <2>1. \A i \in DOMAIN roots : roots[i] \in 0 .. Len(subject)
      BY DEF ReportInv, Inv, GraphTypeOK, CallsTypeOK
    <2> QED
      BY <2>1 DEF RootsComputed, Diff, ReportInv, Inv, GraphTypeOK, RegistryTypeOK
  <1>11. PrintedInv' /\ PagesInv'
    BY <1>2, <1>3, <1>4, <1>5, <1>6 DEF PrintedInv, PagesInv
  <1>12. OnlyNeeded'
    <2> SUFFICES ASSUME NEW X \in SUBSET Diff', Covers(X)'
                 PROVE  /\ Printed \subseteq X
                        /\ \A i \in DOMAIN reports :
                             ToBeReported(reports[i].d) => reports[i].d \in X
      BY <1>2, <1>3, <1>4, <1>5 DEF OnlyNeeded
    <2>1. PICK Y \in SUBSET Diff : Y = X \cap Diff
      OBVIOUS
    <2>2. ASSUME NEW r \in Members(roots), ToBeReported(r)
          PROVE  r \in Y
      <3>1. r \in Diff /\ r \in Members(roots')
        BY <1>9, <1>10, <2>2 DEF Members
      <3> QED
        BY <1>5, <2>1, <2>2, <3>1 DEF Covers
    <2>3. ASSUME NEW d \in Y, Settled(d), NEW c \in ListedParts(d), ToBeReported(c)
          PROVE  c \in Y
      <3>1. d \in Diff /\ c \in Diff /\ d \in X
        BY <1>8, <2>1
      <3> QED
        BY <1>5, <1>6, <2>1, <2>3, <3>1 DEF Covers
    <2>4. Covers(Y)
      BY <2>2, <2>3 DEF Covers
    <2> QED
      BY <2>1, <2>4 DEF OnlyNeeded
  <1>13. PartsHandled' /\ RootsHandled'
    <2>1. ASSUME NEW d \in Printed, NEW c \in ListedParts(d), ToBeReported(c)
          PROVE  Handled(c)' \/ Awaited(c)
      BY <1>3, <1>7, <1>8, <2>1 DEF PartsHandled
    <2>2. PartsHandled'
      BY <1>3, <1>4, <1>5, <1>6, <1>8, <2>1 DEF PartsHandled, PrintedInv
    <2>3. RootsHandled'
      BY <1>2, <1>4, <1>5, <1>7, <1>9, <1>10 DEF RootsHandled
    <2> QED
      BY <2>2, <2>3
  <1>14. FlaggedPrinted' /\ ReferredPrinted'
    BY <1>1, <1>2, <1>3, <1>4, <1>5 DEF FlaggedPrinted, ReferredPrinted, SubjectsKept
  <1> QED
    BY <1>11, <1>12, <1>13, <1>14

-----------------------------------------------------------------------------
(* The steps of the report leave the diffs and the marks.                   *)
LEMMA DiffsStand ==
    ASSUME UNCHANGED vars
    PROVE  /\ \A d : /\ ToBeReported(d)' = ToBeReported(d) /\ Settled(d)' = Settled(d)
                     /\ Listed(d)' = Listed(d) /\ ListedParts(d)' = ListedParts(d)
                     /\ MethodOf(d)' = MethodOf(d)
           /\ \A X : Covers(X)' = Covers(X)
           /\ UNCHANGED <<abi, subject, canonical, roots, Diff>>
  <1>1. UNCHANGED <<abi, subject, canonical, roots, parts, calls, category, localCategory>>
    BY DEF vars, graphVars, registry, walkVars, marks
  <1>2. ASSUME NEW d
        PROVE  ToBeReported(d)' = ToBeReported(d)
    <2>1. HasChanges(d)' = HasChanges(d)
      <3>1. PICK s : s = subject[d]
        OBVIOUS
      <3>2. Differs(s)' = Differs(s)
        BY <1>1, ChangesKept
      <3>3. HasChanges(d)' = Differs(s)'
        BY <1>1, <3>1 DEF HasChanges, Differs
      <3> QED
        BY <3>1, <3>2, <3>3 DEF HasChanges
    <2>2. FilteredOut(CategoryOf(d))' = FilteredOut(CategoryOf(d))
      BY <1>1 DEF FilteredOut, CategoryOf, Allowed
    <2> QED
      BY <2>1, <2>2 DEF ToBeReported
  <1>3. ASSUME NEW d
        PROVE  /\ Settled(d)' = Settled(d) /\ MethodOf(d)' = MethodOf(d)
               /\ Parts(d)' = Parts(d)
    BY <1>1 DEF Settled, AwaitsType, Kind, MethodOf, Parts
  <1>4. ASSUME NEW d
        PROVE  Listed(d)' = Listed(d)
    <2>1. PICK P : P = {Place(i, Parts(d)[i]) : i \in DOMAIN Parts(d)}
      OBVIOUS
    <2>2. P = {Place(i, Parts(d)[i]) : i \in DOMAIN Parts(d)}'
      BY <1>3, <2>1 DEF Place
    <2>3. \A p \in P : ToBeReported(p.part)' = ToBeReported(p.part)
      BY <1>2
    <2>4. MethodOf(d)' = MethodOf(d) /\ RenamedIn(abi', subject'[d]) = RenamedIn(abi, subject[d])
      BY <1>1, <1>3
    <2> QED
      BY <2>1, <2>2, <2>3, <2>4 DEF Listed
  <1>5. \A d : ListedParts(d)' = ListedParts(d)
    BY <1>4 DEF ListedParts
  <1>6. \A X : Covers(X)' = Covers(X)
    BY <1>1, <1>2, <1>3, <1>5 DEF Covers
  <1>7. Diff' = Diff
    BY <1>1 DEF Diff
  <1> QED
    BY <1>1, <1>2, <1>3, <1>4, <1>5, <1>6, <1>7

(* A step of the report that prints only what a page has come to, opens a   *)
(* page only for a root or for a part listed under a printed diff, and      *)
(* drops nothing that is awaited before it is handled.                      *)
NewPrinted(d) ==
    /\ ToBeReported(d) /\ Settled(d)
    /\ \E i \in DOMAIN reports : reports[i].d = d
    /\ \A c \in ListedParts(d) : Awaited(c)'

PageOK(i) ==
    /\ reports'[i].at = "open" => /\ reports'[i].d \in Members(printed')
                                  /\ reports'[i].left \subseteq Listed(reports'[i].d)
    /\ \/ \E j \in DOMAIN reports : reports'[i].d = reports[j].d
       \/ \E e \in Printed : reports'[i].d \in ListedParts(e)
       \/ reports'[i].d \in Members(roots)

NothingDropped == \A c : ToBeReported(c) /\ Awaited(c) => Handled(c)' \/ Awaited(c)'

RootTurn ==
    \/ nextRoot' = nextRoot
    \/ /\ nextRoot' = nextRoot + 1
       /\ \A r : r = roots[nextRoot] /\ ToBeReported(r) => Awaited(r)'

LEMMA PagesStep ==
    ASSUME CutInv, UNCHANGED vars,
           Printed \subseteq Printed', Printed' \subseteq Diff,
           \A d \in Printed' \ Printed : NewPrinted(d),
           \A i \in DOMAIN reports' : PageOK(i),
           NothingDropped, RootTurn,
           \A f \in (reporting \cup reported)' :
               f \notin reporting \cup reported =>
                   MethodOf(f) = "class" /\ \E e \in Printed' : canonical[e] = canonical[f],
           \A f \in referredTo' :
               f \notin referredTo => \E e \in Printed' : subject[e] = subject[f]
    PROVE  PagesOK'
  <1> USE DEF CutInv, PagesOK
  <1>1. /\ \A d : /\ ToBeReported(d)' = ToBeReported(d) /\ Settled(d)' = Settled(d)
                  /\ Listed(d)' = Listed(d) /\ ListedParts(d)' = ListedParts(d)
                  /\ MethodOf(d)' = MethodOf(d)
        /\ \A X : Covers(X)' = Covers(X)
        /\ UNCHANGED <<abi, subject, canonical, roots, Diff>>
    BY DiffsStand
  <1>2. \A d : Handled(d) => Handled(d)'
    BY <1>1 DEF Handled
  <1>3. PrintedInv'
    BY <1>1 DEF PrintedInv, NewPrinted
  <1>4. PagesInv'
    BY <1>1 DEF PagesInv, PageOK, Printed
  <1>5. OnlyNeeded'
    <2> SUFFICES ASSUME NEW X \in SUBSET Diff, Covers(X)
                 PROVE  /\ Printed' \subseteq X
                        /\ \A i \in DOMAIN reports' :
                             ToBeReported(reports'[i].d) => reports'[i].d \in X
      BY <1>1 DEF OnlyNeeded
    <2>1. /\ Printed \subseteq X
          /\ \A i \in DOMAIN reports : ToBeReported(reports[i].d) => reports[i].d \in X
      BY DEF OnlyNeeded
    <2>2. Printed' \subseteq X
      BY <2>1 DEF NewPrinted
    <2>3. ASSUME NEW i \in DOMAIN reports', ToBeReported(reports'[i].d)
          PROVE  reports'[i].d \in X
      <3>1. PageOK(i)
        OBVIOUS
      <3>2. ASSUME NEW e \in Printed, reports'[i].d \in ListedParts(e)
            PROVE  reports'[i].d \in X
        <4>1. e \in X /\ Settled(e)
          BY <2>1 DEF PrintedInv
        <4> QED
          BY <2>3, <3>2, <4>1 DEF Covers
      <3> QED
        BY <2>1, <2>3, <3>1, <3>2 DEF PageOK, Covers
    <2> QED
      BY <2>2, <2>3
  <1>6. PartsHandled'
    <2> SUFFICES ASSUME NEW d \in Printed', NEW c \in ListedParts(d), ToBeReported(c)
                 PROVE  Handled(c)' \/ Awaited(c)'
      BY <1>1 DEF PartsHandled
    <2>1. CASE d \in Printed
      BY <1>2, <2>1 DEF PartsHandled, NothingDropped
    <2>2. CASE d \notin Printed
      BY <2>2 DEF NewPrinted
    <2> QED
      BY <2>1, <2>2
  <1>7. RootsHandled'
    <2> SUFFICES ASSUME NEW i \in DOMAIN roots, i < nextRoot', NEW r, r = roots[i],
                        ToBeReported(r)
                 PROVE  Handled(r)' \/ Awaited(r)'
      BY <1>1 DEF RootsHandled
    <2>1. CASE i < nextRoot
      BY <1>2, <2>1 DEF RootsHandled, NothingDropped
    <2>2. CASE ~(i < nextRoot)
      <3>1. i \in Nat /\ nextRoot \in Nat
        <4>1. roots \in Seq(0 .. Len(subject)) /\ Len(roots) \in Nat
          BY DiffFacts DEF ReportInv, Inv, GraphTypeOK, CallsTypeOK
        <4>2. nextRoot \in 1 .. Len(roots) + 1
          BY DEF ReportInv, ReportTypeOK
        <4>3. DOMAIN roots = 1 .. Len(roots)
          BY <4>1
        <4> QED
          BY <4>1, <4>2, <4>3
      <3>2. i = nextRoot /\ nextRoot' = nextRoot + 1
        BY <2>2, <3>1 DEF RootTurn
      <3> QED
        BY <3>2 DEF RootTurn
    <2> QED
      BY <2>1, <2>2
  <1>8. FlaggedPrinted'
    BY <1>1 DEF FlaggedPrinted
  <1>9. ReferredPrinted'
    BY <1>1 DEF ReferredPrinted
  <1> QED
    BY <1>3, <1>4, <1>5, <1>6, <1>7, <1>8, <1>9

LEMMA RootPages ==
    ASSUME CutInv, ReportRoot
    PROVE  PagesOK'
  <1> DEFINE d == roots[nextRoot]
  <1>1. /\ reports = <<>> /\ nextRoot' = nextRoot + 1
        /\ reports' = IF ToBeReported(d) THEN <<NewReport(d)>> ELSE <<>>
        /\ UNCHANGED <<vars, reporting, reported, printed, referredTo>>
    BY DEF ReportRoot
  <1>2. d \in Members(roots)
    <2>1. nextRoot \in DOMAIN roots
      BY DiffFacts DEF ReportRoot, CutInv, ReportInv, ReportTypeOK, Inv, GraphTypeOK, CallsTypeOK
    <2> QED
      BY <2>1 DEF Members
  <1>3. NewReport(d).d = d /\ NewReport(d).at = "begin"
    BY DEF NewReport, Report
  <1> HIDE DEF d
  <1>4. \A i \in DOMAIN reports' : reports'[i].d = d /\ reports'[i].at = "begin"
    BY <1>1, <1>3
  <1>5. NothingDropped
    BY <1>1 DEF NothingDropped, Awaited
  <1>6. RootTurn
    <2> SUFFICES ASSUME NEW r, r = d, ToBeReported(r)
                 PROVE  Awaited(r)'
      BY <1>1 DEF RootTurn, d
    <2>1. 1 \in DOMAIN reports' /\ reports'[1].d = r /\ reports'[1].at = "begin"
      BY <1>1, <1>3
    <2> QED
      BY <2>1 DEF Awaited, AwaitedAt
  <1>7. \A i \in DOMAIN reports' : PageOK(i)
    BY <1>2, <1>4 DEF PageOK
  <1>8. Printed' = Printed /\ Printed \subseteq Diff
    BY <1>1, ReportsType DEF Printed, Members, CutInv, ReportInv
  <1> QED
    BY <1>1, <1>5, <1>6, <1>7, <1>8, PagesStep

(* The page is left with nothing on it that is awaited and not handled.     *)
LEMMA ReturnPages ==
    ASSUME CutInv, reports # <<>>, reports' = OuterPages,
           UNCHANGED <<vars, nextRoot, printed>>,
           \A c : ToBeReported(c) /\ AwaitedAt(Len(reports), c) => Handled(c),
           \A f \in (reporting \cup reported)' :
               f \notin reporting \cup reported =>
                   MethodOf(f) = "class" /\ \E e \in Printed : canonical[e] = canonical[f],
           \A f \in referredTo' :
               f \notin referredTo => \E e \in Printed : subject[e] = subject[f]
    PROVE  PagesOK'
  <1> DEFINE n == Len(reports)
  <1>1. /\ DOMAIN reports' = DOMAIN reports \ {n}
        /\ \A i \in DOMAIN reports' : reports'[i] = reports[i]
    BY OuterPagesType DEF CutInv, ReportInv
  <1>2. Printed' = Printed /\ Printed \subseteq Diff
    BY ReportsType DEF Printed, Members, CutInv, ReportInv
  <1>3. \A c : Handled(c) => Handled(c)'
    BY <1>2, DiffsStand DEF Handled
  <1>4. NothingDropped
    <2> SUFFICES ASSUME NEW c, ToBeReported(c), NEW i \in DOMAIN reports, AwaitedAt(i, c)
                 PROVE  Handled(c)' \/ Awaited(c)'
      BY DEF NothingDropped, Awaited
    <2>1. CASE i = n
      BY <1>3, <2>1
    <2>2. CASE i # n
      BY <1>1, <2>2 DEF Awaited, AwaitedAt
    <2> QED
      BY <2>1, <2>2
  <1>5. \A i \in DOMAIN reports' : PageOK(i)
    BY <1>1, <1>2 DEF PageOK, CutInv, PagesOK, PagesInv, Printed
  <1> QED
    BY <1>2, <1>4, <1>5, PagesStep DEF RootTurn

LEMMA TurnAwayPages ==
    ASSUME CutInv, SkipReport \/ ReferToItself
    PROVE  PagesOK'
  <1> DEFINE d == Page.d
  <1>1. /\ reports # <<>> /\ Page.at = "begin" /\ reports' = OuterPages
        /\ UNCHANGED <<vars, nextRoot, reporting, reported, printed>>
    BY DEF SkipReport, ReferToItself, Begins
  <1>2. d \in Diff /\ Page = reports[Len(reports)]
    BY <1>1, PageType DEF CutInv, ReportInv
  <1>3. CASE SkipReport
    <2>1. ~ToBeReported(d) /\ referredTo' = referredTo
      BY <1>3 DEF SkipReport
    <2>2. \A c : AwaitedAt(Len(reports), c) => c = d
      BY <1>1, <1>2 DEF AwaitedAt
    <2> QED
      BY <1>1, <2>1, <2>2, ReturnPages
  <1>4. CASE ReferToItself
    <2>1. Flagged(d) /\ referredTo' = referredTo \cup {d}
      BY <1>4 DEF ReferToItself
    <2>2. \A c : AwaitedAt(Len(reports), c) => c = d
      BY <1>1, <1>2 DEF AwaitedAt
    <2>3. Handled(d) /\ \E e \in Printed : subject[e] = subject[d]
      BY <1>2, <2>1, FlaggedHandled
    <2> QED
      BY <1>1, <2>1, <2>2, <2>3, ReturnPages
  <1> QED
    BY <1>3, <1>4

LEMMA ClosePages ==
    ASSUME CutInv, CloseReport
    PROVE  PagesOK'
  <1> DEFINE d == Page.d
  <1>1. /\ reports # <<>> /\ Page.at = "open" /\ Page.left = {} /\ reports' = OuterPages
        /\ UNCHANGED <<vars, nextRoot, printed, referredTo>>
    BY DEF CloseReport, AtEnd
  <1>2. d \in Diff /\ Page = reports[Len(reports)] /\ Len(reports) \in DOMAIN reports
    BY <1>1, PageType DEF CutInv, ReportInv
  <1>3. d \in Printed
    BY <1>1, <1>2 DEF CutInv, PagesOK, PagesInv
  <1>4. \A c : ~AwaitedAt(Len(reports), c)
    BY <1>1, <1>2 DEF AwaitedAt
  <1>5. ASSUME NEW f \in (reporting \cup reported)', f \notin reporting \cup reported
        PROVE  MethodOf(f) = "class" /\ \E e \in Printed : canonical[e] = canonical[f]
    <2>1. MethodOf(d) = "class" /\ f \in {d, canonical[d]}
      BY <1>5 DEF CloseReport
    <2> QED
      BY <1>2, <1>3, <2>1, DiffFacts DEF CutInv, ReportInv
  <1> QED
    BY <1>1, <1>4, <1>5, ReturnPages

LEMMA OpenPages ==
    ASSUME CutInv, OpenReport
    PROVE  PagesOK'
  <1> DEFINE n == Len(reports)
             r == Report(Page.d, "open", Listed(Page.d))
  <1>1. PICK d : d = Page.d
    OBVIOUS
  <1>2. /\ reports # <<>> /\ Page.at = "begin" /\ reports' = OnPage(r)
        /\ printed' = Append(printed, d)
        /\ UNCHANGED <<vars, nextRoot, reported, referredTo>>
        /\ Idle /\ ~AwaitsType(d) /\ ToBeReported(d)
    BY <1>1 DEF OpenReport, Begins, Reporting
  <1>3. /\ n \in DOMAIN reports /\ Page = reports[n] /\ d \in Diff
        /\ r \in PageOn(Diff) /\ r.d = d /\ r.at = "open" /\ r.left = Listed(d)
    <2>1. n \in DOMAIN reports /\ Page = reports[n] /\ d \in Diff
      BY <1>1, <1>2, PageType DEF CutInv, ReportInv
    <2> QED
      BY <1>1, <2>1, ListedType DEF Report, PageOn, CutInv, ReportInv
  <1> HIDE DEF r, n
  <1>4. /\ DOMAIN reports' = DOMAIN reports /\ reports'[n] = r
        /\ \A i \in DOMAIN reports : i # n => reports'[i] = reports[i]
    BY <1>2, <1>3, OnPageType DEF CutInv, ReportInv, n
  <1>5. /\ Printed' = Printed \cup {d} /\ Printed \subseteq Diff /\ d \in Printed'
    <2>1. printed \in Seq(Diff) /\ Printed \subseteq Diff
      BY ReportsType DEF Printed, Members, CutInv, ReportInv
    <2> QED
      BY <1>2, <2>1, MembersAppend DEF Printed
  <1>6. Settled(d)
    BY <1>2 DEF Settled, CutInv, MarksInv, LossInv, GraphInv, TurnInv
  <1>7. \A c \in ListedParts(d) : Awaited(c)'
    BY <1>3, <1>4 DEF ListedParts, Awaited, AwaitedAt
  <1>8. NewPrinted(d)
    BY <1>1, <1>2, <1>3, <1>6, <1>7 DEF NewPrinted
  <1>9. NothingDropped
    <2> SUFFICES ASSUME NEW c, NEW i \in DOMAIN reports, AwaitedAt(i, c)
                 PROVE  Handled(c)' \/ Awaited(c)'
      BY DEF NothingDropped, Awaited
    <2>1. CASE i = n
      <3>1. c = d
        BY <1>1, <1>2, <1>3, <2>1 DEF AwaitedAt
      <3> QED
        BY <1>5, <3>1 DEF Handled
    <2>2. CASE i # n
      BY <1>4, <2>2 DEF Awaited, AwaitedAt
    <2> QED
      BY <2>1, <2>2
  <1>10. \A i \in DOMAIN reports' : PageOK(i)
    <2>1. PageOK(n)
      BY <1>1, <1>3, <1>4, <1>5 DEF PageOK, Printed
    <2>2. ASSUME NEW i \in DOMAIN reports, i # n
          PROVE  PageOK(i)
      BY <1>4, <1>5, <2>2 DEF PageOK, CutInv, PagesOK, PagesInv, Printed
    <2> QED
      BY <1>4, <2>1, <2>2
  <1>11. ASSUME NEW f \in (reporting \cup reported)', f \notin reporting \cup reported
         PROVE  MethodOf(f) = "class" /\ \E e \in Printed' : canonical[e] = canonical[f]
    <2>1. MethodOf(d) = "class" /\ f \in {d, canonical[d]}
      BY <1>1, <1>11 DEF OpenReport
    <2> QED
      BY <1>3, <1>5, <2>1, DiffFacts DEF CutInv, ReportInv
  <1> QED
    BY <1>2, <1>3, <1>5, <1>8, <1>9, <1>10, <1>11, PagesStep DEF RootTurn

(* The page goes past a part that is handled, or opens a page for it.       *)
LEMMA PartPages ==
    ASSUME CutInv, NEW p, AtPart(p),
           UNCHANGED <<vars, nextRoot, reporting, reported, printed>>,
           \/ /\ reports' = OnPage(PastPart(p)) /\ Flagged(p.part)
              /\ referredTo' = referredTo \cup {p.part}
           \/ /\ reports' = Append(OnPage(PastPart(p)), NewReport(p.part))
              /\ referredTo' = referredTo
    PROVE  PagesOK'
  <1> DEFINE n == Len(reports)
  <1>1. reports # <<>> /\ Page.at = "open" /\ p \in Page.left
    BY DEF AtPart
  <1>2. /\ n \in DOMAIN reports /\ Page = reports[n] /\ Page.d \in Diff
        /\ Page.left \subseteq PlaceOn(Diff) /\ p.part \in Diff
        /\ n \in Nat \ {0} /\ DOMAIN reports = 1 .. n
    BY <1>1, PageType, ReportsType DEF CutInv, ReportInv
  <1>3. PICK q : q = PastPart(p)
    OBVIOUS
  <1>4. /\ q \in PageOn(Diff) /\ q.d = Page.d /\ q.at = "open"
        /\ q.left = Page.left \ {p}
    BY <1>2, <1>3 DEF PastPart, Report, PageOn
  <1>5. PICK turned : turned = OnPage(q)
    OBVIOUS
  <1>6. /\ turned \in Seq(PageOn(Diff)) /\ Len(turned) = n /\ DOMAIN turned = DOMAIN reports
        /\ turned[n] = q
        /\ \A i \in DOMAIN reports : i # n => turned[i] = reports[i]
    BY <1>1, <1>4, <1>5, OnPageType DEF CutInv, ReportInv
  <1>7. PICK r : r = NewReport(p.part)
    OBVIOUS
  <1>8. r \in PageOn(Diff) /\ r.d = p.part /\ r.at = "begin"
    BY <1>2, <1>7 DEF NewReport, Report, PageOn
  <1>9. /\ DOMAIN reports \subseteq DOMAIN reports'
        /\ \A i \in DOMAIN reports : reports'[i] = turned[i]
        /\ \A i \in DOMAIN reports' : i \in DOMAIN reports \/ reports'[i] = r
        /\ Handled(p.part) \/ \E i \in DOMAIN reports' : reports'[i] = r
    <2>1. CASE reports' = turned /\ Flagged(p.part)
      BY <1>2, <1>6, <2>1, FlaggedHandled
    <2>2. CASE reports' = Append(turned, r)
      <3>1. DOMAIN reports' = 1 .. n + 1 /\ reports'[n + 1] = r
        BY <1>6, <1>8, <2>2, SeqAppend
      <3>2. \A i \in DOMAIN reports : reports'[i] = turned[i]
        BY <1>2, <1>6, <1>8, <2>2, SeqAppend
      <3> QED
        BY <1>2, <3>1, <3>2
    <2> QED
      BY <1>3, <1>5, <1>7, <2>1, <2>2
  <1> HIDE DEF n
  <1>10. Printed' = Printed /\ Printed \subseteq Diff
    BY ReportsType DEF Printed, Members, CutInv, ReportInv
  <1>11. \A c : Handled(c) => Handled(c)'
    BY <1>10, DiffsStand DEF Handled
  <1>12. Page.d \in Printed /\ Page.left \subseteq Listed(Page.d)
    BY <1>1, <1>2 DEF CutInv, PagesOK, PagesInv
  <1>13. NothingDropped
    <2> SUFFICES ASSUME NEW c, NEW i \in DOMAIN reports, AwaitedAt(i, c)
                 PROVE  Handled(c)' \/ Awaited(c)'
      BY DEF NothingDropped, Awaited
    <2>1. CASE i = n /\ c # p.part
      <3>1. PICK o \in Page.left : o.part = c
        BY <1>1, <1>2, <2>1 DEF AwaitedAt
      <3>2. reports'[n] = q /\ o \in q.left
        BY <1>2, <1>4, <1>6, <1>9, <2>1, <3>1
      <3> QED
        BY <1>2, <1>4, <1>9, <3>1, <3>2 DEF Awaited, AwaitedAt
    <2>2. CASE i = n /\ c = p.part
      BY <1>8, <1>9, <1>11, <2>2 DEF Awaited, AwaitedAt
    <2>3. CASE i # n
      BY <1>6, <1>9, <2>3 DEF Awaited, AwaitedAt
    <2> QED
      BY <2>1, <2>2, <2>3
  <1>14. \A i \in DOMAIN reports' : PageOK(i)
    <2>1. PageOK(n)
      BY <1>2, <1>4, <1>6, <1>9, <1>10, <1>12 DEF PageOK, Printed
    <2>2. ASSUME NEW i \in DOMAIN reports, i # n
          PROVE  PageOK(i)
      BY <1>6, <1>9, <1>10, <2>2 DEF PageOK, CutInv, PagesOK, PagesInv, Printed
    <2>3. ASSUME NEW i \in DOMAIN reports', reports'[i] = r
          PROVE  PageOK(i)
      BY <1>1, <1>8, <1>12, <2>3 DEF PageOK, ListedParts
    <2> QED
      BY <1>9, <2>1, <2>2, <2>3
  <1>15. ASSUME NEW f \in referredTo', f \notin referredTo
         PROVE  \E e \in Printed : subject[e] = subject[f]
    BY <1>2, <1>15, FlaggedHandled
  <1> QED
    BY <1>10, <1>13, <1>14, <1>15, PagesStep DEF RootTurn

-----------------------------------------------------------------------------
(* Once the walks are over, nothing walks any more.                         *)
LEMMA DoneStays ==
    ASSUME Inv, Done, [Next]_vars
    PROVE  [GraphStep]_graphVars /\ UNCHANGED walkVars /\ Done'
  <1>1. [GraphStep]_graphVars
    BY NextIsGraphStep DEF Inv
  <1>2. walk = <<>> /\ todo = <<>>
    BY DEF Done, Inv, ScheduleInv
  <1>3. UNCHANGED walkVars
    BY <1>2 DEF Next, vars, ComputeGraph, StartWalk, FinishHere, Enter, VisitChild, Leave
  <1>4. GraphGrows
    BY <1>1, GraphStepGrows DEF Inv
  <1> QED
    BY <1>1, <1>3, <1>4 DEF Done, RootsComputed, GraphGrows, walkVars

LEMMA CutInvInit == ReportInit => CutInv
  <1> SUFFICES ASSUME ReportInit
               PROVE  CutInv
    OBVIOUS
  <1>1. ReportInv /\ MarksInv /\ NotBegun
    BY ReportInvInit, MarksInvInit DEF ReportInit, NotBegun
  <1> QED
    BY <1>1, NotBegunSuffices DEF CutInv

LEMMA CutInvInductive ==
    ASSUME CutInv, [ReportNext]_allVars
    PROVE  CutInv'
  <1>1. ReportInv' /\ MarksInv'
    BY ReportInvInductive, MarksUnderReport DEF CutInv
  <1>2. ASSUME NotBegun, UNCHANGED reportVars
        PROVE  CutInv'
    <2>1. NotBegun'
      BY <1>2 DEF NotBegun, reportVars
    <2>2. PagesOK'
      BY <1>1, <2>1, NotBegunSuffices, PTL
    <2> QED
      BY <1>1, <2>1, <2>2 DEF CutInv
  <1>3. ASSUME Done, PagesOK', UNCHANGED vars
        PROVE  CutInv'
    BY <1>1, <1>3 DEF CutInv, Done, RootsComputed, vars, graphVars, walkVars
  <1>4. ASSUME [Next]_vars, UNCHANGED reportVars
        PROVE  CutInv'
    <2>1. CASE Done
      <3>1. [GraphStep]_graphVars /\ UNCHANGED walkVars /\ Done'
        BY <1>4, <2>1, DoneStays DEF CutInv, ReportInv
      <3>2. PagesOK'
        BY <1>4, <2>1, <3>1, PagesUnderGraph DEF Done, walkVars
      <3> QED
        BY <1>1, <3>1, <3>2 DEF CutInv
    <2> QED
      BY <1>2, <1>4, <2>1 DEF CutInv
  <1>5. CASE Categorize \/ UNCHANGED allVars
    BY <1>4, <1>5 DEF Categorize, allVars
  <1>6. CASE ReportAsksType
    <2>1. Page.d \in Diff /\ AskType(Page.d) /\ UNCHANGED <<walkVars, reportVars>> /\ Done
      BY <1>6, PageType DEF ReportAsksType, Begins, Reporting, CutInv, ReportInv
    <2>2. [GraphStep]_graphVars
      BY <2>1 DEF GraphStep, Finish
    <2>3. PagesOK'
      BY <2>1, <2>2, PagesUnderGraph DEF Done, walkVars
    <2>4. GraphGrows
      BY <2>2, GraphStepGrows DEF CutInv, ReportInv, Inv
    <2>5. Done'
      BY <2>1, <2>4 DEF Done, RootsComputed, GraphGrows, walkVars
    <2> QED
      BY <1>1, <2>3, <2>5 DEF CutInv
  <1>7. CASE ReportRoot
    BY <1>3, <1>7, RootPages DEF ReportRoot, Reporting
  <1>8. CASE SkipReport \/ ReferToItself
    BY <1>3, <1>8, TurnAwayPages DEF SkipReport, ReferToItself, Begins, Reporting
  <1>9. CASE OpenReport
    BY <1>3, <1>9, OpenPages DEF OpenReport, Begins, Reporting
  <1>10. ASSUME NEW p, ReferToPart(p) \/ ReportPart(p)
         PROVE  CutInv'
    BY <1>3, <1>10, PartPages DEF ReferToPart, ReportPart, AtPart, Reporting
  <1>11. CASE CloseReport
    BY <1>3, <1>11, ClosePages DEF CloseReport, AtEnd, Reporting
  <1> QED
    BY <1>5, <1>6, <1>7, <1>8, <1>9, <1>10, <1>11 DEF ReportNext, WriteReport

-----------------------------------------------------------------------------
(* What a report without flags would print is the least set of diffs that   *)
(* has the roots that are to be reported and, with a diff, those of its     *)
(* listed parts that are.                                                   *)
HasListed(X) == \A d \in X : \A c \in ListedParts(d) : ToBeReported(c) => c \in X

WithListed ==
    [X \in SUBSET Diff |->
       X \cup {c \in UNION {ListedParts(d) : d \in X} : ToBeReported(c)}]

LEMMA WithListedGrows ==
    ASSUME Inv
    PROVE  /\ IsGrowth(WithListed, Diff)
           /\ \A X \in SUBSET Diff : WithListed[X] = X <=> HasListed(X)
  <1>1. \A d \in Diff : ListedParts(d) \subseteq Diff
    BY ListedType
  <1>2. \A X \in SUBSET Diff : WithListed[X] = X <=> HasListed(X)
    BY DEF WithListed, HasListed
  <1>3. WithListed \in [SUBSET Diff -> SUBSET Diff]
    BY <1>1 DEF WithListed
  <1>4. \A X \in SUBSET Diff : X \subseteq WithListed[X]
    BY DEF WithListed
  <1>5. ASSUME NEW X \in SUBSET Diff, NEW Y \in SUBSET Diff, X \subseteq Y, HasListed(Y)
        PROVE  WithListed[X] \subseteq Y
    BY <1>5 DEF WithListed, HasListed
  <1> QED
    BY <1>2, <1>3, <1>4, <1>5 DEF IsGrowth

LEMMA ToBePrintedLeast ==
    ASSUME Inv, \A r \in Members(roots) : r \in Diff
    PROVE  /\ ToBePrinted \in SUBSET Diff /\ HasListed(ToBePrinted)
           /\ \A r \in Members(roots) : ToBeReported(r) => r \in ToBePrinted
           /\ \A X \in SUBSET Diff :
                HasListed(X) /\ (\A r \in Members(roots) : ToBeReported(r) => r \in X)
                  => ToBePrinted \subseteq X
  <1> DEFINE more(D) == D \cup {c \in UNION {ListedParts(d) : d \in D} : ToBeReported(c)}
             Body(f) == [D \in SUBSET Diff |-> IF more(D) = D THEN D ELSE f[more(D)]]
  <1>1. PICK F : F = WithListed
    OBVIOUS
  <1>2. IsGrowth(F, Diff) /\ IsFiniteSet(Diff)
    BY <1>1, WithListedGrows, FS_Interval DEF Diff, Inv, GraphTypeOK, RegistryTypeOK
  <1>3. ASSUME NEW f
        PROVE  f = Body(f) <=> GrownBy(F, Diff, f)
    <2>1. ASSUME NEW D \in SUBSET Diff
          PROVE  F[D] = more(D)
      BY <1>1 DEF WithListed
    <2> HIDE DEF more
    <2> QED
      BY <2>1 DEF GrownBy
  <1>4. \E f : f = Body(f)
    BY <1>2, <1>3, GrowthExists
  <1>5. PICK c : c = CHOOSE f : f = Body(f)
    OBVIOUS
  <1>6. GrownBy(F, Diff, c)
    BY <1>3, <1>4, <1>5
  <1>7. PICK R \in SUBSET Diff : R = {d \in Members(roots) : ToBeReported(d)}
    OBVIOUS
  <1>8. ToBePrinted = c[R]
    BY <1>5, <1>7 DEF ToBePrinted
  <1>9. GrownTo(F, Diff, c, R)
    BY <1>2, <1>6, GrowthEnds
  <1> HIDE DEF more, Body
  <1>10. /\ c[R] \in SUBSET Diff /\ R \subseteq c[R] /\ F[c[R]] = c[R]
         /\ \A X \in SUBSET Diff : R \subseteq X /\ F[X] = X => c[R] \subseteq X
    BY <1>9 DEF GrownTo
  <1> QED
    BY <1>1, <1>7, <1>8, <1>10, WithListedGrows

(* The diffs of a class of equivalence list the same parts.                 *)
LEMMA ClassListsTheSame ==
    ASSUME ReportInv, NEW d \in Diff, NEW e \in Diff,
           MethodOf(d) = "class", canonical[d] = canonical[e]
    PROVE  ListedParts(d) = ListedParts(e)
  <1>1. subject[d] = subject[e] /\ subject[d] \in Subject
    BY CanonicalSubject DEF ReportInv
  <1>2. Kind(d) = "class" /\ Kind(e) = "class"
    BY <1>1, MethodAssumption DEF Kind, MethodOf, ReportInv, Inv, GraphTypeOK
  <1>3. Parts(d) = Parts(e) /\ MethodOf(d) = MethodOf(e)
    BY <1>1, <1>2 DEF Parts, MethodOf
  <1>4. Listed(d) = Listed(e)
    BY <1>1, <1>3 DEF Listed
  <1> QED
    BY <1>4 DEF ListedParts

LEMMA CutInvSuffices ==
    ASSUME CutInv
    PROVE  NothingCutOut
  <1> SUFFICES ASSUME ReportDone
               PROVE  /\ {subject[d] : d \in ToBePrinted} = {subject[d] : d \in Printed}
                      /\ {subject[d] : d \in referredTo} \subseteq {subject[d] : d \in Printed}
    BY DEF NothingCutOut, Printed
  <1> USE DEF CutInv, PagesOK
  <1>1. RootsComputed /\ \A c : ~Awaited(c)
    BY DEF ReportDone, Reporting, Done, Awaited
  <1>2. \A r \in Members(roots) : r \in Diff
    <2>1. \A i \in DOMAIN roots : roots[i] \in 0 .. Len(subject)
      BY DEF ReportInv, Inv, GraphTypeOK, CallsTypeOK
    <2> QED
      BY <1>1, <2>1 DEF RootsComputed, Diff, ReportInv, Inv, GraphTypeOK, RegistryTypeOK, Members
  <1>3. PICK T : T = ToBePrinted
    OBVIOUS
  <1>4. /\ T \in SUBSET Diff /\ HasListed(T)
        /\ \A r \in Members(roots) : ToBeReported(r) => r \in T
        /\ \A X \in SUBSET Diff :
             HasListed(X) /\ (\A r \in Members(roots) : ToBeReported(r) => r \in X)
               => T \subseteq X
    BY <1>2, <1>3, ToBePrintedLeast DEF ReportInv
  <1>5. Printed \subseteq Diff
    BY ReportsType DEF ReportInv, Printed, Members
  <1>6. Printed \subseteq T
    BY <1>4 DEF OnlyNeeded, Covers, HasListed
  <1>7. PICK X \in SUBSET Diff : X = {d \in Diff : Handled(d)}
    OBVIOUS
  <1>8. \A r \in Members(roots) : ToBeReported(r) => r \in X
    <2>1. \A i \in DOMAIN roots : i < nextRoot
      <3>1. roots \in Seq(0 .. Len(subject)) /\ nextRoot \in 1 .. Len(roots) + 1
        BY DEF ReportInv, ReportTypeOK, Inv, GraphTypeOK, CallsTypeOK
      <3> QED
        BY <3>1 DEF ReportDone
    <2> QED
      BY <1>1, <1>2, <1>7, <2>1 DEF RootsHandled, Members
  <1>9. HasListed(X)
    <2> SUFFICES ASSUME NEW d \in X, NEW c \in ListedParts(d), ToBeReported(c)
                 PROVE  c \in X
      BY DEF HasListed
    <2>1. d \in Diff /\ Handled(d) /\ c \in Diff
      BY <1>7, ListedType DEF ReportInv
    <2>2. PICK e \in Printed : c \in ListedParts(e)
      BY <1>5, <2>1, ClassListsTheSame DEF Handled
    <2> QED
      BY <1>1, <1>7, <2>1, <2>2 DEF PartsHandled
  <1>10. T \subseteq X
    BY <1>4, <1>8, <1>9
  <1>11. \A d \in X : \E e \in Printed : subject[e] = subject[d]
    <2> SUFFICES ASSUME NEW d \in X
                 PROVE  \E e \in Printed : subject[e] = subject[d]
      OBVIOUS
    <2>1. d \in Diff /\ Handled(d)
      BY <1>7
    <2>2. CASE d \in Printed
      BY <2>2
    <2>3. ASSUME NEW e \in Printed, canonical[e] = canonical[d]
          PROVE  subject[e] = subject[d]
      BY <1>5, <2>1, <2>3, CanonicalSubject DEF ReportInv
    <2> QED
      BY <2>1, <2>2, <2>3 DEF Handled
  <1>12. {subject[d] : d \in T} = {subject[d] : d \in Printed}
    BY <1>6, <1>10, <1>11
  <1> QED
    BY <1>3, <1>12 DEF ReferredPrinted

(* The two flags cut nothing out of the report: when it is done, it has     *)
(* printed each pair of artifacts that a report without the flags would     *)
(* print and no other, and what it says is reported elsewhere is.           *)
THEOREM NothingIsCutOut == ReportSpec => []NothingCutOut
  <1> QED
    BY CutInvInit, CutInvInductive, CutInvSuffices, PTL DEF ReportSpec

(* The categories come from below, and no suppression spreads too far, when *)
(* a report is written after the walks, too; and what was proved of the     *)
(* graph holds while it is printed.                                         *)
COROLLARY ReportKeepsReasons ==
    ReportSpec => [](CategoriesComeFromBelow /\ SuppressedForAReason)
  <1>1. CutInv => CategoriesComeFromBelow /\ SuppressedForAReason
    BY MarksInvSuffices DEF CutInv
  <1> QED
    BY <1>1, CutInvInit, CutInvInductive, PTL DEF ReportSpec

COROLLARY GraphDuringReport == ReportSpec => [](AnyParentWillDo /\ NoChangeLost)
  <1>1. CutInv => AnyParentWillDo /\ NoChangeLost
    BY AnyParentSuffices, NothingLostSuffices DEF CutInv, MarksInv, LossInv
  <1> QED
    BY <1>1, CutInvInit, CutInvInductive, PTL DEF ReportSpec
=============================================================================
