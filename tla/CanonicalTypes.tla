--------------------------- MODULE CanonicalTypes ---------------------------
(***************************************************************************)
(* How the types of two corpora get their canonical types, and how types   *)
(* are compared: the readers build the types of a corpus depth first and   *)
(* canonicalize each as soon as the types it is made of have canonical     *)
(* types, or else when the corpus has been read; canonicalize() of         *)
(* src/abg-ir.cc looks for an equal type among those of the same hash;     *)
(* equals() goes through classes that refer to each other, stops where a   *)
(* class of the same name is being compared, and makes do with the         *)
(* canonical types where there are some.                                   *)
(*                                                                         *)
(* A type is a node of the IR: each corpus has its own.  A class is made   *)
(* of the types of its data members, in order (bases are gone through in   *)
(* the same way), a pointer, a reference, a typedef of the type it refers  *)
(* to.  Names are unique in a corpus, but for those of declarations.       *)
(***************************************************************************)
EXTENDS Naturals, Sequences, SequencesExt, FiniteSets

CONSTANTS
  Type,             \* the nodes of the IR
  NoType,           \* a null pointer
  CorpusOf(_),      \* the corpus of a type
  Kind(_), Name(_),
  DeclarationOf(_), \* the class that a declaration-only class declares
  Worlds,           \* two corpora and how they are read
  ReaderIn(_),      \* the reader
  CollideIn(_),     \* every hash is equal to every other
  RootsIn(_, _),    \* the types that the exported declarations of a corpus mention
  PartsIn(_, _),
  LabelIn(_, _),    \* what is compared of a type before it is marked: name, size
  LayoutIn(_, _),   \* the rest of what it has of its own: offsets of members ...
  VirtualIn(_, _),  \* it has virtual member functions
  AlternateIn(_, _) \* its DIE is in the alternate debug info file

Corpora == 1 .. 2
Kinds == {"class", "declaration", "other"}
Readers == {"dwarf", "xml"}
Files == {"primary", "alternate"}

ASSUME TypesAssumption ==
  /\ IsFiniteSet(Type) /\ NoType \notin Type
  /\ \A t \in Type :
       /\ CorpusOf(t) \in Corpora /\ Kind(t) \in Kinds
       /\ Kind(t) = "declaration" => /\ DeclarationOf(t) \in Type
                                     /\ Kind(DeclarationOf(t)) = "class"
                                     /\ CorpusOf(DeclarationOf(t)) = CorpusOf(t)
                                     /\ Name(DeclarationOf(t)) = Name(t)

\* In a corpus there is one class of a name.
ASSUME NamesAssumption ==
  \A t, u \in Type :
    /\ Kind(t) = "class" /\ Kind(u) = "class"
    /\ CorpusOf(t) = CorpusOf(u) /\ Name(t) = Name(u)
    => t = u

ASSUME WorldsAssumption ==
  \A w \in Worlds :
    /\ ReaderIn(w) \in Readers /\ CollideIn(w) \in BOOLEAN
    /\ \A c \in Corpora : RootsIn(w, c) \subseteq {t \in Type : CorpusOf(t) = c}
    /\ \A t \in Type :
         /\ VirtualIn(w, t) \in BOOLEAN /\ AlternateIn(w, t) \in BOOLEAN
         /\ PartsIn(w, t) \in Seq({u \in Type : CorpusOf(u) = CorpusOf(t)})
         /\ Kind(t) = "declaration" => PartsIn(w, t) = <<>>
         /\ AlternateIn(w, t) => /\ ReaderIn(w) = "dwarf"
                                 /\ \A i \in DOMAIN PartsIn(w, t) : AlternateIn(w, PartsIn(w, t)[i])

\* The label of a class has its name; the name of a type that is not a class is made
\* of its label and of the names of its parts.
ASSUME LabelsAssumption ==
  \A w \in Worlds : \A t, u \in Type :
    LabelIn(w, t) = LabelIn(w, u) =>
      /\ Kind(t) = "class" /\ Kind(u) = "class" => Name(t) = Name(u)
      /\ /\ Kind(t) = "other" /\ Kind(u) = "other"
         /\ Len(PartsIn(w, t)) = Len(PartsIn(w, u))
         /\ \A i \in DOMAIN PartsIn(w, t) : Name(PartsIn(w, t)[i]) = Name(PartsIn(w, u)[i])
         => Name(t) = Name(u)

VARIABLES
  world,      \* the world at hand; never changes
  corpus,     \* the corpus being read; 3 when both are
  built,      \* the types the reader knows of
  building,   \* the types being built, innermost first
  late,       \* those of each file to canonicalize when the corpus has been read
  canonical,  \* the canonical type of each type, if any
  table,      \* type_base::get_canonical_types_map()
  job,        \* the type being canonicalized, and how far it is
  hashing,    \* the hashes being computed, innermost first
  memberHash, \* the hashes that data members keep
  comparing,  \* the comparisons under way, innermost first
  answer,     \* of the comparison that has just ended
  marks,      \* class_decl::priv::classes_being_compared_
  asked       \* the comparison asked for when both corpora have been read

readVars == <<world, corpus, built, building, late>>
hashVars == <<hashing, memberHash>>
compareVars == <<comparing, answer, marks>>
vars == <<readVars, canonical, table, job, hashVars, compareVars, asked>>

Label(t) == LabelIn(world, t)
Layout(t) == LayoutIn(world, t)
Parts(t) == PartsIn(world, t)
Reader == ReaderIn(world)
Roots == RootsIn(world, corpus)
Alternate(t) == AlternateIn(world, t)
IsClass(t) == Kind(t) \in {"class", "declaration"}

\* A declaration has its definition when the corpus has been read, if the corpus
\* has it.  Before that, nothing that refers to the declaration is looked at.
Definition(t) ==
  IF Kind(t) # "declaration" THEN t
  ELSE IF DeclarationOf(t) \in built THEN DeclarationOf(t) ELSE NoType

HasCanonical(t) == canonical[t] # NoType
-----------------------------------------------------------------------------
(* Canonicalization: a type waits for its hash, then is compared with the   *)
(* types of that hash that are their own canonical types, one by one;       *)
(* tried, of a job, is the one that was compared last.                      *)

\* The hash of a class that is being hashed, or that is only declared: 0.
NoHash == [label |-> <<>>, parts |-> <<>>]
HashOf(t, parts) ==
  IF CollideIn(world) THEN NoHash
  ELSE [label |-> <<Kind(t), Name(t), Label(t), Layout(t)>>, parts |-> parts]

HashFrame(t) == [type |-> t, got |-> <<>>]
Job(t, h, tried) == [type |-> t, hash |-> h, tried |-> tried]
NoJob == Job(NoType, NoHash, 0)
Idle == job = NoJob /\ asked = <<>>

Canonicalize(t) ==
  /\ job' = Job(t, NoHash, 0)
  /\ hashing' = <<HashFrame(t)>>

Hashing == Head(hashing)
HashNext == Parts(Hashing.type)[Len(Hashing.got) + 1]
HashLeft == hashing # <<>> /\ Len(Hashing.got) < Len(Parts(Hashing.type))

\* var_decl::hash keeps what it has computed, the types compute it again.
Kept == IF Kind(Hashing.type) = "class"
        THEN memberHash[Hashing.type][Len(Hashing.got) + 1] ELSE <<>>

HashesToZero(t) == \/ Kind(t) = "declaration" /\ Definition(t) = NoType
                   \/ Kind(t) = "class" /\ \E i \in DOMAIN hashing : hashing[i].type = t

\* The hash h of the next part of the type that is hashed in stack[1].
Got(stack, h) == <<[stack[1] EXCEPT !.got = Append(@, h)]>> \o Tail(stack)
Keep(stack, h) ==
  LET t == stack[1].type IN
  IF Kind(t) = "class"
  THEN [memberHash EXCEPT ![t][Len(stack[1].got) + 1] = <<h>>]
  ELSE memberHash

HashKnownPart ==
  /\ HashLeft
  /\ \/ /\ Kept # <<>>
        /\ hashing' = Got(hashing, Kept[1])
        /\ UNCHANGED memberHash
     \/ /\ Kept = <<>> /\ HashesToZero(HashNext)
        /\ hashing' = Got(hashing, NoHash)
        /\ memberHash' = Keep(hashing, NoHash)
  /\ UNCHANGED <<readVars, canonical, table, job, compareVars, asked>>

HashPart ==
  /\ HashLeft
  /\ Kept = <<>> /\ ~HashesToZero(HashNext)
  /\ hashing' = <<HashFrame(HashNext)>> \o hashing
  /\ UNCHANGED <<readVars, canonical, table, job, memberHash, compareVars, asked>>

HashDone ==
  /\ hashing # <<>> /\ ~HashLeft
  /\ LET h == HashOf(Hashing.type, Hashing.got) IN
     IF Len(hashing) > 1
     THEN /\ hashing' = Got(Tail(hashing), h)
          /\ memberHash' = Keep(Tail(hashing), h)
          /\ UNCHANGED job
     ELSE /\ hashing' = <<>>
          /\ job' = [job EXCEPT !.hash = h]
          /\ UNCHANGED memberHash
  /\ UNCHANGED <<readVars, canonical, table, compareVars, asked>>

Hash == HashKnownPart \/ HashPart \/ HashDone

Trying == job # NoJob /\ hashing = <<>> /\ comparing = <<>>
Candidate == table[job.tried].type
CandidatesLeft == {i \in DOMAIN table : i > job.tried /\ table[i].hash = job.hash}

CompareFrame(l, r) == [l |-> l, r |-> r, open |-> FALSE, next |-> 1]

TryCandidate ==
  /\ Trying /\ answer = "none"
  /\ \E i \in CandidatesLeft :
       /\ \A j \in CandidatesLeft : i <= j
       /\ job' = [job EXCEPT !.tried = i]
       /\ comparing' = <<CompareFrame(job.type, table[i].type)>>
  /\ UNCHANGED <<readVars, canonical, table, hashVars, answer, marks, asked>>

TakeCandidate ==
  /\ Trying /\ answer = "yes"
  /\ canonical' = [canonical EXCEPT ![job.type] = Candidate]
  /\ job' = NoJob /\ answer' = "none"
  /\ UNCHANGED <<readVars, table, hashVars, comparing, marks, asked>>

LeaveCandidate ==
  /\ Trying /\ answer = "no"
  /\ answer' = "none"
  /\ UNCHANGED <<readVars, canonical, table, job, hashVars, comparing, marks, asked>>

NewCanonical ==
  /\ Trying /\ answer = "none"
  /\ CandidatesLeft = {}
  /\ canonical' = [canonical EXCEPT ![job.type] = job.type]
  /\ table' = Append(table, [type |-> job.type, hash |-> job.hash])
  /\ job' = NoJob
  /\ UNCHANGED <<readVars, hashVars, compareVars, asked>>

LookUp == TryCandidate \/ TakeCandidate \/ LeaveCandidate \/ NewCanonical
-----------------------------------------------------------------------------
(* Comparison: operator== of the types, then the equals() of their kind.    *)

Here == Head(comparing)
L == Here.l
R == Here.r
Comparing == comparing # <<>> /\ answer = "none"
Names == {Name(L), Name(R)}
Verdict(b) == IF b THEN "yes" ELSE "no"

Return(verdict) ==
  /\ comparing' = Tail(comparing)
  /\ answer' = verdict
  /\ UNCHANGED <<readVars, canonical, table, job, hashVars, asked>>

\* The macro RETURN of equals(class_decl, class_decl).
Unmark == marks' = IF IsClass(L) THEN marks \ Names ELSE marks

\* Pointers to one node; nodes of different kinds; canonical types to compare.
IsKnown(l, r) == l = r \/ IsClass(l) # IsClass(r) \/ (HasCanonical(l) /\ HasCanonical(r))

AtStart == Comparing /\ ~Here.open

CompareKnown ==
  /\ AtStart
  /\ IsKnown(L, R)
  /\ Return(Verdict(L = R \/ (/\ HasCanonical(L) /\ HasCanonical(R)
                              /\ canonical[L] = canonical[R])))
  /\ UNCHANGED marks

ThroughDeclaration(l, r) == "declaration" \in {Kind(l), Kind(r)}
Undefined(l, r) == ThroughDeclaration(l, r) /\ NoType \in {Definition(l), Definition(r)}
Unlike(l, r) == ~ThroughDeclaration(l, r) /\ Label(l) # Label(r)
Started(l, r) == IsClass(l) /\ {Name(l), Name(r)} \cap marks # {}

\* A declaration without a definition equals what has its name.
CompareUndefined ==
  /\ AtStart /\ ~IsKnown(L, R)
  /\ Undefined(L, R)
  /\ Return(Verdict(Name(L) = Name(R)))
  /\ Unmark

CompareUnlike ==
  /\ AtStart /\ ~IsKnown(L, R)
  /\ Unlike(L, R)
  /\ Return("no")
  /\ Unmark

LooksAlike(l, r) == ~IsKnown(l, r) /\ ~Undefined(l, r) /\ ~Unlike(l, r)

CompareStarted ==
  /\ AtStart /\ LooksAlike(L, R)
  /\ Started(L, R)
  /\ Return("yes")
  /\ UNCHANGED marks

CompareOpen ==
  /\ AtStart /\ LooksAlike(L, R)
  /\ ~Started(L, R)
  /\ comparing' = <<[Here EXCEPT !.open = TRUE]>> \o Tail(comparing)
  /\ marks' = IF IsClass(L) THEN marks \cup Names ELSE marks
  /\ UNCHANGED <<readVars, canonical, table, job, hashVars, answer, asked>>

\* What is compared of two types, pair by pair.
Pairs(l, r) ==
  IF ThroughDeclaration(l, r) THEN << <<Definition(l), Definition(r)>> >>
  ELSE [i \in DOMAIN Parts(l) |-> <<Parts(l)[i], Parts(r)[i]>>]

\* Mutant of HasOtherLayout: the numbers of members will do.
HasOtherLength(l, r) == ~ThroughDeclaration(l, r) /\ Len(Parts(l)) # Len(Parts(r))

\* Another layout is found before the types of the members end, and answers "no"
\* as well if one of these does.
HasOtherLayout(l, r) ==
  ~ThroughDeclaration(l, r) /\ (Layout(l) # Layout(r) \/ Len(Parts(l)) # Len(Parts(r)))

CompareLayout ==
  /\ Comparing /\ Here.open
  /\ HasOtherLayout(L, R)
  /\ Return("no")
  /\ Unmark

ComparePart ==
  /\ Comparing /\ Here.open /\ ~HasOtherLayout(L, R)
  /\ Here.next <= Len(Pairs(L, R))
  /\ LET pair == Pairs(L, R)[Here.next] IN
     comparing' = <<CompareFrame(pair[1], pair[2])>> \o comparing
  /\ UNCHANGED <<readVars, canonical, table, job, hashVars, answer, marks, asked>>

PartEqual ==
  /\ comparing # <<>> /\ answer = "yes"
  /\ comparing' = <<[Here EXCEPT !.next = @ + 1]>> \o Tail(comparing)
  /\ answer' = "none"
  /\ UNCHANGED <<readVars, canonical, table, job, hashVars, marks, asked>>

\* Mutant of PartDiffers: return without RETURN.
PartDiffersMarked ==
  /\ comparing # <<>> /\ answer = "no"
  /\ Return("no")
  /\ UNCHANGED marks

PartDiffers ==
  /\ comparing # <<>> /\ answer = "no"
  /\ Return("no")
  /\ Unmark

CompareDone ==
  /\ Comparing /\ Here.open /\ ~HasOtherLayout(L, R)
  /\ Here.next > Len(Pairs(L, R))
  /\ Return("yes")
  /\ Unmark

Compare ==
  \/ CompareKnown \/ CompareUndefined \/ CompareUnlike \/ CompareStarted
  \/ CompareOpen \/ CompareLayout \/ ComparePart \/ PartEqual \/ PartDiffers
  \/ CompareDone
-----------------------------------------------------------------------------
(* The readers.                                                             *)

BuildFrame(t) == [type |-> t, next |-> 1]
Building == Head(building)
BuildNext == Parts(Building.type)[Building.next]
BuildLeft == building # <<>> /\ Building.next <= Len(Parts(Building.type))
Skip == <<[Building EXCEPT !.next = @ + 1]>> \o Tail(building)

ReadRoot ==
  /\ corpus \in Corpora /\ Idle /\ building = <<>>
  /\ \E t \in Roots \ built : building' = <<BuildFrame(t)>>
  /\ UNCHANGED <<world, corpus, built, late, canonical, table, job, hashVars, compareVars, asked>>

BuildKnownPart ==
  /\ Idle /\ BuildLeft
  /\ BuildNext \in built
  /\ building' = Skip
  /\ UNCHANGED <<world, corpus, built, late, canonical, table, job, hashVars, compareVars, asked>>

\* Mutant of FileOf: one list for both files.
OneList(t) == "primary"

\* types_to_canonicalize_, alt_types_to_canonicalize_
FileOf(t) == IF Alternate(t) THEN "alternate" ELSE "primary"

\* schedule_type_for_late_canonicalization
PutLate(t) == late' = [late EXCEPT ![FileOf(t)] = Append(@, t)]
NothingLate == \A f \in Files : late[f] = <<>>

\* A class that is being built: is_wip_class_die_offset, mark_class_as_wip.
InProgress(t) == Kind(t) = "class" /\ \E i \in DOMAIN building : building[i].type = t

BuildClassInProgress ==
  /\ Idle /\ BuildLeft
  /\ InProgress(BuildNext)
  /\ building' = Skip
  /\ IF Reader = "dwarf" THEN PutLate(BuildNext) ELSE UNCHANGED late
  /\ UNCHANGED <<world, corpus, built, canonical, table, job, hashVars, compareVars, asked>>

BuildPart ==
  /\ Idle /\ BuildLeft
  /\ BuildNext \notin built /\ ~InProgress(BuildNext)
  /\ building' = <<BuildFrame(BuildNext)>> \o building
  /\ UNCHANGED <<world, corpus, built, late, canonical, table, job, hashVars, compareVars, asked>>

\* !type_has_non_canonicalized_subtype
HasCanonicalParts(t) == \A i \in DOMAIN Parts(t) : HasCanonical(Parts(t)[i])

\* The DWARF reader leaves classes with virtual member functions for later.
MayBeEarly(t) == HasCanonicalParts(t) /\ ~(Reader = "dwarf" /\ VirtualIn(world, t))

\* A pointer may have been built while what it points to was; the DWARF reader
\* tries to canonicalize it again.
BuildDone ==
  /\ Idle /\ building # <<>> /\ ~BuildLeft
  /\ LET t == Building.type
         again == t \in built /\ Reader = "xml"
     IN /\ building' = Tail(building)
        /\ built' = built \cup {t}
        /\ IF again \/ HasCanonical(t) \/ Kind(t) = "declaration"
           THEN UNCHANGED <<late, job, hashing>>
           ELSE IF MayBeEarly(t)
                THEN Canonicalize(t) /\ UNCHANGED late
                ELSE PutLate(t) /\ UNCHANGED <<job, hashing>>
  /\ UNCHANGED <<world, corpus, canonical, table, memberHash, compareVars, asked>>

AllRead == corpus \in Corpora /\ Idle /\ building = <<>> /\ Roots \subseteq built

\* The types of the primary file come first.
LateFile == IF late["primary"] # <<>> THEN "primary" ELSE "alternate"
NextLate == Head(late[LateFile])

\* Mutant of CanonicalizeLate: what cannot be canonicalized yet is tried again later.
CanonicalizeLateAgain ==
  /\ AllRead /\ ~NothingLate
  /\ IF HasCanonical(NextLate)
     THEN late' = [late EXCEPT ![LateFile] = Tail(@)] /\ UNCHANGED <<job, hashing>>
     ELSE IF Reader = "dwarf" /\ ~HasCanonicalParts(NextLate)
          THEN late' = [late EXCEPT ![LateFile] = Append(Tail(@), NextLate)] /\ UNCHANGED <<job, hashing>>
          ELSE late' = [late EXCEPT ![LateFile] = Tail(@)] /\ Canonicalize(NextLate)
  /\ UNCHANGED <<world, corpus, built, building, canonical, table, memberHash, compareVars, asked>>

\* perform_late_type_canonicalizing
CanonicalizeLate ==
  /\ AllRead /\ ~NothingLate
  /\ late' = [late EXCEPT ![LateFile] = Tail(@)]
  /\ IF HasCanonical(NextLate) \/ (Reader = "dwarf" /\ ~HasCanonicalParts(NextLate))
     THEN UNCHANGED <<job, hashing>>
     ELSE Canonicalize(NextLate)
  /\ UNCHANGED <<world, corpus, built, building, canonical, table, memberHash, compareVars, asked>>

CorpusRead ==
  /\ AllRead /\ NothingLate
  /\ corpus' = corpus + 1
  /\ UNCHANGED <<world, built, building, late, canonical, table, job, hashVars, compareVars, asked>>

Read ==
  \/ ReadRoot \/ BuildKnownPart \/ BuildClassInProgress \/ BuildPart \/ BuildDone
  \/ CanonicalizeLate \/ CorpusRead
-----------------------------------------------------------------------------
(* What is done with the corpora: two types of one name are compared.       *)

Ask ==
  /\ corpus = 3 /\ Idle
  /\ \E l, r \in built :
       /\ CorpusOf(l) = 1 /\ CorpusOf(r) = 2
       /\ Name(l) = Name(r)
       /\ asked' = <<l, r>>
       /\ comparing' = <<CompareFrame(l, r)>>
  /\ UNCHANGED <<readVars, canonical, table, job, hashVars, answer, marks>>

Init ==
  /\ world \in Worlds
  /\ corpus = 1 /\ built = {} /\ building = <<>> /\ late = [f \in Files |-> <<>>]
  /\ canonical = [t \in Type |-> NoType] /\ table = <<>>
  /\ job = NoJob /\ hashing = <<>>
  /\ memberHash = [t \in {t \in Type : Kind(t) = "class"} |-> [i \in DOMAIN Parts(t) |-> <<>>]]
  /\ comparing = <<>> /\ answer = "none" /\ marks = {}
  /\ asked = <<>>

Next == Read \/ Hash \/ LookUp \/ Compare \/ Ask

Spec == Init /\ [][Next]_vars /\ WF_vars(Next)
-----------------------------------------------------------------------------
(* Properties.                                                              *)

Answered == asked # <<>> /\ comparing = <<>> /\ answer # "none"

\* The nodes that the variables refer to exist, and no class is being hashed or
\* compared with another twice at a time.
TypeOK ==
  /\ world \in Worlds /\ corpus \in 1 .. 3
  /\ built \subseteq Type
  /\ \A i \in DOMAIN building : building[i].next \in 1 .. Len(Parts(building[i].type)) + 1
  /\ \A f \in Files : ToSet(late[f]) \subseteq built \cup {g.type : g \in ToSet(building)}
  /\ canonical \in [Type -> Type \cup {NoType}]
  /\ \A i, j \in DOMAIN hashing :
       i < j /\ Kind(hashing[i].type) = "class" => hashing[i].type # hashing[j].type
  /\ \A i, j \in DOMAIN comparing :
       i < j /\ comparing[i].open /\ IsClass(comparing[i].l)
         => <<comparing[i].l, comparing[i].r>> # <<comparing[j].l, comparing[j].r>>
  /\ answer \in {"none", "yes", "no"}
  /\ marks \subseteq {Name(t) : t \in {t \in Type : IsClass(t)}}

\* The types that are the same all the way down: what structural comparison is to
\* find out, without the shortcuts of marks, hashes and canonical types.  SameFor[n]
\* are those between which n steps down no difference is found.
Alike(t, u) ==
  /\ Kind(t) = Kind(u) /\ Label(t) = Label(u) /\ Layout(t) = Layout(u)
  /\ Len(Parts(t)) = Len(Parts(u))

\* S itself, whose elements TLC then finds once and not at every use.
Listed(S) == {x : x \in S}

AlikeTypes == {p \in built \X built : Alike(p[1], p[2])}
PartPairs(p) == {<<Parts(p[1])[i], Parts(p[2])[i]>> : i \in DOMAIN Parts(p[1])}

SameFor[n \in 0 .. Cardinality(Type \X Type)] ==
  IF n = 0 THEN AlikeTypes
  ELSE LET same == SameFor[n - 1] IN Listed({p \in same : PartPairs(p) \subseteq same})

SameTypes == SameFor[Cardinality(AlikeTypes)]

\* With declarations equality is not transitive: what equals a declaration may be of
\* two kinds; and a declaration is taken for equal to another of its name whatever
\* their definitions: equals() marks the names and then compares the definitions,
\* which have the same names and so seem to be compared already.
AllDefined == \A t \in built : Kind(t) # "declaration"

\* The types from which one gets on for as many steps as one likes, within n steps,
\* or to one of the types stops; and those from which one does not.
LeadsOn(stops) ==
  LET on[n \in 0 .. Cardinality(Type)] ==
        IF n = 0 THEN built
        ELSE LET was == on[n - 1] IN
             Listed({t \in was : \/ t \in stops
                                \/ \E i \in DOMAIN Parts(t) : Parts(t)[i] \in was})
  IN  on

Grounded(stops) == built \ LeadsOn(stops)[Cardinality(built)]

\* Types that get no canonical type; and those of the alternate file that get none
\* before all types of the primary file have had their turn.
Declared == {t \in Type : Kind(t) = "declaration"}
PutOff == {t \in Type : Alternate(t) /\ VirtualIn(world, t)}

BothRead == corpus = 3 /\ asked = <<>>

\* "To compare two types, one just needs to compare their canonical types": types
\* with one canonical type are the same all the way down, even if one got it while
\* the types it refers to, or is referred to by, had none.
CanonicalMeansSame ==
  BothRead /\ AllDefined =>
    LET same == SameTypes IN
    \A t, u \in built : HasCanonical(t) /\ canonical[t] = canonical[u] => <<t, u>> \in same

\* The converse, "T == T' if and only if C(T) == C(T')".
SameMeansCanonical ==
  BothRead /\ AllDefined =>
    \A p \in SameTypes :
      HasCanonical(p[1]) /\ HasCanonical(p[2]) => canonical[p[1]] = canonical[p[2]]

\* The XML reader gives every type a canonical type; the DWARF reader those that
\* have no cycle, and no declaration, below, virtual member functions or not: the
\* late pass finds their parts canonicalized, in whatever order types were met.  Only
\* a type of the primary file must not have a class with virtual member functions of
\* the alternate file below: that one is canonicalized too late.
TypesGetCanonical ==
  BothRead =>
    LET grounded == Grounded(Declared)
        early == Grounded(Declared \cup PutOff)
    IN \A t \in built :
         Kind(t) # "declaration" =>
           IF Reader = "xml" THEN HasCanonical(t)
           ELSE HasCanonical(t) <=> t \in (IF Alternate(t) THEN grounded ELSE early)

\* A comparison that takes marks and canonical types for granted finds out whether
\* the types are the same.  (The types of the XML reader may be split by their
\* hashes; then they may be said to differ.)
AnswerIsRight ==
  /\ answer = "yes" => asked \in SameTypes
  /\ answer = "no" /\ (Reader = "dwarf" \/ CollideIn(world)) => asked \notin SameTypes

AnswersAreRight ==
  Answered /\ AllDefined => AnswerIsRight

\* The marks are those of the classes that are being compared: a comparison leaves
\* none behind, and none is taken away from a class that is still being compared,
\* but for a comparison that has already failed.
MarksMatch ==
  LET open == UNION {{Name(f.l), Name(f.r)} :
                     f \in {f \in ToSet(comparing) : f.open /\ IsClass(f.l)}}
  IN  marks \subseteq open /\ (answer # "no" => marks = open)

\* Comparisons are right, and clean up after themselves, and neither they nor hashing
\* go round in circles.
ComparisonsAreRight == TypeOK /\ AnswersAreRight /\ MarksMatch

\* Hashing, comparing and reading end, whatever cycles the types have.
Ends == <>[]Answered
=============================================================================
