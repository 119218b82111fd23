------------------------ MODULE CanonicalTypesProofs ------------------------
(* Proofs about canonical types: comparisons mark the classes they are      *)
(* comparing and no others, and types with one canonical type are the same  *)
(* all the way down, in whatever order the types are read and canonicalized.*)
EXTENDS CanonicalTypes, InductionLemmas

-----------------------------------------------------------------------------
(* The inductive invariant, by subject.  What is built and compared:        *)
BuildFrames == [type : Type, next : Nat]
CompareFrames == [l : Type, r : Type, open : BOOLEAN, next : Nat]

StateInv ==
  /\ world \in Worlds
  /\ corpus \in 1 .. 3
  /\ built \subseteq Type
  /\ building \in Seq(BuildFrames)
  /\ late \in [Files -> Seq(Type)]
  /\ canonical \in [Type -> Type \cup {NoType}]
  /\ comparing \in Seq(CompareFrames)
  /\ answer \in {"none", "yes", "no"}
  /\ asked = <<>> \/ asked \in built \X built

(* The hashes, which are those of a set H.                                  *)
HashFrames(H) == [type : Type, got : Seq(H)]
Entries(H) == [type : Type, hash : H]
Jobs(H) == [type : Type \cup {NoType}, hash : H, tried : Nat]
HashesFrom(H) ==
  /\ NoHash \in H
  /\ hashing \in Seq(HashFrames(H))
  /\ table \in Seq(Entries(H))
  /\ job \in Jobs(H)

ClassesHashedOnce ==
  \A i, j \in DOMAIN hashing :
    i < j /\ Kind(hashing[i].type) = "class" => hashing[i].type # hashing[j].type

HashesInv == (\E H : HashesFrom(H)) /\ ClassesHashedOnce

(* What is under way, one thing at a time.                                  *)
TurnsInv ==
  /\ job = NoJob \/ /\ job.type \in built /\ Kind(job.type) # "declaration"
                    /\ ~HasCanonical(job.type)
                    /\ corpus \in Corpora /\ asked = <<>>
  /\ hashing # <<>> => job # NoJob /\ job.tried = 0 /\ comparing = <<>> /\ answer = "none"
  /\ comparing # <<>> \/ answer # "none" =>
       asked # <<>> \/ (job # NoJob /\ job.tried \in DOMAIN table)
  /\ asked # <<>> => corpus = 3
  /\ corpus = 3 => building = <<>> /\ NothingLate

(* What has been read: the parts of a type that is built are built, or      *)
(* among those being built.                                                 *)
Path == {building[i].type : i \in DOMAIN building}
Found == built \cup Path
LateRead ==
  \A f \in Files : \A i \in DOMAIN late[f] :
    /\ late[f][i] \in Found /\ Kind(late[f][i]) # "declaration"
    /\ CorpusOf(late[f][i]) = corpus /\ FileOf(late[f][i]) = f
ReadInv ==
  /\ \A i \in DOMAIN building :
       LET f == building[i] IN
       /\ CorpusOf(f.type) = corpus
       /\ f.next \in 1 .. Len(Parts(f.type)) + 1
       /\ \A k \in 1 .. f.next - 1 : Parts(f.type)[k] \in Found
       /\ i > 1 => /\ f.next \in DOMAIN Parts(f.type)
                   /\ building[i - 1].type = Parts(f.type)[f.next]
  /\ \A t \in built : CorpusOf(t) <= corpus
  /\ \A t \in built : \A k \in DOMAIN Parts(t) : Parts(t)[k] \in Found
  /\ LateRead

ReadBy(c) == c < corpus \/ (c = corpus /\ building = <<>> /\ Roots \subseteq built)
BeingCanonicalized(t) == HasCanonical(t) \/ t = job.type
Settled(t) == t \in built /\ (ReadBy(CorpusOf(t)) \/ BeingCanonicalized(t))

(* Canonical types are their own, and in the table; a type that gets one    *)
(* before its corpus has been read has parts with canonical types.          *)
CanonicalInv ==
  /\ \A t \in Type :
       HasCanonical(t) =>
         /\ t \in built /\ Kind(t) # "declaration"
         /\ \E i \in DOMAIN table : table[i].type = canonical[t]
  /\ \A i \in DOMAIN table : canonical[table[i].type] = table[i].type
  /\ \A t \in Type :
       BeingCanonicalized(t) => ReadBy(CorpusOf(t)) \/ HasCanonicalParts(t)

(* The comparisons under way: what each compares, down from the types that  *)
(* are to be compared.                                                      *)
Root == IF asked # <<>> THEN asked ELSE <<job.type, Candidate>>
PairOf(f) == <<f.l, f.r>>

FrameInv(f) ==
  /\ Settled(f.l) /\ Settled(f.r)
  /\ CorpusOf(f.l) = CorpusOf(Root[1]) /\ CorpusOf(f.r) = CorpusOf(Root[2])
  /\ f.next >= 1
  /\ IF f.open THEN LooksAlike(f.l, f.r) ELSE f.next = 1

ComparesPart(f) == /\ f.open /\ ~HasOtherLayout(f.l, f.r)
                   /\ f.next \in DOMAIN Pairs(f.l, f.r)
LeadsTo(f, g) == /\ ComparesPart(f)
                 /\ PairOf(g) = Pairs(f.l, f.r)[f.next]
                 /\ ThroughDeclaration(f.l, f.r) => ~g.open

CompareInv ==
  /\ \A i \in DOMAIN comparing : FrameInv(comparing[i])
  /\ \A i \in 1 .. Len(comparing) - 1 : LeadsTo(comparing[i + 1], comparing[i])
  /\ comparing # <<>> => PairOf(comparing[Len(comparing)]) = Root
  /\ comparing # <<>> /\ answer # "none" => ComparesPart(comparing[1])

(* The marks are the names of the classes being compared, no two of which   *)
(* have a name in common; but some may be gone when a comparison has failed.*)
ClassOpen(f) == f.open /\ IsClass(f.l)
NamesOf(f) == {Name(f.l), Name(f.r)}

MarksInv ==
  /\ \A i, j \in DOMAIN comparing :
       i # j /\ ClassOpen(comparing[i]) /\ ClassOpen(comparing[j])
         => NamesOf(comparing[i]) \cap NamesOf(comparing[j]) = {}
  /\ \A n \in marks :
       \E i \in DOMAIN comparing : ClassOpen(comparing[i]) /\ n \in NamesOf(comparing[i])
  /\ answer # "no" =>
       \A i \in DOMAIN comparing : ClassOpen(comparing[i]) => NamesOf(comparing[i]) \subseteq marks

Inv == /\ StateInv /\ HashesInv /\ TurnsInv /\ ReadInv
       /\ CanonicalInv /\ CompareInv /\ MarksInv

-----------------------------------------------------------------------------
(* Types and their parts.                                                   *)
LEMMA TypeFacts ==
    ASSUME StateInv, NEW t \in Type
    PROVE  /\ CorpusOf(t) \in Corpora /\ Kind(t) \in Kinds
           /\ Parts(t) \in Seq(Type) /\ Len(Parts(t)) \in Nat
           /\ DOMAIN Parts(t) = 1 .. Len(Parts(t))
           /\ \A k \in DOMAIN Parts(t) : /\ Parts(t)[k] \in Type
                                        /\ CorpusOf(Parts(t)[k]) = CorpusOf(t)
           /\ Kind(t) = "declaration" => Parts(t) = <<>>
  <1> DEFINE S == {u \in Type : CorpusOf(u) = CorpusOf(t)}
  <1>1. Parts(t) \in Seq(S) /\ (Kind(t) = "declaration" => Parts(t) = <<>>)
    BY WorldsAssumption DEF StateInv, Parts
  <1>2. CorpusOf(t) \in Corpora /\ Kind(t) \in Kinds
    BY TypesAssumption
  <1>3. \A k \in DOMAIN Parts(t) : Parts(t)[k] \in S
    BY <1>1, ElementOfSeq, LenProperties
  <1>4. Parts(t) \in Seq(Type) /\ Len(Parts(t)) \in Nat /\ DOMAIN Parts(t) = 1 .. Len(Parts(t))
    BY <1>1, <1>3, LenProperties, SeqDef
  <1> QED
    BY <1>1, <1>2, <1>3, <1>4

LEMMA DefinitionFacts ==
    ASSUME StateInv, NEW t \in Type, Definition(t) # NoType
    PROVE  /\ Definition(t) \in Type /\ Kind(Definition(t)) # "declaration"
           /\ IsClass(Definition(t)) = IsClass(t)
           /\ CorpusOf(Definition(t)) = CorpusOf(t) /\ Name(Definition(t)) = Name(t)
           /\ Kind(t) = "declaration" => Definition(t) \in built
           /\ Kind(t) # "declaration" => Definition(t) = t
  BY TypesAssumption DEF Definition, IsClass, Kinds

(* A type that is settled has parts, or a definition, that are settled, too *)
(* -- all that comparing gets to see.                                       *)
LEMMA SettledParts ==
    ASSUME StateInv, ReadInv, CanonicalInv, NEW t \in Type, Settled(t), NEW k \in DOMAIN Parts(t)
    PROVE  Settled(Parts(t)[k])
  <1>1. t \in built /\ Parts(t)[k] \in Type /\ CorpusOf(Parts(t)[k]) = CorpusOf(t)
    BY TypeFacts DEF Settled
  <1>2. CASE ReadBy(CorpusOf(t))
    <2>1. Parts(t)[k] \in Found
      BY <1>1 DEF ReadInv
    <2>2. Parts(t)[k] \notin Path
      <3>1. CASE building = <<>>
        BY <3>1 DEF Path
      <3>2. CASE CorpusOf(t) < corpus
        BY <1>1, <3>2, TypeFacts DEF Path, ReadInv, StateInv, Corpora
      <3> QED
        BY <1>2, <3>1, <3>2 DEF ReadBy
    <2> QED
      BY <1>1, <1>2, <2>1, <2>2 DEF Settled, Found
  <1>3. CASE HasCanonicalParts(t)
    BY <1>1, <1>3 DEF HasCanonicalParts, CanonicalInv, Settled, BeingCanonicalized
  <1> QED
    BY <1>1, <1>2, <1>3 DEF Settled, CanonicalInv

LEMMA SettledDefinition ==
    ASSUME StateInv, TurnsInv, CanonicalInv, NEW t \in Type, Settled(t), Definition(t) # NoType
    PROVE  Settled(Definition(t))
  <1>1. CASE Kind(t) = "declaration"
    <2>1. ReadBy(CorpusOf(t))
      BY <1>1, TypesAssumption DEF Settled, BeingCanonicalized, CanonicalInv, TurnsInv, NoJob, Job
    <2> QED
      BY <1>1, <2>1, DefinitionFacts DEF Settled
  <1> QED
    BY <1>1, DefinitionFacts

LEMMA SettledPairs ==
    ASSUME StateInv, TurnsInv, ReadInv, CanonicalInv,
           NEW l \in Type, NEW r \in Type, Settled(l), Settled(r), LooksAlike(l, r),
           ~HasOtherLayout(l, r), NEW k \in DOMAIN Pairs(l, r)
    PROVE  \E u, v \in Type :
             /\ Pairs(l, r)[k] = <<u, v>>
             /\ Settled(u) /\ Settled(v)
             /\ CorpusOf(u) = CorpusOf(l) /\ CorpusOf(v) = CorpusOf(r)
             /\ ThroughDeclaration(l, r) => u = Definition(l) /\ v = Definition(r)
             /\ ~ThroughDeclaration(l, r) => k \in DOMAIN Parts(l) /\ u = Parts(l)[k] /\ v = Parts(r)[k]
  <1>1. CASE ThroughDeclaration(l, r)
    <2>1. Definition(l) # NoType /\ Definition(r) # NoType
      BY <1>1 DEF LooksAlike, Undefined
    <2>2. Pairs(l, r)[k] = <<Definition(l), Definition(r)>>
      BY <1>1 DEF Pairs
    <2> QED
      BY <1>1, <2>1, <2>2, SettledDefinition, DefinitionFacts
  <1>2. CASE ~ThroughDeclaration(l, r)
    <2>1. k \in DOMAIN Parts(l) /\ Len(Parts(l)) = Len(Parts(r))
          /\ Pairs(l, r)[k] = <<Parts(l)[k], Parts(r)[k]>>
      BY <1>2 DEF Pairs, HasOtherLayout
    <2>2. k \in DOMAIN Parts(r)
      BY <2>1, TypeFacts
    <2> QED
      BY <1>2, <2>1, <2>2, SettledParts, TypeFacts
  <1> QED
    BY <1>1, <1>2

-----------------------------------------------------------------------------
(* The invariant holds at first.                                            *)
LEMMA InvInit == Init => Inv
  <1> SUFFICES ASSUME Init
               PROVE  Inv
    OBVIOUS
  <1>1. StateInv
    BY DEF Init, StateInv
  <1>2. HashesInv
    <2>1. /\ hashing = <<>> /\ table = <<>>
          /\ job = [type |-> NoType, hash |-> NoHash, tried |-> 0]
      BY DEF Init, NoJob, Job
    <2>2. HashesFrom({NoHash})
      BY <2>1 DEF HashesFrom, HashFrames, Entries, Jobs
    <2> QED
      BY <2>1, <2>2 DEF HashesInv, ClassesHashedOnce
  <1>3. TurnsInv
    BY DEF Init, TurnsInv
  <1>4. ReadInv
    BY DEF Init, ReadInv, LateRead
  <1>5. \A t \in Type : ~HasCanonical(t) /\ ~BeingCanonicalized(t)
    BY TypesAssumption DEF Init, HasCanonical, BeingCanonicalized, NoJob, Job
  <1>6. CanonicalInv
    BY <1>5 DEF Init, CanonicalInv
  <1>7. CompareInv /\ MarksInv
    BY DEF Init, CompareInv, MarksInv
  <1> QED
    BY <1>1, <1>2, <1>3, <1>4, <1>6, <1>7 DEF Inv

-----------------------------------------------------------------------------
(* Hashes.                                                                  *)
LEMMA MoreHashes ==
    ASSUME NEW H, HashesFrom(H), NEW h
    PROVE  HashesFrom(H \cup {h})
  <1> DEFINE I == H \cup {h}
  <1>1. Seq(H) \subseteq Seq(I)
    BY SeqOfMore
  <1>2. HashFrames(H) \subseteq HashFrames(I) /\ Entries(H) \subseteq Entries(I) /\ Jobs(H) \subseteq Jobs(I)
    BY <1>1 DEF HashFrames, Entries, Jobs
  <1>3. hashing \in Seq(HashFrames(I)) /\ table \in Seq(Entries(I))
    BY <1>2, SeqOfMore DEF HashesFrom
  <1> QED
    BY <1>2, <1>3 DEF HashesFrom

(* A hash that is handed to the type above leaves the types as they are.    *)
LEMMA GotHash ==
    ASSUME NEW H, NEW h \in H, NEW s \in Seq(HashFrames(H)), s # <<>>
    PROVE  /\ Got(s, h) \in Seq(HashFrames(H)) /\ Len(Got(s, h)) = Len(s)
           /\ \A i \in 1 .. Len(s) : Got(s, h)[i].type = s[i].type
           /\ Got(s, h)[1].got = Append(s[1].got, h)
           /\ \A i \in 2 .. Len(s) : Got(s, h)[i] = s[i]
  <1> DEFINE f == [s[1] EXCEPT !.got = Append(@, h)]
  <1>1. s[1] \in HashFrames(H) /\ Len(s) \in Nat \ {0}
    BY Pop
  <1>2. f \in HashFrames(H) /\ f.type = s[1].type /\ f.got = Append(s[1].got, h)
    BY <1>1, AppendProperties DEF HashFrames
  <1>3. Got(s, h) = <<f>> \o Tail(s)
    BY DEF Got
  <1> HIDE DEF f
  <1> QED
    BY <1>1, <1>2, <1>3, PutFirst

LEMMA HashingFacts ==
    ASSUME StateInv, NEW H, HashesFrom(H), hashing # <<>>
    PROVE  /\ Hashing = hashing[1] /\ Hashing \in HashFrames(H) /\ Len(hashing) \in Nat \ {0}
           /\ Hashing.type \in Type /\ Hashing.got \in Seq(H)
           /\ HashLeft => HashNext \in Type
  <1>1. Hashing = hashing[1] /\ Hashing \in HashFrames(H) /\ Len(hashing) \in Nat \ {0}
    BY Pop DEF HashesFrom, Hashing
  <1>2. Hashing.type \in Type /\ Hashing.got \in Seq(H) /\ Len(Hashing.got) \in Nat
    BY <1>1, LenProperties DEF HashFrames
  <1>3. HashLeft => Len(Hashing.got) + 1 \in DOMAIN Parts(Hashing.type)
    BY <1>2, TypeFacts DEF HashLeft
  <1> QED
    BY <1>1, <1>2, <1>3, TypeFacts DEF HashNext

LEMMA HashStep ==
    ASSUME Inv, Hash
    PROVE  HashesInv' /\ hashing # <<>> /\ job' = [job EXCEPT !.hash = job'.hash]
  <1>1. hashing # <<>>
    BY DEF Hash, HashKnownPart, HashPart, HashDone, HashLeft
  <1>2. PICK H : HashesFrom(H)
    BY DEF Inv, HashesInv
  <1>3. job = [job EXCEPT !.hash = job.hash] /\ DOMAIN hashing = 1 .. Len(hashing)
    BY <1>2, LenProperties DEF HashesFrom, Jobs
  <1>4. ASSUME NEW h, hashing' = Got(hashing, h), UNCHANGED <<job, table>>
        PROVE  HashesInv'
    <2> DEFINE I == H \cup {h}
    <2>1. HashesFrom(I)
      BY <1>2, MoreHashes
    <2>2. /\ hashing' \in Seq(HashFrames(I)) /\ Len(hashing') = Len(hashing)
          /\ \A i \in 1 .. Len(hashing) : hashing'[i].type = hashing[i].type
      <3>1. hashing \in Seq(HashFrames(I)) /\ h \in I
        BY <2>1 DEF HashesFrom
      <3> HIDE DEF I
      <3> QED
        BY <1>1, <1>4, <3>1, GotHash
    <2>3. HashesFrom(I)'
      BY <1>4, <2>1, <2>2 DEF HashesFrom
    <2>4. ClassesHashedOnce'
      BY <1>3, <2>2, LenProperties DEF ClassesHashedOnce, Inv, HashesInv
    <2> QED
      BY <2>3, <2>4 DEF HashesInv
  <1>5. CASE HashKnownPart
    BY <1>1, <1>3, <1>4, <1>5 DEF HashKnownPart
  <1>6. CASE HashPart
    <2>1. HashNext \in Type /\ ~HashesToZero(HashNext) /\ UNCHANGED <<job, table>>
      BY <1>1, <1>2, <1>6, HashingFacts DEF HashPart, Inv
    <2>2. HashFrame(HashNext) \in HashFrames(H)
      BY <2>1 DEF HashFrame, HashFrames
    <2>3. hashing' = <<HashFrame(HashNext)>> \o hashing
      BY <1>6 DEF HashPart
    <2>4. /\ hashing' \in Seq(HashFrames(H)) /\ Len(hashing') = Len(hashing) + 1
          /\ hashing'[1] = HashFrame(HashNext)
          /\ \A i \in 1 .. Len(hashing) : hashing'[i + 1] = hashing[i]
      BY <1>2, <2>2, <2>3, Push DEF HashesFrom
    <2>5. HashesFrom(H)'
      BY <1>2, <2>1, <2>4 DEF HashesFrom
    <2>6. ASSUME NEW i \in DOMAIN hashing', NEW j \in DOMAIN hashing', i < j,
                 Kind(hashing'[i].type) = "class"
          PROVE  hashing'[i].type # hashing'[j].type
      <3>1. i \in Nat /\ j \in Nat /\ j - 1 \in DOMAIN hashing /\ hashing'[j] = hashing[j - 1]
        BY <1>3, <2>4, <2>6, LenProperties, (j - 1) + 1 = j
      <3>2. CASE i = 1
        BY <2>1, <2>4, <2>6, <3>1, <3>2 DEF HashesToZero, HashFrame
      <3>3. CASE i # 1
        <4>1. i - 1 \in DOMAIN hashing /\ hashing'[i] = hashing[i - 1]
          BY <1>3, <2>4, <2>6, <3>1, <3>3, LenProperties, (i - 1) + 1 = i
        <4> QED
          BY <2>6, <3>1, <4>1 DEF Inv, HashesInv, ClassesHashedOnce
      <3> QED
        BY <3>2, <3>3
    <2>7. ClassesHashedOnce'
      BY <2>6 DEF ClassesHashedOnce
    <2> QED
      BY <1>1, <1>3, <2>1, <2>5, <2>7 DEF HashesInv
  <1>7. CASE HashDone
    <2>0. PICK h : h = HashOf(Hashing.type, Hashing.got)
      OBVIOUS
    <2> DEFINE I == H \cup {h}
    <2>1. HashesFrom(I) /\ h \in I /\ table' = table
      BY <1>2, <1>7, MoreHashes DEF HashDone
    <2> HIDE DEF I
    <2>2. CASE Len(hashing) > 1
      <3>1. PICK s : s = Tail(hashing)
        OBVIOUS
      <3>2. hashing' = Got(s, h) /\ job' = job
        BY <1>7, <2>0, <2>2, <3>1 DEF HashDone
      <3>3. /\ Len(hashing) \in Nat \ {0}
            /\ s \in Seq(HashFrames(I)) /\ Len(s) = Len(hashing) - 1
            /\ \A i \in 1 .. Len(hashing) - 1 : s[i] = hashing[i + 1]
        BY <1>1, <2>1, <3>1, Pop DEF HashesFrom
      <3>4. /\ hashing' \in Seq(HashFrames(I)) /\ Len(hashing') = Len(hashing) - 1
            /\ \A i \in 1 .. Len(hashing) - 1 : hashing'[i].type = hashing[i + 1].type
        <4>1. s # <<>>
          BY <2>2, <3>3, EmptySeq
        <4>2. /\ Got(s, h) \in Seq(HashFrames(I)) /\ Len(Got(s, h)) = Len(s)
              /\ \A i \in 1 .. Len(s) : Got(s, h)[i].type = s[i].type
          BY <2>1, <3>3, <4>1, GotHash
        <4> QED
          BY <3>2, <3>3, <4>2
      <3>5. HashesFrom(I)'
        BY <2>1, <3>2, <3>4 DEF HashesFrom
      <3>6. Len(hashing) \in Nat
        BY <1>2, LenProperties DEF HashesFrom
      <3>7. ClassesHashedOnce'
        BY <1>3, <3>4, <3>6, LenProperties DEF ClassesHashedOnce, Inv, HashesInv
      <3> QED
        BY <1>1, <1>3, <3>2, <3>5, <3>7 DEF HashesInv
    <2>3. CASE ~(Len(hashing) > 1)
      <3>1. hashing' = <<>> /\ job' = [job EXCEPT !.hash = h]
        BY <1>7, <2>0, <2>3 DEF HashDone
      <3>2. job \in Jobs(I)
        BY <2>1 DEF HashesFrom
      <3>3. job' \in Jobs(I) /\ job' = [job EXCEPT !.hash = job'.hash]
        BY <2>1, <3>1, <3>2 DEF Jobs
      <3>4. HashesFrom(I)'
        BY <2>1, <3>1, <3>3 DEF HashesFrom
      <3> QED
        BY <1>1, <3>1, <3>3, <3>4 DEF HashesInv, ClassesHashedOnce
    <2> QED
      BY <2>2, <2>3
  <1> QED
    BY <1>1, <1>5, <1>6, <1>7 DEF Hash

-----------------------------------------------------------------------------
(* Comparing.  While types are compared, what is read and what is canonical *)
(* stays as it is.                                                          *)
CompareOnly == UNCHANGED <<readVars, canonical, table, job, hashVars, asked>>

LEMMA CompareKeeps ==
    ASSUME CompareOnly
    PROVE  /\ \A f : FrameInv(f)' <=> FrameInv(f)
           /\ \A f : ComparesPart(f)' <=> ComparesPart(f)
           /\ \A f, g : LeadsTo(f, g)' <=> LeadsTo(f, g)
           /\ Root' = Root
  <1>1. UNCHANGED <<world, corpus, built, building, canonical, table, job, asked>>
    BY DEF CompareOnly, readVars
  <1>2. \A t : Parts(t)' = Parts(t) /\ Label(t)' = Label(t) /\ Layout(t)' = Layout(t)
    BY <1>1 DEF Parts, Label, Layout
  <1>3. \A t : Definition(t)' = Definition(t) /\ (HasCanonical(t)' <=> HasCanonical(t))
    BY <1>1 DEF Definition, HasCanonical
  <1>4. \A l, r : /\ LooksAlike(l, r)' <=> LooksAlike(l, r)
                  /\ HasOtherLayout(l, r)' <=> HasOtherLayout(l, r)
    BY <1>2, <1>3 DEF LooksAlike, IsKnown, Undefined, Unlike, HasOtherLayout
  <1>5. \A l, r : Pairs(l, r)' = Pairs(l, r)
    BY <1>2, <1>3 DEF Pairs
  <1>6. \A t : Settled(t)' <=> Settled(t)
    BY <1>1, <1>3 DEF Settled, ReadBy, Roots, BeingCanonicalized
  <1>7. Root' = Root
    BY <1>1 DEF Root, Candidate
  <1>8. \A f : ComparesPart(f)' <=> ComparesPart(f)
    BY <1>4, <1>5 DEF ComparesPart
  <1> QED
    BY <1>4, <1>5, <1>6, <1>7, <1>8 DEF FrameInv, LeadsTo

LEMMA ComparingFacts ==
    ASSUME StateInv, comparing # <<>>
    PROVE  /\ Here = comparing[1] /\ Here \in CompareFrames
           /\ L \in Type /\ R \in Type /\ Len(comparing) \in Nat \ {0}
           /\ DOMAIN comparing = 1 .. Len(comparing)
           /\ Tail(comparing) \in Seq(CompareFrames)
           /\ Len(Tail(comparing)) = Len(comparing) - 1
           /\ \A i \in 1 .. Len(comparing) - 1 : Tail(comparing)[i] = comparing[i + 1]
  <1>1. comparing \in Seq(CompareFrames)
    BY DEF StateInv
  <1>2. Here = comparing[1] /\ Here \in CompareFrames
    BY <1>1, Pop DEF Here
  <1>3. L \in Type /\ R \in Type
    BY <1>2 DEF L, R, CompareFrames
  <1> QED
    BY <1>1, <1>2, <1>3, Pop, LenProperties

(* A comparison ends ...                                                    *)
LEMMA ReturnStep ==
    ASSUME StateInv, CompareInv, comparing # <<>>, CompareOnly,
           comparing' = Tail(comparing)
    PROVE  CompareInv' /\ comparing' \in Seq(CompareFrames)
  <1>1. PICK s : s = Tail(comparing)
    OBVIOUS
  <1>2. /\ s \in Seq(CompareFrames) /\ Len(s) = Len(comparing) - 1 /\ Len(comparing) \in Nat \ {0}
        /\ \A i \in 1 .. Len(comparing) - 1 : s[i] = comparing[i + 1]
        /\ DOMAIN comparing = 1 .. Len(comparing)
    BY <1>1, ComparingFacts
  <1>3. comparing' = s /\ DOMAIN s = 1 .. Len(s) /\ (s # <<>> => Len(s) # 0)
    BY <1>1, <1>2, LenProperties, EmptySeq
  <1>4. ASSUME NEW i \in 1 .. Len(comparing) - 1
        PROVE  i + 1 \in DOMAIN comparing /\ comparing'[i] = comparing[i + 1]
    BY <1>2, <1>3
  <1>5. \A i \in DOMAIN comparing' : FrameInv(comparing[i])'
    BY <1>2, <1>3, <1>4, CompareKeeps DEF CompareInv
  <1>6. \A i \in 1 .. Len(comparing') - 1 : LeadsTo(comparing[i + 1], comparing[i])'
    <2> TAKE i \in 1 .. Len(comparing') - 1
    <2>1. i \in 1 .. Len(comparing) - 1 /\ i + 1 \in 1 .. Len(comparing) - 1
      BY <1>2, <1>3
    <2>2. LeadsTo(comparing[(i + 1) + 1], comparing[i + 1])
      BY <2>1 DEF CompareInv
    <2> QED
      BY <1>4, <2>1, <2>2, CompareKeeps
  <1>7. ASSUME comparing' # <<>>
        PROVE  PairOf(comparing[Len(comparing)])' = Root' /\ ComparesPart(comparing[1])'
    <2>1. Len(s) \in 1 .. Len(comparing) - 1 /\ 1 \in 1 .. Len(comparing) - 1 /\ Len(s) + 1 = Len(comparing)
      BY <1>2, <1>3, <1>7
    <2>2. comparing'[Len(comparing')] = comparing[Len(comparing)] /\ comparing'[1] = comparing[2]
      BY <1>3, <1>4, <2>1
    <2>3. ComparesPart(comparing[2])
      BY <2>1 DEF CompareInv, LeadsTo
    <2> QED
      BY <2>2, <2>3, CompareKeeps DEF CompareInv, PairOf
  <1> QED
    BY <1>2, <1>3, <1>5, <1>6, <1>7 DEF CompareInv

(* ... goes on ...                                                          *)
LEMMA GoOnStep ==
    ASSUME StateInv, CompareInv, comparing # <<>>, CompareOnly,
           NEW g \in CompareFrames, comparing' = <<g>> \o Tail(comparing),
           PairOf(g) = PairOf(Here), FrameInv(g), answer' = "none",
           Len(comparing) > 1 => LeadsTo(comparing[2], g)
    PROVE  CompareInv' /\ comparing' \in Seq(CompareFrames)
  <1>1. /\ Here = comparing[1] /\ Here \in CompareFrames /\ Len(comparing) \in Nat \ {0}
        /\ DOMAIN comparing = 1 .. Len(comparing) /\ comparing \in Seq(CompareFrames)
    BY ComparingFacts DEF StateInv
  <1>2. /\ comparing' \in Seq(CompareFrames) /\ Len(comparing') = Len(comparing)
        /\ comparing'[1] = g /\ \A i \in 2 .. Len(comparing) : comparing'[i] = comparing[i]
    BY <1>1, PutFirst
  <1>3. DOMAIN comparing' = 1 .. Len(comparing)
    BY <1>2, LenProperties
  <1>4. \A i \in DOMAIN comparing' : FrameInv(comparing[i])'
    BY <1>1, <1>2, <1>3, CompareKeeps DEF CompareInv
  <1>5. \A i \in 1 .. Len(comparing') - 1 : LeadsTo(comparing[i + 1], comparing[i])'
    <2> TAKE i \in 1 .. Len(comparing') - 1
    <2>1. i \in 1 .. Len(comparing) - 1 /\ comparing'[i + 1] = comparing[i + 1]
      BY <1>1, <1>2
    <2>2. LeadsTo(comparing[i + 1], comparing[i])
      BY <2>1 DEF CompareInv
    <2>3. LeadsTo(comparing'[i + 1], comparing'[i])
      BY <1>1, <1>2, <2>1, <2>2
    <2> QED
      BY <2>3, CompareKeeps
  <1>6. PairOf(comparing[Len(comparing)])' = Root'
    <2>1. PairOf(comparing'[Len(comparing)]) = PairOf(comparing[Len(comparing)])
      BY <1>1, <1>2 DEF PairOf
    <2> QED
      BY <1>2, <2>1, CompareKeeps DEF CompareInv, PairOf
  <1> QED
    BY <1>2, <1>4, <1>5, <1>6 DEF CompareInv

(* ... or waits for another.                                                *)
LEMMA DescendStep ==
    ASSUME StateInv, CompareInv, comparing # <<>>, CompareOnly,
           NEW g \in CompareFrames, comparing' = <<g>> \o comparing,
           LeadsTo(Here, g), FrameInv(g), answer' = "none"
    PROVE  CompareInv' /\ comparing' \in Seq(CompareFrames)
  <1>1. /\ Here = comparing[1] /\ Here \in CompareFrames /\ Len(comparing) \in Nat \ {0}
        /\ DOMAIN comparing = 1 .. Len(comparing) /\ comparing \in Seq(CompareFrames)
    BY ComparingFacts DEF StateInv
  <1>2. /\ comparing' \in Seq(CompareFrames) /\ Len(comparing') = Len(comparing) + 1
        /\ comparing'[1] = g /\ \A i \in 1 .. Len(comparing) : comparing'[i + 1] = comparing[i]
    BY <1>1, Push
  <1>3. DOMAIN comparing' = 1 .. Len(comparing) + 1
    BY <1>2, LenProperties
  <1>4. ASSUME NEW i \in 2 .. Len(comparing) + 1
        PROVE  i - 1 \in 1 .. Len(comparing) /\ comparing'[i] = comparing[i - 1]
    BY <1>1, <1>2, i - 1 \in 1 .. Len(comparing), (i - 1) + 1 = i
  <1>5. \A i \in DOMAIN comparing' : FrameInv(comparing[i])'
    <2> TAKE i \in DOMAIN comparing'
    <2>1. CASE i = 1
      BY <1>2, <2>1, CompareKeeps
    <2>2. CASE i # 1
      <3>1. i \in 2 .. Len(comparing) + 1
        BY <1>1, <1>3, <2>2
      <3> QED
        BY <1>1, <1>4, <3>1, CompareKeeps DEF CompareInv
    <2> QED
      BY <2>1, <2>2
  <1>6. \A i \in 1 .. Len(comparing') - 1 : LeadsTo(comparing[i + 1], comparing[i])'
    <2> TAKE i \in 1 .. Len(comparing') - 1
    <2>1. i \in 1 .. Len(comparing) /\ comparing'[i + 1] = comparing[i]
      BY <1>1, <1>2
    <2>2. CASE i = 1
      BY <1>1, <1>2, <2>1, <2>2, CompareKeeps
    <2>3. CASE i # 1
      <3>1. i \in 2 .. Len(comparing) + 1 /\ i - 1 \in 1 .. Len(comparing) - 1 /\ (i - 1) + 1 = i
        BY <1>1, <2>1, <2>3
      <3>2. LeadsTo(comparing[(i - 1) + 1], comparing[i - 1])
        BY <3>1 DEF CompareInv
      <3> QED
        BY <1>4, <2>1, <3>1, <3>2, CompareKeeps
    <2> QED
      BY <2>2, <2>3
  <1>7. PairOf(comparing[Len(comparing)])' = Root'
    BY <1>1, <1>2, CompareKeeps DEF CompareInv, PairOf
  <1> QED
    BY <1>2, <1>5, <1>6, <1>7 DEF CompareInv

LEMMA HereFacts ==
    ASSUME Inv, comparing # <<>>
    PROVE  /\ FrameInv(Here) /\ Here \in CompareFrames
           /\ L = Here.l /\ R = Here.r /\ L \in Type /\ R \in Type
           /\ answer # "none" => ComparesPart(Here)
  BY ComparingFacts DEF Inv, CompareInv, L, R

LEMMA CompareStep ==
    ASSUME Inv, Compare
    PROVE  CompareOnly /\ comparing # <<>> /\ StateInv' /\ CompareInv'
  <1>1. StateInv /\ CompareInv
    BY DEF Inv
  <1>2. ASSUME CompareOnly, answer' \in {"none", "yes", "no"}, comparing' \in Seq(CompareFrames)
        PROVE  StateInv'
    BY <1>1, <1>2 DEF StateInv, CompareOnly, readVars
  <1>3. ASSUME comparing # <<>>, NEW verdict \in {"yes", "no"}, Return(verdict)
        PROVE  CompareOnly /\ comparing # <<>> /\ StateInv' /\ CompareInv'
    BY <1>1, <1>2, <1>3, ReturnStep DEF Return, CompareOnly
  <1>4. \A b : Verdict(b) \in {"yes", "no"}
    BY DEF Verdict
  <1>5. CASE CompareKnown \/ CompareUndefined
    BY <1>3, <1>4, <1>5 DEF CompareKnown, CompareUndefined, AtStart, Comparing
  <1>6. CASE CompareUnlike \/ CompareStarted \/ CompareLayout \/ PartDiffers \/ CompareDone
    BY <1>3, <1>6 DEF CompareUnlike, CompareStarted, CompareLayout, PartDiffers, CompareDone,
       AtStart, Comparing
  <1>7. CASE CompareOpen
    <2>0. PICK g : g = [Here EXCEPT !.open = TRUE]
      OBVIOUS
    <2>1. /\ comparing # <<>> /\ answer' = "none" /\ ~Here.open /\ LooksAlike(L, R) /\ CompareOnly
          /\ comparing' = <<g>> \o Tail(comparing)
          /\ IsClass(L) => {Name(L), Name(R)} \cap marks = {}
      BY <1>7, <2>0 DEF CompareOpen, AtStart, Comparing, CompareOnly, Started
    <2>2. FrameInv(Here) /\ Here \in CompareFrames /\ L = Here.l /\ R = Here.r
      BY <2>1, HereFacts
    <2>3. g \in CompareFrames /\ g.l = Here.l /\ g.r = Here.r /\ g.open /\ g.next = Here.next
      BY <2>0, <2>2 DEF CompareFrames
    <2>4. FrameInv(g) /\ PairOf(g) = PairOf(Here)
      BY <2>1, <2>2, <2>3 DEF FrameInv, PairOf
    <2>5. ASSUME Len(comparing) > 1
          PROVE  LeadsTo(comparing[2], g)
      <3> DEFINE f == comparing[2]
      <3>1. /\ Here = comparing[1] /\ 1 \in 1 .. Len(comparing) - 1 /\ 2 \in DOMAIN comparing
            /\ f \in CompareFrames /\ answer = "none"
        <4>1. Here = comparing[1] /\ Len(comparing) \in Nat /\ comparing \in Seq(CompareFrames)
          BY <1>1, <2>1, ComparingFacts DEF StateInv
        <4>2. 2 \in 1 .. Len(comparing) /\ 1 \in 1 .. Len(comparing) - 1
          BY <2>5, <4>1
        <4> QED
          BY <1>7, <2>1, <4>1, <4>2, ElementOfSeq, LenProperties DEF CompareOpen, AtStart, Comparing
      <3>2. LeadsTo(f, Here) /\ FrameInv(f)
        BY <1>1, <3>1 DEF CompareInv
      <3>3. ClassOpen(f) => NamesOf(f) \subseteq marks
        BY <3>1 DEF Inv, MarksInv
      <3> HIDE DEF f
      <3>4. ASSUME ThroughDeclaration(f.l, f.r)
            PROVE  FALSE
        <4>1. f.l \in Type /\ f.r \in Type /\ f.open /\ LooksAlike(f.l, f.r)
          BY <3>1, <3>2 DEF LeadsTo, ComparesPart, FrameInv, CompareFrames
        <4>2. IsClass(f.l) /\ Definition(f.l) # NoType
          BY <3>4, <4>1 DEF ThroughDeclaration, LooksAlike, IsKnown, Undefined, IsClass
        <4>3. PairOf(Here) = <<Definition(f.l), Definition(f.r)>>
          BY <3>2, <3>4 DEF LeadsTo, Pairs, ComparesPart
        <4>4. L = Definition(f.l)
          BY <2>2, <4>3 DEF PairOf
        <4>5. Name(L) = Name(f.l) /\ IsClass(L)
          BY <1>1, <4>1, <4>2, <4>4, DefinitionFacts
        <4> QED
          BY <2>1, <3>3, <4>1, <4>2, <4>5 DEF ClassOpen, NamesOf
      <3> QED
        BY <2>4, <3>2, <3>4 DEF LeadsTo, f
    <2>6. CompareInv' /\ comparing' \in Seq(CompareFrames)
      BY <1>1, <2>1, <2>3, <2>4, <2>5, GoOnStep
    <2> QED
      BY <1>2, <2>1, <2>6
  <1>8. CASE ComparePart
    <2>1. /\ comparing # <<>> /\ answer' = "none" /\ Here.open /\ ~HasOtherLayout(L, R) /\ CompareOnly
          /\ Here.next <= Len(Pairs(L, R))
          /\ comparing' = <<CompareFrame(Pairs(L, R)[Here.next][1], Pairs(L, R)[Here.next][2])>> \o comparing
      BY <1>8 DEF ComparePart, Comparing, CompareOnly
    <2>2. /\ FrameInv(Here) /\ Here \in CompareFrames /\ L = Here.l /\ R = Here.r
          /\ L \in Type /\ R \in Type
      BY <2>1, HereFacts
    <2>3. /\ Settled(L) /\ Settled(R) /\ LooksAlike(L, R) /\ Here.next \in DOMAIN Pairs(L, R)
          /\ CorpusOf(L) = CorpusOf(Root[1]) /\ CorpusOf(R) = CorpusOf(Root[2])
      <3>1. DOMAIN Pairs(L, R) = 1 .. Len(Pairs(L, R))
        <4>1. CASE ThroughDeclaration(L, R)
          BY <4>1 DEF Pairs
        <4>2. CASE ~ThroughDeclaration(L, R)
          <5>1. Pairs(L, R) = [k \in 1 .. Len(Parts(L)) |-> <<Parts(L)[k], Parts(R)[k]>>]
            BY <1>1, <2>2, <4>2, TypeFacts DEF Pairs
          <5>2. Len(Parts(L)) \in Nat
            BY <1>1, <2>2, TypeFacts
          <5> QED
            BY <5>1, <5>2
        <4> QED
          BY <4>1, <4>2
      <3> QED
        BY <2>1, <2>2, <3>1 DEF FrameInv, CompareFrames
    <2>4. PICK u \in Type, v \in Type :
            /\ Pairs(L, R)[Here.next] = <<u, v>> /\ Settled(u) /\ Settled(v)
            /\ CorpusOf(u) = CorpusOf(L) /\ CorpusOf(v) = CorpusOf(R)
      BY <2>1, <2>2, <2>3, SettledPairs DEF Inv
    <2>5. PICK g : g = CompareFrame(u, v)
      OBVIOUS
    <2>6. g \in CompareFrames /\ g.l = u /\ g.r = v /\ ~g.open /\ g.next = 1
      BY <2>4, <2>5 DEF CompareFrame, CompareFrames
    <2>7. FrameInv(g) /\ LeadsTo(Here, g) /\ comparing' = <<g>> \o comparing
      BY <2>1, <2>2, <2>3, <2>4, <2>5, <2>6 DEF FrameInv, LeadsTo, ComparesPart, PairOf
    <2>8. CompareInv' /\ comparing' \in Seq(CompareFrames)
      BY <1>1, <2>1, <2>6, <2>7, DescendStep
    <2> QED
      BY <1>2, <2>1, <2>8
  <1>9. CASE PartEqual
    <2>1. PICK g : g = [Here EXCEPT !.next = @ + 1]
      OBVIOUS
    <2>2. /\ comparing # <<>> /\ answer = "yes" /\ answer' = "none" /\ CompareOnly
          /\ comparing' = <<g>> \o Tail(comparing)
      BY <1>9, <2>1 DEF PartEqual, CompareOnly
    <2>3. FrameInv(Here) /\ Here \in CompareFrames /\ ComparesPart(Here)
      BY <2>2, HereFacts
    <2>4. g \in CompareFrames /\ g.l = Here.l /\ g.r = Here.r /\ g.open = Here.open /\ g.next = Here.next + 1
      BY <2>1, <2>3 DEF CompareFrames
    <2>5. FrameInv(g) /\ PairOf(g) = PairOf(Here)
      BY <2>3, <2>4 DEF FrameInv, PairOf, ComparesPart, CompareFrames
    <2>6. ASSUME Len(comparing) > 1
          PROVE  LeadsTo(comparing[2], g)
      <3>1. LeadsTo(comparing[2], Here)
        BY <1>1, <2>2, <2>6, ComparingFacts, 1 \in 1 .. Len(comparing) - 1 DEF CompareInv
      <3> QED
        BY <2>4, <2>5, <3>1 DEF LeadsTo
    <2>7. CompareInv' /\ comparing' \in Seq(CompareFrames)
      BY <1>1, <2>2, <2>4, <2>5, <2>6, GoOnStep
    <2> QED
      BY <1>2, <2>2, <2>7
  <1> QED
    BY <1>5, <1>6, <1>7, <1>8, <1>9 DEF Compare

(* The marks.  Two classes that are compared, and have been found to have   *)
(* equal labels, have one name.                                             *)
LEMMA OneName ==
    ASSUME StateInv, NEW l \in Type, NEW r \in Type, LooksAlike(l, r), IsClass(l),
           ~ThroughDeclaration(l, r)
    PROVE  Kind(l) = "class" /\ Kind(r) = "class" /\ Name(l) = Name(r)
  <1>1. Kind(l) = "class" /\ Kind(r) = "class" /\ Label(l) = Label(r)
    BY DEF LooksAlike, IsKnown, Unlike, IsClass, ThroughDeclaration
  <1> QED
    BY <1>1, LabelsAssumption DEF StateInv, Label

(* A comparison that goes through declarations is the last but one that is  *)
(* open: the one of their definitions finds their names marked.             *)
LEMMA ThroughDeclarationOnTop ==
    ASSUME Inv, comparing # <<>>, ~Here.open, NEW i \in DOMAIN comparing, comparing[i].open,
           ThroughDeclaration(comparing[i].l, comparing[i].r)
    PROVE  L = Definition(comparing[i].l) /\ R = Definition(comparing[i].r)
  <1> DEFINE f == comparing[i]
  <1>1. /\ Here = comparing[1] /\ Len(comparing) \in Nat \ {0}
        /\ i \in 1 .. Len(comparing) /\ i # 1
    BY ComparingFacts DEF Inv
  <1>2. i - 1 \in 1 .. Len(comparing) - 1 /\ (i - 1) + 1 = i
    BY <1>1
  <1>3. LeadsTo(f, comparing[i - 1])
    BY <1>2 DEF Inv, CompareInv
  <1>4. i - 1 = 1
    <2> SUFFICES ASSUME i - 1 # 1
                 PROVE  comparing[i - 1].open
      BY <1>3 DEF LeadsTo
    <2>1. i - 2 \in 1 .. Len(comparing) - 1 /\ (i - 2) + 1 = i - 1
      BY <1>1, <1>2
    <2>2. LeadsTo(comparing[i - 1], comparing[i - 2])
      BY <2>1 DEF Inv, CompareInv
    <2> QED
      BY <2>2 DEF LeadsTo, ComparesPart
  <1>5. PairOf(Here) = <<Definition(f.l), Definition(f.r)>>
    BY <1>1, <1>3, <1>4 DEF LeadsTo, ComparesPart, Pairs
  <1> QED
    BY <1>5 DEF PairOf, L, R

LEMMA UndefinedUnmarked ==
    ASSUME Inv, CompareUndefined, IsClass(L), Name(L) = Name(R),
           NEW i \in DOMAIN comparing, ClassOpen(comparing[i])
    PROVE  Name(L) \notin NamesOf(comparing[i])
  <1> DEFINE f == comparing[i]
  <1>1. StateInv /\ comparing # <<>> /\ ~Here.open /\ Undefined(L, R) /\ L \in Type /\ R \in Type
    BY ComparingFacts DEF Inv, CompareUndefined, AtStart, Comparing
  <1>2. FrameInv(f) /\ f \in CompareFrames /\ FrameInv(Here)
    BY <1>1, HereFacts, ElementOfSeq, LenProperties DEF Inv, StateInv, CompareInv
  <1>3. /\ f.l \in Type /\ f.r \in Type /\ f.open /\ LooksAlike(f.l, f.r) /\ IsClass(f.l)
        /\ f.l \in built /\ f.r \in built
        /\ CorpusOf(f.l) = CorpusOf(L) /\ CorpusOf(f.r) = CorpusOf(R)
    BY <1>2 DEF FrameInv, CompareFrames, ClassOpen, Settled, L, R
  <1> HIDE DEF f
  <1>4. ~ThroughDeclaration(f.l, f.r)
    <2> SUFFICES ASSUME ThroughDeclaration(f.l, f.r)
                 PROVE  FALSE
      OBVIOUS
    <2>1. L = Definition(f.l) /\ R = Definition(f.r)
      BY <1>1, <1>3, ThroughDeclarationOnTop DEF f
    <2>2. Kind(L) # "declaration" /\ Kind(R) # "declaration"
      BY <1>1, <1>3, <2>1, DefinitionFacts, TypesAssumption
    <2> QED
      BY <1>1, <2>2 DEF Undefined, ThroughDeclaration
  <1>5. Kind(f.l) = "class" /\ Kind(f.r) = "class" /\ Name(f.l) = Name(f.r)
    BY <1>1, <1>3, <1>4, OneName
  <1>6. ASSUME NEW t \in {L, R}, Definition(t) = NoType
        PROVE  DeclarationOf(t) \in Type \ built /\ Kind(DeclarationOf(t)) = "class"
               /\ CorpusOf(DeclarationOf(t)) = CorpusOf(t) /\ Name(DeclarationOf(t)) = Name(t)
    BY <1>1, <1>6, TypesAssumption DEF Definition
  <1>7. ASSUME Name(L) \in NamesOf(f)
        PROVE  FALSE
    <2>1. Name(f.l) = Name(L) /\ Name(f.r) = Name(L)
      BY <1>5, <1>7 DEF NamesOf
    <2>2. Definition(L) = NoType \/ Definition(R) = NoType
      BY <1>1 DEF Undefined
    <2>3. CASE Definition(L) = NoType
      <3>1. DeclarationOf(L) = f.l
        BY <1>3, <1>5, <1>6, <2>1, <2>3, NamesAssumption
      <3> QED
        BY <1>3, <1>6, <2>3, <3>1
    <2>4. CASE Definition(R) = NoType
      <3>1. DeclarationOf(R) = f.r
        BY <1>3, <1>5, <1>6, <2>1, <2>4, NamesAssumption
      <3> QED
        BY <1>3, <1>6, <2>4, <3>1
    <2> QED
      BY <2>2, <2>3, <2>4
  <1> QED
    BY <1>7 DEF f

(* Marks after a comparison has ended: those of the classes that are still  *)
(* compared.                                                                *)
LEMMA UnmarkStep ==
    ASSUME StateInv, MarksInv, comparing # <<>>, comparing' = Tail(comparing),
           marks' \in SUBSET marks,
           ClassOpen(Here) => marks' \cap NamesOf(Here) = {},
           answer' # "no" =>
             /\ answer # "no"
             /\ \A i \in 2 .. Len(comparing) :
                  ClassOpen(comparing[i]) => NamesOf(comparing[i]) \cap (marks \ marks') = {}
    PROVE  MarksInv'
  <1>1. PICK s : s = Tail(comparing)
    OBVIOUS
  <1>2. /\ s \in Seq(CompareFrames) /\ Len(s) = Len(comparing) - 1 /\ Len(comparing) \in Nat \ {0}
        /\ \A i \in 1 .. Len(comparing) - 1 : s[i] = comparing[i + 1]
        /\ DOMAIN comparing = 1 .. Len(comparing) /\ Here = comparing[1]
    BY <1>1, ComparingFacts
  <1>3. comparing' = s /\ DOMAIN s = 1 .. Len(comparing) - 1
    BY <1>1, <1>2, LenProperties
  <1>4. \A i \in DOMAIN s : i + 1 \in 2 .. Len(comparing) /\ s[i] = comparing[i + 1]
    BY <1>2, <1>3
  <1>5. \A i, j \in DOMAIN s :
          i # j /\ ClassOpen(s[i]) /\ ClassOpen(s[j]) => NamesOf(s[i]) \cap NamesOf(s[j]) = {}
    <2> TAKE i \in DOMAIN s, j \in DOMAIN s
    <2>1. i + 1 \in DOMAIN comparing /\ j + 1 \in DOMAIN comparing /\ (i # j => i + 1 # j + 1)
      BY <1>2, <1>3
    <2> QED
      BY <1>4, <2>1 DEF MarksInv
  <1>6. ASSUME NEW n \in marks'
        PROVE  \E i \in DOMAIN s : ClassOpen(s[i]) /\ n \in NamesOf(s[i])
    <2>1. PICK i \in DOMAIN comparing : ClassOpen(comparing[i]) /\ n \in NamesOf(comparing[i])
      BY <1>6 DEF MarksInv
    <2>2. i # 1
      BY <1>2, <2>1
    <2>3. i - 1 \in DOMAIN s /\ (i - 1) + 1 = i
      BY <1>2, <1>3, <2>2
    <2> QED
      BY <1>4, <2>1, <2>3
  <1>7. ASSUME answer' # "no", NEW i \in DOMAIN s, ClassOpen(s[i])
        PROVE  NamesOf(s[i]) \subseteq marks'
    <2>1. i + 1 \in 2 .. Len(comparing) /\ i + 1 \in DOMAIN comparing /\ s[i] = comparing[i + 1]
      BY <1>2, <1>4
    <2>2. NamesOf(comparing[i + 1]) \subseteq marks
      BY <1>7, <2>1 DEF MarksInv
    <2> QED
      BY <1>7, <2>1, <2>2
  <1> QED
    BY <1>3, <1>5, <1>6, <1>7 DEF MarksInv

LEMMA MarksStep ==
    ASSUME Inv, Compare
    PROVE  MarksInv'
  <1>1. comparing # <<>> /\ StateInv /\ MarksInv /\ CompareOnly
    BY CompareStep DEF Inv
  <1>2. /\ Here = comparing[1] /\ Len(comparing) \in Nat \ {0} /\ DOMAIN comparing = 1 .. Len(comparing)
        /\ comparing \in Seq(CompareFrames) /\ L = Here.l /\ R = Here.r
    BY <1>1, ComparingFacts, HereFacts DEF StateInv
  <1>3. NamesOf(Here) = Names /\ (ClassOpen(Here) <=> Here.open /\ IsClass(L))
    BY <1>2 DEF NamesOf, Names, ClassOpen
  <1>4. \A i \in 2 .. Len(comparing) : i \in DOMAIN comparing /\ i # 1
    BY <1>2
  <1>5. CASE CompareKnown \/ CompareStarted
    <2>1. comparing' = Tail(comparing) /\ marks' = marks /\ answer = "none" /\ ~Here.open
      BY <1>5 DEF CompareKnown, CompareStarted, Return, AtStart, Comparing
    <2> QED
      BY <1>1, <1>3, <2>1, UnmarkStep
  <1>6. CASE CompareUndefined
    <2>1. /\ comparing' = Tail(comparing) /\ Unmark /\ answer = "none" /\ ~Here.open
          /\ answer' = Verdict(Name(L) = Name(R))
      BY <1>6 DEF CompareUndefined, Return, AtStart, Comparing
    <2>2. marks' \in SUBSET marks /\ (marks \ marks') \subseteq Names /\ (marks' # marks => IsClass(L))
      BY <2>1 DEF Unmark
    <2>3. ASSUME answer' # "no", NEW i \in 2 .. Len(comparing), ClassOpen(comparing[i])
          PROVE  NamesOf(comparing[i]) \cap (marks \ marks') = {}
      <3>1. Name(L) = Name(R)
        BY <2>1, <2>3 DEF Verdict
      <3>2. IsClass(L) => Name(L) \notin NamesOf(comparing[i])
        BY <1>4, <1>6, <2>3, <3>1, UndefinedUnmarked
      <3> QED
        BY <2>2, <3>1, <3>2 DEF Names
    <2>4. ~ClassOpen(Here) /\ answer # "no"
      BY <1>3, <2>1
    <2> QED
      BY <1>1, <2>1, <2>2, <2>3, <2>4, UnmarkStep
  <1>7. ASSUME comparing' = Tail(comparing), Unmark, answer' = "no"
        PROVE  MarksInv'
    <2>1. marks' \in SUBSET marks /\ (ClassOpen(Here) => marks' \cap NamesOf(Here) = {})
      BY <1>3, <1>7 DEF Unmark
    <2> QED
      BY <1>1, <1>7, <2>1, UnmarkStep
  <1>8. CASE CompareUnlike \/ CompareLayout \/ PartDiffers
    BY <1>7, <1>8 DEF CompareUnlike, CompareLayout, PartDiffers, Return
  <1>9. CASE CompareDone
    <2>1. comparing' = Tail(comparing) /\ Unmark /\ answer = "none" /\ Here.open
      BY <1>9 DEF CompareDone, Return, Comparing
    <2>2. /\ marks' \in SUBSET marks /\ (marks \ marks') \subseteq Names
          /\ marks' # marks => IsClass(L)
          /\ ClassOpen(Here) => marks' \cap NamesOf(Here) = {}
      BY <1>3, <2>1 DEF Unmark
    <2>3. ASSUME NEW i \in 2 .. Len(comparing), ClassOpen(comparing[i])
          PROVE  NamesOf(comparing[i]) \cap (marks \ marks') = {}
      <3>1. ClassOpen(Here) => NamesOf(Here) \cap NamesOf(comparing[i]) = {}
        BY <1>1, <1>2, <1>4, <2>3 DEF MarksInv
      <3> QED
        BY <1>3, <2>1, <2>2, <3>1
    <2>4. answer # "no"
      BY <2>1
    <2> QED
      BY <1>1, <2>1, <2>2, <2>3, <2>4, UnmarkStep
  <1>10. CASE CompareOpen
    <2>1. PICK g : g = [Here EXCEPT !.open = TRUE]
      OBVIOUS
    <2>2. /\ comparing' = <<g>> \o Tail(comparing) /\ answer = "none" /\ answer' = "none" /\ ~Here.open
          /\ marks' = IF IsClass(L) THEN marks \cup Names ELSE marks
          /\ IsClass(L) => Names \cap marks = {}
      BY <1>10, <2>1 DEF CompareOpen, AtStart, Comparing, Started, Names
    <2>3. /\ g \in CompareFrames /\ NamesOf(g) = Names /\ (ClassOpen(g) <=> IsClass(L))
      BY <1>1, <1>2, <2>1, ComparingFacts DEF CompareFrames, NamesOf, Names, ClassOpen
    <2>4. /\ Len(comparing') = Len(comparing) /\ DOMAIN comparing' = 1 .. Len(comparing)
          /\ comparing'[1] = g
          /\ \A i \in 2 .. Len(comparing) : comparing'[i] = comparing[i]
      BY <1>1, <1>2, <2>2, <2>3, PutFirst, LenProperties
    <2>5. \A i \in 2 .. Len(comparing) : ClassOpen(comparing[i]) => NamesOf(comparing[i]) \subseteq marks
      BY <1>1, <1>4, <2>2 DEF MarksInv
    <2>6. ASSUME NEW i \in DOMAIN comparing', NEW j \in DOMAIN comparing', i # j,
                 ClassOpen(comparing'[i]), ClassOpen(comparing'[j])
          PROVE  NamesOf(comparing'[i]) \cap NamesOf(comparing'[j]) = {}
      <3>1. CASE i = 1
        <4>1. j \in 2 .. Len(comparing)
          BY <1>2, <2>4, <2>6, <3>1
        <4> QED
          BY <2>2, <2>3, <2>4, <2>5, <2>6, <3>1, <4>1
      <3>2. CASE j = 1
        <4>1. i \in 2 .. Len(comparing)
          BY <1>2, <2>4, <2>6, <3>2
        <4> QED
          BY <2>2, <2>3, <2>4, <2>5, <2>6, <3>2, <4>1
      <3>3. CASE i # 1 /\ j # 1
        <4>1. i \in 2 .. Len(comparing) /\ j \in 2 .. Len(comparing)
          BY <1>2, <2>4, <3>3
        <4> QED
          BY <1>1, <1>4, <2>4, <2>6, <4>1 DEF MarksInv
      <3> QED
        BY <3>1, <3>2, <3>3
    <2>7. ASSUME NEW n \in marks'
          PROVE  \E i \in DOMAIN comparing' : ClassOpen(comparing'[i]) /\ n \in NamesOf(comparing'[i])
      <3>1. CASE n \in marks
        <4>1. PICK i \in DOMAIN comparing : ClassOpen(comparing[i]) /\ n \in NamesOf(comparing[i])
          BY <1>1, <3>1 DEF MarksInv
        <4>2. i \in 2 .. Len(comparing)
          BY <1>2, <1>3, <2>2, <4>1
        <4> QED
          BY <1>4, <2>4, <4>1, <4>2
      <3>2. CASE n \notin marks
        BY <1>2, <2>2, <2>3, <2>4, <2>7, <3>2
      <3> QED
        BY <3>1, <3>2
    <2>8. ASSUME NEW i \in DOMAIN comparing', ClassOpen(comparing'[i])
          PROVE  NamesOf(comparing'[i]) \subseteq marks'
      <3>1. CASE i = 1
        BY <2>2, <2>3, <2>4, <2>8, <3>1
      <3>2. CASE i # 1
        <4>1. i \in 2 .. Len(comparing)
          BY <1>2, <2>4, <3>2
        <4> QED
          BY <2>2, <2>4, <2>5, <2>8, <4>1
      <3> QED
        BY <3>1, <3>2
    <2> QED
      BY <2>6, <2>7, <2>8 DEF MarksInv
  <1>11. CASE ComparePart
    <2>1. PICK g : g = CompareFrame(Pairs(L, R)[Here.next][1], Pairs(L, R)[Here.next][2])
      OBVIOUS
    <2>2. comparing' = <<g>> \o comparing /\ marks' = marks /\ answer = "none"
      BY <1>11, <2>1 DEF ComparePart, Comparing
    <2>3. ~ClassOpen(g)
      BY <2>1 DEF ClassOpen, CompareFrame
    <2>4. comparing \in Seq(CompareFrames \cup {g}) /\ g \in CompareFrames \cup {g}
      BY <1>2, SeqOfMore
    <2>5. /\ DOMAIN comparing' = 1 .. Len(comparing) + 1 /\ comparing'[1] = g
          /\ \A i \in 1 .. Len(comparing) : comparing'[i + 1] = comparing[i]
      BY <2>2, <2>4, Push, LenProperties
    <2>6. ASSUME NEW i \in DOMAIN comparing', ClassOpen(comparing'[i])
          PROVE  i - 1 \in DOMAIN comparing /\ comparing'[i] = comparing[i - 1]
      BY <1>2, <2>3, <2>5, <2>6, i # 1, i - 1 \in 1 .. Len(comparing), (i - 1) + 1 = i
    <2>7. ASSUME NEW i \in DOMAIN comparing', NEW j \in DOMAIN comparing', i # j,
                 ClassOpen(comparing'[i]), ClassOpen(comparing'[j])
          PROVE  NamesOf(comparing'[i]) \cap NamesOf(comparing'[j]) = {}
      <3>1. i - 1 # j - 1
        BY <1>2, <2>5, <2>7
      <3> QED
        BY <1>1, <2>6, <2>7, <3>1 DEF MarksInv
    <2>8. ASSUME NEW n \in marks'
          PROVE  \E i \in DOMAIN comparing' : ClassOpen(comparing'[i]) /\ n \in NamesOf(comparing'[i])
      <3>1. PICK i \in DOMAIN comparing : ClassOpen(comparing[i]) /\ n \in NamesOf(comparing[i])
        BY <1>1, <2>2, <2>8 DEF MarksInv
      <3>2. i + 1 \in DOMAIN comparing' /\ comparing'[i + 1] = comparing[i]
        BY <1>2, <2>5
      <3> QED
        BY <3>1, <3>2
    <2>9. ASSUME NEW i \in DOMAIN comparing', ClassOpen(comparing'[i])
          PROVE  NamesOf(comparing'[i]) \subseteq marks'
      BY <1>1, <2>2, <2>6, <2>9 DEF MarksInv
    <2> QED
      BY <2>7, <2>8, <2>9 DEF MarksInv
  <1>12. CASE PartEqual
    <2>1. PICK g : g = [Here EXCEPT !.next = @ + 1]
      OBVIOUS
    <2>2. comparing' = <<g>> \o Tail(comparing) /\ marks' = marks /\ answer = "yes"
      BY <1>12, <2>1 DEF PartEqual
    <2>3. g \in CompareFrames /\ g.l = Here.l /\ g.r = Here.r /\ g.open = Here.open
      BY <1>1, <1>2, <2>1, ComparingFacts DEF CompareFrames
    <2>4. /\ DOMAIN comparing' = 1 .. Len(comparing) /\ comparing'[1] = g
          /\ \A i \in 2 .. Len(comparing) : comparing'[i] = comparing[i]
      BY <1>1, <1>2, <2>2, <2>3, PutFirst, LenProperties
    <2>5. ASSUME NEW i \in DOMAIN comparing'
          PROVE  /\ i \in DOMAIN comparing /\ NamesOf(comparing'[i]) = NamesOf(comparing[i])
                 /\ ClassOpen(comparing'[i]) <=> ClassOpen(comparing[i])
      <3>1. i \in DOMAIN comparing /\ (i = 1 \/ i \in 2 .. Len(comparing))
        BY <1>2, <2>4
      <3> QED
        BY <1>2, <2>3, <2>4, <3>1 DEF NamesOf, ClassOpen
    <2>6. ASSUME NEW i \in DOMAIN comparing', NEW j \in DOMAIN comparing', i # j,
                 ClassOpen(comparing'[i]), ClassOpen(comparing'[j])
          PROVE  NamesOf(comparing'[i]) \cap NamesOf(comparing'[j]) = {}
      <3>1. /\ NamesOf(comparing'[i]) = NamesOf(comparing[i]) /\ ClassOpen(comparing[i])
            /\ NamesOf(comparing'[j]) = NamesOf(comparing[j]) /\ ClassOpen(comparing[j])
        BY <2>5, <2>6
      <3>2. NamesOf(comparing[i]) \cap NamesOf(comparing[j]) = {}
        BY <1>1, <2>5, <2>6, <3>1 DEF MarksInv
      <3> QED
        BY <3>1, <3>2
    <2>7. ASSUME NEW n \in marks'
          PROVE  \E i \in DOMAIN comparing' : ClassOpen(comparing'[i]) /\ n \in NamesOf(comparing'[i])
      <3>1. PICK i \in DOMAIN comparing : ClassOpen(comparing[i]) /\ n \in NamesOf(comparing[i])
        BY <1>1, <2>2, <2>7 DEF MarksInv
      <3> QED
        BY <1>2, <2>4, <2>5, <3>1
    <2>8. ASSUME NEW i \in DOMAIN comparing', ClassOpen(comparing'[i])
          PROVE  NamesOf(comparing'[i]) \subseteq marks'
      <3>1. NamesOf(comparing'[i]) = NamesOf(comparing[i]) /\ ClassOpen(comparing[i])
        BY <2>5, <2>8
      <3> QED
        BY <1>1, <2>2, <2>5, <3>1 DEF MarksInv
    <2> QED
      BY <2>6, <2>7, <2>8 DEF MarksInv
  <1> QED
    BY <1>5, <1>6, <1>8, <1>9, <1>10, <1>11, <1>12 DEF Compare

-----------------------------------------------------------------------------
(* Reading.                                                                 *)
LEMMA IdleFacts ==
    ASSUME Inv, Idle
    PROVE  hashing = <<>> /\ comparing = <<>> /\ answer = "none"
  BY DEF Inv, Idle, TurnsInv

LEMMA ReadIsIdle ==
    ASSUME Inv, Read
    PROVE  /\ Idle /\ corpus \in Corpora
           /\ UNCHANGED <<world, canonical, table, memberHash, compareVars, asked>>
  <1>1. Idle
    BY DEF Read, ReadRoot, BuildKnownPart, BuildClassInProgress, BuildPart, BuildDone,
       CanonicalizeLate, CorpusRead, AllRead
  <1>2. UNCHANGED <<world, canonical, table, memberHash, compareVars, asked>>
    BY DEF Read, ReadRoot, BuildKnownPart, BuildClassInProgress, BuildPart, BuildDone,
       CanonicalizeLate, CorpusRead, hashVars
  <1>3. corpus \in Corpora
    <2>1. CASE ReadRoot \/ CanonicalizeLate \/ CorpusRead
      BY <2>1 DEF ReadRoot, CanonicalizeLate, CorpusRead, AllRead
    <2>2. CASE BuildKnownPart \/ BuildClassInProgress \/ BuildPart \/ BuildDone
      <3>1. building # <<>>
        BY <2>2 DEF BuildKnownPart, BuildClassInProgress, BuildPart, BuildDone, BuildLeft
      <3> QED
        BY <3>1 DEF Inv, TurnsInv, StateInv, Corpora
    <2> QED
      BY <2>1, <2>2 DEF Read
  <1> QED
    BY <1>1, <1>2, <1>3

LEMMA BuildingFacts ==
    ASSUME Inv, building # <<>>
    PROVE  /\ Building = building[1] /\ Building \in BuildFrames /\ Len(building) \in Nat \ {0}
           /\ DOMAIN building = 1 .. Len(building)
           /\ Building.type \in Type /\ Building.next \in Nat
           /\ Building.next \in 1 .. Len(Parts(Building.type)) + 1
           /\ CorpusOf(Building.type) = corpus
           /\ \A k \in 1 .. Building.next - 1 : Parts(Building.type)[k] \in Found
           /\ BuildLeft => /\ Building.next \in DOMAIN Parts(Building.type)
                           /\ BuildNext \in Type /\ CorpusOf(BuildNext) = corpus
  <1>1. building \in Seq(BuildFrames) /\ StateInv /\ ReadInv
    BY DEF Inv, StateInv
  <1>2. /\ Building = building[1] /\ Building \in BuildFrames /\ Len(building) \in Nat \ {0}
        /\ DOMAIN building = 1 .. Len(building)
    BY <1>1, Pop, LenProperties DEF Building
  <1>3. Building.type \in Type /\ Building.next \in Nat
    BY <1>2 DEF BuildFrames
  <1>4. /\ Building.next \in 1 .. Len(Parts(Building.type)) + 1
        /\ CorpusOf(Building.type) = corpus
        /\ \A k \in 1 .. Building.next - 1 : Parts(Building.type)[k] \in Found
    BY <1>1, <1>2 DEF ReadInv
  <1>5. BuildLeft => Building.next \in DOMAIN Parts(Building.type)
    BY <1>1, <1>3, <1>4, TypeFacts DEF BuildLeft
  <1> QED
    BY <1>1, <1>2, <1>3, <1>4, <1>5, TypeFacts DEF BuildNext

(* The types that are left for later: one is put last in the list of its    *)
(* file, the first one of the file whose turn it is is taken.               *)
LateStays == \A f \in Files : \A i \in DOMAIN late[f] : i \in DOMAIN late'[f] /\ late'[f][i] = late[f][i]

LEMMA PutLateFacts ==
    ASSUME StateInv, NEW x \in Type, PutLate(x)
    PROVE  /\ late' \in [Files -> Seq(Type)] /\ FileOf(x) \in Files
           /\ LateStays
           /\ DOMAIN late[FileOf(x)] = 1 .. Len(late[FileOf(x)]) /\ Len(late[FileOf(x)]) \in Nat
           /\ Len(late[FileOf(x)]) + 1 \in DOMAIN late'[FileOf(x)]
           /\ late'[FileOf(x)][Len(late[FileOf(x)]) + 1] = x
           /\ \A f \in Files : \A i \in DOMAIN late'[f] :
                \/ i \in DOMAIN late[f] /\ late'[f][i] = late[f][i]
                \/ f = FileOf(x) /\ late'[f][i] = x
  <1>1. PICK g : g = FileOf(x)
    OBVIOUS
  <1>2. PICK s : s = late[g]
    OBVIOUS
  <1>3. g \in Files /\ s \in Seq(Type) /\ late \in [Files -> Seq(Type)]
    BY <1>1, <1>2 DEF FileOf, Files, StateInv
  <1>4. PICK n : n = Append(s, x)
    OBVIOUS
  <1>5. late' = [late EXCEPT ![g] = n]
    BY <1>1, <1>2, <1>4 DEF PutLate
  <1>6. /\ n \in Seq(Type) /\ Len(n) = Len(s) + 1 /\ n[Len(s) + 1] = x
        /\ \A i \in 1 .. Len(s) : n[i] = s[i]
    BY <1>3, <1>4, AppendProperties
  <1>7. DOMAIN s = 1 .. Len(s) /\ Len(s) \in Nat /\ DOMAIN n = 1 .. Len(s) + 1
    BY <1>3, <1>6, LenProperties
  <1>8. late' \in [Files -> Seq(Type)] /\ late'[g] = n /\ \A f \in Files : f # g => late'[f] = late[f]
    BY <1>3, <1>5, <1>6
  <1>9. \A i \in DOMAIN s : i \in DOMAIN n /\ n[i] = s[i]
    BY <1>6, <1>7
  <1>10. \A i \in DOMAIN n : (i \in DOMAIN s /\ n[i] = s[i]) \/ n[i] = x
    BY <1>6, <1>7
  <1>11. Len(s) + 1 \in DOMAIN n
    BY <1>7
  <1>12. LateStays
    BY <1>2, <1>8, <1>9 DEF LateStays
  <1>13. \A f \in Files : \A i \in DOMAIN late'[f] :
           \/ i \in DOMAIN late[f] /\ late'[f][i] = late[f][i]
           \/ f = g /\ late'[f][i] = x
    BY <1>2, <1>8, <1>10
  <1> QED
    BY <1>1, <1>2, <1>3, <1>6, <1>7, <1>8, <1>11, <1>12, <1>13

LEMMA LateTaken ==
    ASSUME StateInv, ~NothingLate, late' = [late EXCEPT ![LateFile] = Tail(@)]
    PROVE  /\ LateFile \in Files /\ 1 \in DOMAIN late[LateFile]
           /\ NextLate = late[LateFile][1] /\ NextLate \in Type
           /\ late' \in [Files -> Seq(Type)]
           /\ \A f \in Files : f # LateFile => late'[f] = late[f]
           /\ \A i \in DOMAIN late[LateFile] :
                i \in Nat \ {0} /\ (i # 1 => i - 1 \in DOMAIN late'[LateFile] /\ late'[LateFile][i - 1] = late[LateFile][i])
           /\ \A i \in DOMAIN late'[LateFile] :
                i + 1 \in DOMAIN late[LateFile] /\ late'[LateFile][i] = late[LateFile][i + 1]
  <1>1. PICK g : g = LateFile
    OBVIOUS
  <1>2. PICK s : s = late[g]
    OBVIOUS
  <1>3. g \in Files /\ s # <<>> /\ late \in [Files -> Seq(Type)] /\ s \in Seq(Type)
    BY <1>1, <1>2 DEF LateFile, Files, StateInv, NothingLate
  <1>4. PICK n : n = Tail(s)
    OBVIOUS
  <1>5. late' = [late EXCEPT ![g] = n] /\ NextLate = Head(s)
    BY <1>1, <1>2, <1>4 DEF NextLate
  <1>6. /\ Len(s) \in Nat \ {0} /\ NextLate = s[1] /\ s[1] \in Type
        /\ n \in Seq(Type) /\ Len(n) = Len(s) - 1
        /\ \A i \in 1 .. Len(s) - 1 : n[i] = s[i + 1]
    BY <1>3, <1>4, <1>5, Pop
  <1>7. DOMAIN s = 1 .. Len(s) /\ DOMAIN n = 1 .. Len(s) - 1
    BY <1>3, <1>6, LenProperties
  <1>8. late' \in [Files -> Seq(Type)] /\ late'[g] = n /\ \A f \in Files : f # g => late'[f] = late[f]
    BY <1>3, <1>5, <1>6
  <1>9. ASSUME NEW i \in DOMAIN s
        PROVE  i \in Nat \ {0} /\ (i # 1 => i - 1 \in DOMAIN n /\ n[i - 1] = s[i])
    <2>1. i # 1 => i - 1 \in 1 .. Len(s) - 1 /\ (i - 1) + 1 = i
      BY <1>6, <1>7
    <2> QED
      BY <1>6, <1>7, <2>1
  <1>10. \A i \in DOMAIN n : i + 1 \in DOMAIN s /\ n[i] = s[i + 1]
    BY <1>6, <1>7
  <1>11. 1 \in DOMAIN s
    BY <1>6, <1>7
  <1> QED
    BY <1>1, <1>2, <1>3, <1>6, <1>8, <1>9, <1>10, <1>11

LEMMA LateGrows ==
    ASSUME StateInv, LateRead, UNCHANGED <<world, corpus>>, Found \subseteq Found',
           NEW x \in Type, x \in Found', CorpusOf(x) = corpus,
           UNCHANGED late \/ (PutLate(x) /\ Kind(x) # "declaration")
    PROVE  late' \in [Files -> Seq(Type)] /\ LateRead'
  <1>1. \A t : FileOf(t)' = FileOf(t)
    BY DEF FileOf, Alternate
  <1>2. CASE UNCHANGED late
    BY <1>1, <1>2 DEF StateInv, LateRead
  <1>3. CASE PutLate(x) /\ Kind(x) # "declaration"
    <2>1. /\ late' \in [Files -> Seq(Type)]
          /\ \A f \in Files : \A i \in DOMAIN late'[f] :
               \/ i \in DOMAIN late[f] /\ late'[f][i] = late[f][i]
               \/ f = FileOf(x) /\ late'[f][i] = x
      BY <1>3, PutLateFacts
    <2>2. ASSUME NEW f \in Files, NEW i \in DOMAIN late'[f]
          PROVE  /\ late'[f][i] \in Found' /\ Kind(late'[f][i]) # "declaration"
                 /\ CorpusOf(late'[f][i]) = corpus /\ FileOf(late'[f][i]) = f
      BY <1>3, <2>1 DEF LateRead
    <2> QED
      BY <1>1, <2>1, <2>2 DEF LateRead
  <1> QED
    BY <1>2, <1>3

(* A part is found: it is built, or being built.                            *)
LEMMA SkipStep ==
    ASSUME Inv, BuildLeft, BuildNext \in Found, building' = Skip,
           UNCHANGED <<world, corpus, built>>,
           UNCHANGED late \/ (PutLate(BuildNext) /\ Kind(BuildNext) = "class")
    PROVE  /\ ReadInv' /\ building' \in Seq(BuildFrames) /\ late' \in [Files -> Seq(Type)]
           /\ building' # <<>> /\ Path' = Path
  <1>1. PICK f : f = [Building EXCEPT !.next = @ + 1]
    OBVIOUS
  <1>2. StateInv /\ ReadInv /\ building # <<>> /\ building \in Seq(BuildFrames)
    BY DEF Inv, StateInv, BuildLeft
  <1>3. f \in BuildFrames /\ f.type = Building.type /\ f.next = Building.next + 1
    <2>1. Building \in BuildFrames
      BY <1>2, BuildingFacts
    <2> QED
      BY <1>1, <2>1 DEF BuildFrames
  <1>4. /\ building' \in Seq(BuildFrames) /\ Len(building') = Len(building)
        /\ DOMAIN building' = 1 .. Len(building) /\ building'[1] = f
        /\ \A i \in 2 .. Len(building) : building'[i] = building[i]
    BY <1>1, <1>2, <1>3, PutFirst, LenProperties DEF Skip
  <1>5. building' # <<>>
    BY <1>2, <1>4, EmptySeq, BuildingFacts
  <1>6. \A i \in DOMAIN building : building'[i].type = building[i].type
    <2> TAKE i \in DOMAIN building
    <2>1. i = 1 \/ i \in 2 .. Len(building)
      BY <1>2, BuildingFacts
    <2> QED
      BY <1>2, <1>3, <1>4, <2>1, BuildingFacts
  <1>7. Path' = Path
    <2>1. DOMAIN building' = DOMAIN building
      BY <1>2, <1>4, BuildingFacts
    <2> QED
      BY <1>6, <2>1 DEF Path
  <1>8. Found' = Found /\ \A t : Parts(t)' = Parts(t)
    BY <1>7 DEF Found, Parts
  <1>9. ASSUME NEW i \in DOMAIN building'
        PROVE  LET g == building'[i] IN
               /\ CorpusOf(g.type) = corpus
               /\ g.next \in 1 .. Len(Parts(g.type)) + 1
               /\ \A k \in 1 .. g.next - 1 : Parts(g.type)[k] \in Found
               /\ i > 1 => /\ g.next \in DOMAIN Parts(g.type)
                           /\ building'[i - 1].type = Parts(g.type)[g.next]
    <2>1. CASE i = 1
      <3>1. f.next \in 1 .. Len(Parts(f.type)) + 1
        BY <1>2, <1>3, BuildingFacts, TypeFacts
      <3>2. \A k \in 1 .. f.next - 1 : Parts(f.type)[k] \in Found
        BY <1>2, <1>3, BuildingFacts DEF BuildNext
      <3> QED
        BY <1>2, <1>3, <1>4, <2>1, <3>1, <3>2, BuildingFacts
    <2>2. CASE i # 1
      <3>1. i \in DOMAIN building /\ i \in 2 .. Len(building) /\ i - 1 \in DOMAIN building /\ i > 1
        BY <1>2, <1>4, <2>2, BuildingFacts
      <3>2. building'[i] = building[i] /\ building'[i - 1].type = building[i - 1].type
        BY <1>4, <1>6, <3>1
      <3> QED
        BY <1>2, <3>1, <3>2 DEF ReadInv
    <2> QED
      BY <2>1, <2>2
  <1>10. late' \in [Files -> Seq(Type)] /\ LateRead'
    <2>1. BuildNext \in Type /\ CorpusOf(BuildNext) = corpus
      BY <1>2, BuildingFacts
    <2> QED
      BY <1>2, <1>8, <2>1, LateGrows DEF ReadInv
  <1>11. ReadInv'
    <2>1. \A t \in built : CorpusOf(t) <= corpus /\ \A k \in DOMAIN Parts(t) : Parts(t)[k] \in Found
      BY <1>2 DEF ReadInv
    <2> QED
      BY <1>8, <1>9, <1>10, <2>1 DEF ReadInv
  <1> QED
    BY <1>4, <1>5, <1>7, <1>10, <1>11

(* A type begins to be built.                                               *)
LEMMA BeginStep ==
    ASSUME Inv, NEW t \in Type, CorpusOf(t) = corpus,
           building = <<>> \/ (BuildLeft /\ t = BuildNext),
           building' = <<BuildFrame(t)>> \o building, UNCHANGED <<world, corpus, built, late>>
    PROVE  /\ ReadInv' /\ building' \in Seq(BuildFrames) /\ building' # <<>>
           /\ Path' = Path \cup {t}
  <1>1. PICK f : f = BuildFrame(t)
    OBVIOUS
  <1>2. /\ StateInv /\ ReadInv /\ building \in Seq(BuildFrames)
        /\ f \in BuildFrames /\ f.type = t /\ f.next = 1
    BY <1>1 DEF Inv, StateInv, BuildFrame, BuildFrames
  <1>3. /\ building' \in Seq(BuildFrames) /\ Len(building') = Len(building) + 1
        /\ building'[1] = f /\ Len(building) \in Nat
        /\ \A i \in 1 .. Len(building) : building'[i + 1] = building[i]
    BY <1>1, <1>2, Push, LenProperties
  <1>4. DOMAIN building' = 1 .. Len(building) + 1 /\ DOMAIN building = 1 .. Len(building)
    BY <1>2, <1>3, LenProperties
  <1>5. building' # <<>>
    BY <1>3, EmptySeq
  <1>6. ASSUME NEW i \in DOMAIN building', i # 1
        PROVE  i - 1 \in DOMAIN building /\ building'[i] = building[i - 1]
    BY <1>3, <1>4, <1>6, i - 1 \in 1 .. Len(building), (i - 1) + 1 = i
  <1>7. Path' = Path \cup {t}
    <2>1. \A i \in DOMAIN building' : building'[i].type \in Path \cup {t}
      BY <1>2, <1>3, <1>6 DEF Path
    <2>2. t \in Path'
      BY <1>2, <1>3, <1>4, 1 \in 1 .. Len(building) + 1 DEF Path
    <2>3. \A i \in DOMAIN building : building[i].type \in Path'
      BY <1>3, <1>4, \A i \in 1 .. Len(building) : i + 1 \in 1 .. Len(building) + 1 DEF Path
    <2> QED
      BY <2>1, <2>2, <2>3 DEF Path
  <1>8. Found' = Found \cup {t} /\ \A u : Parts(u)' = Parts(u)
    BY <1>7 DEF Found, Parts
  <1>9. ASSUME NEW i \in DOMAIN building'
        PROVE  LET g == building'[i] IN
               /\ CorpusOf(g.type) = corpus
               /\ g.next \in 1 .. Len(Parts(g.type)) + 1
               /\ \A k \in 1 .. g.next - 1 : Parts(g.type)[k] \in Found
               /\ i > 1 => /\ g.next \in DOMAIN Parts(g.type)
                           /\ building'[i - 1].type = Parts(g.type)[g.next]
    <2>1. CASE i = 1
      BY <1>2, <1>3, <2>1, TypeFacts
    <2>2. CASE i # 1
      <3>1. i - 1 \in DOMAIN building /\ building'[i] = building[i - 1] /\ i \in Nat
        BY <1>4, <1>6, <2>2
      <3>2. CASE i - 1 = 1
        <4>1. building # <<>>
          BY <1>4, <3>1, EmptySeq
        <4>2. /\ building'[i] = Building /\ building'[i - 1] = f /\ BuildLeft /\ t = BuildNext
              /\ Building.next \in DOMAIN Parts(Building.type)
          BY <1>3, <3>1, <3>2, <4>1, BuildingFacts
        <4> QED
          BY <1>2, <3>1, <3>2, <4>1, <4>2, BuildingFacts DEF BuildNext
      <3>3. CASE i - 1 # 1
        <4>1. i - 1 > 1 /\ i - 1 \in DOMAIN building' /\ building'[i - 1] = building[(i - 1) - 1]
          BY <1>4, <1>6, <3>1, <3>3
        <4> QED
          BY <1>2, <3>1, <4>1 DEF ReadInv
      <3> QED
        BY <3>2, <3>3
    <2> QED
      BY <2>1, <2>2
  <1>10. ReadInv'
    <2>1. \A u \in built : CorpusOf(u) <= corpus /\ \A k \in DOMAIN Parts(u) : Parts(u)[k] \in Found
      BY <1>2 DEF ReadInv
    <2>2. LateRead'
      BY <1>2, <1>8, LateGrows DEF ReadInv
    <2> QED
      BY <1>8, <1>9, <2>1, <2>2 DEF ReadInv
  <1> QED
    BY <1>3, <1>5, <1>7, <1>10

(* A type is built.                                                         *)
LEMMA EndStep ==
    ASSUME Inv, building # <<>>, ~BuildLeft,
           building' = Tail(building), built' = built \cup {Building.type},
           UNCHANGED <<world, corpus>>,
           UNCHANGED late \/ (PutLate(Building.type) /\ Kind(Building.type) # "declaration")
    PROVE  /\ ReadInv' /\ building' \in Seq(BuildFrames) /\ late' \in [Files -> Seq(Type)]
           /\ Found' = Found /\ Path = Path' \cup {Building.type}
  <1>1. PICK s : s = Tail(building)
    OBVIOUS
  <1>2. /\ StateInv /\ ReadInv /\ building \in Seq(BuildFrames)
        /\ built \subseteq Type /\ Building.type \in Type /\ CorpusOf(Building.type) = corpus
        /\ Building = building[1] /\ corpus \in Nat
    BY BuildingFacts DEF Inv, StateInv
  <1>3. /\ s \in Seq(BuildFrames) /\ Len(s) = Len(building) - 1 /\ Len(building) \in Nat \ {0}
        /\ \A i \in 1 .. Len(building) - 1 : s[i] = building[i + 1]
    BY <1>1, <1>2, Pop
  <1>4. DOMAIN s = 1 .. Len(building) - 1 /\ DOMAIN building = 1 .. Len(building) /\ building' = s
    BY <1>1, <1>2, <1>3, LenProperties
  <1>5. \A i \in DOMAIN s : i + 1 \in DOMAIN building /\ s[i] = building[i + 1]
    BY <1>3, <1>4
  <1>6. Path = Path' \cup {Building.type}
    <2>1. \A i \in DOMAIN building : i = 1 \/ (i - 1 \in DOMAIN s /\ s[i - 1] = building[i])
      <3> TAKE i \in DOMAIN building
      <3>1. i = 1 \/ (i - 1 \in 1 .. Len(building) - 1 /\ (i - 1) + 1 = i)
        BY <1>3, <1>4
      <3> QED
        BY <1>3, <1>4, <3>1
    <2>2. 1 \in DOMAIN building
      BY <1>3, <1>4
    <2>3. building[1] = Building
      BY <1>2, BuildingFacts
    <2>4. Path' \subseteq Path
      BY <1>4, <1>5 DEF Path
    <2>5. Building.type \in Path
      BY <2>2, <2>3 DEF Path
    <2>6. Path \subseteq Path' \cup {Building.type}
      BY <1>4, <2>1, <2>3 DEF Path
    <2> QED
      BY <2>4, <2>5, <2>6
  <1>7. Found' = Found /\ \A u : Parts(u)' = Parts(u)
    BY <1>6 DEF Found, Parts
  <1>8. \A k \in DOMAIN Parts(Building.type) : Parts(Building.type)[k] \in Found
    BY <1>2, BuildingFacts, TypeFacts DEF BuildLeft
  <1>9. ASSUME NEW i \in DOMAIN building'
        PROVE  LET g == building'[i] IN
               /\ CorpusOf(g.type) = corpus
               /\ g.next \in 1 .. Len(Parts(g.type)) + 1
               /\ \A k \in 1 .. g.next - 1 : Parts(g.type)[k] \in Found
               /\ i > 1 => /\ g.next \in DOMAIN Parts(g.type)
                           /\ building'[i - 1].type = Parts(g.type)[g.next]
    <2>1. i + 1 \in DOMAIN building /\ building'[i] = building[i + 1] /\ i \in Nat /\ i + 1 > 1
      BY <1>4, <1>5
    <2>2. i > 1 => building'[i - 1] = building[(i + 1) - 1]
      <3>1. i > 1 => i - 1 \in DOMAIN s /\ (i - 1) + 1 = (i + 1) - 1
        BY <1>3, <1>4
      <3> QED
        BY <1>4, <1>5, <3>1
    <2> QED
      BY <1>2, <2>1, <2>2 DEF ReadInv
  <1>10. late' \in [Files -> Seq(Type)] /\ LateRead'
    <2>1. Building.type \in Found'
      BY <1>6, <1>7 DEF Found
    <2> QED
      BY <1>2, <1>7, <2>1, LateGrows DEF ReadInv
  <1>11. ReadInv'
    <2>1. \A t \in built : CorpusOf(t) <= corpus /\ \A k \in DOMAIN Parts(t) : Parts(t)[k] \in Found
      BY <1>2 DEF ReadInv
    <2>2. \A t \in built' : CorpusOf(t) <= corpus /\ \A k \in DOMAIN Parts(t) : Parts(t)[k] \in Found
      BY <1>2, <1>8, <2>1
    <2> QED
      BY <1>7, <1>9, <1>10, <2>2 DEF ReadInv
  <1> QED
    BY <1>3, <1>4, <1>6, <1>7, <1>10, <1>11

(* What is read grows, and a type is canonicalized when it may be.          *)
MayCanonicalize(t) ==
  /\ t \in built /\ Kind(t) # "declaration" /\ ~HasCanonical(t)
  /\ ReadBy(CorpusOf(t)) \/ HasCanonicalParts(t)

ReadOn ==
  /\ building' \in Seq(BuildFrames) /\ late' \in [Files -> Seq(Type)]
  /\ built \subseteq built' /\ built' \subseteq Type
  /\ corpus' \in 1 .. 3 /\ (corpus' = 3 => building' = <<>> /\ NothingLate')
  /\ \A c \in Corpora : ReadBy(c) => ReadBy(c)'
  /\ \/ UNCHANGED <<job, hashing>>
     \/ corpus' = corpus /\ \E t \in Type : MayCanonicalize(t)' /\ Canonicalize(t)

LEMMA ReadBuilds ==
    ASSUME Inv, ReadRoot \/ BuildKnownPart \/ BuildClassInProgress \/ BuildPart
    PROVE  ReadInv' /\ ReadOn
  <1>1. StateInv /\ ReadInv /\ TurnsInv /\ Idle /\ corpus \in Corpora /\ world \in Worlds
        /\ late \in [Files -> Seq(Type)]
    BY ReadIsIdle DEF Inv, StateInv, Read
  <1>2. UNCHANGED <<world, corpus, built, job, hashing>> /\ built \subseteq Type /\ corpus \in {1, 2}
    BY <1>1 DEF ReadRoot, BuildKnownPart, BuildClassInProgress, BuildPart, hashVars, StateInv, Corpora
  <1>3. ASSUME building # <<>> \/ ~(Roots \subseteq built)
        PROVE  \A c \in Corpora : ReadBy(c) => ReadBy(c)'
    BY <1>2, <1>3 DEF ReadBy
  <1>4. CASE ReadRoot
    <2>1. PICK t \in Roots \ built : building' = <<BuildFrame(t)>>
      BY <1>4 DEF ReadRoot
    <2>2. t \in Type /\ CorpusOf(t) = corpus /\ building = <<>> /\ late' = late
      BY <1>1, <1>4, <2>1, WorldsAssumption DEF ReadRoot, Roots
    <2>3. building' = <<BuildFrame(t)>> \o building
      <3>1. BuildFrame(t) \in BuildFrames
        BY <2>2 DEF BuildFrame, BuildFrames
      <3>2. <<BuildFrame(t)>> \in Seq(BuildFrames)
        BY <3>1
      <3> QED
        BY <2>1, <2>2, <3>2, ConcatEmptySeq
    <2>4. ReadInv' /\ building' \in Seq(BuildFrames)
      BY <1>2, <2>2, <2>3, BeginStep
    <2> QED
      BY <1>1, <1>2, <1>3, <2>1, <2>2, <2>4 DEF ReadOn
  <1>5. CASE BuildKnownPart
    <2>1. BuildNext \in Found /\ BuildLeft /\ building' = Skip /\ late' = late /\ building # <<>>
      BY <1>5 DEF BuildKnownPart, Found, BuildLeft
    <2>2. ReadInv' /\ building' \in Seq(BuildFrames)
      BY <1>2, <2>1, SkipStep
    <2> QED
      BY <1>1, <1>2, <1>3, <2>1, <2>2 DEF ReadOn
  <1>6. CASE BuildClassInProgress
    <2>1. /\ BuildNext \in Found /\ BuildLeft /\ building' = Skip /\ building # <<>>
          /\ UNCHANGED late \/ (PutLate(BuildNext) /\ Kind(BuildNext) = "class")
      BY <1>6 DEF BuildClassInProgress, Found, Path, InProgress, BuildLeft
    <2>2. ReadInv' /\ building' \in Seq(BuildFrames) /\ late' \in [Files -> Seq(Type)]
      BY <1>2, <2>1, SkipStep
    <2> QED
      BY <1>1, <1>2, <1>3, <2>1, <2>2 DEF ReadOn
  <1>7. CASE BuildPart
    <2>1. BuildLeft /\ building' = <<BuildFrame(BuildNext)>> \o building /\ late' = late /\ building # <<>>
      BY <1>7 DEF BuildPart, BuildLeft
    <2>2. BuildNext \in Type /\ CorpusOf(BuildNext) = corpus
      BY <2>1, BuildingFacts
    <2>3. ReadInv' /\ building' \in Seq(BuildFrames)
      BY <1>2, <2>1, <2>2, BeginStep
    <2> QED
      BY <1>1, <1>2, <1>3, <2>1, <2>3 DEF ReadOn
  <1> QED
    BY <1>4, <1>5, <1>6, <1>7

LEMMA ReadEnds ==
    ASSUME Inv, BuildDone
    PROVE  ReadInv' /\ ReadOn
  <1>1. StateInv /\ ReadInv /\ TurnsInv /\ Idle /\ corpus \in {1, 2}
    BY ReadIsIdle DEF Inv, StateInv, Read, Corpora
  <1> DEFINE t == Building.type
  <1>2. /\ building # <<>> /\ ~BuildLeft /\ building' = Tail(building) /\ built' = built \cup {t}
        /\ UNCHANGED <<world, corpus, canonical>>
    BY <1>1 DEF BuildDone
  <1>3. \/ UNCHANGED <<late, job, hashing>>
        \/ ~HasCanonical(t) /\ Kind(t) # "declaration" /\ Canonicalize(t) /\ UNCHANGED late /\ HasCanonicalParts(t)
        \/ Kind(t) # "declaration" /\ PutLate(t) /\ UNCHANGED <<job, hashing>>
    BY DEF BuildDone, MayBeEarly
  <1>4. UNCHANGED late \/ (PutLate(t) /\ Kind(t) # "declaration")
    BY <1>3
  <1>5. ReadInv' /\ building' \in Seq(BuildFrames) /\ late' \in [Files -> Seq(Type)]
    BY <1>2, <1>4, EndStep
  <1>6. \A c \in Corpora : ReadBy(c) => ReadBy(c)'
    BY <1>2 DEF ReadBy
  <1>7. PICK u : u = t
    OBVIOUS
  <1>8. u \in Type /\ u \in built' /\ built' \subseteq Type
    BY <1>1, <1>2, <1>7, BuildingFacts DEF StateInv
  <1>9. UNCHANGED <<job, hashing>> \/ (MayCanonicalize(u)' /\ Canonicalize(u))
    <2> SUFFICES ASSUME ~(UNCHANGED <<job, hashing>>)
                 PROVE  MayCanonicalize(u)' /\ Canonicalize(u)
      OBVIOUS
    <2>1. ~HasCanonical(u) /\ Kind(u) # "declaration" /\ Canonicalize(u) /\ HasCanonicalParts(u)
      BY <1>3, <1>7
    <2>2. ~HasCanonical(u)' /\ HasCanonicalParts(u)'
      BY <1>2, <2>1 DEF HasCanonical, HasCanonicalParts, Parts
    <2> QED
      BY <1>8, <2>1, <2>2 DEF MayCanonicalize
  <1> QED
    BY <1>1, <1>2, <1>5, <1>6, <1>8, <1>9 DEF ReadOn

LEMMA ReadLate ==
    ASSUME Inv, CanonicalizeLate \/ CorpusRead
    PROVE  ReadInv' /\ ReadOn
  <1>1. StateInv /\ ReadInv /\ TurnsInv /\ Idle /\ corpus \in {1, 2} /\ late \in [Files -> Seq(Type)]
        /\ building = <<>> /\ Roots \subseteq built /\ built \subseteq Type /\ building \in Seq(BuildFrames)
    BY DEF Inv, StateInv, CanonicalizeLate, CorpusRead, AllRead, Corpora
  <1>2. Path = {} /\ Found = built
    BY <1>1 DEF Path, Found
  <1>3. CASE CanonicalizeLate
    <2>1. /\ ~NothingLate /\ late' = [late EXCEPT ![LateFile] = Tail(@)]
          /\ UNCHANGED <<world, corpus, built, building, canonical>>
      BY <1>3 DEF CanonicalizeLate
    <2>2. PICK t : t = NextLate
      OBVIOUS
    <2>3. PICK g : g = LateFile
      OBVIOUS
    <2>4. /\ g \in Files /\ 1 \in DOMAIN late[g] /\ t = late[g][1] /\ t \in Type
          /\ late' \in [Files -> Seq(Type)] /\ \A f \in Files : f # g => late'[f] = late[f]
          /\ \A i \in DOMAIN late'[g] : i + 1 \in DOMAIN late[g] /\ late'[g][i] = late[g][i + 1]
      BY <1>1, <2>1, <2>2, <2>3, LateTaken
    <2>5. t \in built /\ Kind(t) # "declaration" /\ ReadBy(CorpusOf(t))
      BY <1>1, <1>2, <2>4 DEF ReadInv, LateRead, ReadBy
    <2>6. ASSUME NEW f \in Files, NEW i \in DOMAIN late'[f]
          PROVE  \E j \in DOMAIN late[f] : late'[f][i] = late[f][j]
      BY <2>4
    <2>7. \A u : FileOf(u)' = FileOf(u)
      BY <2>1 DEF FileOf, Alternate
    <2>8. Found' = Found /\ \A u : Parts(u)' = Parts(u)
      BY <2>1 DEF Found, Path, Parts
    <2>9. LateRead'
      <3>1. ASSUME NEW f \in Files, NEW i \in DOMAIN late'[f]
            PROVE  /\ late'[f][i] \in Found /\ Kind(late'[f][i]) # "declaration"
                   /\ CorpusOf(late'[f][i]) = corpus /\ FileOf(late'[f][i]) = f
        BY <1>1, <2>6 DEF ReadInv, LateRead
      <3> QED
        BY <2>1, <2>7, <2>8, <3>1 DEF LateRead
    <2>10. ReadInv'
      BY <1>1, <2>1, <2>9, <2>8 DEF ReadInv
    <2>11. \A c : ReadBy(c)' <=> ReadBy(c)
      BY <2>1 DEF ReadBy, Roots
    <2>12. UNCHANGED <<job, hashing>> \/ (~HasCanonical(t) /\ Canonicalize(t))
      BY <1>3, <2>2 DEF CanonicalizeLate
    <2>13. MayCanonicalize(t)' \/ HasCanonical(t)
      BY <2>1, <2>5, <2>11 DEF MayCanonicalize, HasCanonical
    <2> QED
      BY <1>1, <2>1, <2>4, <2>10, <2>11, <2>12, <2>13 DEF ReadOn
  <1>4. CASE CorpusRead
    <2>1. NothingLate /\ corpus' = corpus + 1 /\ UNCHANGED <<world, built, building, late, job, hashing>>
      BY <1>4 DEF CorpusRead, hashVars
    <2>2. Found' = Found /\ \A u : Parts(u)' = Parts(u)
      BY <2>1 DEF Found, Path, Parts
    <2>3. \A t \in built : CorpusOf(t) <= corpus + 1
      BY <1>1, TypeFacts DEF ReadInv, Corpora
    <2>4. ReadInv' /\ NothingLate'
      <3>1. LateRead' /\ NothingLate'
        BY <2>1 DEF LateRead, NothingLate
      <3> QED
        BY <1>1, <2>1, <2>2, <2>3, <3>1 DEF ReadInv
    <2>5. \A c \in Corpora : ReadBy(c) => ReadBy(c)'
      BY <1>1, <2>1 DEF ReadBy, Corpora
    <2> QED
      BY <1>1, <2>1, <2>4, <2>5 DEF ReadOn
  <1> QED
    BY <1>3, <1>4

LEMMA NothingCompared ==
    ASSUME Inv, comparing = <<>>, comparing' = <<>>, marks' = marks
    PROVE  CompareInv' /\ MarksInv'
  <1>1. marks = {}
    BY DEF Inv, MarksInv
  <1> QED
    BY <1>1 DEF CompareInv, MarksInv

LEMMA ReadStep ==
    ASSUME Inv, Read
    PROVE  Inv'
  <1>1. ReadInv' /\ ReadOn
    BY ReadBuilds, ReadEnds, ReadLate DEF Read
  <1>2. /\ Idle /\ corpus \in Corpora
        /\ UNCHANGED <<world, canonical, table, memberHash, compareVars, asked>>
        /\ hashing = <<>> /\ comparing = <<>> /\ answer = "none" /\ job = NoJob /\ asked = <<>>
    BY ReadIsIdle, IdleFacts DEF Idle
  <1>3. UNCHANGED <<comparing, answer, marks>>
    BY <1>2 DEF compareVars
  <1>4. StateInv'
    BY <1>1, <1>2, <1>3 DEF Inv, StateInv, ReadOn
  <1>5. CompareInv' /\ MarksInv'
    BY <1>2, <1>3, NothingCompared
  <1>6. CASE UNCHANGED <<job, hashing>>
    <2>1. HashesInv'
      BY <1>2, <1>6 DEF Inv, HashesInv, HashesFrom, ClassesHashedOnce
    <2>2. TurnsInv'
      BY <1>1, <1>2, <1>3, <1>6 DEF TurnsInv, ReadOn
    <2>3. \A t \in Type : BeingCanonicalized(t)' => BeingCanonicalized(t)
      BY <1>2, <1>6 DEF BeingCanonicalized, HasCanonical
    <2>4. CanonicalInv'
      <3>1. \A t \in Type : HasCanonical(t)' =>
              /\ t \in built' /\ Kind(t) # "declaration"
              /\ \E i \in DOMAIN table' : table'[i].type = canonical'[t]
        BY <1>1, <1>2 DEF Inv, CanonicalInv, HasCanonical, ReadOn
      <3>2. \A i \in DOMAIN table' : canonical'[table'[i].type] = table'[i].type
        BY <1>2 DEF Inv, CanonicalInv
      <3>3. \A t \in Type : BeingCanonicalized(t)' => ReadBy(CorpusOf(t))' \/ HasCanonicalParts(t)'
        <4> TAKE t \in Type
        <4>1. CorpusOf(t) \in Corpora /\ (HasCanonicalParts(t)' <=> HasCanonicalParts(t))
          BY <1>2, TypesAssumption DEF HasCanonicalParts, HasCanonical, Parts
        <4> QED
          BY <1>1, <2>3, <4>1 DEF Inv, CanonicalInv, ReadOn
      <3> QED
        BY <3>1, <3>2, <3>3 DEF CanonicalInv
    <2> QED
      BY <1>1, <1>4, <1>5, <2>1, <2>2, <2>4 DEF Inv
  <1>7. ASSUME corpus' = corpus, NEW t \in Type, MayCanonicalize(t)', Canonicalize(t)
        PROVE  Inv'
    <2>1. job' = Job(t, NoHash, 0) /\ hashing' = <<HashFrame(t)>>
      BY <1>7 DEF Canonicalize
    <2>2. job'.type = t /\ job'.tried = 0 /\ job' # NoJob
      BY <2>1, TypesAssumption DEF Job, NoJob
    <2>3. HashesInv'
      <3>1. PICK H : HashesFrom(H)
        BY DEF Inv, HashesInv
      <3>2. NoHash \in H /\ table \in Seq(Entries(H))
        BY <3>1 DEF HashesFrom
      <3>3. job' \in Jobs(H)
        BY <2>1, <3>2 DEF Job, Jobs
      <3>4. HashFrame(t) \in HashFrames(H)
        BY EmptySeq DEF HashFrame, HashFrames
      <3>5. hashing' \in Seq(HashFrames(H)) /\ Len(hashing') = 1
        BY <2>1, <3>4
      <3>6. HashesFrom(H)'
        BY <1>2, <3>2, <3>3, <3>5 DEF HashesFrom
      <3>7. ClassesHashedOnce'
        <4>1. DOMAIN hashing' = 1 .. 1
          BY <3>5, LenProperties
        <4> QED
          BY <4>1 DEF ClassesHashedOnce
      <3> QED
        BY <3>6, <3>7 DEF HashesInv
    <2>4. TurnsInv'
      <3>1. t \in built' /\ Kind(t) # "declaration" /\ ~HasCanonical(t)'
        BY <1>7 DEF MayCanonicalize
      <3>2. ~HasCanonical(job.type)'
        BY <2>2, <3>1 DEF HasCanonical
      <3> QED
        BY <1>1, <1>2, <1>3, <1>7, <2>2, <3>1, <3>2 DEF TurnsInv, ReadOn
    <2>5. \A u \in Type : BeingCanonicalized(u)' => BeingCanonicalized(u) \/ u = t
      BY <1>2, <2>2 DEF BeingCanonicalized, HasCanonical
    <2>6. CanonicalInv'
      <3>1. \A u \in Type : HasCanonical(u)' =>
              /\ u \in built' /\ Kind(u) # "declaration"
              /\ \E i \in DOMAIN table' : table'[i].type = canonical'[u]
        BY <1>1, <1>2 DEF Inv, CanonicalInv, HasCanonical, ReadOn
      <3>2. \A i \in DOMAIN table' : canonical'[table'[i].type] = table'[i].type
        BY <1>2 DEF Inv, CanonicalInv
      <3>3. \A u \in Type : BeingCanonicalized(u)' => ReadBy(CorpusOf(u))' \/ HasCanonicalParts(u)'
        <4> TAKE u \in Type
        <4>1. CorpusOf(u) \in Corpora /\ (HasCanonicalParts(u)' <=> HasCanonicalParts(u))
          BY <1>2, TypesAssumption DEF HasCanonicalParts, HasCanonical, Parts
        <4>2. CASE u = t
          BY <1>7, <4>2 DEF MayCanonicalize
        <4>3. CASE u # t
          BY <1>1, <2>5, <4>1, <4>3 DEF Inv, CanonicalInv, ReadOn
        <4> QED
          BY <4>2, <4>3
      <3> QED
        BY <3>1, <3>2, <3>3 DEF CanonicalInv
    <2> QED
      BY <1>1, <1>4, <1>5, <2>3, <2>4, <2>6 DEF Inv
  <1> QED
    BY <1>1, <1>6, <1>7 DEF ReadOn

-----------------------------------------------------------------------------
(* Hashing, looking up, asking.                                             *)
LEMMA ReadStays ==
    ASSUME StateInv, UNCHANGED readVars, \A t \in Type : HasCanonical(t) => HasCanonical(t)'
    PROVE  /\ \A c : ReadBy(c)' <=> ReadBy(c)
           /\ \A t : Parts(t)' = Parts(t)
           /\ \A t \in Type : HasCanonicalParts(t) => HasCanonicalParts(t)'
           /\ ReadInv => ReadInv'
  <1>1. UNCHANGED <<world, corpus, built, building, late>>
    BY DEF readVars
  <1>2. \A c : ReadBy(c)' <=> ReadBy(c)
    BY <1>1 DEF ReadBy, Roots
  <1>3. \A t : Parts(t)' = Parts(t)
    BY <1>1 DEF Parts
  <1>4. \A t \in Type : HasCanonicalParts(t) => HasCanonicalParts(t)'
    BY <1>3, TypeFacts DEF HasCanonicalParts
  <1>5. Found' = Found
    BY <1>1 DEF Found, Path
  <1>6. ReadInv => ReadInv'
    BY <1>1, <1>3, <1>5 DEF ReadInv, LateRead, FileOf, Alternate
  <1> QED
    BY <1>2, <1>3, <1>4, <1>6

LEMMA HashKeepsInv ==
    ASSUME Inv, Hash
    PROVE  Inv'
  <1>1. /\ HashesInv' /\ hashing # <<>> /\ job' = [job EXCEPT !.hash = job'.hash]
    BY HashStep
  <1>2. UNCHANGED <<readVars, canonical, table, compareVars, asked>>
    BY DEF Hash, HashKnownPart, HashPart, HashDone
  <1>3. UNCHANGED <<world, corpus, built, building, late, canonical, table, comparing, answer, marks, asked>>
    BY <1>2 DEF readVars, compareVars
  <1>4. job # NoJob /\ job.tried = 0 /\ comparing = <<>> /\ answer = "none"
    BY <1>1 DEF Inv, TurnsInv
  <1>5. job'.type = job.type /\ job'.tried = job.tried
    <2>1. PICK H : job \in Jobs(H)
      BY DEF Inv, HashesInv, HashesFrom
    <2>2. PICK h : h = job'.hash
      OBVIOUS
    <2> QED
      BY <1>1, <2>1, <2>2 DEF Jobs
  <1>6. job' # NoJob
    BY <1>4, <1>5, TypesAssumption DEF Inv, TurnsInv, StateInv, NoJob, Job
  <1>7. \A t : HasCanonical(t)' <=> HasCanonical(t)
    BY <1>3 DEF HasCanonical
  <1>8. StateInv'
    BY <1>3 DEF Inv, StateInv
  <1>9. TurnsInv'
    <2>1. /\ job.type \in built /\ Kind(job.type) # "declaration" /\ ~HasCanonical(job.type)
          /\ corpus \in Corpora /\ asked = <<>> /\ (corpus = 3 => building = <<>> /\ NothingLate)
      BY <1>4 DEF Inv, TurnsInv
    <2> QED
      BY <1>3, <1>4, <1>5, <1>6, <2>1 DEF TurnsInv, HasCanonical, NothingLate
  <1>10. ReadInv' /\ \A c : ReadBy(c)' <=> ReadBy(c)
    BY <1>2, <1>7, ReadStays DEF Inv
  <1>11. CanonicalInv'
    <2>1. \A t \in Type : HasCanonicalParts(t) => HasCanonicalParts(t)'
      BY <1>2, <1>7, ReadStays DEF Inv
    <2>2. \A t : BeingCanonicalized(t)' <=> BeingCanonicalized(t)
      BY <1>5, <1>7 DEF BeingCanonicalized
    <2> QED
      BY <1>3, <1>7, <1>10, <2>1, <2>2 DEF Inv, CanonicalInv
  <1>12. CompareInv' /\ MarksInv'
    BY <1>3, <1>4, NothingCompared
  <1> QED
    BY <1>1, <1>8, <1>9, <1>10, <1>11, <1>12 DEF Inv

(* A comparison begins.                                                     *)
LEMMA OneComparison ==
    ASSUME Inv, comparing = <<>>, answer = "none", UNCHANGED <<world, answer, marks>>,
           NEW l \in Type, NEW r \in Type, comparing' = <<CompareFrame(l, r)>>,
           Settled(l)', Settled(r)', Root' = <<l, r>>
    PROVE  CompareInv' /\ MarksInv' /\ comparing' \in Seq(CompareFrames)
  <1>1. PICK f : f = CompareFrame(l, r)
    OBVIOUS
  <1>2. f \in CompareFrames /\ ~f.open /\ f.next = 1 /\ f.l = l /\ f.r = r
    BY <1>1 DEF CompareFrame, CompareFrames
  <1>3. /\ comparing' \in Seq(CompareFrames) /\ Len(comparing') = 1 /\ comparing'[1] = f
        /\ DOMAIN comparing' = 1 .. 1
    BY <1>1, <1>2
  <1>4. FrameInv(f)'
    BY <1>2 DEF FrameInv
  <1>5. \A i \in DOMAIN comparing' : comparing'[i] = f
    BY <1>3
  <1>6. \A i \in 1 .. Len(comparing') - 1 : FALSE
    BY <1>3
  <1>7. CompareInv'
    <2>1. PairOf(comparing[Len(comparing)])' = Root'
      BY <1>2, <1>3 DEF PairOf
    <2>2. \A i \in DOMAIN comparing' : FrameInv(comparing[i])'
      BY <1>4, <1>5
    <2> QED
      BY <1>6, <2>1, <2>2 DEF CompareInv
  <1>8. MarksInv'
    <2>1. marks = {}
      BY DEF Inv, MarksInv
    <2>2. \A i \in DOMAIN comparing' : ~ClassOpen(comparing'[i])
      BY <1>2, <1>5 DEF ClassOpen
    <2> QED
      BY <2>1, <2>2 DEF MarksInv
  <1> QED
    BY <1>3, <1>7, <1>8

LEMMA TableTypes ==
    ASSUME Inv, NEW i \in DOMAIN table
    PROVE  /\ table[i].type \in Type /\ HasCanonical(table[i].type) /\ table[i].type \in built
           /\ canonical[table[i].type] = table[i].type
  <1>1. PICK H : table \in Seq(Entries(H))
    BY DEF Inv, HashesInv, HashesFrom
  <1>2. table[i].type \in Type
    <2>1. table[i] \in Entries(H)
      BY <1>1, ElementOfSeq, LenProperties
    <2> QED
      BY <2>1 DEF Entries
  <1> QED
    BY <1>2, TypesAssumption DEF Inv, CanonicalInv, HasCanonical

LEMMA JobFacts ==
    ASSUME Inv, job # NoJob
    PROVE  /\ job.type \in Type /\ job.type \in built /\ ~HasCanonical(job.type) /\ job.type # NoType
           /\ Kind(job.type) # "declaration" /\ asked = <<>> /\ corpus \in Corpora
           /\ Settled(job.type)
           /\ ReadBy(CorpusOf(job.type)) \/ HasCanonicalParts(job.type)
  BY TypesAssumption DEF Inv, TurnsInv, StateInv, Settled, BeingCanonicalized, CanonicalInv

LEMMA TryStep ==
    ASSUME Inv, TryCandidate
    PROVE  Inv'
  <1>1. /\ job # NoJob /\ hashing = <<>> /\ comparing = <<>> /\ answer = "none"
        /\ UNCHANGED <<readVars, canonical, table, hashVars, answer, marks, asked>>
    BY DEF TryCandidate, Trying
  <1>2. PICK i \in CandidatesLeft : /\ job' = [job EXCEPT !.tried = i]
                                    /\ comparing' = <<CompareFrame(job.type, table[i].type)>>
    BY DEF TryCandidate
  <1>3. UNCHANGED <<world, corpus, built, building, late, canonical, table, hashing, answer, marks, asked>>
    BY <1>1 DEF readVars, hashVars
  <1>4. PICK H : HashesFrom(H)
    BY DEF Inv, HashesInv
  <1>5. i \in DOMAIN table /\ i \in Nat
    BY <1>2, <1>4, LenProperties DEF CandidatesLeft, HashesFrom
  <1>6. job' \in Jobs(H) /\ job'.type = job.type /\ job'.tried = i
    BY <1>2, <1>4, <1>5 DEF HashesFrom, Jobs
  <1>7. job' # NoJob /\ job.type \in Type /\ job.type # NoType
    BY <1>1, <1>6, JobFacts DEF NoJob, Job
  <1>8. HashesInv'
    BY <1>3, <1>4, <1>6 DEF Inv, HashesInv, HashesFrom, ClassesHashedOnce
  <1>9. \A t : (HasCanonical(t)' <=> HasCanonical(t)) /\ (BeingCanonicalized(t)' <=> BeingCanonicalized(t))
    BY <1>3, <1>6 DEF HasCanonical, BeingCanonicalized
  <1>10. ReadInv' /\ (\A c : ReadBy(c)' <=> ReadBy(c))
         /\ \A t \in Type : HasCanonicalParts(t) => HasCanonicalParts(t)'
    BY <1>1, <1>9, ReadStays DEF Inv
  <1>11. CanonicalInv'
    BY <1>3, <1>9, <1>10 DEF Inv, CanonicalInv
  <1>12. TurnsInv'
    <2>1. /\ job.type \in built /\ Kind(job.type) # "declaration" /\ ~HasCanonical(job.type)
          /\ corpus \in Corpora /\ asked = <<>> /\ (corpus = 3 => building = <<>> /\ NothingLate)
      BY <1>1, JobFacts DEF Inv, TurnsInv
    <2> QED
      BY <1>1, <1>3, <1>5, <1>6, <1>7, <1>9, <2>1 DEF TurnsInv, NothingLate
  <1>13. CompareInv' /\ MarksInv' /\ comparing' \in Seq(CompareFrames)
    <2>1. PICK r : r = table[i].type
      OBVIOUS
    <2>2. r \in Type /\ HasCanonical(r) /\ r \in built
      BY <1>5, <2>1, TableTypes
    <2>3. \A t : Settled(t) => Settled(t)'
      BY <1>3, <1>9, <1>10 DEF Settled
    <2>4. Settled(r)' /\ Settled(job.type)
      BY <1>1, <2>2, <2>3, JobFacts DEF Settled, BeingCanonicalized
    <2>5. PICK l : l = job.type
      OBVIOUS
    <2>6. Settled(l)' /\ l \in Type
      BY <1>7, <2>3, <2>4, <2>5
    <2>7. Root' = <<l, r>>
      BY <1>1, <1>3, <1>6, <2>1, <2>5, JobFacts DEF Root, Candidate
    <2> QED
      BY <1>1, <1>2, <1>3, <2>1, <2>2, <2>4, <2>5, <2>6, <2>7, OneComparison
  <1>14. StateInv'
    BY <1>3, <1>13 DEF Inv, StateInv
  <1> QED
    BY <1>8, <1>10, <1>11, <1>12, <1>13, <1>14 DEF Inv

LEMMA AskStep ==
    ASSUME Inv, Ask
    PROVE  Inv'
  <1>1. /\ corpus = 3 /\ Idle /\ comparing = <<>> /\ hashing = <<>> /\ answer = "none" /\ job = NoJob
        /\ UNCHANGED <<readVars, canonical, table, job, hashVars, answer, marks>>
    BY IdleFacts DEF Ask, Idle
  <1>2. PICK l \in built, r \in built : /\ asked' = <<l, r>> /\ comparing' = <<CompareFrame(l, r)>>
    BY DEF Ask
  <1>3. UNCHANGED <<world, corpus, built, building, late, canonical, table, job, hashing, answer, marks>>
    BY <1>1 DEF readVars, hashVars
  <1>4. HashesInv'
    BY <1>3 DEF Inv, HashesInv, HashesFrom, ClassesHashedOnce
  <1>5. \A t : (HasCanonical(t)' <=> HasCanonical(t)) /\ (BeingCanonicalized(t)' <=> BeingCanonicalized(t))
    BY <1>3 DEF HasCanonical, BeingCanonicalized
  <1>6. ReadInv' /\ (\A c : ReadBy(c)' <=> ReadBy(c))
        /\ \A t \in Type : HasCanonicalParts(t) => HasCanonicalParts(t)'
    BY <1>1, <1>5, ReadStays DEF Inv
  <1>7. CanonicalInv'
    BY <1>3, <1>5, <1>6 DEF Inv, CanonicalInv
  <1>8. TurnsInv'
    BY <1>1, <1>2, <1>3 DEF TurnsInv, Inv, NothingLate
  <1>9. l \in Type /\ r \in Type /\ CorpusOf(l) \in {1, 2} /\ CorpusOf(r) \in {1, 2}
    <2>1. l \in Type /\ r \in Type
      BY <1>2 DEF Inv, StateInv
    <2> QED
      BY <2>1, TypesAssumption DEF Corpora
  <1>10. Settled(l)' /\ Settled(r)'
    BY <1>1, <1>2, <1>3, <1>9 DEF Settled, ReadBy
  <1>11. Root' = <<l, r>>
    BY <1>2 DEF Root
  <1>12. CompareInv' /\ MarksInv' /\ comparing' \in Seq(CompareFrames)
    BY <1>1, <1>2, <1>3, <1>9, <1>10, <1>11, OneComparison
  <1>13. StateInv'
    BY <1>2, <1>3, <1>12 DEF Inv, StateInv
  <1> QED
    BY <1>4, <1>6, <1>7, <1>8, <1>12, <1>13 DEF Inv

(* The type has got its canonical type.                                     *)
LEMMA GetsCanonical ==
    ASSUME Inv, Trying, UNCHANGED <<readVars, hashVars, comparing, marks, asked>>,
           answer' = "none", job' = NoJob,
           NEW u \in Type, canonical' = [canonical EXCEPT ![job.type] = u],
           \A i \in DOMAIN table : i \in DOMAIN table' /\ table'[i].type = table[i].type,
           \A i \in DOMAIN table' \ DOMAIN table : table'[i].type = u,
           \E i \in DOMAIN table' : table'[i].type = u,
           canonical[u] = u \/ u = job.type,
           HashesInv'
    PROVE  Inv'
  <1>1. /\ job # NoJob /\ hashing = <<>> /\ comparing = <<>> /\ job.type \in Type
        /\ job.type \in built /\ ~HasCanonical(job.type) /\ Kind(job.type) # "declaration" /\ asked = <<>>
        /\ canonical \in [Type -> Type \cup {NoType}] /\ canonical[job.type] = NoType
    BY JobFacts DEF Trying, Inv, StateInv, HasCanonical
  <1>2. UNCHANGED <<world, corpus, built, building, late, hashing, comparing, marks, asked>>
    BY DEF readVars, hashVars
  <1>3. /\ canonical' \in [Type -> Type \cup {NoType}]
        /\ canonical'[job.type] = u
        /\ \A t \in Type : t # job.type => canonical'[t] = canonical[t]
    BY <1>1
  <1>4. /\ \A t \in Type : HasCanonical(t) => HasCanonical(t)'
        /\ \A t \in Type : HasCanonical(t)' => HasCanonical(t) \/ t = job.type
    BY <1>1, <1>3, TypesAssumption DEF HasCanonical
  <1>5. ReadInv' /\ (\A c : ReadBy(c)' <=> ReadBy(c))
        /\ \A t \in Type : HasCanonicalParts(t) => HasCanonicalParts(t)'
    BY <1>4, ReadStays DEF Inv
  <1>6. CanonicalInv'
    <2>1. \A t \in Type : HasCanonical(t)' =>
            /\ t \in built' /\ Kind(t) # "declaration"
            /\ \E i \in DOMAIN table' : table'[i].type = canonical'[t]
      BY <1>1, <1>2, <1>3, <1>4 DEF Inv, CanonicalInv
    <2>2. \A i \in DOMAIN table' : canonical'[table'[i].type] = table'[i].type
      <3> TAKE i \in DOMAIN table'
      <3>1. canonical'[u] = u
        BY <1>1, <1>3
      <3>2. CASE i \in DOMAIN table
        <4>1. table[i].type \in Type /\ canonical[table[i].type] = table[i].type /\ HasCanonical(table[i].type)
          BY <3>2, TableTypes
        <4>2. table[i].type # job.type
          BY <1>1, <4>1
        <4> QED
          BY <1>3, <3>2, <4>1, <4>2
      <3> QED
        BY <3>1, <3>2
    <2>3. \A t \in Type : BeingCanonicalized(t)' => BeingCanonicalized(t)
      BY <1>4, TypesAssumption DEF BeingCanonicalized, NoJob, Job
    <2>4. \A t \in Type : BeingCanonicalized(t)' => ReadBy(CorpusOf(t))' \/ HasCanonicalParts(t)'
      BY <1>5, <2>3 DEF Inv, CanonicalInv
    <2> QED
      BY <2>1, <2>2, <2>4 DEF CanonicalInv
  <1>7. TurnsInv'
    BY <1>1, <1>2 DEF Inv, TurnsInv, NothingLate
  <1>8. StateInv'
    BY <1>2, <1>3 DEF Inv, StateInv
  <1>9. CompareInv' /\ MarksInv'
    BY <1>1, <1>2, NothingCompared
  <1> QED
    BY <1>5, <1>6, <1>7, <1>8, <1>9 DEF Inv

LEMMA TakeStep ==
    ASSUME Inv, TakeCandidate
    PROVE  Inv'
  <1>1. /\ Trying /\ answer = "yes" /\ job # NoJob /\ asked = <<>> /\ answer' = "none" /\ job' = NoJob
        /\ canonical' = [canonical EXCEPT ![job.type] = Candidate]
        /\ UNCHANGED <<readVars, table, hashVars, comparing, marks, asked>>
    BY JobFacts DEF TakeCandidate, Trying
  <1>2. job.tried \in DOMAIN table
    BY <1>1 DEF Inv, TurnsInv
  <1>3. PICK u : u = Candidate
    OBVIOUS
  <1>4. u \in Type /\ canonical[u] = u /\ u = table[job.tried].type
    BY <1>2, <1>3, TableTypes DEF Candidate
  <1>5. HashesInv'
    <2>1. PICK H : HashesFrom(H)
      BY DEF Inv, HashesInv
    <2>2. hashing' = hashing /\ table' = table
      BY <1>1 DEF hashVars
    <2>3. job' \in Jobs(H)
      BY <1>1, <2>1 DEF Jobs, HashesFrom, NoJob, Job
    <2> QED
      BY <2>1, <2>2, <2>3 DEF Inv, HashesInv, HashesFrom, ClassesHashedOnce
  <1> QED
    BY <1>1, <1>2, <1>3, <1>4, <1>5, GetsCanonical

LEMMA NewStep ==
    ASSUME Inv, NewCanonical
    PROVE  Inv'
  <1>1. /\ Trying /\ answer = "none" /\ job # NoJob /\ job' = NoJob
        /\ canonical' = [canonical EXCEPT ![job.type] = job.type]
        /\ table' = Append(table, [type |-> job.type, hash |-> job.hash])
        /\ UNCHANGED <<readVars, hashVars, comparing, answer, marks, asked>>
    BY DEF NewCanonical, Trying, compareVars
  <1>2. PICK H : HashesFrom(H)
    BY DEF Inv, HashesInv
  <1>3. PICK e : e = [type |-> job.type, hash |-> job.hash]
    OBVIOUS
  <1>4. job.type \in Type
    BY <1>1, JobFacts
  <1>5. e \in Entries(H) /\ e.type = job.type
    BY <1>2, <1>3, <1>4 DEF HashesFrom, Jobs, Entries
  <1>6. /\ table' \in Seq(Entries(H)) /\ Len(table') = Len(table) + 1 /\ Len(table) \in Nat
        /\ \A i \in 1 .. Len(table) : table'[i] = table[i]
        /\ table'[Len(table) + 1] = e
        /\ DOMAIN table = 1 .. Len(table)
    BY <1>1, <1>2, <1>3, <1>5, AppendProperties, LenProperties DEF HashesFrom
  <1>7. DOMAIN table' = 1 .. Len(table) + 1
    BY <1>6, LenProperties
  <1>8. HashesInv'
    <2>1. hashing' = hashing /\ NoHash \in H
      BY <1>1, <1>2 DEF hashVars, HashesFrom
    <2>2. job' \in Jobs(H)
      BY <1>1, <2>1 DEF Jobs, NoJob, Job
    <2>3. HashesFrom(H)'
      BY <1>2, <1>6, <2>1, <2>2 DEF HashesFrom
    <2> QED
      BY <2>1, <2>3 DEF Inv, HashesInv, ClassesHashedOnce
  <1>9. PICK u : u = job.type
    OBVIOUS
  <1>10. \A i \in DOMAIN table : i \in DOMAIN table' /\ table'[i].type = table[i].type
    BY <1>6, <1>7
  <1>11. \A i \in DOMAIN table' \ DOMAIN table : table'[i].type = u
    BY <1>5, <1>6, <1>7, <1>9
  <1>12. \E i \in DOMAIN table' : table'[i].type = u
    BY <1>5, <1>6, <1>7, <1>9, Len(table) + 1 \in 1 .. Len(table) + 1
  <1> QED
    BY <1>1, <1>4, <1>8, <1>9, <1>10, <1>11, <1>12, GetsCanonical

LEMMA LeaveStep ==
    ASSUME Inv, LeaveCandidate
    PROVE  Inv'
  <1>1. /\ comparing = <<>> /\ answer = "no" /\ answer' = "none" /\ job # NoJob
        /\ UNCHANGED <<readVars, canonical, table, job, hashVars, comparing, marks, asked>>
    BY DEF LeaveCandidate, Trying
  <1>2. UNCHANGED <<world, corpus, built, building, late, hashing>>
    BY <1>1 DEF readVars, hashVars
  <1>3. \A t : (HasCanonical(t)' <=> HasCanonical(t)) /\ (BeingCanonicalized(t)' <=> BeingCanonicalized(t))
    BY <1>1 DEF HasCanonical, BeingCanonicalized
  <1>4. ReadInv' /\ (\A c : ReadBy(c)' <=> ReadBy(c))
        /\ \A t \in Type : HasCanonicalParts(t) => HasCanonicalParts(t)'
    BY <1>1, <1>3, ReadStays DEF Inv
  <1>5. CanonicalInv'
    BY <1>1, <1>2, <1>3, <1>4 DEF Inv, CanonicalInv
  <1>6. HashesInv'
    BY <1>1, <1>2 DEF Inv, HashesInv, HashesFrom, ClassesHashedOnce
  <1>7. TurnsInv'
    BY <1>1, <1>2, <1>3 DEF Inv, TurnsInv, NothingLate
  <1>8. StateInv'
    BY <1>1, <1>2 DEF Inv, StateInv
  <1>9. CompareInv' /\ MarksInv'
    BY <1>1, NothingCompared
  <1> QED
    BY <1>4, <1>5, <1>6, <1>7, <1>8, <1>9 DEF Inv

LEMMA CompareKeepsInv ==
    ASSUME Inv, Compare
    PROVE  Inv'
  <1>1. CompareOnly /\ comparing # <<>> /\ StateInv' /\ CompareInv' /\ MarksInv'
    BY CompareStep, MarksStep
  <1>2. UNCHANGED <<world, corpus, built, building, late, canonical, table, job, hashing, asked>>
    BY <1>1 DEF CompareOnly, readVars, hashVars
  <1>3. \A t : (HasCanonical(t)' <=> HasCanonical(t)) /\ (BeingCanonicalized(t)' <=> BeingCanonicalized(t))
    BY <1>2 DEF HasCanonical, BeingCanonicalized
  <1>4. ReadInv' /\ (\A c : ReadBy(c)' <=> ReadBy(c))
        /\ \A t \in Type : HasCanonicalParts(t) => HasCanonicalParts(t)'
    BY <1>1, <1>3, ReadStays DEF Inv, CompareOnly
  <1>5. CanonicalInv'
    BY <1>2, <1>3, <1>4 DEF Inv, CanonicalInv
  <1>6. HashesInv'
    BY <1>2 DEF Inv, HashesInv, HashesFrom, ClassesHashedOnce
  <1>7. TurnsInv'
    BY <1>1, <1>2, <1>3 DEF Inv, TurnsInv, NothingLate
  <1> QED
    BY <1>1, <1>4, <1>5, <1>6, <1>7 DEF Inv

LEMMA InvInductive == Inv /\ [Next]_vars => Inv'
  <1> SUFFICES ASSUME Inv, [Next]_vars
               PROVE  Inv'
    OBVIOUS
  <1>1. CASE LookUp
    BY <1>1, TryStep, TakeStep, LeaveStep, NewStep DEF LookUp
  <1>2. CASE UNCHANGED vars
    <2>1. /\ UNCHANGED <<world, corpus, built, building, late, canonical, table, job, hashing>>
          /\ UNCHANGED <<comparing, answer, marks, asked>>
          /\ CompareOnly
      BY <1>2 DEF vars, readVars, hashVars, compareVars, CompareOnly
    <2>2. \A t : (HasCanonical(t)' <=> HasCanonical(t)) /\ (BeingCanonicalized(t)' <=> BeingCanonicalized(t))
      BY <2>1 DEF HasCanonical, BeingCanonicalized
    <2>3. ReadInv' /\ (\A c : ReadBy(c)' <=> ReadBy(c))
          /\ \A t \in Type : HasCanonicalParts(t) => HasCanonicalParts(t)'
      BY <2>1, <2>2, ReadStays DEF Inv, CompareOnly
    <2>4. CanonicalInv'
      BY <2>1, <2>2, <2>3 DEF Inv, CanonicalInv
    <2>5. HashesInv' /\ StateInv'
      BY <2>1 DEF Inv, HashesInv, HashesFrom, ClassesHashedOnce, StateInv
    <2>6. TurnsInv'
      BY <2>1, <2>2 DEF Inv, TurnsInv, NothingLate
    <2>7. CompareInv'
      BY <2>1, CompareKeeps DEF Inv, CompareInv, PairOf
    <2>8. MarksInv'
      BY <2>1 DEF Inv, MarksInv
    <2> QED
      BY <2>3, <2>4, <2>5, <2>6, <2>7, <2>8 DEF Inv
  <1> QED
    BY <1>1, <1>2, ReadStep, HashKeepsInv, CompareKeepsInv, AskStep DEF Next

-----------------------------------------------------------------------------
(* What the invariant is for.                                               *)
LEMMA InvTypeOK == Inv => TypeOK
  <1> SUFFICES ASSUME Inv
               PROVE  TypeOK
    OBVIOUS
  <1>1. \A i \in DOMAIN building : building[i].next \in 1 .. Len(Parts(building[i].type)) + 1
    BY DEF Inv, ReadInv
  <1>2. \A f \in Files : ToSet(late[f]) \subseteq built \cup {g.type : g \in ToSet(building)}
    BY DEF Inv, ReadInv, LateRead, Found, Path, ToSet
  <1>3. ASSUME NEW i \in DOMAIN comparing, NEW j \in DOMAIN comparing,
               i < j, comparing[i].open, IsClass(comparing[i].l)
        PROVE  <<comparing[i].l, comparing[i].r>> # <<comparing[j].l, comparing[j].r>>
    <2>1. i \in Nat /\ j \in Nat /\ j - 1 \in 1 .. Len(comparing) - 1 /\ (j - 1) + 1 = j
      BY <1>3, LenProperties DEF Inv, StateInv
    <2>2. comparing[j].open
      BY <2>1 DEF Inv, CompareInv, LeadsTo, ComparesPart
    <2>3. i # j
      BY <1>3, <2>1
    <2>4. IsClass(comparing[j].l) => Name(comparing[i].l) \notin NamesOf(comparing[j])
      BY <1>3, <2>2, <2>3 DEF Inv, MarksInv, ClassOpen, NamesOf
    <2> QED
      BY <1>3, <2>4 DEF NamesOf
  <1>4. marks \subseteq {Name(t) : t \in {t \in Type : IsClass(t)}}
    <2> SUFFICES ASSUME NEW n \in marks
                 PROVE  n \in {Name(t) : t \in {t \in Type : IsClass(t)}}
      OBVIOUS
    <2>1. PICK i \in DOMAIN comparing : ClassOpen(comparing[i]) /\ n \in NamesOf(comparing[i])
      BY DEF Inv, MarksInv
    <2>2. comparing[i] \in CompareFrames /\ FrameInv(comparing[i])
      BY ElementOfSeq, LenProperties DEF Inv, StateInv, CompareInv
    <2>3. /\ comparing[i].l \in Type /\ comparing[i].r \in Type
          /\ IsClass(comparing[i].l) /\ IsClass(comparing[i].r)
      BY <2>1, <2>2 DEF CompareFrames, FrameInv, ClassOpen, LooksAlike, IsKnown
    <2> QED
      BY <2>1, <2>3 DEF NamesOf
  <1> QED
    BY <1>1, <1>2, <1>3, <1>4 DEF TypeOK, Inv, StateInv, HashesInv, ClassesHashedOnce

LEMMA InvMarksMatch == Inv => MarksMatch
  <1> SUFFICES ASSUME Inv
               PROVE  MarksMatch
    OBVIOUS
  <1> DEFINE open == UNION {{Name(f.l), Name(f.r)} :
                            f \in {f \in ToSet(comparing) : f.open /\ IsClass(f.l)}}
  <1>1. \A n : n \in open <=> \E i \in DOMAIN comparing :
                                ClassOpen(comparing[i]) /\ n \in NamesOf(comparing[i])
    BY DEF ToSet, ClassOpen, NamesOf
  <1> HIDE DEF open
  <1>2. marks \subseteq open /\ (answer # "no" => open \subseteq marks)
    BY <1>1 DEF Inv, MarksInv
  <1> QED
    BY <1>2 DEF MarksMatch, open

LEMMA InvAlways == Spec => []Inv
  BY InvInit, InvInductive, PTL DEF Spec

(* Every node that is referred to exists; no class is hashed twice at a     *)
(* time, and no two types are compared twice at a time: hashing and         *)
(* comparing go down each cycle of the types once.                          *)
THEOREM TypeCorrect == Spec => []TypeOK
  BY InvAlways, InvTypeOK, PTL

(* A comparison marks the classes that it is comparing, and takes its marks *)
(* and no others away, be it through declarations or not, but for one that  *)
(* has already failed.                                                      *)
THEOREM MarksAlwaysMatch == Spec => []MarksMatch
  BY InvAlways, InvMarksMatch, PTL

-----------------------------------------------------------------------------
(* The types that are the same all the way down: those that some relation   *)
(* relates whose pairs are alike and whose pairs of parts it relates.       *)
Bisimulation(B) == \A p \in B : Alike(p[1], p[2]) /\ PartPairs(p) \subseteq B
Same == UNION {B \in SUBSET (Type \X Type) : Bisimulation(B)}

LEMMA SameIsBisimulation == Same \subseteq Type \X Type /\ Bisimulation(Same)
  <1>1. \A B \in SUBSET (Type \X Type) : Bisimulation(B) => B \subseteq Same
    BY DEF Same
  <1>2. ASSUME NEW p \in Same
        PROVE  Alike(p[1], p[2]) /\ PartPairs(p) \subseteq Same
    <2>1. PICK B \in SUBSET (Type \X Type) : Bisimulation(B) /\ p \in B
      BY DEF Same
    <2> QED
      BY <1>1, <2>1 DEF Bisimulation
  <1> QED
    BY <1>2 DEF Same, Bisimulation

(* What is related by a relation that is one but for pairs that are the     *)
(* same is the same.                                                        *)
LEMMA Coinduction ==
    ASSUME NEW D \in SUBSET (Type \X Type),
           \A p \in D : Alike(p[1], p[2]) /\ PartPairs(p) \subseteq D \cup Same
    PROVE  D \subseteq Same
  <1>1. D \cup Same \in SUBSET (Type \X Type) /\ Bisimulation(D \cup Same)
    BY SameIsBisimulation DEF Bisimulation
  <1> QED
    BY <1>1 DEF Same

LEMMA PartsOfPair ==
    ASSUME StateInv, NEW t \in Type, NEW u \in Type, Len(Parts(t)) = Len(Parts(u))
    PROVE  /\ PartPairs(<<t, u>>) \subseteq Type \X Type
           /\ DOMAIN Parts(t) = 1 .. Len(Parts(t)) /\ DOMAIN Parts(u) = DOMAIN Parts(t)
           /\ \A q : q \in PartPairs(<<t, u>>) <=>
                       \E k \in DOMAIN Parts(t) : q = <<Parts(t)[k], Parts(u)[k]>>
  BY TypeFacts DEF PartPairs

LEMMA SameReflexive ==
    ASSUME StateInv, NEW t \in Type
    PROVE  <<t, t>> \in Same
  <1> DEFINE D == {<<u, u>> : u \in Type}
  <1>1. ASSUME NEW p \in D
        PROVE  Alike(p[1], p[2]) /\ PartPairs(p) \subseteq D
    <2>1. PICK u \in Type : p = <<u, u>>
      BY <1>1
    <2>2. PartPairs(p) \subseteq D
      BY <2>1, TypeFacts DEF PartPairs
    <2> QED
      BY <2>1, <2>2 DEF Alike
  <1>2. D \in SUBSET (Type \X Type) /\ <<t, t>> \in D
    OBVIOUS
  <1> HIDE DEF D
  <1> QED
    BY <1>1, <1>2, Coinduction

LEMMA SameSymmetric ==
    ASSUME StateInv, NEW t \in Type, NEW u \in Type, <<t, u>> \in Same
    PROVE  <<u, t>> \in Same
  <1> DEFINE D == {p \in Type \X Type : <<p[2], p[1]>> \in Same}
  <1>1. ASSUME NEW p \in D
        PROVE  Alike(p[1], p[2]) /\ PartPairs(p) \subseteq D
    <2>1. PICK x \in Type, y \in Type : p = <<x, y>> /\ <<y, x>> \in Same
      BY <1>1
    <2>2. Alike(y, x) /\ PartPairs(<<y, x>>) \subseteq Same
      BY <2>1, SameIsBisimulation DEF Bisimulation
    <2>3. Alike(x, y)
      BY <2>2 DEF Alike
    <2>4. PartPairs(p) \subseteq D
      BY <2>1, <2>2, <2>3, PartsOfPair DEF Alike
    <2> QED
      BY <2>1, <2>3, <2>4
  <1>2. D \in SUBSET (Type \X Type) /\ <<u, t>> \in D
    OBVIOUS
  <1> HIDE DEF D
  <1> QED
    BY <1>1, <1>2, Coinduction

LEMMA SameTransitive ==
    ASSUME StateInv, NEW t \in Type, NEW u \in Type, NEW v \in Type,
           <<t, u>> \in Same, <<u, v>> \in Same
    PROVE  <<t, v>> \in Same
  <1> DEFINE D == {p \in Type \X Type : \E y \in Type : <<p[1], y>> \in Same /\ <<y, p[2]>> \in Same}
  <1>1. ASSUME NEW p \in D
        PROVE  Alike(p[1], p[2]) /\ PartPairs(p) \subseteq D
    <2>1. PICK x \in Type, y \in Type, z \in Type :
            p = <<x, z>> /\ <<x, y>> \in Same /\ <<y, z>> \in Same
      <3>1. p = <<p[1], p[2]>> /\ p[1] \in Type /\ p[2] \in Type
        BY <1>1
      <3> QED
        BY <1>1, <3>1
    <2>2. /\ Alike(x, y) /\ PartPairs(<<x, y>>) \subseteq Same
          /\ Alike(y, z) /\ PartPairs(<<y, z>>) \subseteq Same
      BY <2>1, SameIsBisimulation DEF Bisimulation
    <2>3. Alike(x, z)
      BY <2>2 DEF Alike
    <2>4. ASSUME NEW q \in PartPairs(<<x, z>>)
          PROVE  q \in D
      <3>1. PICK k \in DOMAIN Parts(x) : q = <<Parts(x)[k], Parts(z)[k]>>
        BY <2>3, PartsOfPair DEF Alike
      <3>2. /\ k \in DOMAIN Parts(y) /\ k \in DOMAIN Parts(z)
            /\ Parts(x)[k] \in Type /\ Parts(y)[k] \in Type /\ Parts(z)[k] \in Type
        BY <2>2, TypeFacts DEF Alike
      <3>3. <<Parts(x)[k], Parts(y)[k]>> \in Same /\ <<Parts(y)[k], Parts(z)[k]>> \in Same
        BY <2>2, <3>2, PartsOfPair DEF Alike
      <3> QED
        BY <3>1, <3>2, <3>3
    <2> QED
      BY <2>1, <2>3, <2>4
  <1>2. D \in SUBSET (Type \X Type) /\ <<t, v>> \in D
    OBVIOUS
  <1> HIDE DEF D
  <1> QED
    BY <1>1, <1>2, Coinduction

LEMMA SameStays ==
    ASSUME world' = world
    PROVE  /\ Same' = Same
           /\ \A t, u : Alike(t, u)' <=> Alike(t, u)
           /\ \A p : PartPairs(p)' = PartPairs(p)
           /\ \A t : Parts(t)' = Parts(t)
  <1>1. \A t : Parts(t)' = Parts(t) /\ Label(t)' = Label(t) /\ Layout(t)' = Layout(t)
    BY DEF Parts, Label, Layout
  <1>2. \A t, u : Alike(t, u)' <=> Alike(t, u)
    BY <1>1 DEF Alike
  <1>3. \A p : PartPairs(p)' = PartPairs(p)
    BY <1>1 DEF PartPairs
  <1>4. \A B : Bisimulation(B)' <=> Bisimulation(B)
    BY <1>2, <1>3 DEF Bisimulation
  <1> QED
    BY <1>1, <1>2, <1>3, <1>4 DEF Same

-----------------------------------------------------------------------------
(* Canonical types are those of types that are the same.  While types are   *)
(* compared there is a set D of pairs that have been found alike, whose     *)
(* parts are in it again, are being compared, or are the same: when no      *)
(* comparison is open any more, the pairs of D are the same.                *)
OpenPairs == {PairOf(comparing[i]) : i \in {i \in DOMAIN comparing : comparing[i].open}}
Trust(D) == D \cup OpenPairs \cup Same

PartsDone(f) == {Pairs(f.l, f.r)[k] : k \in 1 .. f.next - 1}
Returned == IF comparing = <<>> THEN Root ELSE Pairs(L, R)[Here.next]

Trusted(D) ==
  /\ \A p \in D : Alike(p[1], p[2]) /\ PartPairs(p) \subseteq Trust(D)
  /\ \A i \in DOMAIN comparing : PartsDone(comparing[i]) \subseteq Trust(D)
  /\ answer = "yes" => Returned \in Trust(D)

SoundInv ==
  AllDefined =>
    /\ \A t \in Type : HasCanonical(t) => <<t, canonical[t]>> \in Same
    /\ answer # "no" => \E D \in SUBSET (Type \X Type) : Trusted(D)

LEMMA RootFacts ==
    ASSUME Inv, comparing # <<>> \/ answer # "none"
    PROVE  /\ Root \in Type \X Type /\ Root = <<Root[1], Root[2]>>
           /\ asked = <<>> => /\ Root = <<job.type, Candidate>> /\ job # NoJob
                              /\ job.tried \in DOMAIN table /\ Candidate = table[job.tried].type
  <1>1. CASE asked # <<>>
    BY <1>1 DEF Inv, StateInv, Root
  <1>2. CASE asked = <<>>
    <2>1. job # NoJob /\ job.tried \in DOMAIN table
      BY <1>2 DEF Inv, TurnsInv
    <2>2. job.type \in Type /\ Candidate \in Type /\ Candidate = table[job.tried].type
      BY <2>1, JobFacts, TableTypes DEF Candidate
    <2> QED
      BY <1>2, <2>1, <2>2 DEF Root
  <1> QED
    BY <1>1, <1>2

(* The types that are compared, when none is a declaration.                 *)
LEMMA ComparedFacts ==
    ASSUME Inv, AllDefined, comparing # <<>>
    PROVE  /\ StateInv /\ L \in Type /\ R \in Type /\ L \in built /\ R \in built
           /\ Kind(L) # "declaration" /\ Kind(R) # "declaration" /\ ~ThroughDeclaration(L, R)
           /\ PairOf(Here) = <<L, R>>
           /\ Len(Parts(L)) = Len(Parts(R)) =>
                Pairs(L, R) = [k \in DOMAIN Parts(L) |-> <<Parts(L)[k], Parts(R)[k]>>]
  <1>1. /\ L \in Type /\ R \in Type /\ L = Here.l /\ R = Here.r /\ L \in built /\ R \in built
    BY HereFacts DEF FrameInv, Settled
  <1>2. Kind(L) # "declaration" /\ Kind(R) # "declaration"
    BY <1>1 DEF AllDefined
  <1> QED
    BY <1>1, <1>2 DEF Inv, PairOf, ThroughDeclaration, Pairs

(* The end of the comparisons: the types compared are the same.             *)
LEMMA YesMeansSame ==
    ASSUME Inv, comparing = <<>>, answer = "yes", NEW D \in SUBSET (Type \X Type), Trusted(D)
    PROVE  Root \in Same
  <1>1. OpenPairs = {}
    BY DEF OpenPairs
  <1>2. D \subseteq Same
    <2>1. \A p \in D : Alike(p[1], p[2]) /\ PartPairs(p) \subseteq D \cup Same
      BY <1>1 DEF Trusted, Trust
    <2> QED
      BY <2>1, Coinduction
  <1>3. Root \in Trust(D)
    BY DEF Trusted, Returned
  <1> QED
    BY <1>1, <1>2, <1>3 DEF Trust

(* What a comparison has returned was about the types on top.               *)
LEMMA ReturnedIsHere ==
    ASSUME Inv, Compare, comparing' = Tail(comparing)
    PROVE  Returned' = PairOf(Here)
  <1>1. CompareOnly /\ comparing # <<>> /\ StateInv /\ CompareInv
    BY CompareStep DEF Inv
  <1>2. /\ Here = comparing[1] /\ Len(comparing) \in Nat \ {0}
        /\ Len(Tail(comparing)) = Len(comparing) - 1
        /\ \A i \in 1 .. Len(comparing) - 1 : Tail(comparing)[i] = comparing[i + 1]
        /\ Tail(comparing) \in Seq(CompareFrames)
    BY <1>1, ComparingFacts
  <1>3. PICK s : s = Tail(comparing)
    OBVIOUS
  <1>4. Root' = Root
    BY <1>1, CompareKeeps
  <1>5. CASE s = <<>>
    <2>1. Len(comparing) = 1
      BY <1>2, <1>3, <1>5, EmptySeq
    <2>2. PairOf(comparing[Len(comparing)]) = Root
      BY <1>1 DEF CompareInv
    <2> QED
      BY <1>2, <1>3, <1>4, <1>5, <2>1, <2>2 DEF Returned
  <1>6. CASE s # <<>>
    <2>1. Len(s) # 0
      BY <1>2, <1>3, <1>6, EmptySeq
    <2>2. 1 \in 1 .. Len(comparing) - 1 /\ s[1] = comparing[2]
      BY <1>2, <1>3, <2>1
    <2>3. LeadsTo(comparing[2], Here)
      BY <1>1, <1>2, <2>2 DEF CompareInv
    <2>4. s # <<>> => Head(s) = s[1]
      BY <1>2, <1>3, Pop
    <2>5. L' = comparing[2].l /\ R' = comparing[2].r /\ Here'.next = comparing[2].next
      BY <1>3, <1>6, <2>2, <2>4 DEF L, R, Here
    <2>6. \A l, r : Pairs(l, r)' = Pairs(l, r)
      BY <1>1 DEF CompareOnly, readVars, Pairs, Parts, Definition
    <2>7. Returned' = Pairs(comparing[2].l, comparing[2].r)[comparing[2].next]
      BY <1>3, <1>6, <2>5, <2>6 DEF Returned
    <2> QED
      BY <2>3, <2>7 DEF LeadsTo
  <1> QED
    BY <1>5, <1>6

LEMMA CompareKeepsMeaning ==
    ASSUME CompareOnly
    PROVE  /\ Same' = Same
           /\ \A t, u : Alike(t, u)' <=> Alike(t, u)
           /\ \A p : PartPairs(p)' = PartPairs(p)
           /\ \A l, r : Pairs(l, r)' = Pairs(l, r)
           /\ \A f : PartsDone(f)' = PartsDone(f)
  <1>1. UNCHANGED <<world, built>>
    BY DEF CompareOnly, readVars
  <1>2. \A l, r : Pairs(l, r)' = Pairs(l, r)
    BY <1>1 DEF Pairs, Parts, Definition, ThroughDeclaration
  <1>3. \A f : PartsDone(f)' = PartsDone(f)
    BY <1>2 DEF PartsDone
  <1> QED
    BY <1>1, <1>2, <1>3, SameStays

(* The comparisons that stay are those below, a pair is in D or compared or *)
(* the same as before.                                                      *)
LEMMA TrustedStep ==
    ASSUME CompareOnly, NEW D, NEW E, Trusted(D), D \subseteq E,
           Trust(D) \subseteq Trust(E)',
           \A p \in E \ D : Alike(p[1], p[2]) /\ PartPairs(p) \subseteq Trust(E)',
           \A i \in DOMAIN comparing' : PartsDone(comparing'[i]) \subseteq Trust(E)',
           answer' = "yes" => Returned' \in Trust(E)'
    PROVE  Trusted(E)'
  <1>1. \A p \in E : Alike(p[1], p[2])' /\ PartPairs(p)' \subseteq Trust(E)'
    BY CompareKeepsMeaning DEF Trusted
  <1>2. \A i \in DOMAIN comparing' : PartsDone(comparing[i])' \subseteq Trust(E)'
    BY CompareKeepsMeaning
  <1> QED
    BY <1>1, <1>2 DEF Trusted

LEMMA TrustedReturn ==
    ASSUME Inv, Compare, comparing' = Tail(comparing),
           NEW D \in SUBSET (Type \X Type), NEW E, Trusted(D), D \subseteq E,
           Trust(D) \subseteq E \cup Same \cup OpenPairs',
           \A p \in E \ D : Alike(p[1], p[2]) /\ PartPairs(p) \subseteq Trust(D),
           answer' = "yes" => PairOf(Here) \in E \cup Same \cup OpenPairs'
    PROVE  Trusted(E)'
  <1>1. CompareOnly /\ comparing # <<>> /\ StateInv
    BY CompareStep DEF Inv
  <1>2. PICK s : s = Tail(comparing)
    OBVIOUS
  <1>3. /\ s \in Seq(CompareFrames) /\ Len(s) = Len(comparing) - 1 /\ Len(comparing) \in Nat \ {0}
        /\ \A i \in 1 .. Len(comparing) - 1 : s[i] = comparing[i + 1]
        /\ DOMAIN comparing = 1 .. Len(comparing)
    BY <1>1, <1>2, ComparingFacts
  <1>4. \A i \in DOMAIN s : i + 1 \in DOMAIN comparing /\ s[i] = comparing[i + 1]
    BY <1>3, LenProperties
  <1>5. Trust(E)' = E \cup Same \cup OpenPairs'
    BY <1>1, CompareKeepsMeaning DEF Trust
  <1>6. \A i \in DOMAIN comparing' : PartsDone(comparing'[i]) \subseteq Trust(E)'
    BY <1>2, <1>4, <1>5 DEF Trusted
  <1>7. Returned' = PairOf(Here)
    BY ReturnedIsHere
  <1> QED
    BY <1>1, <1>5, <1>6, <1>7, TrustedStep

(* The comparisons that are open after one has ended.                       *)
LEMMA OpenBelow ==
    ASSUME StateInv, comparing # <<>>, comparing' = Tail(comparing)
    PROVE  OpenPairs \subseteq OpenPairs' \cup (IF Here.open THEN {PairOf(Here)} ELSE {})
  <1>1. PICK s : s = Tail(comparing)
    OBVIOUS
  <1>2. /\ s \in Seq(CompareFrames) /\ Len(s) = Len(comparing) - 1 /\ Len(comparing) \in Nat \ {0}
        /\ \A i \in 1 .. Len(comparing) - 1 : s[i] = comparing[i + 1]
        /\ DOMAIN comparing = 1 .. Len(comparing) /\ Here = comparing[1]
    BY <1>1, ComparingFacts
  <1>3. DOMAIN s = 1 .. Len(comparing) - 1
    BY <1>2, LenProperties
  <1>4. ASSUME NEW i \in DOMAIN comparing, comparing[i].open
        PROVE  PairOf(comparing[i]) \in OpenPairs' \cup (IF Here.open THEN {PairOf(Here)} ELSE {})
    <2>1. CASE i = 1
      BY <1>2, <1>4, <2>1
    <2>2. CASE i # 1
      <3>1. i - 1 \in DOMAIN s /\ s[i - 1] = comparing[i]
        BY <1>2, <1>3, <2>2, i - 1 \in 1 .. Len(comparing) - 1, (i - 1) + 1 = i
      <3>2. PairOf(s[i - 1]) \in OpenPairs'
        BY <1>1, <1>4, <3>1 DEF OpenPairs
      <3> QED
        BY <3>1, <3>2
    <2> QED
      BY <2>1, <2>2
  <1> QED
    BY <1>4 DEF OpenPairs

LEMMA SoundCompare ==
    ASSUME Inv, Compare, AllDefined, answer # "no", answer' # "no",
           \A t \in Type : HasCanonical(t) => <<t, canonical[t]>> \in Same,
           NEW D \in SUBSET (Type \X Type), Trusted(D)
    PROVE  \E E \in SUBSET (Type \X Type) : Trusted(E)'
  <1>1. CompareOnly /\ comparing # <<>> /\ StateInv /\ StateInv'
    BY CompareStep DEF Inv
  <1>2. /\ L \in Type /\ R \in Type /\ L \in built /\ R \in built /\ ~ThroughDeclaration(L, R)
        /\ Kind(L) # "declaration" /\ Kind(R) # "declaration"
        /\ PairOf(Here) = <<L, R>> /\ Here = comparing[1]
    BY <1>1, ComparedFacts, ComparingFacts
  <1>3. ASSUME comparing' = Tail(comparing), ~Here.open, <<L, R>> \in OpenPairs \cup Same
        PROVE  Trusted(D)'
    <2>1. OpenPairs \subseteq OpenPairs'
      BY <1>1, <1>3, OpenBelow
    <2>2. Trust(D) \subseteq D \cup Same \cup OpenPairs'
      BY <2>1 DEF Trust
    <2> QED
      BY <1>2, <1>3, <2>1, <2>2, TrustedReturn
  <1>4. CASE CompareKnown
    <2>1. /\ comparing' = Tail(comparing) /\ ~Here.open
          /\ answer' = Verdict(L = R \/ (/\ HasCanonical(L) /\ HasCanonical(R)
                                         /\ canonical[L] = canonical[R]))
      BY <1>4 DEF CompareKnown, Return, AtStart
    <2>2. L = R \/ (HasCanonical(L) /\ HasCanonical(R) /\ canonical[L] = canonical[R])
      BY <2>1 DEF Verdict
    <2>3. <<L, R>> \in Same
      <3>1. CASE L = R
        BY <1>1, <1>2, <3>1, SameReflexive
      <3>2. CASE HasCanonical(L) /\ HasCanonical(R) /\ canonical[L] = canonical[R]
        <4>1. PICK u : u = canonical[L]
          OBVIOUS
        <4>2. <<L, u>> \in Same /\ <<R, u>> \in Same
          BY <1>2, <3>2, <4>1
        <4>3. u \in Type
          BY <4>2, SameIsBisimulation
        <4>4. <<u, R>> \in Same
          BY <1>1, <1>2, <4>2, <4>3, SameSymmetric
        <4> QED
          BY <1>1, <1>2, <4>2, <4>3, <4>4, SameTransitive
      <3> QED
        BY <2>2, <3>1, <3>2
    <2> QED
      BY <1>3, <2>1, <2>3
  <1>5. ~CompareUndefined
    BY <1>2 DEF CompareUndefined, Undefined
  <1>6. CASE CompareStarted
    <2>1. comparing' = Tail(comparing) /\ ~Here.open /\ LooksAlike(L, R) /\ Started(L, R) /\ answer = "none"
      BY <1>6 DEF CompareStarted, Return, AtStart, Comparing
    <2>2. PICK n \in marks : IsClass(L) /\ n \in {Name(L), Name(R)}
      BY <2>1 DEF Started
    <2>3. Kind(L) = "class" /\ Kind(R) = "class" /\ Name(L) = n /\ Name(R) = n
      BY <1>1, <1>2, <2>1, <2>2, OneName
    <2>4. PICK i \in DOMAIN comparing : ClassOpen(comparing[i]) /\ n \in NamesOf(comparing[i])
      BY DEF Inv, MarksInv
    <2>5. PICK f : f = comparing[i]
      OBVIOUS
    <2>6. f \in CompareFrames /\ FrameInv(f) /\ f.open /\ IsClass(f.l) /\ n \in {Name(f.l), Name(f.r)}
      BY <2>4, <2>5, ElementOfSeq, LenProperties DEF Inv, StateInv, CompareInv, ClassOpen, NamesOf
    <2>7. /\ f.l \in Type /\ f.r \in Type /\ LooksAlike(f.l, f.r)
          /\ ~ThroughDeclaration(f.l, f.r)
          /\ CorpusOf(f.l) = CorpusOf(L) /\ CorpusOf(f.r) = CorpusOf(R)
      BY <1>1, <2>6, HereFacts DEF FrameInv, CompareFrames, Settled, AllDefined, ThroughDeclaration
    <2>8. Kind(f.l) = "class" /\ Kind(f.r) = "class" /\ Name(f.l) = n /\ Name(f.r) = n
      BY <1>1, <2>6, <2>7, OneName
    <2>9. f.l = L /\ f.r = R
      BY <1>2, <2>3, <2>7, <2>8, NamesAssumption
    <2>10. <<L, R>> \in OpenPairs
      BY <2>5, <2>6, <2>9 DEF OpenPairs, PairOf
    <2> QED
      BY <1>3, <2>1, <2>10
  <1>7. CASE CompareDone
    <2>1. /\ comparing' = Tail(comparing) /\ Here.open /\ ~HasOtherLayout(L, R)
          /\ Here.next > Len(Pairs(L, R))
      BY <1>7 DEF CompareDone, Return
    <2>2. LooksAlike(L, R) /\ Here.next \in Nat
      BY <1>1, <2>1, HereFacts DEF FrameInv, CompareFrames
    <2>3. Label(L) = Label(R) /\ Layout(L) = Layout(R) /\ Len(Parts(L)) = Len(Parts(R))
      BY <1>2, <2>1, <2>2 DEF LooksAlike, Unlike, HasOtherLayout
    <2>4. Kind(L) = Kind(R)
      BY <1>2, <2>2, TypesAssumption DEF LooksAlike, IsKnown, IsClass, Kinds
    <2>5. Alike(L, R)
      BY <2>3, <2>4 DEF Alike
    <2>6. PartPairs(<<L, R>>) \subseteq PartsDone(Here)
      <3>1. Pairs(L, R) = [k \in 1 .. Len(Parts(L)) |-> <<Parts(L)[k], Parts(R)[k]>>]
        BY <1>1, <1>2, <2>3, ComparedFacts, TypeFacts
      <3>2. Len(Parts(L)) \in Nat
        BY <1>1, <1>2, TypeFacts
      <3>3. Len(Pairs(L, R)) = Len(Parts(L))
        BY <3>1, <3>2
      <3>4. \A k \in DOMAIN Parts(L) : k \in 1 .. Here.next - 1
        BY <1>1, <1>2, <2>1, <2>2, <3>2, <3>3, TypeFacts
      <3> QED
        <4>1. ASSUME NEW q \in PartPairs(<<L, R>>)
              PROVE  \E k \in 1 .. Here.next - 1 : q = Pairs(L, R)[k]
          <5>1. StateInv /\ L \in Type /\ R \in Type /\ Len(Parts(L)) = Len(Parts(R))
            BY <1>1, <1>2, <2>3
          <5>2. PICK k \in DOMAIN Parts(L) : q = <<Parts(L)[k], Parts(R)[k]>>
            BY <5>1, PartsOfPair
          <5>3. q = Pairs(L, R)[k]
            BY <1>1, <1>2, <2>3, <5>2, ComparedFacts
          <5> QED
            BY <3>4, <5>3
        <4> QED
          BY <4>1 DEF PartsDone, L, R
    <2>7. PartsDone(Here) \subseteq Trust(D)
      BY <1>1, <1>2, ComparingFacts DEF Trusted
    <2> DEFINE E == D \cup {<<L, R>>}
    <2>8. PICK p : p = <<L, R>>
      OBVIOUS
    <2>9. E = D \cup {p} /\ p \in Type \X Type /\ p[1] = L /\ p[2] = R
      BY <1>2, <2>8
    <2>10. OpenPairs \subseteq OpenPairs' \cup {p}
      BY <1>1, <1>2, <2>1, <2>8, OpenBelow
    <2>11. Trust(D) \subseteq (D \cup {p}) \cup Same \cup OpenPairs'
      BY <2>10 DEF Trust
    <2>12. \A q \in (D \cup {p}) \ D : Alike(q[1], q[2]) /\ PartPairs(q) \subseteq Trust(D)
      BY <2>5, <2>6, <2>7, <2>8, <2>9
    <2>13. Trusted(D \cup {p})'
      BY <1>2, <2>1, <2>8, <2>11, <2>12, TrustedReturn
    <2> QED
      BY <2>9, <2>13
  <1>8. CASE CompareOpen \/ PartEqual
    <2>1. PICK g : /\ comparing' = <<g>> \o Tail(comparing)
                   /\ g = [Here EXCEPT !.open = TRUE] \/ (g = [Here EXCEPT !.next = @ + 1] /\ answer = "yes")
      BY <1>8 DEF CompareOpen, PartEqual
    <2>2. Here \in CompareFrames
      BY <1>1, ComparingFacts
    <2>3. /\ g \in CompareFrames /\ g.l = L /\ g.r = R /\ (Here.open => g.open)
          /\ g.next = Here.next \/ (g.next = Here.next + 1 /\ answer = "yes")
      <3>1. CASE g = [Here EXCEPT !.open = TRUE]
        BY <2>2, <3>1 DEF CompareFrames, L, R
      <3>2. CASE g = [Here EXCEPT !.next = @ + 1] /\ answer = "yes"
        BY <2>2, <3>2 DEF CompareFrames, L, R
      <3> QED
        BY <2>1, <3>1, <3>2
    <2>4. /\ Len(comparing) \in Nat \ {0} /\ DOMAIN comparing = 1 .. Len(comparing)
          /\ comparing' \in Seq(CompareFrames) /\ Len(comparing') = Len(comparing) /\ comparing'[1] = g
          /\ \A i \in 2 .. Len(comparing) : comparing'[i] = comparing[i]
      BY <1>1, <2>1, <2>3, PutFirst, ComparingFacts DEF StateInv
    <2>5. DOMAIN comparing' = DOMAIN comparing /\ \A i \in DOMAIN comparing : i = 1 \/ i \in 2 .. Len(comparing)
      BY <2>4, LenProperties
    <2>6. OpenPairs \subseteq OpenPairs'
      <3>1. ASSUME NEW i \in DOMAIN comparing, comparing[i].open
            PROVE  comparing'[i].open /\ PairOf(comparing'[i]) = PairOf(comparing[i])
        BY <1>2, <2>3, <2>4, <2>5, <3>1 DEF PairOf, L, R
      <3>2. ASSUME NEW i \in DOMAIN comparing, comparing[i].open
            PROVE  PairOf(comparing[i]) \in OpenPairs'
        BY <2>5, <3>1, <3>2 DEF OpenPairs
      <3> QED
        BY <3>2 DEF OpenPairs
    <2>7. Trust(D) \subseteq Trust(D)'
      BY <1>1, <2>6, CompareKeepsMeaning DEF Trust
    <2>8. PartsDone(g) \subseteq Trust(D)
      <3>1. PartsDone(Here) \subseteq Trust(D)
        BY <1>2, <2>4 DEF Trusted
      <3>2. Here.next \in Nat
        BY <2>2 DEF CompareFrames
      <3>3. CASE g.next = Here.next
        BY <2>3, <3>1, <3>3 DEF PartsDone, L, R
      <3>4. CASE g.next = Here.next + 1 /\ answer = "yes"
        <4>1. Pairs(L, R)[Here.next] \in Trust(D)
          BY <1>1, <3>4 DEF Trusted, Returned
        <4>2. \A k \in 1 .. g.next - 1 : k \in 1 .. Here.next - 1 \/ k = Here.next
          BY <3>2, <3>4
        <4> QED
          BY <2>3, <3>1, <4>1, <4>2 DEF PartsDone, L, R
      <3> QED
        BY <2>3, <3>3, <3>4
    <2>9. \A i \in DOMAIN comparing' : PartsDone(comparing'[i]) \subseteq Trust(D)'
      <3> TAKE i \in DOMAIN comparing'
      <3>1. CASE i = 1
        BY <2>4, <2>7, <2>8, <3>1
      <3>2. CASE i # 1
        <4>1. i \in DOMAIN comparing /\ comparing'[i] = comparing[i]
          BY <2>4, <2>5, <3>2
        <4>2. PartsDone(comparing[i]) \subseteq Trust(D)
          BY <4>1 DEF Trusted
        <4> QED
          BY <2>7, <4>1, <4>2
      <3> QED
        BY <3>1, <3>2
    <2>10. answer' # "yes"
      BY <1>8 DEF CompareOpen, PartEqual, AtStart, Comparing
    <2> QED
      BY <1>1, <2>7, <2>9, <2>10, TrustedStep
  <1>9. CASE ComparePart
    <2>1. PICK g : comparing' = <<g>> \o comparing /\ g.next = 1 /\ answer' # "yes"
      BY <1>9 DEF ComparePart, CompareFrame, Comparing
    <2>2. comparing \in Seq(CompareFrames \cup {g}) /\ g \in CompareFrames \cup {g}
      BY <1>1, SeqOfMore DEF StateInv
    <2>3. /\ DOMAIN comparing' = 1 .. Len(comparing) + 1 /\ comparing'[1] = g /\ Len(comparing) \in Nat
          /\ DOMAIN comparing = 1 .. Len(comparing)
          /\ \A i \in 1 .. Len(comparing) : comparing'[i + 1] = comparing[i]
      BY <2>1, <2>2, Push, LenProperties
    <2>4. OpenPairs \subseteq OpenPairs'
      <3>1. ASSUME NEW i \in DOMAIN comparing, comparing[i].open
            PROVE  PairOf(comparing[i]) \in OpenPairs'
        <4>1. i + 1 \in DOMAIN comparing' /\ comparing'[i + 1] = comparing[i]
          BY <2>3
        <4> QED
          BY <3>1, <4>1 DEF OpenPairs
      <3> QED
        BY <3>1 DEF OpenPairs
    <2>5. Trust(D) \subseteq Trust(D)'
      BY <1>1, <2>4, CompareKeepsMeaning DEF Trust
    <2>6. \A i \in DOMAIN comparing' : PartsDone(comparing'[i]) \subseteq Trust(D)'
      <3> TAKE i \in DOMAIN comparing'
      <3>1. CASE i = 1
        BY <2>1, <2>3, <3>1 DEF PartsDone
      <3>2. CASE i # 1
        <4>1. i - 1 \in DOMAIN comparing /\ comparing'[i] = comparing[i - 1]
          BY <2>3, <3>2, i - 1 \in 1 .. Len(comparing), (i - 1) + 1 = i
        <4>2. PartsDone(comparing[i - 1]) \subseteq Trust(D)
          BY <4>1 DEF Trusted
        <4> QED
          BY <2>5, <4>1, <4>2
      <3> QED
        BY <3>1, <3>2
    <2> QED
      BY <1>1, <2>1, <2>5, <2>6, TrustedStep
  <1>10. ~(CompareUnlike \/ CompareLayout \/ PartDiffers)
    BY DEF CompareUnlike, CompareLayout, PartDiffers, Return
  <1> QED
    BY <1>4, <1>5, <1>6, <1>7, <1>8, <1>9, <1>10 DEF Compare

(* Between two comparisons there is nothing to trust.                       *)
AtFirst == answer = "none" /\ \A i \in DOMAIN comparing : comparing[i].next = 1
CanonicalGrows ==
  \A t \in Type : HasCanonical(t)' =>
    \/ canonical'[t] = canonical[t] /\ HasCanonical(t)
    \/ (AllDefined => <<t, canonical'[t]>> \in Same)

LEMMA CanonicalStays ==
    ASSUME canonical' = canonical
    PROVE  CanonicalGrows
  BY DEF CanonicalGrows, HasCanonical

LEMMA SoundIdle ==
    ASSUME SoundInv, world' = world, built \subseteq built', AtFirst', CanonicalGrows
    PROVE  SoundInv'
  <1> SUFFICES ASSUME AllDefined'
               PROVE  /\ \A t \in Type : HasCanonical(t)' => <<t, canonical'[t]>> \in Same'
                      /\ \E D \in SUBSET (Type \X Type) : Trusted(D)'
    BY DEF SoundInv
  <1>1. AllDefined
    BY DEF AllDefined
  <1>2. \A t \in Type : HasCanonical(t)' => <<t, canonical'[t]>> \in Same'
    BY <1>1, SameStays DEF SoundInv, CanonicalGrows
  <1>3. \A i \in DOMAIN comparing' : PartsDone(comparing[i])' = {}
    BY DEF PartsDone, AtFirst
  <1>4. Trusted({})'
    BY <1>3 DEF Trusted, AtFirst
  <1> QED
    BY <1>2, <1>4

LEMMA SoundInductive == Inv /\ SoundInv /\ [Next]_vars => SoundInv'
  <1> SUFFICES ASSUME Inv, SoundInv, [Next]_vars
               PROVE  SoundInv'
    OBVIOUS
  <1>1. Inv' /\ StateInv
    BY InvInductive DEF Inv
  <1>2. CASE Read
    <2>1. ReadOn /\ UNCHANGED <<world, canonical, comparing, answer>> /\ answer = "none" /\ comparing = <<>>
      BY <1>2, ReadBuilds, ReadEnds, ReadLate, ReadIsIdle, IdleFacts DEF Read, compareVars
    <2>2. AtFirst' /\ CanonicalGrows
      BY <2>1, CanonicalStays DEF AtFirst
    <2> QED
      BY <2>1, <2>2, SoundIdle DEF ReadOn
  <1>3. CASE Hash
    <2>1. UNCHANGED <<world, built, canonical, comparing, answer>>
      BY <1>3 DEF Hash, HashKnownPart, HashPart, HashDone, readVars, compareVars
    <2>2. answer = "none" /\ comparing = <<>>
      BY <1>3, HashStep DEF Inv, TurnsInv
    <2>3. AtFirst' /\ CanonicalGrows
      BY <2>1, <2>2, CanonicalStays DEF AtFirst
    <2> QED
      BY <2>1, <2>3, SoundIdle
  <1>4. CASE TryCandidate \/ Ask
    <2>1. UNCHANGED <<world, built, canonical>> /\ answer' = "none"
      BY <1>4, IdleFacts DEF TryCandidate, Ask, readVars
    <2>2. PICK l, r : comparing' = <<CompareFrame(l, r)>>
      BY <1>4 DEF TryCandidate, Ask
    <2>3. AtFirst' /\ CanonicalGrows
      BY <2>1, <2>2, CanonicalStays DEF CompareFrame, AtFirst
    <2> QED
      BY <2>1, <2>3, SoundIdle
  <1>5. CASE LeaveCandidate
    <2>1. UNCHANGED <<world, built, canonical, comparing>> /\ comparing = <<>> /\ answer' = "none"
      BY <1>5 DEF LeaveCandidate, Trying, readVars
    <2>2. AtFirst' /\ CanonicalGrows
      BY <2>1, CanonicalStays DEF AtFirst
    <2> QED
      BY <2>1, <2>2, SoundIdle
  <1>6. CASE TakeCandidate
    <2>1. /\ Trying /\ answer = "yes" /\ answer' = "none" /\ comparing = <<>> /\ job # NoJob
          /\ canonical' = [canonical EXCEPT ![job.type] = Candidate]
          /\ UNCHANGED <<world, built, comparing>>
      BY <1>6 DEF TakeCandidate, Trying, readVars
    <2>2. canonical \in [Type -> Type \cup {NoType}] /\ job.type \in Type /\ asked = <<>>
      BY <1>1, <2>1, JobFacts DEF StateInv
    <2>3. ASSUME AllDefined
          PROVE  <<job.type, Candidate>> \in Same
      <3>1. PICK D \in SUBSET (Type \X Type) : Trusted(D)
        BY <2>1, <2>3 DEF SoundInv
      <3>2. Root \in Same
        BY <2>1, <3>1, YesMeansSame
      <3> QED
        BY <2>1, <2>2, <3>2, RootFacts
    <2>4. ASSUME NEW t \in Type, HasCanonical(t)'
          PROVE  \/ canonical'[t] = canonical[t] /\ HasCanonical(t)
                 \/ (AllDefined => <<t, canonical'[t]>> \in Same)
      <3>1. CASE t = job.type
        BY <2>1, <2>2, <2>3, <3>1
      <3>2. CASE t # job.type
        BY <2>1, <2>2, <2>4, <3>2 DEF HasCanonical
      <3> QED
        BY <3>1, <3>2
    <2>5. AtFirst' /\ CanonicalGrows
      BY <2>1, <2>4 DEF AtFirst, CanonicalGrows
    <2> QED
      BY <2>1, <2>5, SoundIdle
  <1>7. CASE NewCanonical
    <2>1. /\ Trying /\ answer' = "none" /\ comparing = <<>> /\ job # NoJob
          /\ canonical' = [canonical EXCEPT ![job.type] = job.type]
          /\ UNCHANGED <<world, built, comparing>>
      BY <1>7 DEF NewCanonical, Trying, readVars, compareVars
    <2>2. canonical \in [Type -> Type \cup {NoType}] /\ job.type \in Type
      BY <1>1, <2>1, JobFacts DEF StateInv
    <2>3. ASSUME NEW t \in Type, HasCanonical(t)'
          PROVE  \/ canonical'[t] = canonical[t] /\ HasCanonical(t)
                 \/ (AllDefined => <<t, canonical'[t]>> \in Same)
      <3>1. CASE t = job.type
        BY <1>1, <2>1, <2>2, <3>1, SameReflexive
      <3>2. CASE t # job.type
        BY <2>1, <2>2, <2>3, <3>2 DEF HasCanonical
      <3> QED
        BY <3>1, <3>2
    <2>4. AtFirst' /\ CanonicalGrows
      BY <2>1, <2>3 DEF AtFirst, CanonicalGrows
    <2> QED
      BY <2>1, <2>4, SoundIdle
  <1>8. CASE Compare
    <2> SUFFICES ASSUME AllDefined'
                 PROVE  /\ \A t \in Type : HasCanonical(t)' => <<t, canonical'[t]>> \in Same'
                        /\ answer' # "no" => \E D \in SUBSET (Type \X Type) : Trusted(D)'
      BY DEF SoundInv
    <2>1. CompareOnly
      BY <1>8, CompareStep
    <2>2. UNCHANGED <<world, built, canonical>>
      BY <2>1 DEF CompareOnly, readVars
    <2>3. AllDefined
      BY <2>2 DEF AllDefined
    <2>4. \A t \in Type : HasCanonical(t) => <<t, canonical[t]>> \in Same
      BY <2>3 DEF SoundInv
    <2>5. answer = "no" => answer' = "no"
      BY <1>8 DEF Compare, CompareKnown, CompareUndefined, CompareUnlike, CompareStarted, CompareOpen,
         CompareLayout, ComparePart, PartEqual, PartDiffers, CompareDone, AtStart, Comparing, Return
    <2>6. ASSUME answer' # "no"
          PROVE  \E D \in SUBSET (Type \X Type) : Trusted(D)'
      <3>1. PICK D \in SUBSET (Type \X Type) : Trusted(D)
        BY <2>3, <2>5, <2>6 DEF SoundInv
      <3> QED
        BY <1>8, <2>3, <2>4, <2>5, <2>6, <3>1, SoundCompare
    <2> QED
      BY <2>2, <2>4, <2>6, SameStays DEF HasCanonical
  <1>9. CASE UNCHANGED vars
    <2>1. CompareOnly /\ UNCHANGED <<world, built, canonical, comparing, answer>>
      BY <1>9 DEF vars, CompareOnly, readVars, compareVars
    <2>2. /\ Same' = Same /\ OpenPairs' = OpenPairs /\ Returned' = Returned
          /\ AllDefined' = AllDefined /\ \A t : HasCanonical(t)' <=> HasCanonical(t)
      <3>1. Root' = Root /\ \A l, r : Pairs(l, r)' = Pairs(l, r)
        BY <2>1, CompareKeeps, CompareKeepsMeaning
      <3> QED
        BY <2>1, <3>1, CompareKeepsMeaning DEF OpenPairs, Returned, AllDefined, HasCanonical, L, R, Here, PairOf
    <2>3. ASSUME NEW D, Trusted(D)
          PROVE  Trusted(D)'
      <3>1. Trust(D)' = Trust(D)
        BY <2>2 DEF Trust
      <3> QED
        BY <2>1, <2>2, <2>3, <3>1, TrustedStep DEF Trusted
    <2> QED
      BY <2>1, <2>2, <2>3 DEF SoundInv
  <1> QED
    BY <1>2, <1>3, <1>4, <1>5, <1>6, <1>7, <1>8, <1>9 DEF Next, LookUp

LEMMA SoundAlways == Spec => [](Inv /\ SoundInv)
  <1>1. Init => SoundInv
    <2> SUFFICES ASSUME Init
                 PROVE  SoundInv
      OBVIOUS
    <2>1. \A t \in Type : ~HasCanonical(t)
      BY DEF Init, HasCanonical
    <2>2. Trusted({})
      BY DEF Init, Trusted
    <2> QED
      BY <2>1, <2>2 DEF SoundInv
  <1> QED
    BY <1>1, InvInit, InvInductive, SoundInductive, PTL DEF Spec

-----------------------------------------------------------------------------
(* The types that SameTypes finds to be the same, step by step, are those:  *)
(* the parts of the types that are built are built.                         *)
AllFound == \A t \in built : \A k \in DOMAIN Parts(t) : Parts(t)[k] \in built
SameStep == [X \in SUBSET (Type \X Type) |-> {p \in X : PartPairs(p) \subseteq X}]

LEMMA SameForUnfolds ==
    ASSUME StateInv
    PROVE  SameFor = [n \in 0 .. Cardinality(Type \X Type) |->
                        IF n = 0 THEN AlikeTypes
                        ELSE {p \in SameFor[n - 1] : PartPairs(p) \subseteq SameFor[n - 1]}]
  <1> DEFINE P == Type \X Type
             N == Cardinality(P)
             A == AlikeTypes
             F == SameStep
             Step(X) == {p \in X : PartPairs(p) \subseteq X}
             Body(f) == [n \in 0 .. N |-> IF n = 0 THEN A ELSE LET same == f[n - 1] IN Listed(Step(same))]
  <1>1. N \in Nat /\ A \in SUBSET P /\ IsStep(F, P)
    <2>1. IsFiniteSet(P)
      BY FS_Product, TypesAssumption
    <2> QED
      BY <2>1, FS_CardinalityType DEF AlikeTypes, StateInv, IsStep, SameStep
  <1>2. PICK g \in [0 .. N -> SUBSET P] : AreIterates(g, F, A, N)
    <2> HIDE DEF P, N, A, F
    <2> QED
      BY <1>1, IteratesExist
  <1>3. ASSUME NEW X
        PROVE  Listed(Step(X)) = Step(X)
    BY DEF Listed
  <1>4. g = Body(g)
    <2>1. ASSUME NEW n \in 0 .. N
          PROVE  g[n] = IF n = 0 THEN A ELSE Step(g[n - 1])
      <3>1. CASE n = 0
        BY <1>2, <3>1 DEF AreIterates
      <3>2. CASE n # 0
        <4>1. n \in 1 .. N /\ n - 1 \in 0 .. N
          BY <1>1, <3>2
        <4>2. g[n] = F[g[n - 1]] /\ g[n - 1] \in SUBSET P
          BY <1>2, <4>1 DEF AreIterates
        <4> QED
          BY <3>2, <4>2 DEF SameStep
      <3> QED
        BY <3>1, <3>2
    <2>2. g = [n \in 0 .. N |-> g[n]]
      BY <1>2
    <2> HIDE DEF P, N, A, F, Step
    <2> QED
      BY <1>3, <2>1, <2>2
  <1>5. SameFor = Body(SameFor)
    <2>1. \E f : f = Body(f)
      BY <1>4
    <2> QED
      BY <2>1 DEF SameFor
  <1> QED
    BY <1>3, <1>5

LEMMA SameTypesAreSame ==
    ASSUME StateInv, AllFound
    PROVE  SameTypes = {p \in Same : p[1] \in built /\ p[2] \in built}
  <1> DEFINE P == Type \X Type
             N == Cardinality(P)
             A == AlikeTypes
             F == SameStep
  <1>1. IsFiniteSet(P) /\ N \in Nat /\ A \in SUBSET P
    <2>1. IsFiniteSet(P)
      BY FS_Product, TypesAssumption
    <2> QED
      BY <2>1, FS_CardinalityType DEF AlikeTypes, StateInv
  <1>2. IsStep(F, P)
    BY DEF IsStep, SameStep
  <1>3. IsFiniteSet(A) /\ Cardinality(A) <= N /\ Cardinality(A) \in Nat
    BY <1>1, FS_Subset, FS_CardinalityType
  <1>4. SameFor \in [0 .. N -> SUBSET P] /\ AreIterates(SameFor, F, A, N)
    <2>1. ASSUME NEW n \in 1 .. N, SameFor[n - 1] \in SUBSET P
          PROVE  SameFor[n] = F[SameFor[n - 1]]
      <3>1. n \in 0 .. N /\ n # 0
        BY <1>1
      <3>2. SameFor[n] = {p \in SameFor[n - 1] : PartPairs(p) \subseteq SameFor[n - 1]}
        BY <3>1, SameForUnfolds, Zenon
      <3> QED
        BY <2>1, <3>2 DEF SameStep
    <2>2. SameFor[0] = A
      <3>1. 0 \in 0 .. N
        BY <1>1
      <3> QED
        BY <3>1, SameForUnfolds, Zenon
    <2>3. SameFor = [n \in 0 .. N |-> SameFor[n]]
      BY SameForUnfolds
    <2> HIDE DEF P, N, A, F
    <2> QED
      BY <1>1, <1>2, <2>1, <2>2, <2>3, IteratesUnfold
  <1> DEFINE B == {p \in Same : p[1] \in built /\ p[2] \in built}
             c == Cardinality(A)
  <1>5. SameFor[c] \in SUBSET A /\ c \in 0 .. N /\ F[SameFor[c]] = SameFor[c]
    <2> HIDE DEF P, N, A, F
    <2> QED
      BY <1>1, <1>2, <1>3, <1>4, IteratesShrink, IteratesEnd
  <1>6. SameFor[c] \subseteq B
    <2>1. PICK X : X = SameFor[c]
      OBVIOUS
    <2>2. X \in SUBSET (Type \X Type) /\ X = {p \in X : PartPairs(p) \subseteq X}
      BY <1>1, <1>5, <2>1 DEF SameStep
    <2>3. \A p \in X : Alike(p[1], p[2]) /\ p[1] \in built /\ p[2] \in built
      BY <1>5, <2>1 DEF AlikeTypes
    <2>4. X \subseteq Same
      BY <2>2, <2>3, Coinduction
    <2> QED
      BY <2>1, <2>3, <2>4
  <1>7. B \in SUBSET A
    BY SameIsBisimulation DEF AlikeTypes, Bisimulation
  <1>8. ASSUME NEW X \in SUBSET P, B \subseteq X
        PROVE  B \subseteq F[X]
    <2>1. ASSUME NEW p \in B
          PROVE  PartPairs(p) \subseteq B
      <3>1. p = <<p[1], p[2]>> /\ p[1] \in Type /\ p[2] \in Type /\ p \in Same
        BY SameIsBisimulation
      <3>2. Alike(p[1], p[2]) /\ PartPairs(p) \subseteq Same
        BY SameIsBisimulation DEF Bisimulation
      <3>3. ASSUME NEW q \in PartPairs(p)
            PROVE  q \in B
        <4>1. PICK k \in DOMAIN Parts(p[1]) : q = <<Parts(p[1])[k], Parts(p[2])[k]>> /\ k \in DOMAIN Parts(p[2])
          BY <3>1, <3>2, PartsOfPair DEF Alike
        <4> QED
          BY <3>2, <4>1 DEF AllFound
      <3> QED
        BY <3>3
    <2> QED
      BY <1>8, <2>1 DEF SameStep
  <1>9. B \subseteq SameFor[c]
    <2> HIDE DEF P, N, A, F, B, c
    <2> QED
      BY <1>1, <1>2, <1>4, <1>5, <1>7, <1>8, IteratesKeep
  <1> QED
    BY <1>6, <1>9 DEF SameTypes

LEMMA WhenBothRead ==
    ASSUME Inv, corpus = 3
    PROVE  StateInv /\ AllFound /\ job = NoJob /\ \A t \in Type : ~(t = job.type)
  <1>1. StateInv /\ building = <<>> /\ job = NoJob
    BY DEF Inv, TurnsInv, Corpora
  <1>2. Found = built
    BY <1>1 DEF Found, Path
  <1> QED
    BY <1>1, <1>2, TypesAssumption DEF Inv, ReadInv, AllFound, NoJob, Job

LEMMA CanonicalMeans ==
    ASSUME Inv, SoundInv
    PROVE  CanonicalMeansSame
  <1> SUFFICES ASSUME BothRead, AllDefined, NEW t \in built, NEW u \in built,
                      HasCanonical(t), canonical[t] = canonical[u]
               PROVE  <<t, u>> \in SameTypes
    BY DEF CanonicalMeansSame
  <1>1. StateInv /\ AllFound /\ t \in Type /\ u \in Type /\ canonical[t] \in Type
    BY WhenBothRead DEF BothRead, StateInv, HasCanonical
  <1>2. HasCanonical(u)
    BY DEF HasCanonical
  <1>3. <<t, canonical[t]>> \in Same /\ <<u, canonical[t]>> \in Same
    BY <1>1, <1>2 DEF SoundInv
  <1>4. <<t, u>> \in Same
    BY <1>1, <1>3, SameSymmetric, SameTransitive
  <1> QED
    BY <1>1, <1>4, SameTypesAreSame

(* Types with one canonical type are the same all the way down, when both   *)
(* corpora have been read and no type is only declared: "to compare two     *)
(* types, one just needs to compare their canonical types"                  *)
(* (type_base::get_canonical_type_for).                                     *)
THEOREM CanonicalSound == Spec => []CanonicalMeansSame
  BY SoundAlways, CanonicalMeans, PTL

-----------------------------------------------------------------------------
(* The types below which there is no end, or a type of D: a declaration,    *)
(* or also one that the DWARF reader puts off until the types of the primary*)
(* file have had their turn.                                                *)
HasPartIn(t, S) == \E k \in DOMAIN Parts(t) : Parts(t)[k] \in S
Endless(D, S) == \A t \in S : t \in D \/ HasPartIn(t, S)
Above(D, t) == \E S \in SUBSET Type : t \in S /\ Endless(D, S)
Ungrounded(t) == Above(Declared, t)
Postponed(t) == Above(Declared \cup PutOff, t)

(* The types of the primary file that corpus c left for later are done.     *)
LatePassed(c) == ReadBy(c) /\ (c = corpus => late["primary"] = <<>>)

(* The DWARF reader canonicalizes a type after its parts.                   *)
GroundedInv ==
  Reader = "dwarf" =>
    \A t \in Type : BeingCanonicalized(t) =>
      /\ HasCanonicalParts(t) /\ ~Ungrounded(t)
      /\ Postponed(t) => Alternate(t) /\ LatePassed(CorpusOf(t))

(* A type that is built and has a part that is being built is part of it.   *)
PathInv == \A t \in built : HasPartIn(t, Path) => Ungrounded(t)

(* A type of the alternate file is canonicalized as soon as it is built,    *)
(* when nothing below it is put off.                                        *)
EarlyInv ==
  Reader = "dwarf" =>
    \A t \in built : Alternate(t) /\ ~Postponed(t) => BeingCanonicalized(t)

(* The types that wait for a canonical type are in late; those the DWARF    *)
(* reader can canonicalize are there at a place after those of their parts  *)
(* that are of the same file.                                               *)
Waiting == {t \in built : Kind(t) # "declaration" /\ ~BeingCanonicalized(t)}
Unsettled(t) == IF Alternate(t) THEN Ungrounded(t) ELSE Postponed(t)
Waits == {t \in Waiting : ~Unsettled(t)}
InOrder(pos) ==
  \A t \in Waits :
    /\ pos[t] \in DOMAIN late[FileOf(t)] /\ late[FileOf(t)][pos[t]] = t
    /\ \A k \in DOMAIN Parts(t) :
         Parts(t)[k] \in Waits /\ FileOf(Parts(t)[k]) = FileOf(t) => pos[Parts(t)[k]] < pos[t]

WaitInv ==
  IF Reader = "xml" THEN \A t \in Waiting : \E i \in DOMAIN late[FileOf(t)] : late[FileOf(t)][i] = t
  ELSE \E pos \in [Type -> Nat] : InOrder(pos)

LateInv == GroundedInv /\ PathInv /\ EarlyInv /\ WaitInv

LEMMA AbovePart ==
    ASSUME StateInv, NEW D, NEW t \in Type, NEW k \in DOMAIN Parts(t), Above(D, Parts(t)[k])
    PROVE  Above(D, t)
  <1>1. PICK S \in SUBSET Type : Parts(t)[k] \in S /\ Endless(D, S)
    BY DEF Above
  <1>2. S \cup {t} \in SUBSET Type /\ Endless(D, S \cup {t})
    BY <1>1 DEF Endless, HasPartIn
  <1> QED
    BY <1>2 DEF Above

LEMMA AboveOnward ==
    ASSUME StateInv, NEW D, NEW t \in Type, Above(D, t), t \notin D
    PROVE  \E k \in DOMAIN Parts(t) : Above(D, Parts(t)[k])
  <1>1. PICK S \in SUBSET Type : t \in S /\ Endless(D, S)
    BY DEF Above
  <1>2. PICK k \in DOMAIN Parts(t) : Parts(t)[k] \in S
    BY <1>1 DEF Endless, HasPartIn
  <1> QED
    BY <1>1, <1>2 DEF Above

LEMMA AboveItself ==
    ASSUME NEW D, NEW t \in Type, t \in D \/ HasPartIn(t, {t})
    PROVE  Above(D, t)
  <1>1. Endless(D, {t})
    BY DEF Endless
  <1> QED
    BY <1>1 DEF Above

LEMMA UngroundedPostponed ==
    ASSUME NEW t, Ungrounded(t)
    PROVE  Postponed(t)
  <1>1. PICK S \in SUBSET Type : t \in S /\ Endless(Declared, S)
    BY DEF Ungrounded, Above
  <1>2. Endless(Declared \cup PutOff, S)
    BY <1>1 DEF Endless
  <1> QED
    BY <1>1, <1>2 DEF Postponed, Above

(* Going round: a type that has a part above it.                            *)
LEMMA RoundTrip ==
    ASSUME StateInv, NEW n \in Nat, NEW s, \A j \in 1 .. n : s[j] \in Type,
           \A j \in 1 .. n - 1 : HasPartIn(s[j + 1], {s[j]}),
           NEW i \in 1 .. n, HasPartIn(s[1], {s[i]})
    PROVE  Ungrounded(s[1])
  <1> DEFINE S == {s[j] : j \in 1 .. i}
  <1>1. S \in SUBSET Type /\ s[1] \in S
    OBVIOUS
  <1>2. ASSUME NEW j \in 1 .. i
        PROVE  HasPartIn(s[j], S)
    <2>1. CASE j = 1
      BY <2>1 DEF HasPartIn
    <2>2. CASE j # 1
      <3>1. j - 1 \in 1 .. n - 1 /\ (j - 1) + 1 = j /\ j - 1 \in 1 .. i
        BY <2>2
      <3>2. HasPartIn(s[j], {s[j - 1]})
        BY <3>1
      <3> QED
        BY <3>1, <3>2 DEF HasPartIn
    <2> QED
      BY <2>1, <2>2
  <1>3. Endless(Declared, S)
    BY <1>2 DEF Endless
  <1> QED
    BY <1>1, <1>3 DEF Ungrounded, Above

LEMMA UngroundedStays ==
    ASSUME world' = world
    PROVE  /\ \A t : (Ungrounded(t)' <=> Ungrounded(t)) /\ (Postponed(t)' <=> Postponed(t))
           /\ \A t : (Alternate(t)' <=> Alternate(t)) /\ (Unsettled(t)' <=> Unsettled(t)) /\ FileOf(t)' = FileOf(t)
           /\ \A t, S : HasPartIn(t, S)' <=> HasPartIn(t, S)
           /\ \A t : Parts(t)' = Parts(t)
  <1>1. \A t : Parts(t)' = Parts(t)
    BY DEF Parts
  <1>2. \A t, S : HasPartIn(t, S)' <=> HasPartIn(t, S)
    BY <1>1 DEF HasPartIn
  <1>3. Declared' = Declared /\ PutOff' = PutOff
    BY DEF Declared, PutOff, Alternate
  <1>4. \A S : (Endless(Declared, S)' <=> Endless(Declared, S))
               /\ (Endless(Declared \cup PutOff, S)' <=> Endless(Declared \cup PutOff, S))
    BY <1>2, <1>3 DEF Endless
  <1>5. \A t : (Above(Declared, t)' <=> Above(Declared, t))
               /\ (Above(Declared \cup PutOff, t)' <=> Above(Declared \cup PutOff, t))
    BY <1>4 DEF Above
  <1>6. \A t : (Ungrounded(t)' <=> Ungrounded(t)) /\ (Postponed(t)' <=> Postponed(t))
    BY <1>5 DEF Ungrounded, Postponed
  <1>7. \A t : (Alternate(t)' <=> Alternate(t)) /\ FileOf(t)' = FileOf(t)
    BY DEF Alternate, FileOf
  <1>8. \A t : Unsettled(t)' <=> Unsettled(t)
    BY <1>6, <1>7 DEF Unsettled
  <1> QED
    BY <1>1, <1>2, <1>6, <1>7, <1>8

(* What a step does to canonical types and to the job.                      *)
Starts(t) ==
  /\ Read /\ job = NoJob /\ Canonicalize(t) /\ t \in built' /\ Kind(t) # "declaration"
  /\ Reader = "dwarf" => HasCanonicalParts(t)

JobStays == UNCHANGED canonical /\ job'.type = job.type

Gets(x) ==
  /\ job # NoJob /\ comparing = <<>> /\ hashing = <<>> /\ job' = NoJob
  /\ canonical' = [canonical EXCEPT ![job.type] = x]
  /\ UNCHANGED <<readVars, hashVars, comparing, asked>> /\ answer' = "none"

LEMMA ReadStarts ==
    ASSUME Inv, Read
    PROVE  /\ UNCHANGED canonical /\ job = NoJob
           /\ UNCHANGED <<job, hashing>> \/ \E t \in Type : Starts(t)
  <1>1. Idle /\ corpus \in Corpora /\ UNCHANGED canonical /\ job = NoJob /\ ReadOn
    BY ReadIsIdle, ReadBuilds, ReadEnds, ReadLate DEF Read, Idle
  <1>2. CASE ReadRoot \/ BuildKnownPart \/ BuildClassInProgress \/ BuildPart \/ CorpusRead
    BY <1>1, <1>2 DEF ReadRoot, BuildKnownPart, BuildClassInProgress, BuildPart, CorpusRead, hashVars
  <1>3. CASE BuildDone
    <2>1. PICK t : t = Building.type
      OBVIOUS
    <2>2. t \in Type /\ t \in built'
      BY <1>3, <2>1, BuildingFacts DEF BuildDone
    <2>3. \/ UNCHANGED <<job, hashing>>
          \/ Canonicalize(t) /\ HasCanonicalParts(t) /\ Kind(t) # "declaration"
      BY <1>3, <2>1 DEF BuildDone, MayBeEarly
    <2> QED
      BY <1>1, <1>3, <2>2, <2>3 DEF Starts, Read
  <1>4. CASE CanonicalizeLate
    <2>1. PICK t : t = NextLate
      OBVIOUS
    <2>2. building = <<>> /\ UNCHANGED built /\ StateInv
      BY <1>4 DEF CanonicalizeLate, AllRead, Inv
    <2>3. LateFile \in Files /\ t \in Type /\ t = late[LateFile][1] /\ 1 \in DOMAIN late[LateFile]
      BY <1>4, <2>1, <2>2, LateTaken DEF CanonicalizeLate
    <2>4. Kind(t) # "declaration" /\ t \in built
      BY <2>2, <2>3 DEF Inv, ReadInv, LateRead, Found, Path
    <2>5. UNCHANGED <<job, hashing>> \/ (Canonicalize(t) /\ (Reader = "dwarf" => HasCanonicalParts(t)))
      BY <1>4, <2>1 DEF CanonicalizeLate
    <2> QED
      BY <1>1, <1>4, <2>2, <2>3, <2>4, <2>5 DEF Starts, Read
  <1> QED
    BY <1>1, <1>2, <1>3, <1>4 DEF Read

LEMMA StepKinds ==
    ASSUME Inv, [Next]_vars
    PROVE  /\ world' = world
           /\ JobStays \/ (\E t \in Type : Starts(t)) \/ \E x \in Type : Gets(x)
  <1>1. CASE Read
    BY <1>1, ReadStarts, ReadIsIdle DEF JobStays
  <1>2. CASE Hash
    <2>1. job'.type = job.type
      <3>1. job' = [job EXCEPT !.hash = job'.hash]
        BY <1>2, HashStep
      <3>2. PICK H : job \in Jobs(H)
        BY DEF Inv, HashesInv, HashesFrom
      <3>3. PICK h : h = job'.hash
        OBVIOUS
      <3> QED
        BY <3>1, <3>2, <3>3 DEF Jobs
    <2> QED
      BY <1>2, <2>1 DEF JobStays, Hash, HashKnownPart, HashPart, HashDone, readVars
  <1>3. CASE TryCandidate
    <2>1. PICK H : job \in Jobs(H)
      BY DEF Inv, HashesInv, HashesFrom
    <2>2. PICK i : job' = [job EXCEPT !.tried = i]
      BY <1>3 DEF TryCandidate
    <2>3. job'.type = job.type
      BY <2>1, <2>2 DEF Jobs
    <2> QED
      BY <1>3, <2>3 DEF JobStays, TryCandidate, readVars
  <1>4. CASE TakeCandidate
    <2>1. job # NoJob /\ answer = "yes"
      BY <1>4 DEF TakeCandidate, Trying
    <2>2. Candidate \in Type
      BY <2>1, JobFacts, RootFacts, TableTypes DEF Root
    <2>3. Gets(Candidate)
      BY <1>4 DEF TakeCandidate, Gets, Trying
    <2> QED
      BY <1>4, <2>2, <2>3 DEF TakeCandidate, readVars
  <1>5. CASE NewCanonical
    <2>1. job # NoJob /\ answer' = "none" /\ comparing' = comparing
      BY <1>5 DEF NewCanonical, Trying, compareVars
    <2>2. Gets(job.type)
      BY <1>5, <2>1 DEF NewCanonical, Gets, Trying
    <2> QED
      BY <1>5, <2>1, <2>2, JobFacts DEF NewCanonical, readVars
  <1>6. CASE Compare
    <2>1. CompareOnly
      BY <1>6, CompareStep
    <2> QED
      BY <2>1 DEF CompareOnly, JobStays, readVars
  <1>7. CASE LeaveCandidate \/ Ask \/ UNCHANGED vars
    BY <1>7 DEF LeaveCandidate, Ask, vars, JobStays, readVars
  <1> QED
    BY <1>1, <1>2, <1>3, <1>4, <1>5, <1>6, <1>7 DEF Next, LookUp

LEMMA CanonicalizedBy ==
    ASSUME Inv, [Next]_vars
    PROVE  /\ \A u \in Type : HasCanonical(u) => HasCanonical(u)'
           /\ \/ \A u \in Type : BeingCanonicalized(u)' <=> BeingCanonicalized(u)
              \/ \E t \in Type : /\ Starts(t)
                                 /\ \A u \in Type : BeingCanonicalized(u)' <=> BeingCanonicalized(u) \/ u = t
  <1>1. canonical \in [Type -> Type \cup {NoType}] /\ NoType \notin Type
    BY TypesAssumption DEF Inv, StateInv
  <1>2. CASE JobStays
    BY <1>2 DEF JobStays, HasCanonical, BeingCanonicalized
  <1>3. ASSUME NEW t \in Type, Starts(t)
        PROVE  /\ \A u \in Type : HasCanonical(u) => HasCanonical(u)'
               /\ \A u \in Type : BeingCanonicalized(u)' <=> BeingCanonicalized(u) \/ u = t
    <2>1. UNCHANGED canonical
      BY <1>3, ReadStarts DEF Starts
    <2>2. job.type = NoType /\ job'.type = t
      BY <1>3 DEF Starts, NoJob, Job, Canonicalize
    <2> QED
      BY <1>1, <2>1, <2>2 DEF HasCanonical, BeingCanonicalized
  <1>4. ASSUME NEW x \in Type, Gets(x)
        PROVE  /\ \A u \in Type : HasCanonical(u) => HasCanonical(u)'
               /\ \A u \in Type : BeingCanonicalized(u)' <=> BeingCanonicalized(u)
    <2>1. job.type \in Type
      BY <1>4, JobFacts DEF Gets
    <2>2. job'.type = NoType
      BY <1>4 DEF Gets, NoJob, Job
    <2>3. \A u \in Type : HasCanonical(u)' <=> HasCanonical(u) \/ u = job.type
      BY <1>1, <1>4, <2>1 DEF Gets, HasCanonical
    <2> QED
      BY <1>1, <2>2, <2>3 DEF BeingCanonicalized
  <1> QED
    BY <1>2, <1>3, <1>4, StepKinds

LEMMA LatePassedStays ==
    ASSUME Inv, [Next]_vars, NEW c \in Corpora, LatePassed(c)
    PROVE  LatePassed(c)'
  <1>1. StateInv /\ c \in {1, 2} /\ corpus \in 1 .. 3
    BY DEF Inv, StateInv, Corpora
  <1>2. CASE UNCHANGED readVars
    BY <1>2 DEF LatePassed, ReadBy, Roots, readVars
  <1>3. CASE Read
    <2>1. ReadBy(c)'
      BY <1>3, ReadBuilds, ReadEnds, ReadLate DEF Read, ReadOn, LatePassed
    <2>2. CASE CorpusRead
      BY <2>1, <2>2 DEF CorpusRead, LatePassed, NothingLate, Files
    <2>3. CASE CanonicalizeLate
      <3>1. late["primary"] = <<>> => late'["primary"] = late["primary"]
        BY <1>1, <2>3, LateTaken DEF CanonicalizeLate, LateFile, Files
      <3> QED
        BY <2>1, <2>3, <3>1 DEF LatePassed, CanonicalizeLate
    <2>4. CASE ReadRoot \/ BuildKnownPart \/ BuildClassInProgress \/ BuildPart \/ BuildDone
      <3>1. corpus' = corpus /\ (building # <<>> \/ ~(Roots \subseteq built))
        BY <2>4 DEF ReadRoot, BuildKnownPart, BuildClassInProgress, BuildPart, BuildDone, BuildLeft
      <3>2. c # corpus'
        BY <1>1, <3>1 DEF LatePassed, ReadBy
      <3> QED
        BY <2>1, <3>2 DEF LatePassed
    <2> QED
      BY <1>3, <2>2, <2>3, <2>4 DEF Read
  <1>4. CASE Hash \/ LookUp \/ Compare \/ Ask \/ UNCHANGED vars
    <2>1. CASE Compare
      BY <1>2, <2>1, CompareStep DEF CompareOnly, readVars
    <2>2. UNCHANGED readVars
      BY <1>2, <1>4, <2>1, CompareStep DEF CompareOnly, Hash, HashKnownPart, HashPart, HashDone, LookUp, TryCandidate,
         TakeCandidate, LeaveCandidate, NewCanonical, Ask, vars, readVars
    <2> QED
      BY <1>2, <2>2
  <1> QED
    BY <1>3, <1>4 DEF Next

(* Where a type begins to be canonicalized.                                 *)
LEMMA StartsAt ==
    ASSUME Inv, NEW t \in Type, Starts(t)
    PROVE  \/ BuildDone /\ building # <<>> /\ t = Building.type /\ MayBeEarly(t)
           \/ CanonicalizeLate /\ t = NextLate
  <1>1. Read /\ job.type = NoType /\ job'.type = t /\ t # NoType
    BY TypesAssumption DEF Starts, NoJob, Job, Canonicalize
  <1>2. CASE BuildDone
    <2>1. PICK u : u = Building.type
      OBVIOUS
    <2>2. building # <<>> /\ (job' = job \/ (Canonicalize(u) /\ MayBeEarly(u)))
      BY <1>2, <2>1 DEF BuildDone
    <2>3. Canonicalize(u) /\ MayBeEarly(u) /\ building # <<>>
      BY <1>1, <2>2
    <2>4. job'.type = u
      BY <2>3 DEF Canonicalize, Job
    <2> QED
      BY <1>1, <1>2, <2>1, <2>3, <2>4
  <1>3. CASE CanonicalizeLate
    <2>1. PICK u : u = NextLate
      OBVIOUS
    <2>2. job' = job \/ Canonicalize(u)
      BY <1>3, <2>1 DEF CanonicalizeLate
    <2>3. job'.type = u
      BY <1>1, <2>2 DEF Canonicalize, Job
    <2> QED
      BY <1>1, <1>3, <2>1, <2>3
  <1>4. CASE ReadRoot \/ BuildKnownPart \/ BuildClassInProgress \/ BuildPart \/ CorpusRead
    BY <1>1, <1>4 DEF ReadRoot, BuildKnownPart, BuildClassInProgress, BuildPart, CorpusRead
  <1> QED
    BY <1>1, <1>2, <1>3, <1>4 DEF Read

LEMMA GroundedStep ==
    ASSUME Inv, GroundedInv, [Next]_vars
    PROVE  GroundedInv'
  <1> SUFFICES ASSUME NEW t \in Type, Reader' = "dwarf", BeingCanonicalized(t)'
               PROVE  /\ HasCanonicalParts(t)' /\ ~Ungrounded(t)'
                      /\ Postponed(t)' => Alternate(t)' /\ LatePassed(CorpusOf(t))'
    BY DEF GroundedInv
  <1>1. world' = world /\ StateInv
    BY StepKinds DEF Inv
  <1>2. /\ Reader = "dwarf" /\ Parts(t)' = Parts(t) /\ (Ungrounded(t)' <=> Ungrounded(t))
        /\ (Postponed(t)' <=> Postponed(t)) /\ (Alternate(t)' <=> Alternate(t))
    BY <1>1, UngroundedStays DEF Reader
  <1>3. HasCanonicalParts(t) => HasCanonicalParts(t)'
    BY <1>1, <1>2, CanonicalizedBy, TypeFacts DEF HasCanonicalParts
  <1>4. LatePassed(CorpusOf(t)) => LatePassed(CorpusOf(t))'
    BY <1>1, TypeFacts, LatePassedStays
  <1>5. CASE BeingCanonicalized(t)
    BY <1>2, <1>3, <1>4, <1>5 DEF GroundedInv
  <1>6. CASE Starts(t)
    <2>1. HasCanonicalParts(t) /\ Kind(t) # "declaration" /\ t \notin Declared
      BY <1>2, <1>6 DEF Starts, Declared
    <2>2. ASSUME NEW k \in DOMAIN Parts(t)
          PROVE  /\ ~Ungrounded(Parts(t)[k]) /\ CorpusOf(Parts(t)[k]) = CorpusOf(t)
                 /\ Postponed(Parts(t)[k]) => LatePassed(CorpusOf(t))
      BY <1>1, <1>2, <2>1, TypeFacts DEF HasCanonicalParts, GroundedInv, BeingCanonicalized
    <2>3. ~Ungrounded(t)
      BY <1>1, <2>1, <2>2, AboveOnward DEF Ungrounded
    <2>4. Postponed(t) /\ t \notin PutOff => LatePassed(CorpusOf(t))
      BY <1>1, <2>1, <2>2, AboveOnward DEF Postponed
    <2>5. CASE BuildDone /\ building # <<>> /\ t = Building.type /\ MayBeEarly(t)
      <3>1. t \notin PutOff
        BY <1>2, <2>5 DEF MayBeEarly, PutOff
      <3>2. CorpusOf(t) = corpus /\ corpus \in Nat
        BY <1>1, <2>5, BuildingFacts DEF StateInv
      <3>3. ~LatePassed(CorpusOf(t))
        BY <2>5, <3>2 DEF LatePassed, ReadBy
      <3> QED
        BY <1>2, <1>3, <2>1, <2>3, <2>4, <3>1, <3>3
    <2>6. CASE CanonicalizeLate /\ t = NextLate
      <3>1. AllRead /\ ~NothingLate /\ late' = [late EXCEPT ![LateFile] = Tail(@)]
        BY <2>6 DEF CanonicalizeLate
      <3>2. LateFile \in Files /\ 1 \in DOMAIN late[LateFile] /\ t = late[LateFile][1]
        BY <1>1, <2>6, <3>1, LateTaken
      <3>3. CorpusOf(t) = corpus /\ FileOf(t) = LateFile
        BY <3>2 DEF Inv, ReadInv, LateRead
      <3>4. CASE Alternate(t)
        <4>1. LatePassed(CorpusOf(t))
          BY <3>1, <3>3, <3>4 DEF LatePassed, ReadBy, AllRead, FileOf, LateFile
        <4> QED
          BY <1>2, <1>3, <1>4, <2>1, <2>3, <3>4, <4>1
      <3>5. CASE ~Alternate(t)
        <4>1. t \notin PutOff /\ ~LatePassed(CorpusOf(t))
          BY <3>3, <3>5 DEF PutOff, LatePassed, FileOf, LateFile
        <4> QED
          BY <1>2, <1>3, <2>1, <2>3, <2>4, <4>1
      <3> QED
        BY <3>4, <3>5
    <2> QED
      BY <1>6, <2>5, <2>6, StartsAt
  <1> QED
    BY <1>5, <1>6, CanonicalizedBy

(* A type that is being built and has a part on the path is part of it.     *)
LEMMA PathOfBuilding ==
    ASSUME Inv, building # <<>>, HasPartIn(Building.type, Path)
    PROVE  Ungrounded(Building.type)
  <1>1. /\ Building = building[1] /\ DOMAIN building = 1 .. Len(building) /\ Len(building) \in Nat \ {0}
        /\ building \in Seq(BuildFrames) /\ StateInv /\ ReadInv
    BY BuildingFacts DEF Inv, StateInv
  <1> DEFINE s == [j \in DOMAIN building |-> building[j].type]
  <1>2. \A j \in 1 .. Len(building) : s[j] \in Type
    <2>1. \A j \in DOMAIN building : building[j] \in BuildFrames
      BY <1>1, ElementOfSeq
    <2> QED
      BY <1>1, <2>1 DEF BuildFrames
  <1>3. \A j \in 1 .. Len(building) - 1 : HasPartIn(s[j + 1], {s[j]})
    <2> TAKE j \in 1 .. Len(building) - 1
    <2>1. j + 1 \in DOMAIN building /\ j + 1 > 1 /\ (j + 1) - 1 = j /\ j \in DOMAIN building
      BY <1>1
    <2>2. /\ building[j + 1].next \in DOMAIN Parts(building[j + 1].type)
          /\ building[j].type = Parts(building[j + 1].type)[building[j + 1].next]
      BY <1>1, <2>1 DEF ReadInv
    <2> QED
      BY <2>1, <2>2 DEF HasPartIn
  <1>4. PICK i \in 1 .. Len(building) : HasPartIn(s[1], {s[i]})
    <2>1. PICK k \in DOMAIN Parts(Building.type) : Parts(Building.type)[k] \in Path
      BY DEF HasPartIn
    <2>2. PICK i \in DOMAIN building : building[i].type = Parts(Building.type)[k]
      BY <2>1 DEF Path
    <2>3. s[1] = Building.type /\ s[i] = Parts(Building.type)[k]
      BY <1>1, <2>2
    <2> QED
      BY <1>1, <2>2, <2>3 DEF HasPartIn
  <1>5. Ungrounded(s[1])
    <2> HIDE DEF s
    <2> QED
      BY <1>1, <1>2, <1>3, <1>4, RoundTrip
  <1> QED
    BY <1>1, <1>5

(* A type that has been built and has a part on the path is part of it.     *)
LEMMA PathStep ==
    ASSUME Inv, PathInv, [Next]_vars
    PROVE  PathInv'
  <1>1. world' = world /\ StateInv /\ ReadInv
    BY StepKinds DEF Inv
  <1>2. \A t : Parts(t)' = Parts(t) /\ (Ungrounded(t)' <=> Ungrounded(t))
    BY <1>1, UngroundedStays
  <1>3. ASSUME built' = built, NEW x, x \notin built, Path' \subseteq Path \cup {x}
        PROVE  PathInv'
    <2>1. ASSUME NEW t \in built, NEW k \in DOMAIN Parts(t), Parts(t)[k] \in Path \cup {x}
          PROVE  Ungrounded(t)
      <3>1. Parts(t)[k] \in Path
        BY <1>1, <1>3, <2>1 DEF ReadInv, Found
      <3> QED
        BY <3>1 DEF PathInv, HasPartIn
    <2> QED
      BY <1>2, <1>3, <2>1 DEF PathInv, HasPartIn
  <1>4. CASE UNCHANGED <<built, building>>
    BY <1>1, <1>2, <1>4, UngroundedStays DEF PathInv, Path
  <1>5. CASE ReadRoot
    <2>1. PICK t \in Roots \ built : building' = <<BuildFrame(t)>>
      BY <1>5 DEF ReadRoot
    <2>2. Path' \subseteq {t}
      BY <2>1 DEF Path, BuildFrame
    <2> QED
      BY <1>3, <1>5, <2>2 DEF ReadRoot
  <1>6. CASE BuildKnownPart \/ BuildClassInProgress
    <2>1. building # <<>> /\ building' = Skip /\ built' = built
      BY <1>6 DEF BuildKnownPart, BuildClassInProgress, BuildLeft
    <2>2. /\ Building = building[1] /\ Building \in BuildFrames /\ building \in Seq(BuildFrames)
          /\ DOMAIN building = 1 .. Len(building) /\ Len(building) \in Nat \ {0}
      BY <2>1, BuildingFacts DEF Inv, StateInv
    <2>3. PICK g : g = [Building EXCEPT !.next = @ + 1]
      OBVIOUS
    <2>4. g \in BuildFrames /\ g.type = Building.type
      BY <2>2, <2>3 DEF BuildFrames
    <2>5. /\ building' \in Seq(BuildFrames) /\ Len(building') = Len(building) /\ building'[1] = g
          /\ \A i \in 2 .. Len(building) : building'[i] = building[i]
      BY <2>1, <2>2, <2>3, <2>4, PutFirst DEF Skip
    <2>6. DOMAIN building' = DOMAIN building
      BY <2>2, <2>5, LenProperties
    <2>7. \A i \in DOMAIN building : building'[i].type = building[i].type
      <3> TAKE i \in DOMAIN building
      <3>1. i = 1 \/ i \in 2 .. Len(building)
        BY <2>2
      <3> QED
        BY <2>2, <2>4, <2>5, <3>1
    <2>8. Path' = Path
      BY <2>6, <2>7 DEF Path
    <2>9. PICK x : x \notin built
      BY TypesAssumption, <1>1 DEF StateInv
    <2> QED
      BY <1>3, <2>1, <2>8, <2>9
  <1>7. CASE BuildPart
    <2>1. BuildLeft /\ BuildNext \notin built /\ building' = <<BuildFrame(BuildNext)>> \o building /\ built' = built
      BY <1>7 DEF BuildPart
    <2>2. building # <<>> /\ building \in Seq(BuildFrames)
      BY <1>1, <2>1 DEF BuildLeft, StateInv
    <2>3. BuildNext \in Type
      BY <2>1, <2>2, BuildingFacts
    <2>4. PICK g : g = BuildFrame(BuildNext)
      OBVIOUS
    <2>5. g \in BuildFrames /\ g.type = BuildNext
      BY <2>3, <2>4 DEF BuildFrame, BuildFrames
    <2>6. /\ building' \in Seq(BuildFrames) /\ Len(building') = Len(building) + 1 /\ building'[1] = g
          /\ \A i \in 1 .. Len(building) : building'[i + 1] = building[i]
      BY <2>1, <2>2, <2>4, <2>5, Push
    <2>7. /\ DOMAIN building = 1 .. Len(building) /\ Len(building) \in Nat
          /\ DOMAIN building' = 1 .. Len(building) + 1
      BY <2>2, <2>6, LenProperties
    <2>8. ASSUME NEW i \in DOMAIN building'
          PROVE  building'[i].type \in Path \cup {BuildNext}
      <3>1. CASE i = 1
        BY <2>5, <2>6, <3>1
      <3>2. CASE i # 1
        <4>1. i - 1 \in DOMAIN building /\ building'[i] = building[i - 1]
          BY <2>6, <2>7, <3>2, i - 1 \in 1 .. Len(building), (i - 1) + 1 = i
        <4> QED
          BY <4>1 DEF Path
      <3> QED
        BY <3>1, <3>2
    <2>9. Path' \subseteq Path \cup {BuildNext}
      BY <2>8 DEF Path
    <2> QED
      BY <1>3, <2>1, <2>9
  <1>8. CASE BuildDone
    <2>1. /\ building # <<>> /\ ~BuildLeft /\ building' = Tail(building)
          /\ built' = built \cup {Building.type} /\ UNCHANGED corpus
          /\ UNCHANGED late \/ (PutLate(Building.type) /\ Kind(Building.type) # "declaration")
      BY <1>8 DEF BuildDone
    <2>2. Path = Path' \cup {Building.type}
      BY <1>1, <2>1, EndStep
    <2>3. HasPartIn(Building.type, Path) => Ungrounded(Building.type)
      BY <2>1, PathOfBuilding
    <2>4. \A t \in built' : HasPartIn(t, Path) => Ungrounded(t)
      BY <2>1, <2>3 DEF PathInv
    <2> QED
      BY <1>2, <2>2, <2>4 DEF PathInv, HasPartIn
  <1>9. CASE CanonicalizeLate \/ CorpusRead \/ Hash \/ LookUp \/ Compare \/ Ask \/ UNCHANGED vars
    <2>1. UNCHANGED <<built, building>>
      <3>1. CASE Compare
        BY <3>1, CompareStep DEF CompareOnly, readVars
      <3> QED
        BY <1>9, <3>1 DEF CanonicalizeLate, CorpusRead, Hash, HashKnownPart, HashPart, HashDone, LookUp,
           TryCandidate, TakeCandidate, LeaveCandidate, NewCanonical, Ask, vars, readVars
    <2> QED
      BY <1>4, <2>1
  <1> QED
    BY <1>5, <1>6, <1>7, <1>8, <1>9 DEF Next, Read

LEMMA EarlyStep ==
    ASSUME Inv, EarlyInv, [Next]_vars
    PROVE  EarlyInv'
  <1> SUFFICES ASSUME Reader' = "dwarf", NEW t \in built', Alternate(t)', ~Postponed(t)'
               PROVE  BeingCanonicalized(t)'
    BY DEF EarlyInv
  <1>1. world' = world /\ StateInv /\ ReadInv
    BY StepKinds DEF Inv
  <1>2. Reader = "dwarf" /\ Alternate(t) /\ ~Postponed(t)
    BY <1>1, UngroundedStays DEF Reader
  <1>3. CASE t \in built
    <2>1. BeingCanonicalized(t) /\ t \in Type
      BY <1>1, <1>2, <1>3 DEF EarlyInv, StateInv
    <2> QED
      BY <2>1, CanonicalizedBy
  <1>4. CASE t \notin built
    <2>1. BuildDone
      <3>1. CASE Compare
        BY <1>4, <3>1, CompareStep DEF CompareOnly, readVars
      <3> QED
        BY <1>4, <3>1 DEF Next, Read, ReadRoot, BuildKnownPart, BuildClassInProgress, BuildPart, CanonicalizeLate,
           CorpusRead, Hash, HashKnownPart, HashPart, HashDone, LookUp, TryCandidate, TakeCandidate, LeaveCandidate,
           NewCanonical, Ask, vars, readVars
    <2>2. building # <<>> /\ ~BuildLeft /\ built' = built \cup {Building.type} /\ UNCHANGED canonical
      BY <2>1 DEF BuildDone
    <2>3. t = Building.type /\ t \in Type /\ job = NoJob
      BY <1>4, <2>1, <2>2, BuildingFacts, ReadIsIdle DEF Read, Idle
    <2>4. \A k \in DOMAIN Parts(t) : Parts(t)[k] \in Found
      BY <1>1, <2>2, <2>3, BuildingFacts, TypeFacts DEF BuildLeft
    <2>5. ~HasPartIn(t, Path)
      BY <1>2, <2>2, <2>3, PathOfBuilding, UngroundedPostponed
    <2>6. ASSUME NEW k \in DOMAIN Parts(t)
          PROVE  HasCanonical(Parts(t)[k])
      <3>1. PICK q : q = Parts(t)[k]
        OBVIOUS
      <3>2. q \in built /\ q \in Type
        BY <1>1, <2>3, <2>4, <2>5, <3>1, TypeFacts DEF Found, HasPartIn
      <3>3. Alternate(q)
        BY <1>1, <1>2, <2>3, <3>1, WorldsAssumption DEF Alternate, Parts, StateInv
      <3>4. ~Postponed(q)
        BY <1>1, <1>2, <2>3, <3>1, AbovePart DEF Postponed
      <3>5. BeingCanonicalized(q)
        BY <1>2, <3>2, <3>3, <3>4 DEF EarlyInv
      <3> QED
        BY <2>3, <3>1, <3>2, <3>5, TypesAssumption DEF BeingCanonicalized, NoJob, Job
    <2>7. Kind(t) # "declaration" /\ ~VirtualIn(world, t)
      BY <1>2, <2>3, AboveItself DEF Postponed, Declared, PutOff
    <2>8. MayBeEarly(t)
      BY <2>6, <2>7 DEF MayBeEarly, HasCanonicalParts
    <2>9. HasCanonical(t) \/ job'.type = t
      BY <1>2, <2>1, <2>3, <2>7, <2>8 DEF BuildDone, Canonicalize, Job
    <2> QED
      BY <2>2, <2>9 DEF BeingCanonicalized, HasCanonical
  <1> QED
    BY <1>3, <1>4

(* What waits for its canonical type.                                       *)
LEMMA WaitsFewer ==
    ASSUME StateInv, WaitInv, world' = world, Waiting' \subseteq Waiting, LateStays
    PROVE  WaitInv'
  <1>1. /\ Reader' = Reader /\ \A t : Parts(t)' = Parts(t)
        /\ \A t : (Unsettled(t)' <=> Unsettled(t)) /\ FileOf(t)' = FileOf(t) /\ FileOf(t) \in Files
    BY UngroundedStays DEF Reader, FileOf, Files
  <1>2. Waits' \subseteq Waits
    BY <1>1 DEF Waits
  <1>3. CASE Reader = "xml"
    <2>1. ASSUME NEW t \in Waiting'
          PROVE  \E i \in DOMAIN late'[FileOf(t)] : late'[FileOf(t)][i] = t
      BY <1>1, <1>3 DEF WaitInv, LateStays
    <2> QED
      BY <1>1, <1>3, <2>1 DEF WaitInv
  <1>4. CASE Reader # "xml"
    <2>1. PICK pos \in [Type -> Nat] : InOrder(pos)
      BY <1>4 DEF WaitInv
    <2>2. ASSUME NEW t \in Waits'
          PROVE  /\ pos[t] \in DOMAIN late'[FileOf(t)] /\ late'[FileOf(t)][pos[t]] = t
                 /\ \A k \in DOMAIN Parts(t) :
                      Parts(t)[k] \in Waits' /\ FileOf(Parts(t)[k]) = FileOf(t) => pos[Parts(t)[k]] < pos[t]
      BY <1>1, <1>2, <2>1 DEF InOrder, LateStays
    <2>3. InOrder(pos)'
      BY <1>1, <2>2 DEF InOrder
    <2> QED
      BY <1>1, <1>4, <2>1, <2>3 DEF WaitInv
  <1> QED
    BY <1>3, <1>4

LEMMA WaitsBuilt ==
    ASSUME Inv, PathInv, WaitInv, BuildDone
    PROVE  WaitInv'
  <1>1. /\ StateInv /\ ReadInv /\ job = NoJob /\ UNCHANGED canonical
        /\ world' = world /\ Reader \in Readers
    BY ReadIsIdle, WorldsAssumption DEF Inv, StateInv, Read, Idle, Reader
  <1>2. PICK t : t = Building.type
    OBVIOUS
  <1>3. /\ t \in Type /\ t \in Path /\ built' = built \cup {t} /\ building # <<>>
    <2>1. building # <<>>
      BY DEF BuildDone
    <2>2. Building = building[1] /\ 1 \in DOMAIN building /\ Building.type \in Type
      BY <2>1, BuildingFacts
    <2> QED
      BY <1>2, <2>1, <2>2 DEF BuildDone, Path
  <1>4. \/ UNCHANGED <<late, job>> /\ (HasCanonical(t) \/ Kind(t) = "declaration" \/ t \in built)
        \/ UNCHANGED late /\ job'.type = t
        \/ PutLate(t) /\ job' = job
    BY <1>2 DEF BuildDone, Canonicalize, Job
  <1>5. LateStays
    <2>1. CASE UNCHANGED late
      BY <2>1 DEF LateStays
    <2> QED
      BY <1>1, <1>3, <1>4, <2>1, PutLateFacts
  <1>6. \A u \in Type : BeingCanonicalized(u)' <=> BeingCanonicalized(u) \/ u = job'.type
    BY <1>1, TypesAssumption DEF BeingCanonicalized, HasCanonical, NoJob, Job
  <1>7. Waiting' \subseteq Waiting \cup {t}
    BY <1>1, <1>3, <1>6 DEF Waiting, StateInv
  <1>8. CASE t \in Waiting' /\ t \notin Waiting
    <2>1. Kind(t) # "declaration" /\ ~BeingCanonicalized(t)' /\ t \notin built /\ PutLate(t)
      <3>1. Kind(t) # "declaration" /\ ~BeingCanonicalized(t)' /\ ~BeingCanonicalized(t)
        BY <1>3, <1>6, <1>8 DEF Waiting
      <3>2. t \notin built
        BY <1>8, <3>1 DEF Waiting
      <3> QED
        BY <1>4, <3>1, <3>2 DEF BeingCanonicalized
    <2>2. PICK n : n = Len(late[FileOf(t)]) + 1
      OBVIOUS
    <2>3. /\ n \in DOMAIN late'[FileOf(t)] /\ late'[FileOf(t)][n] = t /\ n \in Nat
          /\ \A i \in DOMAIN late[FileOf(t)] : i \in Nat /\ i < n
      BY <1>1, <1>3, <2>1, <2>2, PutLateFacts
    <2>4. /\ \A u : Parts(u)' = Parts(u)
          /\ \A u : (Unsettled(u)' <=> Unsettled(u)) /\ FileOf(u)' = FileOf(u) /\ FileOf(u) \in Files
      BY <1>1, UngroundedStays DEF FileOf, Files
    <2>5. CASE Reader = "xml"
      <3>1. ASSUME NEW u \in Waiting'
            PROVE  \E i \in DOMAIN late'[FileOf(u)] : late'[FileOf(u)][i] = u
        <4>1. CASE u = t
          BY <2>3, <4>1
        <4>2. CASE u # t
          <5>1. PICK i \in DOMAIN late[FileOf(u)] : late[FileOf(u)][i] = u
            BY <1>7, <2>5, <4>2 DEF WaitInv
          <5> QED
            BY <1>5, <2>4, <5>1 DEF LateStays
        <4> QED
          BY <4>1, <4>2
      <3> QED
        BY <1>1, <2>4, <2>5, <3>1 DEF WaitInv, Reader
    <2>6. CASE Reader # "xml"
      <3>1. PICK pos \in [Type -> Nat] : InOrder(pos)
        BY <2>6 DEF WaitInv
      <3>2. PICK p : p = [pos EXCEPT ![t] = n]
        OBVIOUS
      <3>3. p \in [Type -> Nat] /\ p[t] = n /\ \A u \in Type : u # t => p[u] = pos[u]
        BY <1>3, <2>3, <3>1, <3>2
      <3>4. Waits' \subseteq Waits \cup {t} /\ Waits \subseteq Type /\ Waits \subseteq built
            /\ \A u \in Waits' : ~Unsettled(u) /\ ~Ungrounded(u)
        <4>1. \A u : ~Unsettled(u) => ~Ungrounded(u)
          BY UngroundedPostponed DEF Unsettled
        <4> QED
          BY <1>1, <1>7, <2>4, <4>1 DEF Waits, Waiting, StateInv
      <3>5. ASSUME NEW u \in Waits', NEW k \in DOMAIN Parts(u), Parts(u)[k] \in Waits',
                   FileOf(Parts(u)[k]) = FileOf(u)
            PROVE  p[Parts(u)[k]] < p[u]
        <4>1. CASE u = t
          <5>1. Parts(u)[k] # t
            BY <1>3, <3>4, <3>5, <4>1, AboveItself DEF HasPartIn, Ungrounded
          <5>2. Parts(u)[k] \in Waits /\ Parts(u)[k] \in Type
            BY <3>4, <3>5, <5>1
          <5>3. pos[Parts(u)[k]] \in DOMAIN late[FileOf(t)]
            BY <3>1, <3>5, <4>1, <5>2 DEF InOrder
          <5> QED
            BY <2>3, <3>3, <4>1, <5>1, <5>2, <5>3
        <4>2. CASE u # t
          <5>1. u \in Waits /\ Parts(u)[k] # t
            BY <1>3, <3>4, <3>5, <4>2 DEF PathInv, HasPartIn
          <5>2. pos[Parts(u)[k]] < pos[u]
            BY <3>1, <3>4, <3>5, <5>1 DEF InOrder
          <5> QED
            BY <3>3, <3>4, <3>5, <4>2, <5>1, <5>2
        <4> QED
          BY <4>1, <4>2
      <3>6. ASSUME NEW u \in Waits'
            PROVE  p[u] \in DOMAIN late'[FileOf(u)] /\ late'[FileOf(u)][p[u]] = u
        <4>1. CASE u = t
          BY <2>3, <3>3, <4>1
        <4>2. CASE u # t
          <5>1. pos[u] \in DOMAIN late[FileOf(u)] /\ late[FileOf(u)][pos[u]] = u /\ p[u] = pos[u]
            BY <3>1, <3>3, <3>4, <4>2 DEF InOrder
          <5> QED
            BY <1>5, <2>4, <5>1 DEF LateStays
        <4> QED
          BY <4>1, <4>2
      <3>7. InOrder(p)'
        BY <2>4, <3>5, <3>6 DEF InOrder
      <3> QED
        BY <1>1, <2>6, <3>3, <3>7 DEF WaitInv, Reader
    <2> QED
      BY <2>5, <2>6
  <1> QED
    BY <1>1, <1>5, <1>7, <1>8, WaitsFewer

(* When a type of which nothing below is put off has its turn, its parts    *)
(* have canonical types.                                                    *)
LEMMA PartsWereFirst ==
    ASSUME Inv, EarlyInv, CanonicalizeLate, Reader = "dwarf",
           NEW pos \in [Type -> Nat], InOrder(pos),
           NEW t \in Waits, FileOf(t) = LateFile, pos[t] = 1
    PROVE  HasCanonicalParts(t)
  <1>1. StateInv /\ ReadInv /\ job = NoJob /\ building = <<>> /\ late \in [Files -> Seq(Type)]
    BY DEF Inv, StateInv, CanonicalizeLate, AllRead, Idle
  <1>2. t \in Type /\ t \in built /\ ~Unsettled(t)
    BY <1>1 DEF Waits, Waiting, StateInv
  <1>3. LateFile \in Files /\ DOMAIN late[LateFile] = 1 .. Len(late[LateFile])
    BY <1>1, LenProperties DEF LateFile, Files
  <1>4. ASSUME NEW k \in DOMAIN Parts(t)
        PROVE  HasCanonical(Parts(t)[k])
    <2>1. PICK q : q = Parts(t)[k]
      OBVIOUS
    <2>2. q \in Type /\ q \in built
      BY <1>1, <1>2, <2>1, TypeFacts DEF ReadInv, Found, Path
    <2>3. FileOf(q) = FileOf(t) /\ q \in Waits => FALSE
      <3> SUFFICES ASSUME FileOf(q) = FileOf(t), q \in Waits
                   PROVE  FALSE
        OBVIOUS
      <3>1. pos[q] \in DOMAIN late[LateFile] /\ pos[q] < 1
        BY <2>1 DEF InOrder
      <3> QED
        BY <1>3, <3>1
    <2>4. Alternate(t) => Alternate(q)
      BY <1>1, <1>2, <2>1, WorldsAssumption DEF Alternate, Parts, StateInv
    <2>5. ~Ungrounded(t) => ~Ungrounded(q)
      BY <1>1, <1>2, <2>1, AbovePart DEF Ungrounded
    <2>6. ~Postponed(t) => ~Postponed(q)
      BY <1>1, <1>2, <2>1, AbovePart DEF Postponed
    <2>7. ~Ungrounded(q) => Kind(q) # "declaration"
      BY <2>2, AboveItself DEF Ungrounded, Declared
    <2>8. ~Postponed(q) => ~Ungrounded(q)
      BY UngroundedPostponed
    <2>9. FileOf(q) = FileOf(t) => BeingCanonicalized(q)
      <3>1. FileOf(q) = FileOf(t) => (Alternate(q) <=> Alternate(t))
        BY DEF FileOf
      <3> QED
        BY <1>2, <2>2, <2>3, <2>5, <2>6, <2>7, <2>8, <3>1 DEF Waits, Waiting, Unsettled
    <2>10. FileOf(q) # FileOf(t) => BeingCanonicalized(q)
      <3>1. FileOf(q) # FileOf(t) => Alternate(q) /\ ~Alternate(t)
        BY <2>4 DEF FileOf
      <3> QED
        BY <1>2, <2>2, <2>6, <3>1 DEF EarlyInv, Unsettled
    <2> QED
      BY <1>1, <2>1, <2>2, <2>9, <2>10, TypesAssumption DEF BeingCanonicalized, NoJob, Job
  <1> QED
    BY <1>4 DEF HasCanonicalParts

LEMMA WaitsLate ==
    ASSUME Inv, EarlyInv, WaitInv, CanonicalizeLate
    PROVE  WaitInv'
  <1>1. /\ StateInv /\ ReadInv /\ ~NothingLate /\ late' = [late EXCEPT ![LateFile] = Tail(@)]
        /\ job = NoJob /\ UNCHANGED <<world, built, canonical>> /\ building = <<>>
        /\ Reader \in Readers /\ built \subseteq Type
    BY WorldsAssumption DEF Inv, StateInv, CanonicalizeLate, AllRead, Idle, Reader
  <1>2. PICK h : h = NextLate
    OBVIOUS
  <1>3. PICK g : g = LateFile
    OBVIOUS
  <1>4. /\ g \in Files /\ 1 \in DOMAIN late[g] /\ h = late[g][1] /\ h \in Type
        /\ \A f \in Files : f # g => late'[f] = late[f]
        /\ \A i \in DOMAIN late[g] :
             i \in Nat \ {0} /\ (i # 1 => i - 1 \in DOMAIN late'[g] /\ late'[g][i - 1] = late[g][i])
    BY <1>1, <1>2, <1>3, LateTaken
  <1>5. FileOf(h) = g
    BY <1>1, <1>4 DEF ReadInv, LateRead
  <1>6. \/ HasCanonical(h) /\ job' = job
        \/ Reader = "dwarf" /\ ~HasCanonicalParts(h) /\ job' = job
        \/ job'.type = h
    BY <1>2 DEF CanonicalizeLate, Canonicalize, Job
  <1>7. \A u \in Type : BeingCanonicalized(u)' <=> BeingCanonicalized(u) \/ u = job'.type
    BY <1>1, TypesAssumption DEF BeingCanonicalized, HasCanonical, NoJob, Job
  <1>8. Waiting' \subseteq Waiting /\ Waiting \subseteq built
    BY <1>1, <1>7 DEF Waiting
  <1>9. h \in Waiting' => Reader = "dwarf" /\ ~HasCanonicalParts(h)
    <2>1. h \in Waiting' => ~HasCanonical(h) /\ h # job'.type
      BY <1>4, <1>7 DEF Waiting, BeingCanonicalized
    <2> QED
      BY <1>6, <2>1
  <1>10. /\ \A u : Parts(u)' = Parts(u)
         /\ \A u : (Unsettled(u)' <=> Unsettled(u)) /\ FileOf(u)' = FileOf(u) /\ FileOf(u) \in Files
    BY <1>1, UngroundedStays DEF FileOf, Files
  <1>11. CASE Reader = "xml"
    <2>1. ASSUME NEW u \in Waiting'
          PROVE  \E i \in DOMAIN late'[FileOf(u)] : late'[FileOf(u)][i] = u
      <3>1. PICK i \in DOMAIN late[FileOf(u)] : late[FileOf(u)][i] = u
        BY <1>8, <1>11 DEF WaitInv
      <3>2. CASE FileOf(u) # g
        BY <1>4, <1>10, <3>1, <3>2
      <3>3. CASE FileOf(u) = g
        <4>1. i # 1
          BY <1>4, <1>9, <1>11, <3>1, <3>3
        <4> QED
          BY <1>4, <3>1, <3>3, <4>1
      <3> QED
        BY <3>2, <3>3
    <2> QED
      BY <1>1, <1>10, <1>11, <2>1 DEF WaitInv, Reader
  <1>12. CASE Reader # "xml"
    <2>1. PICK pos \in [Type -> Nat] : InOrder(pos)
      BY <1>12 DEF WaitInv
    <2>2. Waits' \subseteq Waits /\ Waits \subseteq Type
      BY <1>1, <1>8, <1>10 DEF Waits
    <2>3. ASSUME NEW u \in Waits'
          PROVE  pos[u] \in DOMAIN late[FileOf(u)] /\ late[FileOf(u)][pos[u]] = u
      BY <2>1, <2>2 DEF InOrder
    <2>4. ASSUME NEW u \in Waits', FileOf(u) = g
          PROVE  pos[u] # 1
      <3> SUFFICES ASSUME pos[u] = 1
                   PROVE  FALSE
        OBVIOUS
      <3>1. u = h /\ u \in Waits /\ u \in Waiting'
        BY <1>4, <2>2, <2>3, <2>4 DEF Waits
      <3>2. HasCanonicalParts(u)
        BY <1>1, <1>3, <1>12, <2>1, <2>4, <3>1, PartsWereFirst DEF Readers
      <3> QED
        BY <1>9, <3>1, <3>2
    <2>5. PICK p : p = [u \in Type |-> IF FileOf(u) = g /\ pos[u] > 0 THEN pos[u] - 1 ELSE pos[u]]
      OBVIOUS
    <2>6. /\ p \in [Type -> Nat]
          /\ \A u \in Type : FileOf(u) # g => p[u] = pos[u]
          /\ \A u \in Type : FileOf(u) = g /\ pos[u] > 0 => p[u] = pos[u] - 1
      BY <2>1, <2>5
    <2>7. \A u \in Waits' : FileOf(u) = g => pos[u] > 0
      BY <1>4, <2>3
    <2>8. ASSUME NEW u \in Waits'
          PROVE  p[u] \in DOMAIN late'[FileOf(u)] /\ late'[FileOf(u)][p[u]] = u
      <3>1. CASE FileOf(u) = g
        BY <1>4, <2>2, <2>3, <2>4, <2>6, <2>7, <3>1
      <3>2. CASE FileOf(u) # g
        BY <1>4, <1>10, <2>2, <2>3, <2>6, <3>2
      <3> QED
        BY <3>1, <3>2
    <2>9. ASSUME NEW u \in Waits', NEW k \in DOMAIN Parts(u), Parts(u)[k] \in Waits',
                 FileOf(Parts(u)[k]) = FileOf(u)
          PROVE  p[Parts(u)[k]] < p[u]
      <3>1. PICK q : q = Parts(u)[k]
        OBVIOUS
      <3>2. pos[q] < pos[u] /\ pos[u] \in Nat /\ pos[q] \in Nat /\ u \in Type /\ q \in Type
        BY <2>1, <2>2, <2>9, <3>1 DEF InOrder
      <3>3. CASE FileOf(u) = g
        BY <2>6, <2>7, <2>9, <3>1, <3>2, <3>3
      <3>4. CASE FileOf(u) # g
        BY <2>6, <2>9, <3>1, <3>2, <3>4
      <3> QED
        BY <3>1, <3>3, <3>4
    <2>10. InOrder(p)'
      BY <1>10, <2>8, <2>9 DEF InOrder
    <2> QED
      BY <1>1, <1>12, <2>6, <2>10 DEF WaitInv, Reader
  <1> QED
    BY <1>11, <1>12

LEMMA WaitStep ==
    ASSUME Inv, LateInv, [Next]_vars
    PROVE  WaitInv'
  <1>1. world' = world /\ StateInv /\ built \subseteq Type /\ WaitInv
    BY StepKinds DEF Inv, StateInv, LateInv
  <1>2. \A u \in Type : BeingCanonicalized(u) => BeingCanonicalized(u)'
    BY CanonicalizedBy
  <1>3. CASE BuildDone \/ CanonicalizeLate
    BY <1>3, WaitsBuilt, WaitsLate DEF LateInv
  <1>4. CASE ~(BuildDone \/ CanonicalizeLate)
    <2>1. UNCHANGED <<built, late>> \/ (built' = built /\ \E x \in Type : PutLate(x))
      <3>1. CASE BuildClassInProgress
        <4>1. building # <<>> /\ BuildLeft
          BY <3>1 DEF BuildClassInProgress, BuildLeft
        <4> QED
          BY <3>1, <4>1, BuildingFacts DEF BuildClassInProgress
      <3>2. CASE Compare
        BY <3>2, CompareStep DEF CompareOnly, readVars
      <3> QED
        BY <1>4, <3>1, <3>2 DEF Next, Read, ReadRoot, BuildKnownPart, BuildPart, CorpusRead, Hash, HashKnownPart,
           HashPart, HashDone, LookUp, TryCandidate, TakeCandidate, LeaveCandidate, NewCanonical, Ask, vars, readVars
    <2>2. Waiting' \subseteq Waiting
      BY <1>1, <1>2, <2>1 DEF Waiting
    <2>3. LateStays
      <3>1. CASE UNCHANGED late
        BY <3>1 DEF LateStays
      <3> QED
        BY <1>1, <2>1, <3>1, PutLateFacts
    <2> QED
      BY <1>1, <2>2, <2>3, WaitsFewer
  <1> QED
    BY <1>3, <1>4

LEMMA LateAlways == Spec => [](Inv /\ LateInv)
  <1>1. Init => LateInv
    <2> SUFFICES ASSUME Init
                 PROVE  LateInv
      OBVIOUS
    <2>1. \A t \in Type : ~BeingCanonicalized(t)
      BY TypesAssumption DEF Init, BeingCanonicalized, HasCanonical, NoJob, Job
    <2>2. Waiting = {} /\ Waits = {}
      BY DEF Init, Waiting, Waits
    <2>3. \E pos : pos \in [Type -> Nat]
      <3>1. [t \in Type |-> 0] \in [Type -> Nat]
        OBVIOUS
      <3> QED
        BY <3>1
    <2> QED
      BY <2>1, <2>2, <2>3 DEF Init, LateInv, GroundedInv, PathInv, EarlyInv, WaitInv, InOrder
  <1>2. Inv /\ LateInv /\ [Next]_vars => LateInv'
    BY GroundedStep, PathStep, EarlyStep, WaitStep DEF LateInv
  <1> QED
    BY <1>1, <1>2, InvInit, InvInductive, PTL DEF Spec

(* The types that LeadsOn(D) finds, step by step, are those above D.        *)
LeadStep(D) == [X \in SUBSET Type |-> {t \in X : t \in D \/ HasPartIn(t, X)}]

LEMMA LeadsOnUnfolds ==
    ASSUME StateInv, NEW D
    PROVE  LeadsOn(D) = [n \in 0 .. Cardinality(Type) |->
                           IF n = 0 THEN built
                           ELSE {t \in LeadsOn(D)[n - 1] : t \in D \/ HasPartIn(t, LeadsOn(D)[n - 1])}]
  <1> DEFINE N == Cardinality(Type)
             F == LeadStep(D)
             Step(X) == {t \in X : t \in D \/ \E i \in DOMAIN Parts(t) : Parts(t)[i] \in X}
             Body(f) == [n \in 0 .. N |-> IF n = 0 THEN built ELSE LET was == f[n - 1] IN Listed(Step(was))]
  <1>1. N \in Nat /\ built \in SUBSET Type /\ IsStep(F, Type)
    BY FS_CardinalityType, TypesAssumption DEF StateInv, IsStep, LeadStep
  <1>2. PICK g \in [0 .. N -> SUBSET Type] : AreIterates(g, F, built, N)
    <2> HIDE DEF N, F
    <2> QED
      BY <1>1, IteratesExist
  <1>3. ASSUME NEW X
        PROVE  Listed(Step(X)) = Step(X)
    BY DEF Listed
  <1>4. g = Body(g)
    <2>1. ASSUME NEW n \in 0 .. N
          PROVE  g[n] = IF n = 0 THEN built ELSE Step(g[n - 1])
      <3>1. CASE n = 0
        BY <1>2, <3>1 DEF AreIterates
      <3>2. CASE n # 0
        <4>1. n \in 1 .. N /\ n - 1 \in 0 .. N
          BY <1>1, <3>2
        <4>2. g[n] = F[g[n - 1]] /\ g[n - 1] \in SUBSET Type
          BY <1>2, <4>1 DEF AreIterates
        <4> QED
          BY <3>2, <4>2 DEF LeadStep, HasPartIn
      <3> QED
        BY <3>1, <3>2
    <2>2. g = [n \in 0 .. N |-> g[n]]
      BY <1>2
    <2> HIDE DEF N, F, Step
    <2> QED
      BY <1>3, <2>1, <2>2
  <1>5. LeadsOn(D) = Body(LeadsOn(D))
    <2>1. \E f : f = Body(f)
      BY <1>4
    <2> QED
      BY <2>1 DEF LeadsOn
  <1> QED
    BY <1>3, <1>5 DEF HasPartIn

LEMMA GroundedTypes ==
    ASSUME StateInv, AllFound, NEW D
    PROVE  Grounded(D) = {t \in built : ~Above(D, t)}
  <1> DEFINE N == Cardinality(Type)
             c == Cardinality(built)
             F == LeadStep(D)
             B == {t \in built : Above(D, t)}
  <1>1. N \in Nat /\ built \in SUBSET Type /\ IsStep(F, Type) /\ IsFiniteSet(built) /\ c <= N
    BY FS_CardinalityType, FS_Subset, TypesAssumption DEF StateInv, IsStep, LeadStep
  <1>2. PICK g : g = LeadsOn(D)
    OBVIOUS
  <1>3. g = [n \in 0 .. N |-> IF n = 0 THEN built ELSE {t \in g[n - 1] : t \in D \/ HasPartIn(t, g[n - 1])}]
    BY <1>2, LeadsOnUnfolds
  <1>4. g \in [0 .. N -> SUBSET Type] /\ AreIterates(g, F, built, N)
    <2>1. ASSUME NEW n \in 1 .. N, g[n - 1] \in SUBSET Type
          PROVE  g[n] = F[g[n - 1]]
      <3>1. n \in 0 .. N /\ n # 0
        BY <1>1
      <3>2. g[n] = {t \in g[n - 1] : t \in D \/ HasPartIn(t, g[n - 1])}
        BY <1>3, <3>1, Zenon
      <3> QED
        BY <2>1, <3>2 DEF LeadStep
    <2>2. g[0] = built
      <3>1. 0 \in 0 .. N
        BY <1>1
      <3> QED
        BY <1>3, <3>1, Zenon
    <2>3. g = [n \in 0 .. N |-> g[n]]
      BY <1>3
    <2> HIDE DEF N, F
    <2> QED
      BY <1>1, <2>1, <2>2, <2>3, IteratesUnfold
  <1>5. g[c] \in SUBSET built /\ c \in 0 .. N /\ F[g[c]] = g[c]
    <2> HIDE DEF N, F
    <2> QED
      BY <1>1, <1>4, IteratesShrink, IteratesEnd
  <1>6. g[c] \subseteq B
    <2>1. PICK X : X = g[c]
      OBVIOUS
    <2>2. X \in SUBSET Type /\ Endless(D, X)
      BY <1>1, <1>5, <2>1 DEF LeadStep, Endless
    <2> QED
      BY <1>5, <2>1, <2>2 DEF Above
  <1>7. ASSUME NEW X \in SUBSET Type, B \subseteq X
        PROVE  B \subseteq F[X]
    <2>1. ASSUME NEW t \in B
          PROVE  t \in D \/ HasPartIn(t, B)
      BY <1>1, AboveOnward DEF HasPartIn, AllFound
    <2> QED
      BY <1>7, <2>1 DEF LeadStep, HasPartIn
  <1>8. B \subseteq g[c]
    <2> HIDE DEF N, F, B, c
    <2>1. B \in SUBSET built
      BY DEF B
    <2> QED
      BY <1>1, <1>4, <1>5, <1>7, <2>1, IteratesKeep
  <1>9. g[c] = B
    BY <1>6, <1>8
  <1> QED
    BY <1>2, <1>9 DEF Grounded

LEMMA GetCanonical ==
    ASSUME Inv, LateInv
    PROVE  TypesGetCanonical
  <1> DEFINE grounded == Grounded(Declared)
             early == Grounded(Declared \cup PutOff)
  <1> SUFFICES ASSUME BothRead, NEW t \in built, Kind(t) # "declaration"
               PROVE  IF Reader = "xml" THEN HasCanonical(t)
                      ELSE HasCanonical(t) <=> t \in (IF Alternate(t) THEN grounded ELSE early)
    BY DEF TypesGetCanonical
  <1>1. /\ StateInv /\ AllFound /\ t \in Type /\ job = NoJob /\ t # job.type /\ NothingLate
        /\ Reader \in Readers
    BY WhenBothRead, WorldsAssumption DEF BothRead, Inv, TurnsInv, StateInv, Reader
  <1>2. t \in Waiting <=> ~HasCanonical(t)
    BY <1>1 DEF Waiting, BeingCanonicalized
  <1>3. late[FileOf(t)] = <<>>
    BY <1>1 DEF NothingLate, FileOf, Files
  <1>4. CASE Reader = "xml"
    BY <1>1, <1>2, <1>3, <1>4 DEF LateInv, WaitInv
  <1>5. CASE Reader # "xml"
    <2>1. /\ t \in grounded <=> ~Ungrounded(t)
          /\ t \in early <=> ~Postponed(t)
      BY <1>1, GroundedTypes DEF Ungrounded, Postponed
    <2>2. HasCanonical(t) => ~Ungrounded(t) /\ (Postponed(t) => Alternate(t))
      BY <1>1, <1>5 DEF LateInv, GroundedInv, BeingCanonicalized, Readers
    <2>3. PICK pos : InOrder(pos)
      BY <1>5 DEF LateInv, WaitInv
    <2>4. t \notin Waits
      BY <1>3, <2>3 DEF InOrder
    <2>5. HasCanonical(t) <=> ~Unsettled(t)
      BY <1>2, <2>2, <2>4 DEF Waits, Unsettled
    <2>6. ~Unsettled(t) <=> t \in (IF Alternate(t) THEN grounded ELSE early)
      BY <2>1 DEF Unsettled
    <2> QED
      BY <1>5, <2>5, <2>6
  <1> QED
    BY <1>4, <1>5

(* When both corpora have been read, the XML reader has given a canonical   *)
(* type to every type that is not only declared, and the DWARF reader to    *)
(* those that have no cycle and no declaration below, in whatever order they*)
(* were built, or left for later: except the types of the primary file that *)
(* have a class with virtual member functions of the alternate file below,  *)
(* whose turn comes too late (perform_late_type_canonicalizing).            *)
THEOREM EveryTypeGetsCanonical == Spec => []TypesGetCanonical
  BY LateAlways, GetCanonical, PTL

-----------------------------------------------------------------------------
(* The hashes: H has that of each type that has a canonical type, or is     *)
(* about to.  A stack s of hashes being computed leads down from that type. *)
PartHashes(H, t) == [k \in DOMAIN Parts(t) |-> H[Parts(t)[k]]]
HashStack(H, s) ==
  /\ \A i \in DOMAIN s :
       /\ BeingCanonicalized(s[i].type)
       /\ Len(s[i].got) <= Len(Parts(s[i].type))
       /\ \A k \in 1 .. Len(s[i].got) : s[i].got[k] = H[Parts(s[i].type)[k]]
  /\ \A i \in 1 .. Len(s) - 1 :
       /\ Len(s[i + 1].got) < Len(Parts(s[i + 1].type))
       /\ s[i].type = Parts(s[i + 1].type)[Len(s[i + 1].got) + 1]
  /\ s # <<>> => s[Len(s)].type = job.type

MembersKeep(H) ==
  \A t \in DOMAIN memberHash :
    \A k \in DOMAIN memberHash[t] :
      memberHash[t][k] # <<>> => BeingCanonicalized(t) /\ memberHash[t][k] = <<H[Parts(t)[k]]>>

HashedBy(H) ==
  /\ \A t \in Type : BeingCanonicalized(t) => H[t] = HashOf(t, PartHashes(H, t))
  /\ \A i \in DOMAIN table : table[i].hash = H[table[i].type]
  /\ job # NoJob /\ hashing = <<>> => job.hash = H[job.type]
  /\ HashStack(H, hashing)
  /\ MembersKeep(H)

MembersInv ==
  /\ DOMAIN memberHash = {t \in Type : Kind(t) = "class"}
  /\ \A t \in DOMAIN memberHash : DOMAIN memberHash[t] = DOMAIN Parts(t)

SameHashInv ==
  /\ CollideIn(world) => job.hash = NoHash /\ \A i \in DOMAIN table : table[i].hash = NoHash
  /\ ~CollideIn(world) /\ Reader = "dwarf" => \E H : H = [t \in Type |-> H[t]] /\ HashedBy(H)

(* Types that are the same have one canonical type, and are said to be.     *)
Exact == AllDefined /\ (Reader = "dwarf" \/ CollideIn(world))
OneCanonical ==
  \A t, u \in Type : HasCanonical(t) /\ HasCanonical(u) /\ <<t, u>> \in Same => canonical[t] = canonical[u]
NotAgain(i) == i < job.tried \/ (i = job.tried /\ comparing = <<>> /\ answer # "yes")
CompleteInv ==
  Exact =>
    /\ OneCanonical
    /\ answer = "no" => Returned \notin Same
    /\ job # NoJob =>
         \A i \in DOMAIN table :
           table[i].hash = job.hash /\ NotAgain(i) => <<job.type, table[i].type>> \notin Same

(* A part has been hashed, on top of a stack or of the rest of one.         *)
LEMMA GotKeeps ==
    ASSUME StateInv, NEW I, NEW H, NEW s \in Seq(HashFrames(I)), s # <<>>, HashStack(H, s),
           Len(s[1].got) < Len(Parts(s[1].type)),
           NEW h \in I, h = H[Parts(s[1].type)[Len(s[1].got) + 1]]
    PROVE  HashStack(H, Got(s, h))
  <1>1. PICK g : g = Got(s, h)
    OBVIOUS
  <1>2. /\ g \in Seq(HashFrames(I)) /\ Len(g) = Len(s)
        /\ \A i \in 1 .. Len(s) : g[i].type = s[i].type
        /\ g[1].got = Append(s[1].got, h)
        /\ \A i \in 2 .. Len(s) : g[i] = s[i]
    <2>1. Got(s, h) \in Seq(HashFrames(I)) /\ Len(Got(s, h)) = Len(s)
      BY GotHash
    <2>2. \A i \in 1 .. Len(s) : Got(s, h)[i].type = s[i].type
      BY GotHash
    <2>3. Got(s, h)[1].got = Append(s[1].got, h)
      BY GotHash
    <2>4. \A i \in 2 .. Len(s) : Got(s, h)[i] = s[i]
      BY GotHash
    <2> QED
      BY <1>1, <2>1, <2>2, <2>3, <2>4
  <1>3. Len(s) \in Nat \ {0} /\ DOMAIN s = 1 .. Len(s) /\ DOMAIN g = 1 .. Len(s) /\ s[1] \in HashFrames(I)
    BY <1>2, Pop, LenProperties
  <1>4. /\ s[1].got \in Seq(I) /\ Len(s[1].got) \in Nat /\ Len(g[1].got) = Len(s[1].got) + 1
        /\ \A k \in 1 .. Len(s[1].got) : g[1].got[k] = s[1].got[k]
        /\ g[1].got[Len(s[1].got) + 1] = h
    <2>1. s[1].got \in Seq(I)
      BY <1>3 DEF HashFrames
    <2> QED
      BY <1>2, <2>1, AppendProperties, LenProperties
  <1>5. s[1].type \in Type /\ Len(Parts(s[1].type)) \in Nat
    BY <1>3, TypeFacts DEF HashFrames
  <1>6. ASSUME NEW i \in DOMAIN g
        PROVE  /\ BeingCanonicalized(g[i].type)
               /\ Len(g[i].got) <= Len(Parts(g[i].type))
               /\ \A k \in 1 .. Len(g[i].got) : g[i].got[k] = H[Parts(g[i].type)[k]]
    <2>1. CASE i = 1
      <3>1. ASSUME NEW k \in 1 .. Len(g[1].got)
            PROVE  g[1].got[k] = H[Parts(g[1].type)[k]]
        <4>1. k \in 1 .. Len(s[1].got) \/ k = Len(s[1].got) + 1
          BY <1>4
        <4>2. g[1].type = s[1].type
          BY <1>2, <1>3
        <4>3. 1 \in DOMAIN s
          BY <1>3
        <4>4. \A j \in 1 .. Len(s[1].got) : s[1].got[j] = H[Parts(s[1].type)[j]]
          BY <4>3 DEF HashStack
        <4> QED
          BY <1>4, <4>1, <4>2, <4>4
      <3>2. g[1].type = s[1].type /\ BeingCanonicalized(s[1].type)
        BY <1>2, <1>3 DEF HashStack
      <3> QED
        BY <1>4, <1>5, <2>1, <3>1, <3>2
    <2>2. CASE i # 1
      <3>1. i \in 2 .. Len(s) /\ i \in DOMAIN s
        BY <1>3, <2>2
      <3> QED
        BY <1>2, <3>1 DEF HashStack
    <2> QED
      BY <2>1, <2>2
  <1>7. ASSUME NEW i \in 1 .. Len(g) - 1
        PROVE  /\ Len(g[i + 1].got) < Len(Parts(g[i + 1].type))
               /\ g[i].type = Parts(g[i + 1].type)[Len(g[i + 1].got) + 1]
    <2>1. i + 1 \in 2 .. Len(s) /\ i \in 1 .. Len(s) - 1 /\ i \in 1 .. Len(s)
      BY <1>2, <1>3
    <2>2. g[i + 1] = s[i + 1] /\ g[i].type = s[i].type
      BY <1>2, <2>1
    <2> QED
      BY <2>1, <2>2 DEF HashStack
  <1>8. g[Len(g)].type = job.type
    BY <1>2, <1>3 DEF HashStack
  <1> QED
    BY <1>1, <1>6, <1>7, <1>8 DEF HashStack

(* What a data member keeps is the hash of its type.                        *)
OneKept(t, n, h) ==
  /\ DOMAIN memberHash' = DOMAIN memberHash
  /\ \A u \in DOMAIN memberHash :
       /\ DOMAIN memberHash'[u] = DOMAIN memberHash[u]
       /\ \A k \in DOMAIN memberHash[u] :
            memberHash'[u][k] = memberHash[u][k] \/ (u = t /\ k = n /\ memberHash'[u][k] = <<h>>)

LEMMA KeepPlace ==
    ASSUME NEW s, NEW h, memberHash' = Keep(s, h)
    PROVE  OneKept(s[1].type, Len(s[1].got) + 1, h)
  <1>1. PICK t : t = s[1].type
    OBVIOUS
  <1>2. PICK n : n = Len(s[1].got) + 1
    OBVIOUS
  <1>3. memberHash' = IF Kind(t) = "class" THEN [memberHash EXCEPT ![t][n] = <<h>>] ELSE memberHash
    BY <1>1, <1>2 DEF Keep
  <1>4. DOMAIN memberHash' = DOMAIN memberHash
    BY <1>3
  <1>5. ASSUME NEW u \in DOMAIN memberHash
        PROVE  DOMAIN memberHash'[u] = DOMAIN memberHash[u]
    BY <1>3
  <1>6. ASSUME NEW u \in DOMAIN memberHash, NEW k \in DOMAIN memberHash[u]
        PROVE  memberHash'[u][k] = memberHash[u][k] \/ (u = t /\ k = n /\ memberHash'[u][k] = <<h>>)
    BY <1>3
  <1> QED
    BY <1>1, <1>2, <1>4, <1>5, <1>6 DEF OneKept

LEMMA KeepKeeps ==
    ASSUME NEW H, NEW s, MembersKeep(H), BeingCanonicalized(s[1].type),
           NEW h, h = H[Parts(s[1].type)[Len(s[1].got) + 1]],
           memberHash' = Keep(s, h), UNCHANGED <<world, canonical>>, job'.type = job.type
    PROVE  MembersKeep(H)'
  <1>0. OneKept(s[1].type, Len(s[1].got) + 1, h)
    BY KeepPlace
  <1>1. \A u : (BeingCanonicalized(u)' <=> BeingCanonicalized(u)) /\ Parts(u)' = Parts(u)
    BY DEF BeingCanonicalized, HasCanonical, Parts
  <1>2. ASSUME NEW u \in DOMAIN memberHash', NEW k \in DOMAIN memberHash'[u], memberHash'[u][k] # <<>>
        PROVE  BeingCanonicalized(u)' /\ memberHash'[u][k] = <<H[Parts(u)'[k]]>>
    <2>1. u \in DOMAIN memberHash /\ k \in DOMAIN memberHash[u]
      BY <1>0, <1>2 DEF OneKept
    <2>2. CASE memberHash'[u][k] = memberHash[u][k]
      BY <1>1, <1>2, <2>1, <2>2 DEF MembersKeep
    <2>3. CASE u = s[1].type /\ k = Len(s[1].got) + 1 /\ memberHash'[u][k] = <<h>>
      BY <1>1, <2>3
    <2>4. \/ memberHash'[u][k] = memberHash[u][k]
          \/ u = s[1].type /\ k = Len(s[1].got) + 1 /\ memberHash'[u][k] = <<h>>
      BY <1>0, <2>1 DEF OneKept
    <2> QED
      BY <2>2, <2>3, <2>4
  <1> QED
    BY <1>2 DEF MembersKeep

LEMMA MembersStep ==
    ASSUME Inv, MembersInv, [Next]_vars
    PROVE  MembersInv'
  <1>1. world' = world
    BY StepKinds
  <1>2. \A t : Parts(t)' = Parts(t)
    BY <1>1 DEF Parts
  <1>3. memberHash' = memberHash \/ \E s, h : memberHash' = Keep(s, h)
    <2>1. CASE Compare
      BY <2>1, CompareStep DEF CompareOnly, hashVars
    <2> QED
      BY <2>1 DEF Next, Read, ReadRoot, BuildKnownPart, BuildClassInProgress, BuildPart, BuildDone,
         CanonicalizeLate, CorpusRead, Hash, HashKnownPart, HashPart, HashDone, LookUp, TryCandidate,
         TakeCandidate, LeaveCandidate, NewCanonical, Ask, vars, hashVars
  <1>4. ASSUME NEW s, NEW h, memberHash' = Keep(s, h)
        PROVE  DOMAIN memberHash' = DOMAIN memberHash /\ \A u \in DOMAIN memberHash : DOMAIN memberHash'[u] = DOMAIN memberHash[u]
    BY <1>4, KeepPlace DEF OneKept
  <1>5. DOMAIN memberHash' = DOMAIN memberHash /\ \A u \in DOMAIN memberHash : DOMAIN memberHash'[u] = DOMAIN memberHash[u]
    BY <1>3, <1>4
  <1> QED
    BY <1>2, <1>5 DEF MembersInv

(* Nothing that has a hash changes.                                         *)
LEMMA HashMeaningStays ==
    ASSUME UNCHANGED <<world, canonical>>, job'.type = job.type
    PROVE  /\ \A t : (BeingCanonicalized(t)' <=> BeingCanonicalized(t)) /\ Parts(t)' = Parts(t)
           /\ \A H, s : HashStack(H, s)' <=> HashStack(H, s)
           /\ \A H, t : PartHashes(H, t)' = PartHashes(H, t)
           /\ \A t, got : HashOf(t, got)' = HashOf(t, got)
  <1>1. \A t : (BeingCanonicalized(t)' <=> BeingCanonicalized(t)) /\ Parts(t)' = Parts(t)
    BY DEF BeingCanonicalized, HasCanonical, Parts
  <1>2. \A H, s : HashStack(H, s)' <=> HashStack(H, s)
    BY <1>1 DEF HashStack
  <1>3. \A H, t : PartHashes(H, t)' = PartHashes(H, t)
    BY <1>1 DEF PartHashes
  <1>4. \A t, got : HashOf(t, got)' = HashOf(t, got)
    BY DEF HashOf, Label, Layout
  <1> QED
    BY <1>1, <1>2, <1>3, <1>4

LEMMA HashedStep ==
    ASSUME UNCHANGED <<world, canonical, table>>, job'.type = job.type,
           NEW H, HashedBy(H), HashStack(H, hashing'), MembersKeep(H)',
           hashing' = <<>> => job' = NoJob \/ job'.hash = H[job.type]
    PROVE  HashedBy(H)'
  BY HashMeaningStays DEF HashedBy

LEMMA HashedStays ==
    ASSUME UNCHANGED <<world, canonical, table, hashing, memberHash>>,
           job'.type = job.type, job'.hash = job.hash, job = NoJob => job' = NoJob,
           NEW H, HashedBy(H)
    PROVE  HashedBy(H)'
  <1>1. MembersKeep(H)'
    BY HashMeaningStays DEF MembersKeep, HashedBy
  <1>2. HashStack(H, hashing') /\ (hashing' = <<>> => job' = NoJob \/ job'.hash = H[job.type])
    BY DEF HashedBy
  <1> QED
    BY <1>1, <1>2, HashedStep

(* The types whose hashes are computed have hashes, and none is there twice.*)
LEMMA NoZeroHash ==
    ASSUME Inv, GroundedInv, Reader = "dwarf", NEW H, HashedBy(H), HashLeft
    PROVE  /\ BeingCanonicalized(Hashing.type) /\ BeingCanonicalized(HashNext) /\ ~HashesToZero(HashNext)
           /\ Len(Hashing.got) + 1 \in DOMAIN Parts(Hashing.type)
  <1>1. PICK I : HashesFrom(I)
    BY DEF Inv, HashesInv
  <1>2. /\ StateInv /\ hashing # <<>> /\ hashing \in Seq(HashFrames(I)) /\ HashNext \in Type
        /\ Hashing = hashing[1] /\ Hashing.type \in Type /\ Hashing.got \in Seq(I)
    BY <1>1, HashingFacts DEF HashLeft, Inv, HashesFrom
  <1>3. DOMAIN hashing = 1 .. Len(hashing) /\ Len(hashing) \in Nat /\ 1 \in DOMAIN hashing
    BY <1>2, LenProperties, Pop
  <1>4. Len(Hashing.got) + 1 \in DOMAIN Parts(Hashing.type)
    <2>1. Len(Hashing.got) \in Nat
      BY <1>2, LenProperties
    <2> QED
      BY <1>2, <2>1, TypeFacts DEF HashLeft
  <1>5. BeingCanonicalized(Hashing.type)
    BY <1>2, <1>3 DEF HashedBy, HashStack
  <1>6. HasCanonical(HashNext) /\ ~Ungrounded(Hashing.type)
    BY <1>2, <1>4, <1>5 DEF GroundedInv, HasCanonicalParts, HashNext
  <1>7. Kind(HashNext) # "declaration"
    BY <1>2, <1>6 DEF Inv, CanonicalInv
  <1>8. ASSUME NEW i \in DOMAIN hashing, hashing[i].type = HashNext
        PROVE  FALSE
    <2> DEFINE s == [j \in DOMAIN hashing |-> hashing[j].type]
    <2>1. \A j \in 1 .. Len(hashing) : s[j] \in Type
      <3>1. \A j \in DOMAIN hashing : hashing[j] \in HashFrames(I)
        BY <1>2, <1>3, ElementOfSeq
      <3> QED
        BY <1>3, <3>1 DEF HashFrames
    <2>2. \A j \in 1 .. Len(hashing) - 1 : HasPartIn(s[j + 1], {s[j]})
      <3> TAKE j \in 1 .. Len(hashing) - 1
      <3>1. j + 1 \in DOMAIN hashing /\ j \in DOMAIN hashing
        BY <1>3
      <3>2. /\ Len(hashing[j + 1].got) < Len(Parts(hashing[j + 1].type))
            /\ hashing[j].type = Parts(hashing[j + 1].type)[Len(hashing[j + 1].got) + 1]
        BY DEF HashedBy, HashStack
      <3>3. hashing[j + 1] \in HashFrames(I)
        BY <1>2, <1>3, <3>1, ElementOfSeq
      <3>4. Len(hashing[j + 1].got) \in Nat /\ hashing[j + 1].type \in Type
        BY <3>3, LenProperties DEF HashFrames
      <3>5. Len(hashing[j + 1].got) + 1 \in DOMAIN Parts(hashing[j + 1].type)
        BY <1>2, <3>2, <3>4, TypeFacts
      <3> QED
        BY <3>1, <3>2, <3>5 DEF HasPartIn
    <2>3. HasPartIn(s[1], {s[i]})
      <3>1. s[1] = Hashing.type /\ s[i] = HashNext
        BY <1>2, <1>3, <1>8
      <3> QED
        BY <1>4, <3>1 DEF HasPartIn, HashNext
    <2>4. Ungrounded(s[1])
      <3>1. i \in 1 .. Len(hashing)
        BY <1>3
      <3> HIDE DEF s
      <3> QED
        BY <1>2, <1>3, <2>1, <2>2, <2>3, <3>1, RoundTrip
    <2> QED
      BY <1>2, <1>3, <1>6, <2>4
  <1> QED
    BY <1>4, <1>5, <1>6, <1>7, <1>8 DEF HashesToZero, BeingCanonicalized

(* A hash that is complete is that of the type.                             *)
LEMMA TopHash ==
    ASSUME Inv, hashing # <<>>, ~HashLeft, NEW H, HashedBy(H)
    PROVE  HashOf(Hashing.type, Hashing.got) = H[Hashing.type]
  <1>1. PICK I : HashesFrom(I)
    BY DEF Inv, HashesInv
  <1>2. /\ StateInv /\ hashing \in Seq(HashFrames(I))
        /\ Hashing = hashing[1] /\ Hashing.type \in Type /\ Hashing.got \in Seq(I)
    BY <1>1, HashingFacts DEF Inv, HashesFrom
  <1>3. 1 \in DOMAIN hashing
    BY <1>2, Pop, LenProperties
  <1>4. /\ BeingCanonicalized(Hashing.type)
        /\ Len(Hashing.got) <= Len(Parts(Hashing.type))
        /\ \A k \in 1 .. Len(Hashing.got) : Hashing.got[k] = H[Parts(Hashing.type)[k]]
    BY <1>2, <1>3 DEF HashedBy, HashStack
  <1>5. Hashing.got = PartHashes(H, Hashing.type)
    <2>1. /\ Len(Hashing.got) \in Nat /\ DOMAIN Hashing.got = 1 .. Len(Hashing.got)
          /\ Hashing.got = [k \in DOMAIN Hashing.got |-> Hashing.got[k]]
      BY <1>2, LenProperties
    <2>2. Len(Hashing.got) = Len(Parts(Hashing.type)) /\ DOMAIN Parts(Hashing.type) = 1 .. Len(Parts(Hashing.type))
      BY <1>2, <1>4, <2>1, TypeFacts DEF HashLeft
    <2> QED
      BY <1>4, <2>1, <2>2 DEF PartHashes
  <1> QED
    BY <1>2, <1>4, <1>5 DEF HashedBy

LEMMA HashPartHashed ==
    ASSUME Inv, GroundedInv, Reader = "dwarf", MembersInv, NEW H, HashedBy(H),
           HashKnownPart \/ HashPart
    PROVE  HashedBy(H)'
  <1>1. PICK I : HashesFrom(I)
    BY DEF Inv, HashesInv
  <1>2. /\ StateInv /\ hashing \in Seq(HashFrames(I)) /\ HashLeft /\ hashing # <<>>
        /\ Hashing = hashing[1] /\ Hashing.type \in Type /\ Hashing.got \in Seq(I) /\ HashNext \in Type
        /\ UNCHANGED <<world, canonical, table, job>>
    <2>1. HashLeft /\ hashing # <<>> /\ UNCHANGED <<world, canonical, table, job>>
      BY DEF HashKnownPart, HashPart, HashLeft, readVars
    <2> QED
      BY <1>1, <2>1, HashingFacts DEF Inv, HashesFrom
  <1>3. /\ BeingCanonicalized(Hashing.type) /\ BeingCanonicalized(HashNext) /\ ~HashesToZero(HashNext)
        /\ Len(Hashing.got) + 1 \in DOMAIN Parts(Hashing.type)
        /\ HashNext = Parts(Hashing.type)[Len(Hashing.got) + 1]
        /\ HashStack(H, hashing) /\ MembersKeep(H)
    BY <1>2, NoZeroHash DEF HashNext, HashedBy
  <1>4. CASE HashKnownPart
    <2>1. Kept # <<>> /\ hashing' = Got(hashing, Kept[1]) /\ UNCHANGED memberHash
      BY <1>3, <1>4 DEF HashKnownPart
    <2>2. /\ Kind(Hashing.type) = "class"
          /\ Kept = memberHash[Hashing.type][Len(Hashing.got) + 1]
      BY <2>1 DEF Kept
    <2>3. Kept[1] = H[HashNext]
      BY <1>2, <1>3, <2>1, <2>2 DEF MembersInv, MembersKeep
    <2>4. PICK h : h = Kept[1]
      OBVIOUS
    <2>5. HashesFrom(I \cup {h})
      BY <1>1, MoreHashes
    <2>6. PICK J : J = I \cup {h}
      OBVIOUS
    <2>7. hashing \in Seq(HashFrames(J)) /\ h \in J
      BY <2>5, <2>6 DEF HashesFrom
    <2>8. Len(hashing[1].got) < Len(Parts(hashing[1].type)) /\ h = H[Parts(hashing[1].type)[Len(hashing[1].got) + 1]]
      BY <1>2, <1>3, <2>3, <2>4 DEF HashLeft
    <2>9. HashStack(H, Got(hashing, h))
      BY <1>2, <1>3, <2>7, <2>8, GotKeeps
    <2>10. HashStack(H, hashing') /\ hashing' # <<>>
      <3>1. Got(hashing, h) # <<>>
        <4>1. Got(hashing, h) \in Seq(HashFrames(J)) /\ Len(Got(hashing, h)) = Len(hashing)
          BY <1>2, <2>7, GotHash
        <4>2. Len(hashing) # 0
          BY <1>2, EmptySeq
        <4> QED
          BY <4>1, <4>2, EmptySeq
      <3> QED
        BY <2>1, <2>4, <2>9, <3>1
    <2>11. MembersKeep(H)'
      BY <1>2, <1>3, <2>1, HashMeaningStays DEF MembersKeep
    <2> QED
      BY <1>2, <2>10, <2>11, HashedStep
  <1>5. CASE HashPart
    <2>1. hashing' = <<HashFrame(HashNext)>> \o hashing /\ UNCHANGED memberHash
      BY <1>5 DEF HashPart
    <2>2. PICK f : f = HashFrame(HashNext)
      OBVIOUS
    <2>3. f \in HashFrames(I) /\ f.type = HashNext /\ f.got = <<>>
      BY <1>2, <2>2 DEF HashFrame, HashFrames
    <2>4. PICK g : g = <<f>> \o hashing
      OBVIOUS
    <2>5. /\ g \in Seq(HashFrames(I)) /\ Len(g) = Len(hashing) + 1 /\ g[1] = f
          /\ \A i \in 1 .. Len(hashing) : g[i + 1] = hashing[i]
      BY <1>2, <2>3, <2>4, Push
    <2>6. /\ Len(hashing) \in Nat \ {0} /\ DOMAIN hashing = 1 .. Len(hashing) /\ DOMAIN g = 1 .. Len(hashing) + 1
      BY <1>2, <2>5, Pop, LenProperties
    <2>7. \A i \in DOMAIN g : i # 1 => i - 1 \in DOMAIN hashing /\ g[i] = hashing[i - 1]
      <3> TAKE i \in DOMAIN g
      <3> HAVE i # 1
      <3>1. i - 1 \in 1 .. Len(hashing) /\ (i - 1) + 1 = i
        BY <2>6
      <3> QED
        BY <2>5, <2>6, <3>1
    <2>8. ASSUME NEW i \in DOMAIN g
          PROVE  /\ BeingCanonicalized(g[i].type)
                 /\ Len(g[i].got) <= Len(Parts(g[i].type))
                 /\ \A k \in 1 .. Len(g[i].got) : g[i].got[k] = H[Parts(g[i].type)[k]]
      <3>1. CASE i = 1
        <4>1. Len(<<>>) = 0 /\ Len(Parts(HashNext)) \in Nat
          BY <1>2, TypeFacts
        <4> QED
          BY <1>3, <2>3, <2>5, <3>1, <4>1
      <3>2. CASE i # 1
        BY <1>3, <2>7, <3>2 DEF HashStack
      <3> QED
        BY <3>1, <3>2
    <2>9. ASSUME NEW i \in 1 .. Len(g) - 1
          PROVE  /\ Len(g[i + 1].got) < Len(Parts(g[i + 1].type))
                 /\ g[i].type = Parts(g[i + 1].type)[Len(g[i + 1].got) + 1]
      <3>1. i \in 1 .. Len(hashing) /\ g[i + 1] = hashing[i]
        BY <2>5, <2>6
      <3>2. CASE i = 1
        BY <1>2, <1>3, <2>3, <2>5, <3>1, <3>2 DEF HashLeft
      <3>3. CASE i # 1
        <4>1. i - 1 \in 1 .. Len(hashing) - 1 /\ (i - 1) + 1 = i /\ i \in DOMAIN g
          BY <2>5, <2>6, <3>3
        <4>2. g[i] = hashing[i - 1]
          BY <2>7, <3>3, <4>1
        <4>3. /\ Len(hashing[i].got) < Len(Parts(hashing[i].type))
              /\ hashing[i - 1].type = Parts(hashing[i].type)[Len(hashing[i].got) + 1]
          BY <1>3, <4>1 DEF HashStack
        <4> QED
          BY <3>1, <4>2, <4>3
      <3> QED
        BY <3>2, <3>3
    <2>10. g # <<>> /\ g[Len(g)].type = job.type
      BY <1>2, <1>3, <2>5, <2>6 DEF HashStack
    <2>11. HashStack(H, g)
      BY <2>8, <2>9, <2>10 DEF HashStack
    <2>12. MembersKeep(H)'
      BY <1>2, <1>3, <2>1, HashMeaningStays DEF MembersKeep
    <2> QED
      BY <1>2, <2>1, <2>2, <2>4, <2>10, <2>11, <2>12, HashedStep
  <1> QED
    BY <1>4, <1>5

LEMMA HashDoneHashed ==
    ASSUME Inv, NEW H, HashedBy(H), HashDone
    PROVE  HashedBy(H)'
  <1>1. PICK I : HashesFrom(I)
    BY DEF Inv, HashesInv
  <1>2. /\ StateInv /\ hashing \in Seq(HashFrames(I)) /\ ~HashLeft /\ hashing # <<>> /\ job \in Jobs(I)
        /\ Hashing = hashing[1] /\ UNCHANGED <<world, canonical, table>>
    BY <1>1, HashingFacts DEF Inv, HashesFrom, HashDone, readVars
  <1>3. PICK h : h = HashOf(Hashing.type, Hashing.got)
    OBVIOUS
  <1>4. h = H[Hashing.type] /\ HashStack(H, hashing) /\ MembersKeep(H)
    BY <1>2, <1>3, TopHash DEF HashedBy
  <1>5. PICK s : s = Tail(hashing)
    OBVIOUS
  <1>6. /\ Len(hashing) \in Nat \ {0} /\ s \in Seq(HashFrames(I)) /\ Len(s) = Len(hashing) - 1
        /\ \A i \in 1 .. Len(hashing) - 1 : s[i] = hashing[i + 1]
    BY <1>2, <1>5, Pop
  <1>7. DOMAIN hashing = 1 .. Len(hashing) /\ DOMAIN s = 1 .. Len(hashing) - 1
    BY <1>2, <1>6, LenProperties
  <1>8. CASE Len(hashing) > 1
    <2>1. hashing' = Got(s, h) /\ memberHash' = Keep(s, h) /\ UNCHANGED job
      BY <1>3, <1>5, <1>8 DEF HashDone
    <2>2. s # <<>> /\ s[1] = hashing[2] /\ 1 \in DOMAIN s /\ Len(s) # 0
      <3>1. Len(s) # 0 /\ 1 \in 1 .. Len(hashing) - 1
        BY <1>6, <1>8
      <3> QED
        BY <1>6, <1>7, <3>1, EmptySeq
    <2>3. \A i \in DOMAIN s : i + 1 \in DOMAIN hashing /\ s[i] = hashing[i + 1]
      BY <1>6, <1>7
    <2>4. HashStack(H, s)
      <3>1. ASSUME NEW i \in DOMAIN s
            PROVE  /\ BeingCanonicalized(s[i].type)
                   /\ Len(s[i].got) <= Len(Parts(s[i].type))
                   /\ \A k \in 1 .. Len(s[i].got) : s[i].got[k] = H[Parts(s[i].type)[k]]
        BY <1>4, <2>3 DEF HashStack
      <3>2. ASSUME NEW i \in 1 .. Len(s) - 1
            PROVE  /\ Len(s[i + 1].got) < Len(Parts(s[i + 1].type))
                   /\ s[i].type = Parts(s[i + 1].type)[Len(s[i + 1].got) + 1]
        <4>1. i \in DOMAIN s /\ i + 1 \in DOMAIN s /\ i + 1 \in 1 .. Len(hashing) - 1
          BY <1>6, <1>7
        <4>2. s[i] = hashing[i + 1] /\ s[i + 1] = hashing[(i + 1) + 1]
          BY <2>3, <4>1
        <4> QED
          BY <1>4, <4>1, <4>2 DEF HashStack
      <3>3. s[Len(s)].type = job.type
        <4>1. Len(s) \in DOMAIN s /\ Len(s) + 1 = Len(hashing)
          BY <1>6, <1>7, <1>8
        <4> QED
          BY <1>2, <1>4, <2>3, <4>1 DEF HashStack
      <3> QED
        BY <3>1, <3>2, <3>3 DEF HashStack
    <2>5. /\ Len(s[1].got) < Len(Parts(s[1].type))
          /\ Hashing.type = Parts(s[1].type)[Len(s[1].got) + 1]
      BY <1>2, <1>4, <1>6, <1>8, <2>2, 1 \in 1 .. Len(hashing) - 1, 1 + 1 = 2 DEF HashStack
    <2>6. h = H[Parts(s[1].type)[Len(s[1].got) + 1]]
      BY <1>4, <2>5
    <2>7. PICK J : J = I \cup {h}
      OBVIOUS
    <2>8. s \in Seq(HashFrames(J)) /\ h \in J
      <3>1. HashFrames(I) \subseteq HashFrames(J)
        <4>1. Seq(I) \subseteq Seq(J)
          BY <2>7, SeqOfMore
        <4> QED
          BY <4>1 DEF HashFrames
      <3> QED
        BY <1>6, <2>7, <3>1, SeqOfMore
    <2>9. HashStack(H, Got(s, h))
      BY <1>2, <2>2, <2>4, <2>5, <2>6, <2>8, GotKeeps
    <2>10. Got(s, h) # <<>>
      <3>1. Got(s, h) \in Seq(HashFrames(J)) /\ Len(Got(s, h)) = Len(s)
        BY <2>2, <2>8, GotHash
      <3> QED
        BY <2>2, <3>1, EmptySeq
    <2>11. BeingCanonicalized(s[1].type)
      BY <2>2, <2>4 DEF HashStack
    <2>12. MembersKeep(H)'
      BY <1>2, <1>4, <2>1, <2>6, <2>11, KeepKeeps
    <2> QED
      BY <1>2, <2>1, <2>9, <2>10, <2>12, HashedStep
  <1>9. CASE Len(hashing) = 1
    <2>1. hashing' = <<>> /\ job' = [job EXCEPT !.hash = h] /\ UNCHANGED memberHash
      BY <1>3, <1>9 DEF HashDone
    <2>2. job'.type = job.type /\ job'.hash = h
      BY <1>2, <2>1 DEF Jobs
    <2>3. Hashing.type = job.type
      BY <1>2, <1>4, <1>9 DEF HashStack
    <2>4. HashStack(H, <<>>)
      BY DEF HashStack
    <2>5. MembersKeep(H)'
      BY <1>2, <1>4, <2>1, <2>2, HashMeaningStays DEF MembersKeep
    <2> QED
      BY <1>2, <1>4, <2>1, <2>2, <2>3, <2>4, <2>5, HashedStep
  <1> QED
    BY <1>6, <1>8, <1>9

LEMMA CollideStep ==
    ASSUME Inv, [Next]_vars, CollideIn(world), job.hash = NoHash,
           \A i \in DOMAIN table : table[i].hash = NoHash
    PROVE  job'.hash = NoHash /\ \A i \in DOMAIN table' : table'[i].hash = NoHash
  <1>1. PICK I : job \in Jobs(I) /\ table \in Seq(Entries(I))
    BY DEF Inv, HashesInv, HashesFrom
  <1>2. NoJob.hash = NoHash /\ \A t : Job(t, NoHash, 0).hash = NoHash
    BY DEF NoJob, Job
  <1>3. CASE Read
    <2>1. UNCHANGED table
      BY <1>3, ReadIsIdle
    <2>2. job' = job \/ \E t : Canonicalize(t)
      BY <1>3, ReadStarts DEF Starts
    <2> QED
      BY <1>2, <2>1, <2>2 DEF Canonicalize
  <1>4. CASE Hash
    <2>1. UNCHANGED table
      BY <1>4 DEF Hash, HashKnownPart, HashPart, HashDone
    <2>2. CASE UNCHANGED job
      BY <2>1, <2>2
    <2>3. CASE ~UNCHANGED job
      <3>1. job' = [job EXCEPT !.hash = HashOf(Hashing.type, Hashing.got)]
        BY <1>4, <2>3 DEF Hash, HashKnownPart, HashPart, HashDone
      <3>2. HashOf(Hashing.type, Hashing.got) = NoHash
        BY DEF HashOf
      <3> QED
        BY <1>1, <2>1, <3>1, <3>2 DEF Jobs
    <2> QED
      BY <2>2, <2>3
  <1>5. CASE TryCandidate
    <2>1. PICK i : job' = [job EXCEPT !.tried = i]
      BY <1>5 DEF TryCandidate
    <2> QED
      BY <1>1, <1>5, <2>1 DEF Jobs, TryCandidate
  <1>6. CASE NewCanonical
    <2>1. /\ job # NoJob /\ job' = NoJob
          /\ table' = Append(table, [type |-> job.type, hash |-> job.hash])
      BY <1>6 DEF NewCanonical, Trying
    <2>2. PICK e : e = [type |-> job.type, hash |-> job.hash]
      OBVIOUS
    <2>3. e \in Entries(I) /\ e.hash = NoHash
      BY <1>1, <2>1, <2>2, JobFacts DEF Jobs, Entries
    <2>4. /\ table' \in Seq(Entries(I)) /\ Len(table') = Len(table) + 1
          /\ \A i \in 1 .. Len(table) : table'[i] = table[i]
          /\ table'[Len(table) + 1] = e
      BY <1>1, <2>1, <2>2, <2>3, AppendProperties
    <2>5. DOMAIN table = 1 .. Len(table) /\ Len(table) \in Nat /\ DOMAIN table' = 1 .. Len(table) + 1
      BY <1>1, <2>4, LenProperties
    <2>6. \A i \in DOMAIN table' : i \in DOMAIN table \/ i = Len(table) + 1
      BY <2>5
    <2> QED
      BY <1>2, <2>1, <2>3, <2>4, <2>5, <2>6
  <1>7. CASE TakeCandidate \/ LeaveCandidate \/ Ask \/ UNCHANGED vars
    BY <1>2, <1>7 DEF TakeCandidate, LeaveCandidate, Ask, vars
  <1>8. CASE Compare
    BY <1>8, CompareStep DEF CompareOnly
  <1> QED
    BY <1>3, <1>4, <1>5, <1>6, <1>7, <1>8 DEF Next, LookUp

(* A type that is about to be canonicalized gets a hash of its own.         *)
LEMMA StartHashed ==
    ASSUME Inv, GroundedInv, Reader = "dwarf", MembersInv, NEW t \in Type, Starts(t),
           NEW H, H = [u \in Type |-> H[u]], HashedBy(H)
    PROVE  \E K : K = [u \in Type |-> K[u]] /\ HashedBy(K)'
  <1>1. /\ StateInv /\ job = NoJob /\ HasCanonicalParts(t) /\ Read
        /\ UNCHANGED <<world, canonical, table, memberHash>>
        /\ job' = Job(t, NoHash, 0) /\ hashing' = <<HashFrame(t)>>
    BY ReadIsIdle DEF Starts, Canonicalize, Inv
  <1>2. job.type = NoType /\ job'.type = t /\ NoType \notin Type /\ job' # NoJob
    BY <1>1, TypesAssumption DEF NoJob, Job
  <1>3. ~HasCanonical(t)
    <2>1. TurnsInv'
      BY <1>1, InvInductive DEF Inv, Next
    <2>2. ~HasCanonical(job.type)'
      BY <1>2, <2>1 DEF TurnsInv
    <2> QED
      BY <1>1, <1>2, <2>2 DEF HasCanonical
  <1>4. \A u \in Type : /\ BeingCanonicalized(u) <=> HasCanonical(u)
                        /\ BeingCanonicalized(u)' <=> HasCanonical(u) \/ u = t
    BY <1>1, <1>2 DEF BeingCanonicalized, HasCanonical
  <1>5. PICK h : h = HashOf(t, PartHashes(H, t))
    OBVIOUS
  <1>6. PICK K : K = [u \in Type |-> IF u = t THEN h ELSE H[u]]
    OBVIOUS
  <1>7. K[t] = h /\ \A u \in Type : u # t => K[u] = H[u]
    BY <1>6
  <1>8. \A u : Parts(u)' = Parts(u)
    BY <1>1 DEF Parts
  <1>9. ASSUME NEW u \in Type, HasCanonicalParts(u)
        PROVE  /\ \A k \in DOMAIN Parts(u) : K[Parts(u)[k]] = H[Parts(u)[k]]
               /\ PartHashes(K, u) = PartHashes(H, u)
    <2>1. \A k \in DOMAIN Parts(u) : K[Parts(u)[k]] = H[Parts(u)[k]]
      BY <1>1, <1>3, <1>7, <1>9, TypeFacts DEF HasCanonicalParts
    <2> QED
      BY <2>1 DEF PartHashes
  <1>10. \A u \in Type : BeingCanonicalized(u) => HasCanonicalParts(u) /\ u # t
    BY <1>3, <1>4 DEF GroundedInv
  <1>11. ASSUME NEW u \in Type, BeingCanonicalized(u)'
         PROVE  K[u] = HashOf(u, PartHashes(K, u))'
    <2>1. HashOf(u, PartHashes(K, u))' = HashOf(u, PartHashes(K, u))
      BY <1>1, <1>8 DEF HashOf, PartHashes, Label, Layout
    <2>2. CASE u = t
      BY <1>1, <1>5, <1>7, <1>9, <2>1, <2>2
    <2>3. CASE u # t
      <3>1. BeingCanonicalized(u) /\ HasCanonicalParts(u)
        BY <1>4, <1>10, <1>11, <2>3
      <3>2. H[u] = HashOf(u, PartHashes(H, u))
        BY <3>1 DEF HashedBy
      <3> QED
        BY <1>7, <1>9, <2>1, <2>3, <3>1, <3>2
    <2> QED
      BY <2>2, <2>3
  <1>12. \A i \in DOMAIN table' : table'[i].hash = K[table'[i].type]
    <2>1. \A i \in DOMAIN table : table[i].type \in Type /\ table[i].type # t
      BY <1>3, TableTypes
    <2> QED
      BY <1>1, <1>7, <2>1 DEF HashedBy
  <1>13. HashStack(K, hashing)'
    <2>1. PICK f : f = HashFrame(t)
      OBVIOUS
    <2>2. f.type = t /\ f.got = <<>>
      BY <2>1 DEF HashFrame
    <2>3. hashing' = <<f>> /\ Len(<<f>>) = 1 /\ DOMAIN <<f>> = 1 .. 1 /\ <<f>>[1] = f /\ Len(<<>>) = 0
      BY <1>1, <2>1
    <2>4. Len(Parts(t)) \in Nat /\ BeingCanonicalized(t)'
      BY <1>1, <1>4, TypeFacts
    <2>5. \A i \in DOMAIN hashing' : hashing'[i] = f
      BY <2>3
    <2>6. Len(hashing') = 1 /\ hashing'[Len(hashing')].type = t
      BY <2>2, <2>3
    <2> QED
      BY <1>2, <1>8, <2>2, <2>3, <2>4, <2>5, <2>6 DEF HashStack
  <1>14. MembersKeep(K)'
    <2>1. ASSUME NEW u \in DOMAIN memberHash, NEW k \in DOMAIN memberHash[u], memberHash[u][k] # <<>>
          PROVE  BeingCanonicalized(u)' /\ memberHash[u][k] = <<K[Parts(u)[k]]>>
      <3>1. u \in Type /\ k \in DOMAIN Parts(u)
        BY DEF MembersInv
      <3>2. BeingCanonicalized(u) /\ memberHash[u][k] = <<H[Parts(u)[k]]>>
        BY <2>1 DEF HashedBy, MembersKeep
      <3>3. HasCanonicalParts(u) /\ BeingCanonicalized(u)'
        BY <1>4, <1>10, <3>1, <3>2
      <3> QED
        BY <1>9, <3>1, <3>2, <3>3
    <2> QED
      BY <1>1, <1>8, <2>1 DEF MembersKeep
  <1>15. hashing' # <<>>
    BY <1>1
  <1>16. HashedBy(K)'
    BY <1>11, <1>12, <1>13, <1>14, <1>15 DEF HashedBy
  <1>17. K = [u \in Type |-> K[u]]
    BY <1>6
  <1> QED
    BY <1>16, <1>17

LEMMA GetsHashed ==
    ASSUME Inv, MembersInv, TakeCandidate \/ NewCanonical, NEW H, HashedBy(H)
    PROVE  HashedBy(H)'
  <1>1. /\ job # NoJob /\ hashing = <<>> /\ comparing = <<>> /\ job' = NoJob
        /\ UNCHANGED <<world, hashing, memberHash>>
    BY DEF TakeCandidate, NewCanonical, Trying, readVars, hashVars
  <1>2. job.type \in Type /\ ~HasCanonical(job.type)
    BY <1>1, JobFacts
  <1>3. \A u \in Type : BeingCanonicalized(u)' <=> BeingCanonicalized(u)
    <2>1. ~\E t \in Type : Starts(t)
      BY <1>1, ReadIsIdle DEF Starts, Idle
    <2> QED
      BY <2>1, CanonicalizedBy DEF Next, LookUp
  <1>4. /\ \A u : Parts(u)' = Parts(u)
        /\ \A u, got : HashOf(u, got)' = HashOf(u, got)
        /\ \A u : PartHashes(H, u)' = PartHashes(H, u)
    <2>1. \A u : Parts(u)' = Parts(u)
      BY <1>1 DEF Parts
    <2> QED
      BY <1>1, <2>1 DEF HashOf, Label, Layout, PartHashes
  <1>5. \A i \in DOMAIN table' : table'[i].hash = H[table'[i].type]
    <2>1. CASE TakeCandidate
      BY <2>1 DEF TakeCandidate, HashedBy
    <2>2. CASE NewCanonical
      <3>1. PICK I : job \in Jobs(I) /\ table \in Seq(Entries(I))
        BY DEF Inv, HashesInv, HashesFrom
      <3>2. PICK e : e = [type |-> job.type, hash |-> job.hash]
        OBVIOUS
      <3>3. e \in Entries(I) /\ e.hash = H[e.type] /\ table' = Append(table, e)
        BY <1>1, <1>2, <2>2, <3>1, <3>2 DEF Jobs, Entries, HashedBy, NewCanonical
      <3>4. /\ table' \in Seq(Entries(I)) /\ Len(table') = Len(table) + 1
            /\ \A i \in 1 .. Len(table) : table'[i] = table[i]
            /\ table'[Len(table) + 1] = e
        BY <3>1, <3>3, AppendProperties
      <3>5. DOMAIN table = 1 .. Len(table) /\ Len(table) \in Nat /\ DOMAIN table' = 1 .. Len(table) + 1
        BY <3>1, <3>4, LenProperties
      <3>6. \A i \in DOMAIN table' : i \in DOMAIN table \/ i = Len(table) + 1
        BY <3>5
      <3> QED
        BY <3>3, <3>4, <3>5, <3>6 DEF HashedBy
    <2> QED
      BY <2>1, <2>2
  <1>6. HashStack(H, hashing)'
    BY <1>1 DEF HashStack
  <1>7. MembersKeep(H)'
    BY <1>1, <1>3, <1>4 DEF MembersKeep, HashedBy, MembersInv
  <1> QED
    BY <1>1, <1>3, <1>4, <1>5, <1>6, <1>7 DEF HashedBy

LEMMA SameHashStep ==
    ASSUME Inv, GroundedInv, MembersInv, SameHashInv, [Next]_vars
    PROVE  SameHashInv'
  <1>1. world' = world
    BY StepKinds
  <1>2. ASSUME CollideIn(world)
        PROVE  job'.hash = NoHash /\ \A i \in DOMAIN table' : table'[i].hash = NoHash
    BY <1>2, CollideStep DEF SameHashInv
  <1>3. ASSUME ~CollideIn(world), Reader = "dwarf"
        PROVE  \E H : H = [t \in Type |-> H[t]] /\ HashedBy(H)'
    <2>1. PICK H : H = [t \in Type |-> H[t]] /\ HashedBy(H)
      BY <1>3 DEF SameHashInv
    <2>2. CASE Read
      <3>1. CASE \E t \in Type : Starts(t)
        BY <1>3, <2>1, <3>1, StartHashed
      <3>2. CASE UNCHANGED <<job, hashing>>
        <4>1. UNCHANGED <<world, canonical, table, hashing, memberHash>>
          BY <2>2, <3>2, ReadIsIdle
        <4>2. HashedBy(H)'
          BY <2>1, <3>2, <4>1, HashedStays
        <4> QED
          BY <2>1, <4>2
      <3> QED
        BY <2>2, <3>1, <3>2, ReadStarts
    <2>3. CASE Hash
      BY <1>3, <2>1, <2>3, HashPartHashed, HashDoneHashed DEF Hash
    <2>4. CASE TryCandidate
      <3>1. PICK I : job \in Jobs(I)
        BY DEF Inv, HashesInv, HashesFrom
      <3>2. PICK i : job' = [job EXCEPT !.tried = i]
        BY <2>4 DEF TryCandidate
      <3>3. job'.type = job.type /\ job'.hash = job.hash /\ job # NoJob
        BY <2>4, <3>1, <3>2 DEF Jobs, TryCandidate, Trying
      <3>4. UNCHANGED <<world, canonical, table, hashing, memberHash>>
        BY <2>4 DEF TryCandidate, readVars, hashVars
      <3>5. HashedBy(H)'
        BY <2>1, <3>3, <3>4, HashedStays
      <3> QED
        BY <2>1, <3>5
    <2>5. CASE TakeCandidate \/ NewCanonical
      BY <2>1, <2>5, GetsHashed
    <2>6. CASE LeaveCandidate \/ Ask \/ Compare \/ UNCHANGED vars
      <3>1. UNCHANGED <<world, canonical, table, hashing, memberHash, job>>
        <4>1. CASE Compare
          BY <4>1, CompareStep DEF CompareOnly, readVars, hashVars
        <4> QED
          BY <2>6, <4>1 DEF LeaveCandidate, Ask, vars, readVars, hashVars
      <3>2. HashedBy(H)'
        BY <2>1, <3>1, HashedStays
      <3> QED
        BY <2>1, <3>2
    <2> QED
      BY <2>2, <2>3, <2>4, <2>5, <2>6 DEF Next, LookUp
  <1>4. (CollideIn(world)' <=> CollideIn(world)) /\ Reader' = Reader
    BY <1>1 DEF Reader
  <1> QED
    BY <1>2, <1>3, <1>4 DEF SameHashInv

(* Types that are the same have the same hash, if hashing has an end.       *)
LEMMA SameHash ==
    ASSUME Inv, GroundedInv, Reader = "dwarf", NEW H, HashedBy(H),
           NEW t \in Type, NEW u \in Type, BeingCanonicalized(t), BeingCanonicalized(u), <<t, u>> \in Same
    PROVE  H[t] = H[u]
  <1> DEFINE Differ(x, y) == H[x] # H[y] \/ Name(x) # Name(y)
             S == {x \in Type : /\ BeingCanonicalized(x)
                                /\ \E y \in Type : /\ BeingCanonicalized(y) /\ <<x, y>> \in Same
                                                   /\ Differ(x, y)}
  <1>1. ASSUME NEW x \in Type, BeingCanonicalized(x)
        PROVE  /\ Kind(x) \in {"class", "other"} /\ HasCanonicalParts(x)
               /\ \A k \in DOMAIN Parts(x) : BeingCanonicalized(Parts(x)[k]) /\ Parts(x)[k] \in Type
    <2>1. Kind(x) # "declaration"
      <3>1. CASE HasCanonical(x)
        BY <3>1 DEF Inv, CanonicalInv
      <3>2. CASE x = job.type
        BY <3>2, TypesAssumption DEF Inv, TurnsInv, NoJob, Job
      <3> QED
        BY <1>1, <3>1, <3>2 DEF BeingCanonicalized
    <2>2. HasCanonicalParts(x)
      BY <1>1 DEF GroundedInv
    <2> QED
      BY <2>1, <2>2, TypeFacts DEF HasCanonicalParts, BeingCanonicalized, Inv, Kinds
  <1>2. ASSUME NEW x \in S
        PROVE  HasPartIn(x, S)
    <2>1. PICK y \in Type : BeingCanonicalized(y) /\ <<x, y>> \in Same /\ Differ(x, y)
      BY <1>2
    <2>2. x \in Type /\ BeingCanonicalized(x) /\ StateInv
      BY <1>2 DEF Inv
    <2>3. Alike(x, y) /\ PartPairs(<<x, y>>) \subseteq Same
      BY <2>1, SameIsBisimulation DEF Bisimulation
    <2>4. /\ Kind(x) = Kind(y) /\ Label(x) = Label(y) /\ Layout(x) = Layout(y)
          /\ DOMAIN Parts(x) = DOMAIN Parts(y) /\ Len(Parts(x)) = Len(Parts(y))
          /\ \A k \in DOMAIN Parts(x) : <<Parts(x)[k], Parts(y)[k]>> \in Same
      BY <2>1, <2>2, <2>3, PartsOfPair DEF Alike
    <2> SUFFICES ASSUME ~HasPartIn(x, S)
                 PROVE  FALSE
      OBVIOUS
    <2>5. \A k \in DOMAIN Parts(x) : ~Differ(Parts(x)[k], Parts(y)[k])
      BY <1>1, <2>1, <2>2, <2>4 DEF HasPartIn
    <2>6. Name(x) = Name(y)
      <3>1. LabelIn(world, x) = LabelIn(world, y) /\ Len(PartsIn(world, x)) = Len(PartsIn(world, y)) /\ world \in Worlds
        BY <2>2, <2>4 DEF Label, Parts, StateInv
      <3>2. \A k \in DOMAIN PartsIn(world, x) : Name(PartsIn(world, x)[k]) = Name(PartsIn(world, y)[k])
        BY <2>5 DEF Parts
      <3>3. (Kind(x) = "class" /\ Kind(y) = "class") \/ (Kind(x) = "other" /\ Kind(y) = "other")
        BY <1>1, <2>2, <2>4
      <3> QED
        BY <2>1, <2>2, <3>1, <3>2, <3>3, LabelsAssumption
    <2>7. PartHashes(H, x) = PartHashes(H, y)
      BY <2>4, <2>5 DEF PartHashes
    <2>8. HashOf(x, PartHashes(H, x)) = HashOf(y, PartHashes(H, y))
      BY <2>4, <2>6, <2>7 DEF HashOf
    <2>9. H[x] = H[y]
      BY <2>1, <2>2, <2>8 DEF HashedBy
    <2> QED
      BY <2>1, <2>6, <2>9
  <1>3. Endless(Declared, S) /\ S \in SUBSET Type
    BY <1>2 DEF Endless
  <1>4. t \notin S
    BY <1>3 DEF GroundedInv, Ungrounded, Above
  <1> QED
    BY <1>4

(* No step takes a type that is built away.                                 *)
LEMMA BuiltGrows ==
    ASSUME Inv, [Next]_vars
    PROVE  built \subseteq built'
  <1>1. CASE Read
    <2>1. ReadOn
      BY <1>1, ReadBuilds, ReadEnds, ReadLate DEF Read
    <2> QED
      BY <2>1 DEF ReadOn
  <1>2. CASE Hash \/ LookUp \/ Ask \/ UNCHANGED vars
    BY <1>2 DEF Hash, HashKnownPart, HashPart, HashDone, LookUp, TryCandidate, TakeCandidate,
       LeaveCandidate, NewCanonical, Ask, vars, readVars
  <1>3. CASE Compare
    BY <1>3, CompareStep DEF CompareOnly, readVars
  <1> QED
    BY <1>1, <1>2, <1>3 DEF Next

LEMMA ExactBefore ==
    ASSUME Inv, [Next]_vars, Exact'
    PROVE  Exact /\ Same' = Same
  BY BuiltGrows, StepKinds, SameStays DEF Exact, AllDefined, Reader

(* A comparison that ends in "no" has found a difference.                   *)
LEMMA NoMeansNotSame ==
    ASSUME Inv, AllDefined, OneCanonical, answer = "no" => Returned \notin Same,
           Compare, answer' = "no"
    PROVE  Returned' \notin Same /\ comparing' = Tail(comparing)
  <1>1. comparing # <<>> /\ StateInv
    BY CompareStep DEF Inv
  <1>2. /\ L \in Type /\ R \in Type /\ Kind(L) # "declaration" /\ Kind(R) # "declaration"
        /\ ~ThroughDeclaration(L, R) /\ PairOf(Here) = <<L, R>>
        /\ Len(Parts(L)) = Len(Parts(R)) =>
             Pairs(L, R) = [k \in DOMAIN Parts(L) |-> <<Parts(L)[k], Parts(R)[k]>>]
    BY <1>1, ComparedFacts
  <1>3. <<L, R>> \in Same => Alike(L, R) /\ PartPairs(<<L, R>>) \subseteq Same
    BY SameIsBisimulation DEF Bisimulation
  <1>4. ASSUME <<L, R>> \notin Same, comparing' = Tail(comparing)
        PROVE  Returned' \notin Same /\ comparing' = Tail(comparing)
    BY <1>2, <1>4, ReturnedIsHere
  <1>5. CASE CompareKnown
    <2>1. /\ comparing' = Tail(comparing) /\ IsKnown(L, R)
          /\ ~(L = R \/ (/\ HasCanonical(L) /\ HasCanonical(R)
                         /\ canonical[L] = canonical[R]))
      BY <1>5 DEF CompareKnown, Return, Verdict
    <2>2. IsClass(L) # IsClass(R) => Kind(L) # Kind(R)
      BY DEF IsClass
    <2>3. <<L, R>> \notin Same
      BY <1>2, <1>3, <2>1, <2>2 DEF IsKnown, OneCanonical, Alike
    <2> QED
      BY <1>4, <2>1, <2>3
  <1>6. ~CompareUndefined
    BY <1>2 DEF CompareUndefined, Undefined
  <1>7. CASE CompareUnlike \/ CompareLayout
    BY <1>2, <1>3, <1>4, <1>7 DEF CompareUnlike, CompareLayout, Return, Unlike, HasOtherLayout, Alike
  <1>8. CASE PartDiffers
    <2>1. answer = "no" /\ comparing' = Tail(comparing)
      BY <1>8 DEF PartDiffers, Return
    <2>2. ComparesPart(Here) /\ L = Here.l /\ R = Here.r
      BY <1>1, <2>1, HereFacts
    <2>3. Len(Parts(L)) = Len(Parts(R)) /\ Here.next \in DOMAIN Pairs(L, R)
      BY <1>2, <2>2 DEF ComparesPart, HasOtherLayout
    <2>4. Returned = Pairs(L, R)[Here.next]
      BY <1>1 DEF Returned
    <2>5. Pairs(L, R)[Here.next] \in PartPairs(<<L, R>>)
      BY <1>1, <1>2, <2>3, PartsOfPair
    <2> QED
      BY <1>3, <1>4, <2>1, <2>4, <2>5
  <1>9. CASE CompareStarted \/ CompareOpen \/ ComparePart \/ PartEqual \/ CompareDone
    BY <1>9 DEF CompareStarted, CompareOpen, ComparePart, PartEqual, CompareDone, Return, AtStart, Comparing
  <1> QED
    BY <1>5, <1>6, <1>7, <1>8, <1>9 DEF Compare

(* A type finds its canonical type among those that are the same.           *)
LEMMA TakesTheSame ==
    ASSUME Inv, SoundInv, AllDefined, OneCanonical, TakeCandidate, Same' = Same
    PROVE  OneCanonical'
  <1>1. /\ Trying /\ answer = "yes" /\ comparing = <<>> /\ job # NoJob
        /\ canonical' = [canonical EXCEPT ![job.type] = Candidate]
    BY DEF TakeCandidate, Trying
  <1>2. /\ StateInv /\ canonical \in [Type -> Type \cup {NoType}] /\ job.type \in Type /\ asked = <<>>
        /\ ~HasCanonical(job.type)
    BY <1>1, JobFacts DEF Inv, StateInv
  <1>3. <<job.type, Candidate>> \in Same
    <2>1. PICK D \in SUBSET (Type \X Type) : Trusted(D)
      BY <1>1 DEF SoundInv
    <2>2. Root \in Same
      BY <1>1, <2>1, YesMeansSame
    <2> QED
      BY <1>1, <1>2, <2>2, RootFacts
  <1>4. PICK c : c = Candidate
    OBVIOUS
  <1>5. c \in Type /\ HasCanonical(c) /\ canonical[c] = c /\ <<c, job.type>> \in Same
    <2>1. c \in Type /\ HasCanonical(c) /\ canonical[c] = c
      BY <1>1, <1>2, <1>4, RootFacts, TableTypes
    <2> QED
      BY <1>2, <1>3, <1>4, <2>1, SameSymmetric
  <1>6. ASSUME NEW u \in Type, HasCanonical(u), <<job.type, u>> \in Same
        PROVE  canonical[u] = c
    <2>1. <<c, u>> \in Same
      BY <1>2, <1>5, <1>6, SameTransitive
    <2> QED
      BY <1>5, <1>6, <2>1 DEF OneCanonical
  <1>7. /\ canonical'[job.type] = c
        /\ \A t \in Type : t # job.type => canonical'[t] = canonical[t]
    BY <1>1, <1>2, <1>4
  <1>8. ASSUME NEW t \in Type, NEW u \in Type, HasCanonical(t)', HasCanonical(u)', <<t, u>> \in Same
        PROVE  canonical'[t] = canonical'[u]
    <2>1. CASE t = job.type /\ u # job.type
      BY <1>6, <1>7, <1>8, <2>1 DEF HasCanonical
    <2>2. CASE t # job.type /\ u = job.type
      <3>1. <<u, t>> \in Same
        BY <1>2, <1>8, SameSymmetric
      <3> QED
        BY <1>6, <1>7, <1>8, <2>2, <3>1 DEF HasCanonical
    <2>3. CASE t # job.type /\ u # job.type
      BY <1>7, <1>8, <2>3 DEF HasCanonical, OneCanonical
    <2> QED
      BY <2>1, <2>2, <2>3
  <1> QED
    BY <1>8 DEF OneCanonical

(* A type that becomes its own canonical type is the first of its kind: the *)
(* others that are the same are in the table under the same hash.           *)
LEMMA FirstOfItsKind ==
    ASSUME Inv, SoundInv, GroundedInv, SameHashInv, CompleteInv, Exact, NewCanonical,
           NEW u \in Type, HasCanonical(u)
    PROVE  <<job.type, u>> \notin Same
  <1> SUFFICES ASSUME <<job.type, u>> \in Same
               PROVE  FALSE
    OBVIOUS
  <1>1. /\ job # NoJob /\ hashing = <<>> /\ comparing = <<>> /\ answer = "none" /\ CandidatesLeft = {}
    BY DEF NewCanonical, Trying
  <1>2. /\ StateInv /\ job.type \in Type /\ AllDefined
    BY <1>1, JobFacts DEF Inv, Exact
  <1>3. PICK i \in DOMAIN table : table[i].type = canonical[u]
    BY DEF Inv, CanonicalInv
  <1>4. PICK c : c = table[i].type
    OBVIOUS
  <1>5. c \in Type /\ HasCanonical(c)
    BY <1>4, TableTypes
  <1>6. <<u, c>> \in Same
    BY <1>2, <1>3, <1>4 DEF SoundInv
  <1>7. <<job.type, c>> \in Same
    BY <1>2, <1>5, <1>6, SameTransitive
  <1>8. table[i].hash = job.hash
    <2>1. CASE CollideIn(world)
      BY <2>1 DEF SameHashInv
    <2>2. CASE ~CollideIn(world)
      <3>1. Reader = "dwarf"
        BY <2>2 DEF Exact
      <3>2. PICK H : HashedBy(H)
        BY <2>2, <3>1 DEF SameHashInv
      <3>3. H[job.type] = H[c]
        BY <1>2, <1>5, <1>7, <3>1, <3>2, SameHash DEF BeingCanonicalized
      <3> QED
        BY <1>1, <1>4, <3>2, <3>3 DEF HashedBy
    <2> QED
      BY <2>1, <2>2
  <1>9. PICK I : HashesFrom(I)
    BY DEF Inv, HashesInv
  <1>10. i \in Nat /\ job.tried \in Nat
    BY <1>9, LenProperties DEF HashesFrom, Jobs
  <1>11. i <= job.tried
    BY <1>1, <1>8, <1>10 DEF CandidatesLeft
  <1>12. NotAgain(i)
    BY <1>1, <1>10, <1>11 DEF NotAgain
  <1> QED
    BY <1>1, <1>4, <1>7, <1>8, <1>12 DEF CompleteInv

LEMMA CompleteStep ==
    ASSUME Inv, SoundInv, GroundedInv, SameHashInv, CompleteInv, [Next]_vars
    PROVE  CompleteInv'
  <1> SUFFICES ASSUME Exact'
               PROVE  /\ OneCanonical'
                      /\ answer' = "no" => Returned' \notin Same'
                      /\ job' # NoJob =>
                           \A i \in DOMAIN table' :
                             table'[i].hash = job'.hash /\ NotAgain(i)' => <<job'.type, table'[i].type>> \notin Same'
    BY DEF CompleteInv, NoJob, Job, NoHash
  <1>1. Exact /\ Same' = Same /\ AllDefined
    BY ExactBefore DEF Exact
  <1>2. /\ OneCanonical
        /\ answer = "no" => Returned \notin Same
        /\ job # NoJob =>
             \A i \in DOMAIN table :
               table[i].hash = job.hash /\ NotAgain(i) => <<job.type, table[i].type>> \notin Same
    BY <1>1 DEF CompleteInv
  <1>3. PICK I : HashesFrom(I)
    BY DEF Inv, HashesInv
  <1>4. (\A i \in DOMAIN table : i \in Nat /\ i > 0) /\ job \in Jobs(I)
    BY <1>3, LenProperties DEF HashesFrom
  <1>5. ASSUME UNCHANGED canonical
        PROVE  OneCanonical'
    BY <1>1, <1>2, <1>5 DEF OneCanonical, HasCanonical
  <1>6. ASSUME job' # NoJob, job'.tried = 0, UNCHANGED table, NEW i \in DOMAIN table', NotAgain(i)'
        PROVE  FALSE
    BY <1>4, <1>6 DEF NotAgain
  <1>7. CASE Read
    <2>1. job = NoJob /\ answer = "none" /\ UNCHANGED <<canonical, table, answer>>
      BY <1>7, ReadIsIdle, IdleFacts DEF Idle, compareVars
    <2>2. job' # NoJob => job'.tried = 0
      <3>1. UNCHANGED job \/ \E t : job' = Job(t, NoHash, 0)
        BY <1>7, ReadStarts DEF Starts, Canonicalize
      <3>2. \A t : Job(t, NoHash, 0).tried = 0
        BY DEF Job
      <3> QED
        BY <2>1, <3>1, <3>2
    <2> QED
      BY <1>5, <1>6, <2>1, <2>2
  <1>8. CASE Hash
    <2>1. UNCHANGED <<canonical, table, answer>>
      BY <1>8 DEF Hash, HashKnownPart, HashPart, HashDone, compareVars
    <2>2. answer = "none" /\ job.tried = 0 /\ job' = [job EXCEPT !.hash = job'.hash]
      BY <1>8, HashStep DEF Inv, TurnsInv
    <2>3. PICK h : h = job'.hash
      OBVIOUS
    <2>4. job'.tried = 0
      BY <1>4, <2>2, <2>3 DEF Jobs
    <2> QED
      BY <1>5, <1>6, <2>1, <2>2, <2>4
  <1>9. CASE TryCandidate
    <2>1. /\ job # NoJob /\ answer = "none" /\ comparing = <<>> /\ UNCHANGED <<canonical, table, answer>>
      BY <1>9 DEF TryCandidate, Trying
    <2>2. PICK n \in CandidatesLeft : /\ \A j \in CandidatesLeft : n <= j
                                      /\ job' = [job EXCEPT !.tried = n]
                                      /\ comparing' = <<CompareFrame(job.type, table[n].type)>>
      BY <1>9 DEF TryCandidate
    <2>3. job'.type = job.type /\ job'.hash = job.hash /\ job'.tried = n /\ n \in Nat /\ job.tried \in Nat
      BY <1>4, <2>2 DEF Jobs, CandidatesLeft
    <2>4. comparing' # <<>>
      BY <2>2
    <2>5. ASSUME NEW i \in DOMAIN table, table[i].hash = job.hash, NotAgain(i)'
          PROVE  NotAgain(i)
      <3>1. i < n /\ i \in Nat
        BY <1>4, <2>3, <2>4, <2>5 DEF NotAgain
      <3>2. i \notin CandidatesLeft
        BY <2>2, <2>3, <3>1
      <3>3. i <= job.tried
        BY <2>3, <2>5, <3>1, <3>2 DEF CandidatesLeft
      <3> QED
        BY <2>1, <2>3, <3>1, <3>3 DEF NotAgain
    <2> QED
      BY <1>1, <1>2, <1>5, <2>1, <2>3, <2>5
  <1>10. CASE TakeCandidate
    <2>1. job' = NoJob /\ answer' = "none"
      BY <1>10 DEF TakeCandidate
    <2> QED
      BY <1>1, <1>2, <1>10, <2>1, TakesTheSame
  <1>11. CASE LeaveCandidate
    <2>1. answer = "no" /\ answer' = "none" /\ UNCHANGED <<canonical, table, job, comparing>>
      BY <1>11 DEF LeaveCandidate
    <2>2. \A i : NotAgain(i)' => NotAgain(i)
      BY <2>1 DEF NotAgain
    <2> QED
      BY <1>1, <1>2, <1>5, <2>1, <2>2
  <1>12. CASE NewCanonical
    <2>1. /\ job # NoJob /\ job' = NoJob /\ answer' = "none"
          /\ canonical' = [canonical EXCEPT ![job.type] = job.type]
      BY <1>12 DEF NewCanonical, Trying, compareVars
    <2>2. StateInv /\ canonical \in [Type -> Type \cup {NoType}] /\ job.type \in Type
      BY <2>1, JobFacts DEF Inv, StateInv
    <2>3. ASSUME NEW t \in Type, NEW u \in Type, HasCanonical(t)', HasCanonical(u)', <<t, u>> \in Same
          PROVE  canonical'[t] = canonical'[u]
      <3>1. \A v \in Type : v # job.type => canonical'[v] = canonical[v]
        BY <2>1, <2>2
      <3>2. CASE t = job.type /\ u # job.type
        BY <1>1, <1>12, <2>3, <3>1, <3>2, FirstOfItsKind DEF HasCanonical
      <3>3. CASE t # job.type /\ u = job.type
        <4>1. <<u, t>> \in Same
          BY <2>2, <2>3, SameSymmetric
        <4> QED
          BY <1>1, <1>12, <2>3, <3>1, <3>3, <4>1, FirstOfItsKind DEF HasCanonical
      <3>4. CASE t # job.type /\ u # job.type
        BY <1>2, <2>3, <3>1, <3>4 DEF OneCanonical, HasCanonical
      <3> QED
        BY <3>2, <3>3, <3>4
    <2> QED
      BY <1>1, <2>1, <2>3 DEF OneCanonical
  <1>13. CASE Compare
    <2>1. CompareOnly
      BY <1>13, CompareStep
    <2>2. UNCHANGED <<canonical, table, job, asked>>
      BY <2>1 DEF CompareOnly
    <2>3. answer' = "no" => Returned' \notin Same /\ comparing' = Tail(comparing)
      BY <1>1, <1>2, <1>13, NoMeansNotSame
    <2>4. ASSUME job # NoJob, NEW i \in DOMAIN table, table[i].hash = job.hash, NotAgain(i)'
          PROVE  <<job.type, table[i].type>> \notin Same
      <3>1. CASE i < job.tried
        BY <1>2, <2>4, <3>1 DEF NotAgain
      <3>2. CASE i = job.tried /\ comparing' = <<>> /\ answer' # "yes"
        <4>1. answer' # "none"
          <5>1. answer' # "none" \/ \E x, s : s \in Seq(CompareFrames) /\ comparing' = <<x>> \o s
            <6>1. comparing \in Seq(CompareFrames) /\ Tail(comparing) \in Seq(CompareFrames)
              BY <1>13, CompareStep, ComparingFacts DEF Inv, StateInv
            <6> QED
              BY <1>13, <6>1 DEF Compare, CompareKnown, CompareUndefined, CompareUnlike, CompareStarted, CompareOpen,
                 CompareLayout, ComparePart, PartEqual, PartDiffers, CompareDone, Return, Verdict
          <5>2. ASSUME NEW x, NEW s \in Seq(CompareFrames)
                PROVE  <<x>> \o s # <<>>
            <6>1. Seq(CompareFrames) \subseteq Seq(CompareFrames \cup {x})
              BY SeqOfMore
            <6>2. Len(<<x>> \o s) = Len(s) + 1 /\ Len(s) \in Nat
              BY <6>1, Push, LenProperties
            <6> QED
              BY <6>2
          <5> QED
            BY <3>2, <5>1, <5>2
        <4>2. answer' = "no"
          BY <1>13, <3>2, <4>1, CompareStep DEF StateInv
        <4>3. Returned' = Root'
          BY <3>2 DEF Returned
        <4>4. Root' = <<job.type, Candidate>> /\ Candidate = table[i].type
          <5>1. comparing # <<>> /\ asked = <<>> /\ Root' = Root
            BY <1>13, <2>1, <2>4, CompareStep, CompareKeeps, JobFacts
          <5> QED
            BY <3>2, <5>1 DEF Root, Candidate
        <4> QED
          BY <2>3, <4>2, <4>3, <4>4
      <3> QED
        BY <2>2, <2>4, <3>1, <3>2 DEF NotAgain
    <2> QED
      BY <1>1, <1>5, <2>2, <2>3, <2>4
  <1>14. CASE Ask
    <2>1. job = NoJob /\ answer = "none" /\ UNCHANGED <<canonical, table, job, answer>>
      BY <1>14, IdleFacts DEF Ask, Idle
    <2> QED
      BY <1>5, <2>1
  <1>15. CASE UNCHANGED vars
    <2>1. CompareOnly /\ UNCHANGED <<canonical, table, job, comparing, answer, asked>>
      BY <1>15 DEF vars, CompareOnly, readVars, compareVars
    <2>2. Root' = Root /\ \A l, r : Pairs(l, r)' = Pairs(l, r)
      BY <2>1, CompareKeeps, CompareKeepsMeaning
    <2>3. Returned' = Returned
      BY <2>1, <2>2 DEF Returned, L, R, Here
    <2>4. \A i : NotAgain(i)' <=> NotAgain(i)
      BY <2>1 DEF NotAgain
    <2> QED
      BY <1>1, <1>2, <1>5, <2>1, <2>3, <2>4
  <1> QED
    BY <1>7, <1>8, <1>9, <1>10, <1>11, <1>12, <1>13, <1>14, <1>15 DEF Next, LookUp

(* The answers, from what is known of "yes" and of "no".                    *)
LEMMA AnswersFollow ==
    ASSUME Inv, SoundInv, CompleteInv
    PROVE  AnswersAreRight
  <1> SUFFICES ASSUME Answered, AllDefined
               PROVE  AnswerIsRight
    BY DEF AnswersAreRight
  <1>1. asked # <<>> /\ comparing = <<>> /\ answer # "none" /\ corpus = 3
    BY DEF Answered, Inv, TurnsInv
  <1>2. StateInv /\ AllFound /\ Root = asked /\ Returned = asked /\ asked \in built \X built
    BY <1>1, WhenBothRead DEF Root, Returned, StateInv
  <1>3. asked \in SameTypes <=> asked \in Same
    BY <1>2, SameTypesAreSame
  <1>4. answer = "yes" => asked \in Same
    <2> SUFFICES ASSUME answer = "yes"
                 PROVE  asked \in Same
      OBVIOUS
    <2>1. PICK D \in SUBSET (Type \X Type) : Trusted(D)
      BY DEF SoundInv
    <2> QED
      BY <1>1, <1>2, <2>1, YesMeansSame
  <1>5. answer = "no" /\ (Reader = "dwarf" \/ CollideIn(world)) => asked \notin Same
    BY <1>2 DEF CompleteInv, Exact
  <1> QED
    BY <1>3, <1>4, <1>5 DEF AnswerIsRight

LEMMA CompleteAlways == Spec => [](Inv /\ SoundInv /\ CompleteInv)
  <1>1. Init => GroundedInv /\ MembersInv /\ SameHashInv /\ CompleteInv
    <2> SUFFICES ASSUME Init
                 PROVE  GroundedInv /\ MembersInv /\ SameHashInv /\ CompleteInv
      OBVIOUS
    <2>1. /\ job = NoJob /\ job.type = NoType /\ job.hash = NoHash /\ table = <<>> /\ hashing = <<>>
          /\ answer = "none" /\ comparing = <<>>
          /\ memberHash = [t \in {t \in Type : Kind(t) = "class"} |-> [i \in DOMAIN Parts(t) |-> <<>>]]
      BY DEF Init, NoJob, Job
    <2>2. \A t \in Type : ~HasCanonical(t) /\ ~BeingCanonicalized(t)
      BY <2>1, TypesAssumption DEF Init, HasCanonical, BeingCanonicalized
    <2>3. GroundedInv
      BY <2>2 DEF GroundedInv
    <2>4. MembersInv
      BY <2>1 DEF MembersInv
    <2>5. SameHashInv
      <3>1. PICK H : H = [t \in Type |-> NoHash]
        OBVIOUS
      <3>2. H = [t \in Type |-> H[t]]
        BY <3>1
      <3>3. HashStack(H, hashing)
        BY <2>1 DEF HashStack
      <3>4. MembersKeep(H)
        BY <2>1 DEF MembersKeep
      <3>5. HashedBy(H)
        BY <2>1, <2>2, <3>3, <3>4 DEF HashedBy
      <3> QED
        BY <2>1, <3>2, <3>5 DEF SameHashInv
    <2>6. CompleteInv
      BY <2>1, <2>2 DEF CompleteInv, OneCanonical
    <2> QED
      BY <2>3, <2>4, <2>5, <2>6
  <1>2. Inv /\ GroundedInv /\ MembersInv /\ SameHashInv /\ [Next]_vars => GroundedInv' /\ MembersInv' /\ SameHashInv'
    BY GroundedStep, MembersStep, SameHashStep
  <1>3. Inv /\ SoundInv /\ GroundedInv /\ SameHashInv /\ CompleteInv /\ [Next]_vars => CompleteInv'
    BY CompleteStep
  <1> QED
    BY <1>1, <1>2, <1>3, InvInit, InvInductive, SoundAlways, PTL DEF Spec

(* A comparison finds out whether two types are the same all the way down,  *)
(* though it takes the marks of classes and canonical types for granted;    *)
(* it leaves no mark behind, and does not go round in circles.              *)
THEOREM ComparisonsRight == Spec => []ComparisonsAreRight
  <1>1. Inv /\ SoundInv /\ CompleteInv => ComparisonsAreRight
    BY InvTypeOK, InvMarksMatch, AnswersFollow DEF ComparisonsAreRight
  <1> QED
    BY <1>1, CompleteAlways, PTL
=============================================================================
