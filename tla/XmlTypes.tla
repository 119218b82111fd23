------------------------------- MODULE XmlTypes -------------------------------
(****************************************************************************)
(* What abidw writes of the types of a corpus and how libabigail reads it   *)
(* back (abg-writer.cc, abg-reader.cc).  In the document a type is referred *)
(* to by its id, before or after the element that describes it, within it   *)
(* or in another translation unit.  The reader builds what it meets; when a *)
(* type that is referred to is not there yet it looks for its scope, which  *)
(* may be the class or namespace that is being built or may have to be built*)
(* with all that is in it, and then goes on where it was.                   *)
(*                                                                          *)
(* An artifact of the corpus and the element that describes it have the same*)
(* number.  What is alike (attributes, names, locations) is left out; when  *)
(* types get their canonical types is in module CanonicalTypes.             *)
(****************************************************************************)
EXTENDS Naturals, Sequences, FiniteSets, SequencesExt

CONSTANTS World,           \* the corpora that are written and read
          ArtifactsIn(_),  \* the artifacts of a corpus
          UnitsIn(_),      \* its translation units, each the artifacts at global scope
          SharedIdIn(_)    \* a declaration is met in the id map when its definition is

TypeKind == {"type", "enum", "qualified", "pointer", "reference", "array", "typedef", "class"}

(* Built before what is in them, and looked into for the scope of others.   *)
Scopes == {"class", "namespace"}

-----------------------------------------------------------------------------
(* The functions of the reader that build a declaration from its element    *)
(* differ in the steps they take, and in when:                              *)
(*   recalls   they begin with a look for what was built for the element;   *)
(*   part      they build the type it is made of before it;                 *)
(*   rechecks  and look again whether that has built this one as well;      *)
(*   isNew     they assert that the id is new in the translation unit,      *)
(*             before or after the part is built, or never;                 *)
(*   reuses    they return what another unit has left for the id;           *)
(*   asserts   it is asserted to be made of the same type;                  *)
(*   opens     the declaration is there before what is in it.               *)
Steps(recalls, part, rechecks, isNew, reuses, asserts, opens) ==
    [recalls |-> recalls, part |-> part, rechecks |-> rechecks, isNew |-> isNew,
     reuses |-> reuses, asserts |-> asserts, opens |-> opens]

BuildTypeDecl == Steps(TRUE, FALSE, FALSE, "first", TRUE, FALSE, FALSE)
BuildQualifiedTypeDecl == Steps(TRUE, TRUE, TRUE, "last", TRUE, TRUE, FALSE)
BuildPointerTypeDef == Steps(TRUE, TRUE, TRUE, "last", TRUE, TRUE, FALSE)
BuildReferenceTypeDef == Steps(TRUE, TRUE, TRUE, "last", TRUE, TRUE, FALSE)
BuildArrayTypeDef == Steps(TRUE, TRUE, TRUE, "last", TRUE, TRUE, FALSE)
BuildEnumTypeDecl == Steps(TRUE, TRUE, FALSE, "first", FALSE, FALSE, FALSE)
BuildTypedefDecl == Steps(TRUE, TRUE, TRUE, "first", FALSE, TRUE, FALSE)
BuildClassDecl == Steps(TRUE, FALSE, FALSE, "never", FALSE, FALSE, TRUE)
BuildNamespaceDecl == Steps(TRUE, FALSE, FALSE, "never", FALSE, FALSE, TRUE)
BuildVarDecl == Steps(FALSE, TRUE, FALSE, "never", FALSE, FALSE, FALSE)
BuildFunctionDecl == Steps(FALSE, FALSE, FALSE, "never", FALSE, FALSE, TRUE)

(* handle_element_node(), build_type()                                      *)
Builder == [type |-> BuildTypeDecl, qualified |-> BuildQualifiedTypeDecl,
            pointer |-> BuildPointerTypeDef, reference |-> BuildReferenceTypeDef,
            array |-> BuildArrayTypeDef, enum |-> BuildEnumTypeDecl,
            typedef |-> BuildTypedefDecl, class |-> BuildClassDecl,
            namespace |-> BuildNamespaceDecl, variable |-> BuildVarDecl,
            function |-> BuildFunctionDecl]
Kinds == DOMAIN Builder

VARIABLES
  world,      \* the corpus that is written; never changes
  doc,        \* the document; never changes
  unit,       \* the translation unit that is read
  next,       \* its next element, 0 before it is begun
  nodeOf,     \* m_id_xml_node_map: id -> element of the unit, 0 if none
  declOf,     \* m_xml_node_decl_map: element -> declaration, 0 if none
  typeOf,     \* m_types_map: id -> declaration, 0 if none
  decls,      \* the declarations built, in order
  declsStack, \* m_decls_stack
  frames      \* the calls of build_..., build_or_get_type_decl, get_scope_for_node

vars == <<world, doc, unit, next, nodeOf, declOf, typeOf, decls, declsStack, frames>>
document == <<world, doc>>
position == <<unit, next, nodeOf>>

-----------------------------------------------------------------------------
(* The writer.                                                              *)

(* What an artifact is made of, through others.                             *)
MadeOfThrough(w, a) ==
    LET artifact == ArtifactsIn(w)
        through[n \in DOMAIN artifact] ==
          IF n = 1 THEN {a}
          ELSE UNION {{b} \cup ToSet(artifact[b].uses \o artifact[b].contents) : b \in through[n - 1]}
    IN through[Len(artifact)]

(* get_id_for_type(): equal types share an id, whichever unit they are in.  *)
(* A declaration equals its definition but hashes otherwise, and so does    *)
(* all that is made of it; they may or may not be found in the map where    *)
(* the definition is.                                                       *)
IdIn(w, a) ==
    IF ~SharedIdIn(w) /\ \E b \in MadeOfThrough(w, a) : ArtifactsIn(w)[b].declaration
    THEN <<ArtifactsIn(w)[a].name, "declaration">> ELSE <<ArtifactsIn(w)[a].name, "">>

(* An element: its id, the ids it has as attributes or its parts have, the  *)
(* elements in it, and the id of the earlier declaration if it knows of one.*)
Element(w, a, uses, contents) ==
    LET artifact == ArtifactsIn(w)[a]
    IN [kind |-> artifact.kind, declaration |-> artifact.declaration, id |-> IdIn(w, a),
        uses |-> [i \in DOMAIN uses |-> IdIn(w, uses[i])], contents |-> contents,
        definesIds |-> {IdIn(w, d) : d \in artifact.earlier}]

UsedBy(w, a) == ArtifactsIn(w)[a].uses
ContentsOf(w, a) == ArtifactsIn(w)[a].contents

WriteTypeDecl(w, a) == Element(w, a, <<>>, <<>>)
WriteNamespaceDecl(w, a) == Element(w, a, <<>>, ContentsOf(w, a))

(* The type-id is that of the type it is made of.                           *)
WriteQualifiedTypeDef(w, a) == Element(w, a, <<UsedBy(w, a)[1]>>, <<>>)
WritePointerTypeDef(w, a) == Element(w, a, <<UsedBy(w, a)[1]>>, <<>>)
WriteReferenceTypeDef(w, a) == Element(w, a, <<UsedBy(w, a)[1]>>, <<>>)
WriteArrayTypeDef(w, a) == Element(w, a, <<UsedBy(w, a)[1]>>, <<>>)
WriteEnumTypeDecl(w, a) == Element(w, a, <<UsedBy(w, a)[1]>>, <<>>)
WriteTypedefDecl(w, a) == Element(w, a, <<UsedBy(w, a)[1]>>, <<>>)
WriteVarDecl(w, a) == Element(w, a, <<UsedBy(w, a)[1]>>, <<>>)

(* The types of the parameters and of what is returned.                     *)
WriteFunctionDecl(w, a) == Element(w, a, UsedBy(w, a), <<>>)

(* The base classes, then the member types, the data members, the functions *)
(* that are not virtual and those that are; nothing of a declaration.       *)
WriteClassDecl(w, a) ==
    LET artifact == ArtifactsIn(w)
        section(P(_)) == SelectSeq(artifact[a].contents, LAMBDA c : P(artifact[c]))
    IN IF artifact[a].declaration THEN Element(w, a, <<>>, <<>>)
       ELSE Element(w, a, UsedBy(w, a),
                    section(LAMBDA c : c.kind \in TypeKind)
                      \o section(LAMBDA c : c.kind = "variable")
                      \o section(LAMBDA c : c.kind = "function" /\ ~c.virtual)
                      \o section(LAMBDA c : c.kind = "function" /\ c.virtual))

WriteDecl(w, a) ==
    LET kind == ArtifactsIn(w)[a].kind
    IN CASE kind = "type" -> WriteTypeDecl(w, a)
         [] kind = "namespace" -> WriteNamespaceDecl(w, a)
         [] kind = "qualified" -> WriteQualifiedTypeDef(w, a)
         [] kind = "pointer" -> WritePointerTypeDef(w, a)
         [] kind = "reference" -> WriteReferenceTypeDef(w, a)
         [] kind = "array" -> WriteArrayTypeDef(w, a)
         [] kind = "enum" -> WriteEnumTypeDecl(w, a)
         [] kind = "typedef" -> WriteTypedefDecl(w, a)
         [] kind = "variable" -> WriteVarDecl(w, a)
         [] kind = "function" -> WriteFunctionDecl(w, a)
         [] kind = "class" -> WriteClassDecl(w, a)

(* write_corpus_to_native_xml()                                             *)
Document(w) == [elements |-> [a \in DOMAIN ArtifactsIn(w) |-> WriteDecl(w, a)],
                units |-> UnitsIn(w)]

-----------------------------------------------------------------------------
(* What the reader finds in the document.                                   *)
Units == doc.units
Node == DOMAIN doc.elements
Kind(a) == doc.elements[a].kind
IdOf(a) == doc.elements[a].id
Uses(a) == doc.elements[a].uses
Contents(a) == doc.elements[a].contents
Outer(a) ==
    LET around == {b \in Node : a \in ToSet(Contents(b))}
    IN IF around = {} THEN 0 ELSE CHOOSE b \in around : TRUE
OnlyDeclares(a) == doc.elements[a].declaration
Ids == DOMAIN typeOf

(* The elements of a unit in the order of the document, down to the members *)
(* of a class in a namespace.                                               *)
Elements(u) ==
    LET Joined(From(_), s) == FlattenSeq([i \in DOMAIN s |-> From(s[i])])
        Leaf(a) == <<a>>
        Inner(a) == <<a>> \o Joined(Leaf, Contents(a))
        FromTop(a) == <<a>> \o Joined(Inner, Contents(a))
    IN Joined(FromTop, Units[u])
Within(u) == ToSet(Elements(u))

(* walk_xml_node_to_map_type_ids(): of two elements with one id, the later; *)
(* an enum may not be the later one, unless one of them is a declaration.   *)
Types(u) == SelectSeq(Elements(u), LAMBDA a : Kind(a) \in TypeKind)
LastOf(types, id) == LET found == SelectSeq(types, LAMBDA a : IdOf(a) = id)
                     IN IF found = <<>> THEN 0 ELSE Last(found)
NodesOf(u) == LET types == Types(u) IN [id \in Ids |-> LastOf(types, id)]
IdIsTaken(u) ==
    LET types == Types(u)
        takes(i) == /\ Kind(types[i]) = "enum" /\ ~OnlyDeclares(types[i])
                    /\ LET before == LastOf(SubSeq(types, 1, i - 1), IdOf(types[i]))
                       IN before # 0 /\ ~OnlyDeclares(before)
    IN \E i \in DOMAIN types : takes(i)

(* A declaration of the IR: the element it was built from (0, the global    *)
(* scope of a unit), what it is made of, its scope, and its definition, if  *)
(* it only declares a class.                                                *)
Decl(a, parts, scope) ==
    [node |-> a, unit |-> unit, parts |-> parts, scope |-> scope, definition |-> 0]

DeclId(d) == IdOf(decls[d].node)
IsScope(d) == decls[d].node = 0 \/ Kind(decls[d].node) \in Scopes
GlobalScope == declsStack[1]

(* get_decl_for_xml_node()                                                  *)
DeclFor(a) == IF a = 0 THEN GlobalScope ELSE declOf[a]

(* get_cur_scope()                                                          *)
CurScope == IF IsScope(Last(declsStack)) THEN Last(declsStack)
            ELSE decls[Last(declsStack)].scope

(* The translation unit whose global scope a declaration is in, 0 if none.  *)
UnitOf(d) ==
    LET of[x \in 0 .. Len(decls)] ==
          IF x = 0 THEN 0
          ELSE IF decls[x].node = 0 THEN decls[x].unit ELSE of[decls[x].scope]
    IN of[d]

(* type_id_new_in_translation_unit()                                        *)
IdIsNew(a) == typeOf[IdOf(a)] = 0 \/ UnitOf(typeOf[IdOf(a)]) # unit

(* key_type_decl(), not forced: the first one stays.                        *)
KeyType(a, d) == [typeOf EXCEPT ![IdOf(a)] = IF @ = 0 THEN d ELSE @]

(* Mutant of Popped: down to where the scope was pushed first.              *)
PoppedToFirst(s) == SubSeq(declsStack, 1, SelectInSeq(declsStack, LAMBDA d : d = s) - 1)

(* pop_scope(): all that was pushed since the scope goes, and the scope.    *)
CanPop(s) == s \in ToSet(declsStack)
Popped(s) == SubSeq(declsStack, 1, SelectLastInSeq(declsStack, LAMBDA d : d = s) - 1)

-----------------------------------------------------------------------------
(* The calls under way: op is "get" (build_or_get_type_decl of an id),      *)
(* "scope" (get_scope_for_node of an element) or "build" (build_... of an   *)
(* element, added to the current scope or not); self is the declaration it  *)
(* builds (0 before that), got what its own calls returned, taken how many  *)
(* of these it has dealt with.                                              *)
Frame(op, node, id, add) ==
    [op |-> op, node |-> node, id |-> id, add |-> add, self |-> 0, got |-> <<>>, taken |-> 0]
Get(id) == Frame("get", 0, id, FALSE)
ScopeFor(a) == Frame("scope", a, <<>>, FALSE)
Build(a, add) == Frame("build", a, <<>>, add)

Top == Last(frames)
Call(f) == frames' = Append(frames, f)
Return(d) ==
    frames' = IF Len(frames) = 1 THEN <<>>
              ELSE [Front(frames) EXCEPT ![Len(frames) - 1].got = Append(@, d)]

Getting == frames # <<>> /\ Top.op = "get"
Scoping == frames # <<>> /\ Top.op = "scope"
Building == frames # <<>> /\ Top.op = "build"

(* The element is met for the first time; its type is there, it is not yet. *)
NotBegun == Building /\ Top.self = 0 /\ Top.got = <<>>
PartThere == Building /\ Top.self = 0 /\ Top.got # <<>>
How == Builder[Kind(Top.node)]
Mapped == Top.node # 0 /\ declOf[Top.node] # 0
Known == How.recalls /\ Mapped

(* *l == *r, on types that have the same name if they are the same.         *)
Alike(d, e) == DeclId(d)[1] = DeclId(e)[1]
PartDiffers == LET t == typeOf[IdOf(Top.node)]
               IN t # 0 /\ ~Alike(decls[t].parts[1], Top.got[1])

(* The assertions of the functions that build.  One that fails ends the     *)
(* program.                                                                 *)
Violated ==
    \/ Getting /\ Top.got = <<>> /\ typeOf[Top.id] = 0 /\ nodeOf[Top.id] = 0
    \/ NotBegun /\ ~Known /\ How.isNew = "first" /\ ~IdIsNew(Top.node)
    \/ PartThere /\ ~Known /\ How.isNew = "last" /\ ~IdIsNew(Top.node)
    \/ PartThere /\ ~Known /\ How.asserts /\ PartDiffers
    \/ (Getting \/ Scoping) /\ Len(Top.got) = 2 /\ ~CanPop(Top.got[1])
    \/ Building /\ Top.self # 0 /\ Kind(Top.node) \in Scopes /\ ~CanPop(Top.self)

-----------------------------------------------------------------------------
(* build_or_get_type_decl()                                                 *)
TypeThere ==
    /\ ~Violated /\ Getting /\ Len(Top.got) < 2 /\ typeOf[Top.id] # 0
    /\ Return(typeOf[Top.id])
    /\ UNCHANGED <<document, position, declOf, typeOf, decls, declsStack>>

SeekScope ==
    /\ ~Violated /\ Getting /\ Top.got = <<>> /\ typeOf[Top.id] = 0
    /\ Call(ScopeFor(nodeOf[Top.id]))
    /\ UNCHANGED <<document, position, declOf, typeOf, decls, declsStack>>

BuildInScope ==
    /\ ~Violated /\ Getting /\ Len(Top.got) = 1 /\ typeOf[Top.id] = 0
    /\ declsStack' = Append(declsStack, Top.got[1])
    /\ Call(Build(nodeOf[Top.id], TRUE))
    /\ UNCHANGED <<document, position, declOf, typeOf, decls>>

TypeBuilt ==
    /\ ~Violated /\ Getting /\ Len(Top.got) = 2
    /\ declOf' = [declOf EXCEPT ![nodeOf[Top.id]] = Top.got[2]]
    /\ declsStack' = Popped(Top.got[1])
    /\ Return(Top.got[2])
    /\ UNCHANGED <<document, position, typeOf, decls>>

(* get_scope_for_node()                                                     *)
ScopeThere ==
    /\ ~Violated /\ Scoping /\ Top.got = <<>> /\ DeclFor(Outer(Top.node)) # 0
    /\ Return(DeclFor(Outer(Top.node)))
    /\ UNCHANGED <<document, position, declOf, typeOf, decls, declsStack>>

SeekOuterScope ==
    /\ ~Violated /\ Scoping /\ Top.got = <<>> /\ DeclFor(Outer(Top.node)) = 0
    /\ Call(ScopeFor(Outer(Top.node)))
    /\ UNCHANGED <<document, position, declOf, typeOf, decls, declsStack>>

BuildScope ==
    /\ ~Violated /\ Scoping /\ Len(Top.got) = 1
    /\ declsStack' = Append(declsStack, Top.got[1])
    /\ Call(Build(Outer(Top.node), TRUE))
    /\ UNCHANGED <<document, position, declOf, typeOf, decls>>

ScopeBuilt ==
    /\ ~Violated /\ Scoping /\ Len(Top.got) = 2
    /\ declsStack' = Popped(Top.got[1])
    /\ Return(Top.got[2])
    /\ UNCHANGED <<document, position, declOf, typeOf, decls>>

-----------------------------------------------------------------------------
(* What all the functions that build a declaration have in common.          *)
Recall ==
    /\ ~Violated /\ NotBegun /\ Known
    /\ Return(declOf[Top.node])
    /\ UNCHANGED <<document, position, declOf, typeOf, decls, declsStack>>

NewDecl == Len(decls) + 1

(* push_decl_to_current_scope(), of the declaration that is built next.     *)
PushNew(parts) ==
    /\ decls' = Append(decls, Decl(Top.node, parts, IF Top.add THEN CurScope ELSE 0))
    /\ declsStack' = Append(declsStack, NewDecl)

(* All that the declaration is made of is there, if it is not opened first. *)
ReadyToBuild == Building /\ Top.self = 0 /\ ~How.opens /\ (Top.got # <<>>) = How.part
LeftForId == How.reuses /\ typeOf[IdOf(Top.node)] # 0

ReuseType ==
    /\ ~Violated /\ ReadyToBuild /\ ~Known /\ LeftForId
    /\ Return(typeOf[IdOf(Top.node)])
    /\ UNCHANGED <<document, position, declOf, typeOf, decls, declsStack>>

SeekPart ==
    /\ ~Violated /\ NotBegun /\ ~Known /\ How.part
    /\ Call(Get(Uses(Top.node)[1]))
    /\ UNCHANGED <<document, position, declOf, typeOf, decls, declsStack>>

(* Building the type referred to has built this one in the mean time.       *)
BuiltMeanwhile ==
    /\ ~Violated /\ PartThere /\ How.rechecks /\ Known
    /\ Return(declOf[Top.node])
    /\ UNCHANGED <<document, position, declOf, typeOf, decls, declsStack>>

(* push_and_key_type_decl(), map_xml_node_to_decl() of a type.              *)
PushAndKey ==
    /\ PushNew(Top.got)
    /\ IF Kind(Top.node) \in TypeKind
       THEN /\ typeOf' = KeyType(Top.node, NewDecl)
            /\ declOf' = [declOf EXCEPT ![Top.node] = NewDecl]
       ELSE UNCHANGED <<typeOf, declOf>>
    /\ Return(NewDecl)
    /\ UNCHANGED <<document, position>>

(* Mutant of BuildSimple: does not look whether it was built meanwhile.     *)
BuildSimpleAgain == ~Violated /\ ReadyToBuild /\ ~LeftForId /\ PushAndKey

(* Types that are not opened first, and variables.                          *)
BuildSimple ==
    /\ ~Violated /\ ReadyToBuild /\ ~LeftForId /\ (Known => PartThere /\ ~How.rechecks)
    /\ PushAndKey

(* build_class_decl(), build_namespace_decl(), build_function_decl(): the   *)
(* declaration is there, and known for its element, before what it holds.   *)
(* A class says which earlier declaration it defines.                       *)
Declares(d) == d # 0 /\ OnlyDeclares(decls[d].node)
Defined == {d \in {typeOf[id] : id \in doc.elements[Top.node].definesIds} : Declares(d)}

Open ==
    /\ ~Violated /\ NotBegun /\ ~Known /\ How.opens
    /\ decls' = Append([d \in DOMAIN decls |->
                          IF d \in Defined THEN [decls[d] EXCEPT !.definition = NewDecl] ELSE decls[d]],
                       Decl(Top.node, <<>>, IF Top.add THEN CurScope ELSE 0))
    /\ declsStack' = Append(declsStack, NewDecl)
    /\ declOf' = IF Kind(Top.node) \in Scopes
                 THEN [declOf EXCEPT ![Top.node] = NewDecl] ELSE declOf
    /\ frames' = [frames EXCEPT ![Len(frames)].self = NewDecl]
    /\ UNCHANGED <<document, position, typeOf>>

Opened == Building /\ Top.self # 0
Asked == Uses(Top.node)
Content == IF OnlyDeclares(Top.node) THEN <<>> ELSE Contents(Top.node)
AllTaken == Top.taken = Len(Asked) + Len(Content)
NothingToTake == Opened /\ Len(Top.got) = Top.taken /\ ~AllTaken

SeekUsed ==
    /\ ~Violated /\ NothingToTake /\ Top.taken < Len(Asked)
    /\ Call(Get(Asked[Top.taken + 1]))
    /\ UNCHANGED <<document, position, declOf, typeOf, decls, declsStack>>

ReadContent ==
    /\ ~Violated /\ NothingToTake /\ Top.taken >= Len(Asked)
    /\ Call(Build(Content[Top.taken + 1 - Len(Asked)], Kind(Top.node) = "namespace"))
    /\ UNCHANGED <<document, position, declOf, typeOf, decls, declsStack>>

SomethingToTake == Opened /\ Len(Top.got) > Top.taken
Took == Last(Top.got)
IsMember == Kind(Top.node) = "class" /\ Top.taken >= Len(Asked)
MemberNode == Content[Top.taken + 1 - Len(Asked)]

(* A base class, a type of the signature, an element of a namespace.        *)
TakeUsed ==
    /\ ~Violated /\ SomethingToTake /\ ~IsMember
    /\ decls' = IF Top.taken < Len(Asked)
                THEN [decls EXCEPT ![Top.self].parts = Append(@, Took)] ELSE decls
    /\ frames' = [frames EXCEPT ![Len(frames)].taken = @ + 1]
    /\ UNCHANGED <<document, position, declOf, typeOf, declsStack>>

(* A member gets its scope now, unless it was built for someone  *)
(* else before and is in the class already; a member type then replaces     *)
(* what was known for its id.                                               *)
TakeMember ==
    /\ ~Violated /\ SomethingToTake /\ IsMember
    /\ IF decls[Took].scope = 0
       THEN /\ decls' = [decls EXCEPT ![Took].scope = Top.self]
            /\ IF Kind(MemberNode) \in TypeKind
               THEN /\ typeOf' = [typeOf EXCEPT ![IdOf(MemberNode)] = Took]
                    /\ declOf' = [declOf EXCEPT ![MemberNode] = Took]
               ELSE UNCHANGED <<typeOf, declOf>>
       ELSE UNCHANGED <<decls, typeOf, declOf>>
    /\ frames' = [frames EXCEPT ![Len(frames)].taken = @ + 1]
    /\ UNCHANGED <<document, position, declsStack>>

(* A class gets its id when all of it is read; a function stays on the      *)
(* stack until its scope goes.                                              *)
Close ==
    /\ ~Violated /\ Opened /\ Len(Top.got) = Top.taken /\ AllTaken
    /\ declsStack' = IF Kind(Top.node) \in Scopes THEN Popped(Top.self) ELSE declsStack
    /\ typeOf' = IF Kind(Top.node) = "class" THEN KeyType(Top.node, Top.self) ELSE typeOf
    /\ Return(Top.self)
    /\ UNCHANGED <<document, position, declOf, decls>>

-----------------------------------------------------------------------------
(* read_corpus_from_input(), read_translation_unit_from_input()             *)
Reading == frames = <<>> /\ unit <= Len(Units)
Nothing(S) == [x \in S |-> 0]

BeginUnit ==
    /\ Reading /\ next = 0 /\ ~IdIsTaken(unit)
    /\ decls' = Append(decls, Decl(0, <<>>, 0))
    /\ declsStack' = <<NewDecl>>
    /\ next' = 1
    /\ nodeOf' = NodesOf(unit)
    /\ UNCHANGED <<document, unit, declOf, typeOf, frames>>

(* Mutant of ReadElement: stays at the element.                             *)
ReadElementAgain ==
    /\ Reading /\ next \in 1 .. Len(Units[unit])
    /\ Call(Build(Units[unit][next], TRUE))
    /\ UNCHANGED <<document, position, declOf, typeOf, decls, declsStack>>

ReadElement ==
    /\ Reading /\ next \in 1 .. Len(Units[unit])
    /\ Call(Build(Units[unit][next], TRUE))
    /\ next' = next + 1
    /\ UNCHANGED <<document, unit, nodeOf, declOf, typeOf, decls, declsStack>>

(* clear_per_translation_unit_data(): the types stay.                       *)
EndUnit ==
    /\ Reading /\ next > Len(Units[unit])
    /\ unit' = unit + 1 /\ next' = 0
    /\ nodeOf' = Nothing(Ids) /\ declOf' = Nothing(Node) /\ declsStack' = <<>>
    /\ UNCHANGED <<document, typeOf, decls, frames>>

Init ==
    /\ world \in World
    /\ doc = Document(world)
    /\ unit = 1 /\ next = 0
    /\ declOf = Nothing(Node)
    /\ typeOf = Nothing({IdOf(a) : a \in {b \in Node : Kind(b) \in TypeKind}})
    /\ nodeOf = Nothing(Ids)
    /\ decls = <<>> /\ declsStack = <<>> /\ frames = <<>>

Next ==
    \/ TypeThere \/ SeekScope \/ BuildInScope \/ TypeBuilt
    \/ ScopeThere \/ SeekOuterScope \/ BuildScope \/ ScopeBuilt
    \/ Recall \/ ReuseType \/ SeekPart \/ BuiltMeanwhile \/ BuildSimple
    \/ Open \/ SeekUsed \/ ReadContent \/ TakeUsed \/ TakeMember \/ Close
    \/ BeginUnit \/ ReadElement \/ EndUnit

(* One thread, which stops when it has read everything.                     *)
Spec == Init /\ [][Next]_vars /\ WF_vars(Next)

-----------------------------------------------------------------------------
Decls == DOMAIN decls

TypeOK ==
    /\ world \in World
    /\ unit \in 1 .. Len(Units) + 1 /\ next \in Nat
    /\ DOMAIN nodeOf = Ids /\ \A id \in Ids : nodeOf[id] \in {0} \cup Node
    /\ DOMAIN declOf = Node /\ \A a \in Node : declOf[a] \in {0} \cup Decls
    /\ \A id \in Ids : typeOf[id] \in {0} \cup Decls
    /\ \A d \in Decls :
          /\ decls[d].node \in {0} \cup Node /\ decls[d].unit \in 1 .. Len(Units)
          /\ ToSet(decls[d].parts) \subseteq Decls
          /\ {decls[d].scope, decls[d].definition} \subseteq {0} \cup Decls
    /\ ToSet(declsStack) \subseteq Decls
    /\ \A i \in DOMAIN frames :
          /\ frames[i].op \in {"get", "scope", "build"}
          /\ ToSet(frames[i].got) \cup ({frames[i].self} \ {0}) \subseteq Decls

(* What stands for an artifact of a unit once the document is read: what    *)
(* was built from its element or, for a type that can be shared, what the   *)
(* units before have left for its id.                                       *)
StandsFor(d, a, u) ==
    \/ decls[d].node = a /\ decls[d].unit = u
    \/ /\ Builder[Kind(a)].reuses
       /\ decls[d].node # 0 /\ DeclId(d) = IdOf(a) /\ decls[d].unit < u

(* It is made of the types its element names, and is in the scope that its  *)
(* element is in.                                                           *)
Restored(d, a) ==
    /\ [i \in DOMAIN decls[d].parts |-> DeclId(decls[d].parts[i])] = Uses(a)
    /\ decls[d].scope # 0
    /\ LET s == decls[decls[d].scope].node
       IN IF Outer(a) = 0 THEN s = 0
          ELSE s # 0 /\ IdOf(s)[1] = IdOf(Outer(a))[1]

(* Reading what was written gives what was written: in whatever order the   *)
(* elements come and the reader jumps between them, nothing is built twice, *)
(* no assertion fails, and in the end each artifact is there, made of the   *)
(* right types and in the right scope; a definition whose element names its *)
(* declaration is linked to it.  (build_or_get_type_decl,                   *)
(* get_scope_for_node, the build_... functions, abg-reader.cc)              *)
ReadBackTheSame ==
    /\ ~Violated /\ ~(Reading /\ next = 0 /\ IdIsTaken(unit))
    /\ \A d, e \in Decls : decls[d].node = decls[e].node /\ decls[d].node # 0 => d = e
    /\ unit > Len(Units) =>
          \A u \in DOMAIN Units : \A a \in Within(u) :
             /\ \E d \in Decls : StandsFor(d, a, u) /\ Restored(d, a)
             /\ \A b \in ArtifactsIn(world)[a].earlier :
                   \E d, e \in Decls : /\ decls[d].node = b /\ decls[e].node = a
                                       /\ decls[d].definition = e

(* The global scope of the unit stays at the bottom of the stack of         *)
(* declarations, and every scope that is being filled, a class or namespace *)
(* or where a type was sought to be built, is on it above it: all that is   *)
(* popped too much or put back in the wrong order would end in a failed     *)
(* assertion or in a type in the wrong scope much later.  (push_decl,       *)
(* pop_scope_or_abort, abg-reader.cc:319-395)  The maps name nodes that     *)
(* there are.                                                               *)
ToBePopped(i) ==
    LET f == frames[i]
    IN IF f.op = "build" THEN IF f.self # 0 /\ Kind(f.node) \in Scopes THEN {f.self} ELSE {}
       ELSE IF Len(f.got) = 2 \/ (f.got # <<>> /\ i < Len(frames)) THEN {f.got[1]} ELSE {}

ScopesNest ==
    /\ TypeOK
    /\ next > 0 => declsStack # <<>> /\ decls[declsStack[1]].node = 0
    /\ \A i, j \in DOMAIN frames : i < j =>
          \A d \in ToBePopped(i), e \in ToBePopped(j) :
             d # e => SelectInSeq(declsStack, LAMBDA x : x = d)
                       < SelectLastInSeq(declsStack, LAMBDA x : x = e)

(* The reader comes to the end of every document that was written: the      *)
(* search for types and scopes never goes in a circle.                      *)
ReadEnds == <>(unit > Len(Units))
=============================================================================
