------------------------------ MODULE DwarfTypes ------------------------------
(****************************************************************************)
(* How the DWARF reader builds the types and declarations of a corpus from  *)
(* the debugging information entries (DIEs) of an ELF file and of the       *)
(* alternate file that dwz makes of what several files share                *)
(* (abg-dwarf-reader.cc).  Only what public declarations refer to is read,  *)
(* depth first: to build a node the reader builds its scope, which may be a *)
(* class or a namespace with all that is in it, then what it is made of,    *)
(* and may so meet the entry it began with, half built, again.  DIEs are    *)
(* known by their offsets, which say nothing without the file they are in.  *)
(* Classes that are only declared get their definitions in the end.         *)
(*                                                                          *)
(* Left out: locations, sizes, access specifiers, enumerators; symbols are  *)
(* in module CorpusSymbols, canonical types in module CanonicalTypes.       *)
(****************************************************************************)
EXTENDS DwarfExpr, FiniteSets, SequencesExt, TLC

CONSTANT Programs   \* the DIEs of each ELF file, a DIE after the one it is in

(* A DIE and its attributes; "the DIE 0" is none.  "sized" says that it has *)
(* a size (a subrange: an upper bound), "path" is the scope that the mangled*)
(* name tells, "location" the operations of DW_AT_data_member_location or   *)
(* DW_AT_vtable_elem_location.                                              *)
NoDIE == [tag |-> "none", alt |-> FALSE, offset |-> 0, parent |-> 0,
          type |-> 0, specification |-> 0, origin |-> 0, import |-> 0,
          name |-> "", linkage |-> "", path |-> <<>>, location |-> <<>>, sized |-> FALSE,
          external |-> FALSE, declaration |-> FALSE, artificial |-> FALSE, virtual |-> FALSE]

(* is_type_tag(); unions, subroutine types ... are never built.             *)
TypeTag == {"base", "enum", "typedef", "pointer", "reference", "qualified",
            "array", "class", "subrange", "unsupported"}
Referring == {"typedef", "pointer", "reference", "qualified", "array"}
ScopeTag == {"unit", "namespace", "class"}

VARIABLES
  dies, all,   \* the DIEs, and read_context::load_withFtypes(): never change
  unit,        \* the DIE of the translation unit that is read
  where,       \* the DIE of the unit that is read: where_offset
  nodes,       \* the IR: nodes[1] is void, those of units are global scopes
  declOf,      \* die_decl_map, alternate_die_decl_map: (file, offset) -> node
  typeOf,      \* die_type_map, alternate_die_type_map
  wip,         \* die_wip_classes_map: offset -> node
  declOnly,    \* declaration_only_classes(): the nodes that are scheduled
  reAdd,       \* var_decls_to_re_add_to_tree
  exported,    \* what is given to the builder of the exported declarations
  frames,      \* the calls, innermost first
  answer,      \* what the last call has returned
  phase        \* "units", "resolve", "done", or "aborted": an assertion failed

world == <<dies, all>>
position == <<unit, where>>
ir == <<nodes, declOf, typeOf, wip, declOnly>>
variables == <<reAdd, exported>>
calls == <<frames, answer>>
vars == <<world, position, ir, variables, calls, phase>>

DIE == DOMAIN dies
Children(d) == SelectSeq([i \in DIE |-> i], LAMBDA c : dies[c].parent = d)
Units == SelectSeq(Children(0), LAMBDA u : dies[u].tag = "unit")
Pending == -1
Void == 1

-----------------------------------------------------------------------------
(* Attributes.                                                              *)

(* dwarf_attr_integrate(): a DIE has what its abstract origin, or the DIE   *)
(* it completes, has.                                                       *)
Onward(d) == IF dies[d].origin # 0 THEN dies[d].origin ELSE dies[d].specification
Chain(d) == LET second == Onward(d)
                third == IF second = 0 THEN 0 ELSE Onward(second)
            IN SelectSeq(<<d, second, third>>, LAMBDA e : e # 0)
Holder(d, attr) ==
    LET holders == SelectSeq(Chain(d), LAMBDA e : dies[e][attr] # NoDIE[attr])
    IN IF holders = <<>> THEN d ELSE holders[1]

(* die_string_attribute(), die_flag_attribute(), die_size_in_bits() ...     *)
Attr(d, attr) == dies[Holder(d, attr)][attr]
NameOf(d) == Attr(d, "name")
DieIsPublicDecl(d) == Attr(d, "external")
DieIsArtificial(d) == Attr(d, "artificial")

(* The form of a reference is DW_FORM_GNU_ref_alt.                          *)
RefersToAlt(d, attr) == dies[d][attr] # 0 /\ ~dies[d].alt /\ dies[dies[d][attr]].alt

ThroughGnuRefAlt(d, attr, holder, thruOrigin) ==
    \/ RefersToAlt(holder, attr)
    \/ /\ thruOrigin
       /\ \/ RefersToAlt(d, "origin")
          \/ dies[d].origin = 0 /\ RefersToAlt(d, "specification")
          \/ dies[d].origin # 0 /\ RefersToAlt(dies[d].origin, "specification")

(* die_die_attribute(): the DIE, and whether it is taken to be in the       *)
(* alternate file.                                                          *)
DieDieAttribute(d, alt, attr, thruOrigin) ==
    LET holder == IF thruOrigin THEN Holder(d, attr) ELSE d
    IN [die |-> dies[holder][attr],
        alt |-> ThroughGnuRefAlt(d, attr, holder, thruOrigin) \/ alt]

TypeRef(d, alt) == DieDieAttribute(d, alt, "type", TRUE)

(* What the scope of a DIE is that of.                                      *)
ClonedDie(d, alt) ==
    IF dies[d].specification # 0 THEN DieDieAttribute(d, alt, "specification", FALSE)
    ELSE DieDieAttribute(d, alt, "origin", FALSE)

(* What a function, or another declaration, completes or is a copy of.      *)
CompletedBy(d, alt) ==
    IF dies[d].tag # "function" THEN ClonedDie(d, alt)
    ELSE IF Attr(d, "origin") # 0 THEN DieDieAttribute(d, alt, "origin", TRUE)
    ELSE DieDieAttribute(d, alt, "specification", TRUE)

(* die_member_offset(), die_virtual_function_index(): the offset, or <<>>.  *)
OffsetOf(d) ==
    IF Attr(d, "location") = <<>> THEN <<>>
    ELSE LET last == EvalLastConstantSubExpr(Attr(d, "location"))
         IN IF last.accum.const THEN <<last.accum.value>> ELSE <<>>

-----------------------------------------------------------------------------
(* Where a DIE is.                                                          *)

(* find_last_import_unit_point_before_die(): the offsets of the partial     *)
(* units that the unit imports before "where", one through another.         *)
ImportedOffsets ==
    LET importedBy(u) ==
          {dies[c].import : c \in {c \in ToSet(Children(u)) :
                                     /\ dies[c].tag = "imported"
                                     /\ dies[where].parent = u => c < where}}
        upTo[n \in DIE] ==
          IF n = 1 THEN importedBy(unit) ELSE UNION {{u} \cup importedBy(u) : u \in upTo[n - 1]}
    IN {dies[p].offset : p \in upTo[Len(dies)]}

(* The parent in the map of the file: 0 if it has no such offset.           *)
MappedParent(d, alt) ==
    LET there == {e \in DIE : dies[e].alt = alt /\ dies[e].offset = dies[d].offset}
    IN IF there = {} THEN 0 ELSE dies[CHOOSE e \in there : TRUE].parent

(* get_parent_die(): what is in a partial unit is where that is imported.   *)
(* 0: an assertion fails.                                                   *)
GetParentDie(d, alt) ==
    LET parent == MappedParent(d, alt)
    IN IF parent = 0 \/ dies[parent].tag # "partial" THEN parent
       ELSE IF dies[parent].offset \in ImportedOffsets THEN unit
       ELSE IF alt THEN parent ELSE 0

-----------------------------------------------------------------------------
(* The IR.                                                                  *)
Node(tag, d, name, scope, parts) ==
    [tag |-> tag, die |-> d, unit |-> unit, name |-> name, scope |-> scope, parts |-> parts,
     declaration |-> FALSE, definition |-> 0, this |-> 0, static |-> FALSE,
     offsets |-> <<>>, virtuals |-> <<>>]

NewNode == Len(nodes) + 1
GlobalScopeOf(u) == CHOOSE n \in DOMAIN nodes : nodes[n].tag = "unit" /\ nodes[n].die = u
GlobalScope == GlobalScopeOf(unit)
IsClass(n) == n # 0 /\ nodes[n].tag = "class"
IsScope(n) == n # 0 /\ nodes[n].tag \in ScopeTag
MembersOf(s) == SelectSeq([n \in DOMAIN nodes |-> n], LAMBDA n : nodes[n].scope = s)

QualifiedName(n) ==
    LET path[m \in DOMAIN nodes] ==
          IF nodes[m].scope = 0 \/ nodes[m].tag = "unit" THEN <<nodes[m].name>>
          ELSE IF nodes[nodes[m].scope].tag = "unit" THEN <<nodes[m].name>>
          ELSE Append(path[nodes[m].scope], nodes[m].name)
    IN path[n]

(* lookup_node_in_scope(): the first scope of each name, then the first of  *)
(* the last name; classes that are only declared do not count.              *)
LookupInScope(tags, path, scope) ==
    LET first(s, P(_)) == LET found == SelectSeq(MembersOf(s), P)
                          IN IF found = <<>> THEN 0 ELSE found[1]
        within[i \in 1 .. Len(path)] ==
          IF i = 1 THEN scope
          ELSE LET outer == within[i - 1]
               IN IF outer = 0 THEN 0
                  ELSE first(outer, LAMBDA n : IsScope(n) /\ nodes[n].name = path[i - 1])
        last == within[Len(path)]
    IN IF last = 0 THEN 0
       ELSE first(last, LAMBDA n : /\ nodes[n].tag \in tags /\ nodes[n].name = Last(path)
                                   /\ ~nodes[n].declaration)

LookupTypeInScope(path, scope) == LookupInScope(TypeTag, path, scope)
LookupVarDeclInScope(name, scope) == LookupInScope({"variable"}, <<name>>, scope)

(* lookup_class_type_in_corpus(): in the units that have been read, in order*)
LookupClassInCorpus(path) ==
    LET inUnit == [i \in DOMAIN Units |-> LookupInScope({"class"}, path, GlobalScopeOf(Units[i]))]
        found == SelectSeq(inUnit, LAMBDA n : n # 0)
    IN IF found = <<>> THEN 0 ELSE found[1]

(* associate_die_to_decl(), associate_die_to_type()                         *)
Associate(map, d, alt, n) == (<<alt, dies[d].offset>> :> n) @@ map

(* lookup_decl_from_die_offset(), lookup_type_from_die_offset()             *)
Lookup(map, key) == IF key \in DOMAIN map THEN map[key] ELSE 0
KeyOf(f) == <<f.alt, dies[f.die].offset>>

-----------------------------------------------------------------------------
(* Calls.  "scope" is get_scope_for_die(), "node" build_ir_node_from_die(), *)
(* "at" how far it is; "scope" is the scope it is given, if it is, "node"   *)
(* what it has built, "spec" the reference to what the DIE completes.       *)
Unknown == -1
Frame(call, d, alt, scope, public) ==
    [call |-> call, die |-> d, alt |-> alt, scope |-> scope, public |-> public,
     at |-> "begin", node |-> 0, parts |-> <<>>, this |-> 0, next |-> 1,
     spec |-> [die |-> 0, alt |-> FALSE]]

Running == frames # <<>> /\ phase = "units"
Top == Head(frames)
Die == Top.die
Tag == dies[Die].tag
At(call, step) == Running /\ Top.call = call /\ Top.at = step
Asked(call, step) == At(call, step) /\ answer = Pending
Answered(call, step) == At(call, step) /\ answer # Pending

(* The caller waits at "step" for what it calls.                            *)
Call(top, step, f) ==
    /\ frames' = <<f, [top EXCEPT !.at = step]>> \o Tail(frames)
    /\ answer' = Pending
    /\ UNCHANGED phase
CallScope(top, step, d, alt, public) ==
    Call(top, step, Frame("scope", d, alt, Unknown, public))
CallNode(top, step, ref, scope, public) ==
    Call(top, step, Frame("node", ref.die, ref.alt, scope, public))
GoOn(top, step) ==
    /\ frames' = <<[top EXCEPT !.at = step]>> \o Tail(frames)
    /\ answer' = Pending
    /\ UNCHANGED phase
Return(n) == frames' = Tail(frames) /\ answer' = n /\ UNCHANGED phase
Abort == phase' = "aborted" /\ UNCHANGED calls

-----------------------------------------------------------------------------
(* get_scope_for_die()                                                      *)

(* What completes another DIE or is a copy of it is where that is, what is  *)
(* in a function is where the function is.                                  *)
ScopeBegins ==
    /\ Asked("scope", "begin")
    /\ \E ref \in {ClonedDie(Die, Top.alt)}, parent \in {GetParentDie(Die, Top.alt)} :
         IF ref.die # 0
         THEN /\ frames' = <<[Top EXCEPT !.die = ref.die, !.alt = ref.alt]>> \o Tail(frames)
              /\ UNCHANGED <<answer, phase>>
         ELSE IF parent = 0 THEN Abort
         ELSE CASE dies[parent].tag = "unit" -> Return(GlobalScopeOf(parent))
                [] dies[parent].tag = "partial" -> Return(GlobalScope)
                [] dies[parent].tag = "function" ->
                     /\ frames' = <<[Top EXCEPT !.die = parent]>> \o Tail(frames)
                     /\ UNCHANGED <<answer, phase>>
                [] OTHER -> CallNode(Top, "built", [die |-> parent, alt |-> Top.alt],
                                     Unknown, Top.public)
    /\ UNCHANGED <<world, position, ir, variables>>

ScopeBuilt ==
    /\ Answered("scope", "built")
    /\ Return(IF ~IsScope(answer) THEN 0
              ELSE IF nodes[answer].declaration /\ nodes[answer].definition # 0
                   THEN nodes[answer].definition ELSE answer)
    /\ UNCHANGED <<world, position, ir, variables>>

GetScopeForDie == ScopeBegins \/ ScopeBuilt

-----------------------------------------------------------------------------
(* build_ir_node_from_die(): what the kinds of DIEs have in common.         *)

IsIgnored == ~Top.public /\ ~(all /\ Tag \in TypeTag)
                /\ Tag \notin {"function", "variable", "member", "namespace"}

NodeScope ==
    /\ Asked("node", "begin") /\ Top.scope = Unknown
    /\ CallScope(Top, "scoped", Die, Top.alt, Top.public)
    /\ UNCHANGED <<world, position, ir, variables>>

NodeLookedUp ==
    /\ \/ Answered("node", "scoped")
       \/ Asked("node", "begin") /\ Top.scope # Unknown
    /\ \E scope \in {IF Top.scope = Unknown THEN answer ELSE Top.scope} :
         IF scope = 0 \/ IsIgnored THEN Return(0)
         ELSE IF Lookup(declOf, KeyOf(Top)) # 0 THEN Return(Lookup(declOf, KeyOf(Top)))
         ELSE GoOn([Top EXCEPT !.scope = scope], "build")
    /\ UNCHANGED <<world, position, ir, variables>>

(* What is read with what it is in, or looked into, is not expected here.   *)
NotExpected == {"subrange", "parameter", "unit", "partial", "imported"}

BuildNothing ==
    /\ Asked("node", "build")
    /\ \/ Tag \notin (TypeTag \ {"subrange", "unsupported"})
                      \cup {"namespace", "variable", "function"}
       \/ Tag \in {"base"} /\ ~Attr(Die, "sized")
       \/ Tag \in {"reference", "qualified", "typedef", "array"} /\ TypeRef(Die, Top.alt).die = 0
       \/ Tag = "function" /\ DieIsArtificial(Die)
    /\ IF Tag \in NotExpected THEN Abort ELSE Return(0)
    /\ UNCHANGED <<world, position, ir, variables>>

(* The node is built: it is what the DIE and its type are known by.         *)
Known(n, d, alt) ==
    /\ declOf' = Associate(declOf, d, alt, n)
    /\ Return(n)

-----------------------------------------------------------------------------
(* Types but for classes.                                                   *)

(* build_type_decl(), build_enum_type()                                     *)
BuildLeafType ==
    /\ Asked("node", "build")
    /\ Tag = "enum" \/ (Tag = "base" /\ Attr(Die, "sized"))
    /\ nodes' = Append(nodes, Node(Tag, Die, NameOf(Die),
                                   IF Tag = "base" THEN GlobalScope ELSE Top.scope, <<>>))
    /\ typeOf' = Associate(typeOf, Die, Top.alt, NewNode)
    /\ Known(NewNode, Die, Top.alt)
    /\ UNCHANGED <<world, position, wip, declOnly, variables>>

(* build_pointer_type_def(), build_reference_type(), build_qualified_type(),*)
(* build_typedef_type(), build_array_type(): first what it refers to.       *)
BuildReferredType ==
    /\ Asked("node", "build") /\ Tag \in Referring
    /\ \E ref \in {TypeRef(Die, Top.alt)} :
         \/ /\ ref.die # 0
            /\ CallNode(Top, "referred", ref, Unknown, Top.public)
         \/ /\ ref.die = 0 /\ Tag = "pointer"
            /\ frames' = <<[Top EXCEPT !.at = "referred"]>> \o Tail(frames)
            /\ answer' = Void
            /\ UNCHANGED phase
    /\ UNCHANGED <<world, position, ir, variables>>

(* A pointer or reference needs a size, the dimensions of an array bounds.  *)
IsUnfinished ==
    \/ Tag \in {"pointer", "reference"} /\ ~Attr(Die, "sized")
    \/ Tag = "array" /\ \E c \in ToSet(Children(Die)) :
                          dies[c].tag = "subrange" /\ ~dies[c].sized

(* Mutant of IsBuiltMeanwhile: what was built meanwhile is built again.     *)
IsNeverBuiltMeanwhile == FALSE

IsBuiltMeanwhile == Lookup(typeOf, KeyOf(Top)) # 0

DropReferringType ==
    /\ Answered("node", "referred")
    /\ answer = 0 \/ (~IsBuiltMeanwhile /\ IsUnfinished)
    /\ Return(0)
    /\ UNCHANGED <<world, position, ir, variables>>

(* maybe_strip_qualification(): a qualified reference is the reference.     *)
Stripped(n, part) == IF Tag = "qualified" /\ nodes[part].tag = "reference" THEN part ELSE n

RecallReferringType ==
    /\ Answered("node", "referred") /\ answer # 0 /\ IsBuiltMeanwhile
    /\ \E n \in {Lookup(typeOf, KeyOf(Top))} :
         IF nodes[n].tag = Tag
         THEN Known(Stripped(n, nodes[n].parts[1]), Die, Top.alt)
         ELSE Abort /\ UNCHANGED declOf
    /\ UNCHANGED <<world, position, nodes, typeOf, wip, declOnly, variables>>

BuildReferringType ==
    /\ Answered("node", "referred") /\ answer # 0 /\ ~IsBuiltMeanwhile /\ ~IsUnfinished
    /\ \E scope \in {IF Stripped(NewNode, answer) # NewNode THEN 0
                     ELSE IF Tag = "typedef" THEN Top.scope ELSE GlobalScope} :
         nodes' = Append(nodes, Node(Tag, Die, IF Tag = "typedef" THEN NameOf(Die) ELSE "",
                                     scope, <<answer>>))
    /\ typeOf' = Associate(typeOf, Die, Top.alt, NewNode)
    /\ Known(Stripped(NewNode, answer), Die, Top.alt)
    /\ UNCHANGED <<world, position, wip, declOnly, variables>>

BuildType ==
    \/ BuildLeafType \/ BuildReferredType \/ DropReferringType \/ RecallReferringType
    \/ BuildReferringType

-----------------------------------------------------------------------------
(* build_class_type_and_add_to_ir()                                         *)
WipClass == Lookup(wip, dies[Die].offset)

(* maybe_schedule_declaration_only_class_for_resolution()                   *)
Scheduled(ns, n) == IF ns[n].declaration /\ ns[n].definition = 0 THEN declOnly \cup {n}
                    ELSE declOnly
IsScheduled(n) == \E m \in declOnly : QualifiedName(m) = QualifiedName(n)

ClassCompletes ==
    /\ Asked("node", "build") /\ Tag = "class"
    /\ dies[Die].specification # 0
    /\ \E ref \in {DieDieAttribute(Die, Top.alt, "specification", TRUE)} :
         CallScope([Top EXCEPT !.spec = ref], "completed scope", ref.die, ref.alt, Top.public)
    /\ UNCHANGED <<world, position, ir, variables>>

CompletedClass ==
    /\ Answered("node", "completed scope") /\ Tag = "class"
    /\ IF answer = 0 THEN Abort
       ELSE CallNode(Top, "completed", Top.spec, answer, Top.public)
    /\ UNCHANGED <<world, position, ir, variables>>

(* A class that is being built is what is built of it so far; it is to be   *)
(* canonicalized later, and must be known as a type for that.               *)
ClassInProgress ==
    /\ \/ Asked("node", "build") /\ Tag = "class" /\ dies[Die].specification = 0
       \/ Answered("node", "completed") /\ Tag = "class"
    /\ WipClass # 0
    /\ IF Lookup(typeOf, KeyOf(Top)) = 0 THEN Abort /\ UNCHANGED declOf
       ELSE Known(WipClass, Die, Top.alt)
    /\ UNCHANGED <<world, position, nodes, typeOf, wip, declOnly, variables>>

(* The node of the class is there before what is in it.                     *)
OpenClass(n, ns) ==
    /\ nodes' = ns
    /\ typeOf' = Associate(typeOf, Die, Top.alt, n)
    /\ IF Children(Die) = <<>>
       THEN declOnly' = Scheduled(ns, n) /\ Known(n, Die, Top.alt) /\ UNCHANGED wip
       ELSE /\ wip' = (dies[Die].offset :> n) @@ wip
            /\ GoOn([Top EXCEPT !.node = n], "members")
            /\ UNCHANGED <<declOf, declOnly>>
    /\ UNCHANGED <<world, position, variables>>

NewClass ==
    /\ Asked("node", "build") /\ Tag = "class" /\ dies[Die].specification = 0
    /\ WipClass = 0
    /\ OpenClass(NewNode,
                 Append(nodes, [Node("class", Die, NameOf(Die), Top.scope, <<>>)
                                  EXCEPT !.declaration = Attr(Die, "declaration")
                                                           /\ ~Attr(Die, "sized")]))

DefineClass ==
    /\ Answered("node", "completed") /\ Tag = "class" /\ WipClass = 0
    /\ IF IsClass(answer)
       THEN OpenClass(answer, [nodes EXCEPT ![answer].declaration = @ /\ ~Attr(Die, "sized")])
       ELSE Abort /\ UNCHANGED <<world, position, ir, variables>>

Member == Children(Die)[Top.next]
MemberTag == dies[Member].tag
NextMember == [Top EXCEPT !.next = @ + 1]
HasType == {"inheritance", "member", "variable"}

MemberBegins ==
    /\ Asked("node", "members") /\ Top.next <= Len(Children(Die))
    /\ nodes' = IF MemberTag \in HasType \cup TypeTag \cup {"function"}
                THEN [nodes EXCEPT ![Top.node].declaration = FALSE] ELSE nodes
    /\ \E ref \in {IF MemberTag \in HasType THEN TypeRef(Member, Top.alt)
                   ELSE [die |-> Member, alt |-> Top.alt]} :
         IF MemberTag \notin HasType \cup TypeTag \cup {"function"} \/ ref.die = 0
         THEN GoOn(NextMember, "members")
         ELSE CallNode(Top, "member", ref,
                       IF MemberTag \in HasType THEN Unknown ELSE Top.node, Top.public)
    /\ UNCHANGED <<world, position, declOf, typeOf, wip, declOnly, variables>>

OffsetOr(d, none) == IF OffsetOf(d) = <<>> THEN none ELSE OffsetOf(d)[1]

BaseBuilt ==
    /\ Answered("node", "member") /\ MemberTag = "inheritance"
    /\ IF ~IsClass(answer) THEN GoOn(NextMember, "members") /\ UNCHANGED nodes
       ELSE IF LookupTypeInScope(<<nodes[answer].name>>, Top.node) # 0
       THEN GoOn(NextMember, "members") /\ UNCHANGED nodes
       ELSE IF nodes[answer].declaration /\ ~IsScheduled(answer)
       THEN Abort /\ UNCHANGED nodes
       ELSE /\ nodes' = [nodes EXCEPT ![Top.node].parts = Append(@, answer),
                                      ![Top.node].offsets = Append(@, OffsetOr(Member, -1))]
            /\ GoOn(NextMember, "members")
    /\ UNCHANGED <<world, position, declOf, typeOf, wip, declOnly, variables>>

(* Of two data members with one name, or none, the first is kept.           *)
DataMemberBuilt ==
    /\ Answered("node", "member") /\ MemberTag \in {"member", "variable"}
    /\ IF answer = 0 \/ LookupVarDeclInScope(NameOf(Member), Top.node) # 0
       THEN UNCHANGED <<nodes, declOf>>
       ELSE /\ nodes' = Append(nodes, [Node("variable", Member, NameOf(Member), Top.node, <<answer>>)
                                         EXCEPT !.static = OffsetOf(Member) = <<>>,
                                                !.offsets = <<8 * OffsetOr(Member, 0)>>])
            /\ declOf' = Associate(declOf, Member, Top.alt, NewNode)
    /\ GoOn(NextMember, "members")
    /\ UNCHANGED <<world, position, typeOf, wip, declOnly, variables>>

(* A member function is static if its first parameter is not a "this".      *)
IsStaticIn(f, class) ==
    LET pointer == nodes[f].this
        pointed == IF pointer # 0 /\ nodes[pointer].tag = "pointer" THEN nodes[pointer].parts[1] ELSE 0
        target == IF pointed # 0 /\ nodes[pointed].tag = "qualified"
                  THEN nodes[pointed].parts[1] ELSE pointed
    IN target = 0 \/ QualifiedName(target) # QualifiedName(class)

(* fixup_virtual_member_function(), sort_virtual_member_functions(): of two *)
(* with one index the first stays the first, where the code looks at names. *)
WithVirtual(ns, f, class) ==
    LET listed == ns[class].virtuals
        withF == IF f \in ToSet(listed) THEN listed ELSE Append(listed, f)
        index(g) == ns[g].offsets[1]
    IN [ns EXCEPT ![class].virtuals = SortSeq(withF, LAMBDA g, h : index(g) < index(h))]

(* finish_member_function_reading()                                         *)
Finished(f, class, d) ==
    LET isVirtual == Attr(d, "virtual")
        member == [nodes EXCEPT ![f].static = IsStaticIn(f, class),
                                ![f].offsets = <<IF isVirtual THEN OffsetOr(d, 0) ELSE 0>>]
    IN IF isVirtual THEN WithVirtual(member, f, class) ELSE member

MemberFunctionBuilt ==
    /\ Answered("node", "member") /\ MemberTag = "function"
    /\ IF answer = 0 THEN UNCHANGED <<nodes, declOf>>
       ELSE /\ nodes' = Finished(answer, Top.node, Member)
            /\ declOf' = Associate(declOf, Member, Top.alt, answer)
    /\ GoOn(NextMember, "members")
    /\ UNCHANGED <<world, position, typeOf, wip, declOnly, variables>>

MemberTypeBuilt ==
    /\ Answered("node", "member") /\ MemberTag \in TypeTag
    /\ GoOn(NextMember, "members")
    /\ UNCHANGED <<world, position, ir, variables>>

ClassEnds ==
    /\ Asked("node", "members") /\ Top.next > Len(Children(Die))
    /\ wip' = Restrict(wip, DOMAIN wip \ {dies[Die].offset})
    /\ declOnly' = Scheduled(nodes, Top.node)
    /\ Known(Top.node, Die, Top.alt)
    /\ UNCHANGED <<world, position, nodes, typeOf, variables>>

BuildClass ==
    \/ ClassCompletes \/ CompletedClass \/ ClassInProgress \/ NewClass \/ DefineClass
    \/ MemberBegins \/ BaseBuilt \/ DataMemberBuilt \/ MemberFunctionBuilt
    \/ MemberTypeBuilt \/ ClassEnds

-----------------------------------------------------------------------------
(* build_namespace_decl_and_add_to_ir(): only the functions, variables and  *)
(* namespaces in it are read, unless all types are.                         *)
NamespaceBegins ==
    /\ Asked("node", "build") /\ Tag = "namespace"
    /\ CallScope(Top, "namespace scope", Die, Top.alt, FALSE)
    /\ UNCHANGED <<world, position, ir, variables>>

NamespaceOpens ==
    /\ Answered("node", "namespace scope")
    /\ nodes' = Append(nodes, Node("namespace", Die, NameOf(Die), answer, <<>>))
    /\ declOf' = Associate(declOf, Die, Top.alt, NewNode)
    /\ GoOn([Top EXCEPT !.node = NewNode], "contents")
    /\ UNCHANGED <<world, position, typeOf, wip, declOnly, variables>>

NamespaceContents ==
    /\ At("node", "contents") /\ Top.next <= Len(Children(Die))
    /\ CallNode(NextMember, "contents", [die |-> Member, alt |-> Top.alt], Unknown, FALSE)
    /\ UNCHANGED <<world, position, ir, variables>>

NamespaceEnds ==
    /\ At("node", "contents") /\ Top.next > Len(Children(Die))
    /\ Known(Top.node, Die, Top.alt)
    /\ UNCHANGED <<world, position, nodes, typeOf, wip, declOnly, variables>>

BuildNamespace ==
    \/ NamespaceBegins \/ NamespaceOpens \/ NamespaceContents \/ NamespaceEnds

-----------------------------------------------------------------------------
(* Variables: build_var_decl() and what is done with it.                    *)
IsDataMember(n) == nodes[n].tag = "variable" /\ IsClass(nodes[n].scope)

(* var_decl::clone(), function_decl::clone(): in the scope of the original. *)
WithClone(n) ==
    LET copied == Append(nodes, nodes[n])
    IN IF nodes[n].tag = "function" /\ IsClass(nodes[n].scope) /\ n \in ToSet(nodes[nodes[n].scope].virtuals)
       THEN WithVirtual(copied, NewNode, nodes[n].scope) ELSE copied

(* What the variable is an instance of, or completes, is looked for first.  *)
VariableClones ==
    /\ Asked("node", "build") /\ Tag = "variable"
    /\ \E ref \in {ClonedDie(Die, Top.alt)} :
         /\ ref.die # 0
         /\ CallScope([Top EXCEPT !.spec = ref], "variable scope", ref.die, ref.alt, Top.public)
    /\ UNCHANGED <<world, position, ir, variables>>

VariableScope ==
    /\ Answered("node", "variable scope")
    /\ IF answer = 0 THEN Return(0)
       ELSE CallNode(Top, "original", Top.spec, answer, Top.public)
    /\ UNCHANGED <<world, position, ir, variables>>

OriginalVariable ==
    /\ Answered("node", "original")
    /\ IF answer = 0 THEN Return(0) /\ UNCHANGED nodes
       ELSE \E copied \in {dies[Die].specification = 0} :
              /\ nodes' = IF copied THEN WithClone(answer) ELSE nodes
              /\ GoOn([Top EXCEPT !.node = IF copied THEN NewNode ELSE answer], "type")
    /\ UNCHANGED <<world, position, declOf, typeOf, wip, declOnly, variables>>

(* The type of a variable that completes another is looked for in the file  *)
(* of the other.                                                            *)
VariableType ==
    /\ \/ Asked("node", "type")
       \/ Asked("node", "build") /\ Tag = "variable" /\ ClonedDie(Die, Top.alt).die = 0
    /\ \E ref \in {TypeRef(Die, IF Top.node = 0 THEN Top.alt ELSE Top.spec.alt)} :
         IF ~DieIsPublicDecl(Die) \/ ref.die = 0
         THEN /\ frames' = <<[Top EXCEPT !.at = "typed"]>> \o Tail(frames)
              /\ answer' = 0
              /\ UNCHANGED phase
         ELSE CallNode(Top, "typed", ref, Unknown, TRUE)
    /\ UNCHANGED <<world, position, ir, variables>>

(* The variable is known by its DIE in the file of the other.               *)
VariableCompleted ==
    /\ Answered("node", "typed") /\ Top.node # 0
    /\ \E v \in {Top.node} :
         /\ IF IsDataMember(v)
            THEN /\ nodes' = [nodes EXCEPT ![v].static = TRUE]
                 /\ declOf' = Associate(declOf, Die, Top.spec.alt, v)
                 /\ UNCHANGED reAdd
            ELSE reAdd' = Append(reAdd, v) /\ UNCHANGED <<nodes, declOf>>
         /\ exported' = exported \cup {v}
         /\ Return(v)
    /\ UNCHANGED <<world, position, typeOf, wip, declOnly>>

NewVariable ==
    /\ Answered("node", "typed") /\ Top.node = 0
    /\ IF answer = 0 THEN Return(0) /\ UNCHANGED <<nodes, declOf, variables>>
       ELSE /\ nodes' = Append(nodes, Node("variable", Die, NameOf(Die), Top.scope, <<answer>>))
            /\ reAdd' = Append(reAdd, NewNode)
            /\ exported' = exported \cup {NewNode}
            /\ Known(NewNode, Die, Top.alt)
    /\ UNCHANGED <<world, position, typeOf, wip, declOnly>>

BuildVariable ==
    \/ VariableClones \/ VariableScope \/ OriginalVariable \/ VariableType
    \/ VariableCompleted \/ NewVariable

-----------------------------------------------------------------------------
(* Functions: build_function_decl() and what is done with it.               *)
FunctionBegins ==
    /\ Asked("node", "build") /\ Tag = "function" /\ ~DieIsArtificial(Die)
    /\ \E ref \in {CompletedBy(Die, Top.alt)} :
         IF ref.die = 0 THEN GoOn(Top, "declaration")
         ELSE CallScope([Top EXCEPT !.spec = ref], "function scope", ref.die, ref.alt, Top.public)
    /\ UNCHANGED <<world, position, ir, variables>>

FunctionScope ==
    /\ Answered("node", "function scope")
    /\ IF answer = 0 THEN GoOn(Top, "declaration")
       ELSE CallNode(Top, "original function", Top.spec, answer, Top.public)
    /\ UNCHANGED <<world, position, ir, variables>>

(* An instance with a linkage name of its own is a copy of its origin.      *)
OriginalFunction ==
    /\ Answered("node", "original function")
    /\ IF answer = 0 THEN GoOn(Top, "declaration") /\ UNCHANGED <<nodes, declOf>>
       ELSE \E copied \in {/\ Attr(Die, "origin") # 0
                           /\ Attr(Die, "linkage") # Attr(Top.spec.die, "linkage")} :
            \E f \in {IF copied THEN NewNode ELSE answer} :
              /\ nodes' = IF copied THEN WithClone(answer) ELSE nodes
              /\ declOf' = Associate(declOf, Die, Top.spec.alt, f)
              /\ GoOn([Top EXCEPT !.node = f], "declaration")
    /\ UNCHANGED <<world, position, typeOf, wip, declOnly, variables>>

FunctionReturns ==
    /\ Asked("node", "declaration") /\ DieIsPublicDecl(Die)
    /\ \E ref \in {TypeRef(Die, Top.alt)} :
         IF ref.die # 0 THEN CallNode(Top, "returned", ref, Unknown, TRUE)
         ELSE /\ frames' = <<[Top EXCEPT !.at = "returned"]>> \o Tail(frames)
              /\ answer' = Void
              /\ UNCHANGED phase
    /\ UNCHANGED <<world, position, ir, variables>>

FunctionReturned ==
    /\ Answered("node", "returned")
    /\ CallScope([Top EXCEPT !.parts = <<IF answer = 0 THEN Void ELSE answer>>],
                 "method", Die, Top.alt, TRUE)
    /\ UNCHANGED <<world, position, ir, variables>>

HasParameters == Top.node = 0 /\ Top.next <= Len(Children(Die))

(* A parameter whose type is not read is left out.                          *)
ParameterBegins ==
    /\ Answered("node", "method") \/ Asked("node", "parameters")
    /\ HasParameters
    /\ \E ref \in {TypeRef(Member, Top.alt)} :
         IF MemberTag = "parameter" /\ ref.die # 0
         THEN CallNode(Top, "parameter", ref, Unknown, TRUE)
         ELSE GoOn(NextMember, "parameters")
    /\ UNCHANGED <<world, position, ir, variables>>

ParameterBuilt ==
    /\ Answered("node", "parameter")
    /\ GoOn(IF answer = 0 THEN NextMember
            ELSE [NextMember EXCEPT !.parts = Append(@, answer),
                                    !.this = IF Len(Top.parts) = 1 /\ DieIsArtificial(Member)
                                             THEN answer ELSE @],
            "parameters")
    /\ UNCHANGED <<world, position, ir, variables>>

FunctionDeclared ==
    /\ Answered("node", "method") \/ Asked("node", "parameters")
    /\ ~HasParameters
    /\ \E f \in {IF Top.node = 0 THEN NewNode ELSE Top.node} :
         /\ nodes' = IF Top.node # 0 THEN nodes
                     ELSE Append(nodes, [Node("function", Die, NameOf(Die), Top.scope, Top.parts)
                                           EXCEPT !.this = Top.this])
         /\ typeOf' = Associate(typeOf, Die, Top.alt, f)
         /\ GoOn([Top EXCEPT !.node = f], "finish")
    /\ UNCHANGED <<world, position, declOf, wip, declOnly, variables>>

(* Only what is public is declared; the type of the function is known by    *)
(* the DIE then.                                                            *)
FunctionNotDeclared ==
    /\ Asked("node", "declaration") /\ ~DieIsPublicDecl(Die)
    /\ IF Top.node = 0 THEN Return(0) ELSE GoOn(Top, "finish")
    /\ UNCHANGED <<world, position, ir, variables>>

FunctionFinished ==
    /\ Asked("node", "finish")
    /\ \E f \in {Top.node} :
         /\ nodes' = IF IsClass(nodes[f].scope)
                     THEN Finished(f, nodes[f].scope, Die) ELSE nodes
         /\ exported' = exported \cup {f}
         /\ IF Lookup(typeOf, KeyOf(Top)) = 0 THEN Abort /\ UNCHANGED declOf
            ELSE Known(f, Die, Top.alt)
    /\ UNCHANGED <<world, position, typeOf, wip, declOnly, reAdd>>

BuildFunction ==
    \/ FunctionBegins \/ FunctionScope \/ OriginalFunction \/ FunctionReturns
    \/ FunctionReturned \/ ParameterBegins \/ ParameterBuilt \/ FunctionDeclared
    \/ FunctionNotDeclared \/ FunctionFinished

BuildIrNodeFromDie ==
    \/ NodeScope \/ NodeLookedUp \/ BuildNothing \/ BuildType \/ BuildClass
    \/ BuildNamespace \/ BuildVariable \/ BuildFunction

-----------------------------------------------------------------------------
(* read_debug_info_into_corpus(), build_translation_unit_and_add_to_ir()    *)
Idle == frames = <<>> /\ phase = "units"
LeftIn(u) == IF u = 0 THEN <<>> ELSE SelectSeq(Children(u), LAMBDA c : c > where)
UnitsLeft == SelectSeq(Units, LAMBDA u : u > unit)

ReadUnit ==
    /\ Idle /\ LeftIn(unit) = <<>> /\ reAdd = <<>> /\ UnitsLeft # <<>>
    /\ unit' = UnitsLeft[1] /\ where' = unit'
    /\ nodes' = Append(nodes, [Node("unit", unit', "", 0, <<>>) EXCEPT !.unit = unit'])
    /\ UNCHANGED <<world, declOf, typeOf, wip, declOnly, variables, calls, phase>>

ReadDie ==
    /\ Idle /\ LeftIn(unit) # <<>>
    /\ where' = LeftIn(unit)[1]
    /\ frames' = <<Frame("node", where', FALSE, Unknown, DieIsPublicDecl(where'))>>
    /\ answer' = Pending
    /\ UNCHANGED <<world, unit, ir, variables, phase>>

(* Mutant of LeftToReAdd: the variable stays in the list.                   *)
NoneReAdded == reAdd

LeftToReAdd == Tail(reAdd)

(* A variable whose mangled name tells a class is a member of it: it is the *)
(* member of its name, or else becomes one.                                 *)
ReAddVariable ==
    /\ Idle /\ LeftIn(unit) = <<>> /\ reAdd # <<>>
    /\ \E v \in {reAdd[1]} :
       \E path \in {Attr(nodes[v].die, "path")} :
       \E class \in {IF IsDataMember(v) \/ path = <<>> THEN 0
                     ELSE LookupTypeInScope(path, GlobalScope)} :
         IF ~IsClass(class) THEN UNCHANGED nodes
         ELSE \E member \in {LookupVarDeclInScope(nodes[v].name, class)} :
                nodes' = IF member # 0 THEN [nodes EXCEPT ![member].static = TRUE]
                         ELSE [nodes EXCEPT ![v].scope = class, ![v].static = TRUE]
    /\ reAdd' = LeftToReAdd
    /\ UNCHANGED <<world, position, declOf, typeOf, wip, declOnly, exported, calls, phase>>

(* Mutant of ToResolve: only the first of a name is given its definition.   *)
ToResolveOnce(n) ==
    /\ n \in declOnly /\ nodes[n].declaration
    /\ \A m \in declOnly : m < n => QualifiedName(m) # QualifiedName(n)

ToResolve(n) == n \in declOnly /\ nodes[n].declaration /\ nodes[n].definition = 0

ResolveDeclarationOnlyClasses ==
    /\ Idle /\ LeftIn(unit) = <<>> /\ reAdd = <<>> /\ UnitsLeft = <<>>
    /\ nodes' = [n \in DOMAIN nodes |->
                   IF ToResolve(n)
                   THEN [nodes[n] EXCEPT !.definition = LookupClassInCorpus(QualifiedName(n))]
                   ELSE nodes[n]]
    /\ declOnly' = {n \in declOnly : ToResolve(n) /\ LookupClassInCorpus(QualifiedName(n)) = 0}
    /\ phase' = "done"
    /\ UNCHANGED <<world, position, declOf, typeOf, wip, variables, calls>>

ReadDebugInfo == ReadUnit \/ ReadDie \/ ReAddVariable \/ ResolveDeclarationOnlyClasses

Init ==
    /\ dies \in Programs /\ all \in BOOLEAN
    /\ unit = 0 /\ where = 0
    /\ nodes = <<[Node("void", 0, "void", 0, <<>>) EXCEPT !.unit = 0]>>
    /\ declOf = <<>> /\ typeOf = <<>> /\ wip = <<>>
    /\ declOnly = {} /\ reAdd = <<>> /\ exported = {}
    /\ frames = <<>> /\ answer = Pending
    /\ phase = "units"

Next == ReadDebugInfo \/ GetScopeForDie \/ BuildIrNodeFromDie

Spec == Init /\ [][Next]_vars /\ WF_vars(Next)

-----------------------------------------------------------------------------
(* Properties.                                                              *)

(* What the DIEs say.  The DIE that a node is built from, for another: of   *)
(* what another completes or copies, and of a qualified reference.          *)
StandIn ==
    [d \in DIE |->
       LET second == Onward(d)
           original == IF second = 0 THEN d ELSE IF Onward(second) = 0 THEN second ELSE Onward(second)
           type == Attr(original, "type")
       IN IF dies[original].tag = "qualified" /\ type # 0 /\ dies[type].tag = "reference"
          THEN type ELSE original]

(* The DIE around a DIE, functions not counted.                             *)
Around(d) ==
    LET outer[e \in DIE] == IF dies[e].parent = 0 THEN 0
                            ELSE IF dies[dies[e].parent].tag = "function" THEN outer[dies[e].parent]
                            ELSE dies[e].parent
    IN outer[Last(Chain(d))]

(* The DIEs there is a node for: their scopes and types are read as well.   *)
ReadableWith(found, d) ==
    /\ Around(d) # 0
    /\ dies[Around(d)].tag \in {"unit", "partial"}
         \/ (dies[Around(d)].tag \in ScopeTag /\ Around(d) \in found)
    /\ dies[d].specification # 0 => dies[d].specification \in found
    /\ CASE dies[d].tag \in {"enum", "class", "namespace"} -> TRUE
         [] dies[d].tag = "base" -> Attr(d, "sized")
         [] dies[d].tag = "function" -> DieIsPublicDecl(d) /\ ~DieIsArtificial(d)
         [] dies[d].tag = "variable" -> DieIsPublicDecl(d) /\ Attr(d, "type") \in found
         [] dies[d].tag = "member" -> Attr(d, "type") \in found
         [] dies[d].tag \in Referring ->
              /\ IF Attr(d, "type") = 0 THEN dies[d].tag = "pointer" ELSE Attr(d, "type") \in found
              /\ dies[d].tag \in {"pointer", "reference"} => Attr(d, "sized")
              /\ dies[d].tag = "array" => \A c \in ToSet(Children(d)) :
                                            dies[c].tag = "subrange" => dies[c].sized
         [] OTHER -> FALSE

Readable ==
    LET upTo[n \in 0 .. Len(dies)] ==
          IF n = 0 THEN {}
          ELSE LET found == upTo[n - 1] IN found \cup {d \in DIE \ found : ReadableWith(found, d)}
    IN upTo[Len(dies)]

TypesOf(ds) == [i \in DOMAIN ds |-> Attr(ds[i], "type")]
ChildrenOf(d, tag) == SelectSeq(Children(d), LAMBDA c : dies[c].tag = tag)

(* What a node is made of, as DIEs, 0 for void: which is returned, too, if  *)
(* what is returned cannot be read.                                         *)
Made(d, readable) ==
    LET isRead(t) == t \in readable
        type == <<Attr(d, "type")>>
    IN CASE dies[d].tag \in Referring \cup HasType -> type
         [] dies[d].tag = "function" ->
              (IF isRead(type[1]) THEN type ELSE <<0>>)
                \o SelectSeq(TypesOf(ChildrenOf(d, "parameter")), isRead)
         [] dies[d].tag = "class" ->
              SelectSeq(TypesOf(ChildrenOf(d, "inheritance")),
                        LAMBDA t : isRead(t) /\ dies[t].tag = "class")
         [] OTHER -> <<>>

(* Where a data member, a base or a virtual function is.                    *)
OffsetIsRight(n, i) ==
    LET d == nodes[n].die
        bases == SelectSeq(ChildrenOf(d, "inheritance"),
                           LAMBDA c : StandIn[Attr(c, "type")] = nodes[nodes[n].parts[i]].die)
        offset == nodes[n].offsets[i]
        describes(e, k) == Attr(e, "location") # <<>> => Means(Attr(e, "location"), k)
    IN CASE nodes[n].tag = "variable" -> offset % 8 = 0 /\ describes(d, offset \div 8)
         [] nodes[n].tag = "class" -> bases # <<>> => describes(bases[1], offset)
         [] nodes[n].tag = "function" -> describes(d, offset)

VirtualsAreRight(class) ==
    LET listed == nodes[class].virtuals
    IN /\ ToSet(listed) = {f \in DOMAIN nodes : /\ nodes[f].scope = class /\ nodes[f].tag = "function"
                                                /\ Attr(nodes[f].die, "virtual")}
       /\ \A i, j \in DOMAIN listed :
            i < j => /\ listed[i] # listed[j]
                     /\ nodes[listed[i]].offsets[1] <= nodes[listed[j]].offsets[1]

NodeIsRight(n, readable) ==
    LET d == nodes[n].die
        scope == nodes[n].scope
        definitions == {e \in DIE : dies[e].tag = "class" /\ dies[e].specification = d}
        stand == StandIn
    IN /\ \E e \in {d} \cup definitions :
            [i \in DOMAIN nodes[n].parts |-> nodes[nodes[n].parts[i]].die]
              = [i \in DOMAIN Made(e, readable) |->
                   IF Made(e, readable)[i] = 0 THEN 0 ELSE stand[Made(e, readable)[i]]]
       /\ nodes[n].tag \in {"typedef", "enum", "class", "function", "namespace"} =>
            IF dies[Around(d)].tag \in {"unit", "partial"} THEN nodes[scope].tag = "unit"
            ELSE nodes[scope].die = stand[Around(d)]
       /\ \A i \in DOMAIN nodes[n].offsets : OffsetIsRight(n, i)
       /\ IsClass(n) => VirtualsAreRight(n)
       /\ IsClass(scope) /\ nodes[n].tag = "function" =>
            LET parameters == ChildrenOf(d, "parameter")
            IN nodes[n].static <=> parameters = <<>> \/ ~DieIsArtificial(parameters[1])

(* No assertion of the reader fails, a DIE is looked for in the file it is  *)
(* in, whichever references lead to it, a class is known as being built as  *)
(* long as it is, and a DIE that is met again while it is being built, or   *)
(* after, does not get a second node.  In the end the nodes are made of what*)
(* their DIEs refer to, and are where those are; offsets of one file are not*)
(* taken for those of another (get_parent_die, build_class_type_and_add_to_ *)
(* ir, the maps of read_context).                                           *)
NodesAreRight ==
    /\ phase # "aborted"
    /\ \A i \in DOMAIN frames : frames[i].alt = dies[frames[i].die].alt
    /\ {<<o, wip[o]>> : o \in DOMAIN wip}
         = {<<dies[f.die].offset, f.node>> :
              f \in {f \in ToSet(frames) : f.node # 0 /\ dies[f.die].tag = "class"}}
    /\ \A m, n \in DOMAIN nodes :
         m < n /\ nodes[m].die = nodes[n].die =>
           \E d \in DIE : dies[d].specification = 0 /\ Onward(d) # 0 /\ StandIn[d] = nodes[n].die
    /\ phase = "done" =>
         \E readable \in {Readable} :
           \A n \in DOMAIN nodes :
             nodes[n].tag \notin {"void", "unit"} => NodeIsRight(n, readable)

(* What public declarations need, one DIE through another.                  *)
NeededBy(d) ==
    {Attr(d, "type"), Onward(d), Around(d)}
      \cup (IF dies[d].tag = "function" /\ Onward(d) = 0
            THEN ToSet(TypesOf(ChildrenOf(d, "parameter"))) ELSE {})
      \cup (IF dies[d].tag = "class"
            THEN ToSet(TypesOf(ChildrenOf(d, "inheritance"))) \cup ToSet(Children(d)) ELSE {})

InUnits ==
    LET within[n \in 1 .. 3] ==
          IF n = 1 THEN UNION {ToSet(Children(Units[i])) : i \in DOMAIN Units}
          ELSE LET outer == within[n - 1]
               IN outer \cup UNION {ToSet(Children(d)) : d \in {d \in outer : dies[d].tag = "namespace"}}
    IN within[3]

Needed(readable) ==
    LET upTo[n \in DIE] ==
          IF n = 1
          THEN {d \in InUnits \cap readable :
                  dies[d].tag \in {"function", "variable"}
                    \/ (all /\ dies[d].tag \in TypeTag)}
          ELSE LET found == upTo[n - 1]
               IN found \cup (UNION {NeededBy(d) : d \in found} \cap readable)
    IN upTo[Len(dies)]

(* Of the data members with one name the first is read.                     *)
IsRepeated(d, readable) ==
    /\ dies[d].tag \in {"member", "variable"} /\ dies[dies[d].parent].tag = "class"
    /\ \E c \in ToSet(Children(dies[d].parent)) \cap readable :
         c < d /\ dies[c].tag \in {"member", "variable"} /\ NameOf(c) = NameOf(d)

HasNode(d) ==
    LET n == Lookup(declOf, <<dies[d].alt, dies[d].offset>>)
    IN IF dies[d].tag = "variable" /\ Onward(d) # 0
       THEN \E v \in exported : nodes[v].die = StandIn[d]
       ELSE n # 0 /\ nodes[n].die = StandIn[d]

(* resolve_declaration_only_classes(): "resolve them to their definition"   *)
DeclarationsAreDefined ==
    \A n \in DOMAIN nodes :
      nodes[n].declaration =>
        LET defined == {m \in DOMAIN nodes : /\ IsClass(m) /\ ~nodes[m].declaration
                                             /\ QualifiedName(m) = QualifiedName(n)}
        IN IF defined = {} THEN nodes[n].definition = 0 ELSE nodes[n].definition \in defined

(* When the corpus is read, whatever public declarations need, as far as the*)
(* reader knows how to read it, has its node, known by its DIE, the public  *)
(* declarations are candidates for export, and each class that is only      *)
(* declared, in whichever unit, has its definition if there is one in any   *)
(* unit, read before it or after (build_ir_node_from_die,                   *)
(* build_translation_unit_and_add_to_ir, resolve_declaration_only_classes). *)
ReadingIsComplete ==
    phase = "done" =>
      /\ \E readable \in {Readable} :
         \A d \in Needed(readable) : IsRepeated(d, readable) \/ HasNode(d)
      /\ \A d \in InUnits \cap Readable :
           dies[d].tag \in {"function", "variable"} =>
             \E n \in exported : nodes[n].die = StandIn[d]
      /\ DeclarationsAreDefined

(* Reading ends, however types, scopes and members refer to each other.     *)
ReadEnds == <>(phase # "units")
=============================================================================
