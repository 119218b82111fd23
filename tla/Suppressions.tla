---------------------------- MODULE Suppressions ----------------------------
(****************************************************************************)
(* What a suppression file keeps out of the reports: the directives made    *)
(* from its sections, and which differences they suppress                   *)
(* (abg-comparison.cc).  Names, types and values are sequences of words.    *)
(****************************************************************************)
EXTENDS IniFile

CONSTANTS Change,        \* the differences that are asked about
          Compiles(_),   \* whether regcomp() takes a regular expression
          Matches(_, _)  \* regexec(): whether one is found in a name

VARIABLES
  suppressions, \* the directives of the context
  nextSection,  \* the section to be made one of
  asked,        \* the difference asked about last
  verdict       \* what came of it

suppressionVars == <<suppressions, nextSection, asked, verdict>>
vars == <<iniVars, suppressionVars>>

Nothing == <<>>
NoDirective == [of |-> "nothing"]
Nobody == [of |-> "nothing"]

-----------------------------------------------------------------------------
(* What a directive may ask of each side of a difference: to be equal to a  *)
(* value, or to match a regular expression.                                 *)
TypeFacets == {"name"}
FunctionFacets == {"name", "return_type_name", "symbol_name", "symbol_version"}
VariableFacets == {"name", "symbol_name", "symbol_version", "type_name"}
FacetsOf(of) ==
    CASE of = "suppress_type" -> TypeFacets
      [] of = "suppress_function" -> FunctionFacets
      [] of = "suppress_variable" -> VariableFacets
RegexpOf == [name |-> "name_regexp", return_type_name |-> "return_type_regexp",
             symbol_name |-> "symbol_name_regexp", symbol_version |-> "symbol_version_regexp",
             type_name |-> "type_name_regexp"]
TypeKinds == {"class", "struct", "union", "enum", "array", "typedef", "builtin"}

(* section::find_property(): the value of the first of that name.           *)
HasProperty(s, name) == \E i \in DOMAIN s[2] : s[2][i][1] = <<name>>
FindProperty(s, name) ==
    IF HasProperty(s, name)
    THEN s[2][SelectInSeq(s[2], LAMBDA p : p[1] = <<name>>)][2] ELSE Nothing

Wants(s) == [f \in FacetsOf(s[1][1]) |->
               [name |-> FindProperty(s, f), regexp |-> FindProperty(s, RegexpOf[f])]]
WantsNothing(wants) ==
    \A f \in DOMAIN wants : wants[f].name = Nothing /\ wants[f].regexp = Nothing

(* read_type_kind_string()                                                  *)
TypeKind(v) == IF Len(v) = 1 /\ v[1] \in TypeKinds THEN v[1] ELSE "unknown"

Directive(s, kind, parms) ==
    [of |-> s[1][1], wants |-> Wants(s), kind |-> kind, parms |-> parms]

(* read_type_suppression(); a label alone does not make one.                *)
ReadTypeSuppression(s) ==
    IF WantsNothing(Wants(s)) /\ ~HasProperty(s, "type_kind") THEN NoDirective
    ELSE Directive(s, IF HasProperty(s, "type_kind")
                      THEN TypeKind(FindProperty(s, "type_kind")) ELSE "any", Nothing)

(* read_parameter_spec_from_string(): an index after an apostrophe, and a   *)
(* type's name, or a regular expression between slashes; white space in     *)
(* them is dropped.                                                         *)
Digits == "0" :> 0 @@ "1" :> 1 @@ "2" :> 2
NoBlanks(v) == SelectSeq(v, LAMBDA c : ~CharIsWhiteSpace(c))
FirstNot(v, i, Chars) ==
    LET n == SelectInSubSeq(v, i, Len(v), LAMBDA c : c \notin Chars)
    IN IF i > Len(v) \/ n = 0 THEN Len(v) + 1 ELSE n

ParameterSpec(digits, name, regexp) ==
    [given |-> digits # Nothing \/ name # Nothing \/ regexp # Nothing,
     index |-> FoldLeft(LAMBDA n, c : 10 * n + Digits[c], 0, digits),
     name |-> name, regexp |-> regexp]
ParameterType(digits, v) ==
    IF v # <<>> /\ v[1] = "/"
    THEN ParameterSpec(digits, Nothing,
                       NoBlanks(SubSeq(v, 2, FirstNot(v, 2, ToSet(v) \ {"/"}) - 1)))
    ELSE ParameterSpec(digits, NoBlanks(v), Nothing)
AfterIndex(v, first, next) ==
    ParameterType(SubSeq(v, first, next - 1), SubSeq(v, SkipWhiteSpaces(v, next), Len(v)))
ReadParameterSpec(v) ==
    LET i == SkipWhiteSpaces(v, 1)
    IN IF i <= Len(v) /\ v[i] = "'" THEN AfterIndex(v, i + 1, FirstNot(v, i + 1, DOMAIN Digits))
       ELSE AfterIndex(v, i, i)

(* read_function_suppression(); a label alone makes one, that suppresses    *)
(* every function's changes.                                                *)
ReadFunctionSuppression(s) ==
    LET given == SelectSeq(s[2], LAMBDA p : p[1] = <<"parameter">>)
        parms == SelectSeq([i \in DOMAIN given |-> ReadParameterSpec(given[i][2])],
                           LAMBDA p : p.given)
    IN IF FindProperty(s, "label") = Nothing /\ WantsNothing(Wants(s)) /\ parms = Nothing
       THEN NoDirective
       ELSE Directive(s, "any", parms)

(* read_variable_suppression()                                              *)
ReadVariableSuppression(s) ==
    IF FindProperty(s, "label") = Nothing /\ WantsNothing(Wants(s)) THEN NoDirective
    ELSE Directive(s, "any", Nothing)

(* read_suppressions(), of one section.                                     *)
ReadSuppression(s) ==
    CASE s[1] = <<"suppress_type">> -> ReadTypeSuppression(s)
      [] s[1] = <<"suppress_function">> -> ReadFunctionSuppression(s)
      [] s[1] = <<"suppress_variable">> -> ReadVariableSuppression(s)
      [] OTHER -> NoDirective

-----------------------------------------------------------------------------
(* A difference has two sides; each has its name, and the kind of a type,   *)
(* or its symbol's name and version (nothing if it has none), the type of a *)
(* variable, the return type and parameters of a function.                  *)

(* A regular expression that does not compile asks for nothing.             *)
RegexpFits(regexp, a, b) ==
    regexp = Nothing \/ ~Compiles(regexp) \/ Matches(regexp, a) \/ Matches(regexp, b)
NameFits(name, a, b) == name = Nothing \/ name = a \/ name = b
(* Mutant of Fits: only the first side counts.                              *)
FitsFirst(want, a, b) ==
    IF want.name # Nothing THEN NameFits(want.name, a, a) ELSE RegexpFits(want.regexp, a, a)
Fits(want, a, b) ==
    IF want.name # Nothing THEN NameFits(want.name, a, b) ELSE RegexpFits(want.regexp, a, b)

IsClass(t) == t.kind \in {"class", "struct"}
KindFits(kind, a, b) ==
    CASE kind = "any" -> TRUE
      [] kind \in {"class", "unknown"} -> IsClass(a) \/ IsClass(b)
      [] kind = "struct" -> (IsClass(a) \/ IsClass(b)) /\ ~(a.kind = "class" /\ b.kind = "class")
      [] OTHER -> a.kind = kind \/ b.kind = kind

(* type_suppression::suppresses_diff().                                     *)
SuppressesType(s, d) ==
    /\ KindFits(s.kind, d.first, d.second)
    /\ Fits(s.wants["name"], d.first.name, d.second.name)

(* get_parm_at_index_from_first_non_implicit_parm(): nothing beyond them.   *)
ParmType(f, i) ==
    LET n == IF f.method THEN i + 2 ELSE i + 1
    IN IF n <= Len(f.parms) THEN f.parms[n] ELSE Nothing
ParmFits(p, a, b) ==
    /\ ParmType(a, p.index) # Nothing \/ ParmType(b, p.index) # Nothing
    /\ Fits(p, ParmType(a, p.index), ParmType(b, p.index))

(* function_suppression::suppresses_diff(): the regular expression of the   *)
(* name counts beside the name; the version that is asked for is looked for *)
(* in the first symbol's version and in the second symbol's name.           *)
SuppressesFunction(s, d) ==
    LET a == d.first
        b == d.second
        version == s.wants["symbol_version"]
    IN /\ NameFits(s.wants["name"].name, a.name, b.name)
       /\ RegexpFits(s.wants["name"].regexp, a.name, b.name)
       /\ \A f \in {"return_type_name", "symbol_name"} : Fits(s.wants[f], a[f], b[f])
       /\ IF version.name # Nothing
          THEN NameFits(version.name, a.symbol_version, b.symbol_name)
          ELSE RegexpFits(version.regexp, a.symbol_version, b.symbol_version)
       /\ \A i \in DOMAIN s.parms : ParmFits(s.parms[i], a, b)

(* variable_suppression::suppresses_diff(): names are looked at before      *)
(* versions, and the version of the second is taken from the first; there   *)
(* is no such symbol to take it from if only the second has one.            *)
OnlySecondHasSymbol(d) ==
    d.of = "suppress_variable" /\ d.first.symbol_name = Nothing /\ d.second.symbol_name # Nothing
NamesFit(s, d) == \A f \in {"name", "symbol_name"} : Fits(s.wants[f], d.first[f], d.second[f])
SuppressesVariable(s, d) ==
    LET version == IF d.second.symbol_name = Nothing THEN Nothing ELSE d.first.symbol_version
    IN /\ NamesFit(s, d)
       /\ Fits(s.wants["symbol_version"], d.first.symbol_version, version)
       /\ Fits(s.wants["type_name"], d.first.type_name, d.second.type_name)

SuppressesDiff(s, d) ==
    CASE d.of = "suppress_type" -> SuppressesType(s, d)
      [] d.of = "suppress_function" -> SuppressesFunction(s, d)
      [] d.of = "suppress_variable" -> SuppressesVariable(s, d)

(* What has no answer: a kind that is "union" fails an assertion, and a     *)
(* null pointer is followed for the version of a symbol that is not there.  *)
Aborts(s, d) ==
    \/ s.kind = "union"
    \/ OnlySecondHasSymbol(d) /\ NamesFit(s, d)

(* diff::is_suppressed(): the directives in turn, until one does.           *)
IsSuppressed(d) ==
    LET i == SelectInSeq(suppressions, LAMBDA s : s.of = d.of /\ (Aborts(s, d) \/ SuppressesDiff(s, d)))
    IN CASE i = 0 -> "reported"
         [] i # 0 /\ Aborts(suppressions[i], d) -> "aborted"
         [] OTHER -> "suppressed"

-----------------------------------------------------------------------------
ReadSection ==
    /\ at = "read" /\ nextSection <= Len(sections)
    /\ LET s == ReadSuppression(sections[nextSection])
       IN suppressions' = IF s = NoDirective THEN suppressions ELSE Append(suppressions, s)
    /\ nextSection' = nextSection + 1
    /\ UNCHANGED <<iniVars, asked, verdict>>

Ask(d) ==
    /\ at = "read" /\ nextSection > Len(sections) /\ verdict # "aborted"
    /\ asked' = d /\ verdict' = IsSuppressed(d)
    /\ UNCHANGED <<iniVars, suppressions, nextSection>>

Init ==
    /\ IniInit
    /\ suppressions = Nothing /\ nextSection = 1
    /\ asked = Nobody /\ verdict = "reported"

Next ==
    \/ SkipToSection /\ UNCHANGED suppressionVars
    \/ StartSection /\ UNCHANGED suppressionVars
    \/ NoHeader /\ UNCHANGED suppressionVars
    \/ AddProperty /\ UNCHANGED suppressionVars
    \/ EndSection /\ UNCHANGED suppressionVars
    \/ EndFile /\ UNCHANGED suppressionVars
    \/ Abort /\ UNCHANGED suppressionVars
    \/ ReadSection
    \/ \E d \in Change : Ask(d)

Spec == Init /\ [][Next]_vars

-----------------------------------------------------------------------------
(* The types of the variables: the directives are those of the sections     *)
(* read so far, and what is left of the file is its end.                    *)
TypeOK ==
    /\ IniTypeOK
    /\ nextSection \in 1 .. Len(sections) + 1 /\ Len(suppressions) < nextSection
    /\ \A i \in DOMAIN suppressions : suppressions[i] # NoDirective
    /\ asked \in Change \cup {Nobody} /\ verdict \in {"reported", "suppressed", "aborted"}

(* A file that has been read gives the sections that its lines mean: all of *)
(* them if each line is as it should be, and otherwise those before the     *)
(* first that is not, whose section keeps the properties read before it     *)
(* (read_sections(), read_section(), read_property() and what they skip).   *)
(* Files in which a section follows an empty one are left out: they are     *)
(* read up to it, though the manual says that it is ignored.                *)
FilesAreRead ==
    LET m == Meant(file)
    IN /\ TypeOK
       /\ ~HasEmptySection(file) =>
            /\ at = "read" /\ ~m.fault => sections = m.sections
            /\ at = "read" /\ m.fault =>
                 IF m.sections = <<>> THEN IsPrefix(m.sections, sections)
                 ELSE /\ IsPrefix(Front(m.sections), sections)
                      /\ Len(sections) >= Len(m.sections)
                      /\ sections[Len(m.sections)][1] = Last(m.sections)[1]
                      /\ IsPrefix(Last(m.sections)[2], sections[Len(m.sections)][2])
       /\ at = "aborted" => m.fault

(* What a property of a directive asks of a difference, as the manual has   *)
(* it (libabigail-concepts.rst), for one side of it.                        *)
PropertyHolds(of, p, side) ==
    \/ \E f \in FacetsOf(of) : p[1] = <<f>> /\ p[2] = side[f]
    \/ \E f \in FacetsOf(of) : p[1] = <<RegexpOf[f]>> /\ Matches(p[2], side[f])
    \/ of = "suppress_type" /\ p[1] = <<"type_kind">>
         /\ p[2] \in IF IsClass(side) THEN {<<"class">>, <<side.kind>>} ELSE {<<side.kind>>}
    \/ of = "suppress_function" /\ p[1] = <<"parameter">>
         /\ LET spec == ReadParameterSpec(p[2])
                type == ParmType(side, spec.index)
            IN type # Nothing /\ (type = spec.name \/ (spec.regexp # Nothing /\ Matches(spec.regexp, type)))

(* What the properties of a directive may be.  A label is informative and   *)
(* describes nothing, and no more does a property that is not recognized.   *)
Asks(of) ==
    {<<f>> : f \in FacetsOf(of)} \cup {<<RegexpOf[f]>> : f \in FacetsOf(of)}
      \cup (IF of = "suppress_type" THEN {<<"type_kind">>} ELSE {})
      \cup (IF of = "suppress_function" THEN {<<"parameter">>} ELSE {})
AsksNothing(s) == \A i \in DOMAIN s[2] : s[2][i][1] \notin Asks(s[1][1])
Describes(s, d) ==
    /\ s[1] = <<d.of>> /\ ~AsksNothing(s)
    /\ \A i \in DOMAIN s[2] : s[2][i][1] \in Asks(d.of) =>
         \E side \in {d.first, d.second} : PropertyHolds(d.of, s[2][i], side)

(* What the manual leaves open or the code has its own way with: a regular  *)
(* expression that does not compile (counts as if it was not there), a name *)
(* beside its regular expression, a property given twice, an unknown kind   *)
(* of types, unions, the versions of symbols, and a function or variable    *)
(* directive with a label and nothing that it asks (it suppresses all).     *)
IsPlain(s) ==
    /\ \A i, j \in DOMAIN s[2] : s[2][i][1] = s[2][j][1] /\ i # j => s[2][i][1] = <<"parameter">>
    /\ s[1] # <<"suppress_type">> /\ HasProperty(s, "label") => ~AsksNothing(s)
    /\ \A i \in DOMAIN s[2] :
         /\ s[2][i][1] # <<"symbol_version">>
         /\ s[1] = <<"suppress_variable">> => s[2][i][1] # <<"symbol_version_regexp">>
         /\ s[2][i][1] = <<"type_kind">> => TypeKind(s[2][i][2]) \notin {"union", "unknown"}
         /\ s[2][i][1] = <<"parameter">> => Compiles(ReadParameterSpec(s[2][i][2]).regexp)
         /\ \A f \in DOMAIN RegexpOf : s[2][i][1] = <<RegexpOf[f]>> =>
              Compiles(s[2][i][2]) /\ \A j \in DOMAIN s[2] : s[2][j][1] # <<f>>

(* With a file whose lines are as they should be, a difference is           *)
(* suppressed just when one of the directives that are written in it        *)
(* describes it: each of its properties holds of one side at least          *)
(* (is_suppressed(), suppresses_diff() of the three kinds, their readers).  *)
(* An answer may be missing for a variable only, of which just the second   *)
(* declaration has a symbol: there the code follows a null pointer.         *)
VerdictsAreRight ==
    LET m == Meant(file)
        described == \E i \in DOMAIN m.sections : Describes(m.sections[i], asked)
    IN /\ asked # Nobody /\ ~m.fault /\ ~HasEmptySection(file)
       /\ \A i \in DOMAIN m.sections : IsPlain(m.sections[i])
       => IF verdict = "aborted" THEN OnlySecondHasSymbol(asked)
          ELSE verdict = "suppressed" <=> described
=============================================================================
