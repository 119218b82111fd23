--------------------------- MODULE MCSuppressions ---------------------------
(****************************************************************************)
(* Suppression files for TLC.  Files of up to MaxLines lines, some of them  *)
(* not as they should be; and files with one or two directives each, of     *)
(* every kind and with every pair of their properties.                      *)
(****************************************************************************)
EXTENDS Suppressions

CONSTANT MaxLines

-----------------------------------------------------------------------------
(* The differences that are asked about: what a directive may tell apart    *)
(* differs between the sides, or only on one of them.                       *)
TypeSide(kind, name) == [kind |-> kind, name |-> name]
TypeChange(a, b) == [of |-> "suppress_type", first |-> a, second |-> b]

FunctionSide(name, symbol, version, result, parms, method) ==
    [name |-> name, symbol_name |-> symbol, symbol_version |-> version,
     return_type_name |-> result, parms |-> parms, method |-> method]
FunctionChange(a, b) == [of |-> "suppress_function", first |-> a, second |-> b]

VariableSide(name, symbol, version, type) ==
    [name |-> name, symbol_name |-> symbol, symbol_version |-> version, type_name |-> type]
VariableChange(a, b) == [of |-> "suppress_variable", first |-> a, second |-> b]

SmallChange ==
    { TypeChange(TypeSide("class", <<"S">>), TypeSide("class", <<"S">>)),
      TypeChange(TypeSide("struct", <<"S">>), TypeSide("class", <<"T">>)),
      TypeChange(TypeSide("enum", <<"E">>), TypeSide("enum", <<"E">>)),
      TypeChange(TypeSide("array", <<"S", "[", "2", "]">>), TypeSide("array", <<"S", "[", "1", "]">>)),
      FunctionChange(FunctionSide(<<"f">>, <<"f">>, <<"V1">>, <<"S">>, <<<<"T">>, <<"S">>>>, FALSE),
                     FunctionSide(<<"f">>, <<"f">>, <<"V2">>, <<"S">>, <<<<"T">>>>, FALSE)),
      FunctionChange(FunctionSide(<<"S", "::", "f">>, <<"g">>, Nothing, <<"void">>, <<<<"S", "*">>, <<"S">>>>, TRUE),
                     FunctionSide(<<"S", "::", "f">>, <<"h">>, Nothing, <<"S">>, <<<<"S", "*">>, <<"T">>>>, TRUE)),
      VariableChange(VariableSide(<<"v">>, <<"v">>, <<"V1">>, <<"S">>),
                     VariableSide(<<"v">>, <<"v">>, <<"V2">>, <<"T">>)),
      VariableChange(VariableSide(<<"v">>, <<"v">>, Nothing, <<"S">>),
                     VariableSide(<<"S", "::", "v">>, Nothing, Nothing, <<"S">>)),
      VariableChange(VariableSide(<<"v">>, Nothing, Nothing, <<"E">>),
                     VariableSide(<<"S", "::", "v">>, <<"S">>, <<"V1">>, <<"E">>)) }

(* Regular expressions without operators, and one that does not compile.    *)
SmallCompiles(r) == "(" \notin ToSet(r)
SmallMatches(r, s) == \E i \in 0 .. Len(s) - Len(r) : SubSeq(s, i + 1, i + Len(r)) = r

-----------------------------------------------------------------------------
BrokenLines ==
    { Header(<<"suppress_type">>), Header(<<"suppress_function">>),
      Property(<<"name">>, <<"S">>), Property(<<"name_regexp">>, <<"S", "[", "2">>),
      Bare(<<"name">>), NoValue(<<"name">>), Continued(<<"name">>, <<"S">>),
      Quoted(<<"name">>, <<"t", "S", "0">>),
      Comment(<<"[", "suppress_type", "]", " ", "\\", "S">>), Stray }

(* The properties that each kind of directive may have.                     *)
Values(name) ==
    CASE name = "type_kind" -> {<<"class">>, <<"struct">>, <<"enum">>, <<"union">>, <<"other">>}
      [] name = "parameter" -> {<<"'", "0", " ", "S">>, <<"'", "1", " ", "/", "S", "/">>, <<"'", "0", " ", "/", "(", "/">>}
      [] name \in {"name_regexp", "type_name_regexp", "return_type_regexp"} -> {<<"S">>, <<"(">>}
      [] name \in {"symbol_version", "symbol_version_regexp"} -> {<<"V2">>}
      [] name \in {"label", "unknown"} -> {<<"S">>}
      [] name \in {"symbol_name", "symbol_name_regexp"} -> {<<"f">>, <<"S">>}
      [] OTHER -> {<<"S">>, <<"f">>}

PropertyNames(of) ==
    FacetsOf(of) \cup {RegexpOf[f] : f \in FacetsOf(of)} \cup {"label", "unknown"}
      \cup (IF of = "suppress_type" THEN {"type_kind"} ELSE {})
      \cup (IF of = "suppress_function" THEN {"parameter"} ELSE {})
PropertyLines(of) == UNION {{Property(<<n>>, v) : v \in Values(n)} : n \in PropertyNames(of)}

Directives(of) ==
    {<<Header(<<of>>), p>> : p \in PropertyLines(of)}
      \cup {<<Header(<<of>>), p, q>> : p, q \in PropertyLines(of)}
WrittenDirectives(of) ==
    {<<Written(<<<<of>>, <<<<p.name, p.value>>>>>>)>> : p \in PropertyLines(of)}
Kinds == {"suppress_type", "suppress_function", "suppress_variable"}

SmallFile ==
    SeqOf(BrokenLines, MaxLines)
      \cup UNION {Directives(of) : of \in Kinds}
      \cup {a \o b : a \in UNION {WrittenDirectives(of) : of \in Kinds},
                     b \in {<<Header(<<of>>), Property(<<"name">>, <<"S">>)>> : of \in Kinds}}
=============================================================================
