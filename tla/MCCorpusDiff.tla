---------------------------- MODULE MCCorpusDiff ----------------------------
(***************************************************************************)
(* Libraries with up to two functions, or up to two variables, in any      *)
(* order, with any of their symbols left out of the debug information, at  *)
(* one address or not; and one that differs in its names only.             *)
(***************************************************************************)
EXTENDS CorpusDiff

CONSTANTS Defaults,      \* what may be said of a version: that it is the default
          WithAliases,   \* whether two symbols may be at the same address
          Declarations   \* what declarations are told apart by

Names(k) == IF k = "function" THEN {"f", "g"} ELSE {"u", "v"}

SymbolTablesOf(k) ==
  {symbols \in SUBSET [name : Names(k), default : Defaults] :
     \A s, t \in symbols : s.name = t.name => s = t}

AnyDecls(symbols) ==
  UNION {{[i \in DOMAIN order |-> [symbol |-> order[i], decl |-> content[order[i]]]] :
            order \in SetToSeqs(described), content \in [described -> Declarations]} :
         described \in SUBSET symbols}

\* Bound: aliases are symbols of versions that are not the default one.
AnyRings(symbols) ==
  {{}} \cup IF WithAliases /\ Cardinality(symbols) = 2 /\ \A s \in symbols : ~s.default
            THEN {{ring} : ring \in SetToSeqs({s.name : s \in symbols})}
            ELSE {}

AnySide(k) ==
  UNION {[symbols : {symbols}, decls : AnyDecls(symbols), rings : AnyRings(symbols)] :
         symbols \in SymbolTablesOf(k)}

NoSide == [symbols |-> {}, decls |-> <<>>, rings |-> {}]

AnyLibraries ==
  [function : AnySide("function"), variable : {NoSide}, soname : {"one"}, architecture : {"one"}]
  \cup [function : {NoSide}, variable : AnySide("variable"), soname : {"one"},
        architecture : {"one"}]
  \cup [function : {NoSide}, variable : {NoSide}, soname : {"one", "other"},
        architecture : {"one", "other"}]
=============================================================================
