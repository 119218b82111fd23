-------------------------- MODULE MCCorpusSymbols --------------------------
(***************************************************************************)
(* Libraries with up to three functions at two addresses, in any order;    *)
(* with symbols of each other sort; applications that need a function of   *)
(* the C library and functions and variables of the library, as            *)
(* executables and as shared objects; lookups by name with every sort of   *)
(* hash table.                                                             *)
(***************************************************************************)
EXTENDS CorpusSymbols

Plain(n) == <<n, "", "">>
Versioned(n, v) == <<n, "@@", v>>

Sym(n, kind, value, ndx) ==
  [name |-> Plain(n), kind |-> kind, section |-> "text", value |-> value, binding |-> "global",
   ndx |-> ndx, hidden |-> FALSE]
Undef(n, kind, ndx) == [Sym(n, kind, 0, ndx) EXCEPT !.section = "undef"]

\* The versions V and W are the 2nd and 3rd; those of the C library are C and D.
Defs == <<[ndx |-> 2, name |-> "V"], [ndx |-> 3, name |-> "W"]>>
Needs == <<<<[other |-> 4, name |-> "C"], [other |-> 5, name |-> "D"]>>>>

File(type, symtab, dynsym, verdef, verneed, hash) ==
  [type |-> type, symtab |-> symtab, dynsym |-> dynsym, versioned |-> verdef # <<>> \/ verneed # <<>>,
   verdef |-> verdef, verneed |-> verneed, hash |-> hash, nwords |-> 2]
Dso(dynsym) == File("dso", <<>>, dynsym, Defs, Needs, "none")

Fun(address) == [kind |-> "fun", address |-> address]
Var(address) == [kind |-> "var", address |-> address]

None == [k \in SymbolKinds |-> <<>>]
World(tool, files) ==
  [tool |-> tool, files |-> files, toSuppress |-> None, toKeep |-> None,
   name |-> Plain("f"), demangle |-> FALSE]
-----------------------------------------------------------------------------
(* One library *)

SomeDies == {<<>>, <<Fun(1)>>, <<Fun(1), Fun(1)>>, <<Fun(2), Fun(1)>>}

AliasTables ==
  {[i \in 1..3 |-> Sym(order[i], "fun", value[order[i]], 2)] :
     order \in SetToSeqs({"f", "g", "h"}), value \in [{"f", "g", "h"} -> {1, 2}]}

\* Versions of one name, of which one is hidden; functions and variables at one address;
\* local, absolute, undefined and other symbols.
MixedTables ==
  {<<[Sym("f", "fun", 1, 2) EXCEPT !.hidden = TRUE], Sym("f", "fun", 1, 3), Sym("v", "var", 1, 0)>>,
   <<Sym("f", "fun", 1, 2), Sym("g", "fun", 2, 1), Undef("h", "fun", 4)>>,
   <<[Sym("f", "fun", 1, 1) EXCEPT !.binding = "local"], Sym("g", "fun", 1, 1), Sym("h", "other", 1, 1)>>,
   <<[Sym("u", "var", 1, 1) EXCEPT !.section = "abs"], Sym("v", "var", 1, 1), Sym("w", "var", 1, 1)>>,
   <<Sym("u", "var", 2, 2), Sym("v", "var", 1, 3), Undef("f", "fun", 5), Undef("w", "var", 0)>>}

\* Without its versions a symbol is told from another of its name by nothing.
OnceNamed(t) == \A i, j \in DOMAIN t : t[i].name = t[j].name => i = j

Lib(elf, dies, xml) == [elf |-> elf, dies |-> dies, xml |-> xml]

OneLibrary ==
  {World("abidw", [lib1 |-> Lib(Dso(table), dies, xml)]) :
     table \in AliasTables, dies \in SomeDies, xml \in BOOLEAN}
  \cup {World("abidw", [lib1 |-> Lib(elf, <<Fun(1), Var(1), Var(2)>>, xml)]) :
          elf \in {Dso(t) : t \in MixedTables}
                  \cup {File("dso", <<>>, t, Defs, <<>>, "none") : t \in {t \in MixedTables : OnceNamed(t)}},
          xml \in BOOLEAN}

Patterns == {<<>>, <<{"f"}>>, <<{"f"}, {"g", "h"}>>}
TwoLibraries ==
  {[World("abidiff", [lib1 |-> Lib(Dso(<<Sym("f", "fun", 1, 2), Sym("g", "fun", 2, 1)>>),
                                   <<Fun(1), Fun(2)>>, FALSE),
                      lib2 |-> Lib(Dso(<<Sym("g", "fun", 1, 2), Sym("f", "fun", 1, 1)>>),
                                   <<Fun(1)>>, xml)])
      EXCEPT !.toSuppress.fun = drop, !.toKeep.fun = keep] :
     drop \in Patterns, keep \in Patterns, xml \in BOOLEAN}
-----------------------------------------------------------------------------
(* An application, and one library or two *)

\* A needed symbol, in the symtab of an executable and in a dynsym.
InExec(n, kind, v) ==
  [Undef(n, kind, 0) EXCEPT !.name = IF v = "" THEN Plain(n) ELSE Versioned(n, v)]
NeededVersions == [name : {"f", "g"}, kind : {"fun"}, version : {"", "V", "W"}]
                  \cup [name : {"v"}, kind : {"var"}, version : {"", "V"}]
NeededSets ==
  {s \in SUBSET NeededVersions : Cardinality(s) \in {1, 2} /\ \A a, b \in s : a.name = b.name => a = b}

\* What is needed of the library, after what is needed of the C library.
Exec(need, libc) ==
  LET order == SetToSeq(need)
  IN  File("exec", libc \o [i \in DOMAIN order |-> InExec(order[i].name, order[i].kind, order[i].version)],
           <<>>, <<>>, Needs, "none")

\* A shared object that defines versions of its own and needs one of the library.
Ndx(v) == CASE v = "" -> 1 [] v = "V" -> 6 [] v = "W" -> 7
Shared(need, files) ==
  LET order == SetToSeq(need)
  IN  File("dso", <<>>, [i \in DOMAIN order |-> Undef(order[i].name, order[i].kind, Ndx(order[i].version))],
           Defs, files, "none")

Applications ==
  {Exec(need, libc) : need \in NeededSets, libc \in {<<>>, <<InExec("a", "fun", "C")>>}}
  \cup {Shared(need, files) : need \in NeededSets,
          files \in {<<<<[other |-> 6, name |-> "V"], [other |-> 7, name |-> "W"]>>>>,
                     <<<<[other |-> 4, name |-> "C"]>>, <<[other |-> 6, name |-> "V"]>>>>}}

LibraryTables ==
  {<<Sym("f", "fun", 1, ndx), Sym("g", "fun", 2, 3), Sym("v", "var", 3, ndx)>> : ndx \in {1, 2, 3}}
  \cup {<<[Sym("f", "fun", 1, 2) EXCEPT !.hidden = TRUE], Sym("f", "fun", 2, 3), Sym("v", "var", 3, 1)>>,
        <<Sym("g", "fun", 1, 1)>>}

LibraryDies == {<<Fun(1), Fun(2), Var(3)>>, <<Fun(2)>>, <<>>}

App(elf) == Lib(elf, <<>>, FALSE)
Compatibility ==
  {World("abicompat", [app |-> App(a), lib1 |-> Lib(Dso(t), dies, FALSE)]) :
     a \in Applications, t \in LibraryTables, dies \in {<<Fun(1), Fun(2), Var(3)>>}}
  \cup {World("abicompat", [app |-> App(a), lib1 |-> Lib(Dso(t), <<Fun(1), Fun(2), Var(3)>>, FALSE),
                            lib2 |-> Lib(Dso(u), dies, FALSE)]) :
     a \in Applications, t \in {<<Sym("f", "fun", 1, 2), Sym("g", "fun", 2, 3), Sym("v", "var", 3, 2)>>},
     u \in LibraryTables, dies \in LibraryDies}
Executables == {w \in Compatibility : w.files["app"].elf.type = "exec"}
-----------------------------------------------------------------------------
(* Lookups by name *)

LookupFiles ==
  {[File(type, t, t, Defs, Needs, hash) EXCEPT !.nwords = words] :
     type \in {"dso"}, t \in MixedTables \cup {<<Sym("f", "fun", 1, 1), Sym("b", "fun", 2, 2)>>},
     hash \in {"none", "sysv", "gnu"}, words \in {1, 2}}
Lookups ==
  {[World("abisym", [app |-> App(elf)]) EXCEPT !.name = Plain(n), !.demangle = d] :
     elf \in LookupFiles, n \in {"b", "f", "g", "h", "v"}, d \in BOOLEAN}
-----------------------------------------------------------------------------
Letters == <<"a", "b", "f", "g", "h", "u", "v", "w">>

SomeHashes == [n \in ToSet(Letters) |->
                 CASE n = "f" -> 3 [] n = "g" -> 67 [] n = "b" -> 35 [] n = "v" -> 20 [] OTHER -> 130]

AllWorlds == OneLibrary \cup TwoLibraries \cup Compatibility \cup Lookups

\* "f" comes before "f@@V", and that before "f@V".
SortedIds ==
  FlattenSeq([n \in DOMAIN Letters |->
    <<Plain(Letters[n]), Versioned(Letters[n], "C"), Versioned(Letters[n], "V"),
      Versioned(Letters[n], "W"), <<Letters[n], "@", "V">>>>])

\* What NeededHolds assumes is true of these files.
ASSUME NamesArePlain
=============================================================================
