-------------------------- MODULE CorpusDiffProofs --------------------------
(* Proofs about the comparison of two corpora: what the tables of deleted,  *)
(* added and changed declarations hold, for any libraries, whichever common *)
(* subsequences the edit scripts leave and whatever is filtered out.        *)
EXTENDS CorpusDiff, FiniteSetTheorems, TLAPS

-----------------------------------------------------------------------------
(* Libraries.                                                               *)
LEMMA LibraryFacts ==
    ASSUME NEW l \in Libraries, NEW k \in Kinds
    PROVE  /\ IsFiniteSet(l[k].symbols)
           /\ \A s, t \in l[k].symbols : s.name = t.name => s = t
           /\ \A d \in ToSet(l[k].decls) : d.symbol \in l[k].symbols
           /\ \A d, e \in ToSet(l[k].decls) : d.symbol = e.symbol => d = e
           /\ \A ring \in l[k].rings : ToSet(ring) \subseteq {s.name : s \in l[k].symbols}
  BY LibrariesAssumption DEF IsLibrary, ToSet

(* The symbols of the two kinds have different names.                       *)
LEMMA KindsApart ==
    ASSUME NEW l \in Libraries, NEW s \in l["function"].symbols, NEW t \in l["variable"].symbols
    PROVE  s # t
  BY LibrariesAssumption DEF IsLibrary, Kinds

(* A symbol and its next aliases are in one ring.                           *)
LEMMA AliasesShareRing ==
    ASSUME NEW side, NEW name, NEW other \in NextAliases(side, name)
    PROVE  \E ring \in side.rings : name \in ToSet(ring) /\ other \in ToSet(ring)
  <1>1. PICK ring \in side.rings :
          other \in {ring[j] : j \in {j \in DOMAIN ring :
                                       \E i \in DOMAIN ring : i < j /\ ring[i] = name}}
    BY DEF NextAliases
  <1>2. PICK j \in DOMAIN ring : other = ring[j] /\ \E i \in DOMAIN ring : i < j /\ ring[i] = name
    BY <1>1
  <1> QED
    BY <1>2 DEF ToSet

(* A declaration whose symbol has no aliases only equals one of the same    *)
(* name and content.                                                        *)
LEMMA AloneSame ==
    ASSUME NEW k, NEW f, NEW s, Same(k, f, s), IsAlone(k, f.symbol) \/ IsAlone(k, s.symbol)
    PROVE  f.symbol.name = s.symbol.name /\ f.decl = s.decl
  <1>1. f.decl = s.decl /\ SymbolsEqual(k, f.symbol, s.symbol)
    BY DEF Same
  <1>2. CASE s.symbol.name \in NextAliases(first[k], f.symbol.name)
    BY <1>2, AliasesShareRing DEF IsAlone
  <1>3. CASE f.symbol.name \in NextAliases(second[k], s.symbol.name)
    BY <1>3, AliasesShareRing DEF IsAlone
  <1> QED
    BY <1>1, <1>2, <1>3 DEF SymbolsEqual, SymbolsAlias, DoesAlias

-----------------------------------------------------------------------------
(* Edit scripts.                                                            *)

(* All that is used of the scripts: what they keep is equal.                *)
KeptAreEqual(k) ==
  \A p \in kept[k] : /\ p[1] \in DOMAIN first[k].decls /\ p[2] \in DOMAIN second[k].decls
                     /\ Same(k, first[k].decls[p[1]], second[k].decls[p[2]])
KeptSymbolsAreThere(k) ==
  \A s \in first[k].symbols : s.name \in keptSymbols[k] => HasName(second[k], s)

ScriptsOK == \A k \in Kinds : KeptAreEqual(k) /\ KeptSymbolsAreThere(k)

LibrariesOK == first \in Libraries /\ second \in Libraries

(* What the script deletes and inserts are declarations of the libraries.   *)
LEMMA ScriptIsOfDeclarations ==
    ASSUME NEW k
    PROVE  /\ ScriptDeletes(k) \subseteq ToSet(first[k].decls)
           /\ ScriptInserts(k) \subseteq ToSet(second[k].decls)
  BY DEF ScriptDeletes, ScriptInserts, ToSet

(* A declaration that equals none of the second library is deleted ...      *)
LEMMA UnequalIsDeleted ==
    ASSUME NEW k, KeptAreEqual(k), NEW f \in ToSet(first[k].decls),
           \A s \in ToSet(second[k].decls) : ~Same(k, f, s)
    PROVE  f \in ScriptDeletes(k)
  <1>1. PICK i \in DOMAIN first[k].decls : f = first[k].decls[i]
    BY DEF ToSet
  <1>2. ASSUME NEW p \in kept[k] PROVE p[1] # i
    BY <1>1, <1>2 DEF KeptAreEqual, ToSet
  <1> QED
    BY <1>1, <1>2 DEF ScriptDeletes

(* ... and one that equals none of the first is inserted.                   *)
LEMMA UnequalIsInserted ==
    ASSUME NEW k, KeptAreEqual(k), NEW s \in ToSet(second[k].decls),
           \A f \in ToSet(first[k].decls) : ~Same(k, f, s)
    PROVE  s \in ScriptInserts(k)
  <1>1. PICK j \in DOMAIN second[k].decls : s = second[k].decls[j]
    BY DEF ToSet
  <1>2. ASSUME NEW p \in kept[k] PROVE p[2] # j
    BY <1>1, <1>2 DEF KeptAreEqual, ToSet
  <1> QED
    BY <1>1, <1>2 DEF ScriptInserts

(* Where the symbol has gone and has no aliases, nothing can equal the      *)
(* declaration, and nothing inserted has its id.                            *)
LEMMA GoneIsDeleted ==
    ASSUME LibrariesOK, NEW k \in Kinds, KeptAreEqual(k), NEW f \in ToSet(first[k].decls),
           ~HasName(second[k], f.symbol), IsAlone(k, f.symbol)
    PROVE  f.symbol \in TablesOf(k).deleted
  <1>1. ASSUME NEW s \in ToSet(second[k].decls)
        PROVE  s.symbol \in second[k].symbols /\ s.symbol.name # f.symbol.name
    BY LibraryFacts DEF LibrariesOK, HasName
  <1>2. f \in ScriptDeletes(k)
    BY <1>1, AloneSame, UnequalIsDeleted
  <1>3. f.symbol \notin {Id(s) : s \in ScriptInserts(k)}
    BY <1>1, ScriptIsOfDeclarations DEF Id
  <1> QED
    BY <1>2, <1>3 DEF TablesOf, Id

(* Two declarations with the same symbol and different contents: the table  *)
(* of changes has them.                                                     *)
LEMMA ChangeIsFound ==
    ASSUME LibrariesOK, NEW k \in Kinds, KeptAreEqual(k),
           NEW f \in ToSet(first[k].decls), NEW s \in ToSet(second[k].decls),
           f.symbol = s.symbol, f.decl # s.decl, IsAlone(k, f.symbol)
    PROVE  Id(f) \in TablesOf(k).changed
  <1>1. ASSUME NEW other \in ToSet(second[k].decls) PROVE ~Same(k, f, other)
    <2> SUFFICES ASSUME Same(k, f, other) PROVE FALSE
      OBVIOUS
    <2>1. other.symbol.name = s.symbol.name /\ f.decl = other.decl
      BY AloneSame
    <2>2. other = s
      BY <2>1, LibraryFacts DEF LibrariesOK
    <2> QED
      BY <2>1, <2>2
  <1>2. ASSUME NEW other \in ToSet(first[k].decls) PROVE ~Same(k, other, s)
    <2> SUFFICES ASSUME Same(k, other, s) PROVE FALSE
      OBVIOUS
    <2>1. other.symbol.name = f.symbol.name /\ other.decl = s.decl
      BY AloneSame
    <2>2. other = f
      BY <2>1, LibraryFacts DEF LibrariesOK
    <2> QED
      BY <2>1, <2>2
  <1>3. f \in ScriptDeletes(k) /\ s \in ScriptInserts(k) /\ ~Same(k, f, s)
    BY <1>1, <1>2, UnequalIsDeleted, UnequalIsInserted
  <1> QED
    BY <1>3 DEF TablesOf, Id

(* What is in the table of changes differs.                                 *)
LEMMA ChangesDiffer ==
    ASSUME LibrariesOK, NEW k \in Kinds,
           NEW f \in ToSet(first[k].decls), NEW s \in ToSet(second[k].decls),
           Id(f) = Id(s), Id(f) \in TablesOf(k).changed
    PROVE  f.decl # s.decl
  <1>1. PICK g \in ScriptDeletes(k), t \in ScriptInserts(k) :
          Id(g) = Id(f) /\ Id(t) = Id(g) /\ ~Same(k, g, t)
    BY DEF TablesOf
  <1>2. g = f /\ t = s
    BY <1>1, ScriptIsOfDeclarations, LibraryFacts DEF LibrariesOK, Id
  <1> QED
    BY <1>1, <1>2 DEF Same, SymbolsEqual, Id

(* A symbol without declaration and aliases is unreferenced.                *)
LEMMA UndeclaredIsUnreferenced ==
    ASSUME LibrariesOK, NEW k \in Kinds, NEW s \in first[k].symbols, IsAlone(k, s),
           \A f \in ToSet(first[k].decls) : f.symbol # s
    PROVE  s \in Unreferenced(first[k])
  <1>1. ASSUME NEW f \in ToSet(first[k].decls)
        PROVE  s.name # f.symbol.name /\ s.name \notin NextAliases(first[k], f.symbol.name)
    <2>1. s.name # f.symbol.name
      BY LibraryFacts DEF LibrariesOK
    <2>2. s.name \notin NextAliases(first[k], f.symbol.name)
      BY AliasesShareRing DEF IsAlone
    <2> QED
      BY <2>1, <2>2
  <1> QED
    BY <1>1 DEF Unreferenced

-----------------------------------------------------------------------------
(* Types.                                                                   *)
LEMMA TablesAreOfSymbols ==
    ASSUME LibrariesOK, NEW k \in Kinds
    PROVE  /\ TablesOf(k).deleted \subseteq first[k].symbols
           /\ TablesOf(k).added \subseteq second[k].symbols
           /\ TablesOf(k).changed \subseteq first[k].symbols \cap second[k].symbols
           /\ SymbolsDeleted(k) \subseteq first[k].symbols
           /\ SymbolsInserted(k) \subseteq second[k].symbols
  <1>1. /\ \A f \in ScriptDeletes(k) : Id(f) \in first[k].symbols
        /\ \A s \in ScriptInserts(k) : Id(s) \in second[k].symbols
    BY ScriptIsOfDeclarations, LibraryFacts DEF LibrariesOK, Id
  <1> QED
    BY <1>1 DEF TablesOf, SymbolsDeleted, SymbolsInserted, Unreferenced

(* The filters have not hidden or counted anything before they are applied. *)
Unfiltered ==
  /\ phase \in {"scripts", "functions", "variables", "symbols", "computed"} => ~applied
  /\ ~applied => filteredOut = Nothing /\ stats = NoStats

Typed == TypeOK /\ Unfiltered

LEMMA TypedInit == Init => Typed
  <1> SUFFICES ASSUME Init PROVE Typed
    OBVIOUS
  <1>1. Nothing \in SymbolTables /\ \A k \in Kinds : Nothing[k] = {}
    BY DEF Nothing, SymbolTables, Kinds
  <1> QED
    BY <1>1 DEF Init, Typed, TypeOK, Unfiltered, Phases

(* A table of symbols, from what it has of each kind.                       *)
LEMMA SymbolTable ==
    ASSUME NEW table, table = [k \in Kinds |-> table[k]],
           \A k \in Kinds : table[k] \subseteq Symbols(k)
    PROVE  table \in SymbolTables
  <1>1. ASSUME NEW k \in Kinds PROVE table[k] \in UNION {SUBSET Symbols(i) : i \in Kinds}
    OBVIOUS
  <1> QED
    BY <1>1 DEF SymbolTables

(* The libraries stay.                                                      *)
LEMMA LibrariesStay ==
    ASSUME [Next]_vars
    PROVE  first' = first /\ second' = second
  BY DEF Next, vars, ComputeScripts, PopulateFunctions, PopulateVariables, PopulateSymbols,
         DecideStatus, Report

(* The tables of symbols, and what they hold.                               *)
Tables == {deleted, added, changed, deletedSymbols, addedSymbols, filteredOut}

TablesTyped ==
  /\ \A table \in Tables : table \in SymbolTables
  /\ \A k \in Kinds :
       /\ deleted[k] \subseteq first[k].symbols /\ added[k] \subseteq second[k].symbols
       /\ changed[k] \subseteq first[k].symbols \cap second[k].symbols
       /\ filteredOut[k] \subseteq changed[k]

LEMMA TablesTypedStep ==
    ASSUME TablesTyped, Unfiltered, LibrariesOK, [Next]_vars
    PROVE  TablesTyped'
  <1>1. first' = first /\ second' = second /\ SymbolTables' = SymbolTables
    BY LibrariesStay DEF SymbolTables, Symbols
  <1>2. /\ deleted \in SymbolTables /\ added \in SymbolTables /\ changed \in SymbolTables
        /\ deletedSymbols \in SymbolTables /\ addedSymbols \in SymbolTables
        /\ filteredOut \in SymbolTables
    BY DEF TablesTyped, Tables
  <1>3. \A table \in SymbolTables : table = [k \in Kinds |-> table[k]]
    BY DEF SymbolTables
  <1>4. "function" \in Kinds /\ "variable" \in Kinds
    BY DEF Kinds
  <1>5. CASE UNCHANGED <<deleted, added, changed, deletedSymbols, addedSymbols, filteredOut>>
    BY <1>1, <1>5 DEF TablesTyped, Tables
  <1>6. CASE PopulateFunctions
    <2> USE <1>6 DEF PopulateFunctions
    <2>1. /\ deleted' = [k \in Kinds |-> deleted'[k]]
          /\ added' = [k \in Kinds |-> added'[k]]
          /\ changed' = [k \in Kinds |-> changed'[k]]
          /\ UNCHANGED <<deletedSymbols, addedSymbols, filteredOut>>
      BY <1>2, <1>3
    <2>2. \A k \in Kinds : /\ deleted'[k] \subseteq first[k].symbols
                           /\ added'[k] \subseteq second[k].symbols
                           /\ changed'[k] \subseteq first[k].symbols \cap second[k].symbols
      BY <1>2, <1>4, TablesAreOfSymbols DEF SymbolTables, TablesTyped
    <2>3. \A k \in Kinds : filteredOut'[k] = {}
      BY <2>1 DEF Unfiltered, Nothing
    <2>4. deleted' \in SymbolTables /\ added' \in SymbolTables /\ changed' \in SymbolTables
      BY <2>1, <2>2, SymbolTable DEF Symbols
    <2> QED
      BY <1>1, <1>2, <2>1, <2>2, <2>3, <2>4 DEF TablesTyped, Tables
  <1>7. CASE PopulateVariables
    <2> USE <1>7 DEF PopulateVariables
    <2>1. /\ deleted' = [k \in Kinds |-> deleted'[k]]
          /\ added' = [k \in Kinds |-> added'[k]]
          /\ changed' = [k \in Kinds |-> changed'[k]]
          /\ UNCHANGED <<deletedSymbols, addedSymbols, filteredOut>>
      BY <1>2, <1>3 DEF Kinds
    <2>2. \A k \in Kinds : /\ deleted'[k] \subseteq first[k].symbols
                           /\ added'[k] \subseteq second[k].symbols
                           /\ changed'[k] \subseteq first[k].symbols \cap second[k].symbols
      BY <1>2, <1>4, TablesAreOfSymbols DEF SymbolTables, TablesTyped, Kinds
    <2>3. \A k \in Kinds : filteredOut'[k] = {}
      BY <2>1 DEF Unfiltered, Nothing
    <2>4. deleted' \in SymbolTables /\ added' \in SymbolTables /\ changed' \in SymbolTables
      BY <2>1, <2>2, SymbolTable DEF Symbols
    <2> QED
      BY <1>1, <1>2, <2>1, <2>2, <2>3, <2>4 DEF TablesTyped, Tables
  <1>8. CASE PopulateSymbols
    <2> USE <1>8 DEF PopulateSymbols
    <2>1. \A k \in Kinds : deletedSymbols'[k] \subseteq Symbols(k) /\ addedSymbols'[k] \subseteq Symbols(k)
      BY TablesAreOfSymbols DEF Symbols
    <2>2. deletedSymbols' \in SymbolTables /\ addedSymbols' \in SymbolTables
      BY <2>1, SymbolTable
    <2> QED
      BY <1>1, <1>2, <2>2 DEF TablesTyped, Tables
  <1>9. CASE ApplyFilters /\ UNCHANGED <<deleted, added, changed, deletedSymbols, addedSymbols>>
    <2>1. CASE applied
      BY <1>5, <1>9, <2>1 DEF ApplyFilters
    <2>2. CASE ~applied
      <3>1. PICK functions \in SUBSET changed["function"], variables \in SUBSET changed["variable"] :
              filteredOut' = [function |-> functions, variable |-> variables]
        BY <1>9, <2>2 DEF ApplyFilters
      <3>2. filteredOut' = [k \in Kinds |-> filteredOut'[k]]
        BY <3>1 DEF Kinds
      <3>3. \A k \in Kinds : filteredOut'[k] \subseteq changed[k]
        BY <3>1 DEF Kinds
      <3>4. filteredOut' \in SymbolTables
        BY <3>2, <3>3, SymbolTable DEF TablesTyped, Symbols
      <3> QED
        BY <1>1, <1>2, <1>9, <3>3, <3>4 DEF TablesTyped, Tables
    <2> QED
      BY <2>1, <2>2
  <1> QED
    BY <1>5, <1>6, <1>7, <1>8, <1>9
    DEF Next, vars, ComputeScripts, DecideStatus, Report

LEMMA TypedStep ==
    ASSUME Typed, [Next]_vars
    PROVE  Typed'
  <1>1. TablesTyped /\ LibrariesOK /\ Unfiltered
    BY DEF Typed, TypeOK, TablesTyped, Tables, LibrariesOK
  <1>2. TablesTyped'
    BY <1>1, TablesTypedStep
  <1>3. LibrariesOK'
    BY <1>1, LibrariesStay DEF LibrariesOK
  <1>4. /\ phase' \in Phases /\ applied' \in BOOLEAN /\ reported' \in BOOLEAN
        /\ status' \in {{}, {"change"}, {"change", "incompatible"}}
    BY DEF Typed, TypeOK, Phases, Next, vars, ComputeScripts, PopulateFunctions,
           PopulateVariables, PopulateSymbols, DecideStatus, Report, ApplyFilters
  <1>5. Unfiltered'
    BY DEF Typed, TypeOK, Unfiltered, Phases, Next, vars, ComputeScripts, PopulateFunctions,
           PopulateVariables, PopulateSymbols, DecideStatus, Report, ApplyFilters
  <1> QED
    BY <1>2, <1>3, <1>4, <1>5 DEF Typed, TypeOK, TablesTyped, Tables, LibrariesOK

-----------------------------------------------------------------------------
(* What the tables hold.                                                    *)
DeclsCompared(k) ==
  /\ \A f \in ToSet(first[k].decls) :
       ~HasName(second[k], f.symbol) /\ IsAlone(k, f.symbol) => f.symbol \in deleted[k]
  /\ \A f \in ToSet(first[k].decls), s \in ToSet(second[k].decls) :
       f.symbol = s.symbol /\ f.decl # s.decl /\ IsAlone(k, f.symbol) => Id(f) \in changed[k]
  /\ \A id \in added[k] : ~HasName(first[k], id)

SymbolsCompared(k) ==
  /\ \A s \in Unreferenced(first[k]) : ~HasName(second[k], s) => s \in deletedSymbols[k]
  /\ \A s \in addedSymbols[k] : ~HasName(first[k], s)

TablesInv ==
  /\ phase # "scripts" => ScriptsOK
  /\ phase \notin {"scripts", "functions"} => DeclsCompared("function")
  /\ phase \notin {"scripts", "functions", "variables"} => DeclsCompared("variable")
  /\ Computed => \A k \in Kinds : SymbolsCompared(k)
  /\ OnlyChangesReported
  /\ DeletedFunctionsAreGone

(* Looking a symbol up and having its name are the same.                    *)
LEMMA LookupFindsNames ==
    ASSUME NEW side, NEW s
    PROVE  Lookup(side, s) <=> HasName(side, s)
  BY DEF Lookup, HasName

(* The scripts leave what is equal.                                         *)
LEMMA ScriptsAreOK ==
    ASSUME ComputeScripts
    PROVE  ScriptsOK'
  <1>1. PICK functions \in KeptDeclarations("function"), variables \in KeptDeclarations("variable"),
             fnSymbols \in KeptSymbols("function"), varSymbols \in KeptSymbols("variable") :
          /\ kept' = [function |-> functions, variable |-> variables]
          /\ keptSymbols' = [function |-> fnSymbols, variable |-> varSymbols]
    BY DEF ComputeScripts
  <1>2. first' = first /\ second' = second
    BY DEF ComputeScripts
  <1>3. \A k \in Kinds : kept'[k] \in KeptDeclarations(k) /\ keptSymbols'[k] \in KeptSymbols(k)
    BY <1>1 DEF Kinds
  <1>4. ASSUME NEW k \in Kinds
        PROVE  \A p \in kept'[k] :
                 /\ p[1] \in DOMAIN first[k].decls /\ p[2] \in DOMAIN second[k].decls
                 /\ Same(k, first[k].decls[p[1]], second[k].decls[p[2]])
    BY <1>3 DEF KeptDeclarations, LongestCommon
  <1>5. ASSUME NEW k \in Kinds, NEW s \in first[k].symbols, s.name \in keptSymbols'[k]
        PROVE  HasName(second[k], s)
    BY <1>3, <1>5 DEF KeptSymbols, HasName, Unreferenced
  <1> QED
    BY <1>2, <1>4, <1>5
    DEF ScriptsOK, KeptAreEqual, KeptSymbolsAreThere, Same, SymbolsEqual, SymbolsAlias,
        HasName

(* The tables of a kind, right after they have been computed.               *)
LEMMA DeclsGetCompared ==
    ASSUME LibrariesOK, ScriptsOK, NEW k \in Kinds, first' = first, second' = second,
           \A id \in TablesOf(k).deleted : ~HasName(second[k], id) => id \in deleted'[k],
           added'[k] = {id \in TablesOf(k).added : ~Lookup(first[k], id)},
           changed'[k] = TablesOf(k).changed
    PROVE  DeclsCompared(k)'
  <1>1. KeptAreEqual(k)
    BY DEF ScriptsOK
  <1>2. ASSUME NEW f \in ToSet(first[k].decls), ~HasName(second[k], f.symbol), IsAlone(k, f.symbol)
        PROVE  f.symbol \in deleted'[k]
    BY <1>1, <1>2, GoneIsDeleted
  <1>3. ASSUME NEW f \in ToSet(first[k].decls), NEW s \in ToSet(second[k].decls),
               f.symbol = s.symbol, f.decl # s.decl, IsAlone(k, f.symbol)
        PROVE  Id(f) \in changed'[k]
    BY <1>1, <1>3, ChangeIsFound
  <1>4. \A id \in added'[k] : ~HasName(first[k], id)
    BY LookupFindsNames
  <1> QED
    BY <1>2, <1>3, <1>4 DEF DeclsCompared, IsAlone, HasName

LEMMA TablesInvInit == Init => TablesInv
  BY DEF Init, TablesInv, OnlyChangesReported, DeletedFunctionsAreGone, Computed, Nothing, Kinds

LEMMA TablesInvStep ==
    ASSUME Typed, TablesInv, [Next]_vars
    PROVE  TablesInv'
  <1>1. LibrariesOK /\ first' = first /\ second' = second
    BY LibrariesStay DEF Typed, TypeOK, LibrariesOK
  <1>2. deleted \in SymbolTables /\ added \in SymbolTables /\ changed \in SymbolTables
    BY DEF Typed, TypeOK
  <1>3. \A table \in SymbolTables : table = [k \in Kinds |-> table[k]]
    BY DEF SymbolTables
  <1>4. "function" \in Kinds /\ "variable" \in Kinds
    BY DEF Kinds
  <1>5. CASE ComputeScripts
    BY <1>5, ScriptsAreOK
    DEF ComputeScripts, TablesInv, Computed, OnlyChangesReported, DeletedFunctionsAreGone, HasName
  <1>6. CASE PopulateFunctions
    <2> USE <1>6 DEF PopulateFunctions
    <2>1. /\ deleted'["function"] =
               {id \in TablesOf("function").deleted : ~Lookup(second["function"], id)}
          /\ added'["function"] =
               {id \in TablesOf("function").added : ~Lookup(first["function"], id)}
          /\ changed'["function"] = TablesOf("function").changed
          /\ changed'["variable"] = changed["variable"]
      BY <1>2, <1>3, <1>4
    <2>2. ScriptsOK /\ ScriptsOK'
      BY SMTT(30), <1>1 DEF TablesInv, ScriptsOK, KeptAreEqual, KeptSymbolsAreThere, Same, SymbolsEqual,
                  SymbolsAlias, HasName
    <2>3. DeclsCompared("function")'
      BY <1>1, <1>4, <2>1, <2>2, LookupFindsNames, DeclsGetCompared
    <2>4. OnlyChangesReported'
      BY <1>1, <1>4, <2>1, ChangesDiffer DEF OnlyChangesReported, TablesInv, Kinds
    <2>5. DeletedFunctionsAreGone'
      BY <1>1, <2>1, LookupFindsNames DEF DeletedFunctionsAreGone, HasName
    <2> QED
      BY <2>2, <2>3, <2>4, <2>5 DEF TablesInv, Computed
  <1>7. CASE PopulateVariables
    <2> USE <1>7 DEF PopulateVariables
    <2> DEFINE still == {id \in TablesOf("variable").deleted : Lookup(second["variable"], id)}
    <2>1. /\ deleted'["function"] = deleted["function"] \ still
          /\ deleted'["variable"] = TablesOf("variable").deleted
          /\ added'["variable"] =
               {id \in TablesOf("variable").added : ~Lookup(first["variable"], id)}
          /\ added'["function"] = added["function"]
          /\ changed'["variable"] = TablesOf("variable").changed
          /\ changed'["function"] = changed["function"]
      BY <1>2, <1>3, <1>4
    <2>2. ScriptsOK /\ ScriptsOK'
      BY SMTT(30), <1>1 DEF TablesInv, ScriptsOK, KeptAreEqual, KeptSymbolsAreThere, Same, SymbolsEqual,
                  SymbolsAlias, HasName
    <2>3. DeclsCompared("variable")'
      BY <1>1, <1>4, <2>1, <2>2, DeclsGetCompared
    <2>4. \A id \in first["function"].symbols : id \notin still
      BY <1>1, <1>4, KindsApart, TablesAreOfSymbols DEF LibrariesOK
    <2>5. DeclsCompared("function")'
      <3>1. DeclsCompared("function")
        BY DEF TablesInv
      <3>2. \A f \in ToSet(first["function"].decls) : f.symbol \notin still
        BY <1>1, <1>4, <2>4, LibraryFacts DEF LibrariesOK
      <3> QED
        BY <1>1, <2>1, <3>1, <3>2 DEF DeclsCompared, HasName, IsAlone
    <2>6. OnlyChangesReported'
      BY <1>1, <1>4, <2>1, ChangesDiffer DEF OnlyChangesReported, TablesInv, Kinds
    <2>7. DeletedFunctionsAreGone'
      BY <1>1, <2>1 DEF TablesInv, DeletedFunctionsAreGone, HasName
    <2> QED
      BY <2>2, <2>3, <2>5, <2>6, <2>7 DEF TablesInv, Computed
  <1>8. CASE PopulateSymbols
    <2> USE <1>8 DEF PopulateSymbols
    <2>1. ScriptsOK
      BY DEF TablesInv
    <2>2. ASSUME NEW k \in Kinds PROVE SymbolsCompared(k)'
      <3>1. ASSUME NEW s \in Unreferenced(first[k]), ~HasName(second[k], s)
            PROVE  s \in deletedSymbols'[k]
        <4>1. s \in first[k].symbols /\ s \notin SymbolsInserted(k)
          BY <3>1 DEF Unreferenced, SymbolsInserted, HasName
        <4>2. s \in SymbolsDeleted(k)
          BY <2>1, <3>1, <4>1, LookupFindsNames DEF ScriptsOK, KeptSymbolsAreThere, SymbolsDeleted
        <4> QED
          BY <4>1, <4>2
      <3>2. \A s \in addedSymbols'[k] : ~HasName(first[k], s)
        BY LookupFindsNames
      <3>3. Unreferenced(first[k])' = Unreferenced(first[k])
        BY <1>1 DEF Unreferenced, NextAliases
      <3> QED
        BY <1>1, <3>1, <3>2, <3>3 DEF SymbolsCompared, HasName
    <2> QED
      BY SMTT(30), <1>1, <2>2
      DEF TablesInv, ScriptsOK, KeptAreEqual, KeptSymbolsAreThere, Same, SymbolsEqual, SymbolsAlias,
          HasName, DeclsCompared, IsAlone, OnlyChangesReported, DeletedFunctionsAreGone
  <1>9. CASE DecideStatus \/ Report \/ UNCHANGED vars
    <2>1. /\ UNCHANGED <<first, second, kept, keptSymbols, deleted, added, changed,
                         deletedSymbols, addedSymbols>>
          /\ phase = phase' \/ (phase \in {"computed", "decided"} /\ phase' \in {"decided", "done"})
      BY <1>9 DEF DecideStatus, Report, vars
    <2>2. \A k \in Kinds : Unreferenced(first[k])' = Unreferenced(first[k])
      BY <2>1 DEF Unreferenced, NextAliases
    <2> QED
      BY SMTT(30), <2>1, <2>2
      DEF TablesInv, ScriptsOK, KeptAreEqual, KeptSymbolsAreThere, Same, SymbolsEqual, SymbolsAlias,
          HasName, DeclsCompared, SymbolsCompared, Computed, IsAlone, OnlyChangesReported,
          DeletedFunctionsAreGone
  <1> QED
    BY <1>5, <1>6, <1>7, <1>8, <1>9 DEF Next

-----------------------------------------------------------------------------
(* The statistics and the exit status.                                      *)
StatusInv ==
  /\ phase \in {"decided", "done"} =>
       /\ applied
       /\ \A k \in Kinds : deleted[k] # {} \/ deletedSymbols[k] # {} => "incompatible" \in status
  /\ applied => \A k \in Kinds : /\ stats.changed[k] = Cardinality(changed[k])
                                 /\ stats.filteredOut[k] = Cardinality(filteredOut[k])
                                 /\ Computed

LEMMA StatusInvStep ==
    ASSUME Typed, StatusInv, [Next]_vars
    PROVE  StatusInv'
  <1>1. CASE ComputeScripts \/ PopulateFunctions \/ PopulateVariables \/ PopulateSymbols
    BY <1>1 DEF Typed, Unfiltered, StatusInv, Computed, ComputeScripts, PopulateFunctions,
                PopulateVariables, PopulateSymbols
  <1>2. CASE DecideStatus
    <2> USE <1>2 DEF DecideStatus
    <2>1. ~applied /\ stats = NoStats
      BY DEF Typed, Unfiltered
    <2>2. PICK functions \in SUBSET changed["function"], variables \in SUBSET changed["variable"] :
            /\ filteredOut' = [function |-> functions, variable |-> variables]
            /\ stats' = [removed |-> Sizes(deleted), added |-> Sizes(added),
                         changed |-> Sizes(changed),
                         filteredOut |-> [k \in Kinds |-> stats.filteredOut[k]
                                                            + Cardinality(filteredOut'[k])],
                         symbolsRemoved |-> Sizes(deletedSymbols),
                         symbolsAdded |-> Sizes(addedSymbols)]
      BY <2>1 DEF ApplyFilters
    <2>3. ASSUME NEW k \in Kinds
          PROVE  /\ IsFiniteSet(deleted[k]) /\ IsFiniteSet(deletedSymbols[k])
                 /\ IsFiniteSet(filteredOut'[k])
      <3>1. IsFiniteSet(first["function"].symbols) /\ IsFiniteSet(first["variable"].symbols)
            /\ IsFiniteSet(second["function"].symbols) /\ IsFiniteSet(second["variable"].symbols)
        BY LibraryFacts DEF Typed, TypeOK, Kinds
      <3>2. /\ deleted[k] \subseteq first[k].symbols /\ filteredOut'[k] \subseteq first[k].symbols
        BY <2>2 DEF Typed, TypeOK, Kinds
      <3>3. \E i \in Kinds : deletedSymbols[k] \subseteq Symbols(i)
        BY DEF Typed, TypeOK, SymbolTables
      <3> QED
        BY <3>1, <3>2, <3>3, FS_Subset, FS_Union DEF Symbols, Kinds
    <2>4. \A k \in Kinds : /\ stats'.removed[k] = Cardinality(deleted[k])
                           /\ stats'.symbolsRemoved[k] = Cardinality(deletedSymbols[k])
                           /\ stats'.changed[k] = Cardinality(changed[k])
                           /\ stats'.filteredOut[k] = Cardinality(filteredOut'[k])
      <3>1. \A k \in Kinds : stats.filteredOut[k] = 0
        BY <2>1 DEF NoStats
      <3>2. \A k \in Kinds : Cardinality(filteredOut'[k]) \in Nat
        BY <2>3, FS_CardinalityType
      <3> QED
        BY <2>2, <3>1, <3>2 DEF Sizes
    <2>5. \A k \in Kinds : deleted[k] # {} \/ deletedSymbols[k] # {} => "incompatible" \in status'
      BY <2>3, <2>4, FS_EmptySet
    <2> QED
      BY <2>2, <2>4, <2>5 DEF StatusInv, Computed, ApplyFilters
  <1>3. CASE Report
    <2>1. UNCHANGED <<filteredOut, stats, applied>>
      BY <1>3 DEF Report, StatusInv, ApplyFilters
    <2> QED
      BY <1>3, <2>1 DEF Report, StatusInv, Computed
  <1>4. CASE UNCHANGED vars
    BY <1>4 DEF vars, StatusInv, Computed
  <1> QED
    BY <1>1, <1>2, <1>3, <1>4 DEF Next

-----------------------------------------------------------------------------
(* Theorems.                                                                *)
Inv == Typed /\ TablesInv /\ StatusInv

LEMMA InvAlways == Spec => []Inv
  <1>1. Init => Inv
    BY TypedInit, TablesInvInit DEF Inv, Init, StatusInv, Computed
  <1>2. Inv /\ [Next]_vars => Inv'
    BY TypedStep, TablesInvStep, StatusInvStep DEF Inv
  <1> QED
    BY <1>1, <1>2, PTL DEF Spec

(* The tables of corpus_diff::priv hold ids and symbols of the library they *)
(* are about, and only changes are filtered out.                            *)
THEOREM CorpusTypeCorrect == Spec => []TypeOK
  <1>1. Inv => TypeOK
    BY DEF Inv, Typed
  <1> QED
    BY <1>1, InvAlways, PTL

(* ensure_lookup_tables_populated() leaves no symbol that has gone out of   *)
(* the report, if it has no aliases.                                        *)
THEOREM RemovalsAreReported == Spec => []RemovedSymbolsReported
  <1>1. Inv => RemovedSymbolsReported
    <2> SUFFICES ASSUME Inv, Computed, NEW k \in Kinds, NEW s \in first[k].symbols,
                        ~HasName(second[k], s), IsAlone(k, s)
                 PROVE  GoneIsReported(k, s)
      BY DEF RemovedSymbolsReported
    <2>1. DeclsCompared(k) /\ SymbolsCompared(k) /\ LibrariesOK
      BY DEF Inv, Typed, TypeOK, TablesInv, Computed, Kinds, LibrariesOK
    <2>2. CASE \E f \in ToSet(first[k].decls) : f.symbol = s
      BY <2>1, <2>2 DEF DeclsCompared, GoneIsReported
    <2>3. CASE \A f \in ToSet(first[k].decls) : f.symbol # s
      BY <2>1, <2>3, UndeclaredIsUnreferenced DEF SymbolsCompared, GoneIsReported
    <2> QED
      BY <2>2, <2>3
  <1> QED
    BY <1>1, InvAlways, PTL

(* Neither the report nor the exit status misses a symbol that has gone.    *)
THEOREM RemovalsTold == Spec => []RemovalsAreTold
  <1>1. Inv /\ RemovedSymbolsReported => RemovalIsIncompatible
    BY DEF Inv, StatusInv, RemovedSymbolsReported, RemovalIsIncompatible, GoneIsReported, Computed
  <1>2. RemovedSymbolsReported /\ RemovalIsIncompatible => RemovalsAreTold
    BY DEF RemovalsAreTold
  <1> QED
    BY <1>1, <1>2, InvAlways, RemovalsAreReported, PTL

(* A declaration that is in both libraries and differs is in the table of   *)
(* changes, whichever shortest script compute_diff() has found; what the    *)
(* script deletes and inserts only because others have moved is not.        *)
THEOREM ChangesTold == Spec => []ChangesAreTold
  <1>1. Inv => ChangesReported
    BY DEF Inv, TablesInv, ChangesReported, DeclsCompared, Computed, Kinds
  <1>2. Inv => OnlyChangesReported
    BY DEF Inv, TablesInv
  <1>3. ChangesReported /\ OnlyChangesReported => ChangesAreTold
    BY DEF ChangesAreTold
  <1> QED
    BY <1>1, <1>2, <1>3, InvAlways, PTL

(* The checks against the symbol tables: a deleted function has lost its    *)
(* symbol, what is added has a new one.                                     *)
THEOREM NamesRight == Spec => []NamesAreRight
  <1>1. Inv => DeletedFunctionsAreGone
    BY DEF Inv, TablesInv
  <1>2. Inv => AddedAreNew
    BY DEF Inv, TablesInv, AddedAreNew, DeclsCompared, SymbolsCompared, Computed, Kinds
  <1>3. DeletedFunctionsAreGone /\ AddedAreNew => NamesAreRight
    BY DEF NamesAreRight
  <1> QED
    BY <1>1, <1>2, <1>3, InvAlways, PTL

(* diff_stats: the net numbers of changes do not wrap around.               *)
THEOREM NetCountsNeverWrap == Spec => []NoCountWraps
  <1>1. Inv => NoCountWraps
    <2> SUFFICES ASSUME Inv, applied, NEW k \in Kinds
                 PROVE  /\ NetChanged(k) >= 0
                        /\ stats.filteredOut[k] = Cardinality(filteredOut[k])
      BY DEF NoCountWraps
    <2>1. /\ stats.changed[k] = Cardinality(changed[k])
          /\ stats.filteredOut[k] = Cardinality(filteredOut[k])
      BY DEF Inv, StatusInv
    <2>2. filteredOut[k] \subseteq changed[k] /\ IsFiniteSet(changed[k])
      BY LibraryFacts, FS_Subset DEF Inv, Typed, TypeOK
    <2> QED
      BY <2>1, <2>2, FS_Subset, FS_CardinalityType DEF NetChanged
  <1> QED
    BY <1>1, InvAlways, PTL
=============================================================================
