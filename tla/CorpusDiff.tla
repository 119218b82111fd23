----------------------------- MODULE CorpusDiff -----------------------------
(***************************************************************************)
(* corpus_diff of abg-comparison.cc, from compute_diff(corpus, corpus) to  *)
(* the exit status of abidiff: which functions, variables and symbols of   *)
(* two libraries are said to be removed, added or changed.                 *)
(*                                                                         *)
(* A library has, of each kind, a symbol table, the declarations its debug *)
(* information describes, in some order, and the rings of the symbols that *)
(* are at the same address, main symbol first: of libraries read from XML, *)
(* since those read from ELF have declarations whose symbols are chained   *)
(* to none (CorpusSymbols), and no rings.  A declaration has an ELF        *)
(* symbol and the rest of what is compared, decl.  A name stands for the   *)
(* name of a symbol and its version; default tells "name@@version" from    *)
(* "name@version".  The edit scripts come from diff_utils::compute_diff,   *)
(* any shortest one of them (see ShortestScript); filters and suppressions *)
(* are those of DiffCategorize: here they hide any of the changes.         *)
(***************************************************************************)
EXTENDS EditGraph, Library

CONSTANT Libraries

ASSUME LibrariesAssumption == \A l \in Libraries : IsLibrary(l)

VARIABLES
  first, second,          \* the libraries
  phase,                  \* what is done next
  kept,                   \* what the edit scripts of the declarations leave
  keptSymbols,            \* and those of the unreferenced symbols
  deleted, added, changed,           \* per kind, ids of declarations
  deletedSymbols, addedSymbols,      \* per kind, symbols without debug information
  filteredOut,            \* per kind, the changes the filters hide
  stats, applied,         \* the diff_stats, and whether they are computed
  status,                 \* the exit status of abidiff
  reported                \* whether the changes are reported

vars == <<first, second, phase, kept, keptSymbols, deleted, added, changed,
          deletedSymbols, addedSymbols, filteredOut, stats, applied, status, reported>>
-----------------------------------------------------------------------------
(* Libraries *)

\* function_decl::get_id, var_decl::get_id
Id(declaration) == declaration.symbol

\* Mutant of Lookup: symbols are looked up by their ids.
LookupById(side, symbol) == symbol \in side.symbols

\* corpus::lookup_function_symbol, corpus::lookup_variable_symbol: the symbol of
\* that name and version, whether or not the version is the default one.
Lookup(side, symbol) == \E s \in side.symbols : s.name = symbol.name

\* The aliases from a symbol on, up to the main symbol of the ring.
NextAliases(side, name) ==
  UNION {{ring[j] : j \in {j \in DOMAIN ring : \E i \in DOMAIN ring : i < j /\ ring[i] = name}} :
         ring \in side.rings}

\* elf_symbol::does_alias and elf_symbols_alias
DoesAlias(side, name, other) == name = other \/ other \in NextAliases(side, name)
SymbolsAlias(k, s, t) ==
  DoesAlias(first[k], s.name, t.name) \/ DoesAlias(second[k], t.name, s.name)

\* equals of function_decl makes do with an alias, that of var_decl does not.
SymbolsEqual(k, s, t) == s.name = t.name \/ (k = "function" /\ SymbolsAlias(k, s, t))

\* operator== of function_decl and of var_decl.
Same(k, f, s) == SymbolsEqual(k, f.symbol, s.symbol) /\ f.decl = s.decl

\* build_unreferenced_symbols_tables: a symbol is referenced when a declaration
\* has it, or has one that it is a next alias of.  The table is sorted by id.
Unreferenced(side) ==
  LET names == UNION {{d.symbol.name} \cup NextAliases(side, d.symbol.name) :
                        d \in ToSet(side.decls)}
  IN  {s \in side.symbols : s.name \notin names}

\* What an edit script of the declarations of a kind may leave.
KeptDeclarations(k) ==
  LongestCommon({p \in (DOMAIN first[k].decls) \X (DOMAIN second[k].decls) :
                   Same(k, first[k].decls[p[1]], second[k].decls[p[2]])})

\* The same of the unreferenced symbols, which are equal when their names are.
\* The tables are sorted by the ids, whose order is not modelled: where a version
\* has become the default one, or is it no longer, two symbols may have changed
\* places, and the script keeps one of them only.
KeptSymbols(k) ==
  LET both == {s.name : s \in Unreferenced(first[k])} \cap
              {s.name : s \in Unreferenced(second[k])}
  IN  {names \in SUBSET both : names = {} => both = {}}
-----------------------------------------------------------------------------
(* Actions *)

Nothing == [k \in Kinds |-> {}]
NoStats == [removed |-> [k \in Kinds |-> 0], added |-> [k \in Kinds |-> 0],
            changed |-> [k \in Kinds |-> 0], filteredOut |-> [k \in Kinds |-> 0],
            symbolsRemoved |-> [k \in Kinds |-> 0],
            symbolsAdded |-> [k \in Kinds |-> 0]]

Init ==
  /\ first \in Libraries /\ second \in Libraries
  /\ phase = "scripts"
  /\ kept = Nothing /\ keptSymbols = Nothing
  /\ deleted = Nothing /\ added = Nothing /\ changed = Nothing
  /\ deletedSymbols = Nothing /\ addedSymbols = Nothing
  /\ filteredOut = Nothing
  /\ stats = NoStats /\ applied = FALSE
  /\ status = {} /\ reported = FALSE

\* compute_diff(corpus, corpus) up to the lookup tables.
ComputeScripts ==
  /\ phase = "scripts"
  /\ \E functions \in KeptDeclarations("function"), variables \in KeptDeclarations("variable"),
        fnSymbols \in KeptSymbols("function"), varSymbols \in KeptSymbols("variable") :
       /\ kept' = [function |-> functions, variable |-> variables]
       /\ keptSymbols' = [function |-> fnSymbols, variable |-> varSymbols]
  /\ phase' = "functions"
  /\ UNCHANGED <<first, second, deleted, added, changed, deletedSymbols, addedSymbols,
                 filteredOut, stats, applied, status, reported>>

\* The declarations the script deletes and inserts.
ScriptDeletes(k) == {first[k].decls[i] : i \in DOMAIN first[k].decls \ {p[1] : p \in kept[k]}}
ScriptInserts(k) == {second[k].decls[j] : j \in DOMAIN second[k].decls \ {p[2] : p \in kept[k]}}

\* Mutant of TablesOf: what is deleted and inserted is not compared again.
TablesOfScript(k) ==
  LET gone == {Id(f) : f \in ScriptDeletes(k)}
      come == {Id(s) : s \in ScriptInserts(k)}
  IN  [deleted |-> gone \ come, added |-> come \ gone, changed |-> gone \cap come]

\* Mutant of TablesOf: what is inserted is not looked for among what is deleted.
TablesOfInserted(k) ==
  LET gone == {Id(f) : f \in ScriptDeletes(k)}
      come == {Id(s) : s \in ScriptInserts(k)}
  IN  [deleted |-> gone \ come, added |-> {}, changed |-> come]

\* The tables of a kind before they are checked against the symbol tables: an id
\* that is deleted and inserted is changed, if the declarations differ.
TablesOf(k) ==
  LET gone == {Id(f) : f \in ScriptDeletes(k)}
      come == {Id(s) : s \in ScriptInserts(k)}
  IN  [deleted |-> gone \ come,
       added |-> come \ gone,
       changed |-> {Id(f) : f \in {f \in ScriptDeletes(k) :
                                     \E s \in ScriptInserts(k) : Id(s) = Id(f) /\ ~Same(k, f, s)}}]

\* ensure_lookup_tables_populated, functions.  A function whose symbol is still
\* there has not been deleted, one whose symbol was there has not been added.
PopulateFunctions ==
  /\ phase = "functions"
  /\ LET t == TablesOf("function") IN
     /\ deleted' = [deleted EXCEPT !["function"] =
                       {id \in t.deleted : ~Lookup(second["function"], id)}]
     /\ added' = [added EXCEPT !["function"] =
                     {id \in t.added : ~Lookup(first["function"], id)}]
     /\ changed' = [changed EXCEPT !["function"] = t.changed]
  /\ phase' = "variables"
  /\ UNCHANGED <<first, second, kept, keptSymbols, deletedSymbols, addedSymbols,
                 filteredOut, stats, applied, status, reported>>

\* ensure_lookup_tables_populated, variables.  What the symbol table still has is
\* erased from the deleted functions.
PopulateVariables ==
  /\ phase = "variables"
  /\ LET t == TablesOf("variable")
         still == {id \in t.deleted : Lookup(second["variable"], id)}
     IN
     /\ deleted' = [function |-> deleted["function"] \ still, variable |-> t.deleted]
     /\ added' = [added EXCEPT !["variable"] =
                     {id \in t.added : ~Lookup(first["variable"], id)}]
     /\ changed' = [changed EXCEPT !["variable"] = t.changed]
  /\ phase' = "symbols"
  /\ UNCHANGED <<first, second, kept, keptSymbols, deletedSymbols, addedSymbols,
                 filteredOut, stats, applied, status, reported>>

\* ensure_lookup_tables_populated, symbols that no declaration refers to.
SymbolsDeleted(k) ==
  {s \in Unreferenced(first[k]) : s.name \notin keptSymbols[k] /\ ~Lookup(second[k], s)}
SymbolsInserted(k) == {s \in Unreferenced(second[k]) : s.name \notin keptSymbols[k]}

PopulateSymbols ==
  /\ phase = "symbols"
  /\ deletedSymbols' = [k \in Kinds |-> SymbolsDeleted(k) \ SymbolsInserted(k)]
  /\ addedSymbols' = [k \in Kinds |-> {s \in SymbolsInserted(k) \ SymbolsDeleted(k) :
                                         ~Lookup(first[k], s)}]
  /\ phase' = "computed"
  /\ UNCHANGED <<first, second, kept, keptSymbols, deleted, added, changed,
                 filteredOut, stats, applied, status, reported>>

Sizes(table) == [k \in Kinds |-> Cardinality(table[k])]

\* Mutant of ApplyFilters: the statistics are not cached.
ApplyFiltersAgain ==
  \E functions \in SUBSET changed["function"], variables \in SUBSET changed["variable"] :
    /\ filteredOut' = [function |-> functions, variable |-> variables]
    /\ stats' = [removed |-> Sizes(deleted), added |-> Sizes(added),
                 changed |-> Sizes(changed),
                 filteredOut |-> [k \in Kinds |-> stats.filteredOut[k]
                                                    + Cardinality(filteredOut'[k])],
                 symbolsRemoved |-> Sizes(deletedSymbols),
                 symbolsAdded |-> Sizes(addedSymbols)]
    /\ applied' = TRUE

\* apply_filters_and_suppressions_before_reporting.  The first call computes the
\* statistics, the others find them.  The counts of what is filtered out are
\* added to, the others are set.
ApplyFilters ==
  IF applied
  THEN UNCHANGED <<filteredOut, stats, applied>>
  ELSE \E functions \in SUBSET changed["function"], variables \in SUBSET changed["variable"] :
         /\ filteredOut' = [function |-> functions, variable |-> variables]
         /\ stats' = [removed |-> Sizes(deleted), added |-> Sizes(added),
                      changed |-> Sizes(changed),
                      filteredOut |-> [k \in Kinds |-> stats.filteredOut[k]
                                                         + Cardinality(filteredOut'[k])],
                      symbolsRemoved |-> Sizes(deletedSymbols),
                      symbolsAdded |-> Sizes(addedSymbols)]
         /\ applied' = TRUE

SonameChanged == first.soname # second.soname
ArchitectureChanged == first.architecture # second.architecture

\* diff_stats::net_num_func_changed and net_num_vars_changed
NetChanged(k) == stats.changed[k] - stats.filteredOut[k]

\* corpus_diff::has_changes
HasChanges ==
  \/ SonameChanged \/ ArchitectureChanged
  \/ \E k \in Kinds : \E table \in {deleted, added, changed, deletedSymbols, addedSymbols} :
       table[k] # {}

\* Mutant of DecideStatus: the symbols without debug information do not count.
DecideStatusOfDecls ==
  /\ phase = "computed"
  /\ ApplyFilters
  /\ status' = IF SonameChanged \/ \E k \in Kinds : stats'.removed[k] # 0
               THEN {"change", "incompatible"}
               ELSE IF \E k \in Kinds : NetChanged(k)' # 0 THEN {"change"} ELSE {}
  /\ phase' = "decided"
  /\ UNCHANGED <<first, second, kept, keptSymbols, deleted, added, changed,
                 deletedSymbols, addedSymbols, reported>>

\* main of abidiff, up to the exit status ...
DecideStatus ==
  /\ phase = "computed"
  /\ ApplyFilters
  /\ status' = IF SonameChanged \/ \E k \in Kinds : \/ stats'.removed[k] # 0
                                                    \/ stats'.symbolsRemoved[k] # 0
               THEN {"change", "incompatible"}
               ELSE IF \E k \in Kinds : NetChanged(k)' # 0 THEN {"change"} ELSE {}
  /\ phase' = "decided"
  /\ UNCHANGED <<first, second, kept, keptSymbols, deleted, added, changed,
                 deletedSymbols, addedSymbols, reported>>

\* ... and the report, if there are changes.
Report ==
  /\ phase = "decided"
  /\ IF HasChanges
     THEN ApplyFilters /\ reported' = TRUE
     ELSE UNCHANGED <<filteredOut, stats, applied, reported>>
  /\ phase' = "done"
  /\ UNCHANGED <<first, second, kept, keptSymbols, deleted, added, changed,
                 deletedSymbols, addedSymbols, status>>

Next ==
  \/ ComputeScripts \/ PopulateFunctions \/ PopulateVariables \/ PopulateSymbols
  \/ DecideStatus \/ Report

Spec == Init /\ [][Next]_vars
-----------------------------------------------------------------------------
(* Properties *)

Symbols(k) == first[k].symbols \cup second[k].symbols
SymbolTables == [Kinds -> UNION {SUBSET Symbols(k) : k \in Kinds}]
Phases == {"scripts", "functions", "variables", "symbols", "computed", "decided", "done"}

\* The tables hold ids of the right library; what is filtered out is changed.
TypeOK ==
  /\ first \in Libraries /\ second \in Libraries
  /\ phase \in Phases
  /\ applied \in BOOLEAN /\ reported \in BOOLEAN
  /\ status \in {{}, {"change"}, {"change", "incompatible"}}
  /\ \A table \in {deleted, added, changed, deletedSymbols, addedSymbols, filteredOut} :
       table \in SymbolTables
  /\ \A k \in Kinds :
       /\ deleted[k] \subseteq first[k].symbols /\ added[k] \subseteq second[k].symbols
       /\ changed[k] \subseteq first[k].symbols \cap second[k].symbols
       /\ filteredOut[k] \subseteq changed[k]

Computed == phase \in {"computed", "decided", "done"}

\* No other symbol is at the address of this one, in either library.
IsAlone(k, s) ==
  \A ring \in first[k].rings \cup second[k].rings : s.name \notin ToSet(ring)

\* The side has a symbol of the name and version of this one.
HasName(side, s) == s.name \in {t.name : t \in side.symbols}

\* "consider that the function in question hasn't been deleted": a function is
\* only said to be deleted when its symbol has gone, and to be added when its
\* symbol is new; so are variables said to be added.
DeletedFunctionsAreGone ==
  \A id \in deleted["function"] : ~HasName(second["function"], id)
AddedAreNew ==
  Computed => \A k \in Kinds : \A id \in added[k] \cup addedSymbols[k] : ~HasName(first[k], id)

\* The same of variables: "otherwise consider that the variable in question
\* hasn't been deleted".
DeletedVariablesAreGone ==
  Computed => \A id \in deleted["variable"] : ~HasName(second["variable"], id)

\* Whatever the order of the declarations and whichever shortest scripts were
\* found, a symbol that has gone is in the report, if it has no aliases: as a
\* deleted declaration, or as a symbol without debug information.
GoneIsReported(k, s) == s \in deleted[k] \cup deletedSymbols[k]
RemovedSymbolsReported ==
  Computed => \A k \in Kinds : \A s \in first[k].symbols :
                ~HasName(second[k], s) /\ IsAlone(k, s) => GoneIsReported(k, s)

\* A declaration that differs between the libraries is in the table of changes,
\* whatever the scripts; it may have gone unnoticed where its symbol has aliases.
ChangesReported ==
  Computed => \A k \in Kinds : \A f \in ToSet(first[k].decls), s \in ToSet(second[k].decls) :
                f.symbol = s.symbol /\ f.decl # s.decl /\ IsAlone(k, f.symbol)
                => Id(f) \in changed[k]

\* No declaration is in the table of changes that is the same in both libraries,
\* even if the script deletes and inserts it because others have moved.
OnlyChangesReported ==
  \A k \in Kinds : \A f \in ToSet(first[k].decls), s \in ToSet(second[k].decls) :
    Id(f) = Id(s) /\ Id(f) \in changed[k] => f.decl # s.decl

\* The differences between unsigned numbers of net_num_func_changed and
\* net_num_vars_changed do not wrap around, however often the filters are asked
\* for, and what they hide is counted once.
NoCountWraps ==
  applied => \A k \in Kinds : /\ NetChanged(k) >= 0
                              /\ stats.filteredOut[k] = Cardinality(filteredOut[k])

\* The exit status has the bit for incompatible changes when a symbol without
\* aliases has gone.
RemovalIsIncompatible ==
  phase = "done" => \A k \in Kinds : \A s \in first[k].symbols :
                      ~HasName(second[k], s) /\ IsAlone(k, s) => "incompatible" \in status
\* A symbol that has gone, and has no aliases, is in the report and makes the exit
\* status tell an incompatible change.
RemovalsAreTold == RemovedSymbolsReported /\ RemovalIsIncompatible

\* The table of changes holds what differs, and nothing else.
ChangesAreTold == ChangesReported /\ OnlyChangesReported

\* What is said to be deleted has gone, what is said to be added is new.
NamesAreRight == DeletedFunctionsAreGone /\ AddedAreNew
=============================================================================
