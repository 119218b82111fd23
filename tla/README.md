# Libabigail in TLA+

Libabigail compares the application binary interfaces (ABI) of two versions of a
binary. It reads an ELF file and its DWARF debug information, or an XML file it
wrote earlier, into an intermediate representation (IR), computes a graph of the
differences between two corpora, decides which of these differences are worth a
user's attention, and reports them. This directory holds TLA+ models of the parts
of it that are hard to test, the TLC configurations that check them on small
instances, and proofs, checked by TLAPS, of what holds for all instances.

Paths are relative to the root of the repository, whose sources are in `src/`,
`include/` and `tools/`. Files named without a directory are in `src/`.

## The system

| Component | State it keeps | Operations | What is hard about it |
|---|---|---|---|
| DWARF reader: `abg-dwarf-reader.cc` | maps from DIE offsets to IR, classes being built, declaration-only classes, types to canonicalize | build the IR of each DIE, its scope first; resolve declarations; canonicalize late | types under construction; offsets of two files; the order in which things are met |
| ELF symbols: `abg-dwarf-reader.cc`, `abg-ir.cc`, `abg-tools-utils.cc` | symbol maps, rings of aliases, versions | load the maps, look a symbol up | aliases, versions that two sections tell, hash tables |
| XML reader and writer: `abg-reader.cc`, `abg-writer.cc` | maps from ids to types and XML nodes, the stack of scopes; ids given and types emitted or referenced | read, write | a type is referenced before it is read or written |
| IR: `abg-ir.cc`, `include/abg-ir.h` | types, declarations, scopes, the canonical types of the environment, the set of classes being compared | construct, `operator==`, `equals()`, `canonicalize()`, hash, traverse | types that refer to themselves; a canonical type is a cached answer to a comparison that may still be going on |
| Hashes: `abg-hash.cc` | cached hashes, the hash being computed | `hash` of each type | recursion |
| Corpus: `abg-corpus.cc` | exported functions and variables, symbol maps, ids to keep | `maybe_add_fn_to_exported_fns`, `maybe_drop_some_exported_decls`, lookups | one declaration per symbol although DWARF has many |
| Corpus diff: `corpus_diff` of `abg-comparison.cc` | edit scripts, tables of deleted, added and changed functions, variables and symbols | `compute_diff(corpus)`, `ensure_lookup_tables_populated`, counts | the tables decide what is reported as removed |
| Edit scripts: `include/abg-diff-utils.h` | two sequences, the furthest reaching paths | `compute_diff`, `compute_middle_snake`, `ses_len` | indexes and off-by-one errors; the recursion must shrink |
| Diff graph: `abg-comparison.cc`, `compute_diff()` and the `*_diff` classes | one node per call, the registry `types_or_decls_diff_map` of canonical diffs, children, parents | `compute_diff` of 15 kinds of artifacts, `finish_diff_type`, `chain_into_hierarchy` | cyclic types, nodes shared by several parents, private data shared before it is filled |
| Categorization: visitors of `abg-comparison.cc`, `abg-comp-filter.cc` | categories of each node, visited and traversing flags, what a visitor skips | suppress, filter harmless and harmful changes, propagate categories, mark redundancy | the order of the walks of a cyclic graph that is shared and still growing; each walk reads what an earlier one left behind |
| Report: the `report()` methods | `currently_reporting_` and `reported_once_` of the canonical diffs | report of 15 kinds of diffs | cycles, "details were reported earlier" |
| Suppressions: `suppression_base` and below, `abg-comparison.cc` | the directives read from a file | `read_suppressions`, `suppresses_diff` | many optional clauses, each for either side of a difference |
| Ini parser: `abg-ini.cc` | position in a character stream, what was put back | read sections and properties | error paths |
| Tools: `tools/*.cc`, `abg-tools-utils.cc` | options | `abidiff`, `abicompat`, `abidw`, `abilint`, `abiar`, `abisym`, `binilint` | the exit status is what scripts rely on |
| Configuration, libxml and libzip wrappers, visualization | none to speak of | | wrappers and drawing |

The tools drive the others in one thread: read two corpora, `compute_diff()` on
them, `apply_filters_and_suppressions_before_reporting()`, `report()`. Nothing is
persisted half-way and nothing runs concurrently. The hazards are those of a
recursion over cyclic data that keeps its state in flags and tables outside the
recursion: what a call reads depends on the calls that came before and on those it
is nested in. PROJECT.json lists them by line.

## The modules

| Module | Models | Uses |
|---|---|---|
| `DiffGraph` | `compute_diff()`, the registry of canonical diffs, `finish_diff_type()` | |
| `DiffCategorize` | `diff::traverse()` and the five visitors of `apply_filters_and_suppressions_before_reporting()` | extends `DiffGraph`, refines it |
| `DiffReport` | the `report()` methods | extends `DiffCategorize`, refines `DiffGraph` |
| `EditGraph` | sequences, edit scripts, longest common subsequences | |
| `ShortestScript` | what `diff_utils::compute_diff()` promises its callers | |
| `EditScript` | `diff_utils::compute_diff()` | refines `ShortestScript` |
| `Library` | what a corpus is to those who compare it | |
| `CorpusDiff` | `compute_diff(corpus, corpus)`, the lookup tables, the statistics, the exit status of `abidiff` | any script `ShortestScript` allows; assumes `Library` |
| `ElfFile` | the symbol tables, versions and hash tables of an ELF file, as the reader reads them | |
| `CorpusSymbols` | symbol maps, rings of aliases, exported declarations, symbols in XML, `abicompat` and `abisym` | extends `ElfFile`; guarantees `Library`, as `CorpusSymbolsProofs` proves |
| `CanonicalTypes` | hashes, canonicalization and comparison of types, and the order in which the two readers build and canonicalize them | |
| `DwarfExpr` | the evaluation of DWARF expressions | |
| `DwarfTypes` | the building of the IR from the DIEs of an ELF file | extends `DwarfExpr` |
| `XmlTypes` | what the XML writer writes of the types of a corpus, and its reading | |
| `IniFile` | `read_sections()`, `write_sections()` | |
| `Suppressions` | directives, and the differences they suppress | extends `IniFile` |
| `SmallABIs` | the small programs that `MCDiffGraph` and `MCDiffReport` compare | |
| `MC...` | instances for TLC | |
| `DiffGraphProofs`, `DiffReportProofs`, `CorpusDiffProofs`, `EditScriptProofs`, `CanonicalTypesProofs`, `CorpusPartsProofs`, `CorpusSymbolsProofs` | theorems and their proofs | each extends its component, and those that build on others extend theirs; `DiffReportProofs` has those of `DiffCategorize` too, the last two are about `CorpusSymbols` |
| `InductionLemmas` | least numbers, recursive functions, iterated functions and closed sets, stacks, flattened sequences: what the proofs share | |

Together the modules follow a comparison from the files to the exit status: the
readers (`DwarfTypes`, `XmlTypes`, `ElfFile`, `CorpusSymbols`), what they leave in the
IR (`CanonicalTypes`, `Library`), the comparison (`EditScript`, `CorpusDiff`,
`DiffGraph`), what is shown of it (`Suppressions`, `DiffCategorize`) and how
(`DiffReport`).

The definitions that a comment calls a *mutant* are plausible mistakes in the
definition that follows them. They are part of no specification; PROJECT.json pairs
each with the property that finds it out, so that every property is known to tell
right code from wrong.

### DiffGraph

A *subject* is a pair of artifacts, one of each corpus, up to the deep equality
that keys `types_or_decls_diff_map`; a *diff* is a node, made by one call of
`compute_diff()`.

| Model | Code |
|---|---|
| `canonicalOf`, `canonical`, `NewDiff` | the registry, `diff::canonical_diff_`, `initialize_canonical_diff()` |
| `parts`, `Parts` | the private data that a `class_diff` shares with its canonical diff; the sub-diffs the other kinds hold |
| `calls`, `ComputeNewClass` ... `FinishCompound` | the C++ stack; the three ways the fifteen overloads of `compute_diff()` go about a subject: registered before the parts are looked at (classes), parts computed on demand (variables, parameters), parts first (all others) |
| `AskRoot`, `GetRoot` | `corpus_diff` asks for the diffs of changed functions and variables in the order of a hash map |
| `AskType`, `GetType` | `var_diff::type_diff()`, `fn_parm_diff::get_type_diff()` |
| `FinishDiffType`, `children`, `parent` | `finish_diff_type()`, `chain_into_hierarchy()`, `append_child_node()`; equally ranked children come in any order, since `std::sort()` is not stable |

`GraphNext` finishes diffs in any order that the traversals could choose. So what
holds of it holds whatever visitors there are.

### DiffCategorize

`walk` is the stack of `diff::traverse()`, `todo` the walks that remain, in the
order of `apply_filters_and_suppressions_before_reporting()`: per root, each filter
and the propagation that follows it; then the redundancy pass. `Enter`, `VisitChild` and
`Leave` are `traverse()` up to its loop, an iteration of the loop, and the rest;
`VisitBegin` and `VisitEnd` are the visitors. `FinishHere` is the call of
`finish_diff_type()` in `traverse()`, through which the graph grows during a walk.
What a filter looks at in a pair of declarations (sizes, names, access) is the
parameter `OwnIn`; what a suppression specification matches is `SuppressedIn`, and
how it is matched is module `Suppressions`. It has no run of its own: `MCDiffReport`
checks its properties when the report begins.

### DiffReport

`reports` is the stack of `report()`, each call with the parts it has still to go into,
`reporting` and `reported` are the flags of the canonical diffs. The kinds of diffs
differ in what they ask before they go on (`Method` and the five sets of it that
follow): whether they are flagged themselves, whether a part is, whether a part is to
be reported, and whether they only assert that. `ReportRoot` is the loop of
`corpus_diff::report()`, `ReferToItself` and `ReferToPart` are the macros
`RETURN_IF_BEING_REPORTED_OR_WAS_REPORTED_EARLIER` and its variants, `OpenReport` and
`CloseReport` are `report()` before and after its parts. `ReportAsksType` is where the
report still computes diffs. Of the text only which diffs are printed, in which
order, and which are referred to is kept. Deleted and inserted members are printed
from tables, without a diff, and are part of a diff's own change.

### EditScript

`calls` is the recursion of `compute_diff()` over regions of the two sequences,
`search` the state of `compute_middle_snake()`: the two vectors of furthest
reaching paths, the number of edits and the diagonal. `ExtendAhead` and
`ExtendBack` extend one path, `OneSided`, `NoEdit` and `OneEdit` are the base cases,
`Before` and `After` the two recursive calls, `Joined` the return. Elements are
indexes and equality is any relation: the comparisons the callers pass are not
always transitive.

### CorpusDiff

`phase` follows `compute_diff(corpus, corpus)` and
`ensure_lookup_tables_populated()`: the scripts, the tables of functions,
variables and symbols, then `main()` of `abidiff`: the exit status and
the report. A declaration is an ELF symbol and `decl`, all the rest that is
compared; a ring is the list of the symbols at one address, in the order in which
`get_next_alias()` goes through them. What a library is, and that names are
unique in it, is module `Library`.

### ElfFile and CorpusSymbols

A *world* has a tool, the ELF files it reads, the addresses their debug information
describes, and whether a library is read from the XML that was written of it.

| Model | Code |
|---|---|
| `SymbolTable`, `VersionForSymbol`, `LookupSymbol` of `ElfFile` | `find_symbol_table_section`, `get_version_for_symbol`, `lookup_symbol_from_elf` with its linear, SysV and GNU variants (the Bloom filter of the last with its word size and shifts) |
| `symbols`, `AddAlias`, `NextAliases` | the heap of `elf_symbol`; `add_alias()`, `get_next_alias()`, `get_main_symbol()` |
| `LoadPublic`, `LoadUndefined`, `SkipSymbol` | `load_symbol_maps()`: an entry at a time; the first of an address is the main symbol of a ring |
| `ReadDie`, `MaybeAdd`, `Keep` | `exported_decls_builder`: a declaration after another, one per id, and the expressions and ids to drop and keep |
| `Rows`, `ReadSymbolDb`, `LinkAliases`, `ReadXmlDecl` | the symbol tables of the XML file, with aliases named by their main symbol |
| `KeepNeeded`, `Compare` | `abicompat`: the symbols the application needs become the ids to keep of the libraries, `maybe_drop_some_exported_decls()`, the symbols no declaration refers to |
| `LookUp` | `abisym`: a lookup by name, with `--demangle` or without |

### CanonicalTypes

One thread, whose stacks are variables: `building` is the recursion of the reader over
types (`build_ir_node_from_die()` or `build_type()`), `hashing` that of the hashes,
`comparing` that of `operator==` and `equals()`. A type is a node of the IR and each
corpus has its own; the canonical types (`table`), the marks and the member hashes
are those of the process.

| Model | Code |
|---|---|
| `BuildPart`, `BuildClassInProgress`, `BuildDone` | types are built depth first; a class that is met while it is being built is taken as it is; then the type is canonicalized, or put off (`late`, a list for each debug info file) if a type it is made of has no canonical type, or it has virtual functions |
| `CanonicalizeLate`, `FileOf` | `perform_late_type_canonicalizing()`: the types of the primary file, then those of the alternate one; the DWARF reader leaves out what still has parts without canonical types, the XML reader does not |
| `HashKnownPart`, `HashPart`, `HashDone` | `class_decl::hash`, 0 for a class being hashed; `var_decl::hash` keeps its result (`memberHash`), the types do not |
| `TryCandidate` ... `NewCanonical` | `get_canonical_type_for()`, one candidate of the bucket after the other |
| `CompareKnown` ... `CompareDone` | the canonical types if there are any, else `equals()`, with the marks of `classes_being_compared_` and each early return |
| `Ask` | `has_changes()` and the overloads of `compute_diff()` compare two types of one name |

What is compared of a type before it is marked (name, size) is `Label`, the rest
that is its own (offsets, access) is `Layout`, the types of its members and bases are
`Parts`. A hash is what it is made of, so that two are equal only if they should be; in
the worlds with `collide` every two are, as numbers of 64 bits may be. Virtual functions
count where they put off canonicalization; `equals()` ignores them for translation
units that are not constructed, and the XML reader never says that one is. Types of the
alternate file (`AlternateIn`) are made of such types only, as no reference leads out of it. A declaration
has a definition if its corpus does; which of several definitions it gets is in
`DwarfTypes`. Names are unique, but for declarations; anonymous structs, which all have
one name and one mark, are not modelled.

### DwarfExpr and DwarfTypes

`DwarfExpr` evaluates the expressions that say where members, bases and virtual
functions are: a function of a stack of numbers, each known or not, for every operation
of `eval_last_constant_dwarf_sub_expr()` and what it calls.

`DwarfTypes` is the recursion over DIEs. `frames` is the C++ stack, `nodes` the IR, and
a program is a sequence of DIEs, in the primary file or the alternate one, with units,
partial units and imports.

| Model | Code |
|---|---|
| `ReadUnit`, `ReadDie`, `ReAddVariable`, `ResolveDeclarationOnlyClasses` | `read_debug_info_into_corpus()`, `build_translation_unit_and_add_to_ir()` and what it does with variables whose mangled name tells a class, `resolve_declaration_only_classes()` |
| `GetScopeForDie` | `get_scope_for_die()`: specifications, partial units and their importers, functions, which are no scope |
| `NodeScope`, `NodeLookedUp`, `BuildNothing`, `NotExpected` | `build_ir_node_from_die()` before it switches on the tag, the tags it does nothing with, and those it aborts on |
| `BuildType`, `BuildClass`, `BuildNamespace`, `BuildVariable`, `BuildFunction` | the `build_...` functions; an action ends where one of them calls another that may come back to the same DIE |
| `declOf`, `typeOf`, `wip`, `declOnly` | the maps of `read_context`, keyed as they are |

What a tag has no node for (unions, subroutine types, pointers to members) is
`unsupported`. Whether a unit's all types are read or only what public declarations
need is a choice of the initial state.

### XmlTypes

| Model | Code |
|---|---|
| `Builder` | what the `build_...` functions of the reader do alike and differently: whether they look for what is there already, before or after the type they are made of, what they assert of the id, what they return |
| `frames` with `"get"`, `"scope"`, `"build"` | `build_or_get_type_decl()`, `get_scope_for_node()` and the scopes it pushes, the builders |
| `declsStack` | `decls_stack`, with its pushes and pops |
| `Elements`, `NodesOf`, `IdIsTaken` | `walk_xml_node_to_map_type_ids()` and `map_id_and_node()`, which asserts that of two elements with one id the later is not an enum |
| `typeOf`, `declOf` | the maps of ids and of XML nodes, with what is cleared between units |
| `IdIn`, `WriteDecl`, `Document` | the ids `write_context` gives and the order in which the writer writes the artifacts of a unit, member types before members, declarations once |

### IniFile and Suppressions

A file is a sequence of lines, and a line one of the sorts the grammar knows, or none of
them: `NoValue`, `Continued`, `Stray`. `IniFile` has one operator per reading function, each
of them with what it leaves unread when it fails; `Unescaped` is what an escape is read as.
`Meant` is the reference: the sections that the lines mean, as
`doc/manuals/libabigail-concepts.rst` has it, where an empty section is ignored.
`Suppressions` reads directives from sections and asks them about differences. The program
aborts when a directive asks the first of two variables for a symbol that only the second has
(`Aborts`), and when one has `type_kind=union`. `Describes` is the reference, from the same manual: a label is for the reader of the
file and describes nothing.

## What is checked

Deadlock is not checked anywhere: a comparison ends.

| Run | Bounds | Distinct states | Shows |
|---|---|---|---|
| `DiffGraph` | two classes with up to two members, one virtual function; one function, one variable | 313 000 | one canonical diff per pair (`CanonicalDiffs`), no reentrance (`NoReentrance`), the last parent of a shared child has the same children as the others (`AnyParentWillDo`), nothing that a root depends on is left out although only one diff of a class looks at the members (`NoChangeLost`), and it ends (`GraphGetsBuilt`) |
| `DiffReport` | seven families of comparisons of two classes: every graph of pointer members; a virtual member, variadic parameters and the options of `abidiff`; suppressions; members and parameters by value; typedefs, `const`, arrays, distinct types; bases; functions that return what another takes | 268 000 | the categories with which the report begins come from below, what is shown is allowed and not suppressed, what the specification does not match is not suppressed, the count behind the exit status is not zero if an allowed change is below a root (`PassesAreRight`); each allowed change is printed (`EveryOtherChangePrinted`), nothing is missing that a report without flags would print (`NothingCutOut`), and nothing twice (`DetailsOnce`); what is asserted holds (`AssertionsHold`); flags match the walk (`TraversingMatchesWalk`); walks and report refine `DiffGraph` (`GraphIsBuilt`) and end (`ReportEnds`) |
| `EditScript` | up to 4 and 3 elements, any relation between them | 109 000 | the script is a shortest one that edits the one sequence into the other (`GivesShortestScript`, a refinement), the search finds a middle snake from vectors that hold furthest reaching paths (`SearchIsRight`), the two ways to compute the length agree, as the assertion in the code wants, and `lcs` holds elements that are kept (`HalvesFit`); it ends (`Ends`) |
| `CorpusDiff` | libraries with up to two functions or two variables, with and without debug information, aliases, default versions; any order, any shortest script | 254 000 | symbols that go are reported and make the status incompatible (`RemovalsAreTold`); the table of changes holds what differs, and only that (`ChangesAreTold`); deleted and added mean what they say (`NamesAreRight`); unsigned differences do not wrap (`NoCountWraps`) |
| `CanonicalTypes` | two classes per corpus, with up to two members each: the other class, itself, pointers to both, a pointer to a declaration; one class may have changed in layout, size or number of members; both readers, roots in any order, with and without colliding hashes and virtual functions, and with classes in the alternate file (2 900 worlds) | 419 000 | types with one canonical type are the same all the way down (`CanonicalMeansSame`); comparisons that rely on marks and canonical types find out whether types are the same, and leave no mark behind (`ComparisonsAreRight`); every type that should has a canonical type, but for those above what the alternate file puts off (`TypesGetCanonical`); hashing, comparing and reading end (`Ends`) |
| `DwarfTypes` | 283 programs of up to 31 DIEs, each read with all types and without: classes in cycles, members and member types defined later, declarations and definitions in three units in any order, partial units, the alternate file, what has no node, some 110 expressions that say where something is | 74 000 | a DIE gets one node, in its scope, made of what it refers to, with members where its expressions say, and no assertion fails (`NodesAreRight`); what public declarations need is there, and each declaration has its definition (`ReadingIsComplete`); it ends (`ReadEnds`) |
| `XmlTypes` | one unit or two with two classes, their pointers, a namespace, a type T of five kinds, a variable, members and member functions; nested in each other in every way, in 14 orders | 228 000 | what is written is read back: one declaration per element, of the right types, in the right scope, and no assertion fails (`ReadBackTheSame`); scopes are popped in the order in which they were pushed (`ScopesNest`); it ends (`ReadEnds`) |
| `CorpusSymbols` | a library with up to three symbols at two addresses in any order, versions hidden or not, local, absolute and undefined symbols, read from ELF or from XML; two libraries with expressions to drop and keep; applications, executables and shared objects, that need up to two symbols of one library or two; lookups through every sort of hash table | 50 000 | the symbols of one address form one ring (`AliasesAreRight`); one declaration per address, and the corpus is a library as `CorpusDiff` takes it (`CorporaAreLibraries`); `abicompat` compares what the application needs if its versions were found, no more and no less (`NeededIsKept`); lookups find what is there (`LookupsAreRight`) |
| `Suppressions` | every file of up to four lines out of ten, faulty ones, escapes and empty sections among them; every directive with any two properties; two directives; nine differences | 147 000 | files are read up to the first fault as they are meant (`FilesAreRead`); a difference is suppressed just when a directive describes it, and the program aborts only where it looks at a symbol that only the second side has (`VerdictsAreRight`) |
| `VariableNotDeleted` (violation) | as `CorpusDiff`, no default versions, no aliases | | see below |
| `OrderSplitsTypes` (violation) | two classes that point to each other, two XML files in any order | | see below |
| `NeededNotCompared` (violation) | the executables of `CorpusSymbols` | | see below |

Why these bounds are enough to be interesting. Two classes give all the shapes of a
cycle that matter here: a class within itself, two within each other, one shared
by two parents. Two roots are needed for anything that one walk leaves to the next, and
two members per class for siblings. Three against four elements make the search
for the middle snake meet on both passes and at odd and even differences of length,
and its recursion three deep. Two declarations are enough to swap, to alias, and to
lose one of; three symbols make a ring in which one is neither first nor last. Two units
are needed for what one leaves in the maps for the next, three for a definition
that comes before or after two declarations. Four lines are a header, a property, a
fault, and what is read after it.
`MaxDepth`, 12 or 14, bounds the nesting of `compute_diff()`; without a
cycle through a class it does not get that deep, and that `GraphGetsBuilt` and
`ReportEnds` hold shows that no behaviour is stuck at the bound.

Aliases are checked only between symbols whose version is not the default one
(`AnyRings`), which keeps `CorpusDiff` within some 250 000 states.

`SameTypes`, to which `CanonicalTypes` compares the answers, is the greatest relation
that is closed under taking parts: what comparison would find with no shortcut at all.
A declaration without a definition equals every class of its name, so equality is not
transitive where there is one, and what has a canonical type depends on which class was
met first; `CanonicalMeansSame` and the answers in `ComparisonsAreRight` speak of corpora
without declarations, the rest and the other properties of all.

**Preconditions.** What properties leave out, and why. `EveryOtherChangePrinted` leaves out
functions that take and return one class by value, and renamed ones: there changes are lost,
see below. `NeededIsKept` leaves out applications whose versions the reader does not find.
`LookupsAreRight` leaves out what goes through a Bloom filter of more than 32 bits.
`RemovalsAreTold` speaks of symbols without aliases. `PassesAreRight` says which categories
a diff may have, and which it must have only as far as the exit status depends on them.
`VerdictsAreRight` leaves out versions of symbols, expressions that do not compile,
directives on functions or variables with a label and nothing else, and files in which a
section follows an empty one (`HasEmptySection`); `FilesAreRead` leaves out what is read of
such files. An abort where only the second variable has a symbol is allowed.
`TypesGetCanonical` says of types of the primary file with a class below that the alternate
file puts off that they get no canonical type. The programs of `MCDwarfTypes` have no two
classes, and no DIE that completes another and one of that other's file, at the same offsets
of the two files, and no location that means nothing. Where the code does something else
than what it should in what is left out, "What the runs found" says so.

**Fairness.** `WF(Next)`, of the whole next-state relation, in `DiffGraph`, `DiffReport`,
`EditScript`, `CanonicalTypes`, `XmlTypes` and `DwarfTypes`: there is one thread, and it
does not stop before it is done. No action is given fairness of its own; in
`GraphSpec` the traversals may finish the diffs in whatever order they like. `CorpusDiff`,
`CorpusSymbols` and `Suppressions` go through a fixed number of steps and are checked
for safety only.

## What the runs found

Three runs are there to be violated: each checks one claim of the documentation or
of a comment that the code does not keep. The traces show how.

* `VariableNotDeleted`: the ids of variables that are still there are erased
  from the table of functions.
* `OrderSplitsTypes`: A has a pointer to B and B has one to A. If hashing begins at A, the
  member of B keeps a hash in which A counts as 0; if it begins at B, it is the
  other way round. The hash of A differs between the two corpora, the canonical A of the
  first is not found, and the second gets one of its own: the types then
  differ, although nothing has changed.
* `NeededNotCompared`: an executable needs a function with a version and then one without.
  The version of the first is left in the variable, the second is looked for
  with it, and `abicompat` does not compare it.

Below are disagreements that were met while the models were written and have no run of
their own: either a model would only repeat the line, or a property above leaves the case
out, as said there.

Diff graph, categories, report:

* A class that is both returned and taken by value: the two diffs of the class are
  siblings, so that `visit_begin()` neither marks nor skips the second, and the members
  below it are marked redundant although they are the nodes the first one
  holds. The change is shown nowhere (`abg-comparison.cc:12800`); the exit status tells it.
* Of two classes that mention each other, the propagation visits one inside of the
  other, reads a canonical diff that has not got its categories yet, and marks what it
  has visited as done: a function that depends on a harmful change is left without
  the category (`abg-comparison.cc:12389`).
* With `--harmless --redundant` every category is allowed, and `is_filtered_out()` does
  not look at the suppressed one (`abg-comparison.cc:3086`).
* A class that refers to itself does not become suppressed when all else below it is
  (`abg-comparison.cc:12505`).
* A function takes a class with a callback of the function's own type, and both return a
  class that the user suppresses. `diff::traverse()` does not go into the inner function
  type, which is equivalent to the one it is in (`abg-comparison.cc:3442`), and the
  visitor of the suppressions marks the diff it is at and no equivalent one
  (`abg-comparison.cc:12468`). The diff that the inner function type has of the returned class
  is never marked; `function_type_diff::report()` has no flag and goes in there
  (`abg-comparison.cc:9327`), so the suppressed change is printed. In the same place
  harmless changes are left, for the filters do not get there either. This was found on
  the way to a proof: `SuppressedNotShown` and `OnlyAllowedShown` hold in the comparisons
  that the run `DiffReport` looks at, none of which has such a callback, and not in all.
* The report of a renamed function ends with its name; what redundancy hides elsewhere
  because it is below that function is shown nowhere (`abg-comparison.cc:9723`).

Types:

* The comparison of two declarations of A marks the name A and then compares the
  definitions, which are called A and so are taken as being compared: they are
  "equal", whatever has changed (`abg-ir.cc:9201`).
* What is canonicalized late is taken from two lists, that of the primary file and then that
  of the alternate file (`abg-dwarf-reader.cc:2387`). A class with virtual functions in the
  alternate file is on the second; a type of the primary file made of it is on the first, is
  visited before that class has a canonical type, and so never gets one, although there is
  neither a cycle nor a declaration below it.

Corpora and symbols:

* When a version stops being the default one, or becomes it, a changed function is
  neither deleted nor added, since its symbol is found, nor changed, since its id is not
  (`abg-comparison.cc:10662`).
* An alias that goes is reported nowhere when its main symbol has a declaration
  (`abg-corpus.cc:933`), which is why the properties of `CorpusDiff` speak of symbols that
  are alone.
* The exit status is 0 when symbols are added or the architecture has changed
  (`abidiff.cc:661`).
* The `lcs` that `compute_diff()` returns is not a longest common subsequence
  (`abg-diff-utils.h:1586`; no caller in the library uses it).
* The options of `abidiff` that drop or keep functions and variables do nothing: the
  expressions are set when the corpora have been read, and only `abicompat` calls
  `maybe_drop_some_exported_decls()` (`abidiff.cc:653`; `abidiff.rst:136`).
* Versions are read only if a file has all three of versym, verdef and verneed, which an
  ordinary application has not; of the versions a file needs only the first of the
  first file is found.
* `abicompat`: if the application needs no functions, all functions are compared, and
  so are variables; symbols that no declaration refers to are compared by their ids, in
  which `f@V` is not `f@@V`.
* The lookup through a GNU hash table takes words of 32 bits from a Bloom filter of 64
  and cuts the mask to 8 bits (`abg-dwarf-reader.cc:1355`; only `abisym` uses it). In all
  lookups the version of one match is left to the next.

DWARF:

* A DIE of the primary file that completes one of the alternate file is associated under
  the latter, its type is looked for there (`abg-dwarf-reader.cc:7637`, 7718), and
  classes under construction are known by their offset alone (6315), as are the places of
  imports: at equal offsets one DIE is taken for another.
* A data member without name is dropped if there was one before. Pointers, members and
  parameters of types the reader has no node for are dropped, so that a function has one
  parameter less; what it returns becomes void.
* Expressions: `DW_OP_and` never ends (`operator&()` calls itself), `DW_OP_neg` and
  `DW_OP_div` push 0, `DW_OP_pick` pushes its operand, `DW_OP_rot` rotates the other way,
  `DW_OP_bra` jumps as far as the number on the stack says, in operations and not in bytes.

XML:

* The access specifier of a member type that is built early is not written; `const` is
  lost with constructors; names of namespaces, typedefs and variables are not escaped;
  sizes and enumerators are read with `atoi()`.
* The maps of templates are not cleared between units, so that the second unit with
  a template of the same id fails an assertion.
* The link from a declaration to its definition is only written if the corpus was read
  from XML (`abg-reader.cc:3021`).

Suppressions and ini files:

* `symbol_version` of a function is compared with the name of the second symbol
  (`abg-comparison.cc:1465`); that of a variable only with the version of the first.
* If only the second of two variables has a symbol, `variable_suppression` asks
  the first one's for its version, through a null pointer (`abg-comparison.cc:2168`).
* A directive on functions or variables with only a label suppresses all of them, although
  `libabigail-concepts.rst:196-200` says that a label is only informative.
* An empty section ends the reading of the file, although
  `libabigail-concepts.rst:140-142` says that it is ignored. A backslash at the end of the
  file is accepted as the first character of a section name, since the assertion that
  would reject it is satisfied by reading (`abg-ini.cc:466`). A property that cannot be
  read may take the rest of the file with it, while reading is said to have
  succeeded, and its directive suppresses more than it should.
* After `=` a new line is skipped, so that the next line becomes the value. A line that
  is continued doubles the character before the backslash and drops the one after it.
  White space at the end of a value is part of it.
* White space in a parameter's type is dropped, so that `'4 unsigned char*` matches
  nothing. An expression that does not compile counts as no condition;
  `type_kind=union` aborts.

## What is proved

The theorems hold for every comparison, every number of classes, members, roots,
declarations, symbols and types, and sequences of any length. They assume what the modules assume of their
constants:

| Assumption | What it says, and why the code justifies it |
|---|---|
| `ABIAssumption` | a comparison gives each subject a kind, a sequence of parts and a rank; corpora are finite; the two kinds of diffs that compute a part when they are finished (of variables, and of what is below qualifiers) compute one |
| `MaxDepthAssumption`, `SizesAssumption` | `MaxDepth`, `MaxA` and `MaxB` are numbers, however large |
| `CategoryAssumption`, `MethodAssumption` | the filters give categories; each subject has a `report()` method, and classes theirs |
| `LibrariesAssumption` | in a library names of symbols are unique, functions and variables do not share a name, an exported declaration has a symbol of the symbol table and no two have the same. It is `IsLibrary` of module `Library`; that the readers build such corpora is `CorporaHold` |
| `FilesAssumption` | a world has the files its tool reads, and these have symbol tables, tables of versions and descriptions with entries of the right form; a file is only listed in `.gnu.version_r` for the versions it is needed for |
| `NamesApart` | no two public symbols of a file have one name and one version, nor one id: linkers see to the former, and to the latter that no name has an `@` in it. Where it is not so, `build_elf_symbol_db()` has two rows for one id and `add_alias()` fails an assertion |
| `NamesArePlain` (hypothesis of `NeededHolds` only) | a name in the symbol table of an application has no version, or the needed one after `@@`; those of libraries are plain, as in any `.dynsym`. So wrote the linkers of the time of this code. Later ones write `@` in the `.symtab` of executables, and then `NeededIsKept` is not true: the id `f@V` is no id of the library's `f@@V`, which is forgotten if no declaration has it |
| `AlphabetAssumption` | ids have an alphabetical order |
| `LookupAssumption` | names have hashes, and a Bloom filter has a word |
| `TypesAssumption`, `WorldsAssumption` | types are finitely many; a type has a corpus, a kind, parts of its own corpus, and those of a type of the alternate file are of that file, which refers to no other; a declaration has no parts, and a class of its corpus and name to be the declaration of |
| `NamesAssumption` | in a corpus one class has a name, as far as there is no ODR violation: `abg-ir.cc` compares and marks classes by their names |
| `LabelsAssumption` | the label of a class has its name, and the name of any other type is made of its label and of the names of its parts: `pointer_type_def` is named `T*` |

| Theorem | Property |
|---|---|
| `GraphTypeCorrect`, `TypeCorrect` of `DiffReportProofs`, `ReportedGraphTypeCorrect`, `CorpusTypeCorrect` | the type invariants of `DiffGraph`, `DiffCategorize`, the two under the report, `CorpusDiff` |
| `CanonicalDiffsAlways` | `CanonicalDiffs` |
| `NoReentranceEver` | `NoReentrance` |
| `AnyParentDoes` | `AnyParentWillDo` |
| `NothingLost` | `NoChangeLost`: the subjects of the diffs that are reached are those below the roots |
| `TraversalsPairUp`, `ReportKeepsTraversals` | `TraversingMatchesWalk`, for the walks alone and with the report |
| `WalksBuildTheGraph`, `ReportBuildsTheGraph` | `GraphIsBuilt`: the walks refine `DiffGraph`, alone and with the report |
| `CategoriesFromBelow`, `SuppressedWithReason`, `ReportKeepsReasons` | `CategoriesComeFromBelow` and `SuppressedForAReason`, two of the conjuncts of `PassesAreRight`, for the walks alone and with the report |
| `GraphDuringWalks`, `GraphDuringReport` | `AnyParentWillDo` and `NoChangeLost` while the graph is walked and printed |
| `DetailsPrintedOnce` | `DetailsOnce` |
| `NothingIsCutOut` | `NothingCutOut` |
| `RemovalsTold`, `ChangesTold`, `NamesRight`, `NetCountsNeverWrap` | `RemovalsAreTold`, `ChangesAreTold`, `NamesAreRight`, `NoCountWraps` |
| `InvariantHolds`, `TypesHold` | the inductive invariant of `CorpusSymbols`, its `TypeOK` |
| `AliasesHold` | `AliasesAreRight` |
| `CorporaHold` | `CorporaAreLibraries` |
| `LookupsHold` | `LookupsAreRight` |
| `NeededHolds` | `NeededIsKept`, where names are plain |
| `SearchRight` | `SearchIsRight` |
| `HalvesAlwaysFit` | `HalvesFit` |
| `ScriptIsShortest` | `GivesShortestScript`: the search by halves refines `ShortestScript` |
| `CanonicalSound` | `CanonicalMeansSame` |
| `EveryTypeGetsCanonical` | `TypesGetCanonical` |
| `TypeCorrect`, `MarksAlwaysMatch` of `CanonicalTypesProofs`, `ComparisonsRight` | the conjuncts of `ComparisonsAreRight`, and all of it |

**InductionLemmas.** The induction theorems of the library take an operator as a
parameter, which none of the provers can instantiate. These lemmas take sets and
functions instead: a set of numbers that is not empty has a least element, a set of
numbers below `n` with a base and a step is all of them. From that follows what recursive
functions on sets are: a function that adds to a set, or takes from it, until nothing
changes exists, unfolds, comes to an end in a finite set, and ends in the least
closed set above where it began, or the greatest below. A sequence of sequences that is
flattened has the elements of all, in their order. `SameTypes`, `SubjectsBelow`,
`Unsuppressed` and `ToBePrinted` are defined in this way, and the proofs use them as what
they are, a greatest bisimulation and three closures.

**DiffGraphProofs.** Every action is one of a few kinds of steps (a node is added,
a call pushed, a call returns, a diff is finished), and the lemmas are about
these steps. `GraphTypeOK` is inductive. `CanonicalDiffs` is not: from a registry
entry of another subject, `NewDiff` would make a wrong one. `CanonicalInv` adds that
what is registered for a subject is a diff of that subject, and that each
diff's canonical diff is the registered one. `NoReentrance` needs `CallsInv`: a call
that has a node has registered its subject, so that a call below it cannot
start on it; and that the registry never forgets.

`AnyParentWillDo` is about shared children, whose parent is whichever diff is finished
last. `PlaceInv` says that a node is in one place at a time: among the parts of a diff,
with a call, or on its way from one to the other. So only diffs with the same parts share
children, and these are the class diffs that adopt the private data of one canonical diff;
`FinishedInv` says that they have all of them. That the children of a class are complete
when it is finished rests on the order of things: no diff is finished while
`compute_diff()` runs (`TurnInv`, `NodesInv`), and what is complete stays so
(`SettledStay`). `NoChangeLost` needs that a diff has a part for each part of its subject
(`GotInv`: what a call has got so far are the diffs of the first parts; `PartsInv`), that
roots are what was asked for (`RootsInv`), and that nothing else is computed
(`NeededInv`, of all sets of subjects that are closed under parts).

**DiffReportProofs**, of the walks. `TraversingMatchesWalk` is the theorem that matters of the walks:
the flag is shared by all the diffs of a class, so that clearing it when one of
them is left is right only if no other diff of the class is open. `Inv` says so
(`NoClassTwice`), with `OneHead` (only the innermost call of `traverse()` is not
open), `WithinReach` (the walk is inside of the reached diffs) and the invariants of
the graph, since the graph grows during the walk and must not change the canonical
diff of what is on the stack (`GraphGrows`). From `WithinReach` it follows that the walks
refine `DiffGraph` (`WalksBuildTheGraph`), so that what is proved of that module is
true of the graph that is being walked.

`ReasonsInv` is what the categories mean at any time: for each category a filter gave to a
diff there is a change of that category below the subject, and below a suppressed diff
each change is behind something a specification matches. The visitors read the
categories of children, of canonical diffs and of the diff itself, of which each may
have been set in another place of the graph, in an earlier walk, or before the diff had
children. `SuppressedForAReason` follows because a diff that has become suppressed for its
children had all of them (`WalkFinishes` and `FinishedInv`) and they were not
merely not seen yet; and because the local category is only that of the diff's own match.

**DiffReportProofs**, of the report. `DetailsOnce` is about the list of what was printed and the flags
of canonical diffs, while the report goes through diffs that are not canonical, and
computes new ones. `ReportInv` is `Inv`, which the report's own steps keep since it
starts when the walks are done and only adds to the graph, and `FlagsInv`:
the flags that are set are those of the open calls (`ReportingOpen`), no two open calls
are of one class (`OpenApart`), what was printed of a class is flagged, now or for good
(`PrintedFlagged`), and what is flagged is not printed again (`PrintedApart`). A class is
closed while nothing else of its canonical diff is open, which is why clearing the flag
of the canonical diff does not clear that of another call. That a class is *guarded* at
all, in its own `report()`, is what the proof rests on; flags that only the parents look
at (`Referring`) would not do, for some parents do not. The report finishes no diff
itself: it only asks for the diff of a type, and the rest is what the walks do, so
`ReportBuildsTheGraph` follows from the lemma about a step of the walks.

`NothingCutOut` compares what is printed with a report that has no flags and would
not end on a cycle. A diff is *handled* when it, or a class diff of its canonical one, is
printed, and *awaited* when a page has still to come to it. `CutInv` says that each part
that is to be reported of what has been printed is handled or awaited, and so are the
roots the report has passed; that a flag is set only for what has been printed; and that
what is printed is in every set that covers the roots and is closed under listed parts. At
the end nothing is awaited, so what was handled is closed, and the least closed set is
what a report without flags prints. The graph grows under the report, but the listed parts
of what was printed do not change any more (`SettledStay`, `ListedKept`), and two diffs of
one class list the same parts.

**CorpusDiffProofs.** `Typed` says that the tables hold symbols of their library,
`TablesInv` what each phase leaves for the next ones: the scripts keep
pairs that are equal (`ScriptsOK`), each kind's tables hold exactly what they
should (`DeclsCompared`, `SymbolsCompared`). `StatusInv` relates the status and the
counts to the tables. Of the edit scripts only that kept elements are
equal is used, so the theorems hold whichever scripts are found.

**CorpusPartsProofs, CorpusSymbolsProofs.** `AliasesAreRight` is about what the aliases of
a symbol are when a file has been read, `CorporaAreLibraries` about what its declarations
are then; neither says anything while it is being read. `IInv` says of each part (the
functions or the variables of a file) how far it is, and what is right then (`PartRight`).
The symbols are those of the entries that have been loaded, each once (`SymbolsAre`). An
address with a public symbol has a ring (`IsRing`), from its main symbol, which
`mainAt` leads to, around the others and back, and the symbols in it are those of the
entries at that address, no more and no less (`RingAt`). `add_alias()` walks to the
last symbol of the ring of its main symbol and puts the new one there; that the walk comes to
an end, at the right symbol, and that it leaves a ring with one more, is what `LastOfRing`
and `AddAliasIs` say. Of a corpus that is read from XML the rings are
those of the file that was written, and a ring of rows is made when the row of its main
symbol is linked (`Retied`): before that its symbols are alone, as `add_alias()` wants them,
and the rows of other rings, linked earlier or later, are different ones. That is
why the order of the rows does not matter, and why a main symbol can be found by its id.
Each declaration has the main symbol of an address that the debug information has described
so far, or a copy of it, and no two have one id (`DeclsRight`); no address that was
described is without (`AllDeclared`). What keeps all this true while other parts, or other
files, are read is that no symbol belongs to two parts (`PartsApart`) and that a step
changes the symbols of one part only. When everything is read (`Late`), only what has been dropped or selected changes.

`LookupsHold` has a short invariant (`FoundInv`), since a lookup is one step. Its proof follows
the three ways a lookup takes, with the two things that could go wrong on them: that the
Bloom filter, shifted and masked as the code does it, says of a symbol that is there that it
is not (`GnuFound`), and that the version of the symbol before, which the code leaves in
its variable, is told of the next (`OwnVersionFound`).

`NeededHolds` has `KeptInv`: until `abicompat` knows the ids the application needs, nothing has
been dropped (`Fresh`); then the declarations of each library are those that were
described and that `KeepWrtId` keeps (`KeepsNeeded`), and after the comparison the
unreferenced symbols are those that the declarations that are left do not mention. What is kept
is a question of the ids: the code takes them in the order of the alphabet, and one without a
version is looked for with the version the one before it has left behind. `VersionsFound`,
the precondition of `NeededIsKept`, is what makes that harmless: all ids of a kind have a
version, so that each sets it, or none has (`VersionAtIs`), and `KeepWrtId` keeps just what is
needed (`NeededKept`). That a needed symbol has the id by which it is
looked for among the unreferenced ones needs `NamesArePlain` (`NeededHasId`).

**EditScriptProofs.** The code comes with the lemmas of the paper it follows (Myers, "An
O(ND) difference algorithm"); these are their proofs, for the vectors as the code fills
them and the coordinates it counts in. The table of the longest common subsequences
(`Lcs`) is a grid whose steps are of one at most, and `EditsTo` is the number of
edits that goes with it (`IsEdits`). On a diagonal, `EditsTo` grows with the distance from the
corner, so that there is a furthest point `d` edits reach, and the snake that the code
makes from the two neighbours' furthest points ends in it (`SnakeAheadIs`,
`SnakeBackIs`); that is `PathsReachFurthest`. A path from one corner and one from the other
that meet are a script (`Through`), and if a shortest script has `d + c` edits then the
furthest reaching paths with `d` and `c` edits meet on some diagonal (`PathsMeet`). So a
turn in which the code has not seen them overlap shows that there is no script that
short (`AheadTurnEnds`, `BackTurnEnds`), of which there is none when `d` is half of the
lengths of the sequences: the branch "So there is no middle snake" is dead. The
inductive invariant `IInv` says of a search what is true between two steps
(`Searching`: where this turn has come to, what the vectors hold on either side of
it, and that no script was missed so far), that the regions of the calls nest and that what a
search found lies inside of its region (`Stack`, `FitsIn`); without the last, the regions
of the halves need not be regions.

That the two halves make a shortest script needs `HalvesInv`, which adds `Progress` to
`IInv`. A found snake splits the shortest length of its region in that of what is before it
and that of what is after it (`FoundRight`, `Splits`), and each call is for one of the two
halves of the call around it, which began with the script as long as it should be then
(`Chained`). The script has dealt with all that is before the point which the calls have
come to, and with nothing after it (`Reached`): applied up to there, it makes the second
sequence up to there (`Done`), and `lcs` lies before it, in order, apart from what is
deleted and inserted (`LcsUpTo`). When the outermost call returns this point is the end of
both sequences, and the length is that of a shortest script of the whole, which is the step
of `ShortestScript`; all other steps stutter.

**CanonicalTypesProofs.** `MarksMatch` is not inductive: a comparison that has found a
difference unmarks on its way out, class by class, and a class with the name of another
that is being compared would take its mark away. `MarksInv` says that no two of the
classes being compared share a name, and which marks may be missing after a "no". That
needs the stack (`CompareInv`: each comparison is of a pair of parts of the one around
it), what has been read (`ReadInv`), what has a canonical type (`CanonicalInv`), that
hashing, comparing and canonicalizing take turns (`TurnsInv`), and that the hashes are of
some set, whatever they are (`HashesInv`).

Three theorems rest on that invariant.

* `CanonicalSound`: two types are the same if some bisimulation relates them, so that it
  is enough to find one. While a comparison goes on, `SoundInv` has a set `D` of pairs that
  have been compared and found alike: their parts are in `D`, or related already, or are
  being compared. What is being compared counts as related, since it is marked; if all
  comparisons come back with "yes", `D` and what was the same before are a bisimulation,
  and if one does not, nothing was kept that rested on it.
* `EveryTypeGetsCanonical`: the DWARF reader puts types off whose parts have no canonical
  type, and goes through those it put off once, the primary file before the alternate one, in
  the order in which it met them. Below an `Ungrounded` type there is a cycle or a
  declaration, below a `Postponed` one there may also be a class that the alternate file puts
  off. A type of the alternate file that is not postponed has a canonical type as soon as it is built
  (`EarlyInv`), so that types of the primary file have not to wait for it. The types of a
  file that can get a canonical type are at places of its list that are in the order of parts
  (`WaitInv`), since a type that is met while one of its parts is being built is part of itself
  (`PathInv`). So each finds its parts done: those of the same file are before it, those of
  the alternate file were done when it was built or, if the type is of that file as well, are before
  it too. What is ungrounded never gets a canonical type, and what is postponed only if it is of
  the alternate file, when the list of the primary one has been gone through
  (`GroundedInv`).
* `ComparisonsRight`: where hashes do not depend on where hashing began (the DWARF
  reader, which hashes a type when its parts are done, or colliding hashes), there is a
  function from types to hashes that all the hashes are those of (`SameHashInv`), so that
  equal types are in one bucket; each candidate that was tried is not the same
  (`CompleteInv`), so that the same types get one canonical type (`OneCanonical`). And a
  comparison answers "no" only for types that are not the same, since what is marked or
  has a canonical type has been taken for what it is.

**Only model-checked**, and why:

* termination (`GraphGetsBuilt`, `ReportEnds`, `ReadEnds`, `Ends`): liveness is out of the
  prover's reach.
* `OnlyAllowedShown` and `SuppressedNotShown`: not true of all comparisons, as "What the runs
  found" says of callbacks. `ExitStatusTellsChange`, `EveryOtherChangePrinted` and
  `AssertionsHold` ask the same of the passes, that they get everywhere; in cyclic graphs
  they do not always, and no condition on comparisons is known under which they do.
* `NeededIsKept` where the linker wrote `@`: not true, as `NamesArePlain` above says.
* The readers of types and the ini parser: no proofs.

## What is not modelled

* Text: the wording and layout of reports, of XML files and of pretty printing. What is
  printed, and where, is in `DiffReport`; which artifacts are written, and in which order,
  is in `XmlTypes`.
* Decoding of DIEs and of ELF (elfutils), of XML (libxml2), of regular expressions
  (regex.h): external. What an expression matches is a parameter.
* Templates: the two readers build only their parameters and patterns, and compare them by
  value.
* Access specifiers, sizes, alignments and enumerators as data; they are the `Layout` of a
  type or part of its own change.
* Locations of variables (`die_location_address`) beyond the evaluation of the expression;
  loclists.
* `ses_len()`, a second implementation of the basic algorithm that only the test
  programs call.
* `abidw`, `abilint`, `abiar` and `binilint`, which read a file and write it;
  visualization; wrappers. The traversal of the IR (`ir_traversable_base`) has no state
  but a flag of its own.
* Sorting of exported declarations: `CorpusDiff` takes them in any order.

## What could follow

In this order; what is first matters most.

1. A run in which an executable was linked with `@`, and `NeededIsKept` is violated.
2. The alternate file with classes at equal offsets, as a run that is violated.
3. `DeclarationHidesChange`: `ComparisonsAreRight` with declarations, once the marks tell
   a declaration from its definition.
4. Layouts as numbers: sizes and offsets of members in `CanonicalTypes`, and the filters
   of `abg-comp-filter.cc` that read them.
