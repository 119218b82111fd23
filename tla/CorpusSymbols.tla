--------------------------- MODULE CorpusSymbols ---------------------------
(***************************************************************************)
(* The symbols and the exported declarations of the corpora that abidiff,  *)
(* abicompat and abisym work on: the symbol maps and the rings of aliases  *)
(* that load_symbol_maps of abg-dwarf-reader.cc builds, the declarations   *)
(* that exported_decls_builder of abg-corpus.cc lets in, the symbol tables *)
(* that abg-writer.cc writes and abg-reader.cc reads back, the             *)
(* declarations abicompat leaves out, and the symbols no declaration has.  *)
(*                                                                         *)
(* A world has a tool and, per file the tool reads, an ELF file (elf), the *)
(* functions and variables its debug information describes (dies: their    *)
(* kinds and addresses), and whether it is read from the XML that was      *)
(* written of it (xml).  For abidiff it has the names that the regular     *)
(* expressions to drop and to keep match.  The ids of symbols have an      *)
(* alphabetical order, Alphabet.  Demangling is not modelled, and of the   *)
(* bindings only whether they are local.                                   *)
(***************************************************************************)
EXTENDS ElfFile, Library, FiniteSets

CONSTANTS Worlds,    \* what is given to the tools
          Alphabet   \* the ids of functions and variables, sorted

VARIABLES
  world,    \* never changes
  symbols,  \* all the instances of elf_symbol
  corpora,  \* file -> kind -> its part of the corpus
  file,     \* the file that is read
  phase,    \* what is done next
  next,     \* the entry or the declaration that is next, or the number of those done
  aborted,  \* an assertion has failed
  found     \* what a lookup has found

vars == <<world, symbols, corpora, file, phase, next, aborted, found>>

SymbolKinds == {"fun", "var"}

\* An OBJECT whose section is absolute is not a variable; the rest is neither
\* function nor variable.
KindOf(entry) ==
  IF entry.kind = "var" /\ entry.section = "abs" THEN "other" ELSE entry.kind

\* The id that the symbol of an entry has.
EntryId(elf, i) ==
  LET s == ElfSymbol(elf, i) IN IdString(s.name, s.version)

\* The public functions and variables of a symbol table.
PublicEntries(elf) ==
  {i \in DOMAIN SymbolTable(elf) :
     KindOf(SymbolTable(elf)[i]) \in SymbolKinds /\ IsPublic(SymbolTable(elf)[i])}

Strings == STRING \X STRING \X STRING
Entries ==
  [name : Strings, kind : {"fun", "var", "other"}, section : {"undef", "abs", "text"},
   value : Nat, binding : {"local", "global"}, ndx : Nat, hidden : BOOLEAN]

\* A tool reads an application, libraries or both; a needed file is listed for the
\* versions needed of it.
ASSUME FilesAssumption ==
  \A w \in Worlds :
    /\ DOMAIN w.files # {} /\ DOMAIN w.files \subseteq {"app", "lib1", "lib2"}
    /\ w.tool = "abicompat" => "app" \in DOMAIN w.files
    /\ w.toSuppress \in [SymbolKinds -> Seq(SUBSET STRING)]
    /\ w.toKeep \in [SymbolKinds -> Seq(SUBSET STRING)]
    /\ \A f \in DOMAIN w.files :
         LET elf == w.files[f].elf
         IN  /\ elf.dynsym \in Seq(Entries) /\ elf.symtab \in Seq(Entries)
             /\ elf.versioned \in BOOLEAN
             /\ elf.verdef \in Seq([ndx : Nat, name : STRING])
             /\ elf.verneed \in Seq(Seq([other : Nat, name : STRING]) \ {<<>>})
             /\ w.files[f].dies \in Seq([kind : SymbolKinds, address : Nat])
             /\ w.files[f].xml \in BOOLEAN

\* The linker lets no two public symbols have one name and one version, nor a name
\* that reads as another's name and version.
ASSUME NamesApart ==
  \A w \in Worlds : \A f \in DOMAIN w.files : w.tool # "abisym" =>
    LET elf == w.files[f].elf
    IN  \A i, j \in PublicEntries(elf) :
          \/ EntryId(elf, i) = EntryId(elf, j)
          \/ /\ ElfSymbol(elf, i).name = ElfSymbol(elf, j).name
             /\ ElfSymbol(elf, i).version.name = ElfSymbol(elf, j).version.name
          => i = j

\* The linker writes a name plainly, or with the default version that is needed; and it
\* writes those of the libraries abicompat compares plainly.  NeededIsKept needs that.
NamesArePlain ==
  \A w \in Worlds : \A f \in DOMAIN w.files : w.tool # "abisym" =>
    \A entry \in ToSet(SymbolTable(w.files[f].elf)) :
      LET plain == entry.name[2] = "" /\ entry.name[3] = ""
      IN  /\ ~IsDefined(entry) => plain \/ (entry.name[2] = "@@" /\ entry.name[3] # "")
          /\ w.tool = "abicompat" /\ f # "app" /\ IsPublic(entry) => plain

\* Every name has a hash, and a Bloom filter a word.
ASSUME LookupAssumption ==
  /\ Shift \in Nat /\ 2 ^ Shift \in Nat \ {0}
  /\ \A w \in Worlds : w.tool = "abisym" =>
       /\ w.demangle \in BOOLEAN /\ HashOf[w.name[1]] \in Nat
       /\ \A f \in DOMAIN w.files : /\ w.files[f].elf.hash \in {"none", "sysv", "gnu"}
                                    /\ w.files[f].elf.nwords \in Nat \ {0}

ASSUME AlphabetAssumption ==
  /\ Alphabet \in Seq(Strings) /\ IsInjective(Alphabet)
  /\ \A w \in Worlds : \A f \in DOMAIN w.files : 
       \A i \in DOMAIN SymbolTable(w.files[f].elf) :
         EntryId(w.files[f].elf, i) \in ToSet(Alphabet)
-----------------------------------------------------------------------------
(* Instances of elf_symbol: records of a heap; 0 is no symbol *)

\* A new symbol is its own main symbol and has no alias; a copy of one, too.
NewSymbol(s, i) ==
  [name |-> s.name, kind |-> s.kind, defined |-> s.defined, public |-> s.public,
   version |-> s.version, main |-> i, nextAlias |-> 0]
Copy(s, i) == [s EXCEPT !.main = i, !.nextAlias = 0]

Id(s) == IdString(s.name, s.version)

\* get_id of functions and variables: the id of the symbol they have.
DeclId(heap, decl) == Id(heap[decl])

\* Where get_next_alias() leads to, called again and again.
After(heap, s) ==
  LET after[k \in 0..Len(heap)] ==
        IF k = 0 THEN s ELSE LET i == after[k - 1] IN IF i = 0 THEN 0 ELSE heap[i].nextAlias
  IN  after

\* The symbols that get_next_alias() leads to, before the main symbol; as many as
\* there are if it leads to none.
NextAliases(heap, s) ==
  LET after == After(heap, s)
      ends == {k \in 1..Len(heap) : after[k] \in {0, heap[s].main}}
  IN  [k \in 1..((IF ends = {} THEN Len(heap) + 1 ELSE Min(ends)) - 1) |-> after[k]]

\* The last of the aliases of a main symbol, those whose next is the main symbol.
LastAliases(heap, m) ==
  {a \in ToSet(NextAliases(heap, m)) : heap[a].nextAlias = heap[m].main}

\* The assertions of elf_symbol::add_alias.
MayAddAlias(heap, m, alias) ==
  /\ heap[alias].nextAlias = 0
  /\ heap[m].main = m
  /\ heap[m].nextAlias # 0 => Cardinality(LastAliases(heap, m)) = 1

\* Mutant of AddAlias: the alias comes after the main symbol, whose other aliases are lost.
AddAliasFirst(heap, m, alias) ==
  [heap EXCEPT ![m].nextAlias = alias, ![alias].nextAlias = m, ![alias].main = m]

\* elf_symbol::add_alias
AddAlias(heap, m, alias) ==
  LET last == IF heap[m].nextAlias = 0 THEN m ELSE CHOOSE a \in LastAliases(heap, m) : TRUE
  IN  [heap EXCEPT ![last].nextAlias = alias,
                   ![alias].nextAlias = heap[m].main, ![alias].main = heap[m].main]

\* operator== of elf_symbol
SameSymbol(s, t) ==
  /\ s.name = t.name /\ s.kind = t.kind /\ s.version = t.version
  /\ s.public = t.public /\ s.defined = t.defined

\* compute_aliases_for_elf_symbol: of a symbol without next alias, which may be a copy,
\* the aliases are looked for in the symbol table.
ComputeAliases(heap, s, table) ==
  LET same(j) == {n \in DOMAIN NextAliases(heap, j) :
                    SameSymbol(heap[NextAliases(heap, j)[n]], heap[s])}
      of(j) == IF SameSymbol(heap[j], heap[s]) THEN NextAliases(heap, j)
               ELSE [n \in 1..Cardinality(same(j)) |-> j]
  IN  IF heap[s].nextAlias # 0 THEN NextAliases(heap, s)
      ELSE FlattenSeq([i \in DOMAIN table |-> of(table[i])])
-----------------------------------------------------------------------------
(* Corpora *)

EmptyPart(values) ==
  [syms |-> <<>>,          \* fun_syms_, var_syms_: the public symbols
   undefined |-> <<>>,     \* undefined_fun_syms_, undefined_var_syms_
   mainAt |-> [v \in values |-> 0],   \* fun_addr_sym_map_, var_addr_sym_map_
   decls |-> <<>>,         \* fns, vars: the symbols of the exported declarations
   keep |-> <<>>,          \* sym_id_fns_to_keep, sym_id_vars_to_keep
   toSuppress |-> <<>>, toKeep |-> <<>>,  \* the regular expressions: what they match
   unreferenced |-> {},    \* unrefed_fun_symbols, unrefed_var_symbols
   written |-> <<>>,       \* the rows of the symbol table in XML
   unlinked |-> {}]        \* those whose attribute "alias" is still to be read

Elf == world.files[file].elf
Dies == world.files[file].dies

\* get_sorted_fun_symbols, get_sorted_undefined_fun_symbols, those of variables: in the
\* order of their ids.
Sorted(heap, list) ==
  FlattenSeq([n \in DOMAIN Alphabet |->
                SelectIn(list, {i \in ToSet(list) : Id(heap[i]) = Alphabet[n]})])
-----------------------------------------------------------------------------
(* exported_decls_builder *)

\* Mutant of VersionAt: that of the last id to keep counts for all.
VersionAtLast(ids, i) == ids[Len(ids)][3]

\* The version that a symbol must have when the i-th id to keep is looked at:
\* get_name_and_version_from_id leaves it as it was if the id has none.
VersionAt(ids, i) ==
  LET having == {j \in 1..i : ids[j][2] # ""}
  IN  IF having = {} THEN "" ELSE ids[Max(having)][3]

\* keep_wrt_id_of_fns_to_keep, keep_wrt_id_of_vars_to_keep
KeepWrtId(s, ids) ==
  \/ ids = <<>>
  \/ \E i \in DOMAIN ids :
       s.name = <<ids[i][1], "", "">> /\ s.version.name = VersionAt(ids, i)

\* keep_wrt_regex_of_fns_to_suppress, keep_wrt_regex_of_vars_to_suppress
KeepWrtSuppress(s, regexps) == \A r \in ToSet(regexps) : s.name[1] \notin r

\* keep_wrt_regex_of_fns_to_keep, keep_wrt_regex_of_vars_to_keep
KeepWrtKeep(s, regexps) == regexps = <<>> \/ \E r \in ToSet(regexps) : s.name[1] \in r

Keep(s, part) ==
  /\ KeepWrtId(s, part.keep)
  /\ KeepWrtSuppress(s, part.toSuppress)
  /\ KeepWrtKeep(s, part.toKeep)

\* Mutant of MayAdd: declarations are told apart by their symbols, not by their ids.
MayAddAny(heap, part, i) == heap[i].public /\ Keep(heap[i], part)

\* maybe_add_fn_to_exported_fns, maybe_add_var_to_exported_vars: of a declaration
\* with that symbol.
MayAdd(heap, part, i) ==
  /\ heap[i].public
  /\ \A d \in ToSet(part.decls) : DeclId(heap, d) # DeclId(heap, i)
  /\ Keep(heap[i], part)

MaybeAdd(heap, part, i) ==
  IF MayAdd(heap, part, i) THEN [part EXCEPT !.decls = Append(@, i)] ELSE part
-----------------------------------------------------------------------------
(* Reading an ELF file *)

\* An application is read before libraries, the first library before the second.
Before(f, g) == f # g /\ (f = "app" \/ g = "lib2")
FirstOf(files) == CHOOSE f \in files : \A g \in files \ {f} : Before(f, g)
Later(f) == {g \in DOMAIN world.files : Before(f, g)}

\* The addresses that the symbol tables or the debug information mention.
Addresses(read) ==
  {e.value : e \in ToSet(read.elf.dynsym) \cup ToSet(read.elf.symtab)}
  \cup {d.address : d \in ToSet(read.dies)}

EmptyCorpora(w) ==
  [f \in DOMAIN w.files |-> [k \in SymbolKinds |-> EmptyPart(Addresses(w.files[f]))]]

Init ==
  /\ world \in Worlds
  /\ symbols = <<>>
  /\ corpora = EmptyCorpora(world)
  /\ file = FirstOf(DOMAIN world.files)
  /\ phase = IF world.tool = "abisym" THEN "lookup" ELSE "symbols"
  /\ next = 1
  /\ aborted = FALSE
  /\ found = <<>>

Going(p) == phase = p /\ ~aborted

Entry == SymbolTable(Elf)[next]
AtEntry == Going("symbols") /\ next <= Len(SymbolTable(Elf))

\* A public symbol is found by its address if it is the first one there.
AddPublic(part, i, value) ==
  [part EXCEPT !.syms = Append(@, i),
               !.mainAt = IF @[value] = 0 THEN [@ EXCEPT ![value] = i] ELSE @]
AddUndefined(part, i) == [part EXCEPT !.undefined = Append(@, i)]

\* load_symbol_maps, for a public symbol.
LoadPublic ==
  /\ AtEntry
  /\ KindOf(Entry) \in SymbolKinds
  /\ IsPublic(Entry)
  /\ LET k == KindOf(Entry)
         i == Len(symbols) + 1
         heap == Append(symbols, NewSymbol(ElfSymbol(Elf, next), i))
         first == corpora[file][k].mainAt[Entry.value]
     IN  /\ corpora' = [corpora EXCEPT ![file][k] = AddPublic(@, i, Entry.value)]
         /\ symbols' = IF first = 0 THEN heap ELSE AddAlias(heap, heap[first].main, i)
         /\ aborted' = (first # 0 /\ ~MayAddAlias(heap, heap[first].main, i))
  /\ next' = next + 1
  /\ UNCHANGED <<world, file, phase, found>>

\* load_symbol_maps, for an undefined symbol.
LoadUndefined ==
  /\ AtEntry
  /\ KindOf(Entry) \in SymbolKinds
  /\ ~IsDefined(Entry)
  /\ LET i == Len(symbols) + 1
     IN  /\ symbols' = Append(symbols, NewSymbol(ElfSymbol(Elf, next), i))
         /\ corpora' = [corpora EXCEPT ![file][KindOf(Entry)] = AddUndefined(@, i)]
  /\ next' = next + 1
  /\ UNCHANGED <<world, file, phase, aborted, found>>

\* load_symbol_maps, for any other symbol.
SkipSymbol ==
  /\ AtEntry
  /\ KindOf(Entry) \notin SymbolKinds \/ (IsDefined(Entry) /\ ~IsPublic(Entry))
  /\ next' = next + 1
  /\ UNCHANGED <<world, symbols, corpora, file, phase, aborted, found>>

SymbolsLoaded ==
  /\ Going("symbols") /\ next > Len(SymbolTable(Elf))
  /\ phase' = "dies" /\ next' = 1
  /\ UNCHANGED <<world, symbols, corpora, file, aborted, found>>

\* lookup_elf_fn_symbol_from_address, lookup_elf_var_symbol_from_address
MainAt(f, kind, address) == corpora[f][kind].mainAt[address]

\* build_function_decl, build_var_decl: the symbol of a declaration is a copy of the
\* main symbol at its address; without one it is not in the public symbol table.
ReadDie ==
  /\ Going("dies") /\ next <= Len(Dies)
  /\ LET k == Dies[next].kind
         main == MainAt(file, k, Dies[next].address)
         i == Len(symbols) + 1
         heap == Append(symbols, Copy(symbols[main], i))
     IN  IF main = 0 THEN UNCHANGED <<symbols, corpora>>
         ELSE /\ symbols' = heap
              /\ corpora' = [corpora EXCEPT ![file][k] = MaybeAdd(heap, @, i)]
  /\ next' = next + 1
  /\ UNCHANGED <<world, file, phase, aborted, found>>
-----------------------------------------------------------------------------
(* Writing a corpus and reading it back *)

\* write_elf_symbol_aliases: the ids of the aliases, for a main symbol.
AliasIds(heap, i) ==
  IF heap[i].main = i THEN [a \in DOMAIN NextAliases(heap, i) |-> Id(heap[NextAliases(heap, i)[a]])]
  ELSE <<>>

\* write_elf_symbols_table: the symbols in the order of their rows.
Rows(k) == Sorted(symbols, corpora[file][k].syms)

\* build_elf_symbol: a new symbol that is like the written one, without its aliases.
ReadRow(s, i) == Copy(s, i)

\* write_elf_symbols_table and the first part of build_elf_symbol_db.
ReadSymbolDb ==
  /\ Going("dies") /\ next > Len(Dies) /\ world.files[file].xml
  /\ LET base(k) == Len(symbols) + (IF k = "var" THEN Len(Rows("fun")) ELSE 0)
         part(k) == [corpora[file][k] EXCEPT
                       !.written = Rows(k), !.unlinked = DOMAIN Rows(k), !.decls = <<>>,
                       !.syms = [r \in DOMAIN Rows(k) |-> base(k) + r], !.undefined = <<>>]
         new(k) == [r \in DOMAIN Rows(k) |-> ReadRow(symbols[Rows(k)[r]], base(k) + r)]
     IN  /\ symbols' = symbols \o new("fun") \o new("var")
         /\ corpora' = [corpora EXCEPT ![file] = [k \in SymbolKinds |-> part(k)]]
  /\ phase' = "aliases"
  /\ UNCHANGED <<world, file, next, aborted, found>>

SymbolsOfId(heap, list, id) == {i \in ToSet(list) : Id(heap[i]) = id}

\* One id of the attribute "alias" of a row, as long as no assertion has failed.
LinkTo(acc, part, r, id) ==
  LET named == SymbolsOfId(acc.heap, part.syms, id)
      alias == CHOOSE i \in named : TRUE
      main == acc.heap[part.syms[r]].main
  IN  IF acc.ok /\ named # {} /\ acc.heap[alias].main = alias
           /\ MayAddAlias(acc.heap, main, alias)
      THEN [acc EXCEPT !.heap = AddAlias(acc.heap, main, alias)]
      ELSE [acc EXCEPT !.ok = FALSE]

\* All of them.
Linked(heap, part, r, ids) ==
  LET linked[n \in 0..Len(ids)] ==
        IF n = 0 THEN [heap |-> heap, ok |-> TRUE] ELSE LinkTo(linked[n - 1], part, r, ids[n])
  IN  linked[Len(ids)]

RowRead(part, r) == [part EXCEPT !.unlinked = @ \ {r}]

\* The rest of build_elf_symbol_db, for the attribute "alias" of one row: the rows
\* are in the order of a hash map.
LinkAliases ==
  /\ Going("aliases")
  /\ \E k \in SymbolKinds : \E r \in corpora[file][k].unlinked :
       LET part == corpora[file][k]
           end == Linked(symbols, part, r, AliasIds(symbols, part.written[r]))
       IN  /\ symbols' = end.heap
           /\ aborted' = ~end.ok
           /\ corpora' = [corpora EXCEPT ![file][k] = RowRead(@, r)]
  /\ UNCHANGED <<world, file, phase, next, found>>

AliasesLinked ==
  /\ Going("aliases") /\ \A k \in SymbolKinds : corpora[file][k].unlinked = {}
  /\ phase' = "decls" /\ next' = 1
  /\ UNCHANGED <<world, symbols, corpora, file, aborted, found>>

\* build_function_decl, build_var_decl of abg-reader.cc: the attribute elf-symbol-id
\* leads to the symbol itself (build_elf_symbol_from_reference).
ReadXmlDecl ==
  /\ Going("decls") /\ next <= Len(Dies)
  /\ LET k == Dies[next].kind
         main == MainAt(file, k, Dies[next].address)
         named == SymbolsOfId(symbols, corpora[file][k].syms, Id(symbols[main]))
     IN  IF main = 0 THEN UNCHANGED corpora
         ELSE \E i \in named :
                corpora' = [corpora EXCEPT ![file][k] = MaybeAdd(symbols, @, i)]
  /\ next' = next + 1
  /\ UNCHANGED <<world, symbols, file, phase, aborted, found>>
-----------------------------------------------------------------------------
(* The tools *)

AfterReading ==
  CASE world.tool = "abidiff" -> "options" [] world.tool = "abicompat" -> "keep" [] OTHER -> "done"

\* The next file is read, or there is none.
NextFile ==
  /\ next > Len(Dies) /\ (Going("decls") \/ (Going("dies") /\ ~world.files[file].xml))
  /\ IF Later(file) = {}
     THEN phase' = AfterReading /\ UNCHANGED file
     ELSE phase' = "symbols" /\ file' = FirstOf(Later(file))
  /\ next' = 1
  /\ UNCHANGED <<world, symbols, corpora, aborted, found>>

Libs == DOMAIN world.files \ {"app"}

\* set_corpus_keep_drop_regex_patterns of abidiff: the corpora have been read, and
\* nothing is dropped from now on.
SetPatterns ==
  /\ Going("options")
  /\ corpora' = [f \in DOMAIN corpora |-> [k \in SymbolKinds |->
                   [corpora[f][k] EXCEPT !.toSuppress = world.toSuppress[k],
                                         !.toKeep = world.toKeep[k]]]]
  /\ phase' = "compare"
  /\ UNCHANGED <<world, symbols, file, next, aborted, found>>

\* The ids of the undefined symbols of the application.
NeededIds(k) ==
  LET needed == Sorted(symbols, corpora["app"][k].undefined)
  IN  [i \in DOMAIN needed |-> Id(symbols[needed[i]])]

\* maybe_drop_some_exported_decls
DropDecls(part) ==
  [part EXCEPT !.decls = SelectIn(@, {d \in ToSet(@) : Keep(symbols[d], part)})]

\* perform_compat_check_in_normal_mode, _in_weak_mode of abicompat, up to the
\* comparison.
KeepNeeded ==
  /\ Going("keep")
  /\ LET needed == [k \in SymbolKinds |-> NeededIds(k)]
         part(f, k) == [corpora[f][k] EXCEPT !.keep = @ \o needed[k]]
         none == \A k \in SymbolKinds : needed[k] = <<>>
     IN  corpora' = [f \in DOMAIN corpora |->
                       IF f \notin Libs THEN corpora[f]
                       ELSE [k \in SymbolKinds |->
                               IF none THEN part(f, k) ELSE DropDecls(part(f, k))]]
  /\ phase' = IF "lib2" \in Libs THEN "compare" ELSE "done"
  /\ UNCHANGED <<world, symbols, file, next, aborted, found>>

\* build_unreferenced_symbols_tables
Unreferenced(part) ==
  LET referenced == UNION {{Id(symbols[i]) : i \in {d} \cup ToSet(NextAliases(symbols, d))} :
                             d \in ToSet(part.decls)}
  IN  {s \in ToSet(part.syms) :
         /\ Id(symbols[s]) \notin referenced
         /\ part.keep = <<>> \/ Id(symbols[s]) \in ToSet(part.keep)}

Compare ==
  /\ Going("compare")
  /\ corpora' = [f \in DOMAIN corpora |->
                   IF f \notin Libs THEN corpora[f]
                   ELSE [k \in SymbolKinds |-> [corpora[f][k] EXCEPT !.unreferenced =
                                                  Unreferenced(corpora[f][k])]]]
  /\ phase' = "done"
  /\ UNCHANGED <<world, symbols, file, next, aborted, found>>

\* abisym
LookUp ==
  /\ Going("lookup")
  /\ \E wraps \in BOOLEAN :
       found' = LookupSymbol(Elf, world.name, world.demangle, wraps)
  /\ phase' = "done"
  /\ UNCHANGED <<world, symbols, corpora, file, next, aborted>>

Next ==
  \/ LoadPublic \/ LoadUndefined \/ SkipSymbol \/ SymbolsLoaded \/ ReadDie
  \/ ReadSymbolDb \/ LinkAliases \/ AliasesLinked \/ ReadXmlDecl
  \/ NextFile \/ SetPatterns \/ KeepNeeded \/ Compare \/ LookUp

Spec == Init /\ [][Next]_vars
-----------------------------------------------------------------------------
(* What must hold *)

\* Symbols, copies and chains stay within the instances there are; the maps have
\* the public symbols of their kind, and those that are not defined.
TypeOK ==
  /\ file \in DOMAIN world.files
  /\ phase \in {"symbols", "dies", "aliases", "decls", "options", "keep", "compare", "lookup", "done"}
  /\ next \in Nat /\ aborted \in BOOLEAN
  /\ \A s \in ToSet(symbols) : s.main \in DOMAIN symbols /\ s.nextAlias \in {0} \cup DOMAIN symbols
  /\ \A f \in DOMAIN corpora : \A k \in SymbolKinds :
       LET part == corpora[f][k]
       IN  /\ \A i \in ToSet(part.syms) \cup ToSet(part.decls) :
                symbols[i].kind = k /\ symbols[i].defined /\ symbols[i].public
           /\ \A i \in ToSet(part.undefined) : symbols[i].kind = k /\ ~symbols[i].defined
           /\ part.unreferenced \subseteq ToSet(part.syms)

FileRead(f) == Before(f, file) \/ phase \in {"options", "keep", "compare", "done"}

\* The indexes of the public symbols of a kind at an address, by the symbol table.
At(elf, k, value) ==
  {i \in PublicEntries(elf) : SymbolTable(elf)[i].value = value /\ KindOf(SymbolTable(elf)[i]) = k}

IdsAt(elf, k, value) == {EntryId(elf, i) : i \in At(elf, k, value)}

\* The ids of a symbol and its aliases.
RingIds(s) == [i \in 1..(1 + Len(NextAliases(symbols, s))) |->
                 Id(symbols[(<<s>> \o NextAliases(symbols, s))[i]])]

\* The symbols at one address, and they only, make a ring, each of them once, with the
\* first of the symbol table as the main symbol; this is so after a corpus is written
\* and read back; the assertions of add_alias hold; and the aliases told of a
\* declaration are the other symbols at its address, although its symbol may be a copy
\* that is chained to none.
AliasesAreRight ==
  /\ ~aborted
  /\ \A f \in {g \in DOMAIN corpora : FileRead(g) /\ world.tool # "abisym"} :
       \A k \in SymbolKinds :
       LET elf == world.files[f].elf
           syms == ToSet(corpora[f][k].syms)
           mains == {i \in syms : symbols[i].main = i}
           values == {v \in DOMAIN corpora[f][k].mainAt : At(elf, k, v) # {}}
       IN  /\ {RingIds(m)[1] : m \in mains} = {EntryId(elf, Min(At(elf, k, v))) : v \in values}
           /\ {ToSet(RingIds(m)) : m \in mains} = {IdsAt(elf, k, v) : v \in values}
           /\ \A m \in mains : IsInjective(RingIds(m))
           /\ \A i \in syms : symbols[i].main \in mains
                              /\ i \in {symbols[i].main} \cup ToSet(NextAliases(symbols, symbols[i].main))
           /\ \A d \in ToSet(corpora[f][k].decls) :
                LET aliases == ComputeAliases(symbols, d, corpora[f][k].syms)
                    ids == [a \in DOMAIN aliases |-> Id(symbols[aliases[a]])]
                IN  /\ IsInjective(ids)
                    /\ \E v \in values : IdsAt(elf, k, v) = {Id(symbols[d])} \cup ToSet(ids)
                                         /\ Id(symbols[d]) \notin ToSet(ids)

\* A corpus, as CorpusDiff takes it.
AsLibrary(f) ==
  [kind \in Kinds |->
     LET part == corpora[f][IF kind = "function" THEN "fun" ELSE "var"]
         name(i) == <<symbols[i].name, symbols[i].version.name>>
         symbol(i) == [name |-> name(i), default |-> symbols[i].version.default]
         ring(d) == [i \in 1..(1 + Len(NextAliases(symbols, d))) |->
                       name((<<d>> \o NextAliases(symbols, d))[i])]
     IN  [symbols |-> {symbol(i) : i \in ToSet(part.syms)},
          decls |-> [d \in DOMAIN part.decls |-> [symbol |-> symbol(part.decls[d]), decl |-> d]],
          rings |-> {ring(d) : d \in {d \in ToSet(part.decls) : NextAliases(symbols, d) # <<>>}}]]

\* Of each address with a public symbol that the debug information describes there is
\* one declaration in the corpus that is read, however often it is described; and the
\* corpus is what corpus_diff relies on.
CorporaAreLibraries ==
  TypeOK /\ \A f \in {g \in Libs : FileRead(g) /\ world.tool # "abisym"} :
    /\ IsLibrary(AsLibrary(f))
    /\ phase \notin {"compare", "done"} \/ world.tool # "abicompat" =>
         \A k \in SymbolKinds :
           LET elf == world.files[f].elf
           IN  {Id(symbols[d]) : d \in ToSet(corpora[f][k].decls)} =
                 {EntryId(elf, Min(At(elf, k, v))) :
                    v \in {v \in DOMAIN corpora[f][k].mainAt :
                             At(elf, k, v) # {} /\ \E d \in ToSet(world.files[f].dies) :
                                                    d = [kind |-> k, address |-> v]}}

\* The version of a symbol the application needs, by its file.
NeededVersion(elf, i) ==
  LET entry == SymbolTable(elf)[i]
  IN  IF entry.name[3] # "" THEN entry.name[3]
      ELSE IF ~elf.versioned \/ i > Len(elf.dynsym) THEN ""
      ELSE LET all == FlattenSeq(elf.verneed)
               at == SelectInSeq(all, LAMBDA n : n.other = elf.dynsym[i].ndx)
           IN  IF at = 0 THEN "" ELSE all[at].name

\* The names and versions of the functions or variables the application needs.
Needed(k) ==
  LET elf == world.files["app"].elf
      table == SymbolTable(elf)
  IN  {<<table[i].name[1], NeededVersion(elf, i)>> :
         i \in {i \in DOMAIN table : table[i].kind = k /\ ~IsDefined(table[i])}}

\* The versions the application needs have been found, and all of its symbols have
\* one or none has.
VersionsFound ==
  \A k \in SymbolKinds :
    /\ {<<id[1], id[3]>> : id \in ToSet(NeededIds(k))} = Needed(k)
    /\ (\A n \in Needed(k) : n[2] = "") \/ (\A n \in Needed(k) : n[2] # "")

\* The declarations of a library at addresses that have one of these symbols first.
DeclsNeeded(f, k) ==
  {Id(symbols[i]) :
     i \in {i \in {corpora[f][k].mainAt[d.address] : d \in {d \in ToSet(world.files[f].dies) : d.kind = k}} \ {0} :
              <<symbols[i].name[1], symbols[i].version.name>> \in Needed(k)}}

Compared == phase = "done" /\ world.tool = "abicompat"

\* If the application needs functions (variables), and their versions have been found,
\* then abicompat compares the declarations of just these; and a symbol that is
\* needed, of the default version if it has any, is not forgotten if no declaration has
\* it.
NeededIsKept ==
  Compared /\ VersionsFound =>
    \A f \in Libs : \A k \in {k \in SymbolKinds : Needed(k) # {}} :
      LET part == corpora[f][k]
          told == {Id(symbols[i]) : i \in part.unreferenced \cup ToSet(part.decls)}
                  \cup UNION {ToSet(RingIds(d)) : d \in ToSet(part.decls)}
      IN  /\ {Id(symbols[d]) : d \in ToSet(part.decls)} = DeclsNeeded(f, k)
          /\ "lib2" \in Libs =>
               \A i \in ToSet(part.syms) :
                 (/\ <<symbols[i].name[1], symbols[i].version.name>> \in Needed(k)
                  /\ symbols[i].version.name = "" \/ symbols[i].version.default)
                 => Id(symbols[i]) \in told

\* abicompat compares whatever the application needs.  ("compare lib1 and lib2 only by
\* looking at the functions and variables which symbols are those undefined in the
\* app", abicompat.cc:266.)  The code may not find the version, or takes that of another
\* symbol for it.
NeededIsCompared ==
  Compared => \A f \in Libs : \A k \in SymbolKinds :
    DeclsNeeded(f, k) \subseteq {Id(symbols[d]) : d \in ToSet(corpora[f][k].decls)}

\* The version of a symbol, by what the linker wrote.
OwnVersion(elf, i) ==
  LET at == SelectInSeq(elf.verdef, LAMBDA d : d.ndx = elf.dynsym[i].ndx)
  IN  IF at = 0 \/ elf.dynsym[i].ndx <= 1 THEN NoVersion
      ELSE [name |-> elf.verdef[at].name, default |-> ~elf.dynsym[i].hidden]

\* A lookup finds symbols of the name only; all that are defined, unless it goes through
\* a Bloom filter, whose bits above the 32nd and words but the first are read wrongly;
\* and, where all symbols of that name are defined and have versions, their versions.
LookupsAreRight ==
  world.tool = "abisym" /\ phase = "done" =>
    LET table == IF world.demangle \/ Elf.hash = "none" THEN SymbolTable(Elf) ELSE Elf.dynsym
        named == {i \in DOMAIN table : table[i].name = world.name}
        hash == HashOf[world.name[1]]
        filtered == /\ Elf.hash = "gnu" /\ ~world.demangle
                    /\ Elf.nwords > 1 \/ hash % 64 > 31 \/ (hash \div (2 ^ Shift)) % 64 > 31
        indexes == {s.index : s \in ToSet(found)}
    IN  /\ indexes \subseteq named
        /\ ~filtered => {i \in named : IsPublic(table[i])} \subseteq indexes
        /\ table = Elf.dynsym /\ HasVersionSections(Elf)
             /\ (\A i \in named : IsDefined(table[i]) /\ OwnVersion(Elf, i) # NoVersion)
           => \A s \in ToSet(found) : s.version = OwnVersion(Elf, s.index)
=============================================================================
