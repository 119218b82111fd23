------------------------------ MODULE ElfFile ------------------------------
(***************************************************************************)
(* What abg-dwarf-reader.cc reads of the symbols of an ELF file: which of  *)
(* the two symbol tables, the version of a symbol, the symbols of a name.  *)
(*                                                                         *)
(* A file has                                                              *)
(*   type      "dso" or "exec" (ET_DYN, ET_EXEC),                          *)
(*   dynsym, symtab   its symbol tables, <<>> if it has none,              *)
(*   versioned whether it has a SHT_GNU_versym section,                    *)
(*   verdef    the versions it defines: <<[ndx, name], ...>>,              *)
(*   verneed   those it needs, per needed file: <<<<[other, name], ...>>>>,*)
(*   hash      "none", "sysv" or "gnu": the hash table of dynsym,          *)
(*   nwords    the words of the Bloom filter of a "gnu" table.             *)
(* An entry of a symbol table has a name, a kind ("fun", "var", "other"),  *)
(* a section ("undef", "abs", "text"), a value (its address), a binding    *)
(* ("local", "global") and the half-word of .gnu.version at its index, as  *)
(* ndx and hidden, the bit 0x8000.                                         *)
(*                                                                         *)
(* A string that may name a symbol and its version is a triple: <<"f", "", *)
(* "">> is "f", <<"f", "@@", "V">> is "f@@V".  The linker writes names of  *)
(* the second kind into the symtab of executables.                         *)
(***************************************************************************)
EXTENDS Naturals, Sequences, SequencesExt, FiniteSetsExt

CONSTANTS HashOf,  \* elf_gnu_hash: the first part of a name -> number
          Shift    \* the second hash of a Bloom filter is the first one divided by 2^Shift

NoVersion == [name |-> "", default |-> FALSE]

\* The elements of a sequence that are in a set, in their order.
SelectIn(s, T) == FlattenSeq([i \in DOMAIN s |-> IF s[i] \in T THEN <<s[i]>> ELSE <<>>])

\* elf_symbol::get_id_string
IdString(name, version) ==
  IF version.name = "" THEN name
  ELSE <<name[1], IF version.default THEN "@@" ELSE "@", version.name>>
-----------------------------------------------------------------------------
(* Versions *)

\* find_symbol_table_section
SymbolTable(file) ==
  IF file.type = "exec"
  THEN IF file.symtab # <<>> THEN file.symtab ELSE file.dynsym
  ELSE IF file.dynsym # <<>> THEN file.dynsym ELSE file.symtab

\* get_symbol_versionning_sections: all three of them, or none counts.
HasVersionSections(file) == file.versioned /\ file.verdef # <<>> /\ file.verneed # <<>>

\* Mutant of VersionDefinition: the bit 0x8000 is taken for a part of the number.
VersionDefinitionUnmasked(file, versym) ==
  LET found == SelectInSeq(file.verdef, LAMBDA d : d.ndx = versym.ndx /\ ~versym.hidden)
  IN  IF found = 0 THEN NoVersion ELSE [name |-> file.verdef[found].name, default |-> TRUE]

\* get_version_definition_for_versym
VersionDefinition(file, versym) ==
  LET found == SelectInSeq(file.verdef, LAMBDA d : d.ndx = versym.ndx)
  IN  IF found = 0 THEN NoVersion
      ELSE [name |-> file.verdef[found].name, default |-> ~versym.hidden]

\* get_version_needed_for_versym: the inner loop walks along the needed files, as
\* the outer one does, and not along the versions of one file.  So no version but
\* the first of the first file is ever found.
VersionNeeded(file, versym) ==
  LET first == file.verneed[1][1]
  IN  IF first.other = versym.ndx /\ ~versym.hidden
      THEN [name |-> first.name, default |-> TRUE]
      ELSE NoVersion

\* get_version_for_symbol.  The index may be one of the symtab; the half-words
\* are those of the dynsym.
VersionForSymbol(file, i, defined) ==
  IF ~HasVersionSections(file) \/ i > Len(file.dynsym) THEN NoVersion
  ELSE LET versym == [ndx |-> file.dynsym[i].ndx, hidden |-> file.dynsym[i].hidden]
       IN  IF (versym.ndx <= 1 /\ ~versym.hidden) \/ (defined /\ versym.ndx = 1)
           THEN NoVersion
           ELSE IF defined THEN VersionDefinition(file, versym)
                ELSE VersionNeeded(file, versym)

IsDefined(entry) == entry.section # "undef"
IsPublic(entry) == IsDefined(entry) /\ entry.binding # "local"

\* lookup_elf_symbol_from_index
ElfSymbol(file, i) ==
  LET entry == SymbolTable(file)[i]
  IN  [name |-> entry.name, kind |-> entry.kind, defined |-> IsDefined(entry),
       public |-> IsPublic(entry), version |-> VersionForSymbol(file, i, IsDefined(entry))]
-----------------------------------------------------------------------------
(* Looking symbols up by name, as abisym does *)

\* The symbols found at these indexes of a table; the versions of those in defined
\* are looked for among the versions the file defines.  Where there is one variable
\* for the versions of all, a symbol without a version gets that of the symbol found
\* before it.
FoundAt(file, indexes, defined, OneVariable) ==
  LET own(j) == VersionForSymbol(file, indexes[j], indexes[j] \in defined)
      having(j) == {k \in (IF OneVariable THEN 1 ELSE j)..j : own(k) # NoVersion}
  IN  [j \in DOMAIN indexes |->
         [index |-> indexes[j],
          version |-> IF having(j) = {} THEN NoVersion ELSE own(Max(having(j)))]]

\* The indexes of the entries of that name, in the order of the table.
Named(table, name) ==
  SelectIn([i \in DOMAIN table |-> i], {i \in DOMAIN table : table[i].name = name})

\* lookup_symbol_from_symtab
LookupInSymtab(file, table, name) ==
  FoundAt(file, Named(table, name), {i \in DOMAIN table : IsDefined(table[i])}, TRUE)

\* lookup_symbol_from_sysv_hash_tab: the chain of the bucket has every symbol with
\* that hash.  The version is looked for among those defined, always.
LookupInSysvHash(file, name) ==
  FoundAt(file, Named(file.dynsym, name), DOMAIN file.dynsym, FALSE)

\* The bits the linker sets in the Bloom filter, of 64-bit words, for a name.
BloomBits(file, name) ==
  LET h == HashOf[name[1]]
  IN  {<<(h \div 64) % file.nwords, bit>> : bit \in {h % 64, (h \div (2 ^ Shift)) % 64}}

InGnuHash(file) == {i \in DOMAIN file.dynsym : IsPublic(file.dynsym[i])}

\* The mask is an unsigned char, so that only the first eight bits count.  To shift
\* an int by 32 or more is undefined: some processors shift by the remainder, with
\* others nothing is left.
BloomMask(h, wraps) ==
  LET bits == {h % 64, (h \div (2 ^ Shift)) % 64}
  IN  {IF wraps THEN bit % 32 ELSE bit : bit \in bits} \cap 0..7

\* bloom_word_at: the filter has 64-bit words but the index is taken for one of
\* 32-bit words, of which two make a word, the lower one first.
BloomWordAt(file, n) ==
  LET set == UNION {BloomBits(file, file.dynsym[i].name) : i \in InGnuHash(file)}
  IN  {bit \in 0..31 : <<n \div 2, bit + 32 * (n % 2)>> \in set}

\* lookup_symbol_from_gnu_hash_tab
LookupInGnuHash(file, name, wraps) ==
  LET h == HashOf[name[1]]
      n == (h \div 64) % file.nwords
      present == BloomMask(h, wraps) \subseteq BloomWordAt(file, n)
  IN  IF ~present THEN <<>>
      ELSE FoundAt(file, SelectIn(Named(file.dynsym, name), InGnuHash(file)),
                   DOMAIN file.dynsym, TRUE)

\* lookup_symbol_from_elf; a demangled name is looked for in the symbol table.
LookupSymbol(file, name, demangle, wraps) ==
  IF demangle \/ file.hash = "none"
  THEN LookupInSymtab(file, SymbolTable(file), name)
  ELSE IF file.hash = "sysv" THEN LookupInSysvHash(file, name)
  ELSE LookupInGnuHash(file, name, wraps)
=============================================================================
