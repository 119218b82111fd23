------------------------------ MODULE Library ------------------------------
(***************************************************************************)
(* What the corpus of a library is to those who compare it: of each kind,  *)
(* a set of symbols, a sequence of exported declarations that have one,    *)
(* and the rings of the symbols that the symbols of declarations are       *)
(* chained to.  CorpusDiff relies on it, and CorpusSymbols shows that the  *)
(* readers build such corpora.                                             *)
(***************************************************************************)
EXTENDS Sequences, SequencesExt, FiniteSets

Kinds == {"function", "variable"}

\* Symbols have names of their own; a declaration in the exported set has a symbol
\* in the symbol table, and no other has its id (exported_decls_builder).
IsLibrary(l) ==
  \A k \in Kinds :
    /\ IsFiniteSet(l[k].symbols)
    /\ \A s, t \in l[k].symbols : s.name = t.name => s = t
    /\ \A other \in Kinds \ {k} : \A s \in l[k].symbols, t \in l[other].symbols :
         s.name # t.name
    /\ \A i \in DOMAIN l[k].decls : l[k].decls[i].symbol \in l[k].symbols
    /\ \A i, j \in DOMAIN l[k].decls :
         l[k].decls[i].symbol = l[k].decls[j].symbol => i = j
    /\ \A ring \in l[k].rings : ToSet(ring) \subseteq {s.name : s \in l[k].symbols}
=============================================================================
