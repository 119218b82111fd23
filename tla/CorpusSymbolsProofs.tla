------------------------ MODULE CorpusSymbolsProofs ------------------------
(* Proofs about the symbols and declarations of corpora: for any files and   *)
(* tools, the rings of aliases are the symbols at an address, in the corpora *)
(* that are read directly and in those read from XML; what is told of a      *)
(* declaration's aliases is its ring; the corpora that are compared are      *)
(* libraries; a lookup finds the symbols of a name; and abicompat compares    *)
(* what the application needs.                                              *)
EXTENDS CorpusPartsProofs

LEMMA ConcatIs ==
    ASSUME NEW T, NEW u \in Seq(T), NEW v \in Seq(T)
    PROVE  /\ u \o v \in Seq(T) /\ Len(u \o v) = Len(u) + Len(v)
           /\ \A i \in 1 .. Len(u) : (u \o v)[i] = u[i]
           /\ \A i \in 1 .. Len(v) : (u \o v)[Len(u) + i] = v[i]
  <1>1. PICK n \in Nat, m \in Nat : n = Len(u) /\ m = Len(v)
    BY LenProperties
  <1>2. u \o v \in Seq(T) /\ Len(u \o v) = n + m
    BY <1>1
  <1>3. \A i \in 1 .. n : (u \o v)[i] = u[i]
    BY <1>1
  <1>4. \A i \in 1 .. m : (u \o v)[n + i] = v[i]
    BY <1>1
  <1> QED
    BY <1>1, <1>2, <1>3, <1>4

\* Symbols that are alone, appended.
CopiesFrom(N, n, base) ==
    /\ N \in Seq(Symbols) /\ Len(N) = n
    /\ \A r \in 1 .. n : N[r].main = base + r /\ N[r].nextAlias = 0

CopiedFrom(s, t, N, base, n) ==
    /\ Heap(t) /\ Kept(s, t, 1 .. Len(s)) /\ Len(t) = base + n
    /\ \A r \in 1 .. n : t[base + r] = N[r]

LEMMA CopiesAdded ==
    ASSUME NEW s, NEW n, NEW base, NEW N, NEW t, Heap(s), base = Len(s), CopiesFrom(N, n, base),
           t = s \o N
    PROVE  CopiedFrom(s, t, N, base, n)
  <1>1. PICK a \in Nat, b \in Nat : a = Len(s) /\ b = Len(N) /\ b = n /\ s \in Seq(Symbols) /\ N \in Seq(Symbols)
    BY LenProperties DEF Heap, CopiesFrom
  <1>2. /\ t \in Seq(Symbols) /\ Len(t) = a + b
        /\ \A i \in 1 .. a : t[i] = s[i]
        /\ \A i \in 1 .. b : t[a + i] = N[i]
    <2>1. s \in Seq(Symbols) /\ N \in Seq(Symbols)
      BY <1>1
    <2>2. /\ s \o N \in Seq(Symbols) /\ Len(s \o N) = Len(s) + Len(N)
          /\ \A i \in 1 .. Len(s) : (s \o N)[i] = s[i]
          /\ \A i \in 1 .. Len(N) : (s \o N)[Len(s) + i] = N[i]
      BY <2>1, ConcatIs
    <2> QED
      BY <1>1, <2>2
  <1>3. PICK c \in Nat : c = a + b
    BY <1>1
  <1>4. ASSUME NEW i \in 1 .. c
        PROVE  t[i].main \in 1 .. c /\ t[i].nextAlias \in 0 .. c
    <2>1. CASE i \in 1 .. a
      <3>1. s[i].main \in 1 .. a /\ s[i].nextAlias \in 0 .. a /\ t[i] = s[i]
        BY <1>1, <1>2, <2>1 DEF Heap
      <3>2. \A x \in 1 .. a : x \in 1 .. c
        BY <1>1, <1>3
      <3>3. \A x \in 0 .. a : x \in 0 .. c
        BY <1>1, <1>3
      <3> QED
        BY <3>1, <3>2, <3>3
    <2>2. CASE i \notin 1 .. a
      <3>1. PICK r \in 1 .. b : i = a + r
        <4>1. i - a \in 1 .. b /\ i = a + (i - a)
          BY <1>1, <1>3, <2>2
        <4> QED
          BY <4>1
      <3>2. t[i] = N[r]
        BY <1>2, <3>1
      <3>3. N[r].main = a + r /\ N[r].nextAlias = 0
        BY <1>1, <3>1 DEF CopiesFrom
      <3> QED
        BY <1>3, <3>1, <3>2, <3>3
    <2> QED
      BY <2>1, <2>2
  <1>5. Heap(t)
    BY <1>2, <1>3, <1>4 DEF Heap
  <1>6. Kept(s, t, 1 .. Len(s))
    <2>1. a <= c
      BY <1>1, <1>3
    <2>2. \A i \in 1 .. a : t[i] = s[i]
      BY <1>2
    <2> QED
      BY <1>1, <1>2, <1>3, <2>1, <2>2 DEF Kept, SameSymbol
  <1> QED
    BY <1>1, <1>2, <1>5, <1>6 DEF CopiedFrom

\* The rows of a kind, read.
RowsOfKind(s, Q, base) == [r \in DOMAIN Q |-> ReadRow(s[Q[r]], base + r)]
CopiesOf(N, s, Q, base, n) ==
    /\ CopiesFrom(N, n, base)
    /\ \A r \in 1 .. n : N[r] = Copy(s[Q[r]], base + r)

LEMMA RowsCopied ==
    ASSUME NEW s, NEW Q, NEW base \in Nat, NEW n, NEW N, Heap(s), Q \in Seq(1 .. Len(s)), n = Len(Q),
           N = RowsOfKind(s, Q, base)
    PROVE  CopiesOf(N, s, Q, base, n)
  <1>1. n \in Nat /\ n = Len(Q) /\ DOMAIN Q = 1 .. n
    BY LenProperties
  <1>2. N = [r \in 1 .. n |-> Copy(s[Q[r]], base + r)]
    BY <1>1 DEF RowsOfKind, ReadRow
  <1>3. ASSUME NEW r \in 1 .. n
        PROVE  N[r] \in Symbols /\ N[r].main = base + r /\ N[r].nextAlias = 0
    <2>1. Q[r] \in 1 .. Len(s)
      BY <1>1, ElementOfSeq
    <2>2. s[Q[r]] \in Symbols
      BY <2>1, HeapLength
    <2>3. PICK i \in Nat : i = base + r
      BY <1>1
    <2>4. N[r] = Copy(s[Q[r]], i)
      BY <1>2, <2>3
    <2>5. i \in Nat
      BY <2>3
    <2>6. /\ Copy(s[Q[r]], i) \in Symbols /\ Copy(s[Q[r]], i).main = i
          /\ Copy(s[Q[r]], i).nextAlias = 0
      BY <2>2, <2>5, CopyIs
    <2> QED
      BY <2>3, <2>4, <2>6
  <1>4. N \in [1 .. n -> Symbols]
    BY <1>2, <1>3
  <1>5. N \in Seq(Symbols) /\ Len(N) = n
    BY <1>1, <1>4, FunctionSeq
  <1> QED
    BY <1>1, <1>2, <1>3, <1>5 DEF CopiesFrom, CopiesOf

Rereads(s, t, PF, PV, XF, XV, QF, QV) ==
    LET base == Len(s) + Len(QF)
    IN  /\ t = s \o RowsOfKind(s, QF, Len(s)) \o RowsOfKind(s, QV, base)
        /\ XF = PartRead(PF, QF, Len(s)) /\ XV = PartRead(PV, QV, base)

\* The order of the rows.
OrderOf(Q, s, part) == Q \in Seq(1 .. Len(s)) /\ ToSet(Q) = ToSet(part.syms) /\ OneEach(Q)
BothReread(s, t, values, PF, PV, XF, XV) ==
    /\ Heap(t) /\ Kept(s, t, 1 .. Len(s))
    /\ RowsRead(s, t, PF, XF) /\ XF \in Parts(values)
    /\ RowsRead(s, t, PV, XV) /\ XV \in Parts(values)
    /\ ToSet(XF.syms) \cap ToSet(XV.syms) = {}

LEMMA SymbolsReread ==
    ASSUME NEW s, NEW t, NEW values, NEW PF \in Parts(values), NEW PV \in Parts(values),
           NEW QF, NEW QV, NEW XF, NEW XV, Heap(s), Rereads(s, t, PF, PV, XF, XV, QF, QV),
           OrderOf(QF, s, PF), OrderOf(QV, s, PV)
    PROVE  BothReread(s, t, values, PF, PV, XF, XV)
  <1>0. /\ QF \in Seq(1 .. Len(s)) /\ ToSet(QF) = ToSet(PF.syms) /\ OneEach(QF)
        /\ QV \in Seq(1 .. Len(s)) /\ ToSet(QV) = ToSet(PV.syms) /\ OneEach(QV)
    BY DEF OrderOf
  <1>1. PICK a \in Nat, b \in Nat, l \in Nat : a = Len(QF) /\ b = Len(QV) /\ l = Len(s)
    BY <1>0, LenProperties, HeapLength
  <1>2. PICK base \in Nat : base = l + a
    BY <1>1
  <1>3. PICK NF, NV : NF = RowsOfKind(s, QF, l) /\ NV = RowsOfKind(s, QV, base)
    OBVIOUS
  <1>4. /\ t = s \o NF \o NV
        /\ XF = PartRead(PF, QF, l) /\ XV = PartRead(PV, QV, base)
    BY <1>1, <1>2, <1>3 DEF Rereads
  <1>5. CopiesFrom(NF, a, l) /\ \A r \in 1 .. a : NF[r] = Copy(s[QF[r]], l + r)
    <2>1. l \in Nat /\ NF = RowsOfKind(s, QF, l) /\ a = Len(QF)
      BY <1>1, <1>3
    <2>2. CopiesOf(NF, s, QF, l, a)
      BY <1>0, <2>1, RowsCopied
    <2> QED
      BY <2>2 DEF CopiesOf
  <1>6. CopiesFrom(NV, b, base) /\ \A r \in 1 .. b : NV[r] = Copy(s[QV[r]], base + r)
    <2>1. base \in Nat /\ NV = RowsOfKind(s, QV, base) /\ b = Len(QV)
      BY <1>1, <1>2, <1>3
    <2>2. CopiesOf(NV, s, QV, base, b)
      BY <1>0, <2>1, RowsCopied
    <2> QED
      BY <2>2 DEF CopiesOf
  <1>7. PICK h : h = s \o NF
    OBVIOUS
  <1>8. /\ Heap(h) /\ Kept(s, h, 1 .. Len(s)) /\ Len(h) = base
        /\ \A r \in 1 .. a : h[l + r] = NF[r]
    <2>1. l = Len(s) /\ CopiesFrom(NF, a, l)
      BY <1>1, <1>5
    <2>2. CopiedFrom(s, h, NF, l, a)
      BY <1>7, <2>1, CopiesAdded
    <2> QED
      BY <1>2, <2>2 DEF CopiedFrom
  <1>9. t = h \o NV
    BY <1>4, <1>7
  <1>10. /\ Heap(t) /\ Kept(h, t, 1 .. Len(h)) /\ Len(t) = base + b
         /\ \A r \in 1 .. b : t[base + r] = NV[r]
    <2>1. base = Len(h) /\ CopiesFrom(NV, b, base) /\ Heap(h)
      BY <1>6, <1>8
    <2>2. CopiedFrom(h, t, NV, base, b)
      BY <1>9, <2>1, CopiesAdded
    <2> QED
      BY <2>2 DEF CopiedFrom
  <1>11. /\ \A i \in 1 .. l : h[i] = s[i] /\ SameSymbol(h[i], s[i])
         /\ \A i \in 1 .. base : t[i] = h[i] /\ SameSymbol(t[i], h[i])
    BY <1>1, <1>8, <1>10 DEF Kept
  <1>12. /\ \A i \in 1 .. l : i \in 1 .. base
         /\ \A r \in 1 .. a : l + r \in 1 .. base
         /\ l <= base /\ base + b \in Nat /\ l <= base + b /\ l + a <= base + b /\ base + b <= base + b
    BY <1>1, <1>2
  <1>13. \A i \in 1 .. l : t[i] = s[i]
    BY <1>11, <1>12
  <1>14. Kept(s, t, 1 .. Len(s))
    BY <1>1, <1>10, <1>12, <1>13 DEF Kept, SameSymbol
  <1>15. \A r \in 1 .. a : t[l + r] = Copy(s[QF[r]], l + r)
    BY <1>5, <1>8, <1>11, <1>12
  <1>16. \A r \in 1 .. b : t[base + r] = Copy(s[QV[r]], base + r)
    BY <1>6, <1>10
  <1>17. /\ RowsRead(s, t, PF, XF) /\ XF \in Parts(values)
         /\ ToSet(XF.syms) = {l + r : r \in 1 .. a}
    <2>1. Len(s) <= l /\ l + a <= Len(t)
      BY <1>1, <1>10, <1>12
    <2>2. RowsPlaced(s, t, QF, l, a, Len(t))
      BY <1>0, <1>1, <1>15, <2>1 DEF RowsPlaced
    <2>3. XF = PartRead(PF, QF, l) /\ Heap(t) /\ l \in Nat
      BY <1>1, <1>4, <1>10
    <2>4. RowsPut(s, t, values, PF, XF, l, a)
      BY <1>0, <2>2, <2>3, RowsAdded
    <2> QED
      BY <2>4 DEF RowsPut
  <1>18. /\ RowsRead(s, t, PV, XV) /\ XV \in Parts(values)
         /\ ToSet(XV.syms) = {base + r : r \in 1 .. b}
    <2>1. Len(s) <= base /\ base + b <= Len(t)
      BY <1>1, <1>10, <1>12
    <2>2. RowsPlaced(s, t, QV, base, b, Len(t))
      BY <1>0, <1>1, <1>16, <2>1 DEF RowsPlaced
    <2>3. XV = PartRead(PV, QV, base) /\ Heap(t) /\ base \in Nat
      BY <1>2, <1>4, <1>10
    <2>4. RowsPut(s, t, values, PV, XV, base, b)
      BY <1>0, <2>2, <2>3, RowsAdded
    <2> QED
      BY <2>4 DEF RowsPut
  <1>19. \A i \in 1 .. a, j \in 1 .. b : l + i # base + j
    BY <1>1, <1>2
  <1>20. ToSet(XF.syms) \cap ToSet(XV.syms) = {}
    BY <1>17, <1>18, <1>19
  <1> QED
    BY <1>10, <1>14, <1>17, <1>18, <1>20 DEF BothReread

\* In the phase that links aliases.
LEMMA AliasesPart ==
    ASSUME NEW w, NEW t, NEW part, NEW f, NEW l, NEW n, w.files[f].xml
    PROVE  FilePart(w, t, part, f, l, f, "aliases", n) <=>
             /\ PartIs(t, part, w.files[f], l, Len(SymbolTable(w.files[f].elf)), 0, "xml")
             /\ AllDeclared(t, part, l, w.files[f].dies, 0)
             /\ Fresh(part)
  <1>1. /\ EntriesRead(w, f, f, "aliases", n) = Len(SymbolTable(w.files[f].elf))
        /\ DiesRead(w, f, f, "aliases", n) = 0 /\ Source(w, f, f, "aliases") = "xml"
    BY NumbersOf
  <1> QED
    BY <1>1 DEF FilePart

\* The parts that are read back are apart.
LEMMA RereadApart ==
    ASSUME NEW s, NEW t, NEW part, NEW other, NEW X, NEW Y, Heap(s),
           Owned(other) \in SUBSET (1 .. Len(s)), Mine(other) \in SUBSET Owned(other),
           Apart(part, other), RowsRead(s, t, part, X), RowsRead(s, t, other, Y),
           ToSet(X.syms) \cap ToSet(Y.syms) = {},
           Owned(part) \in SUBSET (1 .. Len(s))
    PROVE  Apart(X, Y)
  <1>1. /\ ToSet(X.written) = ToSet(part.syms) /\ ToSet(Y.written) = ToSet(other.syms)
        /\ Y.decls = <<>>
    BY DEF RowsRead
  <1>2. Owned(Y) = ToSet(Y.syms) \cup ToSet(Y.written)
    BY <1>1 DEF Owned, Mine, ToSet
  <1>3. Mine(X) = ToSet(X.syms) \cup ToSet(X.written)
    BY DEF Mine
  <1>4. /\ ToSet(X.written) \subseteq Mine(part) /\ ToSet(Y.written) \subseteq Owned(other)
        /\ ToSet(X.written) \subseteq 1 .. Len(s) /\ ToSet(Y.written) \subseteq 1 .. Len(s)
    BY <1>1 DEF Mine, Owned
  <1>5. Mine(part) \cap Owned(other) = {}
    BY DEF Apart
  <1>6. \A i \in ToSet(X.syms) : i \notin 1 .. Len(s)
    <2> SUFFICES ASSUME NEW i \in ToSet(X.syms)
                 PROVE  i \notin 1 .. Len(s)
      OBVIOUS
    <2>1. X.syms \in Seq(Nat) /\ Len(X.syms) = Len(X.written)
      BY DEF RowsRead
    <2>2. PICK r \in 1 .. Len(X.syms) : X.syms[r] = i
      BY <2>1, LenProperties DEF ToSet
    <2> QED
      BY <2>1, <2>2 DEF RowsRead
  <1>7. \A i \in ToSet(Y.syms) : i \notin 1 .. Len(s)
    <2> SUFFICES ASSUME NEW i \in ToSet(Y.syms)
                 PROVE  i \notin 1 .. Len(s)
      OBVIOUS
    <2>1. Y.syms \in Seq(Nat) /\ Len(Y.syms) = Len(Y.written)
      BY DEF RowsRead
    <2>2. PICK r \in 1 .. Len(Y.syms) : Y.syms[r] = i
      BY <2>1, LenProperties DEF ToSet
    <2> QED
      BY <2>1, <2>2 DEF RowsRead
  <1> QED
    BY <1>2, <1>3, <1>4, <1>5, <1>6, <1>7 DEF Apart

TableRead(s, t, c, d, f, PF, PV, XF, XV, QF, QV) ==
    /\ PF = c[f]["fun"] /\ PV = c[f]["var"]
    /\ QF = Sorted(s, PF.syms) /\ QV = Sorted(s, PV.syms)
    /\ Rereads(s, t, PF, PV, XF, XV, QF, QV)
    /\ d = [c EXCEPT ![f] = [k \in SymbolKinds |-> IF k = "fun" THEN XF ELSE XV]]

LEMMA TableReread ==
    ASSUME NEW w \in Worlds, w.tool # "abisym", NEW s, NEW c, NEW f, NEW n,
           Early(w, s, c, f, "dies", n), n > Len(w.files[f].dies), w.files[f].xml,
           NEW t, NEW d, NEW PF, NEW PV, NEW XF, NEW XV, NEW QF, NEW QV,
           TableRead(s, t, c, d, f, PF, PV, XF, XV, QF, QV)
    PROVE  Early(w, t, d, f, "aliases", n)
  <1>1. /\ PhaseRight(w, f, "dies", n) /\ Heap(s) /\ CorporaIn(w, c) /\ PartsApart(w, c)
        /\ f \in DOMAIN w.files
    BY DEF Early, PhaseRight
  <1>2. GoodRead(w.files[f])
    BY <1>1, FilesGood
  <1>3. PICK read : read = w.files[f]
    OBVIOUS
  <1>4. "fun" \in SymbolKinds /\ "var" \in SymbolKinds /\ SymbolKinds = {"fun", "var"}
    BY DEF SymbolKinds
  <1>5. PICK e : e = n - 1
    OBVIOUS
  <1>6. ReadTo(s, PF, read, "fun", e, "elf") /\ ReadTo(s, PV, read, "var", e, "elf")
    <2>1. "elf" = SourceIn("dies") /\ "dies" \in {"dies", "decls"} /\ "dies" # "decls"
      BY DEF SourceIn
    <2>2. FilePart(w, s, PF, f, "fun", f, "dies", n) /\ FilePart(w, s, PV, f, "var", f, "dies", n)
      BY <1>1, <1>4 DEF Early, TableRead
    <2>3. ReadTo(s, PF, w.files[f], "fun", e, "elf")
      BY <1>5, <2>1, <2>2, DiesPart
    <2>4. ReadTo(s, PV, w.files[f], "var", e, "elf")
      BY <1>5, <2>1, <2>2, DiesPart
    <2> QED
      BY <1>3, <2>3, <2>4
  <1>7. QF \in Seq(1 .. Len(s)) /\ ToSet(QF) = ToSet(PF.syms) /\ OneEach(QF)
    BY <1>1, <1>2, <1>3, <1>6, SortedRight DEF TableRead
  <1>8. QV \in Seq(1 .. Len(s)) /\ ToSet(QV) = ToSet(PV.syms) /\ OneEach(QV)
    BY <1>1, <1>2, <1>3, <1>6, SortedRight DEF TableRead
  <1>9. PICK values : values = Addresses(read)
    OBVIOUS
  <1>10. PF \in Parts(values) /\ PV \in Parts(values)
    BY <1>6, <1>9 DEF ReadTo, PartIs
  <1>11. Rereads(s, t, PF, PV, XF, XV, QF, QV)
    BY DEF TableRead
  <1>12. /\ Heap(t) /\ Kept(s, t, 1 .. Len(s))
         /\ RowsRead(s, t, PF, XF) /\ XF \in Parts(values)
         /\ RowsRead(s, t, PV, XV) /\ XV \in Parts(values)
         /\ ToSet(XF.syms) \cap ToSet(XV.syms) = {}
    <2>1. OrderOf(QF, s, PF) /\ OrderOf(QV, s, PV)
      BY <1>7, <1>8 DEF OrderOf
    <2>2. BothReread(s, t, values, PF, PV, XF, XV)
      BY <1>1, <1>10, <1>11, <2>1, SymbolsReread
    <2> QED
      BY <2>2 DEF BothReread
  <1>13. RereadIn(s, t, PF, XF, read, "fun")
    BY <1>1, <1>2, <1>3, <1>6, <1>9, <1>12, RereadPart
  <1>14. RereadIn(s, t, PV, XV, read, "var")
    BY <1>1, <1>2, <1>3, <1>6, <1>9, <1>12, RereadPart
  <1>15. /\ Owned(PF) \in SUBSET (1 .. Len(s)) /\ Mine(PF) \in SUBSET Owned(PF)
         /\ Owned(PV) \in SUBSET (1 .. Len(s)) /\ Mine(PV) \in SUBSET Owned(PV)
    <2>1. PICK m : m = Len(SymbolTable(read.elf))
      OBVIOUS
    <2>2. PartIs(s, PF, read, "fun", m, e, "elf") /\ PartIs(s, PV, read, "var", m, e, "elf")
      BY <1>6, <2>1 DEF ReadTo
    <2>3. Owned(PF) \in SUBSET (1 .. Len(s)) /\ Mine(PF) \in SUBSET Owned(PF)
      BY <1>1, <2>2, OwnedIn
    <2>4. Owned(PV) \in SUBSET (1 .. Len(s)) /\ Mine(PV) \in SUBSET Owned(PV)
      BY <1>1, <2>2, OwnedIn
    <2> QED
      BY <2>3, <2>4
  <1>16. Apart(PF, PV) /\ Apart(PV, PF)
    <2>1. <<f, "fun">> # <<f, "var">> /\ <<f, "var">> # <<f, "fun">>
      OBVIOUS
    <2>2. Apart(c[f]["fun"], c[f]["var"]) /\ Apart(c[f]["var"], c[f]["fun"])
      BY <1>1, <1>4, <2>1 DEF PartsApart
    <2> QED
      BY <2>2 DEF TableRead
  <1>17. Apart(XF, XV)
    BY <1>1, <1>12, <1>15, <1>16, RereadApart
  <1>18. Apart(XV, XF)
    <2>1. ToSet(XV.syms) \cap ToSet(XF.syms) = {}
      BY <1>12
    <2> QED
      BY <1>1, <1>12, <1>15, <1>16, <2>1, RereadApart
  <1>19. /\ CorporaIn(w, d) /\ d[f]["fun"] = XF /\ d[f]["var"] = XV
         /\ \A g \in DOMAIN w.files : g # f => \A k \in SymbolKinds : d[g][k] = c[g][k]
    <2>1. PICK Y : Y = [k \in SymbolKinds |-> IF k = "fun" THEN XF ELSE XV]
      OBVIOUS
    <2>2. d = [c EXCEPT ![f] = Y] /\ DOMAIN c = DOMAIN w.files
      BY <1>1, <2>1 DEF TableRead, CorporaIn
    <2>3. d = [g \in DOMAIN w.files |-> IF g = f THEN Y ELSE c[g]]
      BY <1>1, <2>2
    <2>4. Y["fun"] = XF /\ Y["var"] = XV /\ Y = [k \in SymbolKinds |-> Y[k]]
      BY <1>4, <2>1
    <2>5. \A g \in DOMAIN w.files : c[g] = [k \in SymbolKinds |-> c[g][k]]
      BY <1>1 DEF CorporaIn
    <2>6. \A g \in DOMAIN w.files : d[g] = [k \in SymbolKinds |-> d[g][k]]
      BY <2>3, <2>4, <2>5
    <2>7. CorporaIn(w, d)
      BY <2>3, <2>6 DEF CorporaIn
    <2> QED
      BY <1>1, <2>3, <2>4, <2>7
  <1>20. Grown(s, t, MineOf(c, f))
    BY <1>12 DEF Grown, Kept
  <1>21. \A k \in SymbolKinds : /\ Owned(d[f][k]) \subseteq Owned(c[f][k]) \cup NewIn(s, t)
                                /\ Mine(d[f][k]) \subseteq Mine(c[f][k]) \cup NewIn(s, t)
    <2>1. /\ Owned(XF) \subseteq Owned(PF) \cup NewIn(s, t) /\ Mine(XF) \subseteq Mine(PF) \cup NewIn(s, t)
          /\ Owned(XV) \subseteq Owned(PV) \cup NewIn(s, t) /\ Mine(XV) \subseteq Mine(PV) \cup NewIn(s, t)
      BY <1>13, <1>14 DEF RereadIn
    <2>2. PF = c[f]["fun"] /\ PV = c[f]["var"]
      BY DEF TableRead
    <2>3. \A k \in SymbolKinds : k = "fun" \/ k = "var"
      BY <1>4
    <2> QED
      BY <1>19, <2>1, <2>2, <2>3
  <1>22. StepOf(w, s, c, t, d, f)
    BY <1>12, <1>17, <1>18, <1>19, <1>20, <1>21 DEF StepOf
  <1>23. PhaseRight(w, f, "aliases", n) /\ "aliases" \in Reading
    BY <1>1 DEF PhaseRight, Reading
  <1>24. FilePart(w, t, XF, f, "fun", f, "aliases", n)
    <2>1. /\ PartIs(t, XF, w.files[f], "fun", Len(SymbolTable(w.files[f].elf)), 0, "xml")
          /\ AllDeclared(t, XF, "fun", w.files[f].dies, 0)
          /\ Fresh(XF)
      BY <1>3, <1>13 DEF RereadIn
    <2> QED
      BY <2>1, AliasesPart
  <1>25. FilePart(w, t, XV, f, "var", f, "aliases", n)
    <2>1. /\ PartIs(t, XV, w.files[f], "var", Len(SymbolTable(w.files[f].elf)), 0, "xml")
          /\ AllDeclared(t, XV, "var", w.files[f].dies, 0)
          /\ Fresh(XV)
      BY <1>3, <1>14 DEF RereadIn
    <2> QED
      BY <2>1, AliasesPart
  <1>26. \A k \in SymbolKinds : FilePart(w, t, d[f][k], f, k, f, "aliases", n)
    <2>1. \A k \in SymbolKinds : k = "fun" \/ k = "var"
      BY <1>4
    <2> QED
      BY <1>19, <1>24, <1>25, <2>1
  <1> QED
    BY <1>22, <1>23, <1>26, StepWithin

LEMMA SymbolSkipped ==
    ASSUME NEW w \in Worlds, w.tool # "abisym", NEW s, NEW c, NEW f, NEW n,
           Early(w, s, c, f, "symbols", n), n <= Len(SymbolTable(w.files[f].elf)),
           NEW entry, entry = SymbolTable(w.files[f].elf)[n],
           KindOf(entry) \notin SymbolKinds \/ (IsDefined(entry) /\ ~IsPublic(entry))
    PROVE  Early(w, s, c, f, "symbols", n + 1)
  <1>1. /\ PhaseRight(w, f, "symbols", n + 1) /\ n - 1 \in Nat /\ n = (n - 1) + 1
        /\ GoodRead(w.files[f])
        /\ \A k \in SymbolKinds : FilePart(w, s, c[f][k], f, k, f, "symbols", n)
    BY SymbolsPhase
  <1>2. PICK m \in Nat : n = m + 1
    BY <1>1
  <1>3. PICK after : after = n + 1
    OBVIOUS
  <1>4. n \notin PublicEntries(w.files[f].elf)
    BY DEF PublicEntries
  <1>5. \A k \in SymbolKinds : FilePart(w, s, c[f][k], f, k, f, "symbols", after)
    <2> TAKE k \in SymbolKinds
    <2>1. FilePart(w, s, c[f][k], f, k, f, "symbols", n)
      BY <1>1
    <2>2. ~(n \in PublicEntries(w.files[f].elf) /\ KindOf(SymbolTable(w.files[f].elf)[n]) = k)
      BY <1>4
    <2> QED
      BY <1>1, <1>2, <1>3, <2>1, <2>2, MoreEntries
  <1>6. "symbols" \in Reading /\ PhaseRight(w, f, "symbols", after)
    BY <1>1, <1>3 DEF Reading
  <1>7. Early(w, s, c, f, "symbols", after)
    BY <1>5, <1>6, OnlyPhase
  <1> QED
    BY <1>3, <1>7

LEMMA SymbolsDone ==
    ASSUME NEW w \in Worlds, w.tool # "abisym", NEW s, NEW c, NEW f, NEW n,
           Early(w, s, c, f, "symbols", n), n > Len(SymbolTable(w.files[f].elf))
    PROVE  Early(w, s, c, f, "dies", 1)
  <1>1. /\ PhaseRight(w, f, "symbols", n) /\ f \in DOMAIN w.files
        /\ \A k \in SymbolKinds : FilePart(w, s, c[f][k], f, k, f, "symbols", n)
    BY DEF Early, PhaseRight
  <1>2. GoodRead(w.files[f])
    BY <1>1, FilesGood
  <1>3. Len(SymbolTable(w.files[f].elf)) \in Nat /\ Len(w.files[f].dies) \in Nat
    BY <1>2, TableIs
  <1>4. n - 1 = Len(SymbolTable(w.files[f].elf))
    BY <1>1, <1>3 DEF PhaseRight
  <1>5. \A k \in SymbolKinds : FilePart(w, s, c[f][k], f, k, f, "dies", 1)
    <2> TAKE k \in SymbolKinds
    <2>1. /\ PartIs(s, c[f][k], w.files[f], k, n - 1, 0, "elf")
          /\ AllDeclared(s, c[f][k], k, w.files[f].dies, 0)
          /\ Fresh(c[f][k]) /\ c[f][k].unlinked = {}
      BY <1>1, SymbolsPart
    <2>2. ReadTo(s, c[f][k], w.files[f], k, 0, "elf")
      BY <1>4, <2>1 DEF ReadTo
    <2>3. "elf" = SourceIn("dies") /\ "dies" \in {"dies", "decls"} /\ "dies" # "decls" /\ 0 = 1 - 1
      BY DEF SourceIn
    <2> QED
      BY <2>2, <2>3, DiesPart
  <1>6. "dies" \in Reading /\ PhaseRight(w, f, "dies", 1)
    BY <1>1, <1>3 DEF Reading, PhaseRight
  <1> QED
    BY <1>5, <1>6, OnlyPhase

LEMMA AliasesDone ==
    ASSUME NEW w \in Worlds, w.tool # "abisym", NEW s, NEW c, NEW f, NEW n,
           Early(w, s, c, f, "aliases", n), \A k \in SymbolKinds : c[f][k].unlinked = {}
    PROVE  Early(w, s, c, f, "decls", 1)
  <1>1. /\ PhaseRight(w, f, "aliases", n) /\ f \in DOMAIN w.files /\ w.files[f].xml
        /\ \A k \in SymbolKinds : FilePart(w, s, c[f][k], f, k, f, "aliases", n)
    BY DEF Early, PhaseRight
  <1>2. GoodRead(w.files[f])
    BY <1>1, FilesGood
  <1>3. Len(w.files[f].dies) \in Nat
    BY <1>2, TableIs
  <1>5. \A k \in SymbolKinds : FilePart(w, s, c[f][k], f, k, f, "decls", 1)
    <2> TAKE k \in SymbolKinds
    <2>1. /\ PartIs(s, c[f][k], w.files[f], k, Len(SymbolTable(w.files[f].elf)), 0, "xml")
          /\ AllDeclared(s, c[f][k], k, w.files[f].dies, 0)
          /\ Fresh(c[f][k])
      BY <1>1, AliasesPart
    <2>2. ReadTo(s, c[f][k], w.files[f], k, 0, "xml")
      BY <2>1 DEF ReadTo
    <2>3. "xml" = SourceIn("decls") /\ "decls" \in {"dies", "decls"} /\ 0 = 1 - 1
      BY DEF SourceIn
    <2> QED
      BY <1>1, <2>2, <2>3, DiesPart
  <1>6. "decls" \in Reading /\ PhaseRight(w, f, "decls", 1)
    BY <1>1, <1>3 DEF Reading, PhaseRight
  <1> QED
    BY <1>5, <1>6, OnlyPhase

-----------------------------------------------------------------------------
(* A row's aliases are linked                                               *)

XmlPart(s, part, read, k, m) ==
    /\ GoodRead(read) /\ Heap(s) /\ part \in Parts(Addresses(read))
    /\ PartRight(s, part, read.elf, k, m, "xml")

LEMMA XmlPartRows ==
    ASSUME NEW s, NEW part, NEW read, NEW k, NEW m, XmlPart(s, part, read, k, m)
    PROVE  /\ RowsRight(s, part) /\ part.syms \in Seq(Nat) /\ part.written \in Seq(Nat)
           /\ Len(part.syms) = Len(part.written) /\ Len(part.written) \in Nat
           /\ SymbolsAre(s, ToSet(part.written), read.elf, Loaded(read.elf, k, m))
           /\ DOMAIN part.mainAt = Addresses(read)
  <1>1. part.syms \in Seq(Nat) /\ part.written \in Seq(Nat) /\ DOMAIN part.mainAt = Addresses(read)
    BY DEF XmlPart, Parts
  <1>2. RowsRight(s, part) /\ SymbolsAre(s, ToSet(part.written), read.elf, Loaded(read.elf, k, m))
    BY DEF XmlPart, PartRight, Firsts
  <1> QED
    BY <1>1, <1>2, LenProperties DEF RowsRight

LEMMA RowIs ==
    ASSUME NEW s, NEW part, NEW read, NEW k, NEW m, XmlPart(s, part, read, k, m),
           NEW r \in 1 .. Len(part.written)
    PROVE  \E e \in Loaded(read.elf, k, m) : /\ Is(s, part.written[r], read.elf, e)
                                            /\ Is(s, part.syms[r], read.elf, e)
  <1>1. /\ RowsRight(s, part) /\ part.written \in Seq(Nat) /\ Len(part.syms) = Len(part.written)
        /\ SymbolsAre(s, ToSet(part.written), read.elf, Loaded(read.elf, k, m))
    BY XmlPartRows
  <1>2. part.written[r] \in ToSet(part.written)
    BY <1>1, InToSet
  <1>3. PICK e \in Loaded(read.elf, k, m) : Is(s, part.written[r], read.elf, e)
    BY <1>1, <1>2 DEF SymbolsAre
  <1>4. SameSymbol(s[part.syms[r]], s[part.written[r]])
    BY <1>1 DEF RowsRight
  <1>5. Is(s, part.syms[r], read.elf, e)
    BY <1>3, <1>4 DEF Is, SameSymbol
  <1> QED
    BY <1>3, <1>5

LEMMA RowOfSymbol ==
    ASSUME NEW s, NEW part, NEW read, NEW k, NEW m, XmlPart(s, part, read, k, m),
           NEW i \in ToSet(part.syms)
    PROVE  \E r \in 1 .. Len(part.written) : i = part.syms[r]
  <1>1. part.syms \in Seq(Nat) /\ Len(part.syms) = Len(part.written)
    BY XmlPartRows
  <1> QED
    BY <1>1, LenProperties DEF ToSet

\* Two symbols that were read back have two ids.
LEMMA RowIds ==
    ASSUME NEW s, NEW part, NEW read, NEW k, NEW m, XmlPart(s, part, read, k, m),
           NEW i \in ToSet(part.syms), NEW j \in ToSet(part.syms), Id(s[i]) = Id(s[j])
    PROVE  i = j
  <1>1. PICK a \in 1 .. Len(part.written) : i = part.syms[a]
    BY RowOfSymbol
  <1>2. PICK b \in 1 .. Len(part.written) : j = part.syms[b]
    BY RowOfSymbol
  <1>3. PICK e \in Loaded(read.elf, k, m) : Is(s, part.written[a], read.elf, e) /\ Is(s, i, read.elf, e)
    BY <1>1, RowIs
  <1>4. PICK d \in Loaded(read.elf, k, m) : Is(s, part.written[b], read.elf, d) /\ Is(s, j, read.elf, d)
    BY <1>2, RowIs
  <1>5. e \in PublicEntries(read.elf) /\ d \in PublicEntries(read.elf) /\ GoodRead(read)
    BY DEF Loaded, XmlPart
  <1>6. e = d
    BY <1>3, <1>4, <1>5, SameEntry DEF Is
  <1>7. SameSymbol(s[part.written[a]], s[part.written[b]])
    BY <1>3, <1>4, <1>6 DEF Is, SameSymbol
  <1>8. part.written[a] = part.written[b]
    <2>1. /\ part.written \in Seq(Nat)
          /\ SymbolsAre(s, ToSet(part.written), read.elf, Loaded(read.elf, k, m))
      BY XmlPartRows
    <2>2. part.written[a] \in ToSet(part.written) /\ part.written[b] \in ToSet(part.written)
      BY <2>1, InToSet
    <2> QED
      BY <1>7, <2>1, <2>2 DEF SymbolsAre
  <1>9. OneEach(part.written)
    BY XmlPartRows DEF RowsRight
  <1>10. a = b
    BY <1>8, <1>9 DEF OneEach
  <1> QED
    BY <1>1, <1>2, <1>10

\* The rows of a ring each have a symbol of their own.
LEMMA RetiedRows ==
    ASSUME NEW s, NEW part, NEW read, NEW k, NEW m, XmlPart(s, part, read, k, m),
           NEW L, IsRing(s, L), NEW R, Retied(s, part, L, R), NEW n, n = Len(L)
    PROVE  /\ n \in Nat /\ 1 \in 1 .. n /\ Len(R) = n
           /\ RowsOf(part, R) \in Seq(ToSet(part.syms)) /\ Len(RowsOf(part, R)) = n
           /\ \A j \in 1 .. n : /\ R[j] \in 1 .. Len(part.written) /\ part.written[R[j]] = L[j]
                                /\ RowsOf(part, R)[j] = part.syms[R[j]]
                                /\ part.syms[R[j]] \in ToSet(part.syms)
  <1>1. Len(L) \in Nat /\ Len(L) >= 1
    BY RingParts DEF XmlPart
  <1>2. part.syms \in Seq(Nat) /\ Len(part.syms) = Len(part.written)
    BY XmlPartRows
  <1>3. R \in Seq(1 .. Len(part.written)) /\ Len(R) = n
        /\ \A j \in 1 .. n : part.written[R[j]] = L[j]
    BY DEF Retied
  <1>4. /\ RowsOf(part, R) \in Seq(ToSet(part.syms)) /\ Len(RowsOf(part, R)) = Len(R)
        /\ \A j \in 1 .. Len(R) : /\ R[j] \in 1 .. Len(part.written)
                                  /\ RowsOf(part, R)[j] = part.syms[R[j]]
                                  /\ part.syms[R[j]] \in ToSet(part.syms)
    BY <1>2, <1>3, RowSymbols
  <1> QED
    BY <1>1, <1>3, <1>4

\* Where two rings have a row in common they have the first row in common.
LEMMA RingsMeet ==
    ASSUME NEW s, NEW part, NEW read, NEW k, NEW m, XmlPart(s, part, read, k, m),
           NEW L, IsRing(s, L), NEW R, Retied(s, part, L, R),
           NEW K, IsRing(s, K), NEW Q, Retied(s, part, K, Q),
           NEW i \in 1 .. Len(L), NEW j \in 1 .. Len(K),
           part.syms[R[i]] = part.syms[Q[j]]
    PROVE  R[1] = Q[1]
  <1>1. PICK n : n = Len(L)
    OBVIOUS
  <1>2. PICK o : o = Len(K)
    OBVIOUS
  <1>3. /\ 1 \in 1 .. n
        /\ \A x \in 1 .. n : R[x] \in 1 .. Len(part.written) /\ part.written[R[x]] = L[x]
    BY <1>1, RetiedRows
  <1>4. /\ 1 \in 1 .. o
        /\ \A x \in 1 .. o : Q[x] \in 1 .. Len(part.written) /\ part.written[Q[x]] = K[x]
    BY <1>2, RetiedRows
  <1>5. /\ OneEach(part.syms) /\ OneEach(part.written) /\ Len(part.syms) = Len(part.written)
    BY XmlPartRows DEF RowsRight
  <1>6. R[i] = Q[j]
    BY <1>1, <1>2, <1>3, <1>4, <1>5 DEF OneEach
  <1>7. L[i] = K[j]
    BY <1>1, <1>2, <1>3, <1>4, <1>6
  <1>8. s[L[i]].main = L[1] /\ s[K[j]].main = K[1]
    BY DEF IsRing
  <1>9. part.written[R[1]] = part.written[Q[1]]
    BY <1>3, <1>4, <1>7, <1>8
  <1> QED
    BY <1>3, <1>4, <1>5, <1>9 DEF OneEach

LEMMA RingToLink ==
    ASSUME NEW s, NEW part, NEW read, NEW k, NEW m, XmlPart(s, part, read, k, m),
           NEW L, IsRing(s, L), NEW R, Retied(s, part, L, R), NEW r, r = R[1], r \in part.unlinked,
           NEW LL, LL = RowsOf(part, R), NEW ids, ids = AliasIds(s, part.written[r])
    PROVE  ToLink(s, part, r, LL, ids)
  <1>1. PICK n : n = Len(L)
    OBVIOUS
  <1>2. /\ n \in Nat /\ 1 \in 1 .. n /\ Len(R) = n
        /\ LL \in Seq(ToSet(part.syms)) /\ Len(LL) = n
        /\ \A j \in 1 .. n : /\ R[j] \in 1 .. Len(part.written) /\ part.written[R[j]] = L[j]
                             /\ LL[j] = part.syms[R[j]]
                             /\ part.syms[R[j]] \in ToSet(part.syms)
    BY <1>1, RetiedRows
  <1>3. RowsRight(s, part)
    BY XmlPartRows
  <1>4. ToSet(part.syms) \in SUBSET (1 .. Len(s)) /\ OneEach(part.syms) /\ Len(part.syms) = Len(part.written)
    BY <1>3 DEF RowsRight
  <1>5. LL \in Seq(1 .. Len(s))
    BY <1>2, <1>4, SeqWider
  <1>6. OneEach(LL)
    <2> SUFFICES ASSUME NEW i \in 1 .. n, NEW j \in 1 .. n, LL[i] = LL[j]
                 PROVE  i = j
      BY <1>2 DEF OneEach
    <2>1. R[i] = R[j]
      <3>1. PICK a \in 1 .. Len(part.written), b \in 1 .. Len(part.written) : a = R[i] /\ b = R[j]
        BY <1>2
      <3>2. LL[i] = part.syms[a] /\ LL[j] = part.syms[b]
        BY <1>2, <3>1
      <3>3. part.syms[a] = part.syms[b]
        BY <3>2
      <3>4. a \in 1 .. Len(part.syms) /\ b \in 1 .. Len(part.syms)
        BY <1>4, <3>1
      <3>5. OneEach(part.syms)
        BY <1>4
      <3>6. a = b
        BY <3>3, <3>4, <3>5 DEF OneEach
      <3> QED
        BY <3>1, <3>6
    <2>2. L[i] = L[j]
      BY <1>2, <2>1
    <2> QED
      BY <1>1, <2>2 DEF IsRing, OneEach
  <1>7. \A j \in 1 .. n : Alone(s, LL[j])
    BY <1>1, <1>2 DEF Retied
  <1>8. LL # <<>> /\ ToSet(LL) \subseteq ToSet(part.syms) /\ part.syms[r] = LL[1]
    BY <1>2 DEF ToSet
  <1>9. \A i, j \in ToSet(part.syms) : Id(s[i]) = Id(s[j]) => i = j
    BY RowIds
  <1>10. PICK o \in Nat : o = n - 1
    BY <1>2
  <1>11. Len(ids) = o /\ \A a \in 1 .. o : ids[a] = Id(s[L[1 + a]])
    <2>1. part.written[r] = L[1] /\ s[L[1]].main = L[1]
      BY <1>1, <1>2 DEF IsRing
    <2>2. 1 \in 1 .. Len(L) /\ Heap(s)
      BY <1>1, <1>2 DEF XmlPart
    <2>3. NextAliases(s, L[1]) = [x \in 1 .. Len(L) - 1 |-> L[1 + x]]
      BY <2>2, RingAliases
    <2>4. NextAliases(s, L[1]) = [x \in 1 .. o |-> L[1 + x]]
      BY <1>1, <1>10, <2>3
    <2>5. ids = [a \in DOMAIN NextAliases(s, L[1]) |-> Id(s[NextAliases(s, L[1])[a]])]
      BY <2>1 DEF AliasIds
    <2>6. ids = [a \in 1 .. o |-> Id(s[L[1 + a]])]
      BY <2>4, <2>5
    <2> QED
      BY <1>10, <2>6
  <1>12. \A a \in 1 .. o : ids[a] = Id(s[LL[a + 1]])
    <2> TAKE a \in 1 .. o
    <2>1. PICK j \in 1 .. n : j = a + 1 /\ j = 1 + a
      BY <1>2, <1>10
    <2>2. SameSymbol(s[LL[j]], s[L[j]])
      BY <1>2, <1>4, <1>3 DEF RowsRight
    <2>3. Id(s[LL[j]]) = Id(s[L[j]])
      BY <2>2, SameId
    <2> QED
      BY <1>11, <2>1, <2>3
  <1> QED
    BY <1>2, <1>4, <1>5, <1>6, <1>7, <1>8, <1>9, <1>10, <1>11, <1>12 DEF ToLink, XmlPart

\* The rows of a ring after the aliases of the row r have been linked.
RowLinkedIn(s, t, part, X, r) ==
    /\ Heap(t) /\ SameBut(s, t, ToSet(part.syms))
    /\ \A L, R : IsRing(s, L) /\ Retied(s, part, L, R) => Retied(t, X, L, R)

\* X is part but for the rows to link.
OneLinked(part, X, r) == X = [part EXCEPT !.unlinked = part.unlinked \ {r}]

LEMMA OneLinkedIs ==
    ASSUME NEW values, NEW part \in Parts(values), NEW X, NEW r, OneLinked(part, X, r)
    PROVE  /\ X \in Parts(values) /\ X.unlinked = part.unlinked \ {r}
           /\ X.syms = part.syms /\ X.written = part.written /\ X.mainAt = part.mainAt
           /\ X.decls = part.decls /\ X.undefined = part.undefined
           /\ X.keep = part.keep /\ X.toSuppress = part.toSuppress /\ X.toKeep = part.toKeep
           /\ X.unreferenced = part.unreferenced
  <1>1. PICK A, B, C, M : A = Seq(Ids) /\ B = Seq(SUBSET STRING) /\ C = Seq(Nat) /\ M = [values -> Nat]
    OBVIOUS
  <1>2. Parts(values) = [syms : C, undefined : C, mainAt : M, decls : C, keep : A, toSuppress : B,
                         toKeep : B, unreferenced : SUBSET Nat, written : C, unlinked : SUBSET Nat]
    BY <1>1 DEF Parts
  <1>3. PICK U : U = part.unlinked \ {r}
    OBVIOUS
  <1>4. X = [part EXCEPT !.unlinked = U]
    BY <1>3 DEF OneLinked
  <1>5. U \in SUBSET Nat
    BY <1>2, <1>3
  <1>6. X \in Parts(values)
    BY <1>2, <1>4, <1>5
  <1> QED
    BY <1>2, <1>3, <1>4, <1>6

\* A ring that has none of the rows linked.
LEMMA RingUnlinked ==
    ASSUME NEW s, NEW part, NEW read, NEW k, NEW m, XmlPart(s, part, read, k, m), NEW r,
           NEW X, OneLinked(part, X, r), NEW t, Heap(t), NEW S, SameBut(s, t, S),
           NEW L, IsRing(s, L), NEW R, Retied(s, part, L, R), R[1] # r,
           \A j \in 1 .. Len(L) : part.syms[R[j]] \notin S
    PROVE  Retied(t, X, L, R)
  <1>1. PICK n : n = Len(L)
    OBVIOUS
  <1>2. /\ n \in Nat /\ 1 \in 1 .. n /\ Len(R) = n
        /\ RowsOf(part, R) \in Seq(ToSet(part.syms)) /\ Len(RowsOf(part, R)) = n
        /\ \A j \in 1 .. n : /\ R[j] \in 1 .. Len(part.written) /\ part.written[R[j]] = L[j]
                             /\ RowsOf(part, R)[j] = part.syms[R[j]]
                             /\ part.syms[R[j]] \in ToSet(part.syms)
    BY <1>1, RetiedRows
  <1>3. /\ X.unlinked = part.unlinked \ {r} /\ X.syms = part.syms /\ X.written = part.written
    BY OneLinkedIs DEF XmlPart
  <1>4. Len(s) \in Nat /\ Len(t) = Len(s) /\ ToSet(part.syms) \in SUBSET (1 .. Len(s))
    BY HeapLength, XmlPartRows DEF SameBut, XmlPart, RowsRight
  <1>5. \A j \in 1 .. n : t[part.syms[R[j]]] = s[part.syms[R[j]]]
    BY <1>1, <1>2, <1>4 DEF SameBut
  <1>6. RowsOf(X, R) = RowsOf(part, R)
    BY <1>3 DEF RowsOf
  <1>7. R[1] \in X.unlinked <=> R[1] \in part.unlinked
    BY <1>3
  <1>8. R[1] \in X.unlinked => \A j \in 1 .. n : Alone(t, X.syms[R[j]])
    BY <1>1, <1>3, <1>4, <1>5, <1>7 DEF Retied, Alone
  <1>9. R[1] \notin X.unlinked => IsRing(t, RowsOf(X, R))
    <2>1. SUFFICES ASSUME R[1] \notin X.unlinked
                   PROVE  IsRing(t, RowsOf(part, R))
      BY <1>6
    <2>2. PICK LL : LL = RowsOf(part, R)
      OBVIOUS
    <2>3. IsRing(s, LL)
      BY <1>7, <2>1, <2>2 DEF Retied
    <2>4. \A i \in ToSet(LL) : t[i] = s[i]
      <3> TAKE i \in ToSet(LL)
      <3>1. PICK j \in 1 .. n : i = LL[j]
        BY <1>2, <2>2, LenProperties DEF ToSet
      <3> QED
        BY <1>2, <1>5, <2>2, <3>1
    <2>5. Len(s) <= Len(t) /\ Len(t) \in Nat
      BY <1>4
    <2>6. IsRing(t, LL)
      BY <1>4, <2>3, <2>4, <2>5, RingKept
    <2> QED
      BY <2>2, <2>6
  <1> QED
    BY <1>1, <1>3, <1>8, <1>9 DEF Retied

\* The rows of the ring of the row.
LEMMA RingLinked ==
    ASSUME NEW s, NEW part, NEW read, NEW k, NEW m, XmlPart(s, part, read, k, m), NEW r,
           NEW X, OneLinked(part, X, r), NEW L, NEW R, Retied(s, part, L, R), R[1] = r,
           NEW t, IsRing(t, RowsOf(part, R))
    PROVE  Retied(t, X, L, R)
  <1>1. /\ X.unlinked = part.unlinked \ {r} /\ X.syms = part.syms /\ X.written = part.written
    BY OneLinkedIs DEF XmlPart
  <1>2. RowsOf(X, R) = RowsOf(part, R)
    BY <1>1 DEF RowsOf
  <1> QED
    BY <1>1, <1>2 DEF Retied

\* The ring of the symbol that a row was written of.
LEMMA RingOfRow ==
    ASSUME NEW s, NEW part, NEW read, NEW k, NEW m, XmlPart(s, part, read, k, m),
           NEW r \in 1 .. Len(part.written), NEW i, i = part.written[r], s[i].main = i
    PROVE  \E L, R : IsRing(s, L) /\ Retied(s, part, L, R) /\ R[1] = r
  <1>1. PICK e \in Loaded(read.elf, k, m) : Is(s, i, read.elf, e)
    BY RowIs
  <1>2. PICK v : v = SymbolTable(read.elf)[e].value
    OBVIOUS
  <1>3. e \in At(read.elf, k, v)
    BY <1>2 DEF Loaded, At
  <1>4. v \in DOMAIN part.mainAt
    <2>1. e \in 1 .. Len(SymbolTable(read.elf))
      BY <1>3, AtIs DEF XmlPart
    <2>2. part \in Parts(Addresses(read)) /\ GoodRead(read)
      BY DEF XmlPart
    <2> QED
      BY <1>2, <2>1, <2>2, AddressesKnown
  <1>5. /\ RowsRight(s, part) /\ part.written \in Seq(Nat)
    BY XmlPartRows
  <1>6. i \in ToSet(part.written)
    BY <1>5, InToSet
  <1>7. i \in Group(s, ToSet(part.written), read.elf, k, v)
    BY <1>1, <1>3, <1>6 DEF Group
  <1>8. PICK L : RingIsRight(s, part, read.elf, k, v, "xml", L)
    <2>1. AddressRight(s, part, read.elf, k, v, "xml")
      BY <1>4 DEF XmlPart, PartRight
    <2>2. Firsts(part, "xml") = ToSet(part.written)
      BY DEF Firsts
    <2> QED
      BY <1>7, <2>1, <2>2 DEF AddressRight
  <1>9. /\ IsRing(s, L) /\ ToSet(L) = Group(s, ToSet(part.written), read.elf, k, v)
        /\ \E R : Retied(s, part, L, R)
    BY <1>8 DEF RingIsRight, RingAt, Firsts
  <1>10. PICK R : Retied(s, part, L, R)
    BY <1>9
  <1>11. PICK n : n = Len(L)
    OBVIOUS
  <1>12. /\ n \in Nat /\ 1 \in 1 .. n
         /\ \A j \in 1 .. n : R[j] \in 1 .. Len(part.written) /\ part.written[R[j]] = L[j]
    BY <1>9, <1>10, <1>11, RetiedRows
  <1>13. PICK j \in 1 .. n : i = L[j]
    <2>1. i \in ToSet(L) /\ DOMAIN L = 1 .. n
      BY <1>7, <1>9, <1>11, RingParts DEF XmlPart
    <2> QED
      BY <2>1 DEF ToSet
  <1>14. i = L[1]
    BY <1>9, <1>11, <1>13 DEF IsRing
  <1>15. part.written[R[1]] = part.written[r] /\ R[1] \in 1 .. Len(part.written)
    BY <1>12, <1>14
  <1>16. OneEach(part.written)
    BY <1>5 DEF RowsRight
  <1>17. R[1] = r
    BY <1>15, <1>16 DEF OneEach
  <1> QED
    BY <1>9, <1>10, <1>17

\* Without aliases nothing is linked.
LEMMA NoneLinked ==
    ASSUME NEW heap, NEW part, NEW r, NEW ids, ids = <<>>
    PROVE  Linked(heap, part, r, ids) = [heap |-> heap, ok |-> TRUE]
  <1>1. PICK A : A = [heap |-> heap, ok |-> TRUE]
    OBVIOUS
  <1>2. Len(ids) = 0 /\ 0 .. 0 = {0}
    OBVIOUS
  <1>3. PICK g : g = [n \in {0} |-> A]
    OBVIOUS
  <1>4. IsLinked(g, heap, part, r, ids)
    <2>1. [n \in {0} |-> IF n = 0 THEN A ELSE LinkTo(g[n - 1], part, r, ids[n])] = [n \in {0} |-> A]
      OBVIOUS
    <2> QED
      BY <1>1, <1>2, <1>3, <2>1 DEF IsLinked
  <1>5. PICK f : f = CHOOSE x : IsLinked(x, heap, part, r, ids)
    OBVIOUS
  <1>6. IsLinked(f, heap, part, r, ids)
    BY <1>4, <1>5
  <1>7. f = [n \in {0} |-> IF n = 0 THEN A ELSE LinkTo(f[n - 1], part, r, ids[n])]
    BY <1>1, <1>2, <1>6 DEF IsLinked
  <1>8. f[0] = A
    BY <1>7
  <1>9. Linked(heap, part, r, ids) = f[Len(ids)]
    BY <1>5 DEF Linked, IsLinked
  <1> QED
    BY <1>1, <1>2, <1>8, <1>9

LEMMA RowLinked ==
    ASSUME NEW s, NEW part, NEW read, NEW k, NEW m, XmlPart(s, part, read, k, m),
           NEW r \in part.unlinked, NEW X, OneLinked(part, X, r),
           NEW end, end = Linked(s, part, r, AliasIds(s, part.written[r]))
    PROVE  RowLinkedIn(s, end.heap, part, X, r) /\ end.ok
  <1>1. /\ RowsRight(s, part) /\ part.written \in Seq(Nat) /\ r \in 1 .. Len(part.written)
        /\ Heap(s)
    BY XmlPartRows DEF RowsRight, XmlPart
  <1>2. PICK i : i = part.written[r]
    OBVIOUS
  <1>3. PICK ids : ids = AliasIds(s, part.written[r])
    OBVIOUS
  <1>4. PICK t : t = end.heap
    OBVIOUS
  <1>5. CASE s[i].main = i
    <2>1. PICK K, Q : IsRing(s, K) /\ Retied(s, part, K, Q) /\ Q[1] = r
      BY <1>1, <1>2, <1>5, RingOfRow
    <2>2. PICK KK : KK = RowsOf(part, Q)
      OBVIOUS
    <2>3. ToLink(s, part, r, KK, ids)
      BY <1>3, <2>1, <2>2, RingToLink
    <2>4. end = Linked(s, part, r, ids)
      BY <1>3
    <2>5. end.ok /\ Heap(end.heap) /\ SameBut(s, end.heap, ToSet(KK))
      BY <2>3, <2>4, LinkedIs
    <2>6. ToSet(KK) \subseteq ToSet(part.syms)
      BY <2>3 DEF ToLink
    <2>7. SameBut(s, t, ToSet(KK)) /\ Heap(t)
      BY <1>4, <2>5
    <2>8. SameBut(s, t, ToSet(part.syms))
      BY <2>6, <2>7 DEF SameBut
    <2>9. ASSUME NEW L, NEW R, IsRing(s, L), Retied(s, part, L, R)
          PROVE  Retied(t, X, L, R)
      <3>1. CASE R[1] = r
        <4>1. PICK LL : LL = RowsOf(part, R)
          OBVIOUS
        <4>2. r = R[1] /\ r \in part.unlinked
          BY <3>1
        <4>3. ToLink(s, part, r, LL, ids)
          BY <1>3, <2>9, <4>1, <4>2, RingToLink
        <4>4. IsRing(end.heap, LL)
          BY <2>4, <4>3, LinkedIs
        <4>5. IsRing(t, RowsOf(part, R))
          BY <1>4, <4>1, <4>4
        <4> QED
          BY <2>9, <3>1, <4>5, RingLinked
      <3>2. CASE R[1] # r
        <4>1. \A j \in 1 .. Len(L) : part.syms[R[j]] \notin ToSet(KK)
          <5> SUFFICES ASSUME NEW j \in 1 .. Len(L), part.syms[R[j]] \in ToSet(KK)
                       PROVE  FALSE
            OBVIOUS
          <5>1. PICK n : n = Len(K)
            OBVIOUS
          <5>2. /\ KK \in Seq(ToSet(part.syms)) /\ Len(KK) = n
                /\ \A x \in 1 .. n : KK[x] = part.syms[Q[x]]
            BY <2>1, <2>2, <5>1, RetiedRows
          <5>3. PICK x \in 1 .. n : KK[x] = part.syms[R[j]]
            BY <5>2, LenProperties DEF ToSet
          <5>4. x \in 1 .. Len(K) /\ part.syms[R[j]] = part.syms[Q[x]]
            BY <5>1, <5>2, <5>3
          <5>5. R[1] = Q[1]
            BY <2>1, <2>9, <5>4, RingsMeet
          <5> QED
            BY <2>1, <3>2, <5>5
        <4> QED
          BY <2>7, <2>9, <3>2, <4>1, RingUnlinked
      <3> QED
        BY <3>1, <3>2
    <2> QED
      BY <1>4, <2>5, <2>7, <2>8, <2>9 DEF RowLinkedIn
  <1>6. CASE s[i].main # i
    <2>1. ids = <<>>
      BY <1>2, <1>3, <1>6 DEF AliasIds
    <2>2. end.heap = s /\ end.ok
      <3>1. end = Linked(s, part, r, <<>>)
        BY <1>3, <2>1
      <3>2. end = [heap |-> s, ok |-> TRUE]
        BY <3>1, NoneLinked
      <3> QED
        BY <3>2
    <2>3. SameBut(s, s, ToSet(part.syms))
      BY DEF SameBut, SameSymbol
    <2>4. ASSUME NEW L, NEW R, IsRing(s, L), Retied(s, part, L, R)
          PROVE  Retied(s, X, L, R)
      <3>1. PICK n : n = Len(L)
        OBVIOUS
      <3>2. 1 \in 1 .. n /\ part.written[R[1]] = L[1]
        BY <2>4, <3>1, RetiedRows
      <3>3. s[L[1]].main = L[1]
        BY <2>4, <3>1, <3>2 DEF IsRing
      <3>4. R[1] # r
        BY <1>2, <1>6, <3>2, <3>3
      <3>5. SameBut(s, s, {})
        BY DEF SameBut, SameSymbol
      <3>6. \A j \in 1 .. Len(L) : part.syms[R[j]] \notin {}
        OBVIOUS
      <3> QED
        BY <1>1, <2>4, <3>4, <3>5, <3>6, RingUnlinked
    <2> QED
      BY <1>1, <2>2, <2>3, <2>4 DEF RowLinkedIn
  <1> QED
    BY <1>5, <1>6

LinkedIn(s, t, part, X, read, k, m) ==
    /\ PartIs(t, X, read, k, m, 0, "xml") /\ AllDeclared(t, X, k, read.dies, 0) /\ Fresh(X)
    /\ PartStep(s, t, part, X)

LEMMA LinkedPart ==
    ASSUME NEW s, NEW part, NEW read, NEW k, NEW m, NEW t, NEW X, NEW r,
           GoodRead(read), Heap(s), PartIs(s, part, read, k, m, 0, "xml"), Fresh(part),
           OneLinked(part, X, r), RowLinkedIn(s, t, part, X, r)
    PROVE  LinkedIn(s, t, part, X, read, k, m)
  <1>1. XmlPart(s, part, read, k, m)
    BY DEF PartIs, XmlPart
  <1>2. PICK values : values = Addresses(read)
    OBVIOUS
  <1>3. part \in Parts(values) /\ PartRight(s, part, read.elf, k, m, "xml")
    BY <1>2 DEF PartIs
  <1>4. /\ X \in Parts(values) /\ X.unlinked = part.unlinked \ {r}
        /\ X.syms = part.syms /\ X.written = part.written /\ X.mainAt = part.mainAt
        /\ X.decls = part.decls /\ X.undefined = part.undefined
        /\ X.keep = part.keep /\ X.toSuppress = part.toSuppress /\ X.toKeep = part.toKeep
        /\ X.unreferenced = part.unreferenced
    BY <1>3, OneLinkedIs
  <1>5. /\ RowsRight(s, part) /\ part.syms \in Seq(Nat) /\ part.written \in Seq(Nat)
        /\ Len(part.syms) = Len(part.written)
        /\ SymbolsAre(s, ToSet(part.written), read.elf, Loaded(read.elf, k, m))
    BY <1>1, XmlPartRows
  <1>6. PICK W : W = ToSet(part.written)
    OBVIOUS
  <1>7. W \in SUBSET (1 .. Len(s)) /\ Firsts(part, "xml") = W /\ Firsts(X, "xml") = W
    BY <1>4, <1>5, <1>6 DEF SymbolsAre, Firsts
  <1>8. Len(s) \in Nat /\ Heap(t) /\ Len(t) = Len(s) /\ Len(t) \in Nat
    BY HeapLength DEF RowLinkedIn, SameBut
  <1>9. Kept(s, t, W)
    <2>1. \A i \in W : i \in 1 .. Len(s) /\ i \notin ToSet(part.syms)
      BY <1>5, <1>6, <1>7 DEF RowsRight
    <2> QED
      BY <1>8, <2>1 DEF Kept, RowLinkedIn, SameBut
  <1>10. SymbolsAre(t, W, read.elf, Loaded(read.elf, k, m))
    BY <1>5, <1>6, <1>8, <1>9, KeptSymbols
  <1>11. ASSUME NEW v \in DOMAIN X.mainAt
         PROVE  AddressRight(t, X, read.elf, k, v, "xml")
    <2>1. AddressRight(s, part, read.elf, k, v, "xml")
      BY <1>3, <1>4 DEF PartRight
    <2>2. Group(t, W, read.elf, k, v) = Group(s, W, read.elf, k, v)
      BY <1>7, <1>9, KeptGroup
    <2>3. CASE part.mainAt[v] = 0
      BY <1>4, <1>7, <2>1, <2>2, <2>3 DEF AddressRight
    <2>4. CASE part.mainAt[v] # 0
      <3>1. PICK L : RingIsRight(s, part, read.elf, k, v, "xml", L)
        BY <2>1, <2>4 DEF AddressRight
      <3>2. /\ RingAt(s, W, read.elf, k, v, L) /\ L[1] = part.mainAt[v]
            /\ \E R : Retied(s, part, L, R)
        BY <1>7, <3>1 DEF RingIsRight
      <3>3. IsRing(s, L) /\ ToSet(L) \subseteq W
        BY <3>2 DEF RingAt, Group
      <3>4. Kept(s, t, ToSet(L))
        BY <1>9, <3>3, KeptLess
      <3>5. RingAt(t, W, read.elf, k, v, L)
        BY <1>7, <1>8, <3>2, <3>4, KeptRingAt
      <3>6. \E R : Retied(t, X, L, R)
        BY <3>2, <3>3 DEF RowLinkedIn
      <3>7. RingIsRight(t, X, read.elf, k, v, "xml", L)
        BY <1>4, <1>7, <3>2, <3>5, <3>6 DEF RingIsRight
      <3> QED
        BY <1>4, <2>4, <3>7 DEF AddressRight
    <2> QED
      BY <2>3, <2>4
  <1>12. RowsRight(t, X)
    <2>1. RowsRight(t, part)
      <3>1. ToSet(part.written) \subseteq 1 .. Len(s)
        BY <1>6, <1>7
      <3> QED
        BY <1>5, <1>8, <1>9, <3>1, KeptRows
    <2> QED
      BY <1>4, <2>1 DEF RowsRight
  <1>13. PartRight(t, X, read.elf, k, m, "xml")
    BY <1>7, <1>10, <1>11, <1>12 DEF PartRight
  <1>14. DeclsRight(t, X, k, read.dies, 0, "xml") /\ AllDeclared(t, X, k, read.dies, 0)
    <2>1. DeclsRight(s, part, k, read.dies, 0, "xml")
      BY DEF PartIs
    <2> QED
      BY <1>4, <2>1, NoDecls
  <1>15. UndefinedRight(t, X, k)
    <2>1. UndefinedRight(s, part, k)
      BY DEF PartIs
    <2>2. UndefinedRight(t, part, k)
      BY <1>8, <1>9, <2>1, KeptUndefined
    <2> QED
      BY <1>4, <2>2 DEF UndefinedRight
  <1>16. Fresh(X)
    BY <1>4 DEF Fresh
  <1>17. Mine(X) = Mine(part) /\ Owned(X) = Owned(part)
    BY <1>4 DEF Mine, Owned
  <1>18. Grown(s, t, Mine(part))
    BY <1>8 DEF Grown, Mine, RowLinkedIn, SameBut
  <1> QED
    BY <1>2, <1>4, <1>8, <1>13, <1>14, <1>15, <1>16, <1>17, <1>18 DEF LinkedIn, PartIs, PartStep

RowTaken(s, c, d, f, k, part, r, end) ==
    /\ part = c[f][k] /\ r \in part.unlinked
    /\ end = Linked(s, part, r, AliasIds(s, part.written[r]))
    /\ d = [c EXCEPT ![f][k] = [part EXCEPT !.unlinked = part.unlinked \ {r}]]

LEMMA RowAliases ==
    ASSUME NEW w \in Worlds, w.tool # "abisym", NEW s, NEW c, NEW d, NEW f, NEW n, NEW k \in SymbolKinds,
           NEW part, NEW r, NEW end, NEW t, Early(w, s, c, f, "aliases", n),
           RowTaken(s, c, d, f, k, part, r, end), t = end.heap
    PROVE  Early(w, t, d, f, "aliases", n) /\ end.ok
  <1>0. /\ part = c[f][k] /\ r \in part.unlinked
        /\ end = Linked(s, part, r, AliasIds(s, part.written[r]))
        /\ d = [c EXCEPT ![f][k] = [part EXCEPT !.unlinked = part.unlinked \ {r}]]
    BY DEF RowTaken
  <1>1. /\ PhaseRight(w, f, "aliases", n) /\ f \in DOMAIN w.files /\ w.files[f].xml /\ Heap(s)
        /\ \A l \in SymbolKinds : FilePart(w, s, c[f][l], f, l, f, "aliases", n)
    BY DEF Early, PhaseRight
  <1>2. PICK read, m : read = w.files[f] /\ m = Len(SymbolTable(read.elf))
    OBVIOUS
  <1>3. GoodRead(read)
    BY <1>1, <1>2, FilesGood
  <1>4. PartIs(s, part, read, k, m, 0, "xml") /\ Fresh(part)
    BY <1>0, <1>1, <1>2, AliasesPart
  <1>5. XmlPart(s, part, read, k, m)
    BY <1>1, <1>3, <1>4 DEF PartIs, XmlPart
  <1>6. PICK X : X = [part EXCEPT !.unlinked = part.unlinked \ {r}]
    OBVIOUS
  <1>7. OneLinked(part, X, r)
    BY <1>6 DEF OneLinked
  <1>8. RowLinkedIn(s, end.heap, part, X, r) /\ end.ok
    BY <1>0, <1>5, <1>7, RowLinked
  <1>9. RowLinkedIn(s, t, part, X, r)
    BY <1>8
  <1>10. LinkedIn(s, t, part, X, read, k, m)
    BY <1>1, <1>3, <1>4, <1>7, <1>9, LinkedPart
  <1>11. FilePart(w, t, X, f, k, f, "aliases", n)
    <2>1. /\ PartIs(t, X, w.files[f], k, Len(SymbolTable(w.files[f].elf)), 0, "xml")
          /\ AllDeclared(t, X, k, w.files[f].dies, 0) /\ Fresh(X)
      BY <1>2, <1>10 DEF LinkedIn
    <2> QED
      BY <1>1, <2>1, AliasesPart
  <1>12. PICK l \in SymbolKinds : l # k
    BY DEF SymbolKinds
  <1>13. PartStep(s, t, c[f][k], X)
    BY <1>0, <1>10 DEF LinkedIn
  <1>14. FilePart(w, t, c[f][l], f, l, f, "aliases", n)
    BY <1>12, <1>13, OtherKind
  <1>15. d = [c EXCEPT ![f][k] = X] /\ "aliases" \in Reading
    BY <1>0, <1>6 DEF Reading
  <1>16. Early(w, t, d, f, "aliases", n)
    BY <1>1, <1>11, <1>12, <1>13, <1>14, <1>15, OnePart
  <1> QED
    BY <1>8, <1>16

-----------------------------------------------------------------------------
(* A file that has been read                                                *)

SourceOf(w, g) == IF w.files[g].xml THEN "xml" ELSE "elf"

ReadPart(w, s, part, g, k) ==
    /\ PartIs(s, part, w.files[g], k, Len(SymbolTable(w.files[g].elf)), Len(w.files[g].dies),
              SourceOf(w, g))
    /\ part.unlinked = {} /\ part.unreferenced \subseteq ToSet(part.syms)

AllRead(w, s, part, g, k) == AllDeclared(s, part, k, w.files[g].dies, Len(w.files[g].dies))

\* abicompat has dropped declarations.
Selected(w, p) == p \in {"compare", "done"} /\ w.tool = "abicompat"

\* When there are no more files to read.
Late(w, s, c, f, p, n) ==
    /\ p \in Ending /\ f \in DOMAIN w.files /\ n \in Nat
    /\ p = "keep" => w.tool = "abicompat"
    /\ Heap(s) /\ CorporaIn(w, c)
    /\ \A g \in DOMAIN w.files : \A k \in SymbolKinds : ReadPart(w, s, c[g][k], g, k)
    /\ Selected(w, p) \/ \A g \in DOMAIN w.files : \A k \in SymbolKinds : AllRead(w, s, c[g][k], g, k)

LEMMA FreshRead ==
    ASSUME NEW w, NEW s, NEW part, NEW g, NEW k, NEW e, NEW d, NEW source,
           PartIs(s, part, w.files[g], k, e, d, source),
           AllDeclared(s, part, k, w.files[g].dies, d), Fresh(part), part.unlinked = {},
           e = Len(SymbolTable(w.files[g].elf)), d = Len(w.files[g].dies), source = SourceOf(w, g)
    PROVE  ReadPart(w, s, part, g, k) /\ AllRead(w, s, part, g, k)
  BY DEF ReadPart, AllRead, Fresh

LEMMA FilesAre ==
    ASSUME NEW w \in Worlds
    PROVE  DOMAIN w.files # {} /\ DOMAIN w.files \subseteq {"app", "lib1", "lib2"}
           /\ (w.tool = "abicompat" => "app" \in DOMAIN w.files)
  BY FilesAssumption

LEMMA BeforeRead ==
    ASSUME NEW w \in Worlds, w.tool # "abisym", NEW s, NEW c, NEW f, NEW p, NEW n,
           Early(w, s, c, f, p, n), NEW g \in DOMAIN w.files, Before(g, f), NEW k \in SymbolKinds
    PROVE  ReadPart(w, s, c[g][k], g, k) /\ AllRead(w, s, c[g][k], g, k)
  <1>1. ReadBy(g, f, p) /\ g # f
    BY DEF ReadBy, Before
  <1>2. FilePart(w, s, c[g][k], g, k, f, p, n)
    BY DEF Early
  <1>3. /\ EntriesRead(w, g, f, p, n) = Len(SymbolTable(w.files[g].elf))
        /\ DiesRead(w, g, f, p, n) = Len(w.files[g].dies) /\ Source(w, g, f, p) = SourceOf(w, g)
    BY <1>1 DEF EntriesRead, DiesRead, Source, SourceOf
  <1> QED
    BY <1>1, <1>2, <1>3, FreshRead DEF FilePart

\* The file that is read has been read.
FileDone(w, f, p, n) ==
    /\ n > Len(w.files[f].dies)
    /\ p = "decls" \/ (p = "dies" /\ ~w.files[f].xml)

LEMMA LastRead ==
    ASSUME NEW w \in Worlds, w.tool # "abisym", NEW s, NEW c, NEW f, NEW p, NEW n,
           Early(w, s, c, f, p, n), FileDone(w, f, p, n), NEW k \in SymbolKinds
    PROVE  ReadPart(w, s, c[f][k], f, k) /\ AllRead(w, s, c[f][k], f, k)
  <1>1. PhaseRight(w, f, p, n) /\ f \in DOMAIN w.files
    BY DEF Early, PhaseRight
  <1>2. Len(w.files[f].dies) \in Nat
    BY <1>1, FilesGood, TableIs
  <1>3. n - 1 = Len(w.files[f].dies)
    BY <1>1, <1>2 DEF PhaseRight, FileDone
  <1>4. FilePart(w, s, c[f][k], f, k, f, p, n)
    BY <1>1 DEF Early
  <1>5. p \in {"dies", "decls"} /\ (p = "decls" => w.files[f].xml)
    BY <1>1 DEF FileDone, PhaseRight
  <1>6. /\ EntriesRead(w, f, f, p, n) = Len(SymbolTable(w.files[f].elf))
        /\ DiesRead(w, f, f, p, n) = n - 1 /\ Source(w, f, f, p) = SourceOf(w, f)
    BY <1>5, NumbersOf DEF SourceOf, FileDone
  <1> QED
    BY <1>3, <1>4, <1>5, <1>6, FreshRead DEF FilePart

\* No file is left.
LEMMA FilesDone ==
    ASSUME NEW w \in Worlds, w.tool # "abisym", NEW s, NEW c, NEW f, NEW p, NEW n,
           Early(w, s, c, f, p, n), FileDone(w, f, p, n),
           \A g \in DOMAIN w.files : ~Before(f, g),
           NEW q \in Ending, q = "keep" => w.tool = "abicompat"
    PROVE  Late(w, s, c, f, q, 1)
  <1>1. f \in DOMAIN w.files /\ Heap(s) /\ CorporaIn(w, c)
    BY DEF Early, PhaseRight
  <1>2. \A g \in DOMAIN w.files : g = f \/ Before(g, f)
    BY <1>1, FilesAre DEF Before
  <1>3. ASSUME NEW g \in DOMAIN w.files, NEW k \in SymbolKinds
        PROVE  ReadPart(w, s, c[g][k], g, k) /\ AllRead(w, s, c[g][k], g, k)
    <2>1. CASE g = f
      BY <2>1, LastRead
    <2>2. CASE Before(g, f)
      BY <2>2, BeforeRead
    <2> QED
      BY <1>2, <2>1, <2>2
  <1> QED
    BY <1>1, <1>3 DEF Late

\* There is one more.
LEMMA FileNext ==
    ASSUME NEW w \in Worlds, w.tool # "abisym", NEW s, NEW c, NEW f, NEW p, NEW n,
           Early(w, s, c, f, p, n), FileDone(w, f, p, n),
           NEW later, later = {g \in DOMAIN w.files : Before(f, g)}, later # {},
           NEW h, h = FirstOf(later)
    PROVE  Early(w, s, c, h, "symbols", 1)
  <1>1. f \in DOMAIN w.files /\ Heap(s) /\ CorporaIn(w, c) /\ PartsApart(w, c) /\ p \notin Ending
    BY DEF Early, PhaseRight, Reading, Ending
  <1>2. h \in later /\ \A g \in later \ {h} : Before(h, g)
    <2>1. \E x \in later : \A g \in later \ {x} : Before(x, g)
      BY FilesAre DEF Before
    <2> QED
      BY <2>1 DEF FirstOf
  <1>3. h \in DOMAIN w.files /\ Before(f, h)
    BY <1>2
  <1>4. \A g \in DOMAIN w.files : Before(g, h) <=> (g = f \/ Before(g, f))
    BY <1>1, <1>2, <1>3, FilesAre DEF Before
  <1>5. "symbols" \in Reading /\ "symbols" \notin Ending
    BY DEF Reading, Ending
  <1>6. PhaseRight(w, h, "symbols", 1)
    BY <1>3, FilesGood, TableIs DEF PhaseRight
  <1>7. ASSUME NEW g \in DOMAIN w.files, NEW k \in SymbolKinds
        PROVE  FilePart(w, s, c[g][k], g, k, h, "symbols", 1)
    <2>1. PICK part : part = c[g][k]
      OBVIOUS
    <2>2. FilePart(w, s, part, g, k, f, p, n)
      BY <2>1 DEF Early
    <2>3. CASE Before(g, h)
      <3>1. g # h /\ ReadBy(g, h, "symbols")
        BY <2>3 DEF ReadBy, Before
      <3>2. ReadPart(w, s, part, g, k) /\ AllRead(w, s, part, g, k)
        BY <1>4, <2>1, <2>3, LastRead, BeforeRead
      <3>3. /\ EntriesRead(w, g, h, "symbols", 1) = Len(SymbolTable(w.files[g].elf))
            /\ DiesRead(w, g, h, "symbols", 1) = Len(w.files[g].dies)
            /\ Source(w, g, h, "symbols") = SourceOf(w, g)
        BY <3>1 DEF EntriesRead, DiesRead, Source, SourceOf
      <3>4. Fresh(part)
        BY <2>2 DEF FilePart
      <3>5. /\ PartIs(s, part, w.files[g], k, EntriesRead(w, g, h, "symbols", 1),
                      DiesRead(w, g, h, "symbols", 1), Source(w, g, h, "symbols"))
            /\ part.unlinked = {}
        BY <3>2, <3>3 DEF ReadPart
      <3>6. AllDeclared(s, part, k, w.files[g].dies, DiesRead(w, g, h, "symbols", 1))
        BY <3>2, <3>3 DEF AllRead
      <3> QED
        BY <2>1, <3>4, <3>5, <3>6 DEF FilePart
    <2>4. CASE ~Before(g, h)
      <3>1. g # f /\ ~Before(g, f)
        BY <1>4, <2>4
      <3>2. ~ReadBy(g, f, p) /\ ~ReadBy(g, h, "symbols")
        BY <1>1, <1>5, <2>4, <3>1 DEF ReadBy
      <3>3. /\ EntriesRead(w, g, f, p, n) = 0 /\ DiesRead(w, g, f, p, n) = 0
            /\ Source(w, g, f, p) = "elf"
        BY <3>1, <3>2 DEF EntriesRead, DiesRead, Source
      <3>4. /\ EntriesRead(w, g, h, "symbols", 1) = 0 /\ DiesRead(w, g, h, "symbols", 1) = 0
            /\ Source(w, g, h, "symbols") = "elf"
        BY <3>2 DEF EntriesRead, DiesRead, Source
      <3>5. /\ PartIs(s, part, w.files[g], k, 0, 0, "elf")
            /\ AllDeclared(s, part, k, w.files[g].dies, 0) /\ Fresh(part) /\ part.unlinked = {}
        BY <2>2, <3>1, <3>3 DEF FilePart
      <3> QED
        BY <2>1, <3>4, <3>5 DEF FilePart
    <2> QED
      BY <2>3, <2>4
  <1> QED
    BY <1>1, <1>5, <1>6, <1>7 DEF Early

LEMMA EmptyPartIs ==
    ASSUME NEW values
    PROVE  /\ EmptyPart(values) \in Parts(values) /\ EmptyPart(values).syms = <<>>
           /\ EmptyPart(values).undefined = <<>> /\ EmptyPart(values).decls = <<>>
           /\ EmptyPart(values).written = <<>> /\ EmptyPart(values).unlinked = {}
           /\ EmptyPart(values).mainAt = [v \in values |-> 0] /\ Fresh(EmptyPart(values))
  <1>1. PICK A, B, C, M : A = Seq(Ids) /\ B = Seq(SUBSET STRING) /\ C = Seq(Nat) /\ M = [values -> Nat]
    OBVIOUS
  <1>2. Parts(values) = [syms : C, undefined : C, mainAt : M, decls : C, keep : A, toSuppress : B,
                         toKeep : B, unreferenced : SUBSET Nat, written : C, unlinked : SUBSET Nat]
    BY <1>1 DEF Parts
  <1>3. PICK no, at, none : no = <<>> /\ at = [v \in values |-> 0] /\ none = {}
    OBVIOUS
  <1>4. no \in A /\ no \in B /\ no \in C /\ at \in M /\ none \in SUBSET Nat
    BY <1>1, <1>3, EmptySeq
  <1>5. PICK X : X = EmptyPart(values)
    OBVIOUS
  <1>6. X = [syms |-> no, undefined |-> no, mainAt |-> at, decls |-> no, keep |-> no,
             toSuppress |-> no, toKeep |-> no, unreferenced |-> none, written |-> no,
             unlinked |-> none]
    BY <1>3, <1>5 DEF EmptyPart
  <1>7. X \in Parts(values)
    BY <1>2, <1>4, <1>6
  <1> QED
    BY <1>3, <1>5, <1>6, <1>7 DEF Fresh

LEMMA EmptyPartRight ==
    ASSUME NEW read, GoodRead(read), NEW k, NEW s, s = <<>>, NEW part,
           part = EmptyPart(Addresses(read))
    PROVE  /\ PartIs(s, part, read, k, 0, 0, "elf") /\ AllDeclared(s, part, k, read.dies, 0)
           /\ Fresh(part) /\ part.unlinked = {} /\ Owned(part) = {} /\ Mine(part) = {}
  <1>1. /\ part \in Parts(Addresses(read)) /\ part.syms = <<>>
        /\ part.undefined = <<>> /\ part.decls = <<>> /\ part.written = <<>> /\ part.unlinked = {}
        /\ part.mainAt = [v \in Addresses(read) |-> 0] /\ Fresh(part)
    BY EmptyPartIs
  <1>2. ToSet(<<>>) = {} /\ Len(<<>>) = 0 /\ 1 .. 0 = {}
    BY DEF ToSet
  <1>3. Firsts(part, "elf") = {}
    BY <1>1, <1>2 DEF Firsts
  <1>4. Loaded(read.elf, k, 0) = {}
    <2>1. \A e \in PublicEntries(read.elf) : e \in 1 .. Len(SymbolTable(read.elf))
      BY TableIs DEF PublicEntries
    <2>2. \A e \in PublicEntries(read.elf) : ~(e <= 0)
      BY <2>1, TableIs
    <2> QED
      BY <2>2 DEF Loaded
  <1>5. SymbolsAre(s, {}, read.elf, {})
    BY DEF SymbolsAre
  <1>6. \A v \in DOMAIN part.mainAt : AddressRight(s, part, read.elf, k, v, "elf")
    BY <1>1, <1>3 DEF AddressRight, Group
  <1>7. PartRight(s, part, read.elf, k, 0, "elf")
    BY <1>1, <1>2, <1>3, <1>4, <1>5, <1>6 DEF PartRight, OneEach
  <1>8. DeclsRight(s, part, k, read.dies, 0, "elf")
    BY <1>1, <1>2 DEF DeclsRight
  <1>9. AllDeclared(s, part, k, read.dies, 0)
    BY <1>2 DEF AllDeclared
  <1>10. UndefinedRight(s, part, k)
    BY <1>1, <1>2 DEF UndefinedRight
  <1>11. Owned(part) = {} /\ Mine(part) = {}
    BY <1>1, <1>2 DEF Owned, Mine
  <1> QED
    BY <1>1, <1>7, <1>8, <1>9, <1>10, <1>11 DEF PartIs

LEMMA Starts ==
    ASSUME NEW w \in Worlds, w.tool # "abisym", NEW s, s = <<>>, NEW c, c = EmptyCorpora(w),
           NEW f, f = FirstOf(DOMAIN w.files)
    PROVE  Early(w, s, c, f, "symbols", 1)
  <1>1. f \in DOMAIN w.files /\ \A g \in DOMAIN w.files : ~Before(g, f)
    <2>1. \E x \in DOMAIN w.files : \A g \in DOMAIN w.files \ {x} : Before(x, g)
      BY FilesAre DEF Before
    <2>2. f \in DOMAIN w.files /\ \A g \in DOMAIN w.files \ {f} : Before(f, g)
      BY <2>1 DEF FirstOf
    <2> QED
      BY <2>2, FilesAre DEF Before
  <1>2. "symbols" \in Reading /\ "symbols" \notin Ending
    BY DEF Reading, Ending
  <1>3. PhaseRight(w, f, "symbols", 1)
    BY <1>1, FilesGood, TableIs DEF PhaseRight
  <1>4. Heap(s)
    BY DEF Heap
  <1>5. CorporaIn(w, c) /\ \A g \in DOMAIN w.files : \A k \in SymbolKinds :
                             c[g][k] = EmptyPart(Addresses(w.files[g]))
    BY DEF CorporaIn, EmptyCorpora
  <1>6. ASSUME NEW g \in DOMAIN w.files, NEW k \in SymbolKinds
        PROVE  FilePart(w, s, c[g][k], g, k, f, "symbols", 1) /\ Mine(c[g][k]) = {}
    <2>1. PICK part, read : part = c[g][k] /\ read = w.files[g]
      OBVIOUS
    <2>2. GoodRead(read) /\ part = EmptyPart(Addresses(read))
      BY <1>5, <2>1, FilesGood
    <2>3. /\ PartIs(s, part, read, k, 0, 0, "elf") /\ AllDeclared(s, part, k, read.dies, 0)
          /\ Fresh(part) /\ part.unlinked = {} /\ Mine(part) = {}
      BY <2>2, EmptyPartRight
    <2>4. /\ EntriesRead(w, g, f, "symbols", 1) = 0 /\ DiesRead(w, g, f, "symbols", 1) = 0
          /\ Source(w, g, f, "symbols") = "elf"
      BY <1>1, <1>2 DEF EntriesRead, DiesRead, Source, ReadBy
    <2> QED
      BY <2>1, <2>3, <2>4 DEF FilePart
  <1>7. PartsApart(w, c)
    BY <1>6 DEF PartsApart, Apart
  <1> QED
    BY <1>2, <1>3, <1>4, <1>5, <1>6, <1>7 DEF Early
-----------------------------------------------------------------------------
(* After reading                                                            *)

LEMMA SortedWithin ==
    ASSUME NEW heap, NEW X, NEW list \in Seq(X)
    PROVE  Sorted(heap, list) \in Seq(X)
  <1>1. PICK n \in Nat : n = Len(Alphabet) /\ DOMAIN Alphabet = 1 .. n
    BY AlphabetAssumption, LenProperties
  <1>2. PICK q : q = [a \in 1 .. n |->
                        SelectIn(list, {i \in ToSet(list) : Id(heap[i]) = Alphabet[a]})]
    OBVIOUS
  <1>3. PICK Y : Y = Seq(X)
    OBVIOUS
  <1>4. \A a \in 1 .. n : q[a] \in Y
    BY <1>2, <1>3, SelectInIs
  <1>5. q \in Seq(Y)
    BY <1>2, <1>4
  <1>6. PutTogether(FlattenSeq(q), X, q, Len(q))
    BY <1>3, <1>5, FlattenMakes
  <1> QED
    BY <1>1, <1>2, <1>6 DEF PutTogether, Sorted

LEMMA SameReadPart ==
    ASSUME NEW w, NEW s, NEW part, NEW X, NEW g, NEW k, ReadPart(w, s, part, g, k),
           X \in Parts(Addresses(w.files[g])), SameDecls(part, X), X.undefined = part.undefined,
           X.unreferenced \subseteq ToSet(part.syms)
    PROVE  ReadPart(w, s, X, g, k) /\ (AllRead(w, s, part, g, k) => AllRead(w, s, X, g, k))
  <1>1. PICK read, m, d, source : /\ read = w.files[g] /\ m = Len(SymbolTable(w.files[g].elf))
                                  /\ d = Len(w.files[g].dies) /\ source = SourceOf(w, g)
    OBVIOUS
  <1>2. PartIs(s, part, read, k, m, d, source) /\ part.unlinked = {}
    BY <1>1 DEF ReadPart
  <1>3. SameTable(part, X)
    BY DEF SameDecls
  <1>4. PartRight(s, X, read.elf, k, m, source)
    BY <1>2, <1>3, SameTablePart DEF PartIs
  <1>5. DeclsRight(s, X, k, read.dies, d, source)
    BY <1>2, SameDeclsRight DEF PartIs
  <1>6. UndefinedRight(s, X, k)
    BY <1>2 DEF PartIs, UndefinedRight
  <1>7. PartIs(s, X, read, k, m, d, source)
    BY <1>1, <1>4, <1>5, <1>6 DEF PartIs
  <1>8. X.unlinked = {} /\ X.syms = part.syms
    BY <1>2, <1>3 DEF SameTable
  <1>9. AllRead(w, s, part, g, k) => AllRead(w, s, X, g, k)
    BY SameAllDeclared DEF AllRead
  <1> QED
    BY <1>1, <1>7, <1>8, <1>9 DEF ReadPart

StaysRead(w, s, part, X, g, k) ==
    ReadPart(w, s, X, g, k) /\ (AllRead(w, s, part, g, k) => AllRead(w, s, X, g, k))

PatternsIn(X, part, a, b) == X = [part EXCEPT !.toSuppress = a, !.toKeep = b]

LEMMA PatternsSet ==
    ASSUME NEW w, NEW s, NEW part, NEW X, NEW g, NEW k, ReadPart(w, s, part, g, k),
           NEW a \in Seq(SUBSET STRING), NEW b \in Seq(SUBSET STRING), PatternsIn(X, part, a, b)
    PROVE  StaysRead(w, s, part, X, g, k)
  <1>1. PICK values : values = Addresses(w.files[g])
    OBVIOUS
  <1>2. part \in Parts(values) /\ part.unreferenced \subseteq ToSet(part.syms)
    BY <1>1 DEF ReadPart, PartIs
  <1>3. PICK A, B, C, M : A = Seq(Ids) /\ B = Seq(SUBSET STRING) /\ C = Seq(Nat) /\ M = [values -> Nat]
    OBVIOUS
  <1>4. Parts(values) = [syms : C, undefined : C, mainAt : M, decls : C, keep : A, toSuppress : B,
                         toKeep : B, unreferenced : SUBSET Nat, written : C, unlinked : SUBSET Nat]
    BY <1>3 DEF Parts
  <1>5. a \in B /\ b \in B /\ X = [part EXCEPT !.toSuppress = a, !.toKeep = b]
    BY <1>3 DEF PatternsIn
  <1>6. X \in Parts(values)
    <2>1. part = [syms |-> part.syms, undefined |-> part.undefined, mainAt |-> part.mainAt,
                  decls |-> part.decls, keep |-> part.keep, toSuppress |-> part.toSuppress,
                  toKeep |-> part.toKeep, unreferenced |-> part.unreferenced,
                  written |-> part.written, unlinked |-> part.unlinked]
      BY <1>2, <1>4
    <2>2. X = [syms |-> part.syms, undefined |-> part.undefined, mainAt |-> part.mainAt,
               decls |-> part.decls, keep |-> part.keep, toSuppress |-> a, toKeep |-> b,
               unreferenced |-> part.unreferenced, written |-> part.written,
               unlinked |-> part.unlinked]
      BY <1>5, <2>1
    <2>3. /\ part.syms \in C /\ part.undefined \in C /\ part.mainAt \in M /\ part.decls \in C
          /\ part.keep \in A /\ part.unreferenced \in SUBSET Nat /\ part.written \in C
          /\ part.unlinked \in SUBSET Nat
      BY <1>2, <1>4
    <2> QED
      BY <1>4, <1>5, <2>2, <2>3
  <1>7. /\ X.syms = part.syms /\ X.written = part.written /\ X.mainAt = part.mainAt
        /\ X.unlinked = part.unlinked /\ X.decls = part.decls /\ X.undefined = part.undefined
        /\ X.unreferenced = part.unreferenced
    BY <1>2, <1>4, <1>5
  <1>8. SameDecls(part, X)
    BY <1>7 DEF SameDecls, SameTable
  <1>9. X \in Parts(Addresses(w.files[g])) /\ X.unreferenced \subseteq ToSet(part.syms)
    BY <1>1, <1>2, <1>6, <1>7
  <1> QED
    BY <1>7, <1>8, <1>9, SameReadPart DEF StaysRead

KeepIn(X, part, ids) == X = [part EXCEPT !.keep = part.keep \o ids]

LEMMA KeepAdded ==
    ASSUME NEW w, NEW s, NEW part, NEW X, NEW g, NEW k, ReadPart(w, s, part, g, k),
           NEW ids \in Seq(Ids), KeepIn(X, part, ids)
    PROVE  StaysRead(w, s, part, X, g, k)
  <1>1. PICK values : values = Addresses(w.files[g])
    OBVIOUS
  <1>2. part \in Parts(values) /\ part.unreferenced \subseteq ToSet(part.syms)
    BY <1>1 DEF ReadPart, PartIs
  <1>3. PICK A, B, C, M : A = Seq(Ids) /\ B = Seq(SUBSET STRING) /\ C = Seq(Nat) /\ M = [values -> Nat]
    OBVIOUS
  <1>4. Parts(values) = [syms : C, undefined : C, mainAt : M, decls : C, keep : A, toSuppress : B,
                         toKeep : B, unreferenced : SUBSET Nat, written : C, unlinked : SUBSET Nat]
    BY <1>3 DEF Parts
  <1>5. PICK a : a = part.keep \o ids
    OBVIOUS
  <1>6. part.keep \in Seq(Ids)
    BY <1>2, <1>3, <1>4
  <1>7. a \in A
    BY <1>3, <1>5, <1>6, ConcatIs
  <1>8. X = [part EXCEPT !.keep = a]
    BY <1>5 DEF KeepIn
  <1>9. X \in Parts(values)
    BY <1>2, <1>4, <1>7, <1>8
  <1>10. /\ X.syms = part.syms /\ X.written = part.written /\ X.mainAt = part.mainAt
         /\ X.unlinked = part.unlinked /\ X.decls = part.decls /\ X.undefined = part.undefined
         /\ X.unreferenced = part.unreferenced
    BY <1>2, <1>4, <1>8
  <1>11. SameDecls(part, X)
    BY <1>10 DEF SameDecls, SameTable
  <1>12. X \in Parts(Addresses(w.files[g])) /\ X.unreferenced \subseteq ToSet(part.syms)
    BY <1>1, <1>2, <1>9, <1>10
  <1> QED
    BY <1>10, <1>11, <1>12, SameReadPart DEF StaysRead

UnreferencedIn(X, part, U) == X = [part EXCEPT !.unreferenced = U]

LEMMA UnreferencedTold ==
    ASSUME NEW w, NEW s, NEW part, NEW X, NEW g, NEW k, ReadPart(w, s, part, g, k),
           NEW U, U \in SUBSET ToSet(part.syms), UnreferencedIn(X, part, U)
    PROVE  StaysRead(w, s, part, X, g, k)
  <1>1. PICK values : values = Addresses(w.files[g])
    OBVIOUS
  <1>2. part \in Parts(values)
    BY <1>1 DEF ReadPart, PartIs
  <1>3. PICK A, B, C, M : A = Seq(Ids) /\ B = Seq(SUBSET STRING) /\ C = Seq(Nat) /\ M = [values -> Nat]
    OBVIOUS
  <1>4. Parts(values) = [syms : C, undefined : C, mainAt : M, decls : C, keep : A, toSuppress : B,
                         toKeep : B, unreferenced : SUBSET Nat, written : C, unlinked : SUBSET Nat]
    BY <1>3 DEF Parts
  <1>5. U \in SUBSET Nat
    <2>1. part.syms \in Seq(Nat)
      BY <1>2, <1>3, <1>4
    <2>2. ToSet(part.syms) \subseteq Nat
      BY <2>1, ElementOfSeq, LenProperties DEF ToSet
    <2> QED
      BY <2>2
  <1>6. X = [part EXCEPT !.unreferenced = U]
    BY DEF UnreferencedIn
  <1>7. X \in Parts(values)
    BY <1>2, <1>4, <1>5, <1>6
  <1>8. /\ X.syms = part.syms /\ X.written = part.written /\ X.mainAt = part.mainAt
        /\ X.unlinked = part.unlinked /\ X.decls = part.decls /\ X.undefined = part.undefined
        /\ X.unreferenced = U
    BY <1>2, <1>4, <1>6
  <1>9. SameDecls(part, X)
    BY <1>8 DEF SameDecls, SameTable
  <1>10. X \in Parts(Addresses(w.files[g])) /\ X.unreferenced \subseteq ToSet(part.syms)
    BY <1>1, <1>7, <1>8
  <1> QED
    BY <1>8, <1>9, <1>10, SameReadPart DEF StaysRead

DeclsIn(X, part, T) == X = [part EXCEPT !.decls = SelectIn(part.decls, T)]

LEMMA FewerDecls ==
    ASSUME NEW s, NEW part, NEW X, NEW k, NEW dies, NEW d, NEW source,
           SameTable(part, X), DeclsRight(s, part, k, dies, d, source),
           part.decls \in Seq(Nat), X.decls \in Seq(Nat), OneEach(part.decls) => OneEach(X.decls),
           ToSet(X.decls) \subseteq ToSet(part.decls)
    PROVE  DeclsRight(s, X, k, dies, d, source)
  <1>1. \A x \in 1 .. Len(X.decls) : X.decls[x] \in ToSet(part.decls)
    BY InToSet
  <1>2. \A x \in 1 .. Len(X.decls) : \E y \in 1 .. Len(part.decls) : X.decls[x] = part.decls[y]
    BY <1>1, LenProperties DEF ToSet
  <1>3. \A x \in 1 .. Len(X.decls) : DeclRight(s, X, k, dies, d, source, X.decls[x])
    BY <1>2, SameTableDecl DEF DeclsRight
  <1>4. OneEach(part.decls)
    BY DEF OneEach, DeclsRight
  <1>5. ASSUME NEW x \in 1 .. Len(X.decls), NEW y \in 1 .. Len(X.decls),
               DeclId(s, X.decls[x]) = DeclId(s, X.decls[y])
        PROVE  x = y
    <2>1. PICK a \in 1 .. Len(part.decls) : X.decls[x] = part.decls[a]
      BY <1>2
    <2>2. PICK b \in 1 .. Len(part.decls) : X.decls[y] = part.decls[b]
      BY <1>2
    <2>3. a = b
      BY <1>5, <2>1, <2>2 DEF DeclsRight
    <2>4. X.decls[x] = X.decls[y]
      BY <2>1, <2>2, <2>3
    <2> QED
      BY <1>4, <2>4 DEF OneEach
  <1> QED
    BY <1>3, <1>5 DEF DeclsRight

LEMMA DeclsDropped ==
    ASSUME NEW w, NEW s, NEW part, NEW X, NEW g, NEW k, NEW T, ReadPart(w, s, part, g, k),
           DeclsIn(X, part, T)
    PROVE  ReadPart(w, s, X, g, k)
  <1>1. PICK values : values = Addresses(w.files[g])
    OBVIOUS
  <1>2. part \in Parts(values) /\ part.unreferenced \subseteq ToSet(part.syms) /\ part.unlinked = {}
    BY <1>1 DEF ReadPart, PartIs
  <1>3. PICK A, B, C, M : A = Seq(Ids) /\ B = Seq(SUBSET STRING) /\ C = Seq(Nat) /\ M = [values -> Nat]
    OBVIOUS
  <1>4. Parts(values) = [syms : C, undefined : C, mainAt : M, decls : C, keep : A, toSuppress : B,
                         toKeep : B, unreferenced : SUBSET Nat, written : C, unlinked : SUBSET Nat]
    BY <1>3 DEF Parts
  <1>5. PICK L : L = SelectIn(part.decls, T)
    OBVIOUS
  <1>6. part.decls \in Seq(Nat)
    BY <1>2, <1>3, <1>4
  <1>7. /\ L \in Seq(Nat) /\ ToSet(L) \subseteq ToSet(part.decls)
        /\ OneEach(part.decls) => OneEach(L)
    <2>1. /\ SelectIn(part.decls, T) \in Seq(Nat)
          /\ ToSet(SelectIn(part.decls, T)) = ToSet(part.decls) \cap T
          /\ OneEach(part.decls) => OneEach(SelectIn(part.decls, T))
      BY <1>6, SelectInIs
    <2> QED
      BY <1>5, <2>1
  <1>8. X = [part EXCEPT !.decls = L] /\ L \in C
    BY <1>3, <1>5, <1>7 DEF DeclsIn
  <1>9. X \in Parts(values)
    BY <1>2, <1>4, <1>8
  <1>10. /\ X.syms = part.syms /\ X.written = part.written /\ X.mainAt = part.mainAt
         /\ X.unlinked = part.unlinked /\ X.decls = L /\ X.undefined = part.undefined
         /\ X.unreferenced = part.unreferenced
    BY <1>2, <1>4, <1>8
  <1>11. SameTable(part, X)
    BY <1>10 DEF SameTable
  <1>12. PICK read, m, d, source : /\ read = w.files[g] /\ m = Len(SymbolTable(w.files[g].elf))
                                   /\ d = Len(w.files[g].dies) /\ source = SourceOf(w, g)
    OBVIOUS
  <1>13. PartIs(s, part, read, k, m, d, source)
    BY <1>12 DEF ReadPart
  <1>14. PartRight(s, X, read.elf, k, m, source)
    BY <1>11, <1>13, SameTablePart DEF PartIs
  <1>15. DeclsRight(s, X, k, read.dies, d, source)
    <2>1. DeclsRight(s, part, k, read.dies, d, source)
      BY <1>13 DEF PartIs
    <2> QED
      BY <1>6, <1>7, <1>10, <1>11, <2>1, FewerDecls
  <1>16. UndefinedRight(s, X, k)
    BY <1>10, <1>13 DEF PartIs, UndefinedRight
  <1>17. PartIs(s, X, read, k, m, d, source)
    BY <1>1, <1>9, <1>12, <1>14, <1>15, <1>16 DEF PartIs
  <1> QED
    BY <1>2, <1>10, <1>12, <1>17 DEF ReadPart

\* The corpora change, and the symbols do not.
LEMMA LateChanged ==
    ASSUME NEW w, NEW s, NEW c, NEW f, NEW p, NEW n, Late(w, s, c, f, p, n),
           NEW d, NEW q \in Ending, q = "keep" => w.tool = "abicompat", CorporaIn(w, d),
           \A g \in DOMAIN w.files : \A k \in SymbolKinds : ReadPart(w, s, d[g][k], g, k),
           Selected(w, q) \/ (/\ ~Selected(w, p)
                              /\ \A g \in DOMAIN w.files : \A k \in SymbolKinds :
                                   AllRead(w, s, c[g][k], g, k) => AllRead(w, s, d[g][k], g, k))
    PROVE  Late(w, s, d, f, q, n)
  BY DEF Late

LEMMA IdsOfSymbols ==
    ASSUME NEW s, Heap(s), NEW L \in Seq(1 .. Len(s))
    PROVE  [i \in DOMAIN L |-> Id(s[L[i]])] \in Seq(Ids)
  <1>1. PICK n \in Nat : n = Len(L) /\ DOMAIN L = 1 .. n
    BY LenProperties
  <1>2. ASSUME NEW i \in 1 .. n
        PROVE  Id(s[L[i]]) \in Ids
    <2>1. L[i] \in 1 .. Len(s)
      BY <1>1, ElementOfSeq
    <2>2. s[L[i]] \in Symbols
      BY <2>1, HeapLength
    <2>3. s[L[i]].name \in Ids /\ s[L[i]].version \in [name : Texts, default : BOOLEAN]
      BY <2>2 DEF Symbols
    <2> QED
      BY <2>3 DEF Id, IdString, Ids, Texts
  <1>3. PICK I : I = Ids
    OBVIOUS
  <1>4. [i \in 1 .. n |-> Id(s[L[i]])] \in Seq(I)
    BY <1>2, <1>3
  <1> QED
    BY <1>1, <1>3, <1>4

\* The ids of undefined symbols.
LEMMA UndefinedIds ==
    ASSUME NEW w, NEW s, NEW part, NEW g, NEW k, Heap(s), ReadPart(w, s, part, g, k),
           NEW L, L = Sorted(s, part.undefined)
    PROVE  [i \in DOMAIN L |-> Id(s[L[i]])] \in Seq(Ids)
  <1>1. part.undefined \in Seq(Nat) /\ UndefinedRight(s, part, k)
    BY DEF ReadPart, PartIs, Parts
  <1>2. PICK n \in Nat : n = Len(part.undefined) /\ DOMAIN part.undefined = 1 .. n
    BY <1>1, LenProperties
  <1>3. PICK T : T = 1 .. Len(s)
    OBVIOUS
  <1>4. \A i \in 1 .. n : part.undefined[i] \in T
    BY <1>1, <1>2, <1>3 DEF UndefinedRight, ToSet
  <1>5. part.undefined \in [1 .. n -> T]
    <2>1. part.undefined = [i \in 1 .. n |-> part.undefined[i]]
      BY <1>1, <1>2, LenProperties
    <2> QED
      BY <1>4, <2>1
  <1>6. part.undefined \in Seq(T)
    BY <1>5, FunctionSeq
  <1>7. L \in Seq(T)
    BY <1>6, SortedWithin
  <1> QED
    BY <1>3, <1>7, IdsOfSymbols

-----------------------------------------------------------------------------
(* The inductive invariant                                                  *)

RightState(w, s, c, f, p, n) ==
    /\ w \in Worlds
    /\ w.tool = "abisym" => /\ s = <<>> /\ c = EmptyCorpora(w) /\ f \in DOMAIN w.files
                            /\ p \in {"lookup", "done"} /\ n \in Nat
    /\ w.tool # "abisym" => Early(w, s, c, f, p, n) \/ Late(w, s, c, f, p, n)

IInv == RightState(world, symbols, corpora, file, phase, next) /\ aborted = FALSE

LEMMA EarlyOrLate ==
    ASSUME NEW w, NEW s, NEW c, NEW f, NEW p, NEW n
    PROVE  /\ Early(w, s, c, f, p, n) => p \in Reading /\ p \notin Ending
           /\ Late(w, s, c, f, p, n) => p \in Ending /\ p \notin Reading
           /\ p = "lookup" => p \notin Reading /\ p \notin Ending
  BY DEF Early, Late, Reading, Ending

LEMMA WhileReading ==
    ASSUME NEW w, NEW s, NEW c, NEW f, NEW p \in Reading, NEW n, RightState(w, s, c, f, p, n)
    PROVE  w \in Worlds /\ w.tool # "abisym" /\ Early(w, s, c, f, p, n)
  BY EarlyOrLate DEF RightState, Reading

LEMMA AfterwardsLate ==
    ASSUME NEW w, NEW s, NEW c, NEW f, NEW p \in Ending, NEW n, RightState(w, s, c, f, p, n),
           p # "done"
    PROVE  w \in Worlds /\ w.tool # "abisym" /\ Late(w, s, c, f, p, n)
  BY EarlyOrLate DEF RightState, Ending

LEMMA StartsRight ==
    Init => IInv
  <1> SUFFICES ASSUME Init
               PROVE  IInv
    OBVIOUS
  <1>1. world \in Worlds /\ aborted = FALSE /\ symbols = <<>> /\ corpora = EmptyCorpora(world)
        /\ file = FirstOf(DOMAIN world.files) /\ next = 1
    BY DEF Init
  <1>2. CASE world.tool = "abisym"
    <2>1. phase = "lookup"
      BY <1>2 DEF Init
    <2>2. file \in DOMAIN world.files
      <3>1. \E x \in DOMAIN world.files : \A g \in DOMAIN world.files \ {x} : Before(x, g)
        BY <1>1, FilesAre DEF Before
      <3> QED
        BY <1>1, <3>1 DEF FirstOf
    <2> QED
      BY <1>1, <1>2, <2>1, <2>2 DEF IInv, RightState
  <1>3. CASE world.tool # "abisym"
    <2>1. phase = "symbols"
      BY <1>3 DEF Init
    <2>2. Early(world, symbols, corpora, file, "symbols", 1)
      BY <1>1, <1>3, Starts
    <2> QED
      BY <1>1, <1>3, <2>1, <2>2 DEF IInv, RightState
  <1> QED
    BY <1>2, <1>3

LEMMA LoadPublicRight ==
    IInv /\ LoadPublic => IInv'
  <1> SUFFICES ASSUME IInv, LoadPublic
               PROVE  IInv'
    OBVIOUS
  <1>1. PICK w, s, c, f, n, t, d : /\ w = world /\ s = symbols /\ c = corpora /\ f = file /\ n = next
                                   /\ t = symbols' /\ d = corpora'
    OBVIOUS
  <1>2. phase = "symbols" /\ "symbols" \in Reading
    BY DEF LoadPublic, AtEntry, Going, Reading
  <1>3. w \in Worlds /\ w.tool # "abisym" /\ Early(w, s, c, f, "symbols", n)
    BY <1>1, <1>2, WhileReading DEF IInv
  <1>4. PICK elf, e, k, i, v, h, first :
          /\ elf = w.files[f].elf /\ e = SymbolTable(elf)[n] /\ k = KindOf(e) /\ i = Len(s) + 1
          /\ v = e.value /\ h = Append(s, NewSymbol(ElfSymbol(elf, n), i))
          /\ first = c[f][k].mainAt[v]
    OBVIOUS
  <1>5. /\ n <= Len(SymbolTable(elf)) /\ k \in SymbolKinds /\ IsPublic(e)
        /\ d = [c EXCEPT ![f][k] = AddPublic(c[f][k], i, v)]
        /\ t = IF first = 0 THEN h ELSE AddAlias(h, h[first].main, i)
        /\ aborted' = (first # 0 /\ ~MayAddAlias(h, h[first].main, i))
        /\ next' = n + 1 /\ world' = w /\ file' = f /\ phase' = "symbols"
    BY <1>1, <1>2, <1>4 DEF LoadPublic, AtEntry, Entry, Elf
  <1>6. n \in At(elf, k, v)
    <2>1. n \in 1 .. Len(SymbolTable(elf)) /\ GoodRead(w.files[f])
      BY <1>3, <1>4, <1>5, SymbolsPhase
    <2>2. n \in DOMAIN SymbolTable(elf)
      BY <1>4, <2>1, TableIs
    <2> QED
      BY <1>4, <1>5, <2>2 DEF At, PublicEntries
  <1>7. /\ Early(w, t, d, f, "symbols", n + 1)
        /\ first # 0 => MayAddAlias(h, h[first].main, i)
    <2>1. n <= Len(SymbolTable(w.files[f].elf))
      BY <1>4, <1>5
    <2>2. n \in At(w.files[f].elf, k, v)
      BY <1>4, <1>6
    <2>3. i = Len(s) + 1
      BY <1>4
    <2>4. h = Append(s, NewSymbol(ElfSymbol(w.files[f].elf, n), i))
      BY <1>4
    <2>5. first = c[f][k].mainAt[v]
      BY <1>4
    <2>6. t = IF first = 0 THEN h ELSE AddAlias(h, h[first].main, i)
      BY <1>5
    <2>7. d = [c EXCEPT ![f][k] = AddPublic(c[f][k], i, v)]
      BY <1>5
    <2>8. w \in Worlds /\ w.tool # "abisym" /\ Early(w, s, c, f, "symbols", n) /\ k \in SymbolKinds
      BY <1>3, <1>5
    <2> QED
      BY <2>1, <2>2, <2>3, <2>4, <2>5, <2>6, <2>7, <2>8, PublicLoaded
  <1>8. aborted' = FALSE
    BY <1>5, <1>7
  <1> QED
    BY <1>1, <1>3, <1>5, <1>7, <1>8 DEF IInv, RightState

LEMMA LoadUndefinedRight ==
    IInv /\ LoadUndefined => IInv'
  <1> SUFFICES ASSUME IInv, LoadUndefined
               PROVE  IInv'
    OBVIOUS
  <1>1. PICK w, s, c, f, n, t, d : /\ w = world /\ s = symbols /\ c = corpora /\ f = file /\ n = next
                                   /\ t = symbols' /\ d = corpora'
    OBVIOUS
  <1>2. phase = "symbols" /\ "symbols" \in Reading
    BY DEF LoadUndefined, AtEntry, Going, Reading
  <1>3. w \in Worlds /\ w.tool # "abisym" /\ Early(w, s, c, f, "symbols", n)
    BY <1>1, <1>2, WhileReading DEF IInv
  <1>4. PICK elf, e, k, i :
          /\ elf = w.files[f].elf /\ e = SymbolTable(elf)[n] /\ k = KindOf(e) /\ i = Len(s) + 1
    OBVIOUS
  <1>5. /\ n <= Len(SymbolTable(elf)) /\ k \in SymbolKinds /\ ~IsDefined(e)
        /\ d = [c EXCEPT ![f][k] = [c[f][k] EXCEPT !.undefined = Append(c[f][k].undefined, i)]]
        /\ t = Append(s, NewSymbol(ElfSymbol(elf, n), i))
        /\ aborted' = aborted
        /\ next' = n + 1 /\ world' = w /\ file' = f /\ phase' = "symbols"
    <2>1. corpora' = [corpora EXCEPT ![file][KindOf(Entry)] = AddUndefined(@, Len(symbols) + 1)]
      BY DEF LoadUndefined
    <2>2. Entry = e /\ Elf = elf
      BY <1>1, <1>4 DEF Entry, Elf
    <2>3. d = [c EXCEPT ![f][k] = [c[f][k] EXCEPT !.undefined = Append(c[f][k].undefined, i)]]
      BY <1>1, <1>4, <2>1, <2>2 DEF AddUndefined
    <2>4. t = Append(s, NewSymbol(ElfSymbol(elf, n), i))
      BY <1>1, <1>4, <2>2 DEF LoadUndefined
    <2>5. n <= Len(SymbolTable(elf)) /\ k \in SymbolKinds /\ ~IsDefined(e)
      BY <1>1, <1>4, <2>2 DEF LoadUndefined, AtEntry
    <2>6. aborted' = aborted /\ next' = n + 1 /\ world' = w /\ file' = f /\ phase' = "symbols"
      BY <1>1, <1>2 DEF LoadUndefined
    <2> QED
      BY <2>3, <2>4, <2>5, <2>6
  <1>6. Early(w, t, d, f, "symbols", n + 1)
    BY <1>3, <1>4, <1>5, UndefinedLoaded
  <1> QED
    BY <1>1, <1>3, <1>5, <1>6 DEF IInv, RightState

LEMMA SkipSymbolRight ==
    IInv /\ SkipSymbol => IInv'
  <1> SUFFICES ASSUME IInv, SkipSymbol
               PROVE  IInv'
    OBVIOUS
  <1>1. PICK w, s, c, f, n : w = world /\ s = symbols /\ c = corpora /\ f = file /\ n = next
    OBVIOUS
  <1>2. phase = "symbols" /\ "symbols" \in Reading
    BY DEF SkipSymbol, AtEntry, Going, Reading
  <1>3. w \in Worlds /\ w.tool # "abisym" /\ Early(w, s, c, f, "symbols", n)
    BY <1>1, <1>2, WhileReading DEF IInv
  <1>4. PICK e : e = SymbolTable(w.files[f].elf)[n]
    OBVIOUS
  <1>5. /\ n <= Len(SymbolTable(w.files[f].elf))
        /\ KindOf(e) \notin SymbolKinds \/ (IsDefined(e) /\ ~IsPublic(e))
        /\ next' = n + 1 /\ world' = w /\ symbols' = s /\ corpora' = c /\ file' = f
        /\ phase' = "symbols" /\ aborted' = aborted
    BY <1>1, <1>2, <1>4 DEF SkipSymbol, AtEntry, Entry, Elf
  <1>6. Early(w, s, c, f, "symbols", n + 1)
    BY <1>3, <1>4, <1>5, SymbolSkipped
  <1> QED
    BY <1>3, <1>5, <1>6 DEF IInv, RightState

LEMMA SymbolsLoadedRight ==
    IInv /\ SymbolsLoaded => IInv'
  <1> SUFFICES ASSUME IInv, SymbolsLoaded
               PROVE  IInv'
    OBVIOUS
  <1>1. PICK w, s, c, f, n : w = world /\ s = symbols /\ c = corpora /\ f = file /\ n = next
    OBVIOUS
  <1>2. phase = "symbols" /\ "symbols" \in Reading
    BY DEF SymbolsLoaded, Going, Reading
  <1>3. w \in Worlds /\ w.tool # "abisym" /\ Early(w, s, c, f, "symbols", n)
    BY <1>1, <1>2, WhileReading DEF IInv
  <1>4. /\ n > Len(SymbolTable(w.files[f].elf))
        /\ next' = 1 /\ world' = w /\ symbols' = s /\ corpora' = c /\ file' = f
        /\ phase' = "dies" /\ aborted' = aborted
    BY <1>1 DEF SymbolsLoaded, Elf
  <1>5. Early(w, s, c, f, "dies", 1)
    BY <1>3, <1>4, SymbolsDone
  <1> QED
    BY <1>3, <1>4, <1>5 DEF IInv, RightState

LEMMA ReadDieRight ==
    IInv /\ ReadDie => IInv'
  <1> SUFFICES ASSUME IInv, ReadDie
               PROVE  IInv'
    OBVIOUS
  <1>1. PICK w, s, c, f, n, t, d : /\ w = world /\ s = symbols /\ c = corpora /\ f = file /\ n = next
                                   /\ t = symbols' /\ d = corpora'
    OBVIOUS
  <1>2. phase = "dies" /\ "dies" \in Reading /\ "dies" \in {"dies", "decls"}
    BY DEF ReadDie, Going, Reading
  <1>3. w \in Worlds /\ w.tool # "abisym" /\ Early(w, s, c, f, "dies", n)
    BY <1>1, <1>2, WhileReading DEF IInv
  <1>4. PICK k, main, i, h :
          /\ k = w.files[f].dies[n].kind /\ main = c[f][k].mainAt[w.files[f].dies[n].address]
          /\ i = Len(s) + 1 /\ h = Append(s, Copy(s[main], i))
    OBVIOUS
  <1>5. /\ n <= Len(w.files[f].dies)
        /\ main = 0 => t = s /\ d = c
        /\ main # 0 => t = h /\ d = [c EXCEPT ![f][k] = MaybeAdd(t, c[f][k], i)]
        /\ aborted' = aborted
        /\ next' = n + 1 /\ world' = w /\ file' = f /\ phase' = "dies"
    BY <1>1, <1>2, <1>4 DEF ReadDie, MainAt, Dies
  <1>6. Early(w, t, d, f, "dies", n + 1)
    <2>1. CASE main = 0
      BY <1>2, <1>3, <1>4, <1>5, <2>1, DieSkipped
    <2>2. CASE main # 0
      <3>1. n <= Len(w.files[f].dies) /\ k = w.files[f].dies[n].kind
        BY <1>4, <1>5
      <3>2. main = c[f][k].mainAt[w.files[f].dies[n].address] /\ main # 0
        BY <1>4, <2>2
      <3>3. i = Len(s) + 1
        BY <1>4
      <3>4. t = Append(s, Copy(s[main], i))
        BY <1>4, <1>5, <2>2
      <3>5. d = [c EXCEPT ![f][k] = MaybeAdd(t, c[f][k], i)]
        BY <1>5, <2>2
      <3> QED
        BY <1>3, <3>1, <3>2, <3>3, <3>4, <3>5, ElfDie
    <2> QED
      BY <2>1, <2>2
  <1> QED
    BY <1>1, <1>3, <1>5, <1>6 DEF IInv, RightState

LEMMA ReadSymbolDbRight ==
    IInv /\ ReadSymbolDb => IInv'
  <1> SUFFICES ASSUME IInv, ReadSymbolDb
               PROVE  IInv'
    OBVIOUS
  <1>1. PICK w, s, c, f, n, t, d : /\ w = world /\ s = symbols /\ c = corpora /\ f = file /\ n = next
                                   /\ t = symbols' /\ d = corpora'
    OBVIOUS
  <1>2. phase = "dies" /\ "dies" \in Reading
    BY DEF ReadSymbolDb, Going, Reading
  <1>3. w \in Worlds /\ w.tool # "abisym" /\ Early(w, s, c, f, "dies", n)
    BY <1>1, <1>2, WhileReading DEF IInv
  <1>4. PICK PF, PV, QF, QV :
          /\ PF = c[f]["fun"] /\ PV = c[f]["var"]
          /\ QF = Sorted(s, PF.syms) /\ QV = Sorted(s, PV.syms)
    OBVIOUS
  <1>5. Rows("fun") = QF /\ Rows("var") = QV
    BY <1>1, <1>4 DEF Rows
  <1>6. /\ n > Len(w.files[f].dies) /\ w.files[f].xml
        /\ aborted' = aborted /\ next' = n /\ world' = w /\ file' = f /\ phase' = "aliases"
    BY <1>1 DEF ReadSymbolDb, Dies
  <1>7. PICK l, b : l = Len(s) + 0 /\ b = Len(s) + Len(QF)
    OBVIOUS
  <1>8. t = symbols \o RowsOfKind(symbols, Rows("fun"), l) \o RowsOfKind(symbols, Rows("var"), b)
    BY <1>1, <1>5, <1>7 DEF ReadSymbolDb, RowsOfKind
  <1>9. d = [corpora EXCEPT ![file] =
              [k \in SymbolKinds |->
                 PartRead(corpora[file][k], Rows(k), Len(symbols) + (IF k = "var" THEN Len(Rows("fun")) ELSE 0))]]
    BY <1>1 DEF ReadSymbolDb, PartRead
  <1>10. Len(s) \in Nat /\ l = Len(s)
    BY <1>3, <1>7, HeapLength DEF Early
  <1>11. PICK XF, XV : XF = PartRead(PF, QF, l) /\ XV = PartRead(PV, QV, b)
    OBVIOUS
  <1>12. Rereads(s, t, PF, PV, XF, XV, QF, QV)
    BY <1>1, <1>5, <1>7, <1>8, <1>10, <1>11 DEF Rereads
  <1>13. \A k \in SymbolKinds :
           PartRead(corpora[file][k], Rows(k), Len(symbols) + (IF k = "var" THEN Len(Rows("fun")) ELSE 0))
             = IF k = "fun" THEN XF ELSE XV
    <2> SUFFICES ASSUME NEW k \in SymbolKinds
                 PROVE  PartRead(corpora[file][k], Rows(k),
                                 Len(symbols) + (IF k = "var" THEN Len(Rows("fun")) ELSE 0))
                          = IF k = "fun" THEN XF ELSE XV
      OBVIOUS
    <2>1. CASE k = "fun"
      BY <1>1, <1>4, <1>5, <1>7, <1>11, <2>1
    <2>2. CASE k = "var"
      BY <1>1, <1>4, <1>5, <1>7, <1>11, <2>2
    <2> QED
      BY <2>1, <2>2 DEF SymbolKinds
  <1>14. d = [c EXCEPT ![f] = [k \in SymbolKinds |-> IF k = "fun" THEN XF ELSE XV]]
    BY <1>1, <1>9, <1>13
  <1>15. TableRead(s, t, c, d, f, PF, PV, XF, XV, QF, QV)
    BY <1>4, <1>12, <1>14 DEF TableRead
  <1>16. Early(w, t, d, f, "aliases", n)
    BY <1>3, <1>6, <1>15, TableReread
  <1> QED
    BY <1>1, <1>3, <1>6, <1>16 DEF IInv, RightState

LEMMA LinkAliasesRight ==
    IInv /\ LinkAliases => IInv'
  <1> SUFFICES ASSUME IInv, LinkAliases
               PROVE  IInv'
    OBVIOUS
  <1>1. PICK w, s, c, f, n, t, d : /\ w = world /\ s = symbols /\ c = corpora /\ f = file /\ n = next
                                   /\ t = symbols' /\ d = corpora'
    OBVIOUS
  <1>2. phase = "aliases" /\ "aliases" \in Reading
    BY DEF LinkAliases, Going, Reading
  <1>3. w \in Worlds /\ w.tool # "abisym" /\ Early(w, s, c, f, "aliases", n)
    BY <1>1, <1>2, WhileReading DEF IInv
  <1>4. PICK k \in SymbolKinds : \E r \in corpora[file][k].unlinked :
          LET part == corpora[file][k]
              end == Linked(symbols, part, r, AliasIds(symbols, part.written[r]))
          IN  /\ symbols' = end.heap
              /\ aborted' = ~end.ok
              /\ corpora' = [corpora EXCEPT ![file][k] = RowRead(@, r)]
    BY DEF LinkAliases
  <1>10. PICK r \in corpora[file][k].unlinked :
          LET part == corpora[file][k]
              end == Linked(symbols, part, r, AliasIds(symbols, part.written[r]))
          IN  /\ symbols' = end.heap
              /\ aborted' = ~end.ok
              /\ corpora' = [corpora EXCEPT ![file][k] = RowRead(@, r)]
    BY <1>4
  <1>5. PICK part, end :
          part = c[f][k] /\ end = Linked(s, part, r, AliasIds(s, part.written[r]))
    OBVIOUS
  <1>6. /\ r \in part.unlinked /\ t = end.heap
        /\ d = [c EXCEPT ![f][k] = [part EXCEPT !.unlinked = part.unlinked \ {r}]]
    BY <1>1, <1>10, <1>5 DEF RowRead
  <1>7. Early(w, t, d, f, "aliases", n) /\ end.ok
    <2>1. RowTaken(s, c, d, f, k, part, r, end)
      BY <1>5, <1>6 DEF RowTaken
    <2>2. t = end.heap /\ k \in SymbolKinds
      BY <1>4, <1>6
    <2> HIDE <1>4, <1>10
    <2> QED
      BY <1>3, <2>1, <2>2, RowAliases
  <1>8. aborted' = FALSE
    BY <1>1, <1>10, <1>5, <1>7
  <1>9. next' = n /\ world' = w /\ file' = f /\ phase' = "aliases"
    BY <1>1, <1>2 DEF LinkAliases
  <1> QED
    BY <1>1, <1>3, <1>7, <1>8, <1>9 DEF IInv, RightState

LEMMA AliasesLinkedRight ==
    IInv /\ AliasesLinked => IInv'
  <1> SUFFICES ASSUME IInv, AliasesLinked
               PROVE  IInv'
    OBVIOUS
  <1>1. PICK w, s, c, f, n : w = world /\ s = symbols /\ c = corpora /\ f = file /\ n = next
    OBVIOUS
  <1>2. phase = "aliases" /\ "aliases" \in Reading
    BY DEF AliasesLinked, Going, Reading
  <1>3. w \in Worlds /\ w.tool # "abisym" /\ Early(w, s, c, f, "aliases", n)
    BY <1>1, <1>2, WhileReading DEF IInv
  <1>4. /\ \A k \in SymbolKinds : c[f][k].unlinked = {}
        /\ next' = 1 /\ world' = w /\ symbols' = s /\ corpora' = c /\ file' = f
        /\ phase' = "decls" /\ aborted' = aborted
    BY <1>1 DEF AliasesLinked
  <1>5. Early(w, s, c, f, "decls", 1)
    BY <1>3, <1>4, AliasesDone
  <1> QED
    BY <1>3, <1>4, <1>5 DEF IInv, RightState

LEMMA ReadXmlDeclRight ==
    IInv /\ ReadXmlDecl => IInv'
  <1> SUFFICES ASSUME IInv, ReadXmlDecl
               PROVE  IInv'
    OBVIOUS
  <1>1. PICK w, s, c, f, n, d : /\ w = world /\ s = symbols /\ c = corpora /\ f = file /\ n = next
                                /\ d = corpora'
    OBVIOUS
  <1>2. phase = "decls" /\ "decls" \in Reading /\ "decls" \in {"dies", "decls"}
    BY DEF ReadXmlDecl, Going, Reading
  <1>3. w \in Worlds /\ w.tool # "abisym" /\ Early(w, s, c, f, "decls", n)
    BY <1>1, <1>2, WhileReading DEF IInv
  <1>4. PICK k, main :
          /\ k = w.files[f].dies[n].kind /\ main = c[f][k].mainAt[w.files[f].dies[n].address]
    OBVIOUS
  <1>5. /\ n <= Len(w.files[f].dies)
        /\ main = 0 => d = c
        /\ main # 0 => \E i \in SymbolsOfId(s, c[f][k].syms, Id(s[main])) :
                         d = [c EXCEPT ![f][k] = MaybeAdd(s, c[f][k], i)]
        /\ aborted' = aborted /\ symbols' = s
        /\ next' = n + 1 /\ world' = w /\ file' = f /\ phase' = "decls"
    BY <1>1, <1>2, <1>4 DEF ReadXmlDecl, MainAt, Dies
  <1>6. Early(w, s, d, f, "decls", n + 1)
    <2>1. CASE main = 0
      BY <1>2, <1>3, <1>4, <1>5, <2>1, DieSkipped
    <2>2. CASE main # 0
      <3>1. PICK i \in SymbolsOfId(s, c[f][k].syms, Id(s[main])) :
              d = [c EXCEPT ![f][k] = MaybeAdd(s, c[f][k], i)]
        BY <1>5, <2>2
      <3>2. n <= Len(w.files[f].dies) /\ k = w.files[f].dies[n].kind
        BY <1>4, <1>5
      <3>3. main = c[f][k].mainAt[w.files[f].dies[n].address] /\ main # 0
        BY <1>4, <2>2
      <3> QED
        BY <1>3, <3>1, <3>2, <3>3, XmlDecl
    <2> QED
      BY <2>1, <2>2
  <1> QED
    BY <1>1, <1>3, <1>5, <1>6 DEF IInv, RightState

LEMMA NextFileRight ==
    IInv /\ NextFile => IInv'
  <1> SUFFICES ASSUME IInv, NextFile
               PROVE  IInv'
    OBVIOUS
  <1>1. PICK w, s, c, f, p, n, q, h, later :
          /\ w = world /\ s = symbols /\ c = corpora /\ f = file /\ p = phase /\ n = next
          /\ q = phase' /\ h = file' /\ later = {g \in DOMAIN w.files : Before(f, g)}
    OBVIOUS
  <1>2. FileDone(w, f, p, n) /\ p \in Reading
    BY <1>1 DEF NextFile, FileDone, Going, Dies, Reading
  <1>3. w \in Worlds /\ w.tool # "abisym" /\ Early(w, s, c, f, p, n)
    BY <1>1, <1>2, WhileReading DEF IInv
  <1>4. next' = 1 /\ world' = w /\ symbols' = s /\ corpora' = c /\ aborted' = aborted
    BY <1>1 DEF NextFile
  <1>5. CASE later = {}
    <2>1. q = AfterReading /\ h = f
      BY <1>1, <1>5 DEF NextFile, Later
    <2>2. q \in Ending /\ (q = "keep" => w.tool = "abicompat")
      BY <1>1, <2>1 DEF AfterReading, Ending
    <2>3. \A g \in DOMAIN w.files : ~Before(f, g)
      BY <1>1, <1>5
    <2>4. Late(w, s, c, f, q, 1)
      BY <1>2, <1>3, <2>2, <2>3, FilesDone
    <2> QED
      BY <1>1, <1>3, <1>4, <2>1, <2>4 DEF IInv, RightState
  <1>6. CASE later # {}
    <2>1. q = "symbols" /\ h = FirstOf(later)
      BY <1>1, <1>6 DEF NextFile, Later
    <2>2. Early(w, s, c, h, "symbols", 1)
      BY <1>1, <1>2, <1>3, <1>6, <2>1, FileNext
    <2> QED
      BY <1>1, <1>3, <1>4, <2>1, <2>2 DEF IInv, RightState
  <1> QED
    BY <1>5, <1>6

LEMMA SetPatternsRight ==
    IInv /\ SetPatterns => IInv'
  <1> SUFFICES ASSUME IInv, SetPatterns
               PROVE  IInv'
    OBVIOUS
  <1>1. PICK w, s, c, f, n, d :
          /\ w = world /\ s = symbols /\ c = corpora /\ f = file /\ n = next /\ d = corpora'
    OBVIOUS
  <1>2. phase = "options" /\ "options" \in Ending /\ "compare" \in Ending
    BY DEF SetPatterns, Going, Ending
  <1>3. w \in Worlds /\ w.tool # "abisym" /\ Late(w, s, c, f, "options", n)
    BY <1>1, <1>2, AfterwardsLate DEF IInv
  <1>4. /\ d = [g \in DOMAIN c |-> [k \in SymbolKinds |->
                  [c[g][k] EXCEPT !.toSuppress = w.toSuppress[k], !.toKeep = w.toKeep[k]]]]
        /\ next' = n /\ world' = w /\ symbols' = s /\ file' = f
        /\ phase' = "compare" /\ aborted' = aborted
    BY <1>1 DEF SetPatterns
  <1>5. CorporaIn(w, c) /\ \A g \in DOMAIN w.files : \A k \in SymbolKinds : ReadPart(w, s, c[g][k], g, k)
    BY <1>3 DEF Late
  <1>6. DOMAIN c = DOMAIN w.files
    BY <1>5 DEF CorporaIn
  <1>7. CorporaIn(w, d)
    BY <1>4, <1>6 DEF CorporaIn
  <1>8. ASSUME NEW g \in DOMAIN w.files, NEW k \in SymbolKinds
        PROVE  StaysRead(w, s, c[g][k], d[g][k], g, k)
    <2>1. PICK part, X, a, b : part = c[g][k] /\ X = d[g][k] /\ a = w.toSuppress[k] /\ b = w.toKeep[k]
      OBVIOUS
    <2>2. PatternsIn(X, part, a, b)
      BY <1>4, <1>6, <1>8, <2>1 DEF PatternsIn
    <2>3. a \in Seq(SUBSET STRING) /\ b \in Seq(SUBSET STRING)
      BY <1>3, <1>8, <2>1, FilesAssumption
    <2>4. ReadPart(w, s, part, g, k)
      BY <1>5, <1>8, <2>1
    <2> QED
      BY <2>1, <2>2, <2>3, <2>4, PatternsSet
  <1>9. \A g \in DOMAIN w.files : \A k \in SymbolKinds :
          ReadPart(w, s, d[g][k], g, k) /\ (AllRead(w, s, c[g][k], g, k) => AllRead(w, s, d[g][k], g, k))
    BY <1>8 DEF StaysRead
  <1>10. ~Selected(w, "options")
    BY DEF Selected
  <1>11. Late(w, s, d, f, "compare", n)
    BY <1>2, <1>3, <1>7, <1>9, <1>10, LateChanged
  <1> QED
    BY <1>1, <1>3, <1>4, <1>11 DEF IInv, RightState

LEMMA KeepNeededRight ==
    IInv /\ KeepNeeded => IInv'
  <1> SUFFICES ASSUME IInv, KeepNeeded
               PROVE  IInv'
    OBVIOUS
  <1>1. PICK w, s, c, f, n, d, q :
          /\ w = world /\ s = symbols /\ c = corpora /\ f = file /\ n = next /\ d = corpora' /\ q = phase'
    OBVIOUS
  <1>2. phase = "keep" /\ "keep" \in Ending
    BY DEF KeepNeeded, Going, Ending
  <1>3. w \in Worlds /\ w.tool # "abisym" /\ Late(w, s, c, f, "keep", n)
    BY <1>1, <1>2, AfterwardsLate DEF IInv
  <1>4. PICK ids : ids = [k \in SymbolKinds |-> NeededIds(k)]
    OBVIOUS
  <1>5. PICK none : none = \A k \in SymbolKinds : ids[k] = <<>>
    OBVIOUS
  <1>6. d = [g \in DOMAIN c |->
              IF g \notin Libs THEN c[g]
              ELSE [k \in SymbolKinds |->
                      IF none THEN [c[g][k] EXCEPT !.keep = c[g][k].keep \o ids[k]]
                      ELSE DropDecls([c[g][k] EXCEPT !.keep = c[g][k].keep \o ids[k]])]]
    BY <1>1, <1>4, <1>5 DEF KeepNeeded
  <1>7. /\ next' = n /\ world' = w /\ symbols' = s /\ file' = f /\ aborted' = aborted
        /\ q \in {"compare", "done"}
    BY <1>1 DEF KeepNeeded
  <1>8. /\ w.tool = "abicompat" /\ Heap(s) /\ CorporaIn(w, c)
        /\ \A g \in DOMAIN w.files : \A k \in SymbolKinds : ReadPart(w, s, c[g][k], g, k)
    BY <1>3 DEF Late
  <1>9. DOMAIN c = DOMAIN w.files /\ \A g \in DOMAIN w.files : c[g] = [k \in SymbolKinds |-> c[g][k]]
    BY <1>8 DEF CorporaIn
  <1>10. CorporaIn(w, d)
    BY <1>6, <1>9 DEF CorporaIn
  <1>11. ASSUME NEW k \in SymbolKinds
         PROVE  ids[k] \in Seq(Ids)
    <2>1. "app" \in DOMAIN w.files
      BY <1>3, <1>8, FilesAre
    <2>2. PICK part, L : part = c["app"][k] /\ L = Sorted(s, part.undefined)
      OBVIOUS
    <2>3. ReadPart(w, s, part, "app", k)
      BY <1>8, <1>11, <2>1, <2>2
    <2>4. [i \in DOMAIN L |-> Id(s[L[i]])] \in Seq(Ids)
      BY <1>8, <2>2, <2>3, UndefinedIds
    <2>5. ids[k] = [i \in DOMAIN L |-> Id(s[L[i]])]
      BY <1>1, <1>4, <1>11, <2>2 DEF NeededIds
    <2> QED
      BY <2>4, <2>5
  <1>12. ASSUME NEW g \in DOMAIN w.files, NEW k \in SymbolKinds
         PROVE  ReadPart(w, s, d[g][k], g, k)
    <2>1. PICK part, X : part = c[g][k] /\ X = [part EXCEPT !.keep = part.keep \o ids[k]]
      OBVIOUS
    <2>2. ReadPart(w, s, part, g, k) /\ ids[k] \in Seq(Ids)
      BY <1>8, <1>11, <1>12, <2>1
    <2>3. KeepIn(X, part, ids[k])
      BY <2>1 DEF KeepIn
    <2>4. ReadPart(w, s, X, g, k)
      <3>1. PICK new : new = ids[k]
        OBVIOUS
      <3>2. new \in Seq(Ids) /\ KeepIn(X, part, new)
        BY <2>2, <2>3, <3>1
      <3> QED
        BY <2>2, <3>2, KeepAdded DEF StaysRead
    <2>5. ReadPart(w, s, DropDecls(X), g, k)
      <3>1. DeclsIn(DropDecls(X), X, {a \in ToSet(X.decls) : Keep(symbols[a], X)})
        BY DEF DropDecls, DeclsIn
      <3>2. PICK Y, T : Y = DropDecls(X) /\ T = {a \in ToSet(X.decls) : Keep(symbols[a], X)}
        OBVIOUS
      <3>3. DeclsIn(Y, X, T)
        BY <3>1, <3>2
      <3>4. ReadPart(w, s, Y, g, k)
        BY <2>4, <3>3, DeclsDropped
      <3> QED
        BY <3>2, <3>4
    <2>6. d[g][k] = part \/ d[g][k] = X \/ d[g][k] = DropDecls(X)
      BY <1>6, <1>9, <1>12, <2>1
    <2> QED
      BY <2>2, <2>4, <2>5, <2>6
  <1>13. q \in Ending /\ (q = "keep" => w.tool = "abicompat") /\ Selected(w, q)
    BY <1>7, <1>8 DEF Ending, Selected
  <1>14. Late(w, s, d, f, q, n)
    BY <1>3, <1>10, <1>12, <1>13, LateChanged
  <1> QED
    BY <1>1, <1>3, <1>7, <1>14 DEF IInv, RightState

LEMMA CompareRight ==
    IInv /\ Compare => IInv'
  <1> SUFFICES ASSUME IInv, Compare
               PROVE  IInv'
    OBVIOUS
  <1>1. PICK w, s, c, f, n, d :
          /\ w = world /\ s = symbols /\ c = corpora /\ f = file /\ n = next /\ d = corpora'
    OBVIOUS
  <1>2. phase = "compare" /\ "compare" \in Ending /\ "done" \in Ending
    BY DEF Compare, Going, Ending
  <1>3. w \in Worlds /\ w.tool # "abisym" /\ Late(w, s, c, f, "compare", n)
    BY <1>1, <1>2, AfterwardsLate DEF IInv
  <1>4. /\ d = [g \in DOMAIN c |->
                 IF g \notin Libs THEN c[g]
                 ELSE [k \in SymbolKinds |-> [c[g][k] EXCEPT !.unreferenced = Unreferenced(c[g][k])]]]
        /\ next' = n /\ world' = w /\ symbols' = s /\ file' = f
        /\ phase' = "done" /\ aborted' = aborted
    BY <1>1 DEF Compare
  <1>5. CorporaIn(w, c) /\ \A g \in DOMAIN w.files : \A k \in SymbolKinds : ReadPart(w, s, c[g][k], g, k)
    BY <1>3 DEF Late
  <1>6. DOMAIN c = DOMAIN w.files /\ \A g \in DOMAIN w.files : c[g] = [k \in SymbolKinds |-> c[g][k]]
    BY <1>5 DEF CorporaIn
  <1>7. CorporaIn(w, d)
    BY <1>4, <1>6 DEF CorporaIn
  <1>8. ASSUME NEW g \in DOMAIN w.files, NEW k \in SymbolKinds
        PROVE  StaysRead(w, s, c[g][k], d[g][k], g, k)
    <2>1. PICK part, X : part = c[g][k] /\ X = d[g][k]
      OBVIOUS
    <2>2. ReadPart(w, s, part, g, k)
      BY <1>5, <1>8, <2>1
    <2>3. CASE g \notin Libs
      <3>1. X = part
        BY <1>4, <1>6, <1>8, <2>1, <2>3
      <3> QED
        BY <2>1, <2>2, <3>1 DEF StaysRead
    <2>4. CASE g \in Libs
      <3>1. PICK U : U = Unreferenced(part)
        OBVIOUS
      <3>2. U \in SUBSET ToSet(part.syms)
        BY <3>1 DEF Unreferenced
      <3>3. UnreferencedIn(X, part, U)
        BY <1>4, <1>6, <1>8, <2>1, <2>4, <3>1 DEF UnreferencedIn
      <3> QED
        BY <2>1, <2>2, <3>2, <3>3, UnreferencedTold
    <2> QED
      BY <2>3, <2>4
  <1>9. \A g \in DOMAIN w.files : \A k \in SymbolKinds :
          ReadPart(w, s, d[g][k], g, k) /\ (AllRead(w, s, c[g][k], g, k) => AllRead(w, s, d[g][k], g, k))
    BY <1>8 DEF StaysRead
  <1>10. Selected(w, "done") \/ ~Selected(w, "compare")
    BY DEF Selected
  <1>11. Late(w, s, d, f, "done", n)
    BY <1>2, <1>3, <1>7, <1>9, <1>10, LateChanged
  <1> QED
    BY <1>1, <1>3, <1>4, <1>11 DEF IInv, RightState

LEMMA LookUpRight ==
    IInv /\ LookUp => IInv'
  <1> SUFFICES ASSUME IInv, LookUp
               PROVE  IInv'
    OBVIOUS
  <1>1. /\ phase = "lookup" /\ phase' = "done"
        /\ world' = world /\ symbols' = symbols /\ corpora' = corpora /\ file' = file /\ next' = next
        /\ aborted' = aborted
    BY DEF LookUp, Going
  <1>2. world.tool = "abisym"
    BY <1>1, EarlyOrLate DEF IInv, RightState
  <1> QED
    BY <1>1, <1>2 DEF IInv, RightState

LEMMA NothingRight ==
    IInv /\ UNCHANGED vars => IInv'
  BY DEF vars, IInv

(* Whatever the files are, in whatever order they are read, linked and       *)
(* compared, the invariant holds.                                           *)
THEOREM InvariantHolds == Spec => []IInv
  <1>1. Init => IInv
    BY StartsRight
  <1>2. IInv /\ [Next]_vars => IInv'
    BY LoadPublicRight, LoadUndefinedRight, SkipSymbolRight, SymbolsLoadedRight, ReadDieRight,
       ReadSymbolDbRight, LinkAliasesRight, AliasesLinkedRight, ReadXmlDeclRight, NextFileRight,
       SetPatternsRight, KeepNeededRight, CompareRight, LookUpRight, NothingRight DEF Next
  <1> QED
    BY <1>1, <1>2, PTL DEF Spec

-----------------------------------------------------------------------------
(* The rings of a corpus that has been read                                 *)

AllOf(elf, k) == Loaded(elf, k, Len(SymbolTable(elf)))

\* The ring at an address, and what finds it.
RingFound(s, part, elf, k, v, L) ==
    /\ RingAt(s, ToSet(part.syms), elf, k, v, L)
    /\ part.mainAt[v] \in 1 .. Len(s) /\ SameSymbol(s[part.mainAt[v]], s[L[1]])

RingsAre(s, part, elf, k) ==
    /\ SymbolsAre(s, ToSet(part.syms), elf, AllOf(elf, k))
    /\ \A v \in DOMAIN part.mainAt :
         /\ part.mainAt[v] = 0 => At(elf, k, v) = {}
         /\ part.mainAt[v] # 0 => \E L : RingFound(s, part, elf, k, v, L)

LEMMA SymbolsOfRows ==
    ASSUME NEW s, NEW part, NEW read, NEW k, NEW m, XmlPart(s, part, read, k, m)
    PROVE  SymbolsAre(s, ToSet(part.syms), read.elf, Loaded(read.elf, k, m))
  <1>1. /\ RowsRight(s, part) /\ part.syms \in Seq(Nat) /\ part.written \in Seq(Nat)
        /\ Len(part.syms) = Len(part.written) /\ Len(part.written) \in Nat
        /\ SymbolsAre(s, ToSet(part.written), read.elf, Loaded(read.elf, k, m))
    BY XmlPartRows
  <1>2. PICK n \in Nat : n = Len(part.written) /\ n = Len(part.syms)
    BY <1>1
  <1>3. /\ ToSet(part.syms) \subseteq 1 .. Len(s)
        /\ OneEach(part.written)
        /\ \A r \in 1 .. n : SameSymbol(s[part.syms[r]], s[part.written[r]])
    BY <1>1, <1>2 DEF RowsRight
  <1>4. \A r \in 1 .. n : part.syms[r] \in ToSet(part.syms) /\ part.written[r] \in ToSet(part.written)
    BY <1>1, <1>2, InToSet
  <1>5. \A i \in ToSet(part.syms) : \E r \in 1 .. n : i = part.syms[r]
    BY <1>2, RowOfSymbol
  <1>6. ASSUME NEW i \in ToSet(part.syms)
        PROVE  \E e \in Loaded(read.elf, k, m) : Is(s, i, read.elf, e)
    <2>1. PICK r \in 1 .. Len(part.written) : i = part.syms[r]
      BY <1>6, RowOfSymbol
    <2>2. \E e \in Loaded(read.elf, k, m) : Is(s, part.syms[r], read.elf, e)
      BY <2>1, RowIs
    <2> QED
      BY <2>1, <2>2
  <1>7. ASSUME NEW e \in Loaded(read.elf, k, m)
        PROVE  \E i \in ToSet(part.syms) : Is(s, i, read.elf, e)
    <2>1. PICK i \in ToSet(part.written) : Is(s, i, read.elf, e)
      BY <1>1, <1>7 DEF SymbolsAre
    <2>2. PICK r \in 1 .. n : i = part.written[r]
      BY <1>1, <1>2, <2>1, LenProperties DEF ToSet
    <2>3. Is(s, part.syms[r], read.elf, e)
      BY <1>3, <2>1, <2>2, SameIsEquivalence DEF Is
    <2> QED
      BY <1>4, <2>2, <2>3
  <1>8. ASSUME NEW i \in ToSet(part.syms), NEW j \in ToSet(part.syms), SameSymbol(s[i], s[j])
        PROVE  i = j
    BY <1>8, SameId, RowIds
  <1> QED
    BY <1>3, <1>6, <1>7, <1>8 DEF SymbolsAre

LEMMA RingOfRows ==
    ASSUME NEW s, NEW part, NEW read, NEW k, NEW m, XmlPart(s, part, read, k, m),
           part.unlinked = {}, NEW v, NEW L, NEW R,
           RingAt(s, ToSet(part.written), read.elf, k, v, L), Retied(s, part, L, R)
    PROVE  RingAt(s, ToSet(part.syms), read.elf, k, v, RowsOf(part, R))
  <1>1. /\ RowsRight(s, part) /\ part.syms \in Seq(Nat) /\ part.written \in Seq(Nat)
        /\ Len(part.syms) = Len(part.written) /\ Len(part.written) \in Nat
    BY XmlPartRows
  <1>2. PICK n : n = Len(part.written)
    OBVIOUS
  <1>3. /\ OneEach(part.written)
        /\ \A r \in 1 .. n : SameSymbol(s[part.syms[r]], s[part.written[r]])
    BY <1>1, <1>2 DEF RowsRight
  <1>4. IsRing(s, L) /\ ToSet(L) = Group(s, ToSet(part.written), read.elf, k, v)
        /\ Is(s, L[1], read.elf, Min(At(read.elf, k, v)))
    BY DEF RingAt
  <1>5. PICK l : l = Len(L)
    OBVIOUS
  <1>6. /\ l \in Nat /\ 1 \in 1 .. l /\ Len(R) = l
        /\ RowsOf(part, R) \in Seq(ToSet(part.syms)) /\ Len(RowsOf(part, R)) = l
        /\ \A j \in 1 .. l : /\ R[j] \in 1 .. n /\ part.written[R[j]] = L[j]
                             /\ RowsOf(part, R)[j] = part.syms[R[j]]
                             /\ part.syms[R[j]] \in ToSet(part.syms)
    BY <1>2, <1>4, <1>5, RetiedRows
  <1>7. PICK LL : LL = RowsOf(part, R)
    OBVIOUS
  <1>8. IsRing(s, LL)
    BY <1>7 DEF Retied
  <1>9. /\ \A j \in 1 .. l : LL[j] \in ToSet(LL)
        /\ \A i \in ToSet(LL) : \E j \in 1 .. l : i = LL[j]
        /\ \A j \in 1 .. l : L[j] \in ToSet(L)
        /\ \A i \in ToSet(L) : \E j \in 1 .. l : i = L[j]
    <2>1. DOMAIN LL = 1 .. l /\ DOMAIN L = 1 .. l
      BY <1>4, <1>5, <1>6, <1>7, LenProperties DEF IsRing
    <2> QED
      BY <2>1 DEF ToSet
  <1>10. \A j \in 1 .. l : SameSymbol(s[LL[j]], s[L[j]]) /\ SameSymbol(s[L[j]], s[LL[j]])
    BY <1>3, <1>6, <1>7, SameIsEquivalence
  <1>11. ToSet(LL) \subseteq Group(s, ToSet(part.syms), read.elf, k, v)
    <2> SUFFICES ASSUME NEW j \in 1 .. l
                 PROVE  LL[j] \in Group(s, ToSet(part.syms), read.elf, k, v)
      BY <1>9
    <2>1. PICK e \in At(read.elf, k, v) : Is(s, L[j], read.elf, e)
      BY <1>4, <1>9 DEF Group
    <2>2. Is(s, LL[j], read.elf, e)
      BY <1>10, <2>1, SameIsEquivalence DEF Is
    <2> QED
      BY <1>6, <1>7, <2>1, <2>2 DEF Group
  <1>12. Group(s, ToSet(part.syms), read.elf, k, v) \subseteq ToSet(LL)
    <2> SUFFICES ASSUME NEW i \in ToSet(part.syms), NEW e \in At(read.elf, k, v), Is(s, i, read.elf, e)
                 PROVE  i \in ToSet(LL)
      BY DEF Group
    <2>1. PICK r \in 1 .. n : i = part.syms[r]
      BY <1>2, RowOfSymbol
    <2>2. Is(s, part.written[r], read.elf, e)
      BY <1>3, <2>1, SameIsEquivalence DEF Is
    <2>3. part.written[r] \in ToSet(part.written)
      BY <1>1, <1>2, InToSet
    <2>4. part.written[r] \in ToSet(L)
      BY <1>4, <2>2, <2>3 DEF Group
    <2>5. PICK j \in 1 .. l : part.written[r] = L[j]
      BY <1>9, <2>4
    <2>6. r = R[j]
      BY <1>2, <1>3, <1>6, <2>5 DEF OneEach
    <2> QED
      BY <1>6, <1>7, <1>9, <2>1, <2>6
  <1>13. Is(s, LL[1], read.elf, Min(At(read.elf, k, v)))
    BY <1>4, <1>6, <1>10, SameIsEquivalence DEF Is
  <1> QED
    BY <1>7, <1>8, <1>11, <1>12, <1>13 DEF RingAt

LEMMA AtLoaded ==
    ASSUME NEW read, GoodRead(read), NEW k, NEW v, NEW e \in At(read.elf, k, v)
    PROVE  e \in AllOf(read.elf, k)
  <1>1. /\ e \in PublicEntries(read.elf) /\ e \in 1 .. Len(SymbolTable(read.elf))
        /\ \A m \in Nat : e <= m => e \in Loaded(read.elf, k, m)
    BY AtIs
  <1>2. Len(SymbolTable(read.elf)) \in Nat
    BY TableIs
  <1> QED
    BY <1>1, <1>2 DEF AllOf

LEMMA PartRings ==
    ASSUME NEW w, NEW s, NEW part, NEW g, NEW k, ReadPart(w, s, part, g, k), Heap(s),
           NEW read, read = w.files[g], GoodRead(read)
    PROVE  RingsAre(s, part, read.elf, k)
  <1>1. PICK m, e, source :
          /\ m = Len(SymbolTable(read.elf)) /\ e = Len(read.dies) /\ source = SourceOf(w, g)
    OBVIOUS
  <1>2. PartIs(s, part, read, k, m, e, source) /\ part.unlinked = {}
    BY <1>1 DEF ReadPart
  <1>3. part \in Parts(Addresses(read)) /\ PartRight(s, part, read.elf, k, m, source)
    BY <1>2 DEF PartIs
  <1>4. source \in {"xml", "elf"}
    BY <1>1 DEF SourceOf
  <1>5. SymbolsAre(s, ToSet(part.syms), read.elf, AllOf(read.elf, k))
    <2>1. CASE source = "xml"
      <3>1. XmlPart(s, part, read, k, m)
        BY <1>3, <2>1 DEF XmlPart
      <3> QED
        BY <1>1, <3>1, SymbolsOfRows DEF AllOf
    <2>2. CASE source = "elf"
      BY <1>1, <1>3, <2>2 DEF PartRight, Firsts, AllOf
    <2> QED
      BY <1>4, <2>1, <2>2
  <1>6. ASSUME NEW v \in DOMAIN part.mainAt, part.mainAt[v] = 0
        PROVE  At(read.elf, k, v) = {}
    <2>1. Group(s, Firsts(part, source), read.elf, k, v) = {}
      BY <1>3, <1>6 DEF PartRight, AddressRight
    <2>2. SymbolsAre(s, Firsts(part, source), read.elf, AllOf(read.elf, k))
      BY <1>1, <1>3 DEF PartRight, AllOf
    <2> SUFFICES ASSUME NEW a \in At(read.elf, k, v)
                 PROVE  FALSE
      OBVIOUS
    <2>3. a \in AllOf(read.elf, k)
      BY AtLoaded
    <2>4. \E i \in Firsts(part, source) : Is(s, i, read.elf, a)
      BY <2>2, <2>3 DEF SymbolsAre
    <2> QED
      BY <2>1, <2>4 DEF Group
  <1>7. ASSUME NEW v \in DOMAIN part.mainAt, part.mainAt[v] # 0
        PROVE  \E L : RingFound(s, part, read.elf, k, v, L)
    <2>1. PICK L : RingIsRight(s, part, read.elf, k, v, source, L)
      BY <1>3, <1>7 DEF PartRight, AddressRight
    <2>2. /\ RingAt(s, Firsts(part, source), read.elf, k, v, L) /\ L[1] = part.mainAt[v]
          /\ source = "xml" => \E R : Retied(s, part, L, R)
      BY <2>1 DEF RingIsRight
    <2>3. part.mainAt[v] \in 1 .. Len(s)
      BY <1>3, <1>7, MainIs
    <2>4. CASE source = "elf"
      <3>1. RingAt(s, ToSet(part.syms), read.elf, k, v, L)
        BY <2>2, <2>4 DEF Firsts
      <3> QED
        BY <2>2, <2>3, <3>1, SameIsEquivalence DEF RingFound
    <2>5. CASE source = "xml"
      <3>1. XmlPart(s, part, read, k, m)
        BY <1>3, <2>5 DEF XmlPart
      <3>2. PICK R : Retied(s, part, L, R)
        BY <2>2, <2>5
      <3>3. RingAt(s, ToSet(part.written), read.elf, k, v, L)
        BY <2>2, <2>5 DEF Firsts
      <3>4. RingAt(s, ToSet(part.syms), read.elf, k, v, RowsOf(part, R))
        BY <1>2, <3>1, <3>2, <3>3, RingOfRows
      <3>5. SameSymbol(s[part.mainAt[v]], s[RowsOf(part, R)[1]])
        <4>1. Is(s, part.mainAt[v], read.elf, Min(At(read.elf, k, v)))
          BY <2>2 DEF RingAt
        <4>2. Is(s, RowsOf(part, R)[1], read.elf, Min(At(read.elf, k, v)))
          BY <3>4 DEF RingAt
        <4> QED
          BY <4>1, <4>2, SameIsEquivalence DEF Is
      <3>6. PICK LL : LL = RowsOf(part, R)
        OBVIOUS
      <3> QED
        BY <2>3, <3>4, <3>5, <3>6 DEF RingFound
    <2> QED
      BY <1>4, <2>4, <2>5
  <1> QED
    BY <1>5, <1>6, <1>7 DEF RingsAre

RingedPart(s, part, read, k) ==
    /\ GoodRead(read) /\ Heap(s) /\ part \in Parts(Addresses(read))
    /\ RingsAre(s, part, read.elf, k) /\ OneEach(part.syms)

LEMMA ReadRinged ==
    ASSUME NEW w, NEW s, NEW part, NEW g, NEW k, ReadPart(w, s, part, g, k), Heap(s),
           GoodRead(w.files[g])
    PROVE  RingedPart(s, part, w.files[g], k)
  <1>1. PICK read, m, e, source :
          /\ read = w.files[g] /\ m = Len(SymbolTable(read.elf)) /\ e = Len(read.dies)
          /\ source = SourceOf(w, g)
    OBVIOUS
  <1>2. PartIs(s, part, read, k, m, e, source)
    BY <1>1 DEF ReadPart
  <1>3. part \in Parts(Addresses(read)) /\ PartRight(s, part, read.elf, k, m, source)
    BY <1>2 DEF PartIs
  <1>4. OneEach(part.syms)
    BY <1>3 DEF PartRight, RowsRight
  <1>5. RingsAre(s, part, read.elf, k)
    BY <1>1, PartRings
  <1> QED
    BY <1>1, <1>3, <1>4, <1>5 DEF RingedPart

LEMMA RingElements ==
    ASSUME NEW s, Heap(s), NEW L, IsRing(s, L), NEW n, n = Len(L)
    PROVE  /\ n \in Nat /\ 1 \in 1 .. n /\ DOMAIN L = 1 .. n /\ L \in Seq(1 .. Len(s))
           /\ \A j \in 1 .. n : L[j] \in ToSet(L) /\ L[j] \in 1 .. Len(s) /\ s[L[j]].main = L[1]
           /\ \A i \in ToSet(L) : \E j \in 1 .. n : i = L[j]
           /\ \A i, j \in 1 .. n : L[i] = L[j] => i = j
  <1>1. /\ n \in Nat /\ n >= 1 /\ DOMAIN L = 1 .. n /\ \A j \in 1 .. n : L[j] \in 1 .. Len(s)
    BY RingParts
  <1>2. L \in Seq(1 .. Len(s)) /\ \A j \in 1 .. n : s[L[j]].main = L[1]
    BY DEF IsRing
  <1>3. \A i, j \in 1 .. n : L[i] = L[j] => i = j
    BY DEF IsRing, OneEach
  <1>4. (\A j \in 1 .. n : L[j] \in ToSet(L)) /\ \A i \in ToSet(L) : \E j \in 1 .. n : i = L[j]
    BY <1>1 DEF ToSet
  <1>5. n \in Nat /\ 1 \in 1 .. n /\ DOMAIN L = 1 .. n /\ L \in Seq(1 .. Len(s))
    BY <1>1, <1>2
  <1>6. \A j \in 1 .. n : L[j] \in ToSet(L) /\ L[j] \in 1 .. Len(s) /\ s[L[j]].main = L[1]
    BY <1>1, <1>2, <1>4
  <1> QED
    BY <1>3, <1>4, <1>5, <1>6

LEMMA RingThere ==
    ASSUME NEW s, NEW part, NEW read, NEW k, RingedPart(s, part, read, k),
           NEW v \in DOMAIN part.mainAt, At(read.elf, k, v) # {}
    PROVE  \E L : RingFound(s, part, read.elf, k, v, L)
  BY DEF RingedPart, RingsAre

LEMMA RingAnyAddress ==
    ASSUME NEW s, NEW part, NEW read, NEW k, RingedPart(s, part, read, k),
           NEW v, NEW L, RingFound(s, part, read.elf, k, v, L)
    PROVE  /\ IsRing(s, L) /\ ToSet(L) = Group(s, ToSet(part.syms), read.elf, k, v)
           /\ ToSet(L) \subseteq ToSet(part.syms)
           /\ Is(s, L[1], read.elf, Min(At(read.elf, k, v)))
           /\ At(read.elf, k, v) # {} /\ L[1] \in ToSet(L) /\ L[1] \in ToSet(part.syms)
           /\ s[L[1]].main = L[1]
  <1>1. /\ IsRing(s, L) /\ ToSet(L) = Group(s, ToSet(part.syms), read.elf, k, v)
        /\ Is(s, L[1], read.elf, Min(At(read.elf, k, v)))
    BY DEF RingFound, RingAt
  <1>2. PICK n : n = Len(L)
    OBVIOUS
  <1>3. Heap(s)
    BY DEF RingedPart
  <1>4. 1 \in 1 .. n /\ L[1] \in ToSet(L) /\ s[L[1]].main = L[1]
    BY <1>1, <1>2, <1>3, RingElements
  <1>5. ToSet(L) \subseteq ToSet(part.syms)
    BY <1>1 DEF Group
  <1>6. At(read.elf, k, v) # {}
    BY <1>1, <1>4 DEF Group
  <1> QED
    BY <1>1, <1>4, <1>5, <1>6

LEMMA RingOf ==
    ASSUME NEW s, NEW part, NEW read, NEW k, RingedPart(s, part, read, k),
           NEW i \in ToSet(part.syms)
    PROVE  \E v \in DOMAIN part.mainAt : \E L :
             RingFound(s, part, read.elf, k, v, L) /\ i \in ToSet(L)
  <1>1. GoodRead(read) /\ Heap(s) /\ SymbolsAre(s, ToSet(part.syms), read.elf, AllOf(read.elf, k))
        /\ part \in Parts(Addresses(read))
    BY DEF RingedPart, RingsAre
  <1>2. PICK e \in AllOf(read.elf, k) : Is(s, i, read.elf, e)
    BY <1>1 DEF SymbolsAre
  <1>3. e \in PublicEntries(read.elf) /\ KindOf(SymbolTable(read.elf)[e]) = k
    BY <1>2 DEF AllOf, Loaded
  <1>4. PICK v : v = SymbolTable(read.elf)[e].value
    OBVIOUS
  <1>5. e \in At(read.elf, k, v)
    BY <1>3, <1>4 DEF At
  <1>6. e \in 1 .. Len(SymbolTable(read.elf))
    BY <1>1, <1>5, AtIs
  <1>7. v \in DOMAIN part.mainAt
    BY <1>1, <1>4, <1>6, AddressesKnown
  <1>8. PICK L : RingFound(s, part, read.elf, k, v, L)
    BY <1>5, <1>7, RingThere
  <1>9. ToSet(L) = Group(s, ToSet(part.syms), read.elf, k, v)
    BY <1>8 DEF RingFound, RingAt
  <1>10. i \in ToSet(L)
    BY <1>2, <1>5, <1>9 DEF Group
  <1> QED
    BY <1>7, <1>8, <1>10

\* The symbols of a part have ids of their own.
LEMMA PartIds ==
    ASSUME NEW s, NEW part, NEW read, NEW k, RingedPart(s, part, read, k),
           NEW i \in ToSet(part.syms), NEW j \in ToSet(part.syms), Id(s[i]) = Id(s[j])
    PROVE  i = j
  <1>1. GoodRead(read) /\ SymbolsAre(s, ToSet(part.syms), read.elf, AllOf(read.elf, k))
    BY DEF RingedPart, RingsAre
  <1>2. PICK e \in AllOf(read.elf, k), d \in AllOf(read.elf, k) : Is(s, i, read.elf, e) /\ Is(s, j, read.elf, d)
    BY <1>1 DEF SymbolsAre
  <1>3. e \in PublicEntries(read.elf) /\ d \in PublicEntries(read.elf)
    BY <1>2 DEF AllOf, Loaded
  <1>4. SameSymbol(s[i], s[j])
    BY <1>1, <1>2, <1>3, SameEntry DEF Is
  <1> QED
    BY <1>1, <1>4 DEF SymbolsAre

RingIdsIn(s, i) ==
    [j \in 1 .. (1 + Len(NextAliases(s, i))) |-> Id(s[(<<i>> \o NextAliases(s, i))[j]])]

LEMMA RingUnrolled ==
    ASSUME NEW s, Heap(s), NEW L, IsRing(s, L), NEW n, n = Len(L)
    PROVE  /\ <<L[1]>> \o NextAliases(s, L[1]) = L
           /\ 1 + Len(NextAliases(s, L[1])) = n
           /\ ToSet(NextAliases(s, L[1])) = ToSet(L) \ {L[1]}
           /\ OneEach(NextAliases(s, L[1]))
           /\ NextAliases(s, L[1]) \in Seq(1 .. Len(s))
  <1>1. /\ n \in Nat /\ 1 \in 1 .. n /\ DOMAIN L = 1 .. n /\ L \in Seq(1 .. Len(s))
        /\ \A j \in 1 .. n : L[j] \in ToSet(L) /\ L[j] \in 1 .. Len(s)
        /\ \A i \in ToSet(L) : \E j \in 1 .. n : i = L[j]
        /\ \A i, j \in 1 .. n : L[i] = L[j] => i = j
    BY RingElements
  <1>2. PICK N, m : N = NextAliases(s, L[1]) /\ m = n - 1
    OBVIOUS
  <1>3. m \in Nat /\ n = m + 1
    BY <1>1, <1>2
  <1>4. N = [k \in 1 .. m |-> L[1 + k]]
    <2>1. 1 \in 1 .. Len(L)
      BY <1>1
    <2>2. NextAliases(s, L[1]) = [k \in 1 .. Len(L) - 1 |-> L[1 + k]]
      BY <2>1, RingAliases
    <2> QED
      BY <1>2, <2>2
  <1>5. \A k \in 1 .. m : 1 + k \in 1 .. n /\ 1 + k # 1
    BY <1>3
  <1>6. N \in Seq(1 .. Len(s)) /\ Len(N) = m /\ DOMAIN N = 1 .. m
    BY <1>1, <1>3, <1>4, <1>5
  <1>7. \A k \in 1 .. m : N[k] = L[1 + k]
    BY <1>4
  <1>8. OneEach(N)
    <2> SUFFICES ASSUME NEW i \in 1 .. m, NEW j \in 1 .. m, N[i] = N[j]
                 PROVE  i = j
      BY <1>6 DEF OneEach
    <2>1. 1 + i = 1 + j
      BY <1>1, <1>5, <1>7
    <2> QED
      BY <2>1, <1>3
  <1>9. ToSet(N) = ToSet(L) \ {L[1]}
    <2>1. ASSUME NEW k \in 1 .. m
          PROVE  N[k] \in ToSet(L) \ {L[1]}
      BY <1>1, <1>5, <1>7
    <2>2. ASSUME NEW j \in 1 .. n, L[j] # L[1]
          PROVE  \E k \in 1 .. m : L[j] = N[k]
      <3>1. j # 1
        BY <2>2
      <3>2. PICK k \in 1 .. m : j = 1 + k
        BY <1>3, <3>1
      <3> QED
        BY <1>7, <3>2
    <2>3. /\ \A k \in 1 .. m : N[k] \in ToSet(N)
          /\ \A i \in ToSet(N) : \E k \in 1 .. m : i = N[k]
      BY <1>6 DEF ToSet
    <2>4. ToSet(N) \subseteq ToSet(L) \ {L[1]}
      BY <2>1, <2>3
    <2>5. ToSet(L) \ {L[1]} \subseteq ToSet(N)
      BY <1>1, <2>2, <2>3
    <2> QED
      BY <2>4, <2>5
  <1>10. <<L[1]>> \o N = L
    <2>1. PICK u : u = <<L[1]>>
      OBVIOUS
    <2>2. u \in Seq(1 .. Len(s)) /\ Len(u) = 1 /\ u[1] = L[1]
      BY <1>1, <2>1
    <2>3. PICK q : q = u \o N
      OBVIOUS
    <2>4. /\ q \in Seq(1 .. Len(s)) /\ Len(q) = 1 + m
          /\ q[1] = L[1] /\ \A k \in 1 .. m : q[1 + k] = N[k]
      <3>1. /\ u \o N \in Seq(1 .. Len(s)) /\ Len(u \o N) = Len(u) + Len(N)
            /\ \A i \in 1 .. Len(u) : (u \o N)[i] = u[i]
            /\ \A i \in 1 .. Len(N) : (u \o N)[Len(u) + i] = N[i]
        <4>1. PICK T : T = 1 .. Len(s)
          OBVIOUS
        <4>2. u \in Seq(T) /\ N \in Seq(T)
          BY <1>6, <2>2, <4>1
        <4>3. /\ u \o N \in Seq(T) /\ Len(u \o N) = Len(u) + Len(N)
              /\ \A i \in 1 .. Len(u) : (u \o N)[i] = u[i]
              /\ \A i \in 1 .. Len(N) : (u \o N)[Len(u) + i] = N[i]
          BY <4>2, ConcatIs
        <4> QED
          BY <4>1, <4>3
      <3>2. q \in Seq(1 .. Len(s)) /\ Len(q) = 1 + m /\ q[1] = u[1]
        BY <1>6, <2>2, <2>3, <3>1
      <3>3. \A k \in 1 .. m : q[1 + k] = N[k]
        BY <1>6, <2>2, <2>3, <3>1
      <3> QED
        BY <2>2, <3>2, <3>3
    <2>5. DOMAIN q = 1 .. n
      BY <1>3, <2>4
    <2>6. \A j \in 1 .. n : q[j] = L[j]
      <3> SUFFICES ASSUME NEW j \in 1 .. n
                   PROVE  q[j] = L[j]
        OBVIOUS
      <3>1. CASE j = 1
        BY <2>4, <3>1
      <3>2. CASE j # 1
        <4>1. PICK k \in 1 .. m : j = 1 + k
          BY <1>3, <3>2
        <4> QED
          BY <1>7, <2>4, <4>1
      <3> QED
        BY <3>1, <3>2
    <2>7. q = L
      BY <1>1, <2>4, <2>5, <2>6
    <2> QED
      BY <2>1, <2>3, <2>7
  <1>11. 1 + Len(N) = n
    BY <1>3, <1>6
  <1>12. N \in Seq(1 .. Len(s))
    BY <1>6
  <1> QED
    BY <1>2, <1>8, <1>9, <1>10, <1>11, <1>12

IdsIn(s, G) == {Id(s[i]) : i \in G}

LEMMA IdsOfGroup ==
    ASSUME NEW s, NEW part, NEW read, NEW k, RingedPart(s, part, read, k), NEW v
    PROVE  IdsIn(s, Group(s, ToSet(part.syms), read.elf, k, v)) = IdsAt(read.elf, k, v)
  <1>1. GoodRead(read) /\ SymbolsAre(s, ToSet(part.syms), read.elf, AllOf(read.elf, k))
    BY DEF RingedPart, RingsAre
  <1>2. ASSUME NEW i, NEW e, Is(s, i, read.elf, e)
        PROVE  Id(s[i]) = EntryId(read.elf, e)
    BY <1>2, SameId, ElfSymbolIs DEF Is
  <1>3. ASSUME NEW i \in Group(s, ToSet(part.syms), read.elf, k, v)
        PROVE  Id(s[i]) \in IdsAt(read.elf, k, v)
    <2>1. PICK e \in At(read.elf, k, v) : Is(s, i, read.elf, e)
      BY <1>3 DEF Group
    <2> QED
      BY <1>2, <2>1 DEF IdsAt
  <1>4. ASSUME NEW e \in At(read.elf, k, v)
        PROVE  \E i \in Group(s, ToSet(part.syms), read.elf, k, v) : Id(s[i]) = EntryId(read.elf, e)
    <2>1. e \in AllOf(read.elf, k)
      BY <1>1, AtLoaded
    <2>2. PICK i \in ToSet(part.syms) : Is(s, i, read.elf, e)
      BY <1>1, <2>1 DEF SymbolsAre
    <2>3. i \in Group(s, ToSet(part.syms), read.elf, k, v)
      BY <2>2 DEF Group
    <2> QED
      BY <1>2, <2>2, <2>3
  <1> QED
    BY <1>3, <1>4 DEF IdsAt, IdsIn

\* The ids of a ring, from its main symbol.
RingTold(s, elf, k, v, i) ==
    /\ RingIdsIn(s, i)[1] = EntryId(elf, Min(At(elf, k, v)))
    /\ ToSet(RingIdsIn(s, i)) = IdsAt(elf, k, v)
    /\ IsInjective(RingIdsIn(s, i))

LEMMA RingToldIs ==
    ASSUME NEW s, NEW part, NEW read, NEW k, RingedPart(s, part, read, k),
           NEW v, NEW L, RingFound(s, part, read.elf, k, v, L)
    PROVE  RingTold(s, read.elf, k, v, L[1])
  <1>1. /\ IsRing(s, L) /\ ToSet(L) = Group(s, ToSet(part.syms), read.elf, k, v)
        /\ Is(s, L[1], read.elf, Min(At(read.elf, k, v)))
    BY DEF RingFound, RingAt
  <1>2. Heap(s) /\ ToSet(L) \subseteq ToSet(part.syms)
    BY <1>1 DEF RingedPart, Group
  <1>3. PICK n, q : n = Len(L) /\ q = RingIdsIn(s, L[1])
    OBVIOUS
  <1>4. /\ 1 \in 1 .. n /\ (\A j \in 1 .. n : L[j] \in ToSet(L))
        /\ \A i \in ToSet(L) : \E j \in 1 .. n : i = L[j]
        /\ \A i, j \in 1 .. n : L[i] = L[j] => i = j
    <2>1. Heap(s) /\ IsRing(s, L) /\ n = Len(L)
      BY <1>1, <1>2, <1>3
    <2>2. 1 \in 1 .. n /\ \A j \in 1 .. n : L[j] \in ToSet(L)
      BY ONLY <2>1, RingElements
    <2>3. \A i \in ToSet(L) : \E j \in 1 .. n : i = L[j]
      BY ONLY <2>1, RingElements
    <2>4. \A i, j \in 1 .. n : L[i] = L[j] => i = j
      BY ONLY <2>1, RingElements
    <2> QED
      BY <2>2, <2>3, <2>4
  <1>5. q = [j \in 1 .. n |-> Id(s[L[j]])]
    <2>1. <<L[1]>> \o NextAliases(s, L[1]) = L /\ 1 + Len(NextAliases(s, L[1])) = n
      BY <1>1, <1>2, <1>3, RingUnrolled
    <2> QED
      BY <1>3, <2>1 DEF RingIdsIn
  <1>6. q[1] = EntryId(read.elf, Min(At(read.elf, k, v)))
    <2>1. Id(s[L[1]]) = EntryId(read.elf, Min(At(read.elf, k, v)))
      BY <1>1, SameId, ElfSymbolIs DEF Is
    <2> QED
      BY <1>4, <1>5, <2>1
  <1>7. ToSet(q) = IdsAt(read.elf, k, v)
    <2>1. ToSet(q) = IdsIn(s, ToSet(L))
      <3>1. DOMAIN q = 1 .. n /\ \A j \in 1 .. n : q[j] = Id(s[L[j]])
        BY <1>5
      <3>2. ToSet(q) = {q[j] : j \in 1 .. n}
        BY <3>1 DEF ToSet
      <3>3. \A x : x \in ToSet(q) <=> \E j \in 1 .. n : x = Id(s[L[j]])
        BY <3>1, <3>2
      <3>4. \A x : x \in ToSet(q) <=> \E i \in ToSet(L) : x = Id(s[i])
        BY <1>4, <3>3
      <3> QED
        BY <3>4 DEF IdsIn
    <2>2. IdsIn(s, ToSet(L)) = IdsAt(read.elf, k, v)
      BY <1>1, IdsOfGroup
    <2> QED
      BY <2>1, <2>2
  <1>8. IsInjective(q)
    <2>1. ASSUME NEW i \in 1 .. n, NEW j \in 1 .. n, q[i] = q[j]
          PROVE  i = j
      <3>1. L[i] \in ToSet(part.syms) /\ L[j] \in ToSet(part.syms)
        BY <1>2, <1>4
      <3>2. Id(s[L[i]]) = Id(s[L[j]])
        BY <1>5, <2>1
      <3>3. L[i] = L[j]
        BY <3>1, <3>2, PartIds
      <3> QED
        BY <1>4, <3>3
    <2>2. DOMAIN q = 1 .. n
      BY <1>5
    <2> QED
      BY <2>1, <2>2 DEF IsInjective
  <1> QED
    BY <1>3, <1>6, <1>7, <1>8 DEF RingTold

\* Of a ring the main symbol is the first, which only the first is.
LEMMA MainsAre ==
    ASSUME NEW s, NEW part, NEW read, NEW k, RingedPart(s, part, read, k),
           NEW i \in ToSet(part.syms)
    PROVE  \E v \in DOMAIN part.mainAt : \E L :
             /\ RingFound(s, part, read.elf, k, v, L) /\ s[i].main = L[1]
             /\ i \in {L[1]} \cup ToSet(NextAliases(s, L[1]))
  <1>1. PICK v \in DOMAIN part.mainAt : \E L :
          RingFound(s, part, read.elf, k, v, L) /\ i \in ToSet(L)
    BY RingOf
  <1>2. PICK L : RingFound(s, part, read.elf, k, v, L) /\ i \in ToSet(L)
    BY <1>1
  <1>3. IsRing(s, L) /\ Heap(s)
    BY <1>2 DEF RingFound, RingAt, RingedPart
  <1>4. PICK n : n = Len(L)
    OBVIOUS
  <1>5. (\A j \in 1 .. n : s[L[j]].main = L[1]) /\ \E j \in 1 .. n : i = L[j]
    BY <1>2, <1>3, <1>4, RingElements
  <1>6. ToSet(NextAliases(s, L[1])) = ToSet(L) \ {L[1]}
    BY <1>3, <1>4, RingUnrolled
  <1> QED
    BY <1>1, <1>2, <1>5, <1>6

-----------------------------------------------------------------------------
(* The aliases told of a declaration                                        *)

\* What a symbol of the table tells of the aliases of d.
Told(s, d, j) ==
    IF SameSymbol(s[j], s[d]) THEN NextAliases(s, j)
    ELSE [n \in 1 .. Cardinality({n \in DOMAIN NextAliases(s, j) :
                                    SameSymbol(s[NextAliases(s, j)[n]], s[d])}) |-> j]

LEMMA ComputedOf ==
    ASSUME NEW s, NEW d, NEW table
    PROVE  ComputeAliases(s, d, table) =
             IF s[d].nextAlias # 0 THEN NextAliases(s, d)
             ELSE FlattenSeq([i \in DOMAIN table |-> Told(s, d, table[i])])
  BY DEF ComputeAliases, Told

\* Only the main symbol tells any.
LEMMA ToldIs ==
    ASSUME NEW s, NEW part, NEW read, NEW k, RingedPart(s, part, read, k),
           NEW v, NEW L, RingFound(s, part, read.elf, k, v, L),
           NEW d, SameSymbol(s[d], s[L[1]]), NEW j \in ToSet(part.syms)
    PROVE  Told(s, d, j) = IF j = L[1] THEN NextAliases(s, L[1]) ELSE <<>>
  <1>1. /\ IsRing(s, L) /\ L[1] \in ToSet(part.syms)
    BY RingAnyAddress
  <1>2. Heap(s) /\ SymbolsAre(s, ToSet(part.syms), read.elf, AllOf(read.elf, k))
    BY DEF RingedPart, RingsAre
  <1>3. ASSUME NEW i \in ToSet(part.syms), SameSymbol(s[i], s[d])
        PROVE  i = L[1]
    <2>1. SameSymbol(s[i], s[L[1]])
      BY <1>3, SameIsEquivalence
    <2> QED
      BY <1>1, <1>2, <2>1 DEF SymbolsAre
  <1>4. CASE j = L[1]
    <2>1. SameSymbol(s[j], s[d])
      BY <1>4, SameIsEquivalence
    <2> QED
      BY <1>4, <2>1 DEF Told
  <1>5. CASE j # L[1]
    <2>1. ~SameSymbol(s[j], s[d])
      BY <1>3, <1>5
    <2>2. PICK x, K : RingFound(s, part, read.elf, k, x, K) /\ j \in ToSet(K)
      BY RingOf
    <2>3. IsRing(s, K) /\ ToSet(K) \subseteq ToSet(part.syms)
      BY <2>2, RingAnyAddress
    <2>4. PICK n : n = Len(K)
      OBVIOUS
    <2>5. /\ n \in Nat /\ 1 \in 1 .. n
          /\ \A i \in 1 .. n : K[i] \in ToSet(K) /\ s[K[i]].main = K[1]
          /\ \A i \in ToSet(K) : \E a \in 1 .. n : i = K[a]
          /\ \A i, a \in 1 .. n : K[i] = K[a] => i = a
      <3>1. Heap(s) /\ IsRing(s, K)
        BY <1>2, <2>3
      <3>2. /\ n \in Nat /\ 1 \in 1 .. n
            /\ \A i \in 1 .. n : K[i] \in ToSet(K) /\ K[i] \in 1 .. Len(s) /\ s[K[i]].main = K[1]
            /\ \A i \in ToSet(K) : \E a \in 1 .. n : i = K[a]
        BY <2>4, <3>1, RingElements
      <3>3. \A i, a \in 1 .. n : K[i] = K[a] => i = a
        BY <2>4, <3>1, RingElements
      <3> QED
        BY <3>2, <3>3
    <2>6. PICK q \in 1 .. n : j = K[q]
      BY <2>2, <2>5
    <2>7. NextAliases(s, K[q]) = [i \in 1 .. Len(K) - q |-> K[q + i]]
      <3>1. q \in 1 .. Len(K)
        BY <2>4, <2>6
      <3> QED
        BY <1>2, <2>3, <3>1, RingAliases
    <2>8. PICK N, l : N = NextAliases(s, j) /\ l = n - q
      OBVIOUS
    <2>9. N = [i \in 1 .. l |-> K[q + i]]
      BY <2>4, <2>6, <2>7, <2>8
    <2>10. \A i \in 1 .. l : q + i \in 1 .. n /\ q + i # 1
      BY <2>5, <2>6, <2>8
    <2>11. s[L[1]].main = L[1]
      BY RingAnyAddress
    <2>12. ASSUME NEW i \in 1 .. l, SameSymbol(s[N[i]], s[d])
           PROVE  FALSE
      <3>1. N[i] = K[q + i] /\ N[i] \in ToSet(part.syms)
        BY <2>3, <2>5, <2>9, <2>10
      <3>2. N[i] = L[1]
        BY <1>3, <2>12, <3>1
      <3>3. s[K[q + i]].main = K[1]
        BY <2>5, <2>10
      <3>4. K[q + i] = K[1]
        BY <2>11, <3>1, <3>2, <3>3
      <3> QED
        BY <2>5, <2>10, <3>4
    <2>13. {i \in DOMAIN N : SameSymbol(s[N[i]], s[d])} = {}
      BY <2>9, <2>12
    <2>14. Cardinality({i \in DOMAIN N : SameSymbol(s[N[i]], s[d])}) = 0
      BY <2>13, FS_EmptySet
    <2>15. Told(s, d, j) = [i \in 1 .. 0 |-> j]
      BY <2>1, <2>8, <2>14 DEF Told
    <2>16. [i \in 1 .. 0 |-> j] = <<>>
      OBVIOUS
    <2> QED
      BY <1>5, <2>15, <2>16
  <1> QED
    BY <1>4, <1>5

AliasesTold(s, L, t) ==
    t \in Seq(1 .. Len(s)) /\ OneEach(t) /\ ToSet(t) = ToSet(L) \ {L[1]}

LEMMA AliasesComputed ==
    ASSUME NEW s, NEW part, NEW read, NEW k, RingedPart(s, part, read, k),
           NEW v, NEW L, RingFound(s, part, read.elf, k, v, L),
           NEW d, SameSymbol(s[d], s[L[1]]), d = L[1] \/ s[d].nextAlias = 0
    PROVE  AliasesTold(s, L, ComputeAliases(s, d, part.syms))
  <1>1. IsRing(s, L) /\ L[1] \in ToSet(part.syms) /\ Heap(s)
    BY RingAnyAddress DEF RingedPart
  <1>2. PICK N : N = NextAliases(s, L[1])
    OBVIOUS
  <1>3. N \in Seq(1 .. Len(s)) /\ OneEach(N) /\ ToSet(N) = ToSet(L) \ {L[1]}
    <2>1. PICK l : l = Len(L)
      OBVIOUS
    <2> QED
      BY <1>1, <1>2, <2>1, RingUnrolled
  <1>4. CASE s[d].nextAlias # 0
    <2>1. ComputeAliases(s, d, part.syms) = N
      BY <1>2, <1>4, ComputedOf
    <2> QED
      BY <1>3, <2>1 DEF AliasesTold
  <1>5. CASE s[d].nextAlias = 0
    <2>1. PICK table, n : table = part.syms /\ n = Len(table)
      OBVIOUS
    <2>2. table \in Seq(Nat) /\ OneEach(table)
      BY <2>1 DEF RingedPart, Parts
    <2>3. n \in Nat /\ DOMAIN table = 1 .. n
      BY <2>1, <2>2
    <2>4. \A i \in 1 .. n : table[i] \in ToSet(part.syms)
      BY <2>1, <2>3 DEF ToSet
    <2>5. PICK Q : Q = [i \in 1 .. n |-> Told(s, d, table[i])]
      OBVIOUS
    <2>6. ASSUME NEW i \in 1 .. n
          PROVE  Q[i] = IF table[i] = L[1] THEN N ELSE <<>>
      BY <1>2, <2>4, <2>5, <2>6, ToldIs
    <2>7. PICK T : T = 1 .. Len(s)
      OBVIOUS
    <2>8. Q \in Seq(Seq(T)) /\ Len(Q) = n
      <3>1. <<>> \in Seq(T) /\ N \in Seq(T)
        BY <1>3, <2>7
      <3>2. Q \in [1 .. n -> Seq(T)]
        BY <2>5, <2>6, <3>1
      <3> QED
        BY <2>3, <3>2, FunctionSeq
    <2>9. ComputeAliases(s, d, part.syms) = FlattenSeq(Q)
      BY <1>5, <2>1, <2>3, <2>5, ComputedOf
    <2>10. PICK t : t = FlattenSeq(Q)
      OBVIOUS
    <2>11. PutTogether(t, T, Q, n)
      BY <2>8, <2>10, FlattenMakes
    <2>12. PICK r \in 1 .. n : table[r] = L[1]
      BY <1>1, <2>1, <2>3 DEF ToSet
    <2>13. \A i \in 1 .. n : i # r => table[i] # L[1]
      BY <2>1, <2>2, <2>12 DEF OneEach
    <2>14. Q[r] = N /\ \A i \in 1 .. n : i # r => Q[i] = <<>>
      BY <2>6, <2>12, <2>13
    <2>15. ToSet(<<>>) = {} /\ OneEach(<<>>)
      BY DEF ToSet, OneEach
    <2>16. SetsTo(Q, n) = ToSet(N)
      BY <2>12, <2>14, <2>15 DEF SetsTo
    <2>17. PiecesApart(Q, n)
      BY <1>3, <2>14, <2>15 DEF PiecesApart
    <2> QED
      BY <1>3, <2>7, <2>9, <2>10, <2>11, <2>16, <2>17 DEF PutTogether, AliasesTold
  <1> QED
    BY <1>4, <1>5

\* A declaration has the symbol of a ring or a copy of its main symbol, and a description.
DeclOf(s, part, read, k, d, v, L) ==
    /\ RingFound(s, part, read.elf, k, v, L)
    /\ d \in 1 .. Len(s) /\ SameSymbol(s[d], s[L[1]])
    /\ d = L[1] \/ (s[d].nextAlias = 0 /\ s[d].main = d)
    /\ \E i \in 1 .. Len(read.dies) : read.dies[i].kind = k /\ read.dies[i].address = v

LEMMA DeclFound ==
    ASSUME NEW w, NEW s, NEW part, NEW g, NEW k, ReadPart(w, s, part, g, k), Heap(s),
           NEW read, read = w.files[g], GoodRead(read), NEW d \in ToSet(part.decls)
    PROVE  \E v \in DOMAIN part.mainAt : \E L : DeclOf(s, part, read, k, d, v, L)
  <1>1. PICK m, e, source :
          m = Len(SymbolTable(read.elf)) /\ e = Len(read.dies) /\ source = SourceOf(w, g)
    OBVIOUS
  <1>2. PartIs(s, part, read, k, m, e, source)
    BY <1>1 DEF ReadPart
  <1>3. part \in Parts(Addresses(read)) /\ DeclsRight(s, part, k, read.dies, e, source)
    BY <1>2 DEF PartIs
  <1>4. RingedPart(s, part, read, k)
    BY ReadRinged
  <1>5. part.decls \in Seq(Nat)
    BY <1>3 DEF Parts
  <1>6. PICK x \in 1 .. Len(part.decls) : d = part.decls[x]
    BY <1>5, LenProperties DEF ToSet
  <1>7. DeclRight(s, part, k, read.dies, e, source, d)
    BY <1>3, <1>6 DEF DeclsRight
  <1>8. /\ d \in 1 .. Len(s)
        /\ source = "xml" => d \in ToSet(part.syms)
        /\ source # "xml" => Alone(s, d)
    BY <1>7 DEF DeclRight
  <1>9. PICK i \in 1 .. e : Describes(s, part, k, read.dies, d, i)
    BY <1>7 DEF DeclRight
  <1>10. PICK v : v = read.dies[i].address
    OBVIOUS
  <1>11. /\ i \in 1 .. Len(read.dies) /\ read.dies[i].kind = k /\ part.mainAt[v] # 0
         /\ SameSymbol(s[d], s[part.mainAt[v]])
    BY <1>9, <1>10 DEF Describes
  <1>12. v \in DOMAIN part.mainAt
    BY <1>3, <1>10, <1>11, AddressesKnown
  <1>13. RingsAre(s, part, read.elf, k)
    BY <1>4 DEF RingedPart
  <1>14. PICK L : RingFound(s, part, read.elf, k, v, L)
    BY <1>11, <1>12, <1>13 DEF RingsAre
  <1>15. SameSymbol(s[d], s[L[1]])
    BY <1>11, <1>14, SameIsEquivalence DEF RingFound
  <1>16. d = L[1] \/ (s[d].nextAlias = 0 /\ s[d].main = d)
    <2>1. CASE source = "xml"
      <3>1. L[1] \in ToSet(part.syms)
        BY <1>4, <1>14, RingAnyAddress
      <3>2. Id(s[d]) = Id(s[L[1]])
        BY <1>15, SameId
      <3>3. d \in ToSet(part.syms)
        BY <1>8, <2>1
      <3> QED
        BY <1>4, <3>1, <3>2, <3>3, PartIds
    <2>2. CASE source # "xml"
      BY <1>8, <2>2 DEF Alone
    <2> QED
      BY <2>1, <2>2
  <1>17. \E a \in 1 .. Len(read.dies) : read.dies[a].kind = k /\ read.dies[a].address = v
    BY <1>10, <1>11
  <1>18. DeclOf(s, part, read, k, d, v, L)
    BY <1>8, <1>14, <1>15, <1>16, <1>17 DEF DeclOf
  <1> QED
    BY <1>12, <1>18

-----------------------------------------------------------------------------
(* What must hold of one part                                               *)

\* The aliases told of a declaration with the symbol d.
DeclAliasesRight(s, part, elf, k, d) ==
    LET aliases == ComputeAliases(s, d, part.syms)
        ids == [a \in DOMAIN aliases |-> Id(s[aliases[a]])]
    IN  /\ IsInjective(ids)
        /\ \E v \in {v \in DOMAIN part.mainAt : At(elf, k, v) # {}} :
             IdsAt(elf, k, v) = {Id(s[d])} \cup ToSet(ids) /\ Id(s[d]) \notin ToSet(ids)

LEMMA DeclAliases ==
    ASSUME NEW s, NEW part, NEW read, NEW k, RingedPart(s, part, read, k),
           NEW d, NEW v \in DOMAIN part.mainAt, NEW L, DeclOf(s, part, read, k, d, v, L)
    PROVE  DeclAliasesRight(s, part, read.elf, k, d)
  <1>1. RingFound(s, part, read.elf, k, v, L) /\ SameSymbol(s[d], s[L[1]])
        /\ (d = L[1] \/ s[d].nextAlias = 0)
    BY DEF DeclOf
  <1>2. PICK t, ids : /\ t = ComputeAliases(s, d, part.syms)
                      /\ ids = [a \in DOMAIN t |-> Id(s[t[a]])]
    OBVIOUS
  <1>3. AliasesTold(s, L, t)
    BY <1>1, <1>2, AliasesComputed
  <1>4. t \in Seq(1 .. Len(s)) /\ OneEach(t) /\ ToSet(t) = ToSet(L) \ {L[1]}
    BY <1>3 DEF AliasesTold
  <1>5. /\ ToSet(L) \subseteq ToSet(part.syms) /\ L[1] \in ToSet(L) /\ At(read.elf, k, v) # {}
        /\ ToSet(L) = Group(s, ToSet(part.syms), read.elf, k, v)
    BY <1>1, RingAnyAddress
  <1>6. PICK n : n = Len(t)
    OBVIOUS
  <1>7. /\ DOMAIN t = 1 .. n /\ (\A a \in 1 .. n : t[a] \in ToSet(t))
        /\ \A i \in ToSet(t) : \E a \in 1 .. n : i = t[a]
    BY <1>4, <1>6, LenProperties DEF ToSet
  <1>8. DOMAIN ids = 1 .. n /\ \A a \in 1 .. n : ids[a] = Id(s[t[a]])
    BY <1>2, <1>7
  <1>9. IsInjective(ids)
    <2>1. ASSUME NEW a \in 1 .. n, NEW b \in 1 .. n, ids[a] = ids[b]
          PROVE  a = b
      <3>1. t[a] \in ToSet(part.syms) /\ t[b] \in ToSet(part.syms)
        BY <1>4, <1>5, <1>7
      <3>2. Id(s[t[a]]) = Id(s[t[b]])
        BY <1>8, <2>1
      <3>3. t[a] = t[b]
        BY <3>1, <3>2, PartIds
      <3> QED
        BY <1>4, <1>6, <3>3 DEF OneEach
    <2> QED
      BY <1>8, <2>1 DEF IsInjective
  <1>10. ToSet(ids) = IdsIn(s, ToSet(t))
    <2>1. ToSet(ids) = {ids[a] : a \in 1 .. n}
      BY <1>8 DEF ToSet
    <2>2. \A x : x \in ToSet(ids) <=> \E a \in 1 .. n : x = Id(s[t[a]])
      BY <1>8, <2>1
    <2>3. \A x : x \in ToSet(ids) <=> \E i \in ToSet(t) : x = Id(s[i])
      BY <1>7, <2>2
    <2> QED
      BY <2>3 DEF IdsIn
  <1>11. Id(s[d]) = Id(s[L[1]])
    BY <1>1, SameId
  <1>12. IdsIn(s, ToSet(L)) = IdsAt(read.elf, k, v)
    BY <1>5, IdsOfGroup
  <1>13. IdsAt(read.elf, k, v) = {Id(s[d])} \cup ToSet(ids)
    BY <1>4, <1>5, <1>10, <1>11, <1>12 DEF IdsIn
  <1>14. Id(s[d]) \notin ToSet(ids)
    <2> SUFFICES ASSUME NEW i \in ToSet(t), Id(s[i]) = Id(s[d])
                 PROVE  FALSE
      BY <1>10 DEF IdsIn
    <2>1. i \in ToSet(part.syms) /\ L[1] \in ToSet(part.syms) /\ i # L[1]
      BY <1>4, <1>5
    <2>2. Id(s[i]) = Id(s[L[1]])
      BY <1>11
    <2> QED
      BY <2>1, <2>2, PartIds
  <1> QED
    BY <1>2, <1>5, <1>9, <1>13, <1>14 DEF DeclAliasesRight

MainsRight(s, part, elf, k, mains, values) ==
    /\ {RingIdsIn(s, m)[1] : m \in mains} = {EntryId(elf, Min(At(elf, k, v))) : v \in values}
    /\ {ToSet(RingIdsIn(s, m)) : m \in mains} = {IdsAt(elf, k, v) : v \in values}
    /\ \A m \in mains : IsInjective(RingIdsIn(s, m))
    /\ \A i \in ToSet(part.syms) :
         s[i].main \in mains /\ i \in {s[i].main} \cup ToSet(NextAliases(s, s[i].main))

LEMMA MainsAreRight ==
    ASSUME NEW s, NEW part, NEW read, NEW k, RingedPart(s, part, read, k),
           NEW mains, mains = {i \in ToSet(part.syms) : s[i].main = i},
           NEW values, values = {v \in DOMAIN part.mainAt : At(read.elf, k, v) # {}}
    PROVE  MainsRight(s, part, read.elf, k, mains, values)
  <1>1. ASSUME NEW v \in values
        PROVE  \E m \in mains : RingTold(s, read.elf, k, v, m)
    <2>1. v \in DOMAIN part.mainAt /\ At(read.elf, k, v) # {}
      OBVIOUS
    <2>2. PICK L : RingFound(s, part, read.elf, k, v, L)
      BY <2>1, RingThere
    <2>3. L[1] \in ToSet(part.syms) /\ s[L[1]].main = L[1]
      BY <2>2, RingAnyAddress
    <2>4. RingTold(s, read.elf, k, v, L[1])
      BY <2>2, RingToldIs
    <2> QED
      BY <2>3, <2>4
  <1>2. ASSUME NEW i \in ToSet(part.syms)
        PROVE  /\ s[i].main \in mains /\ i \in {s[i].main} \cup ToSet(NextAliases(s, s[i].main))
               /\ \E v \in values : RingTold(s, read.elf, k, v, s[i].main)
    <2>1. PICK v \in DOMAIN part.mainAt : \E L :
             /\ RingFound(s, part, read.elf, k, v, L) /\ s[i].main = L[1]
             /\ i \in {L[1]} \cup ToSet(NextAliases(s, L[1]))
      BY MainsAre
    <2>2. PICK L :
             /\ RingFound(s, part, read.elf, k, v, L) /\ s[i].main = L[1]
             /\ i \in {L[1]} \cup ToSet(NextAliases(s, L[1]))
      BY <2>1
    <2>3. L[1] \in ToSet(part.syms) /\ s[L[1]].main = L[1] /\ At(read.elf, k, v) # {}
      BY <2>2, RingAnyAddress
    <2>4. RingTold(s, read.elf, k, v, L[1])
      BY <2>2, RingToldIs
    <2>5. v \in values
      BY <2>1, <2>3
    <2>6. L[1] \in mains
      BY <2>3
    <2> QED
      BY <2>2, <2>4, <2>5, <2>6
  <1>3. ASSUME NEW m \in mains
        PROVE  \E v \in values : RingTold(s, read.elf, k, v, m)
    <2>1. m \in ToSet(part.syms) /\ s[m].main = m
      OBVIOUS
    <2> QED
      BY <1>2, <2>1
  <1>4. {RingIdsIn(s, m)[1] : m \in mains} = {EntryId(read.elf, Min(At(read.elf, k, v))) : v \in values}
    BY <1>1, <1>3 DEF RingTold
  <1>5. {ToSet(RingIdsIn(s, m)) : m \in mains} = {IdsAt(read.elf, k, v) : v \in values}
    BY <1>1, <1>3 DEF RingTold
  <1>6. \A m \in mains : IsInjective(RingIdsIn(s, m))
    BY <1>3 DEF RingTold
  <1> QED
    BY <1>2, <1>4, <1>5, <1>6 DEF MainsRight

-----------------------------------------------------------------------------
(* A file that has been read, in a state                                    *)

LEMMA FileIsRead ==
    ASSUME IInv, world.tool # "abisym", NEW f \in DOMAIN corpora, FileRead(f), NEW k \in SymbolKinds
    PROVE  /\ ReadPart(world, symbols, corpora[f][k], f, k) /\ Heap(symbols)
           /\ f \in DOMAIN world.files /\ GoodRead(world.files[f]) /\ world \in Worlds
           /\ Selected(world, phase) \/ AllRead(world, symbols, corpora[f][k], f, k)
  <1>1. PICK w, s, c, g, p, n :
          /\ w = world /\ s = symbols /\ c = corpora /\ g = file /\ p = phase /\ n = next
    OBVIOUS
  <1>2. w \in Worlds /\ (Early(w, s, c, g, p, n) \/ Late(w, s, c, g, p, n))
    BY <1>1 DEF IInv, RightState
  <1>3. Heap(s) /\ CorporaIn(w, c)
    BY <1>2 DEF Early, Late
  <1>4. f \in DOMAIN w.files
    BY <1>1, <1>3 DEF CorporaIn
  <1>5. GoodRead(w.files[f])
    BY <1>1, <1>2, <1>4, FilesGood
  <1>6. Before(f, g) \/ p \in Ending
    BY <1>1 DEF FileRead, Ending
  <1>7. CASE Early(w, s, c, g, p, n)
    <2>1. Before(f, g)
      BY <1>6, <1>7, EarlyOrLate
    <2>2. ReadPart(w, s, c[f][k], f, k) /\ AllRead(w, s, c[f][k], f, k)
      BY <1>1, <1>2, <1>4, <1>7, <2>1, BeforeRead
    <2> QED
      BY <1>1, <1>2, <1>3, <1>4, <1>5, <2>2
  <1>8. CASE Late(w, s, c, g, p, n)
    <2>1. ReadPart(w, s, c[f][k], f, k) /\ (Selected(w, p) \/ AllRead(w, s, c[f][k], f, k))
      BY <1>4, <1>8 DEF Late
    <2> QED
      BY <1>1, <1>2, <1>3, <1>4, <1>5, <2>1
  <1> QED
    BY <1>2, <1>7, <1>8

\* Rings are the symbols of an address; what is told of declarations are rings.
LEMMA AliasesFromInvariant ==
    IInv => AliasesAreRight
  <1> SUFFICES ASSUME IInv
               PROVE  AliasesAreRight
    OBVIOUS
  <1>1. ~aborted
    BY DEF IInv
  <1>2. ASSUME NEW f \in DOMAIN corpora, FileRead(f), world.tool # "abisym", NEW k \in SymbolKinds
        PROVE  LET elf == world.files[f].elf
                   syms == ToSet(corpora[f][k].syms)
                   mains == {i \in syms : symbols[i].main = i}
                   values == {v \in DOMAIN corpora[f][k].mainAt : At(elf, k, v) # {}}
               IN  /\ MainsRight(symbols, corpora[f][k], elf, k, mains, values)
                   /\ \A d \in ToSet(corpora[f][k].decls) :
                        DeclAliasesRight(symbols, corpora[f][k], elf, k, d)
    <2>1. /\ ReadPart(world, symbols, corpora[f][k], f, k) /\ Heap(symbols)
          /\ GoodRead(world.files[f])
      BY <1>2, FileIsRead
    <2>2. PICK w, s, part, read : /\ w = world /\ s = symbols /\ part = corpora[f][k]
                                  /\ read = world.files[f]
      OBVIOUS
    <2>3. ReadPart(w, s, part, f, k) /\ Heap(s) /\ GoodRead(w.files[f]) /\ read = w.files[f]
      BY <2>1, <2>2
    <2>4. RingedPart(s, part, read, k)
      BY <2>3, ReadRinged
    <2>5. MainsRight(s, part, read.elf, k, {i \in ToSet(part.syms) : s[i].main = i},
                     {v \in DOMAIN part.mainAt : At(read.elf, k, v) # {}})
      BY <2>4, MainsAreRight
    <2>6. ASSUME NEW d \in ToSet(part.decls)
          PROVE  DeclAliasesRight(s, part, read.elf, k, d)
      <3>1. PICK v \in DOMAIN part.mainAt : \E L : DeclOf(s, part, read, k, d, v, L)
        BY <2>3, <2>6, DeclFound
      <3>2. PICK L : DeclOf(s, part, read, k, d, v, L)
        BY <3>1
      <3> QED
        BY <2>4, <3>1, <3>2, DeclAliases
    <2> QED
      BY <2>2, <2>5, <2>6
  <1>3. ASSUME NEW f \in {g \in DOMAIN corpora : FileRead(g) /\ world.tool # "abisym"},
               NEW k \in SymbolKinds
        PROVE  LET elf == world.files[f].elf
                   syms == ToSet(corpora[f][k].syms)
                   mains == {i \in syms : symbols[i].main = i}
                   values == {v \in DOMAIN corpora[f][k].mainAt : At(elf, k, v) # {}}
               IN  /\ {RingIds(m)[1] : m \in mains} = {EntryId(elf, Min(At(elf, k, v))) : v \in values}
                   /\ {ToSet(RingIds(m)) : m \in mains} = {IdsAt(elf, k, v) : v \in values}
                   /\ \A m \in mains : IsInjective(RingIds(m))
                   /\ \A i \in syms : symbols[i].main \in mains
                                      /\ i \in {symbols[i].main} \cup ToSet(NextAliases(symbols, symbols[i].main))
                   /\ \A d \in ToSet(corpora[f][k].decls) :
                        LET aliases == ComputeAliases(symbols, d, corpora[f][k].syms)
                            ids == [a \in DOMAIN aliases |-> Id(symbols[aliases[a]])]
                        IN  /\ IsInjective(ids)
                            /\ \E v \in values : IdsAt(elf, k, v) = {Id(symbols[d])} \cup ToSet(ids)
                                                 /\ Id(symbols[d]) \notin ToSet(ids)
    <2>1. f \in DOMAIN corpora /\ FileRead(f) /\ world.tool # "abisym"
      BY <1>3
    <2> DEFINE part == corpora[f][k]
               elf == world.files[f].elf
               mains == {i \in ToSet(part.syms) : symbols[i].main = i}
               values == {v \in DOMAIN part.mainAt : At(elf, k, v) # {}}
    <2>3. /\ MainsRight(symbols, part, elf, k, mains, values)
          /\ \A d \in ToSet(part.decls) : DeclAliasesRight(symbols, part, elf, k, d)
      BY <1>2, <1>3, <2>1
    <2>4. /\ {RingIds(m)[1] : m \in mains} = {EntryId(elf, Min(At(elf, k, v))) : v \in values}
          /\ {ToSet(RingIds(m)) : m \in mains} = {IdsAt(elf, k, v) : v \in values}
          /\ \A m \in mains : IsInjective(RingIds(m))
          /\ \A i \in ToSet(part.syms) :
                symbols[i].main \in mains
                /\ i \in {symbols[i].main} \cup ToSet(NextAliases(symbols, symbols[i].main))
      BY <2>3 DEF MainsRight, RingIds, RingIdsIn
    <2>5. \A d \in ToSet(part.decls) :
            LET aliases == ComputeAliases(symbols, d, part.syms)
                ids == [a \in DOMAIN aliases |-> Id(symbols[aliases[a]])]
            IN  /\ IsInjective(ids)
                /\ \E v \in values : IdsAt(elf, k, v) = {Id(symbols[d])} \cup ToSet(ids)
                                     /\ Id(symbols[d]) \notin ToSet(ids)
      BY <2>3 DEF DeclAliasesRight
    <2> QED
      BY <2>4, <2>5
  <1> QED
    BY <1>1, <1>3 DEF AliasesAreRight

-----------------------------------------------------------------------------
(* Types                                                                    *)

\* What public symbols of the kind k are.
PublicOf(s, i, k) == s[i].kind = k /\ s[i].defined /\ s[i].public

LEMMA LoadedPublic ==
    ASSUME NEW s, NEW read, NEW k \in SymbolKinds, NEW m, NEW e \in Loaded(read.elf, k, m),
           NEW i, Is(s, i, read.elf, e)
    PROVE  PublicOf(s, i, k)
  <1>1. PICK entry : entry = SymbolTable(read.elf)[e]
    OBVIOUS
  <1>2. IsPublic(entry) /\ KindOf(entry) = k
    BY <1>1 DEF Loaded, PublicEntries
  <1>3. IsDefined(entry)
    BY <1>2 DEF IsPublic
  <1>4. entry.kind = k
    BY <1>2 DEF KindOf, SymbolKinds
  <1>5. /\ s[i].kind = ElfSymbol(read.elf, e).kind /\ s[i].public = ElfSymbol(read.elf, e).public
        /\ s[i].defined = ElfSymbol(read.elf, e).defined
    BY DEF Is, SameSymbol
  <1>6. /\ ElfSymbol(read.elf, e).kind = entry.kind
        /\ (ElfSymbol(read.elf, e).defined <=> IsDefined(entry))
        /\ (ElfSymbol(read.elf, e).public <=> IsPublic(entry))
    BY <1>1, ElfSymbolIs
  <1> QED
    BY <1>2, <1>3, <1>4, <1>5, <1>6 DEF PublicOf

PartTyped(s, part, k) ==
    /\ \A i \in ToSet(part.syms) \cup ToSet(part.decls) : PublicOf(s, i, k)
    /\ \A i \in ToSet(part.undefined) : s[i].kind = k /\ ~s[i].defined

LEMMA PartTypes ==
    ASSUME NEW s, NEW part, NEW read, NEW k \in SymbolKinds, NEW m, NEW e, NEW source,
           Heap(s), GoodRead(read), PartIs(s, part, read, k, m, e, source)
    PROVE  PartTyped(s, part, k)
  <1>1. /\ part \in Parts(Addresses(read)) /\ PartRight(s, part, read.elf, k, m, source)
        /\ DeclsRight(s, part, k, read.dies, e, source) /\ UndefinedRight(s, part, k)
    BY DEF PartIs
  <1>2. SymbolsAre(s, ToSet(part.syms), read.elf, Loaded(read.elf, k, m))
    <2>1. CASE source = "xml"
      <3>1. XmlPart(s, part, read, k, m)
        BY <1>1, <2>1 DEF XmlPart
      <3> QED
        BY <3>1, SymbolsOfRows
    <2>2. CASE source # "xml"
      BY <1>1, <2>2 DEF PartRight, Firsts
    <2> QED
      BY <2>1, <2>2
  <1>3. ASSUME NEW i \in ToSet(part.syms)
        PROVE  PublicOf(s, i, k)
    <2>1. PICK a \in Loaded(read.elf, k, m) : Is(s, i, read.elf, a)
      BY <1>2, <1>3 DEF SymbolsAre
    <2> QED
      BY <2>1, LoadedPublic
  <1>4. ASSUME NEW d \in ToSet(part.decls)
        PROVE  PublicOf(s, d, k)
    <2>1. part.decls \in Seq(Nat)
      BY <1>1 DEF Parts
    <2>2. PICK x \in 1 .. Len(part.decls) : d = part.decls[x]
      BY <2>1, <1>4, LenProperties DEF ToSet
    <2>3. PICK i \in 1 .. e : Describes(s, part, k, read.dies, d, i)
      BY <1>1, <2>2 DEF DeclsRight, DeclRight
    <2>4. PICK v : v = read.dies[i].address
      OBVIOUS
    <2>5. i \in 1 .. Len(read.dies) /\ part.mainAt[v] # 0 /\ SameSymbol(s[d], s[part.mainAt[v]])
      BY <2>3, <2>4 DEF Describes
    <2>6. v \in DOMAIN part.mainAt
      BY <1>1, <2>4, <2>5, AddressesKnown
    <2>7. PICK a \in Loaded(read.elf, k, m) : Is(s, part.mainAt[v], read.elf, a)
      BY <1>1, <2>5, <2>6, MainIs
    <2>8. Is(s, d, read.elf, a)
      BY <2>5, <2>7, SameIsEquivalence DEF Is
    <2> QED
      BY <2>7, <2>8, LoadedPublic
  <1>5. \A i \in ToSet(part.undefined) : s[i].kind = k /\ ~s[i].defined
    BY <1>1 DEF UndefinedRight
  <1> QED
    BY <1>3, <1>4, <1>5 DEF PartTyped

LEMMA HeapTyped ==
    ASSUME NEW s, Heap(s)
    PROVE  \A x \in ToSet(s) : x.main \in DOMAIN s /\ x.nextAlias \in {0} \cup DOMAIN s
  <1>1. PICK n : n = Len(s)
    OBVIOUS
  <1>2. n \in Nat /\ DOMAIN s = 1 .. n
    BY <1>1, HeapLength
  <1>3. \A i \in 1 .. n : s[i].main \in 1 .. n /\ s[i].nextAlias \in 0 .. n
    BY <1>1 DEF Heap
  <1>4. 0 .. n = {0} \cup 1 .. n
    BY <1>2
  <1> QED
    BY <1>2, <1>3, <1>4 DEF ToSet

LEMMA EmptyTyped ==
    ASSUME NEW w, NEW c, c = EmptyCorpora(w), NEW s, NEW f \in DOMAIN c, NEW k \in SymbolKinds
    PROVE  PartTyped(s, c[f][k], k) /\ c[f][k].unreferenced \subseteq ToSet(c[f][k].syms)
  <1>1. PICK values, part : values = Addresses(w.files[f]) /\ part = c[f][k]
    OBVIOUS
  <1>2. part = EmptyPart(values)
    BY <1>1 DEF EmptyCorpora
  <1>3. part.syms = <<>> /\ part.undefined = <<>> /\ part.decls = <<>> /\ part.unreferenced = {}
    BY <1>2, EmptyPartIs DEF Fresh
  <1>4. ToSet(part.syms) = {} /\ ToSet(part.undefined) = {} /\ ToSet(part.decls) = {}
    BY <1>3 DEF ToSet
  <1> QED
    BY <1>1, <1>3, <1>4 DEF PartTyped

LEMMA TypesFromInvariant ==
    IInv => TypeOK
  <1> SUFFICES ASSUME IInv
               PROVE  TypeOK
    OBVIOUS
  <1>1. PICK w, s, c, f, p, n :
          /\ w = world /\ s = symbols /\ c = corpora /\ f = file /\ p = phase /\ n = next
    OBVIOUS
  <1>2. RightState(w, s, c, f, p, n) /\ aborted = FALSE
    BY <1>1 DEF IInv
  <1>3. /\ f \in DOMAIN w.files /\ n \in Nat
        /\ p \in {"symbols", "dies", "aliases", "decls", "options", "keep", "compare", "lookup", "done"}
    BY <1>2 DEF RightState, Early, Late, PhaseRight, Reading, Ending
  <1>4. \A x \in ToSet(s) : x.main \in DOMAIN s /\ x.nextAlias \in {0} \cup DOMAIN s
    <2>1. CASE w.tool = "abisym"
      <3>1. s = <<>>
        BY <1>2, <2>1 DEF RightState
      <3> QED
        BY <3>1 DEF ToSet
    <2>2. CASE w.tool # "abisym"
      <3>1. Heap(s)
        BY <1>2, <2>2 DEF RightState, Early, Late
      <3> QED
        BY <3>1, HeapTyped
    <2> QED
      BY <2>1, <2>2
  <1>5. ASSUME NEW g \in DOMAIN c, NEW k \in SymbolKinds
        PROVE  PartTyped(s, c[g][k], k) /\ c[g][k].unreferenced \subseteq ToSet(c[g][k].syms)
    <2>1. CASE w.tool = "abisym"
      <3>1. c = EmptyCorpora(w)
        BY <1>2, <2>1 DEF RightState
      <3> QED
        BY <1>5, <3>1, EmptyTyped
    <2>2. CASE w.tool # "abisym"
      <3>1. w \in Worlds /\ (Early(w, s, c, f, p, n) \/ Late(w, s, c, f, p, n))
        BY <1>2, <2>2 DEF RightState
      <3>2. Heap(s) /\ CorporaIn(w, c)
        BY <3>1 DEF Early, Late
      <3>3. g \in DOMAIN w.files
        BY <1>5, <3>2 DEF CorporaIn
      <3>4. GoodRead(w.files[g])
        BY <2>2, <3>1, <3>3, FilesGood
      <3>5. PICK part, read : part = c[g][k] /\ read = w.files[g]
        OBVIOUS
      <3>6. /\ \E m, e, source : PartIs(s, part, read, k, m, e, source)
            /\ part.unreferenced \subseteq ToSet(part.syms)
        <4>1. CASE Early(w, s, c, f, p, n)
          <5>1. FilePart(w, s, part, g, k, f, p, n)
            BY <1>5, <3>3, <3>5, <4>1 DEF Early
          <5> QED
            BY <3>5, <5>1 DEF FilePart, Fresh
        <4>2. CASE Late(w, s, c, f, p, n)
          <5>1. ReadPart(w, s, part, g, k)
            BY <1>5, <3>3, <3>5, <4>2 DEF Late
          <5> QED
            BY <3>5, <5>1 DEF ReadPart
        <4> QED
          BY <3>1, <4>1, <4>2
      <3>7. PICK m, e, source : PartIs(s, part, read, k, m, e, source)
        BY <3>6
      <3>8. PartTyped(s, part, k)
        BY <1>5, <3>2, <3>4, <3>5, <3>7, PartTypes
      <3> QED
        BY <3>5, <3>6, <3>8
    <2> QED
      BY <2>1, <2>2
  <1>6. ASSUME NEW g \in DOMAIN corpora, NEW k \in SymbolKinds
        PROVE  LET part == corpora[g][k]
               IN  /\ \A i \in ToSet(part.syms) \cup ToSet(part.decls) :
                        symbols[i].kind = k /\ symbols[i].defined /\ symbols[i].public
                   /\ \A i \in ToSet(part.undefined) : symbols[i].kind = k /\ ~symbols[i].defined
                   /\ part.unreferenced \subseteq ToSet(part.syms)
    <2>1. PartTyped(symbols, corpora[g][k], k) /\ corpora[g][k].unreferenced \subseteq ToSet(corpora[g][k].syms)
      BY <1>1, <1>5, <1>6
    <2> QED
      BY <2>1 DEF PartTyped, PublicOf
  <1>7. /\ file \in DOMAIN world.files
        /\ phase \in {"symbols", "dies", "aliases", "decls", "options", "keep", "compare", "lookup", "done"}
        /\ next \in Nat /\ aborted \in BOOLEAN
        /\ \A x \in ToSet(symbols) : x.main \in DOMAIN symbols /\ x.nextAlias \in {0} \cup DOMAIN symbols
    BY <1>1, <1>2, <1>3, <1>4
  <1> QED
    BY <1>6, <1>7 DEF TypeOK

-----------------------------------------------------------------------------
(* Corpora as libraries                                                     *)

NameOf(s, i) == <<s[i].name, s[i].version.name>>
SymbolAs(s, i) == [name |-> NameOf(s, i), default |-> s[i].version.default]
RingAs(s, d) ==
    [i \in 1 .. (1 + Len(NextAliases(s, d))) |-> NameOf(s, (<<d>> \o NextAliases(s, d))[i])]
SymbolsAs(s, part) == {SymbolAs(s, i) : i \in ToSet(part.syms)}
DeclsAs(s, part) == [d \in DOMAIN part.decls |-> [symbol |-> SymbolAs(s, part.decls[d]), decl |-> d]]
RingsAs(s, part) == {RingAs(s, d) : d \in {d \in ToSet(part.decls) : NextAliases(s, d) # <<>>}}
PartAs(s, part) ==
    [symbols |-> SymbolsAs(s, part), decls |-> DeclsAs(s, part), rings |-> RingsAs(s, part)]
PartNamed(kind) == IF kind = "function" THEN "fun" ELSE "var"

LEMMA LibraryParts ==
    ASSUME NEW f
    PROVE  AsLibrary(f) = [kind \in Kinds |-> PartAs(symbols, corpora[f][PartNamed(kind)])]
  BY DEF AsLibrary, PartAs, SymbolsAs, DeclsAs, RingsAs, RingAs, SymbolAs, NameOf, PartNamed

LEMMA SymbolEntry ==
    ASSUME NEW s, NEW part, NEW read, NEW k, RingedPart(s, part, read, k), NEW i \in ToSet(part.syms)
    PROVE  \E e \in PublicEntries(read.elf) :
             KindOf(SymbolTable(read.elf)[e]) = k /\ SameSymbol(s[i], ElfSymbol(read.elf, e))
  <1>1. SymbolsAre(s, ToSet(part.syms), read.elf, AllOf(read.elf, k))
    BY DEF RingedPart, RingsAre
  <1>2. PICK e \in AllOf(read.elf, k) : Is(s, i, read.elf, e)
    BY <1>1 DEF SymbolsAre
  <1> QED
    BY <1>2 DEF AllOf, Loaded, Is

\* Two symbols of a file that have one name are one symbol of one kind.
LEMMA NamesTwice ==
    ASSUME NEW s, NEW part, NEW other, NEW read, NEW k, NEW l,
           RingedPart(s, part, read, k), RingedPart(s, other, read, l),
           NEW i \in ToSet(part.syms), NEW j \in ToSet(other.syms), NameOf(s, i) = NameOf(s, j)
    PROVE  k = l /\ SymbolAs(s, i) = SymbolAs(s, j)
  <1>1. PICK e \in PublicEntries(read.elf) :
          KindOf(SymbolTable(read.elf)[e]) = k /\ SameSymbol(s[i], ElfSymbol(read.elf, e))
    BY SymbolEntry
  <1>2. PICK d \in PublicEntries(read.elf) :
          KindOf(SymbolTable(read.elf)[d]) = l /\ SameSymbol(s[j], ElfSymbol(read.elf, d))
    BY SymbolEntry
  <1>3. GoodRead(read)
    BY DEF RingedPart
  <1>4. s[i].name = s[j].name /\ s[i].version.name = s[j].version.name
    BY DEF NameOf
  <1>5. e = d
    BY <1>1, <1>2, <1>3, <1>4, SameNames
  <1>6. SameSymbol(s[i], s[j])
    BY <1>1, <1>2, <1>5, SameIsEquivalence
  <1>7. SymbolAs(s, i) = SymbolAs(s, j)
    BY <1>6 DEF SameSymbol, SymbolAs, NameOf
  <1> QED
    BY <1>1, <1>2, <1>5, <1>7

LEMMA SameAs ==
    ASSUME NEW s, NEW i, NEW j
    PROVE  /\ SameSymbol(s[i], s[j]) => SymbolAs(s, i) = SymbolAs(s, j)
           /\ SymbolAs(s, i) = SymbolAs(s, j) => Id(s[i]) = Id(s[j])
  <1>1. SameSymbol(s[i], s[j]) => SymbolAs(s, i) = SymbolAs(s, j)
    BY DEF SameSymbol, SymbolAs, NameOf
  <1>2. ASSUME SymbolAs(s, i) = SymbolAs(s, j)
        PROVE  Id(s[i]) = Id(s[j])
    <2>1. NameOf(s, i) = NameOf(s, j) /\ s[i].version.default = s[j].version.default
      BY <1>2 DEF SymbolAs
    <2>2. s[i].name = s[j].name /\ s[i].version.name = s[j].version.name
      BY <2>1 DEF NameOf
    <2> QED
      BY <2>1, <2>2 DEF Id, IdString
  <1> QED
    BY <1>1, <1>2

LEMMA SymbolsFinite ==
    ASSUME NEW s, NEW part, part.syms \in Seq(Nat)
    PROVE  IsFiniteSet(SymbolsAs(s, part))
  <1>1. PICK n, list : list = part.syms /\ n = Len(list)
    OBVIOUS
  <1>2. n \in Nat /\ DOMAIN list = 1 .. n
    BY <1>1, LenProperties
  <1>3. IsFiniteSet(1 .. n)
    BY <1>2, FS_Interval
  <1>4. PICK F : F = [x \in 1 .. n |-> SymbolAs(s, list[x])]
    OBVIOUS
  <1>5. F \in Surjection(1 .. n, SymbolsAs(s, part))
    <2>1. \A x \in 1 .. n : F[x] \in SymbolsAs(s, part)
      BY <1>1, <1>2, <1>4 DEF SymbolsAs, ToSet
    <2>2. F \in [1 .. n -> SymbolsAs(s, part)]
      BY <1>4, <2>1
    <2>3. \A y \in SymbolsAs(s, part) : \E x \in 1 .. n : F[x] = y
      BY <1>1, <1>2, <1>4 DEF SymbolsAs, ToSet
    <2> QED
      BY <2>2, <2>3 DEF Surjection
  <1> QED
    BY <1>3, <1>5, FS_Surjection

\* A part of a library, apart from the other.
PartLibrary(s, part) ==
    /\ IsFiniteSet(SymbolsAs(s, part))
    /\ \A x, y \in SymbolsAs(s, part) : x.name = y.name => x = y
    /\ \A d \in DOMAIN part.decls : DeclsAs(s, part)[d].symbol \in SymbolsAs(s, part)
    /\ \A c, d \in DOMAIN part.decls :
         DeclsAs(s, part)[c].symbol = DeclsAs(s, part)[d].symbol => c = d
    /\ \A ring \in RingsAs(s, part) : ToSet(ring) \subseteq {x.name : x \in SymbolsAs(s, part)}

LEMMA RingNames ==
    ASSUME NEW s, NEW part, NEW read, NEW k, NEW d, NEW v, NEW L,
           RingedPart(s, part, read, k), DeclOf(s, part, read, k, d, v, L), NextAliases(s, d) # <<>>
    PROVE  ToSet(RingAs(s, d)) \subseteq {x.name : x \in SymbolsAs(s, part)}
  <1>1. RingFound(s, part, read.elf, k, v, L) /\ d \in 1 .. Len(s)
        /\ (d = L[1] \/ (s[d].nextAlias = 0 /\ s[d].main = d))
    BY DEF DeclOf
  <1>2. Heap(s)
    BY DEF RingedPart
  <1>3. d = L[1]
    <2>1. ASSUME d # L[1]
          PROVE  FALSE
      <3>1. Alone(s, d)
        BY <1>1, <2>1 DEF Alone
      <3> QED
        BY <1>2, <3>1, AloneAliases
    <2> QED
      BY <2>1
  <1>4. IsRing(s, L) /\ ToSet(L) \subseteq ToSet(part.syms)
    BY <1>1, RingAnyAddress
  <1>5. PICK n : n = Len(L)
    OBVIOUS
  <1>6. <<d>> \o NextAliases(s, d) = L /\ 1 + Len(NextAliases(s, d)) = n
    BY <1>2, <1>3, <1>4, <1>5, RingUnrolled
  <1>7. RingAs(s, d) = [i \in 1 .. n |-> NameOf(s, L[i])]
    BY <1>6 DEF RingAs
  <1>8. \A j \in 1 .. n : L[j] \in ToSet(L)
    BY <1>2, <1>4, <1>5, RingElements
  <1> SUFFICES ASSUME NEW j \in 1 .. n
               PROVE  NameOf(s, L[j]) \in {x.name : x \in SymbolsAs(s, part)}
    BY <1>7 DEF ToSet
  <1>9. L[j] \in ToSet(part.syms)
    BY <1>4, <1>8
  <1>10. SymbolAs(s, L[j]) \in SymbolsAs(s, part)
    BY <1>9 DEF SymbolsAs
  <1>11. SymbolAs(s, L[j]).name = NameOf(s, L[j])
    BY DEF SymbolAs
  <1> QED
    BY <1>10, <1>11

LEMMA PartIsLibrary ==
    ASSUME NEW w, NEW s, NEW part, NEW g, NEW k, ReadPart(w, s, part, g, k), Heap(s),
           NEW read, read = w.files[g], GoodRead(read)
    PROVE  PartLibrary(s, part)
  <1>1. RingedPart(s, part, read, k)
    BY ReadRinged
  <1>2. part.syms \in Seq(Nat) /\ part.decls \in Seq(Nat)
    BY <1>1 DEF RingedPart, Parts
  <1>3. IsFiniteSet(SymbolsAs(s, part))
    BY <1>2, SymbolsFinite
  <1>4. ASSUME NEW x \in SymbolsAs(s, part), NEW y \in SymbolsAs(s, part), x.name = y.name
        PROVE  x = y
    <2>1. PICK i \in ToSet(part.syms) : x = SymbolAs(s, i)
      BY DEF SymbolsAs
    <2>2. PICK j \in ToSet(part.syms) : y = SymbolAs(s, j)
      BY DEF SymbolsAs
    <2>3. NameOf(s, i) = NameOf(s, j)
      BY <1>4, <2>1, <2>2 DEF SymbolAs
    <2>4. SymbolAs(s, i) = SymbolAs(s, j)
      BY <1>1, <2>3, NamesTwice
    <2> QED
      BY <2>1, <2>2, <2>4
  <1>5. PICK n : n = Len(part.decls)
    OBVIOUS
  <1>6. DOMAIN part.decls = 1 .. n /\ \A d \in 1 .. n : part.decls[d] \in ToSet(part.decls)
    BY <1>2, <1>5, LenProperties DEF ToSet
  <1>7. ASSUME NEW d \in ToSet(part.decls)
        PROVE  /\ SymbolAs(s, d) \in SymbolsAs(s, part)
               /\ NextAliases(s, d) # <<>> =>
                    ToSet(RingAs(s, d)) \subseteq {x.name : x \in SymbolsAs(s, part)}
    <2>1. PICK v \in DOMAIN part.mainAt : \E L : DeclOf(s, part, read, k, d, v, L)
      BY <1>7, DeclFound
    <2>2. PICK L : DeclOf(s, part, read, k, d, v, L)
      BY <2>1
    <2>3. RingFound(s, part, read.elf, k, v, L) /\ SameSymbol(s[d], s[L[1]])
      BY <2>2 DEF DeclOf
    <2>4. L[1] \in ToSet(part.syms)
      BY <1>1, <2>3, RingAnyAddress
    <2>5. SymbolAs(s, d) = SymbolAs(s, L[1])
      BY <2>3, SameAs
    <2>6. SymbolAs(s, d) \in SymbolsAs(s, part)
      BY <2>4, <2>5 DEF SymbolsAs
    <2>7. NextAliases(s, d) # <<>> =>
            ToSet(RingAs(s, d)) \subseteq {x.name : x \in SymbolsAs(s, part)}
      BY <1>1, <2>2, RingNames
    <2> QED
      BY <2>6, <2>7
  <1>8. \A d \in 1 .. n : DeclsAs(s, part)[d].symbol = SymbolAs(s, part.decls[d])
    BY <1>6 DEF DeclsAs
  <1>9. \A d \in DOMAIN part.decls : DeclsAs(s, part)[d].symbol \in SymbolsAs(s, part)
    BY <1>6, <1>7, <1>8
  <1>10. ASSUME NEW c \in 1 .. n, NEW d \in 1 .. n,
                DeclsAs(s, part)[c].symbol = DeclsAs(s, part)[d].symbol
         PROVE  c = d
    <2>1. SymbolAs(s, part.decls[c]) = SymbolAs(s, part.decls[d])
      BY <1>8, <1>10
    <2>2. Id(s[part.decls[c]]) = Id(s[part.decls[d]])
      BY <2>1, SameAs
    <2>3. PICK m, e, source : PartIs(s, part, read, k, m, e, source)
      BY DEF ReadPart
    <2>4. DeclsRight(s, part, k, read.dies, e, source)
      BY <2>3 DEF PartIs
    <2> QED
      BY <1>5, <2>2, <2>4 DEF DeclsRight, DeclId
  <1>11. ASSUME NEW ring \in RingsAs(s, part)
         PROVE  ToSet(ring) \subseteq {x.name : x \in SymbolsAs(s, part)}
    <2>1. PICK d \in ToSet(part.decls) : NextAliases(s, d) # <<>> /\ ring = RingAs(s, d)
      BY DEF RingsAs
    <2> QED
      BY <1>7, <2>1
  <1> QED
    BY <1>3, <1>4, <1>6, <1>9, <1>10, <1>11 DEF PartLibrary

\* The symbols of different parts have different names.
LEMMA PartsNamedApart ==
    ASSUME NEW s, NEW part, NEW other, NEW read, NEW k, NEW l, k # l,
           RingedPart(s, part, read, k), RingedPart(s, other, read, l),
           NEW x \in SymbolsAs(s, part), NEW y \in SymbolsAs(s, other)
    PROVE  x.name # y.name
  <1>1. PICK i \in ToSet(part.syms) : x = SymbolAs(s, i)
    BY DEF SymbolsAs
  <1>2. PICK j \in ToSet(other.syms) : y = SymbolAs(s, j)
    BY DEF SymbolsAs
  <1>3. ASSUME x.name = y.name
        PROVE  FALSE
    <2>1. NameOf(s, i) = NameOf(s, j)
      BY <1>1, <1>2, <1>3 DEF SymbolAs
    <2> QED
      BY <2>1, NamesTwice
  <1> QED
    BY <1>3

\* The addresses, with a public symbol, that are described.
Described(part, read, k) ==
    {v \in DOMAIN part.mainAt :
       At(read.elf, k, v) # {} /\ \E d \in ToSet(read.dies) : d = [kind |-> k, address |-> v]}
FirstIds(elf, k, V) == {EntryId(elf, Min(At(elf, k, v))) : v \in V}

LEMMA RingNotEmpty ==
    ASSUME NEW s, NEW part, NEW read, NEW k, RingedPart(s, part, read, k),
           NEW v, NEW L, RingFound(s, part, read.elf, k, v, L)
    PROVE  At(read.elf, k, v) # {}
  BY RingAnyAddress

LEMMA DiesAre ==
    ASSUME NEW read, GoodRead(read)
    PROVE  /\ read.dies \in Seq([kind : SymbolKinds, address : Nat])
           /\ Len(read.dies) \in Nat
           /\ \A i \in 1 .. Len(read.dies) : read.dies[i] \in ToSet(read.dies)
           /\ \A d \in ToSet(read.dies) : \E i \in 1 .. Len(read.dies) : d = read.dies[i]
  <1>1. read.dies \in Seq([kind : SymbolKinds, address : Nat])
    BY DEF GoodRead
  <1> QED
    BY <1>1, LenProperties DEF ToSet

\* Of each described address with a symbol there is a declaration, and of nothing else.
LEMMA DeclsAreDescribed ==
    ASSUME NEW w, NEW s, NEW part, NEW g, NEW k, ReadPart(w, s, part, g, k), Heap(s),
           NEW read, read = w.files[g], GoodRead(read), AllRead(w, s, part, g, k)
    PROVE  IdsIn(s, ToSet(part.decls)) = FirstIds(read.elf, k, Described(part, read, k))
  <1>1. RingedPart(s, part, read, k)
    BY ReadRinged
  <1>2. part.decls \in Seq(Nat)
    BY <1>1 DEF RingedPart, Parts
  <1>3. /\ read.dies \in Seq([kind : SymbolKinds, address : Nat])
        /\ Len(read.dies) \in Nat
        /\ \A i \in 1 .. Len(read.dies) : read.dies[i] \in ToSet(read.dies)
        /\ \A d \in ToSet(read.dies) : \E i \in 1 .. Len(read.dies) : d = read.dies[i]
    BY DiesAre
  <1>4. ASSUME NEW v, NEW L, NEW d, RingFound(s, part, read.elf, k, v, L), SameSymbol(s[d], s[L[1]])
        PROVE  Id(s[d]) = EntryId(read.elf, Min(At(read.elf, k, v)))
    <2>1. PICK e : e = Min(At(read.elf, k, v))
      OBVIOUS
    <2>2. Is(s, L[1], read.elf, e)
      BY <1>1, <1>4, <2>1, RingAnyAddress
    <2>3. SameSymbol(s[d], ElfSymbol(read.elf, e))
      BY <1>4, <2>2, SameIsEquivalence DEF Is
    <2>4. Id(s[d]) = Id(ElfSymbol(read.elf, e))
      BY <2>3, SameId
    <2> QED
      BY <2>1, <2>4, ElfSymbolIs
  <1>5. ASSUME NEW d \in ToSet(part.decls)
        PROVE  Id(s[d]) \in FirstIds(read.elf, k, Described(part, read, k))
    <2>1. PICK v \in DOMAIN part.mainAt : \E L : DeclOf(s, part, read, k, d, v, L)
      BY <1>5, DeclFound
    <2>2. PICK L : DeclOf(s, part, read, k, d, v, L)
      BY <2>1
    <2>3. RingFound(s, part, read.elf, k, v, L) /\ SameSymbol(s[d], s[L[1]])
      BY <2>2 DEF DeclOf
    <2>12. At(read.elf, k, v) # {}
      BY <1>1, <2>3, RingNotEmpty
    <2>4. PICK i \in 1 .. Len(read.dies) : read.dies[i].kind = k /\ read.dies[i].address = v
      BY <2>2 DEF DeclOf
    <2>5. PICK x \in [kind : SymbolKinds, address : Nat] : x = read.dies[i]
      BY <1>3, <2>4, ElementOfSeq
    <2>6. x = [kind |-> k, address |-> v]
      BY <2>4, <2>5
    <2>7. \E x1 \in ToSet(read.dies) : x1 = [kind |-> k, address |-> v]
      BY <1>3, <2>4, <2>5, <2>6
    <2>9. v \in Described(part, read, k)
      BY <2>1, <2>12, <2>7 DEF Described
    <2>10. Id(s[d]) = EntryId(read.elf, Min(At(read.elf, k, v)))
      BY <1>4, <2>3
    <2> QED
      BY <2>9, <2>10 DEF FirstIds
  <1>6. ASSUME NEW v \in Described(part, read, k)
        PROVE  EntryId(read.elf, Min(At(read.elf, k, v))) \in IdsIn(s, ToSet(part.decls))
    <2>1. v \in DOMAIN part.mainAt /\ At(read.elf, k, v) # {}
      BY DEF Described
    <2>2. PICK x \in ToSet(read.dies) : x = [kind |-> k, address |-> v]
      BY DEF Described
    <2>3. PICK i \in 1 .. Len(read.dies) : x = read.dies[i]
      BY <1>3, <2>2
    <2>4. read.dies[i].kind = k /\ read.dies[i].address = v
      BY <2>2, <2>3
    <2>5. RingsAre(s, part, read.elf, k)
      BY <1>1 DEF RingedPart
    <2>6. part.mainAt[v] # 0
      BY <2>1, <2>5 DEF RingsAre
    <2>7. PICK y \in 1 .. Len(part.decls) : Describes(s, part, k, read.dies, part.decls[y], i)
      BY <2>3, <2>4, <2>6 DEF AllRead, AllDeclared
    <2>8. PICK d : d = part.decls[y]
      OBVIOUS
    <2>9. SameSymbol(s[d], s[part.mainAt[v]])
      BY <2>4, <2>7, <2>8 DEF Describes
    <2>10. d \in ToSet(part.decls)
      BY <1>2, <2>7, <2>8, LenProperties DEF ToSet
    <2>11. PICK L : RingFound(s, part, read.elf, k, v, L)
      BY <2>1, <2>5, <2>6 DEF RingsAre
    <2>12. SameSymbol(s[d], s[L[1]])
      BY <2>9, <2>11, SameIsEquivalence DEF RingFound
    <2>13. Id(s[d]) = EntryId(read.elf, Min(At(read.elf, k, v)))
      BY <1>4, <2>11, <2>12
    <2> QED
      BY <2>10, <2>13 DEF IdsIn
  <1>7. \A y \in IdsIn(s, ToSet(part.decls)) : y \in FirstIds(read.elf, k, Described(part, read, k))
    BY <1>5 DEF IdsIn
  <1>8. \A y \in FirstIds(read.elf, k, Described(part, read, k)) : y \in IdsIn(s, ToSet(part.decls))
    BY <1>6 DEF FirstIds
  <1> QED
    BY <1>7, <1>8

\* What is compared are libraries.
LEMMA CorporaFromInvariant ==
    IInv => CorporaAreLibraries
  <1> SUFFICES ASSUME IInv
               PROVE  CorporaAreLibraries
    OBVIOUS
  <1>1. TypeOK
    BY TypesFromInvariant
  <1>2. ASSUME NEW f \in Libs, FileRead(f), world.tool # "abisym", NEW k \in SymbolKinds
        PROVE  /\ ReadPart(world, symbols, corpora[f][k], f, k) /\ Heap(symbols)
               /\ GoodRead(world.files[f])
               /\ Selected(world, phase) \/ AllRead(world, symbols, corpora[f][k], f, k)
    <2>1. PICK w, s, c, g, p, n :
          /\ w = world /\ s = symbols /\ c = corpora /\ g = file /\ p = phase /\ n = next
      OBVIOUS
    <2>2. w \in Worlds /\ (Early(w, s, c, g, p, n) \/ Late(w, s, c, g, p, n))
      BY <1>2, <2>1 DEF IInv, RightState
    <2>3. CorporaIn(w, c)
      BY <2>2 DEF Early, Late
    <2>4. f \in DOMAIN c
      BY <2>1, <2>3 DEF CorporaIn, Libs
    <2>5. f \in DOMAIN corpora
      BY <2>1, <2>4
    <2> QED
      BY <1>2, <2>5, FileIsRead
  <1>3. ASSUME NEW f \in Libs, FileRead(f), world.tool # "abisym"
        PROVE  IsLibrary(AsLibrary(f))
    <2>1. AsLibrary(f) = [kind \in Kinds |-> PartAs(symbols, corpora[f][PartNamed(kind)])]
      BY LibraryParts
    <2>2. \A kind \in Kinds : PartNamed(kind) \in SymbolKinds
      BY DEF PartNamed, Kinds, SymbolKinds
    <2>3. \A kind, other \in Kinds : kind # other => PartNamed(kind) # PartNamed(other)
      BY DEF PartNamed, Kinds
    <2>4. ASSUME NEW kind \in Kinds
          PROVE  /\ PartLibrary(symbols, corpora[f][PartNamed(kind)])
                 /\ RingedPart(symbols, corpora[f][PartNamed(kind)], world.files[f], PartNamed(kind))
      <3>1. PICK k \in SymbolKinds : k = PartNamed(kind)
        BY <2>2
      <3>2. /\ ReadPart(world, symbols, corpora[f][k], f, k) /\ Heap(symbols)
            /\ GoodRead(world.files[f])
        BY <1>2, <1>3, <3>1
      <3>3. PICK w, s, part, read : /\ w = world /\ s = symbols /\ part = corpora[f][k]
                                    /\ read = world.files[f]
        OBVIOUS
      <3>4. ReadPart(w, s, part, f, k) /\ Heap(s) /\ GoodRead(w.files[f]) /\ read = w.files[f]
            /\ GoodRead(read)
        BY <3>2, <3>3
      <3>5. PartLibrary(s, part)
        BY <3>4, PartIsLibrary
      <3>6. RingedPart(s, part, read, k)
        BY <3>4, ReadRinged
      <3> QED
        BY <3>1, <3>3, <3>5, <3>6
    <2>5. ASSUME NEW kind \in Kinds, NEW other \in Kinds \ {kind}
          PROVE  \A x \in SymbolsAs(symbols, corpora[f][PartNamed(kind)]) :
                 \A y \in SymbolsAs(symbols, corpora[f][PartNamed(other)]) : x.name # y.name
      <3>1. PICK s, part, alter, read, k, l :
              /\ s = symbols /\ part = corpora[f][PartNamed(kind)]
              /\ alter = corpora[f][PartNamed(other)] /\ read = world.files[f]
              /\ k = PartNamed(kind) /\ l = PartNamed(other)
        OBVIOUS
      <3>2. RingedPart(s, part, read, k) /\ RingedPart(s, alter, read, l) /\ k # l
        BY <2>3, <2>4, <3>1
      <3>3. \A x \in SymbolsAs(s, part) : \A y \in SymbolsAs(s, alter) : x.name # y.name
        BY <3>2, PartsNamedApart
      <3> QED
        BY <3>1, <3>3
    <2>6. PICK l : l = AsLibrary(f)
      OBVIOUS
    <2>7. \A kind \in Kinds :
            /\ l[kind].symbols = SymbolsAs(symbols, corpora[f][PartNamed(kind)])
            /\ l[kind].decls = DeclsAs(symbols, corpora[f][PartNamed(kind)])
            /\ l[kind].rings = RingsAs(symbols, corpora[f][PartNamed(kind)])
      BY <2>1, <2>6 DEF PartAs
    <2>8. ASSUME NEW kind \in Kinds
          PROVE  /\ IsFiniteSet(l[kind].symbols)
                 /\ \A s, t \in l[kind].symbols : s.name = t.name => s = t
                 /\ \A other \in Kinds \ {kind} : \A s \in l[kind].symbols, t \in l[other].symbols :
                      s.name # t.name
                 /\ \A i \in DOMAIN l[kind].decls : l[kind].decls[i].symbol \in l[kind].symbols
                 /\ \A i, j \in DOMAIN l[kind].decls :
                      l[kind].decls[i].symbol = l[kind].decls[j].symbol => i = j
                 /\ \A ring \in l[kind].rings : ToSet(ring) \subseteq {s.name : s \in l[kind].symbols}
      <3>1. PICK s, part : s = symbols /\ part = corpora[f][PartNamed(kind)]
        OBVIOUS
      <3>2. PartLibrary(s, part)
        BY <2>4, <3>1
      <3>3. l[kind].symbols = SymbolsAs(s, part) /\ l[kind].decls = DeclsAs(s, part)
            /\ l[kind].rings = RingsAs(s, part)
        BY <2>7, <3>1
      <3>4. DOMAIN l[kind].decls = DOMAIN part.decls
        BY <3>3 DEF DeclsAs
      <3>5. \A other \in Kinds \ {kind} : \A x \in l[kind].symbols, y \in l[other].symbols :
              x.name # y.name
        BY <2>5, <2>7
      <3> QED
        BY <3>2, <3>3, <3>4, <3>5 DEF PartLibrary
    <2>9. IsLibrary(l)
      BY <2>8 DEF IsLibrary
    <2> QED
      BY <2>6, <2>9
  <1>4. ASSUME NEW f \in Libs, FileRead(f), world.tool # "abisym", NEW k \in SymbolKinds,
               phase \notin {"compare", "done"} \/ world.tool # "abicompat"
        PROVE  IdsIn(symbols, ToSet(corpora[f][k].decls)) =
                 FirstIds(world.files[f].elf, k, Described(corpora[f][k], world.files[f], k))
    <2>1. PICK w, s, part, read : /\ w = world /\ s = symbols /\ part = corpora[f][k]
                                  /\ read = world.files[f]
      OBVIOUS
    <2>2. ~Selected(world, phase)
      BY <1>4 DEF Selected
    <2>3. ReadPart(w, s, part, f, k) /\ Heap(s) /\ read = w.files[f] /\ GoodRead(read)
          /\ AllRead(w, s, part, f, k)
      BY <1>2, <1>4, <2>1, <2>2
    <2>4. IdsIn(s, ToSet(part.decls)) = FirstIds(read.elf, k, Described(part, read, k))
      BY <2>3, DeclsAreDescribed
    <2> QED
      BY <2>1, <2>4
  <1>5. ASSUME NEW f \in {g \in Libs : FileRead(g) /\ world.tool # "abisym"},
               phase \notin {"compare", "done"} \/ world.tool # "abicompat", NEW k \in SymbolKinds
        PROVE  LET elf == world.files[f].elf
               IN  {Id(symbols[d]) : d \in ToSet(corpora[f][k].decls)} =
                     {EntryId(elf, Min(At(elf, k, v))) :
                        v \in {v \in DOMAIN corpora[f][k].mainAt :
                                 At(elf, k, v) # {} /\ \E d \in ToSet(world.files[f].dies) :
                                                        d = [kind |-> k, address |-> v]}}
    <2>1. f \in Libs /\ FileRead(f) /\ world.tool # "abisym"
      BY <1>5
    <2>2. IdsIn(symbols, ToSet(corpora[f][k].decls)) =
            FirstIds(world.files[f].elf, k, Described(corpora[f][k], world.files[f], k))
      BY <1>4, <1>5, <2>1
    <2> QED
      BY <2>2 DEF IdsIn, FirstIds, Described
  <1>6. \A f \in {g \in Libs : FileRead(g) /\ world.tool # "abisym"} : IsLibrary(AsLibrary(f))
    BY <1>3
  <1> QED
    BY <1>1, <1>5, <1>6 DEF CorporaAreLibraries

-----------------------------------------------------------------------------
(* Looking symbols up by name                                               *)

OwnAt(elf, I, D, j) == VersionForSymbol(elf, I[j], I[j] \in D)
HavingAt(elf, I, D, one, j) ==
    {k \in (IF one THEN 1 ELSE j) .. j : OwnAt(elf, I, D, k) # NoVersion}

LEMMA FoundAtIs ==
    ASSUME NEW elf, NEW I, NEW D, NEW one
    PROVE  FoundAt(elf, I, D, one) =
             [j \in DOMAIN I |->
                [index |-> I[j],
                 version |-> IF HavingAt(elf, I, D, one, j) = {} THEN NoVersion
                             ELSE OwnAt(elf, I, D, Max(HavingAt(elf, I, D, one, j)))]]
  BY DEF FoundAt, OwnAt, HavingAt

\* A symbol with a version of its own gets no other's.
LEMMA OwnVersionFound ==
    ASSUME NEW elf, NEW I \in Seq(Nat), NEW D, NEW one \in BOOLEAN, NEW told,
           told = FoundAt(elf, I, D, one)
    PROVE  /\ {x.index : x \in ToSet(told)} = ToSet(I)
           /\ \A x \in ToSet(told) :
                VersionForSymbol(elf, x.index, x.index \in D) # NoVersion =>
                  x.version = VersionForSymbol(elf, x.index, x.index \in D)
  <1>1. PICK n \in Nat : n = Len(I) /\ DOMAIN I = 1 .. n
    BY LenProperties
  <1>2. /\ DOMAIN told = 1 .. n
        /\ \A j \in 1 .. n :
             /\ told[j].index = I[j]
             /\ told[j].version =
                  IF HavingAt(elf, I, D, one, j) = {} THEN NoVersion
                  ELSE OwnAt(elf, I, D, Max(HavingAt(elf, I, D, one, j)))
    BY <1>1, FoundAtIs
  <1>3. {x.index : x \in ToSet(told)} = ToSet(I)
    BY <1>1, <1>2 DEF ToSet
  <1>4. ASSUME NEW j \in 1 .. n, OwnAt(elf, I, D, j) # NoVersion
        PROVE  told[j].version = OwnAt(elf, I, D, j)
    <2>1. PICK H : H = HavingAt(elf, I, D, one, j)
      OBVIOUS
    <2>2. j \in H /\ \A k \in H : k \in Nat /\ k <= j
      <3>1. CASE one = TRUE
        BY <1>1, <1>4, <2>1, <3>1 DEF HavingAt
      <3>2. CASE one = FALSE
        BY <1>1, <1>4, <2>1, <3>2 DEF HavingAt
      <3> QED
        BY <3>1, <3>2
    <2>3. Max(H) \in H /\ \A k \in H : Max(H) >= k
      <3>1. \E x \in H : \A y \in H : x >= y
        BY <2>2
      <3> QED
        BY <3>1 DEF Max
    <2>4. Max(H) = j
      <3>1. PICK m : m = Max(H)
        OBVIOUS
      <3>2. m \in Nat /\ m <= j /\ m >= j
        BY <2>2, <2>3, <3>1
      <3> QED
        BY <3>1, <3>2
    <2> QED
      BY <1>2, <2>1, <2>2, <2>4
  <1>5. ASSUME NEW x \in ToSet(told), VersionForSymbol(elf, x.index, x.index \in D) # NoVersion
        PROVE  x.version = VersionForSymbol(elf, x.index, x.index \in D)
    <2>1. PICK j \in 1 .. n : x = told[j]
      BY <1>2 DEF ToSet
    <2>2. x.index = I[j]
      BY <1>2, <2>1
    <2>3. OwnAt(elf, I, D, j) = VersionForSymbol(elf, x.index, x.index \in D)
      BY <2>2 DEF OwnAt
    <2> QED
      BY <1>4, <1>5, <2>1, <2>3
  <1> QED
    BY <1>3, <1>5

\* The version the linker wrote is the one that is told.
LEMMA OwnVersionIs ==
    ASSUME NEW elf, elf.dynsym \in Seq(Entries), HasVersionSections(elf),
           NEW i \in DOMAIN elf.dynsym, OwnVersion(elf, i) # NoVersion
    PROVE  VersionForSymbol(elf, i, TRUE) = OwnVersion(elf, i)
  <1>1. PICK entry \in Entries : entry = elf.dynsym[i]
    BY ElementOfSeq, LenProperties
  <1>2. entry.ndx \in Nat /\ entry.hidden \in BOOLEAN
    BY DEF Entries
  <1>3. PICK versym : versym = [ndx |-> entry.ndx, hidden |-> entry.hidden]
    OBVIOUS
  <1>4. versym.ndx = entry.ndx /\ versym.hidden = entry.hidden
    BY <1>3
  <1>5. PICK at : at = SelectInSeq(elf.verdef, LAMBDA d : d.ndx = entry.ndx)
    OBVIOUS
  <1>6. /\ at # 0 /\ ~(entry.ndx <= 1)
        /\ OwnVersion(elf, i) = [name |-> elf.verdef[at].name, default |-> ~entry.hidden]
    BY <1>1, <1>5 DEF OwnVersion, SelectInSeq
  <1>7. VersionDefinition(elf, versym) = [name |-> elf.verdef[at].name, default |-> ~entry.hidden]
    BY <1>4, <1>5, <1>6 DEF VersionDefinition, SelectInSeq
  <1>8. ~(i > Len(elf.dynsym))
    BY LenProperties
  <1>9. VersionForSymbol(elf, i, TRUE) = VersionDefinition(elf, versym)
    <2>1. ~((entry.ndx <= 1 /\ ~entry.hidden) \/ (TRUE /\ entry.ndx = 1))
      BY <1>2, <1>6
    <2> QED
      BY <1>1, <1>3, <1>4, <1>8, <2>1 DEF VersionForSymbol
  <1> QED
    BY <1>6, <1>7, <1>9

LEMMA NamedIs ==
    ASSUME NEW table \in Seq(Entries), NEW name
    PROVE  /\ Named(table, name) \in Seq(Nat)
           /\ ToSet(Named(table, name)) = {i \in DOMAIN table : table[i].name = name}
  <1>1. PICK n \in Nat : n = Len(table) /\ DOMAIN table = 1 .. n
    BY LenProperties
  <1>2. PICK s : s = [i \in 1 .. n |-> i]
    OBVIOUS
  <1>3. s \in Seq(Nat) /\ ToSet(s) = 1 .. n
    <2>1. \A i \in 1 .. n : s[i] \in Nat
      BY <1>2
    <2>2. s \in Seq(Nat)
      BY <1>2, <2>1, IsASeq
    <2>3. ToSet(s) = 1 .. n
      BY <1>2 DEF ToSet
    <2> QED
      BY <2>2, <2>3
  <1>4. PICK T : T = {i \in DOMAIN table : table[i].name = name}
    OBVIOUS
  <1>5. Named(table, name) = SelectIn(s, T)
    BY <1>1, <1>2, <1>4 DEF Named
  <1>6. SelectIn(s, T) \in Seq(Nat) /\ ToSet(SelectIn(s, T)) = ToSet(s) \cap T
    BY <1>3, SelectInIs
  <1> QED
    BY <1>1, <1>3, <1>4, <1>5, <1>6

TableOf(elf, demangle) == IF demangle \/ elf.hash = "none" THEN SymbolTable(elf) ELSE elf.dynsym
NamedIn(table, name) == {i \in DOMAIN table : table[i].name = name}

FirstBit(h) == h % 64
SecondBit(h) == (h \div (2 ^ Shift)) % 64

\* The Bloom filter that the code reads wrongly.
Misread(elf, name, demangle) ==
    LET h == HashOf[name[1]]
    IN  /\ elf.hash = "gnu" /\ ~demangle
        /\ elf.nwords > 1 \/ FirstBit(h) > 31 \/ SecondBit(h) > 31

AllPublic(table, name) == {i \in NamedIn(table, name) : IsPublic(table[i])}
AllVersioned(elf, table, name) ==
    /\ table = elf.dynsym /\ HasVersionSections(elf)
    /\ \A i \in NamedIn(table, name) : IsDefined(table[i]) /\ OwnVersion(elf, i) # NoVersion

IndexesOf(told) == {x.index : x \in ToSet(told)}
VersionsRight(elf, table, name, told) ==
    AllVersioned(elf, table, name) => \A x \in ToSet(told) : x.version = OwnVersion(elf, x.index)
DefinedIn(table, name, D) == \A i \in NamedIn(table, name) : IsDefined(table[i]) => i \in D

FoundRight(elf, name, demangle, told) ==
    LET table == TableOf(elf, demangle)
    IN  /\ IndexesOf(told) \subseteq NamedIn(table, name)
        /\ ~Misread(elf, name, demangle) => AllPublic(table, name) \subseteq IndexesOf(told)
        /\ VersionsRight(elf, table, name, told)

\* What is found, whatever of it is looked for among the versions that are defined.
LEMMA FoundIn ==
    ASSUME NEW elf, NEW table, NEW name, NEW I, NEW D, NEW one, NEW told,
           elf.dynsym \in Seq(Entries), I \in Seq(Nat), ToSet(I) \subseteq NamedIn(table, name),
           one \in BOOLEAN, DefinedIn(table, name, D), told = FoundAt(elf, I, D, one)
    PROVE  IndexesOf(told) = ToSet(I) /\ VersionsRight(elf, table, name, told)
  <1>1. /\ {x.index : x \in ToSet(told)} = ToSet(I)
        /\ \A x \in ToSet(told) :
             VersionForSymbol(elf, x.index, x.index \in D) # NoVersion =>
               x.version = VersionForSymbol(elf, x.index, x.index \in D)
    BY OwnVersionFound
  <1>2. ASSUME AllVersioned(elf, table, name), NEW x \in ToSet(told)
        PROVE  x.version = OwnVersion(elf, x.index)
    <2>1. PICK i : i = x.index
      OBVIOUS
    <2>2. i \in NamedIn(table, name)
      BY <1>1, <2>1
    <2>3. /\ table = elf.dynsym /\ HasVersionSections(elf)
          /\ IsDefined(table[i]) /\ OwnVersion(elf, i) # NoVersion
      BY <1>2, <2>2 DEF AllVersioned
    <2>4. (i \in D) = TRUE
      BY <2>2, <2>3 DEF DefinedIn
    <2>5. i \in DOMAIN elf.dynsym
      BY <2>2, <2>3 DEF NamedIn
    <2>6. VersionForSymbol(elf, i, TRUE) = OwnVersion(elf, i)
      BY <2>3, <2>5, OwnVersionIs
    <2>7. VersionForSymbol(elf, i, i \in D) # NoVersion => x.version = VersionForSymbol(elf, i, i \in D)
      BY <1>1, <2>1
    <2> QED
      BY <2>1, <2>3, <2>4, <2>6, <2>7
  <1> QED
    BY <1>1, <1>2 DEF IndexesOf, VersionsRight

LEMMA SymtabRight ==
    ASSUME NEW elf, elf.dynsym \in Seq(Entries), NEW table \in Seq(Entries), NEW name,
           NEW told, told = LookupInSymtab(elf, table, name)
    PROVE  IndexesOf(told) = NamedIn(table, name) /\ VersionsRight(elf, table, name, told)
  <1>1. PICK I, D : I = Named(table, name) /\ D = {i \in DOMAIN table : IsDefined(table[i])}
    OBVIOUS
  <1>2. I \in Seq(Nat) /\ ToSet(I) = NamedIn(table, name)
    BY <1>1, NamedIs DEF NamedIn
  <1>3. DefinedIn(table, name, D)
    BY <1>1 DEF NamedIn, DefinedIn
  <1>4. told = FoundAt(elf, I, D, TRUE)
    BY <1>1 DEF LookupInSymtab
  <1>5. ToSet(I) \subseteq NamedIn(table, name) /\ TRUE \in BOOLEAN
    BY <1>2
  <1>6. IndexesOf(told) = ToSet(I) /\ VersionsRight(elf, table, name, told)
    BY <1>2, <1>3, <1>4, <1>5, FoundIn
  <1> QED
    BY <1>2, <1>6

LEMMA SysvHashRight ==
    ASSUME NEW elf, elf.dynsym \in Seq(Entries), NEW name,
           NEW told, told = LookupInSysvHash(elf, name)
    PROVE  IndexesOf(told) = NamedIn(elf.dynsym, name) /\ VersionsRight(elf, elf.dynsym, name, told)
  <1>1. PICK I, D, table : /\ I = Named(table, name) /\ D = DOMAIN table /\ table = elf.dynsym
    OBVIOUS
  <1>2. I \in Seq(Nat) /\ ToSet(I) = NamedIn(table, name)
    BY <1>1, NamedIs DEF NamedIn
  <1>3. DefinedIn(table, name, D)
    BY <1>1 DEF NamedIn, DefinedIn
  <1>4. told = FoundAt(elf, I, D, FALSE)
    BY <1>1 DEF LookupInSysvHash
  <1>5. ToSet(I) \subseteq NamedIn(table, name) /\ FALSE \in BOOLEAN
    BY <1>2
  <1>6. IndexesOf(told) = ToSet(I) /\ VersionsRight(elf, table, name, told)
    BY <1>2, <1>3, <1>4, <1>5, FoundIn
  <1> QED
    BY <1>1, <1>2, <1>6

LEMMA BitsAre ==
    ASSUME NEW h \in Nat
    PROVE  FirstBit(h) \in 0 .. 63 /\ SecondBit(h) \in 0 .. 63
  <1>1. FirstBit(h) \in 0 .. 63
    BY DEF FirstBit
  <1>2. PICK p \in Nat \ {0} : p = 2 ^ Shift
    BY LookupAssumption, Zenon
  <1>3. PICK q \in Int : q = h \div p
    OBVIOUS
  <1>4. SecondBit(h) = q % 64
    BY <1>2, <1>3, Zenon DEF SecondBit
  <1>5. q % 64 \in 0 .. 63
    OBVIOUS
  <1> QED
    BY <1>1, <1>4, <1>5

\* In a filter of one word, bits below the 32nd are where the linker has set them.
LEMMA FilterLetsThrough ==
    ASSUME NEW elf, elf.dynsym \in Seq(Entries), elf.nwords = 1, NEW name, NEW h \in Nat,
           h = HashOf[name[1]], FirstBit(h) <= 31, SecondBit(h) <= 31,
           NEW wraps \in BOOLEAN, NEW i \in InGnuHash(elf), elf.dynsym[i].name = name
    PROVE  BloomMask(h, wraps) \subseteq BloomWordAt(elf, (h \div 64) % elf.nwords)
  <1>1. PICK a, b, z : /\ a = FirstBit(h) /\ b = SecondBit(h) /\ z = (h \div 64) % elf.nwords
    OBVIOUS
  <1>2. a \in 0 .. 31
    <2>1. a \in 0 .. 63 /\ a <= 31
      BY <1>1, BitsAre
    <2> QED
      BY <2>1
  <1>3. b \in 0 .. 31
    <2>1. b \in 0 .. 63 /\ b <= 31
      BY <1>1, BitsAre
    <2> QED
      BY <2>1
  <1>4. z = 0
    BY <1>1
  <1>5. BloomBits(elf, name) = {<<z, x>> : x \in {a, b}}
    BY <1>1 DEF BloomBits, FirstBit, SecondBit
  <1>6. PICK set : set = UNION {BloomBits(elf, elf.dynsym[n].name) : n \in InGnuHash(elf)}
    OBVIOUS
  <1>7. <<0, a>> \in set /\ <<0, b>> \in set
    BY <1>4, <1>5, <1>6
  <1>8. BloomWordAt(elf, 0) = {bit \in 0 .. 31 : <<0 \div 2, bit + 32 * (0 % 2)>> \in set}
    BY <1>6 DEF BloomWordAt
  <1>9. 0 \div 2 = 0 /\ \A bit \in 0 .. 31 : bit + 32 * (0 % 2) = bit
    OBVIOUS
  <1>10. a \in BloomWordAt(elf, 0) /\ b \in BloomWordAt(elf, 0)
    BY <1>2, <1>3, <1>7, <1>8, <1>9
  <1>11. BloomMask(h, wraps) \subseteq {a, b}
    <2>1. BloomMask(h, wraps) \subseteq {IF wraps THEN bit % 32 ELSE bit : bit \in {a, b}}
      BY <1>1 DEF BloomMask, FirstBit, SecondBit
    <2>2. \A bit \in {a, b} : (IF wraps THEN bit % 32 ELSE bit) = bit
      BY <1>2, <1>3
    <2> QED
      BY <2>1, <2>2
  <1> QED
    BY <1>1, <1>4, <1>10, <1>11

LEMMA GnuFound ==
    ASSUME NEW elf, NEW table, NEW name, NEW I, NEW D, NEW told,
           elf.dynsym \in Seq(Entries), table = elf.dynsym, D = DOMAIN table,
           I = SelectIn(Named(table, name), InGnuHash(elf)), told = FoundAt(elf, I, D, TRUE)
    PROVE  /\ IndexesOf(told) = NamedIn(table, name) \cap InGnuHash(elf)
           /\ VersionsRight(elf, table, name, told)
  <1>1. Named(table, name) \in Seq(Nat) /\ ToSet(Named(table, name)) = NamedIn(table, name)
    BY NamedIs DEF NamedIn
  <1>2. I \in Seq(Nat) /\ ToSet(I) = NamedIn(table, name) \cap InGnuHash(elf)
    BY <1>1, SelectInIs
  <1>3. PICK X, E, f : X = I /\ E = D /\ f = told
    OBVIOUS
  <1>4. DefinedIn(table, name, E)
    BY <1>3 DEF DefinedIn, NamedIn
  <1>5. X \in Seq(Nat) /\ ToSet(X) \subseteq NamedIn(table, name) /\ TRUE \in BOOLEAN
    BY <1>2, <1>3
  <1>6. f = FoundAt(elf, X, E, TRUE)
    BY <1>3
  <1>7. IndexesOf(f) = ToSet(X) /\ VersionsRight(elf, table, name, f)
    BY <1>4, <1>5, <1>6, FoundIn
  <1> QED
    BY <1>2, <1>3, <1>7

LEMMA BitsBelow ==
    ASSUME NEW h \in Nat, NEW w \in Nat \ {0},
           ~(w > 1), ~(FirstBit(h) > 31), ~(SecondBit(h) > 31)
    PROVE  w = 1 /\ FirstBit(h) <= 31 /\ SecondBit(h) <= 31
  <1>1. FirstBit(h) \in 0 .. 63 /\ SecondBit(h) \in 0 .. 63
    BY BitsAre
  <1> QED
    BY <1>1

LEMMA GnuHashRight ==
    ASSUME NEW elf, elf.dynsym \in Seq(Entries), elf.hash = "gnu", elf.nwords \in Nat \ {0},
           NEW name, HashOf[name[1]] \in Nat, NEW wraps \in BOOLEAN,
           NEW told, told = LookupInGnuHash(elf, name, wraps), NEW table, table = elf.dynsym
    PROVE  /\ IndexesOf(told) \subseteq NamedIn(table, name)
           /\ ~Misread(elf, name, FALSE) => AllPublic(table, name) \subseteq IndexesOf(told)
           /\ VersionsRight(elf, table, name, told)
  <1>1. PICK h \in Nat : h = HashOf[name[1]]
    OBVIOUS
  <1>2. PICK I, D : I = SelectIn(Named(table, name), InGnuHash(elf)) /\ D = DOMAIN table
    OBVIOUS
  <1>5. AllPublic(table, name) = NamedIn(table, name) \cap InGnuHash(elf)
    BY DEF AllPublic, InGnuHash, NamedIn
  <1>6. PICK n : n = (h \div 64) % elf.nwords
    OBVIOUS
  <1>7. PICK present \in BOOLEAN : present <=> BloomMask(h, wraps) \subseteq BloomWordAt(elf, n)
    OBVIOUS
  <1>8. told = IF ~present THEN <<>> ELSE FoundAt(elf, I, D, TRUE)
    BY <1>1, <1>2, <1>6, <1>7 DEF LookupInGnuHash
  <1>9. CASE ~present
    <2>1. told = <<>> /\ ToSet(told) = {}
      BY <1>8, <1>9 DEF ToSet
    <2>2. IndexesOf(told) = {} /\ VersionsRight(elf, table, name, told)
      BY <2>1 DEF IndexesOf, VersionsRight
    <2>3. ASSUME ~Misread(elf, name, FALSE), NEW i \in AllPublic(table, name)
          PROVE  FALSE
      <3>1. /\ ~(elf.nwords > 1) /\ ~(FirstBit(h) > 31) /\ ~(SecondBit(h) > 31)
        BY <1>1, <2>3 DEF Misread
      <3>2. elf.nwords = 1 /\ FirstBit(h) <= 31 /\ SecondBit(h) <= 31
        BY <3>1, BitsBelow
      <3>3. i \in InGnuHash(elf) /\ elf.dynsym[i].name = name
        BY <1>5, <2>3 DEF NamedIn
      <3>4. BloomMask(h, wraps) \subseteq BloomWordAt(elf, n)
        BY <1>1, <1>6, <3>2, <3>3, FilterLetsThrough
      <3> QED
        BY <1>7, <1>9, <3>4
    <2> QED
      BY <2>2, <2>3
  <1>10. CASE present
    <2>1. told = FoundAt(elf, I, D, TRUE)
      BY <1>8, <1>10
    <2>2. /\ IndexesOf(told) = NamedIn(table, name) \cap InGnuHash(elf)
          /\ VersionsRight(elf, table, name, told)
      BY <1>2, <2>1, GnuFound
    <2> QED
      BY <1>5, <2>2
  <1> QED
    BY <1>7, <1>9, <1>10

LEMMA LookupRight ==
    ASSUME NEW elf, elf.dynsym \in Seq(Entries), elf.symtab \in Seq(Entries),
           elf.hash \in {"none", "sysv", "gnu"}, elf.nwords \in Nat \ {0},
           NEW name, HashOf[name[1]] \in Nat, NEW demangle \in BOOLEAN, NEW wraps \in BOOLEAN,
           NEW told, told = LookupSymbol(elf, name, demangle, wraps)
    PROVE  FoundRight(elf, name, demangle, told)
  <1>1. PICK table : table = TableOf(elf, demangle)
    OBVIOUS
  <1>2. AllPublic(table, name) \subseteq NamedIn(table, name)
    BY DEF AllPublic
  <1>3. CASE demangle \/ elf.hash = "none"
    <2>1. table = SymbolTable(elf) /\ table \in Seq(Entries)
      BY <1>1, <1>3 DEF TableOf, SymbolTable
    <2>2. told = LookupInSymtab(elf, table, name)
      BY <1>3, <2>1 DEF LookupSymbol
    <2>3. IndexesOf(told) = NamedIn(table, name) /\ VersionsRight(elf, table, name, told)
      BY <2>1, <2>2, SymtabRight
    <2> QED
      BY <1>1, <1>2, <2>3 DEF FoundRight
  <1>4. CASE ~demangle /\ elf.hash = "sysv"
    <2>1. table = elf.dynsym
      BY <1>1, <1>4 DEF TableOf
    <2>2. told = LookupInSysvHash(elf, name)
      BY <1>4 DEF LookupSymbol
    <2>3. IndexesOf(told) = NamedIn(table, name) /\ VersionsRight(elf, table, name, told)
      BY <2>1, <2>2, SysvHashRight
    <2> QED
      BY <1>1, <1>2, <2>3 DEF FoundRight
  <1>5. CASE ~demangle /\ elf.hash = "gnu"
    <2>1. table = elf.dynsym
      BY <1>1, <1>5 DEF TableOf
    <2>2. told = LookupInGnuHash(elf, name, wraps)
      BY <1>5 DEF LookupSymbol
    <2>3. elf.hash = "gnu" /\ demangle = FALSE
      BY <1>5
    <2>4. /\ IndexesOf(told) \subseteq NamedIn(table, name)
          /\ ~Misread(elf, name, FALSE) => AllPublic(table, name) \subseteq IndexesOf(told)
          /\ VersionsRight(elf, table, name, told)
      BY <2>1, <2>2, <2>3, GnuHashRight
    <2> QED
      BY <1>1, <2>3, <2>4 DEF FoundRight
  <1> QED
    BY <1>3, <1>4, <1>5

\* What abisym has found when it is done.
FoundInv ==
    world.tool = "abisym" /\ phase = "done" =>
      \E wraps \in BOOLEAN : found = LookupSymbol(Elf, world.name, world.demangle, wraps)

LEMMA FoundStarts ==
    Init => FoundInv
  BY DEF Init, FoundInv

LEMMA FoundKept ==
    IInv /\ FoundInv /\ [Next]_vars => FoundInv'
  <1> SUFFICES ASSUME IInv, FoundInv, [Next]_vars, world'.tool = "abisym", phase' = "done"
               PROVE  \E wraps \in BOOLEAN :
                        found' = LookupSymbol(Elf', world'.name, world'.demangle, wraps)
    BY DEF FoundInv
  <1>1. world' = world
    BY DEF Next, vars, LoadPublic, LoadUndefined, SkipSymbol, SymbolsLoaded, ReadDie, ReadSymbolDb,
           LinkAliases, AliasesLinked, ReadXmlDecl, NextFile, SetPatterns, KeepNeeded, Compare, LookUp
  <1>2. phase \in {"lookup", "done"}
    BY <1>1 DEF IInv, RightState
  <1>3. CASE LookUp
    BY <1>3 DEF LookUp, Elf
  <1>4. CASE ~LookUp
    <2>1. UNCHANGED vars
      BY <1>2, <1>4
      DEF Next, Going, AtEntry, LoadPublic, LoadUndefined, SkipSymbol, SymbolsLoaded, ReadDie,
          ReadSymbolDb, LinkAliases, AliasesLinked, ReadXmlDecl, NextFile, SetPatterns, KeepNeeded,
          Compare
    <2> QED
      BY <2>1 DEF vars, FoundInv, Elf
  <1> QED
    BY <1>3, <1>4

LEMMA LookupsFromInvariant ==
    IInv /\ FoundInv => LookupsAreRight
  <1> SUFFICES ASSUME IInv, FoundInv, world.tool = "abisym", phase = "done"
               PROVE  LookupsAreRight
    BY DEF LookupsAreRight
  <1>1. PICK wraps \in BOOLEAN : found = LookupSymbol(Elf, world.name, world.demangle, wraps)
    BY DEF FoundInv
  <1>2. PICK w, elf, name, demangle :
          /\ w = world /\ elf = Elf /\ name = world.name /\ demangle = world.demangle
    OBVIOUS
  <1>3. w \in Worlds /\ w.tool = "abisym" /\ file \in DOMAIN w.files /\ elf = w.files[file].elf
    BY <1>2 DEF IInv, RightState, Elf
  <1>4. /\ elf.dynsym \in Seq(Entries) /\ elf.symtab \in Seq(Entries)
    BY <1>3, FilesAssumption
  <1>5. /\ elf.hash \in {"none", "sysv", "gnu"} /\ elf.nwords \in Nat \ {0}
        /\ HashOf[name[1]] \in Nat /\ demangle \in BOOLEAN
    BY <1>2, <1>3, LookupAssumption
  <1>6. PICK f : f = found
    OBVIOUS
  <1>7. f = LookupSymbol(elf, name, demangle, wraps)
    BY <1>1, <1>2, <1>6
  <1>8. FoundRight(elf, name, demangle, f)
    BY <1>4, <1>5, <1>7, LookupRight
  <1>9. FoundRight(Elf, world.name, world.demangle, found)
    BY <1>2, <1>6, <1>8
  <1> DEFINE table == IF world.demangle \/ Elf.hash = "none" THEN SymbolTable(Elf) ELSE Elf.dynsym
             named == {i \in DOMAIN table : table[i].name = world.name}
             hash == HashOf[world.name[1]]
             filtered == /\ Elf.hash = "gnu" /\ ~world.demangle
                         /\ Elf.nwords > 1 \/ hash % 64 > 31 \/ (hash \div (2 ^ Shift)) % 64 > 31
             indexes == {s.index : s \in ToSet(found)}
  <1>10. /\ table = TableOf(Elf, world.demangle) /\ named = NamedIn(table, world.name)
         /\ {i \in named : IsPublic(table[i])} = AllPublic(table, world.name)
         /\ indexes = IndexesOf(found)
    BY DEF TableOf, NamedIn, AllPublic, IndexesOf
  <1>11. filtered <=> Misread(Elf, world.name, world.demangle)
    BY Zenon DEF Misread, FirstBit, SecondBit
  <1>12. indexes \subseteq named
    BY <1>9, <1>10 DEF FoundRight
  <1>13. ~filtered => {i \in named : IsPublic(table[i])} \subseteq indexes
    <2> HIDE DEF filtered, indexes, named
    <2> QED
      BY <1>9, <1>10, <1>11 DEF FoundRight
  <1>14. table = Elf.dynsym /\ HasVersionSections(Elf)
           /\ (\A i \in named : IsDefined(table[i]) /\ OwnVersion(Elf, i) # NoVersion)
         => \A s \in ToSet(found) : s.version = OwnVersion(Elf, s.index)
    <2> HIDE DEF filtered, indexes, named
    <2> QED
      BY <1>9, <1>10 DEF FoundRight, VersionsRight, AllVersioned
  <1> QED
    BY <1>12, <1>13, <1>14, Zenon DEF LookupsAreRight

-----------------------------------------------------------------------------
(* What abicompat keeps                                                     *)

\* Of a part that is only to have what has these ids, those declarations are there.
KeepsNeeded(s, part, k, dies, ids) ==
    /\ part.keep = ids /\ part.toSuppress = <<>> /\ part.toKeep = <<>>
    /\ ids # <<>> =>
         /\ \A d \in ToSet(part.decls) : KeepWrtId(s[d], ids)
         /\ \A i \in 1 .. Len(dies) :
              /\ dies[i].kind = k /\ part.mainAt[dies[i].address] # 0
              /\ KeepWrtId(s[part.mainAt[dies[i].address]], ids)
              => \E d \in ToSet(part.decls) : Describes(s, part, k, dies, d, i)

LEMMA SameKeep ==
    ASSUME NEW s, NEW t, SameSymbol(s, t), NEW ids, KeepWrtId(s, ids)
    PROVE  KeepWrtId(t, ids)
  BY DEF SameSymbol, KeepWrtId

LEMMA EmptyConcat ==
    ASSUME NEW T, NEW ids \in Seq(T)
    PROVE  <<>> \o ids = ids
  <1>1. PICK u, q : u = <<>> /\ q = u \o ids
    OBVIOUS
  <1>2. u \in Seq(T) /\ Len(u) = 0 /\ Len(ids) \in Nat
    BY <1>1, EmptySeq, LenProperties
  <1>3. q \in Seq(T) /\ Len(q) = Len(ids) /\ \A i \in 1 .. Len(ids) : q[i] = ids[i]
    <2>1. /\ u \o ids \in Seq(T) /\ Len(u \o ids) = Len(u) + Len(ids)
          /\ \A i \in 1 .. Len(ids) : (u \o ids)[Len(u) + i] = ids[i]
      BY <1>2, ConcatIs
    <2> QED
      BY <1>1, <1>2, <2>1
  <1> QED
    BY <1>1, <1>3, SeqEqual

\* Declarations are dropped that do not have one of the ids.
LEMMA PartKept ==
    ASSUME NEW w, NEW s, NEW part, NEW X, NEW Y, NEW g, NEW k, NEW ids \in Seq(Ids),
           NEW dies, dies = w.files[g].dies,
           ReadPart(w, s, part, g, k), AllRead(w, s, part, g, k), Fresh(part), KeepIn(X, part, ids),
           DeclsIn(Y, X, {a \in ToSet(X.decls) : Keep(s[a], X)})
    PROVE  KeepsNeeded(s, Y, k, dies, ids) /\ (ids = <<>> => KeepsNeeded(s, X, k, dies, ids))
  <1>1. PICK values : values = Addresses(w.files[g])
    OBVIOUS
  <1>2. part \in Parts(values)
    BY <1>1 DEF ReadPart, PartIs
  <1>3. PICK A, B, C, M : A = Seq(Ids) /\ B = Seq(SUBSET STRING) /\ C = Seq(Nat) /\ M = [values -> Nat]
    OBVIOUS
  <1>4. Parts(values) = [syms : C, undefined : C, mainAt : M, decls : C, keep : A, toSuppress : B,
                         toKeep : B, unreferenced : SUBSET Nat, written : C, unlinked : SUBSET Nat]
    BY <1>3 DEF Parts
  <1>5. part.keep = <<>> /\ part.toSuppress = <<>> /\ part.toKeep = <<>>
    BY DEF Fresh
  <1>6. part.keep \o ids = ids
    BY <1>5, EmptyConcat
  <1>7. X = [part EXCEPT !.keep = ids]
    BY <1>6 DEF KeepIn
  <1>8. /\ X.keep = ids /\ X.toSuppress = <<>> /\ X.toKeep = <<>>
        /\ X.mainAt = part.mainAt /\ X.decls = part.decls
    BY <1>2, <1>4, <1>5, <1>7
  <1>9. PICK T, L : T = {a \in ToSet(X.decls) : Keep(s[a], X)} /\ L = SelectIn(part.decls, T)
    OBVIOUS
  <1>10. Y = [X EXCEPT !.decls = L]
    BY <1>8, <1>9 DEF DeclsIn
  <1>11. /\ Y.keep = ids /\ Y.toSuppress = <<>> /\ Y.toKeep = <<>>
         /\ Y.mainAt = part.mainAt /\ Y.decls = L
    BY <1>2, <1>4, <1>7, <1>8, <1>10
  <1>12. part.decls \in Seq(Nat) /\ DOMAIN part.decls = 1 .. Len(part.decls)
    BY <1>2, LenProperties DEF Parts
  <1>13. ToSet(L) = ToSet(part.decls) \cap T
    BY <1>9, <1>12, SelectInIs
  <1>14. ASSUME NEW a
         PROVE  Keep(s[a], X) <=> KeepWrtId(s[a], ids)
    <2>1. ToSet(X.toSuppress) = {}
      BY <1>8 DEF ToSet
    <2> QED
      BY <1>8, <2>1 DEF Keep, KeepWrtSuppress, KeepWrtKeep
  <1>15. \A d \in ToSet(Y.decls) : KeepWrtId(s[d], ids)
    BY <1>9, <1>11, <1>13, <1>14
  <1>16. ASSUME NEW i \in 1 .. Len(dies), dies[i].kind = k, Y.mainAt[dies[i].address] # 0,
                KeepWrtId(s[Y.mainAt[dies[i].address]], ids)
         PROVE  \E d \in ToSet(Y.decls) : Describes(s, Y, k, dies, d, i)
    <2>1. part.mainAt[dies[i].address] # 0 /\ KeepWrtId(s[part.mainAt[dies[i].address]], ids)
      BY <1>11, <1>16
    <2>2. AllDeclared(s, part, k, dies, Len(dies))
      BY DEF AllRead
    <2>3. PICK x \in 1 .. Len(part.decls) : Describes(s, part, k, dies, part.decls[x], i)
      BY <1>16, <2>1, <2>2 DEF AllDeclared
    <2>4. PICK d : d = part.decls[x]
      OBVIOUS
    <2>5. SameSymbol(s[part.mainAt[dies[i].address]], s[d])
      BY <2>3, <2>4, SameIsEquivalence DEF Describes
    <2>6. KeepWrtId(s[d], ids)
      BY <2>1, <2>5, SameKeep
    <2>7. d \in ToSet(part.decls)
      BY <1>12, <2>4 DEF ToSet
    <2>8. d \in ToSet(Y.decls)
      BY <1>8, <1>9, <1>11, <1>13, <1>14, <2>6, <2>7
    <2>9. Describes(s, Y, k, dies, d, i)
      BY <1>11, <2>3, <2>4 DEF Describes
    <2> QED
      BY <2>8, <2>9
  <1>17. KeepsNeeded(s, Y, k, dies, ids)
    BY <1>11, <1>15, <1>16 DEF KeepsNeeded
  <1>18. ids = <<>> => KeepsNeeded(s, X, k, dies, ids)
    BY <1>8 DEF KeepsNeeded
  <1> QED
    BY <1>17, <1>18

\* abicompat: all is kept until the ids that are needed are known, then what has one of
\* them; and the symbols of no declaration have been told when it has compared.
KeptInv ==
    world.tool = "abicompat" =>
      /\ phase # "options"
      /\ phase = "keep" =>
           \A f \in DOMAIN world.files : \A k \in SymbolKinds : Fresh(corpora[f][k])
      /\ phase \in {"compare", "done"} =>
           \A f \in Libs : \A k \in SymbolKinds :
             KeepsNeeded(symbols, corpora[f][k], k, world.files[f].dies, NeededIds(k))
      /\ phase = "done" /\ "lib2" \in Libs =>
           \A f \in Libs : \A k \in SymbolKinds :
             corpora[f][k].unreferenced = Unreferenced(corpora[f][k])

LEMMA KeptStarts ==
    Init => KeptInv
  BY DEF Init, KeptInv

LEMMA NextFileKeeps ==
    IInv /\ NextFile => KeptInv'
  <1> SUFFICES ASSUME IInv, NextFile, world'.tool = "abicompat"
               PROVE  /\ phase' # "options" /\ phase' \notin {"compare", "done"}
                      /\ \A f \in DOMAIN world'.files : \A k \in SymbolKinds : Fresh(corpora'[f][k])
    BY DEF KeptInv
  <1>1. world' = world /\ corpora' = corpora /\ phase' \in {"symbols", "keep"}
    BY DEF NextFile, AfterReading
  <1>2. phase \in Reading
    BY DEF NextFile, Going, Reading
  <1>3. PICK w, s, c, f, p, n :
          w = world /\ s = symbols /\ c = corpora /\ f = file /\ p = phase /\ n = next
    OBVIOUS
  <1>4. Early(w, s, c, f, p, n)
    BY <1>2, <1>3, WhileReading DEF IInv
  <1>5. \A g \in DOMAIN w.files : \A k \in SymbolKinds : Fresh(c[g][k])
    BY <1>4 DEF Early, FilePart
  <1> QED
    BY <1>1, <1>3, <1>5

LEMMA SameNeededIds ==
    ASSUME symbols' = symbols, corpora'["app"] = corpora["app"], NEW k
    PROVE  NeededIds(k)' = NeededIds(k)
  BY DEF NeededIds

LEMMA KeepNeededKeeps ==
    IInv /\ KeptInv /\ KeepNeeded => KeptInv'
  <1> SUFFICES ASSUME IInv, KeptInv, KeepNeeded, world'.tool = "abicompat"
               PROVE  /\ phase' \notin {"options", "keep"}
                      /\ ~(phase' = "done" /\ "lib2" \in Libs')
                      /\ \A f \in Libs' : \A k \in SymbolKinds :
                           KeepsNeeded(symbols', corpora'[f][k], k, world'.files[f].dies, NeededIds(k)')
    BY DEF KeptInv
  <1>1. PICK w, s, c, f, n, d :
          /\ w = world /\ s = symbols /\ c = corpora /\ f = file /\ n = next /\ d = corpora'
    OBVIOUS
  <1>2. phase = "keep" /\ "keep" \in Ending
    BY DEF KeepNeeded, Going, Ending
  <1>3. w \in Worlds /\ w.tool # "abisym" /\ Late(w, s, c, f, "keep", n)
    BY <1>1, <1>2, AfterwardsLate DEF IInv
  <1>4. PICK ids : ids = [k \in SymbolKinds |-> NeededIds(k)]
    OBVIOUS
  <1>5. PICK none : none = \A k \in SymbolKinds : ids[k] = <<>>
    OBVIOUS
  <1>6. d = [g \in DOMAIN c |->
              IF g \notin Libs THEN c[g]
              ELSE [k \in SymbolKinds |->
                      IF none THEN [c[g][k] EXCEPT !.keep = c[g][k].keep \o ids[k]]
                      ELSE DropDecls([c[g][k] EXCEPT !.keep = c[g][k].keep \o ids[k]])]]
    BY <1>1, <1>4, <1>5 DEF KeepNeeded
  <1>7. /\ world' = w /\ symbols' = s /\ phase' = IF "lib2" \in Libs THEN "compare" ELSE "done"
    BY <1>1 DEF KeepNeeded
  <1>8. /\ w.tool = "abicompat" /\ Heap(s) /\ CorporaIn(w, c)
        /\ \A g \in DOMAIN w.files : \A k \in SymbolKinds : ReadPart(w, s, c[g][k], g, k)
        /\ \A g \in DOMAIN w.files : \A k \in SymbolKinds : AllRead(w, s, c[g][k], g, k)
    BY <1>3 DEF Late, Selected
  <1>9. DOMAIN c = DOMAIN w.files
    BY <1>8 DEF CorporaIn
  <1>10. "app" \in DOMAIN w.files
    BY <1>3, <1>8, FilesAre
  <1>11. \A g \in DOMAIN w.files : \A k \in SymbolKinds : Fresh(c[g][k])
    BY <1>1, <1>2, <1>8 DEF KeptInv
  <1>12. ASSUME NEW k \in SymbolKinds
         PROVE  ids[k] \in Seq(Ids) /\ NeededIds(k)' = ids[k]
    <2>1. PICK part, L : part = c["app"][k] /\ L = Sorted(s, part.undefined)
      OBVIOUS
    <2>2. ReadPart(w, s, part, "app", k)
      BY <1>8, <1>10, <1>12, <2>1
    <2>3. [i \in DOMAIN L |-> Id(s[L[i]])] \in Seq(Ids)
      BY <1>8, <2>1, <2>2, UndefinedIds
    <2>4. ids[k] = [i \in DOMAIN L |-> Id(s[L[i]])]
      BY <1>1, <1>4, <1>12, <2>1 DEF NeededIds
    <2>5. d["app"] = c["app"]
      BY <1>6, <1>9, <1>10 DEF Libs
    <2>6. NeededIds(k)' = NeededIds(k)
      BY <1>1, <1>7, <2>5, SameNeededIds
    <2> QED
      BY <1>4, <1>12, <2>3, <2>4, <2>6
  <1>13. ASSUME NEW g \in Libs, NEW k \in SymbolKinds
         PROVE  KeepsNeeded(s, d[g][k], k, w.files[g].dies, ids[k])
    <2>1. g \in DOMAIN w.files
      BY <1>1, <1>13 DEF Libs
    <2>2. PICK part, new, X, Y, dies :
            /\ part = c[g][k] /\ new = ids[k] /\ X = [part EXCEPT !.keep = part.keep \o new]
            /\ Y = DropDecls(X) /\ dies = w.files[g].dies
      OBVIOUS
    <2>3. DeclsIn(Y, X, {a \in ToSet(X.decls) : Keep(s[a], X)})
      BY <1>1, <2>2 DEF DropDecls, DeclsIn
    <2>4. KeepIn(X, part, new) /\ new \in Seq(Ids)
      BY <1>12, <1>13, <2>2 DEF KeepIn
    <2>5. ReadPart(w, s, part, g, k) /\ AllRead(w, s, part, g, k) /\ Fresh(part)
      BY <1>8, <1>11, <1>13, <2>1, <2>2
    <2>6. KeepsNeeded(s, Y, k, dies, new) /\ (new = <<>> => KeepsNeeded(s, X, k, dies, new))
      BY <2>2, <2>3, <2>4, <2>5, PartKept
    <2>7. d[g][k] = IF none THEN X ELSE Y
      BY <1>6, <1>9, <1>13, <2>1, <2>2
    <2>8. none => new = <<>>
      BY <1>5, <1>13, <2>2
    <2> QED
      BY <2>2, <2>6, <2>7, <2>8
  <1>14. Libs' = Libs
    BY <1>1, <1>7 DEF Libs
  <1> QED
    BY <1>1, <1>7, <1>12, <1>13, <1>14

\* Those of no declaration, for whatever symbols there are.
UnreferencedOf(s, part) ==
    LET referenced == UNION {{Id(s[i]) : i \in {d} \cup ToSet(NextAliases(s, d))} :
                               d \in ToSet(part.decls)}
    IN  {i \in ToSet(part.syms) :
           /\ Id(s[i]) \notin referenced
           /\ part.keep = <<>> \/ Id(s[i]) \in ToSet(part.keep)}

LEMMA UnreferencedIs ==
    ASSUME NEW part
    PROVE  Unreferenced(part) = UnreferencedOf(symbols, part)
  BY DEF Unreferenced, UnreferencedOf

LEMMA SameUnreferenced ==
    ASSUME NEW s, NEW part, NEW X,
           X.decls = part.decls, X.syms = part.syms, X.keep = part.keep
    PROVE  UnreferencedOf(s, X) = UnreferencedOf(s, part)
  BY DEF UnreferencedOf

LEMMA CompareKeeps ==
    IInv /\ KeptInv /\ Compare => KeptInv'
  <1> SUFFICES ASSUME IInv, KeptInv, Compare, world'.tool = "abicompat"
               PROVE  /\ phase' \notin {"options", "keep"}
                      /\ \A f \in Libs' : \A k \in SymbolKinds :
                           /\ KeepsNeeded(symbols', corpora'[f][k], k, world'.files[f].dies, NeededIds(k)')
                           /\ corpora'[f][k].unreferenced = Unreferenced(corpora[f][k])'
    BY DEF KeptInv
  <1>1. PICK w, s, c, f, n, d :
          /\ w = world /\ s = symbols /\ c = corpora /\ f = file /\ n = next /\ d = corpora'
    OBVIOUS
  <1>2. phase = "compare" /\ "compare" \in Ending
    BY DEF Compare, Going, Ending
  <1>3. w \in Worlds /\ w.tool # "abisym" /\ Late(w, s, c, f, "compare", n)
    BY <1>1, <1>2, AfterwardsLate DEF IInv
  <1>4. /\ d = [g \in DOMAIN c |->
                 IF g \notin Libs THEN c[g]
                 ELSE [k \in SymbolKinds |-> [c[g][k] EXCEPT !.unreferenced = Unreferenced(c[g][k])]]]
        /\ world' = w /\ symbols' = s /\ phase' = "done"
    BY <1>1 DEF Compare
  <1>5. w.tool = "abicompat" /\ CorporaIn(w, c)
        /\ \A g \in DOMAIN w.files : \A k \in SymbolKinds : ReadPart(w, s, c[g][k], g, k)
    BY <1>1, <1>3, <1>4 DEF Late
  <1>6. DOMAIN c = DOMAIN w.files /\ "app" \in DOMAIN w.files
    BY <1>3, <1>5, FilesAre DEF CorporaIn
  <1>7. \A k : NeededIds(k)' = NeededIds(k)
    <2>1. d["app"] = c["app"]
      BY <1>4, <1>6 DEF Libs
    <2> QED
      BY <1>1, <1>4, <2>1, SameNeededIds
  <1>8. ASSUME NEW g \in Libs, NEW k \in SymbolKinds
         PROVE  /\ KeepsNeeded(s, d[g][k], k, w.files[g].dies, NeededIds(k))
                /\ d[g][k].unreferenced = UnreferencedOf(s, d[g][k])
    <2>1. g \in DOMAIN w.files
      BY <1>1, <1>8 DEF Libs
    <2>2. PICK part, X, U, dies, ids, values :
            /\ part = c[g][k] /\ X = d[g][k] /\ U = Unreferenced(part) /\ dies = w.files[g].dies
            /\ ids = NeededIds(k) /\ values = Addresses(w.files[g])
      OBVIOUS
    <2>3. part \in Parts(values)
      BY <1>5, <1>8, <2>1, <2>2 DEF ReadPart, PartIs
    <2>4. X = [part EXCEPT !.unreferenced = U]
      BY <1>4, <1>6, <1>8, <2>1, <2>2
    <2>5. /\ X.decls = part.decls /\ X.syms = part.syms /\ X.keep = part.keep /\ X.unreferenced = U
          /\ X.toSuppress = part.toSuppress /\ X.toKeep = part.toKeep /\ X.mainAt = part.mainAt
      BY <2>3, <2>4 DEF Parts
    <2>6. KeepsNeeded(s, part, k, dies, ids)
      BY <1>1, <1>2, <1>5, <1>8, <2>2 DEF KeptInv
    <2>7. \A a, i : Describes(s, part, k, dies, a, i) => Describes(s, X, k, dies, a, i)
      BY <2>5 DEF Describes
    <2>8. KeepsNeeded(s, X, k, dies, ids)
      BY <2>5, <2>6, <2>7 DEF KeepsNeeded
    <2>9. X.unreferenced = UnreferencedOf(s, X)
      <3>1. U = UnreferencedOf(s, part)
        BY <1>1, <2>2, UnreferencedIs
      <3> QED
        BY <2>5, <3>1, SameUnreferenced
    <2> QED
      BY <2>2, <2>8, <2>9
  <1>9. Libs' = Libs
    BY <1>1, <1>4 DEF Libs
  <1>10. \A g, k : Unreferenced(corpora[g][k])' = UnreferencedOf(s, d[g][k])
    BY <1>1, <1>4 DEF Unreferenced, UnreferencedOf
  <1>11. phase' \notin {"options", "keep"}
    BY <1>4
  <1>12. ASSUME NEW g \in Libs', NEW k \in SymbolKinds
         PROVE  KeepsNeeded(symbols', corpora'[g][k], k, world'.files[g].dies, NeededIds(k)')
    BY <1>1, <1>4, <1>7, <1>8, <1>9
  <1>13. ASSUME NEW g \in Libs', NEW k \in SymbolKinds
         PROVE  corpora'[g][k].unreferenced = Unreferenced(corpora[g][k])'
    <2>1. Unreferenced(corpora[g][k])' = UnreferencedOf(s, d[g][k])
      BY <1>10
    <2>2. corpora'[g][k].unreferenced = UnreferencedOf(s, d[g][k])
      BY <1>1, <1>8, <1>9
    <2> QED
      BY <2>1, <2>2
  <1> QED
    BY <1>11, <1>12, <1>13

LEMMA KeptStays ==
    IInv /\ KeptInv /\ [Next]_vars => KeptInv'
  <1> SUFFICES ASSUME IInv, KeptInv, [Next]_vars, world'.tool = "abicompat"
               PROVE  KeptInv'
    BY DEF KeptInv
  <1>1. world' = world
    BY DEF Next, vars, LoadPublic, LoadUndefined, SkipSymbol, SymbolsLoaded, ReadDie, ReadSymbolDb,
           LinkAliases, AliasesLinked, ReadXmlDecl, NextFile, SetPatterns, KeepNeeded, Compare, LookUp
  <1>2. CASE NextFile
    BY <1>2, NextFileKeeps
  <1>3. CASE KeepNeeded
    BY <1>3, KeepNeededKeeps
  <1>4. CASE Compare
    BY <1>4, CompareKeeps
  <1>5. CASE UNCHANGED vars
    BY <1>5 DEF vars, KeptInv, Libs, NeededIds, Unreferenced
  <1>6. ~SetPatterns
    BY <1>1 DEF KeptInv, SetPatterns, Going
  <1>7. ~LookUp
    <2>1. SUFFICES ASSUME phase = "lookup"
                   PROVE  FALSE
      BY DEF LookUp, Going
    <2>2. "lookup" \notin Reading /\ "lookup" \notin Ending
      BY DEF Reading, Ending
    <2> QED
      BY <1>1, <2>1, <2>2 DEF IInv, RightState, Early, Late
  <1>8. CASE phase' \in Reading
    BY <1>8 DEF KeptInv, Reading
  <1>9. ASSUME LoadPublic \/ LoadUndefined \/ SkipSymbol \/ SymbolsLoaded \/ ReadDie
               \/ ReadSymbolDb \/ LinkAliases \/ AliasesLinked \/ ReadXmlDecl
        PROVE  phase' \in Reading
    BY <1>9 DEF LoadPublic, LoadUndefined, SkipSymbol, SymbolsLoaded, ReadDie, ReadSymbolDb,
                LinkAliases, AliasesLinked, ReadXmlDecl, AtEntry, Going, Reading
  <1> QED
    BY <1>2, <1>3, <1>4, <1>5, <1>6, <1>7, <1>8, <1>9 DEF Next

-----------------------------------------------------------------------------
(* The ids that are needed                                                  *)

\* They are those of these names and versions, of which all have a version or none has.
IdsRight(ids, N) ==
    /\ ids \in Seq(Ids) /\ \A i \in 1 .. Len(ids) : IsNeededId(ids[i])
    /\ N = {<<id[1], id[3]>> : id \in ToSet(ids)}
    /\ (\A n \in N : n[2] = "") \/ (\A n \in N : n[2] # "")

LEMMA IdNamed ==
    ASSUME NEW ids, NEW N, IdsRight(ids, N)
    PROVE  /\ \A i \in 1 .. Len(ids) : ids[i] \in Ids /\ <<ids[i][1], ids[i][3]>> \in N
           /\ \A n \in N : \E i \in 1 .. Len(ids) : n = <<ids[i][1], ids[i][3]>>
           /\ Len(ids) \in Nat /\ DOMAIN ids = 1 .. Len(ids)
           /\ \A i \in 1 .. Len(ids) : ids[i] \in ToSet(ids)
  <1>1. PICK I : I = Ids
    OBVIOUS
  <1>2. ids \in Seq(I) /\ N = {<<id[1], id[3]>> : id \in ToSet(ids)}
    BY <1>1 DEF IdsRight
  <1>3. Len(ids) \in Nat /\ DOMAIN ids = 1 .. Len(ids)
    BY <1>2, LenProperties
  <1>4. \A i \in 1 .. Len(ids) : ids[i] \in ToSet(ids) /\ ids[i] \in I
    BY <1>2, InToSet
  <1>5. \A id \in ToSet(ids) : \E i \in 1 .. Len(ids) : id = ids[i]
    BY <1>3 DEF ToSet
  <1> QED
    BY <1>1, <1>2, <1>3, <1>4, <1>5

LEMMA LastIsMax ==
    ASSUME NEW i \in Nat \ {0}
    PROVE  Max(1 .. i) = i
  BY DEF Max

LEMMA IdIs ==
    ASSUME NEW id \in Ids
    PROVE  id = <<id[1], id[2], id[3]>>
  <1>1. PICK T : T = Texts
    OBVIOUS
  <1>2. PICK a \in T, b \in T, c \in T : id = <<a, b, c>>
    BY <1>1 DEF Ids
  <1>3. id[1] = a /\ id[2] = b /\ id[3] = c
    BY <1>2
  <1> QED
    BY <1>2, <1>3

LEMMA TripleEqual ==
    ASSUME NEW a, NEW b, <<a, "", "">> = <<b, "", "">>
    PROVE  a = b
  OBVIOUS

\* The version that is looked for is the one of the id.
LEMMA VersionAtIs ==
    ASSUME NEW ids, NEW N, IdsRight(ids, N), NEW i \in 1 .. Len(ids)
    PROVE  VersionAt(ids, i) = ids[i][3]
  <1>1. /\ \A j \in 1 .. Len(ids) : <<ids[j][1], ids[j][3]>> \in N
        /\ Len(ids) \in Nat /\ \A j \in 1 .. Len(ids) : IsNeededId(ids[j])
    BY IdNamed DEF IdsRight
  <1>2. \A j \in 1 .. i : j \in 1 .. Len(ids)
    BY <1>1
  <1>3. PICK H : H = {j \in 1 .. i : ids[j][2] # ""}
    OBVIOUS
  <1>4. VersionAt(ids, i) = IF H = {} THEN "" ELSE ids[Max(H)][3]
    BY <1>3 DEF VersionAt
  <1>5. CASE \A n \in N : n[2] = ""
    <2>1. \A j \in 1 .. Len(ids) : ids[j][3] = ""
      BY <1>1, <1>5
    <2>2. \A j \in 1 .. Len(ids) : ids[j][2] = ""
      BY <1>1, <2>1 DEF IsNeededId, IsPlain
    <2>3. H = {}
      BY <1>2, <1>3, <2>2
    <2> QED
      BY <1>4, <2>1, <2>3
  <1>6. CASE \A n \in N : n[2] # ""
    <2>1. \A j \in 1 .. Len(ids) : ids[j][3] # ""
      BY <1>1, <1>6
    <2>2. \A j \in 1 .. Len(ids) : ids[j][2] = "@@"
      BY <1>1, <2>1 DEF IsNeededId, IsPlain
    <2>3. H = 1 .. i
      BY <1>2, <1>3, <2>2
    <2>4. i \in Nat \ {0} /\ i \in H
      BY <1>1, <2>3
    <2>5. Max(H) = i
      BY <2>3, <2>4, LastIsMax
    <2> QED
      BY <1>4, <2>4, <2>5
  <1> QED
    BY <1>5, <1>6 DEF IdsRight

\* What is kept has a name and a version that are needed.
LEMMA NeededKept ==
    ASSUME NEW ids, NEW N, IdsRight(ids, N), ids # <<>>, NEW t, t.name \in Ids, IsPlain(t.name)
    PROVE  KeepWrtId(t, ids) <=> <<t.name[1], t.version.name>> \in N
  <1>1. /\ \A i \in 1 .. Len(ids) : <<ids[i][1], ids[i][3]>> \in N
        /\ \A n \in N : \E i \in 1 .. Len(ids) : n = <<ids[i][1], ids[i][3]>>
        /\ DOMAIN ids = 1 .. Len(ids)
    BY IdNamed
  <1>2. PICK name, version : name = t.name[1] /\ version = t.version.name
    OBVIOUS
  <1>3. t.name = <<name, "", "">>
    BY <1>2, IdIs DEF IsPlain
  <1>4. ASSUME KeepWrtId(t, ids)
        PROVE  <<name, version>> \in N
    <2>1. PICK i \in 1 .. Len(ids) : t.name = <<ids[i][1], "", "">> /\ version = VersionAt(ids, i)
      BY <1>1, <1>2, <1>4 DEF KeepWrtId
    <2>2. version = ids[i][3]
      BY <2>1, VersionAtIs
    <2>3. name = ids[i][1]
      BY <1>3, <2>1, TripleEqual
    <2> QED
      BY <1>1, <2>2, <2>3
  <1>5. ASSUME <<name, version>> \in N
        PROVE  KeepWrtId(t, ids)
    <2>1. PICK i \in 1 .. Len(ids) : <<name, version>> = <<ids[i][1], ids[i][3]>>
      BY <1>1, <1>5
    <2>2. name = ids[i][1] /\ version = VersionAt(ids, i)
      BY <2>1, VersionAtIs
    <2>3. t.name = <<ids[i][1], "", "">> /\ t.version.name = VersionAt(ids, i)
      BY <1>2, <1>3, <2>2
    <2> QED
      BY <1>1, <2>3 DEF KeepWrtId
  <1> QED
    BY <1>2, <1>4, <1>5

\* A symbol of a name and version that are needed has an id that is.
LEMMA NeededHasId ==
    ASSUME NEW ids, NEW N, IdsRight(ids, N), NEW t, t.name \in Ids, IsPlain(t.name),
           t.version.name = "" \/ t.version.default, <<t.name[1], t.version.name>> \in N
    PROVE  Id(t) \in ToSet(ids)
  <1>1. /\ \A i \in 1 .. Len(ids) : ids[i] \in Ids
        /\ \A n \in N : \E i \in 1 .. Len(ids) : n = <<ids[i][1], ids[i][3]>>
        /\ \A i \in 1 .. Len(ids) : ids[i] \in ToSet(ids)
    BY IdNamed
  <1>2. PICK name, version : name = t.name[1] /\ version = t.version.name
    OBVIOUS
  <1>3. t.name = <<name, "", "">>
    BY <1>2, IdIs DEF IsPlain
  <1>4. PICK i \in 1 .. Len(ids) : <<name, version>> = <<ids[i][1], ids[i][3]>>
    BY <1>1, <1>2
  <1>5. PICK id : id = ids[i]
    OBVIOUS
  <1>6. id \in Ids /\ id[1] = name /\ id[3] = version /\ IsNeededId(id) /\ id \in ToSet(ids)
    BY <1>1, <1>4, <1>5 DEF IdsRight
  <1>7. id = <<id[1], id[2], id[3]>>
    BY <1>6, IdIs
  <1>8. CASE version = ""
    <2>1. id[2] = ""
      BY <1>6, <1>8 DEF IsNeededId, IsPlain
    <2>2. Id(t) = t.name
      BY <1>2, <1>8 DEF Id, IdString
    <2>3. id = <<name, "", "">>
      BY <1>6, <1>7, <1>8, <2>1
    <2> QED
      BY <1>3, <1>6, <2>2, <2>3
  <1>9. CASE version # ""
    <2>1. id[2] = "@@"
      BY <1>6, <1>9 DEF IsNeededId, IsPlain
    <2>2. Id(t) = <<name, "@@", version>>
      BY <1>2, <1>9 DEF Id, IdString
    <2>3. id = <<name, "@@", version>>
      BY <1>6, <1>7, <2>1
    <2> QED
      BY <1>6, <2>2, <2>3
  <1> QED
    BY <1>8, <1>9

\* The libraries have plain names.
LEMMA PublicPlain ==
    ASSUME NEW w \in Worlds, w.tool = "abicompat", NEW g \in DOMAIN w.files, g # "app",
           NEW s, Heap(s), NEW i \in 1 .. Len(s),
           NEW e \in PublicEntries(w.files[g].elf), Is(s, i, w.files[g].elf, e), NamesArePlain
    PROVE  s[i].name \in Ids /\ IsPlain(s[i].name)
  <1>1. s[i].name \in Ids
    <2>1. s[i] \in Symbols
      BY HeapLength
    <2> QED
      BY <2>1 DEF Symbols
  <1>2. PICK elf, entry : elf = w.files[g].elf /\ entry = SymbolTable(elf)[e]
    OBVIOUS
  <1>3. entry \in ToSet(SymbolTable(elf)) /\ IsPublic(entry)
    BY <1>2 DEF PublicEntries, ToSet
  <1>4. IsPlain(entry.name)
    BY <1>2, <1>3 DEF NamesArePlain, IsPlain
  <1>5. s[i].name = ElfSymbol(elf, e).name
    BY <1>2 DEF Is, SameSymbol
  <1>6. s[i].name = entry.name
    BY <1>2, <1>5, ElfSymbolIs
  <1> QED
    BY <1>1, <1>4, <1>6

PlainAt(s, i) == s[i].name \in Ids /\ IsPlain(s[i].name)

LEMMA PartPlain ==
    ASSUME NEW w \in Worlds, w.tool = "abicompat", NEW g \in DOMAIN w.files, g # "app",
           NEW s, Heap(s), NEW part, NEW k, ReadPart(w, s, part, g, k), NamesArePlain
    PROVE  /\ \A i \in ToSet(part.syms) : PlainAt(s, i)
           /\ \A v \in DOMAIN part.mainAt : part.mainAt[v] # 0 => PlainAt(s, part.mainAt[v])
  <1>1. PICK read, m, e, source : /\ read = w.files[g] /\ m = Len(SymbolTable(read.elf))
                                  /\ e = Len(read.dies) /\ source = SourceOf(w, g)
    OBVIOUS
  <1>2. PartIs(s, part, read, k, m, e, source)
    BY <1>1 DEF ReadPart
  <1>3. GoodRead(w.files[g])
    BY FilesGood
  <1>4. RingedPart(s, part, w.files[g], k)
    BY <1>3, ReadRinged
  <1>5. SymbolsAre(s, ToSet(part.syms), read.elf, AllOf(read.elf, k))
    BY <1>1, <1>4 DEF RingedPart, RingsAre
  <1>6. AllOf(read.elf, k) \subseteq PublicEntries(read.elf)
        /\ Loaded(read.elf, k, m) \subseteq PublicEntries(read.elf)
    BY DEF AllOf, Loaded
  <1>7. ASSUME NEW i \in ToSet(part.syms)
        PROVE  PlainAt(s, i)
    <2>1. i \in 1 .. Len(s) /\ \E a \in AllOf(read.elf, k) : Is(s, i, read.elf, a)
      BY <1>5, <1>7 DEF SymbolsAre
    <2>2. PICK a \in PublicEntries(read.elf) : Is(s, i, read.elf, a)
      BY <1>6, <2>1
    <2> QED
      BY <1>1, <2>1, <2>2, PublicPlain DEF PlainAt
  <1>8. ASSUME NEW v \in DOMAIN part.mainAt, part.mainAt[v] # 0
        PROVE  PlainAt(s, part.mainAt[v])
    <2>1. PartRight(s, part, read.elf, k, m, source)
      BY <1>2 DEF PartIs
    <2>2. /\ part.mainAt[v] \in 1 .. Len(s)
          /\ \E a \in Loaded(read.elf, k, m) : Is(s, part.mainAt[v], read.elf, a)
      BY <1>8, <2>1, MainIs
    <2>3. PICK a \in PublicEntries(read.elf) : Is(s, part.mainAt[v], read.elf, a)
      BY <1>6, <2>2
    <2> QED
      BY <1>1, <2>2, <2>3, PublicPlain DEF PlainAt
  <1> QED
    BY <1>7, <1>8

MainsOf(part, dies, k) ==
    {part.mainAt[d.address] : d \in {d \in ToSet(dies) : d.kind = k}} \ {0}
NeededMains(s, part, dies, k, N) ==
    {i \in MainsOf(part, dies, k) : <<s[i].name[1], s[i].version.name>> \in N}

\* The declarations are those of main symbols that are needed.
LEMMA DeclsAreNeeded ==
    ASSUME NEW w \in Worlds, w.tool = "abicompat", NEW g \in DOMAIN w.files, g # "app",
           NEW s, Heap(s), NEW part, NEW k, ReadPart(w, s, part, g, k),
           NEW dies, dies = w.files[g].dies,
           NEW ids, NEW N, IdsRight(ids, N), ids # <<>>, KeepsNeeded(s, part, k, dies, ids),
           NamesArePlain
    PROVE  IdsIn(s, ToSet(part.decls)) = IdsIn(s, NeededMains(s, part, dies, k, N))
  <1>1. PICK read, m, e, source : /\ read = w.files[g] /\ m = Len(SymbolTable(read.elf))
                                  /\ e = Len(read.dies) /\ source = SourceOf(w, g)
    OBVIOUS
  <1>2. PartIs(s, part, read, k, m, e, source) /\ GoodRead(read) /\ dies = read.dies
    BY <1>1, FilesGood DEF ReadPart
  <1>3. /\ part \in Parts(Addresses(read)) /\ DeclsRight(s, part, k, dies, e, source)
    BY <1>2 DEF PartIs
  <1>4. \A i \in 1 .. Len(dies) : dies[i].address \in DOMAIN part.mainAt
    BY <1>2, <1>3, AddressesKnown
  <1>5. part.decls \in Seq(Nat) /\ DOMAIN part.decls = 1 .. Len(part.decls)
    BY <1>3, LenProperties DEF Parts
  <1>6. /\ \A i \in 1 .. Len(dies) : dies[i] \in ToSet(dies)
        /\ \A d \in ToSet(dies) : \E i \in 1 .. Len(dies) : d = dies[i]
    <2>1. /\ \A i \in 1 .. Len(read.dies) : read.dies[i] \in ToSet(read.dies)
          /\ \A d \in ToSet(read.dies) : \E i \in 1 .. Len(read.dies) : d = read.dies[i]
      BY <1>2, DiesAre
    <2> QED
      BY <1>2, <2>1
  <1>7. \A v \in DOMAIN part.mainAt : part.mainAt[v] # 0 => PlainAt(s, part.mainAt[v])
    BY PartPlain
  <1>8. ASSUME NEW v \in DOMAIN part.mainAt, part.mainAt[v] # 0, NEW i, i = part.mainAt[v]
        PROVE  KeepWrtId(s[i], ids) <=> <<s[i].name[1], s[i].version.name>> \in N
    <2>1. PICK t : t = s[i]
      OBVIOUS
    <2>2. t.name \in Ids /\ IsPlain(t.name)
      BY <1>7, <1>8, <2>1 DEF PlainAt
    <2>3. KeepWrtId(t, ids) <=> <<t.name[1], t.version.name>> \in N
      BY <2>2, NeededKept
    <2> QED
      BY <2>1, <2>3
  <1>9. ASSUME NEW d \in ToSet(part.decls)
        PROVE  \E i \in NeededMains(s, part, dies, k, N) : Id(s[d]) = Id(s[i])
    <2>1. PICK x \in 1 .. Len(part.decls) : d = part.decls[x]
      BY <1>5 DEF ToSet
    <2>2. PICK j \in 1 .. e : Describes(s, part, k, dies, d, j)
      BY <1>3, <2>1 DEF DeclsRight, DeclRight
    <2>3. PICK i : i = part.mainAt[dies[j].address]
      OBVIOUS
    <2>4. j \in 1 .. Len(dies) /\ dies[j].kind = k /\ i # 0 /\ SameSymbol(s[d], s[i])
      BY <2>2, <2>3 DEF Describes
    <2>5. KeepWrtId(s[d], ids)
      BY <1>9 DEF KeepsNeeded
    <2>6. KeepWrtId(s[i], ids)
      BY <2>4, <2>5, SameKeep
    <2>7. <<s[i].name[1], s[i].version.name>> \in N
      BY <1>4, <1>8, <2>3, <2>4, <2>6
    <2>8. i \in MainsOf(part, dies, k)
      BY <1>6, <2>3, <2>4 DEF MainsOf
    <2> QED
      BY <2>4, <2>7, <2>8, SameId DEF NeededMains
  <1>10. ASSUME NEW i \in NeededMains(s, part, dies, k, N)
         PROVE  \E d \in ToSet(part.decls) : Id(s[d]) = Id(s[i])
    <2>1. i # 0 /\ <<s[i].name[1], s[i].version.name>> \in N
          /\ \E x \in ToSet(dies) : x.kind = k /\ i = part.mainAt[x.address]
      BY <1>10 DEF NeededMains, MainsOf
    <2>2. PICK j \in 1 .. Len(dies) : dies[j].kind = k /\ i = part.mainAt[dies[j].address]
      BY <1>6, <2>1
    <2>3. KeepWrtId(s[part.mainAt[dies[j].address]], ids) /\ part.mainAt[dies[j].address] # 0
      BY <1>4, <1>8, <2>1, <2>2
    <2>4. PICK d \in ToSet(part.decls) : Describes(s, part, k, dies, d, j)
      BY <2>2, <2>3 DEF KeepsNeeded
    <2>5. SameSymbol(s[d], s[i])
      BY <2>2, <2>4 DEF Describes
    <2> QED
      BY <2>5, SameId
  <1>11. \A x : x \in IdsIn(s, ToSet(part.decls)) => x \in IdsIn(s, NeededMains(s, part, dies, k, N))
    BY <1>9 DEF IdsIn
  <1>12. \A x : x \in IdsIn(s, NeededMains(s, part, dies, k, N)) => x \in IdsIn(s, ToSet(part.decls))
    BY <1>10 DEF IdsIn
  <1> QED
    BY <1>11, <1>12

LEMMA AliasesAreSeq ==
    ASSUME NEW s, Heap(s), NEW d
    PROVE  \E T : NextAliases(s, d) \in Seq(T)
  <1>1. PICK f, n : f = After(s, d) /\ n = Len(s)
    OBVIOUS
  <1>2. n \in Nat
    BY <1>1, HeapLength
  <1>3. PICK ends : ends = {k \in 1 .. n : f[k] \in {0, s[d].main}}
    OBVIOUS
  <1>4. PICK m : m = (IF ends = {} THEN n + 1 ELSE Min(ends)) - 1
    OBVIOUS
  <1>5. m \in Nat
    <2>1. CASE ends = {}
      BY <1>2, <1>4, <2>1
    <2>2. CASE ends # {}
      <3>1. ends \subseteq Nat /\ \A k \in ends : k >= 1
        BY <1>2, <1>3
      <3>2. Min(ends) \in ends
        BY <2>2, <3>1, MinIs
      <3>3. PICK x : x = Min(ends)
        OBVIOUS
      <3>4. x \in Nat /\ x >= 1 /\ m = x - 1
        BY <1>4, <2>2, <3>1, <3>2, <3>3
      <3> QED
        BY <3>4
    <2> QED
      BY <2>1, <2>2
  <1>6. NextAliases(s, d) = [k \in 1 .. m |-> f[k]]
    BY <1>1, <1>3, <1>4 DEF NextAliases
  <1>7. PICK T : T = {f[k] : k \in 1 .. m}
    OBVIOUS
  <1>8. \A k \in 1 .. m : f[k] \in T
    BY <1>7
  <1>9. [k \in 1 .. m |-> f[k]] \in Seq(T)
    BY <1>5, <1>8
  <1> QED
    BY <1>6, <1>9

\* What is told of a declaration are its own id and those of its aliases.
LEMMA RingIdsAll ==
    ASSUME NEW s, Heap(s), NEW d, NEW i \in {d} \cup ToSet(NextAliases(s, d))
    PROVE  Id(s[i]) \in ToSet(RingIdsIn(s, d))
  <1>1. PICK N : N = NextAliases(s, d)
    OBVIOUS
  <1>2. PICK T : N \in Seq(T)
    BY <1>1, AliasesAreSeq
  <1>3. PICK X, u, q : X = T \cup {d} /\ u = <<d>> /\ q = u \o N
    OBVIOUS
  <1>4. PICK n \in Nat : n = Len(N) /\ DOMAIN N = 1 .. n
    BY <1>2, LenProperties
  <1>5. u \in Seq(X) /\ Len(u) = 1 /\ u[1] = d
    BY <1>3
  <1>6. N \in Seq(X)
    BY <1>2, <1>3, SeqWider
  <1>7. /\ \A j \in 1 .. Len(u) : q[j] = u[j]
        /\ \A j \in 1 .. n : q[Len(u) + j] = N[j]
    <2>1. /\ \A j \in 1 .. Len(u) : (u \o N)[j] = u[j]
          /\ \A j \in 1 .. Len(N) : (u \o N)[Len(u) + j] = N[j]
      BY <1>5, <1>6, ConcatIs
    <2> QED
      BY <1>3, <1>4, <2>1
  <1>8. q[1] = d /\ \A j \in 1 .. n : q[1 + j] = N[j]
    BY <1>5, <1>7
  <1>9. \E j \in 1 .. 1 + n : i = q[j]
    <2>1. CASE i = d
      BY <1>4, <1>8, <2>1
    <2>2. CASE i \in ToSet(N)
      <3>1. PICK j \in 1 .. n : i = N[j]
        BY <1>4, <2>2 DEF ToSet
      <3>2. 1 + j \in 1 .. 1 + n /\ i = q[1 + j]
        BY <1>4, <1>8, <3>1
      <3> QED
        BY <3>2
    <2> QED
      BY <1>1, <2>1, <2>2
  <1>10. RingIdsIn(s, d) = [j \in 1 .. 1 + n |-> Id(s[q[j]])]
    BY <1>1, <1>3, <1>4 DEF RingIdsIn
  <1>11. PICK r : r = RingIdsIn(s, d)
    OBVIOUS
  <1>12. DOMAIN r = 1 .. 1 + n /\ \A j \in 1 .. 1 + n : r[j] = Id(s[q[j]])
    BY <1>10, <1>11
  <1>13. PICK j \in 1 .. 1 + n : i = q[j]
    BY <1>9
  <1>14. Id(s[i]) = r[j] /\ j \in DOMAIN r
    BY <1>12, <1>13
  <1> QED
    BY <1>11, <1>14 DEF ToSet

ToldOf(s, part) ==
    {Id(s[i]) : i \in part.unreferenced \cup ToSet(part.decls)}
    \cup UNION {ToSet(RingIdsIn(s, d)) : d \in ToSet(part.decls)}

\* A symbol that is needed is told of.
LEMMA NeededTold ==
    ASSUME NEW s, Heap(s), NEW part, NEW ids, NEW N, IdsRight(ids, N), part.keep = ids,
           part.unreferenced = UnreferencedOf(s, part),
           NEW i \in ToSet(part.syms), PlainAt(s, i),
           <<s[i].name[1], s[i].version.name>> \in N,
           s[i].version.name = "" \/ s[i].version.default
    PROVE  Id(s[i]) \in ToldOf(s, part)
  <1>1. PICK t : t = s[i]
    OBVIOUS
  <1>2. Id(t) \in ToSet(ids)
    BY <1>1, NeededHasId DEF PlainAt
  <1>3. PICK R : R = UNION {{Id(s[j]) : j \in {d} \cup ToSet(NextAliases(s, d))} : d \in ToSet(part.decls)}
    OBVIOUS
  <1>4. CASE Id(t) \in R
    <2>1. PICK d \in ToSet(part.decls) : Id(t) \in {Id(s[j]) : j \in {d} \cup ToSet(NextAliases(s, d))}
      BY <1>3, <1>4
    <2>2. PICK j \in {d} \cup ToSet(NextAliases(s, d)) : Id(t) = Id(s[j])
      BY <2>1
    <2>3. Id(s[j]) \in ToSet(RingIdsIn(s, d))
      BY <2>2, RingIdsAll
    <2> QED
      BY <1>1, <2>1, <2>2, <2>3 DEF ToldOf
  <1>5. CASE Id(t) \notin R
    <2>1. i \in UnreferencedOf(s, part)
      BY <1>1, <1>2, <1>3, <1>5 DEF UnreferencedOf
    <2> QED
      BY <2>1 DEF ToldOf
  <1> QED
    BY <1>1, <1>4, <1>5

LEMMA NeededIdsNamed ==
    ASSUME NEW w, NEW s, NEW part, NEW g, NEW k, Heap(s), ReadPart(w, s, part, g, k),
           NEW L, L = Sorted(s, part.undefined), NEW ids, ids = [i \in DOMAIN L |-> Id(s[L[i]])],
           NamesArePlain
    PROVE  ids \in Seq(Ids) /\ \A i \in 1 .. Len(ids) : IsNeededId(ids[i])
  <1>1. ids \in Seq(Ids)
    BY UndefinedIds
  <1>2. part.undefined \in Seq(Nat) /\ UndefinedRight(s, part, k)
    BY DEF ReadPart, PartIs, Parts
  <1>3. PICK list, X : list = part.undefined /\ X = ToSet(list)
    OBVIOUS
  <1>4. list \in Seq(X)
    <2>1. Len(list) \in Nat /\ DOMAIN list = 1 .. Len(list)
      BY <1>2, <1>3, LenProperties
    <2>2. \A i \in 1 .. Len(list) : list[i] \in X
      BY <1>3, <2>1 DEF ToSet
    <2>3. list = [i \in 1 .. Len(list) |-> list[i]]
      BY <1>2, <1>3, <2>1
    <2>4. list \in [1 .. Len(list) -> X]
      BY <2>2, <2>3
    <2> QED
      BY <2>1, <2>4, FunctionSeq
  <1>5. L \in Seq(X)
    BY <1>3, <1>4, SortedWithin
  <1>6. ASSUME NEW i \in 1 .. Len(ids)
        PROVE  IsNeededId(ids[i])
    <2>1. i \in DOMAIN ids
      BY <1>1, LenProperties
    <2>2. i \in DOMAIN L /\ ids[i] = Id(s[L[i]])
      BY <2>1
    <2>3. L[i] \in X
      BY <1>5, <2>2, LenProperties, ElementOfSeq
    <2> QED
      BY <1>2, <1>3, <2>2, <2>3 DEF UndefinedRight, UndefinedNamed
  <1> QED
    BY <1>1, <1>6

LEMMA VersionsAreRight ==
    ASSUME NEW ids \in Seq(Ids), \A i \in 1 .. Len(ids) : IsNeededId(ids[i]),
           NEW N, N = {<<id[1], id[3]>> : id \in ToSet(ids)}, N # {},
           (\A n \in N : n[2] = "") \/ (\A n \in N : n[2] # "")
    PROVE  IdsRight(ids, N) /\ ids # <<>>
  <1>1. IdsRight(ids, N)
    BY DEF IdsRight
  <1>2. ASSUME ids = <<>>
        PROVE  FALSE
    <2>1. ToSet(ids) = {}
      BY <1>2 DEF ToSet
    <2> QED
      BY <2>1
  <1> QED
    BY <1>1, <1>2

\* What abicompat compares is what the application needs.
LEMMA NeededFromInvariant ==
    NamesArePlain /\ IInv /\ KeptInv => NeededIsKept
  <1> SUFFICES ASSUME NamesArePlain, IInv, KeptInv, Compared, VersionsFound,
                      NEW f \in Libs, NEW k \in {k \in SymbolKinds : Needed(k) # {}}
               PROVE  LET part == corpora[f][k]
                          told == {Id(symbols[i]) : i \in part.unreferenced \cup ToSet(part.decls)}
                                  \cup UNION {ToSet(RingIds(d)) : d \in ToSet(part.decls)}
                      IN  /\ {Id(symbols[d]) : d \in ToSet(part.decls)} = DeclsNeeded(f, k)
                          /\ "lib2" \in Libs =>
                               \A i \in ToSet(part.syms) :
                                 (/\ <<symbols[i].name[1], symbols[i].version.name>> \in Needed(k)
                                  /\ symbols[i].version.name = "" \/ symbols[i].version.default)
                                 => Id(symbols[i]) \in told
    BY DEF NeededIsKept
  <1>1. PICK w, s, c, g, n, N, ids :
          /\ w = world /\ s = symbols /\ c = corpora /\ g = file /\ n = next
          /\ N = Needed(k) /\ ids = NeededIds(k)
    OBVIOUS
  <1>2. phase = "done" /\ world.tool = "abicompat" /\ k \in SymbolKinds /\ N # {}
    BY <1>1 DEF Compared
  <1>3. w \in Worlds /\ w.tool = "abicompat" /\ Late(w, s, c, g, "done", n)
    BY <1>1, <1>2, EarlyOrLate DEF IInv, RightState, Reading
  <1>4. /\ Heap(s) /\ \A h \in DOMAIN w.files : ReadPart(w, s, c[h][k], h, k)
        /\ "app" \in DOMAIN w.files /\ f \in DOMAIN w.files /\ f # "app"
    BY <1>1, <1>2, <1>3, FilesAre DEF Late, Libs
  <1>5. ids \in Seq(Ids) /\ \A i \in 1 .. Len(ids) : IsNeededId(ids[i])
    <2>1. PICK part, L : part = c["app"][k] /\ L = Sorted(s, part.undefined)
      OBVIOUS
    <2>2. ids = [i \in DOMAIN L |-> Id(s[L[i]])]
      BY <1>1, <2>1 DEF NeededIds
    <2>3. ReadPart(w, s, part, "app", k)
      BY <1>4, <2>1
    <2> QED
      BY <1>4, <2>1, <2>2, <2>3, NeededIdsNamed
  <1>6. /\ N = {<<id[1], id[3]>> : id \in ToSet(ids)}
        /\ (\A x \in N : x[2] = "") \/ (\A x \in N : x[2] # "")
    BY <1>1, <1>2 DEF VersionsFound
  <1>7. IdsRight(ids, N) /\ ids # <<>>
    BY <1>2, <1>5, <1>6, VersionsAreRight
  <1>8. PICK part, dies : part = c[f][k] /\ dies = w.files[f].dies
    OBVIOUS
  <1>9. ReadPart(w, s, part, f, k)
    BY <1>4, <1>8
  <1>10. /\ KeepsNeeded(s, part, k, dies, ids)
         /\ "lib2" \in Libs => part.unreferenced = UnreferencedOf(s, part)
    BY <1>1, <1>2, <1>8, UnreferencedIs DEF KeptInv
  <1>11. IdsIn(s, ToSet(part.decls)) = IdsIn(s, NeededMains(s, part, dies, k, N))
    BY <1>3, <1>4, <1>7, <1>8, <1>9, <1>10, DeclsAreNeeded
  <1>12. {Id(symbols[d]) : d \in ToSet(corpora[f][k].decls)} = DeclsNeeded(f, k)
    <2>1. DeclsNeeded(f, k) = IdsIn(s, NeededMains(s, part, dies, k, N))
      BY <1>1, <1>8 DEF DeclsNeeded, IdsIn, NeededMains, MainsOf
    <2>2. {Id(symbols[d]) : d \in ToSet(corpora[f][k].decls)} = IdsIn(s, ToSet(part.decls))
      BY <1>1, <1>8 DEF IdsIn
    <2> QED
      BY <1>11, <2>1, <2>2
  <1>13. ASSUME "lib2" \in Libs, NEW i \in ToSet(part.syms),
                <<s[i].name[1], s[i].version.name>> \in N,
                s[i].version.name = "" \/ s[i].version.default
         PROVE  Id(s[i]) \in ToldOf(s, part)
    <2>1. PlainAt(s, i)
      BY <1>3, <1>4, <1>9, PartPlain
    <2>2. part.keep = ids /\ part.unreferenced = UnreferencedOf(s, part)
      BY <1>10, <1>13 DEF KeepsNeeded
    <2> QED
      BY <1>4, <1>7, <1>13, <2>1, <2>2, NeededTold
  <1>14. ToldOf(s, part) = {Id(symbols[i]) : i \in corpora[f][k].unreferenced \cup ToSet(corpora[f][k].decls)}
                           \cup UNION {ToSet(RingIds(d)) : d \in ToSet(corpora[f][k].decls)}
    BY <1>1, <1>8 DEF ToldOf, RingIds, RingIdsIn
  <1> QED
    BY <1>1, <1>8, <1>12, <1>13, <1>14

-----------------------------------------------------------------------------
(* What holds of the corpora                                                *)

(* Symbols, copies and chains stay within the instances that were made, the  *)
(* maps of public symbols hold public symbols of their kind only, and those  *)
(* of undefined ones undefined ones (load_symbol_maps).                     *)
THEOREM TypesHold == Spec => []TypeOK
  <1>1. IInv => TypeOK
    BY TypesFromInvariant
  <1> QED
    BY <1>1, InvariantHolds, PTL

(* No assertion of add_alias fails.  Of every file that has been read,       *)
(* directly or from the XML that was written of it and whose rows were       *)
(* linked in any order, the symbols of a kind at one address make one ring,  *)
(* the first of the symbol table being its main symbol; and the aliases that *)
(* compute_aliases_for_elf_symbol tells of a declaration are the others at   *)
(* its address.                                                             *)
THEOREM AliasesHold == Spec => []AliasesAreRight
  <1>1. IInv => AliasesAreRight
    BY AliasesFromInvariant
  <1> QED
    BY <1>1, InvariantHolds, PTL

(* A library that has been read is what corpus_diff takes for granted of its *)
(* two corpora: symbols that no two names denote, declarations with a symbol *)
(* of the table and no two with one symbol, rings of symbols of the table.   *)
(* And until abicompat drops some, there is one declaration of each address  *)
(* with a public symbol that the debug information describes, and no other.  *)
THEOREM CorporaHold == Spec => []CorporaAreLibraries
  <1>1. IInv => CorporaAreLibraries
    BY CorporaFromInvariant
  <1> QED
    BY <1>1, InvariantHolds, PTL

(* lookup_symbol_from_elf finds symbols of the name only, whichever hash     *)
(* table the file has; all public ones, unless the Bloom filter has them     *)
(* where the code misreads it; and where the linker gave all symbols of the  *)
(* name a version, that version.                                            *)
THEOREM LookupsHold == Spec => []LookupsAreRight
  <1>1. Init => FoundInv
    BY FoundStarts
  <1>2. IInv /\ FoundInv /\ [Next]_vars => FoundInv'
    BY FoundKept
  <1>3. IInv /\ FoundInv => LookupsAreRight
    BY LookupsFromInvariant
  <1> QED
    BY <1>1, <1>2, <1>3, InvariantHolds, PTL DEF Spec

(* abicompat compares the library versions exactly in what the application   *)
(* needs of them: once it has told both what to keep, each shows it the      *)
(* declarations with a needed symbol, and no others; and a needed symbol     *)
(* that no declaration has is compared as a symbol.                         *)
THEOREM NeededHolds == NamesArePlain /\ Spec => []NeededIsKept
  <1>1. Init => KeptInv
    BY KeptStarts
  <1>2. IInv /\ KeptInv /\ [Next]_vars => KeptInv'
    BY KeptStays
  <1>3. NamesArePlain /\ IInv /\ KeptInv => NeededIsKept
    BY NeededFromInvariant
  <1>4. NamesArePlain /\ [Next]_vars => NamesArePlain'
    BY DEF NamesArePlain
  <1> QED
    BY <1>1, <1>2, <1>3, <1>4, InvariantHolds, PTL DEF Spec
=============================================================================
