-------------------------- MODULE MCCanonicalTypes --------------------------
(* Two classes A and B, pointers to them, a declaration of A and a pointer   *)
(* to it; the second corpus has the same types, or one of them has changed.  *)
EXTENDS CanonicalTypes

MCType == Corpora \X {"A", "B", "PA", "PB", "dA", "PdA"}
MCNoType == <<0, "none">>
MCCorpus(t) == t[1]
MCKind(t) ==
  CASE t[2] \in {"A", "B"} -> "class" [] t[2] = "dA" -> "declaration" [] OTHER -> "other"
MCName(t) == CASE t[2] = "dA" -> "A" [] t[2] = "PdA" -> "PA" [] OTHER -> t[2]
MCDeclaration(t) == <<t[1], "A">>

\* virtual: the classes with virtual member functions; alternate: the types whose DIEs
\* are in the alternate file.
How(reader, collide, virtual, alternate) ==
  [reader |-> reader, collide |-> collide, virtual |-> virtual, alternate |-> alternate]

SmallWorlds ==
  [how    : {How("xml", FALSE, {}, {}), How("xml", TRUE, {}, {}), How("dwarf", FALSE, {}, {}),
             How("dwarf", TRUE, {}, {}), How("dwarf", TRUE, {"A"}, {}),
             How("dwarf", TRUE, {"A"}, {"A", "PA"}), How("dwarf", TRUE, {"B"}, {"A", "PA"})},
   a      : {<<>>, <<"PA">>, <<"PB">>, <<"PB", "PA">>, <<"B">>},
   b      : {<<>>, <<"PA">>, <<"PB">>, <<"PdA">>, <<"PB", "PA">>},
   change : {"none", "A", "B", "size", "fewer"},
   roots  : {<<{"A", "B"}, {"A", "B"}>>, <<{"PA", "PB"}, {"PA", "PB"}>>,
             <<{"A", "B"}, {"PB"}>>, <<{"PB"}, {"PB", "A"}>>}]
MCWorlds == {w \in SmallWorlds : "A" \in w.how.alternate => Range(w.a) \subseteq w.how.alternate}

\* Two classes that point to each other, read from two ABI files in any order: the
\* world of the run that looks for a type with two canonical types.
MCSplitWorlds ==
  [how : {How("xml", FALSE, {}, {})}, a : {<<"PB">>}, b : {<<"PA">>}, change : {"none"},
   roots : {<<{"A", "B"}, {"A", "B"}>>}]

MCReader(w) == w.how.reader
MCCollide(w) == w.how.collide
MCRoots(w, c) == {c} \X w.roots[c]
MCVirtual(w, t) == t[2] \in w.how.virtual
MCAlternate(w, t) == t[2] \in w.how.alternate

Nodes(c, s) == [i \in DOMAIN s |-> <<c, s[i]>>]
MCParts(w, t) ==
  CASE t[2] = "A" -> IF w.change = "fewer" /\ t[1] = 2 THEN <<>> ELSE Nodes(t[1], w.a)
    [] t[2] = "B" -> Nodes(t[1], w.b)
    [] t[2] = "PA" -> << <<t[1], "A">> >>
    [] t[2] = "PB" -> << <<t[1], "B">> >>
    [] t[2] = "PdA" -> << <<t[1], "dA">> >>
    [] t[2] = "dA" -> <<>>
MCLabel(w, t) ==
  CASE MCKind(t) = "other" -> "pointer"
    [] t = <<2, "B">> /\ w.change = "size" -> "bigger B"
    [] OTHER -> MCName(t)
MCLayout(w, t) == IF t = <<2, w.change>> THEN "changed" ELSE "same"
=============================================================================
