---------------------------- MODULE MCDwarfTypes ----------------------------
(***************************************************************************)
(* The debugging information of small programs for module DwarfTypes.      *)
(***************************************************************************)
EXTENDS DwarfTypes, TLC

(* A DIE that refers to others by their places in the sequence.             *)
Entry(tag, parent, name) == [tag |-> tag, parent |-> parent, name |-> name]
UnitEntry == [tag |-> "unit"]
Partial == [tag |-> "partial"]
Import(unitDie, of) == [tag |-> "imported", parent |-> unitDie, import |-> of]
Typed(tag, parent, name, type) ==
  [tag |-> tag, parent |-> parent, name |-> name, type |-> type, sized |-> TRUE]
Op(atom, number) == [atom |-> atom, number |-> number]
LocatedAt(d, location) == [location |-> location] @@ d
Field(parent, name, type) ==
  LocatedAt(Typed("member", parent, name, type), <<Op("plus_uconst", parent)>>)
Fn(parent, name, type) ==
  [tag |-> "function", parent |-> parent, name |-> name, linkage |-> name,
   type |-> type, external |-> TRUE]
Var(parent, name, type) ==
  [tag |-> "variable", parent |-> parent, name |-> name, type |-> type, external |-> TRUE]
IntType(parent) == [tag |-> "base", parent |-> parent, name |-> "int", sized |-> TRUE]
Class(parent, name) == [tag |-> "class", parent |-> parent, name |-> name, sized |-> TRUE]
Declares(parent, name) ==
  [tag |-> "class", parent |-> parent, name |-> name, declaration |-> TRUE]
This(parent, type) ==
  [tag |-> "parameter", parent |-> parent, type |-> type, artificial |-> TRUE]
Completes(d, of) == [specification |-> of] @@ d
Copies(d, of) == [origin |-> of] @@ d
Path(d, path) == [path |-> path] @@ d
Offset(d, offset) == [offset |-> offset] @@ d

Orders(s) == {[i \in DOMAIN s |-> s[p[i]]] : p \in {p \in [DOMAIN s -> DOMAIN s] :
                                                    \A i, j \in DOMAIN s : p[i] = p[j] => i = j}}

(* Classes that refer to each other and to themselves, through members,     *)
(* bases, member types and member functions.                                *)
Cycle ==
  {<<UnitEntry, IntType(1),
     Class(1, "C"), Field(3, "next", 8), Field(3, "in", 6),
     Class(3, "N"), Field(6, "of", 10),
     Typed("pointer", 1, "", 3), Typed("qualified", 1, "", 8), Typed("reference", 1, "", 12),
     Typed("qualified", 1, "", 10),
     Class(1, "D"), Typed("inheritance", 12, "", 3), Field(12, "n", 16),
     Fn(12, "D::get", 10), Typed("typedef", 1, "T", 9), This(15, 18), Typed("pointer", 1, "", 12),
     Typed("parameter", 15, "c", 11)>> \o roots :
   roots \in Orders(<<Fn(1, "f", 8), Fn(1, "g", 6), Fn(1, "h", 10), Var(1, "v", 16)>>)}

(* A class that one unit declares and another, before it or after, defines. *)
Declared ==
  LET declaring(u) == <<UnitEntry, Entry("namespace", u, "M"), Declares(u + 1, "S"),
                        Typed("pointer", u, "", u + 2), Fn(u, "f", u + 3), Fn(u, "f2", u + 2)>>
      defining(u) == <<UnitEntry, Entry("namespace", u, "M"), Class(u + 1, "S"),
                       Field(u + 2, "i", u + 5), Typed("pointer", u, "", u + 2),
                       IntType(u), Fn(u, "g", u + 4), Fn(u + 1, "h", u + 5)>>
      using(u) == <<UnitEntry, Class(u, "B"), Typed("inheritance", u + 1, "", u + 3),
                    Declares(u, "X"), Fn(u, "k", u + 1)>>
  IN {declaring(1) \o defining(7) \o using(15), defining(1) \o declaring(9) \o using(15),
      declaring(1) \o declaring(7) \o defining(13), using(1) \o declaring(6) \o declaring(12)}

(* A member class is defined after the class, which may be being built.     *)
Completed ==
  {<<UnitEntry, IntType(1), Class(1, "A"), Declares(3, "B"), Field(3, "b", 6),
     Typed("pointer", 1, "", 7), Completes(Class(1, ""), 4), Field(7, "a", 3),
     Fn(7, "A::B::m", 2), This(9, 6)>> \o roots :
   roots \in Orders(<<Fn(1, "f", 3), Fn(1, "g", 6), Fn(1, "h", 7)>>)}

(* Static members, member functions and instances that are described again  *)
(* where they are defined; variables that are members by their mangled names*)
Defined ==
  {<<UnitEntry, IntType(1), Class(1, "K"), Var(3, "x", 2), Fn(3, "K::m", 2), This(5, 7),
     Typed("pointer", 1, "", 3), Fn(3, "K::s", 7), Fn(1, "inl", 2),
     Field(3, "y", 2)>> \o roots :
   roots \in Orders(<<Completes([tag |-> "variable", parent |-> 1], 4),
                      Completes([tag |-> "function", parent |-> 1], 5),
                      Copies([tag |-> "function", parent |-> 1, linkage |-> "inl.clone"], 9),
                      Path(Var(1, "z", 2), <<"K">>), Path(Var(1, "y", 2), <<"K">>)>>)}
  \cup {<<UnitEntry, IntType(1), Var(1, "e", 2), Completes([tag |-> "variable", parent |-> 1], 3),
          Copies([tag |-> "variable", parent |-> 1, name |-> "e.1"], 3),
          Copies([tag |-> "function", parent |-> 1], 7), Fn(1, "o", 2),
          [tag |-> "function", parent |-> 1, name |-> "hidden"],
          [tag |-> "function", parent |-> 1, artificial |-> TRUE, external |-> TRUE]>>}

(* What the reader has no node for.                                         *)
Unread ==
  {<<UnitEntry, IntType(1), Class(1, "U"), Entry("unsupported", 3, "V"), Field(3, "v", 4),
     Field(3, "", 2), Field(3, "", 9), Entry("pointer", 1, ""),
     Typed("pointer", 1, "", 3), Typed("array", 1, "", 2),
     [tag |-> "subrange", parent |-> 10, sized |-> last], Field(3, "a", 10),
     Entry("enum", 3, "E"), Field(3, "e", 13), Fn(1, "f", 9), Typed("pointer", 1, "", 4),
     Typed("parameter", 15, "p", 16), Typed("parameter", 15, "q", 9),
     Typed("typedef", 15, "local", 2), Typed("parameter", 15, "r", 19), Entry("block", 15, ""),
     Class(21, "L"), Fn(1, "g", 22), Var(1, "w", 16), Var(1, "n", 0), Entry("base", 1, "none"),
     Fn(1, "h", 26), Entry("reference", 1, ""), Fn(1, "j", 28),
     Entry("inheritance", 3, ""), Typed("inheritance", 3, "", 2)>> : last \in BOOLEAN}

(* Partial units, imported one through another, and those of the alternate  *)
(* file.                                                                    *)
InAlt(s) == [i \in DOMAIN s |-> [alt |-> TRUE] @@ s[i]]
Shared ==
  {<<UnitEntry, Import(1, 5), Fn(1, "f", 6), Fn(1, "f2", 10),
     Partial, Class(5, "P"), Field(6, "q", 10), Import(5, 9), Partial,
     Typed("pointer", 9, "", 6), UnitEntry, Import(11, 5), Fn(11, "g", type)>> : type \in {6, 10}}

Alternate ==
  {<<UnitEntry, Fn(1, "f", 9), Import(1, 7), Class(1, "C"), Typed("pointer", 1, "", 4),
     Fn(1, "c", 5)>>
     \o InAlt(<<Partial, IntType(7), Class(7, "Q"), Var(9, "x", 8), Typed("pointer", 7, "", 9),
                Field(9, "self", 11), Fn(9, "Q::m", 8), This(13, 11)>>)
     \o <<Offset(Completes([tag |-> "variable", parent |-> 1], 10), 50),
          Offset(Completes([tag |-> "function", parent |-> 1], 13), 51)>>
     \o more :
   more \in {<<>>, <<UnitEntry, Fn(17, "g", 11)>>, <<UnitEntry, Import(17, 7), Fn(17, "g", 9)>>}}

(* Where members, bases and virtual functions are: every expression of up to*)
(* three operations that says where something is, and one for each other    *)
(* operation.                                                               *)
Ops == {Op("plus_uconst", 4), Op("const", 2), Op("plus", 0), Op("minus", 0), Op("swap", 0),
        Op("over", 0), Op("deref", 0), Op("fbreg", 4)}
Computed ==
  {<<Op("const", 5), Op("lit", 2), Op(atom, 0)>> : atom \in Binary \cup Comparison}
    \cup {<<Op("lit", -5), Op(atom, 0)>> : atom \in Unary}
Locations == {e \in UNION {[1 .. n -> Ops] : n \in 1 .. 3} \cup Computed :
                \E k \in -8 .. 24 : Means(e, k)}
VirtualBase == <<Op("dup", 0), Op("deref", 0), Op("const", 24), Op("minus", 0), Op("deref", 0),
                 Op("plus", 0)>>

Virtual(d, index) == [virtual |-> TRUE] @@ LocatedAt(d, <<Op("const", index)>>)

Located ==
  {<<UnitEntry, IntType(1), Class(1, "B"), Field(3, "b", 2), Class(1, "W"),
     LocatedAt(Typed("inheritance", 5, "", 3), VirtualBase),
     LocatedAt(Typed("member", 5, "m", 2), location), Fn(1, "f", 5)>> : location \in Locations}
  \cup {<<UnitEntry, IntType(1), Class(1, "V"), Typed("pointer", 1, "", 3),
          Virtual(Fn(3, "first", 2), i), This(5, 4), Virtual(Fn(3, "second", 2), 3 - i), This(7, 4),
          Virtual(Fn(3, "last", 2), 2 * i), This(9, 4)>> \o roots :
        i \in 0 .. 3,
        roots \in Orders(<<Completes([tag |-> "function", parent |-> 1], 7), Fn(1, "f", 3),
                           Copies([tag |-> "function", parent |-> 1, linkage |-> "clone"], 5)>>)}

(* The offset of a DIE is its place in its file, if it is not given.  DIEs  *)
(* of the two files have the same offsets, but neither two classes nor a DIE*)
(* that completes another and one of the file of that.                      *)
Placed(s) ==
  LET place(i) == Cardinality({j \in 1 .. i : ("alt" \in DOMAIN s[j]) = ("alt" \in DOMAIN s[i])})
  IN FoldLeftDomain(LAMBDA placed, i : Append(placed, s[i] @@ [offset |-> place(i)] @@ NoDIE),
                    <<>>, s)

SmallPrograms ==
  {Placed(s) : s \in Cycle \cup Declared \cup Completed \cup Defined \cup Unread
                       \cup Shared \cup Alternate \cup Located}
=============================================================================
