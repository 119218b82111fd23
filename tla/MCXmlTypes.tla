------------------------------ MODULE MCXmlTypes ------------------------------
(****************************************************************************)
(* Corpora of one or two translation units with two classes that refer to   *)
(* each other, a type T made of one of them, a namespace, a variable and a  *)
(* function, nested in each other and written in many orders.               *)
(****************************************************************************)
EXTENDS XmlTypes

Global == "global"

(* How T is made, of what, and where it is declared.  Only typedefs and     *)
(* enums are declared in classes and namespaces.                            *)
MadeOf == [kind : {"typedef"}, of : {1, 3, 5, 6}, tIn : {Global, "A", "B", "N"}]
            \cup [kind : {"typedef"}, of : {2}, tIn : {Global, "N"}]
            \cup [kind : {"enum"}, of : {1}, tIn : {Global, "A", "B"}]
            \cup [kind : {"array", "qualified"}, of : {3, 6}, tIn : {Global}]
            \cup [kind : {"reference"}, of : {2}, tIn : {Global}]

(* The second unit: none, the same again, one that has but the pointers, the*)
(* namespace and the variable and refers to types of the first; or A is     *)
(* only declared in one of the two.                                         *)
(* Which top-level element comes first, and whether the others ascend.      *)
Orders == [first : 1 .. 7, up : BOOLEAN]

Nested == [base : BOOLEAN, bIn : {Global, "A", "N"}]

Seconds == {"none", "same", "in part", "declared first", "declared last"}

All == [made : MadeOf, order : Orders, nested : Nested, second : Seconds,
        shared : BOOLEAN, linked : BOOLEAN]

(* A base class is defined before the class that has it.                    *)
Complete(w) == w.nested.base => w.nested.bIn # "A" /\ ~(w.made.tIn = "B" /\ w.made.of = 2)

Declaring(w) == w.second \in {"declared first", "declared last"}
NothingInA(w) == w.made.tIn # "A" /\ w.nested.bIn # "A" /\ w.made.of # 2

World1 == {w \in All :
             /\ Complete(w) /\ w.second = "none" /\ w.shared /\ ~w.linked}

World2 == {w \in All :
             /\ Complete(w) /\ w.second # "none"
             /\ w.order \in {[first |-> 1, up |-> TRUE], [first |-> 5, up |-> FALSE]}
             /\ w.made.kind # "reference"
             /\ (~Declaring(w) => w.shared /\ ~w.linked)
             /\ (Declaring(w) => NothingInA(w) /\ w.made.kind = "typedef" /\ w.made.tIn = Global)
             /\ (w.linked => w.second = "declared first")}

MCWorld == World1 \cup World2

Item(kind, name, uses, contents) ==
    [kind |-> kind, name |-> name, uses |-> uses, contents |-> contents,
     declaration |-> FALSE, virtual |-> FALSE, earlier |-> {}]

InsideOf(w, scope) ==
    (IF w.made.tIn = scope THEN <<4>> ELSE <<>>)
      \o (IF w.nested.bIn = scope THEN <<6>> ELSE <<>>)

(* The artifacts of a unit in which A is defined, or only declared.         *)
OneUnit(w, isDeclared) ==
    << Item("type", "int", <<>>, <<>>),
       [Item("class", "A", IF w.nested.base THEN <<6>> ELSE <<>>,
             <<9>> \o InsideOf(w, "A") \o <<10>>)
          EXCEPT !.declaration = isDeclared,
                 !.contents = IF isDeclared THEN <<>> ELSE @,
                 !.uses = IF isDeclared THEN <<>> ELSE @],
       Item("pointer", "A*", <<2>>, <<>>),
       Item(w.made.kind, "T", <<w.made.of>>, <<>>),
       Item("pointer", "B*", <<6>>, <<>>),
       Item("class", "B", <<>>, <<11>> \o InsideOf(w, "B")),
       Item("namespace", "N", <<>>, InsideOf(w, "N")),
       Item("variable", "x", <<4>>, <<>>),
       Item("variable", "m", <<5>>, <<>>),
       [Item("function", "f", <<3, 4>>, <<>>) EXCEPT !.virtual = TRUE],
       Item("variable", "k", <<3>>, <<>>) >>

Size == 11
Shift(s) == [i \in DOMAIN s |-> s[i] + Size]
Shifted(a, earlier) ==
    [a EXCEPT !.uses = Shift(@), !.contents = Shift(@), !.earlier = earlier]

MCArtifactsIn(w) ==
    OneUnit(w, w.second = "declared first")
      \o (IF w.second = "none" THEN <<>>
          ELSE LET u == OneUnit(w, w.second = "declared last")
               IN [i \in DOMAIN u |->
                     Shifted(u[i], IF i = 2 /\ w.linked THEN {2} ELSE {})])

Upward == [f \in 1 .. 7 |-> <<f>> \o SelectSeq(<<1, 2, 3, 4, 5, 6, 7, 8>>, LAMBDA a : a # f)]
Downward == [f \in 1 .. 7 |-> <<f>> \o SelectSeq(<<8, 7, 6, 5, 4, 3, 2, 1>>, LAMBDA a : a # f)]

TopLevel(w) ==
    SelectSeq(IF w.order.up THEN Upward[w.order.first] ELSE Downward[w.order.first],
              LAMBDA a : /\ a = 4 => w.made.tIn = Global
                         /\ a = 6 => w.nested.bIn = Global)

MCUnitsIn(w) ==
    CASE w.second = "none" -> <<TopLevel(w)>>
      [] w.second = "in part" ->
           <<TopLevel(w), Shift(SelectSeq(TopLevel(w), LAMBDA a : a \in {3, 5, 7, 8}))>>
      [] OTHER -> <<TopLevel(w), Shift(TopLevel(w))>>

MCSharedIdIn(w) == w.shared
=============================================================================
