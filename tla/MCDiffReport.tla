---------------------------- MODULE MCDiffReport ----------------------------
(* The comparisons that the categorization and the report are checked with: *)
(* two classes that mention themselves and each other in many ways, two     *)
(* changed functions, or a function and a variable, that mention them.      *)
EXTENDS DiffReport, SmallABIs

CONSTANT Comparisons   \* the families of comparisons of a run

Two == 1 .. 2

MCSubject == SubjectsFor(2, 2, 2)

(* The categories that are switched off and --redundant.                    *)
Option(off, redundant) == [off |-> off, redundant |-> redundant]
Default == Option({"HARMLESS"}, FALSE)         \* abidiff
ShowRedundant == Option({"HARMLESS"}, TRUE)    \* abidiff --redundant
NoHarmful == Option(Filtering, FALSE)          \* abidiff --no-harmful
Everything == Option({}, TRUE)                 \* abidiff --harmless --redundant

Nothing == << <<>>, <<>> >>
FnAndVar == <<Fn(1), Var(2)>>
TwoFns == <<Fn(1), Fn(2)>>

(* A changed function or variable does differ, somewhere below it; what the *)
(* first root mentions is the first class.                                  *)
Changed(a) ==
    /\ \E j \in ClassesBelow(a, 1) : a.own[j] # "none"
    /\ IF a.roots = FnAndVar THEN \E j \in ClassesBelow(a, 2) : a.own[j] # "none"
       ELSE a.mentions[2] \o a.yields[2] # <<>>

(* Each class has up to two members that point to either class.             *)
Cycles ==
    [members  : [Two -> SeqsUpTo({Ptr(1), Ptr(2)}, 2)],
     returns  : {Nothing}, bases : {Nothing}, alias : {"typedef"},
     mentions : {<< <<Ptr(1)>>, <<Ptr(2)>> >>}, yields : {Nothing},
     roots    : {FnAndVar}, renamed : {FALSE},
     own      : {<<"none", "HARMFUL">>, <<"HARMLESS", "HARMFUL">>},
     suppressed : {{}}, options : {Default}]

(* A virtual member, a variadic parameter, a function that returns what it  *)
(* takes, with what the user suppresses and the options of abidiff.         *)
Versatile(specifications, options) ==
    [members  : {<<m, <<Ptr(1)>> >> : m \in {<<>>, <<Ptr(2)>>}},
     returns  : {Nothing, << <<Ptr(2)>>, <<>> >>}, bases : {Nothing}, alias : {"typedef"},
     mentions : {<< <<Ptr(1)>>, m >> : m \in {<<Ptr(1)>>, <<Leaf>>}},
     yields   : {<< <<>>, y >> : y \in {<<>>, <<Ptr(1)>>}},
     roots    : {TwoFns}, renamed : {FALSE}, own : {<<"HARMLESS", "HARMFUL">>},
     suppressed : specifications, options : options]

Optional == Versatile({{}}, {Default, ShowRedundant, NoHarmful, Everything})
Suppressed == Versatile({{Class(1)}, {Class(2)}, {Ptr(2), Parm(1)}}, {Default})

(* What the second function takes and returns, by value or not.             *)
ByValue ==
    [members  : {<<m1, m2>> : m1 \in {<<>>, <<Ptr(2)>>, <<Class(2)>>},
                              m2 \in {<<>>, <<Ptr(1)>>}},
     returns  : {Nothing}, bases : {Nothing}, alias : {"typedef"},
     mentions : {<< <<Ptr(1)>>, m >> : m \in {<<>>, <<Ptr(1)>>, <<Class(1)>>}},
     yields   : {<< <<>>, y >> : y \in {<<>>, <<Ptr(1)>>, <<Class(1)>>}},
     roots    : {TwoFns}, renamed : {FALSE},
     own      : {<<"none", "HARMFUL">>, <<"HARMLESS", "HARMFUL">>},
     suppressed : {{}}, options : {Default}]

(* Typedefs, qualified types, arrays and distinct types of the second class,*)
(* of which the first one may be derived; a renamed function.               *)
Aliased ==
    [members  : {<<m, <<Ptr(1)>> >> : m \in {<<>>, <<Alias(2), Ptr(1)>>}},
     returns  : {Nothing}, bases : {Nothing, << <<2>>, <<>> >>},
     alias    : {"typedef", "qualified", "array", "distinct"},
     mentions : {<< <<Alias(1)>>, <<Alias(2)>> >>},
     yields   : {Nothing}, roots : {FnAndVar}, renamed : BOOLEAN,
     own      : {<<"none", "HARMFUL">>, <<"HARMFUL", "HARMLESS">>},
     suppressed : {{}}, options : {Default}]

(* The second class derives from the first, which points to it.             *)
Derived ==
    [members  : {<< <<Ptr(2)>>, m >> : m \in {<<>>, <<Ptr(1)>>}},
     returns  : {Nothing}, bases : {<< <<>>, <<1>> >>}, alias : {"distinct"},
     mentions : {<< m, <<Alias(2)>> >> : m \in {<<Ptr(1)>>, <<Alias(1)>>}},
     yields   : {Nothing}, roots : {FnAndVar}, renamed : {FALSE},
     own      : {<<"HARMFUL", "HARMFUL">>, <<"HARMLESS", "HARMFUL">>},
     suppressed : {{}, {Class(2)}}, options : {Default, ShowRedundant}]

(* Two classes that mention each other; the first function takes the one    *)
(* that changed harmlessly, the second returns it, so that the diffs the    *)
(* first function is walked through are not the canonical ones.             *)
Returned ==
    [members  : {<< <<Ptr(2)>>, m >> : m \in [Two -> {Ptr(1), Ref(1)}]},
     returns  : {Nothing}, bases : {Nothing}, alias : {"typedef"},
     mentions : {<< <<Ptr(1)>>, <<>> >>}, yields : {<< <<>>, <<Ptr(1)>> >>},
     roots    : {TwoFns}, renamed : {FALSE}, own : {<<"HARMLESS", "HARMFUL">>},
     suppressed : {{}}, options : {Default}]

MCABI == {a \in UNION Comparisons : Changed(a)}

MCKind(a, s) == KindOf(a, s)
MCParts(a, s) == PartsOf(a, s)
MCMethod(a, s) == MethodOfSubject(a, s)
MCRank(a, s) == IF s[1] = "dm" THEN s[3] ELSE 3
MCRoots(a) == a.roots
MCLocal(a, s) ==
    \/ s = Leaf
    \/ s[1] = "class" /\ a.own[s[2]] # "none"
    \/ s[1] = "alias" /\ a.alias = "distinct"
    \/ s = Fn(1) /\ a.renamed
MCOwn(a, s) ==
    CASE s[1] = "class" /\ MCLocal(a, s) -> {a.own[s[2]]}
      [] s[1] = "alias" /\ a.alias = "distinct" -> {"HARMLESS"}  \* a compatible type
      [] OTHER -> {}
MCSuppressed(a, s) == s \in a.suppressed
MCVariadic(a, s) == s = Leaf \/ (s[1] = "parm" /\ a.mentions[s[2]] = <<Leaf>>)
MCRenamed(a, s) == s = Fn(1) /\ a.renamed
MCAllowed(a) == Category \ a.options.off
MCShowRedundant(a) == a.options.redundant

AllComparisons == {Cycles, Optional, Suppressed, Returned, ByValue, Aliased, Derived}

(* The same class by value in two places of a function: a change below it   *)
(* is marked redundant in both and shown in none, since visit_begin()       *)
(* neither marks nor skips a diff that repeats a sibling.  (And a function  *)
(* that is only said to have been renamed.)                                 *)
TwiceByValue(a) == \E r \in Two : a.mentions[r] = a.yields[r] /\ a.mentions[r] = <<Class(1)>>

(* Apart from these, a change that is allowed and not suppressed is printed.*)
EveryOtherChangePrinted == ~TwiceByValue(abi) /\ ~abi.renamed => EveryChangePrinted
=============================================================================
