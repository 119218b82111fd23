---------------------------- MODULE MCDiffGraph -----------------------------
(* Two classes that may mention themselves and each other, by value, by     *)
(* pointer, as a const-qualified type and through the return type of a      *)
(* virtual member; one changed function and one changed variable.           *)
EXTENDS DiffGraph, SmallABIs

MCSubject == SubjectsFor(2, 2, 2)

MCABI ==
    [members  : {<<m1, m2>> : m1 \in {<<>>, <<Ptr(1)>>, <<Alias(2)>>,
                                      <<Ptr(2), Ptr(1)>>, <<Ptr(2), Ptr(2)>>},
                              m2 \in SeqsUpTo({Ptr(1)}, 1)},
     returns  : {<<<<>>, r2>> : r2 \in {<<>>, <<Ptr(2)>>}},
     bases    : {<<<<>>, <<>>>>},
     mentions : {<< <<Ptr(1)>>, <<Class(2)>> >>},
     yields   : {<< <<>>, <<>> >>},
     alias    : {"qualified"}]

MCKind(a, s) == KindOf(a, s)
MCParts(a, s) == PartsOf(a, s)
MCRank(a, s) == IF s[1] = "dm" THEN 3 - s[3] ELSE 3
MCRoots(a) == <<Fn(1), Var(2)>>
=============================================================================
