------------------------------ MODULE SmallABIs ------------------------------
(* Small comparisons for TLC: the pairs of artifacts of two versions of a   *)
(* program with a few classes, and the sub-diffs compute_diff asks for.     *)
EXTENDS Naturals, Sequences, FiniteSets

Class(i) == <<"class", i>>          \* class_diff
Ptr(i) == <<"ptr", i>>              \* pointer_diff to class i
Ref(i) == <<"ref", i>>              \* reference_diff to class i
Alias(i) == <<"alias", i>>          \* typedef of class i, const class i, ...
Leaf == <<"leaf", 0>>               \* enum or basic type: no sub-diff
Base(i) == <<"base", i>>            \* base_diff of a class that derives from class i
DM(i, k) == <<"dm", i, k>>          \* var_diff of the k-th member of class i
MFn(i) == <<"mfn", i>>              \* function_decl_diff of a virtual member
MFnType(i) == <<"mfntype", i>>      \* its function_type_diff
Fn(r) == <<"fn", r>>                \* function_decl_diff of an exported function
FnType(r) == <<"fntype", r>>
Parm(r) == <<"parm", r>>            \* fn_parm_diff
Var(r) == <<"var", r>>              \* var_diff of an exported variable

SubjectsFor(NC, NM, NR) ==
    {Class(i) : i \in 1 .. NC} \cup {Ptr(i) : i \in 1 .. NC}
    \cup {Ref(i) : i \in 1 .. NC} \cup {Leaf}
    \cup {Alias(i) : i \in 1 .. NC} \cup {Base(i) : i \in 1 .. NC}
    \cup {DM(i, k) : i \in 1 .. NC, k \in 1 .. NM}
    \cup {MFn(i) : i \in 1 .. NC} \cup {MFnType(i) : i \in 1 .. NC}
    \cup {Fn(r) : r \in 1 .. NR} \cup {FnType(r) : r \in 1 .. NR}
    \cup {Parm(r) : r \in 1 .. NR} \cup {Var(r) : r \in 1 .. NR}

(* A comparison: members, class -> the types of its changed data members;   *)
(* returns, class -> <<type>> returned by a changed virtual member, or <<>>;*)
(* bases, class -> the classes it derives from;                             *)
(* mentions, root -> the type of its parameter (a function) or its own (a   *)
(* variable), or <<>>; yields, root -> <<type>> returned by a function;     *)
(* alias, what the aliases are: "typedef", "qualified", "array", "distinct".*)
KindOf(a, s) ==
    CASE s[1] = "class" -> "class"
      [] s[1] \in {"dm", "var"} -> "var"
      [] s[1] = "parm" -> "parm"
      [] s[1] \in {"fntype", "mfntype"} -> "function"
      [] s[1] = "alias" /\ a.alias = "distinct" -> "var"
      [] s[1] = "alias" /\ a.alias = "qualified" -> "qualified"
      [] OTHER -> "compound"

PartsOf(a, s) ==
    CASE s[1] = "class" ->
           [k \in 1 .. Len(a.bases[s[2]]) |-> Base(a.bases[s[2]][k])]
             \o [k \in 1 .. Len(a.members[s[2]]) |-> DM(s[2], k)]
             \o (IF a.returns[s[2]] = <<>> THEN <<>> ELSE <<MFn(s[2])>>)
      [] s[1] = "dm" ->
           IF s[3] <= Len(a.members[s[2]]) THEN <<a.members[s[2]][s[3]]>> ELSE <<>>
      [] s[1] \in {"ptr", "ref", "alias", "base"} -> <<Class(s[2])>>
      [] s[1] = "mfn" -> <<MFnType(s[2])>>
      [] s[1] = "mfntype" -> a.returns[s[2]]
      [] s[1] = "fn" -> <<FnType(s[2])>>
      [] s[1] = "fntype" ->
           a.yields[s[2]] \o (IF a.mentions[s[2]] = <<>> THEN <<>> ELSE <<Parm(s[2])>>)
      [] s[1] \in {"parm", "var"} -> a.mentions[s[2]]
      [] OTHER -> <<>>

(* The classes that class i depends on, itself included.                    *)
ClassesBelow(a, i) ==
    LET targets[j \in DOMAIN a.members] ==
          {t[2] : t \in {a.members[j][k] : k \in DOMAIN a.members[j]}
                         \cup {a.returns[j][k] : k \in DOMAIN a.returns[j]}}
            \cup {a.bases[j][k] : k \in DOMAIN a.bases[j]}
        upTo[n \in 0 .. Len(a.members)] ==
          IF n = 0 THEN {i} ELSE UNION {{j} \cup targets[j] : j \in upTo[n - 1]}
    IN upTo[Len(a.members)]

(* Whose report() prints a subject.                                         *)
MethodOfSubject(a, s) ==
    CASE s[1] = "dm" -> "member"
      [] s[1] = "var" -> "variable"
      [] s[1] \in {"fn", "mfn"} -> "function"
      [] s[1] \in {"fntype", "mfntype"} -> "signature"
      [] s[1] \in {"ptr", "ref"} -> "pointer"
      [] s[1] = "alias" -> a.alias
      [] s[1] = "leaf" -> "basic"
      [] OTHER -> s[1]

SeqsUpTo(S, n) == UNION {[1 .. k -> S] : k \in 0 .. n}
=============================================================================
