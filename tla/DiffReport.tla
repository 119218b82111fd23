------------------------------ MODULE DiffReport ------------------------------
(****************************************************************************)
(* What abidiff prints about the changed functions and variables: the       *)
(* report() methods, which go down the sub-diffs of module DiffGraph that   *)
(* module DiffCategorize has left to be reported.  The graph has cycles and *)
(* shares its nodes, so class_diff::report() puts two flags on the canonical*)
(* diff, currently_reporting_ and reported_once_; a diff that carries one   *)
(* of them is only referred to, "details are being reported" or "were       *)
(* reported earlier".                                                       *)
(****************************************************************************)
EXTENDS DiffCategorize

CONSTANTS MethodIn(_, _),  \* whose report() prints a subject
          RenamedIn(_, _)  \* the qualified names of the pair differ

(* How the report() methods go about the parts of a diff:                   *)
(*   Selective   they only go into what is to be reported;                  *)
(*   Asserting   they take for granted that their part is;                  *)
(*   Referring   they look at the flags of a part before they go into it;   *)
(*   Guarded     they look at their own flags first;                        *)
(*   Terse       a changed name is all they print.                          *)
Method == {"class", "member", "base", "function", "signature", "parm", "variable",
           "pointer", "typedef", "qualified", "array", "distinct", "basic"}
Selective == {"class", "member", "base", "function", "signature", "variable",
              "typedef", "array"}
Asserting == {"parm", "qualified"}
Referring == {"pointer", "typedef", "qualified", "member", "variable"}
Guarded == {"class", "typedef", "qualified", "array"}
Terse == {"function", "qualified"}

ASSUME MethodAssumption ==
    \A a \in ABI : \A s \in Subject :
      /\ MethodIn(a, s) \in Method
      /\ KindIn(a, s) = "class" <=> MethodIn(a, s) = "class"
      /\ RenamedIn(a, s) \in BOOLEAN

VARIABLES
  nextRoot,   \* the changed function or variable that comes next
  reports,    \* the calls of report() under way
  reporting,  \* the diffs whose flag currently_reporting_ is set
  reported,   \* the diffs whose flag reported_once_ is set
  printed,    \* the diffs that were printed, in order
  referredTo  \* the diffs that the report says are reported elsewhere

reportVars == <<nextRoot, reports, reporting, reported, printed, referredTo>>
allVars == <<vars, reportVars>>

MethodOf(d) == MethodIn(abi, subject[d])
IsReporting(d) == canonical[d] \in reporting
ReportedOnce(d) == canonical[d] \in reported

(* Mutant of Flagged: what the passes have visited counts as reported.      *)
FlaggedWhenVisited(d) == IsReporting(d) \/ Visited(d)

(* The diff is being reported or was reported earlier.                      *)
Flagged(d) == IsReporting(d) \/ ReportedOnce(d)

-----------------------------------------------------------------------------
(* A part of d and its place among the parts.                               *)
Place(i, c) == [at |-> i, part |-> c]

(* A class is printed in sections: its bases, its member functions, its     *)
(* data members and the rest.                                               *)
Section(d, c) ==
    LET m == MethodOf(c)
    IN IF MethodOf(d) # "class" THEN 1
       ELSE CASE m = "base" -> 1 [] m = "function" -> 2 [] m = "member" -> 3 [] OTHER -> 4

(* The part at place p of d is reported before the one at place q.          *)
Precedes(d, p, q) ==
    \/ Section(d, p.part) < Section(d, q.part)
    \/ Section(d, p.part) = Section(d, q.part) /\ p.at < q.at

(* The parts of d that the report of d goes into.                           *)
Listed(d) ==
    LET places == {Place(i, Parts(d)[i]) : i \in DOMAIN Parts(d)}
    IN IF RenamedIn(abi, subject[d]) /\ MethodOf(d) \in Terse THEN {}
       ELSE {p \in places : MethodOf(d) \in Selective => ToBeReported(p.part)}

ListedParts(d) == {p.part : p \in Listed(d)}

(* A call of report() on d: not begun, or with the parts left to go into.   *)
Report(d, at, left) == [d |-> d, at |-> at, left |-> left]

NewReport(d) == Report(d, "begin", {})
Page == reports[Len(reports)]
OuterPages == SubSeq(reports, 1, Len(reports) - 1)
OnPage(r) == [reports EXCEPT ![Len(reports)] = r]

Reporting == Done /\ Idle

(* corpus_diff::report(): the changed functions, then the variables.        *)
ReportRoot ==
    /\ Reporting /\ reports = <<>> /\ nextRoot <= Len(roots)
    /\ nextRoot' = nextRoot + 1
    /\ reports' = IF ToBeReported(roots[nextRoot]) THEN <<NewReport(roots[nextRoot])>> ELSE <<>>
    /\ UNCHANGED <<vars, reporting, reported, printed, referredTo>>

Begins == Reporting /\ reports # <<>> /\ Page.at = "begin"

(* The type of a variable is only compared now if nothing has walked there. *)
ReportAsksType ==
    /\ Begins
    /\ AskType(Page.d)
    /\ UNCHANGED <<walkVars, reportVars>>

(* if (!to_be_reported()) return;                                           *)
SkipReport ==
    /\ Begins
    /\ ~AwaitsType(Page.d)
    /\ ~ToBeReported(Page.d)
    /\ reports' = OuterPages
    /\ UNCHANGED <<vars, nextRoot, reporting, reported, printed, referredTo>>

(* RETURN_IF_BEING_REPORTED_OR_WAS_REPORTED_EARLIER on the diff itself.     *)
ReferToItself ==
    /\ Begins
    /\ ~AwaitsType(Page.d)
    /\ ToBeReported(Page.d)
    /\ MethodOf(Page.d) \in Guarded /\ Flagged(Page.d)
    /\ reports' = OuterPages
    /\ referredTo' = referredTo \cup {Page.d}
    /\ UNCHANGED <<vars, nextRoot, reporting, reported, printed>>

(* The diff's own changes are printed; a class says so on its canonical     *)
(* diff.                                                                    *)
OpenReport ==
    /\ Begins
    /\ ~AwaitsType(Page.d)
    /\ ToBeReported(Page.d)
    /\ ~(MethodOf(Page.d) \in Guarded /\ Flagged(Page.d))
    /\ reports' = OnPage(Report(Page.d, "open", Listed(Page.d)))
    /\ reporting' = IF MethodOf(Page.d) = "class"
                    THEN reporting \cup {Page.d, canonical[Page.d]} ELSE reporting
    /\ printed' = Append(printed, Page.d)
    /\ UNCHANGED <<vars, nextRoot, reported, referredTo>>

(* The report is at the part of place p.                                    *)
AtPart(p) ==
    /\ Reporting /\ reports # <<>> /\ Page.at = "open"
    /\ p \in Page.left
    /\ \A q \in Page.left \ {p} : Precedes(Page.d, p, q)

PastPart(p) == Report(Page.d, "open", Page.left \ {p})

(* Mutant of ReferToPart: does not go on with the next part.                *)
ReferToPartForever(p) ==
    /\ AtPart(p)
    /\ MethodOf(Page.d) \in Referring /\ Flagged(p.part)
    /\ referredTo' = referredTo \cup {p.part}
    /\ UNCHANGED <<vars, nextRoot, reports, reporting, reported, printed>>

(* RETURN_IF_BEING_REPORTED_OR_WAS_REPORTED_EARLIER2 on a part, and the     *)
(* like of it for data members.                                             *)
ReferToPart(p) ==
    /\ AtPart(p)
    /\ MethodOf(Page.d) \in Referring /\ Flagged(p.part)
    /\ reports' = OnPage(PastPart(p))
    /\ referredTo' = referredTo \cup {p.part}
    /\ UNCHANGED <<vars, nextRoot, reporting, reported, printed>>

ReportPart(p) ==
    /\ AtPart(p)
    /\ ~(MethodOf(Page.d) \in Referring /\ Flagged(p.part))
    /\ reports' = Append(OnPage(PastPart(p)), NewReport(p.part))
    /\ UNCHANGED <<vars, nextRoot, reporting, reported, printed, referredTo>>

AtEnd == Reporting /\ reports # <<>> /\ Page.at = "open" /\ Page.left = {}

(* Mutant of CloseReport: the class is still being reported.                *)
CloseReportStillReporting ==
    /\ AtEnd
    /\ reports' = OuterPages
    /\ IF MethodOf(Page.d) = "class"
       THEN reported' = reported \cup {Page.d, canonical[Page.d]}
       ELSE UNCHANGED reported
    /\ UNCHANGED <<vars, nextRoot, reporting, printed, referredTo>>

CloseReport ==
    /\ AtEnd
    /\ reports' = OuterPages
    /\ IF MethodOf(Page.d) = "class"
       THEN /\ reporting' = reporting \ {Page.d, canonical[Page.d]}
            /\ reported' = reported \cup {Page.d, canonical[Page.d]}
       ELSE UNCHANGED <<reporting, reported>>
    /\ UNCHANGED <<vars, nextRoot, printed, referredTo>>

-----------------------------------------------------------------------------
ReportInit ==
    /\ Init
    /\ nextRoot = 1
    /\ reports = <<>>
    /\ reporting = {} /\ reported = {}
    /\ printed = <<>> /\ referredTo = {}

WriteReport ==
    \/ ReportRoot
    \/ ReportAsksType
    \/ SkipReport
    \/ ReferToItself
    \/ OpenReport
    \/ reports # <<>> /\ \E p \in Page.left : ReferToPart(p) \/ ReportPart(p)
    \/ CloseReport

Categorize == Next /\ UNCHANGED reportVars

ReportNext == Categorize \/ WriteReport

ReportSpec == ReportInit /\ [][ReportNext]_allVars /\ WF_allVars(ReportNext)

-----------------------------------------------------------------------------
ReportTypeOK ==
    /\ nextRoot \in 1 .. Len(roots) + 1
    /\ reports \in Seq([d : Diff, at : {"begin", "open"}, left : SUBSET [at : Nat, part : Diff]])
    /\ reporting \subseteq Diff /\ reported \subseteq Diff
    /\ printed \in Seq(Diff)
    /\ referredTo \subseteq Diff

ReportDone == Reporting /\ reports = <<>> /\ nextRoot > Len(roots)

(* Once the report has begun the categories do not change any more: what    *)
(* they have to be is looked at when it begins.                             *)
Begun == nextRoot > 1

(* The categories are those of the changes below a diff, what is shown is   *)
(* there for a reason, and a change of an allowed category is counted for   *)
(* the exit status.  What a suppression specification matches is not shown, *)
(* and it does not spread to what it does not match.                        *)
PassesAreRight ==
    Begun \/ /\ CategoriesComeFromBelow /\ OnlyAllowedShown /\ ExitStatusTellsChange
             /\ SuppressedForAReason /\ SuppressedNotShown

(* What a report without the two flags would print, if it came to an end.   *)
ToBePrinted ==
    LET closure[D \in SUBSET Diff] ==
          LET more == D \cup {c \in UNION {ListedParts(d) : d \in D} : ToBeReported(c)}
          IN IF more = D THEN D ELSE closure[more]
    IN closure[{d \in Members(roots) : ToBeReported(d)}]

(* "details are being reported", "details were reported earlier": whatever  *)
(* the flags cut out of one place of the report is printed in another, so   *)
(* the report prints no less than it would without them.                    *)
NothingCutOut ==
    ReportDone =>
      /\ {subject[d] : d \in ToBePrinted} = {subject[d] : d \in Members(printed)}
      /\ {subject[d] : d \in referredTo} \subseteq {subject[d] : d \in Members(printed)}

(* Every change whose own category is allowed, and that the user did not    *)
(* suppress wherever it occurs, is printed: neither the filters nor the     *)
(* redundancy pass nor the flags of the report hide its only occurrence.    *)
EveryChangePrinted ==
    ReportDone =>
      \A s \in Unsuppressed(Members(RootsIn(abi))) :
        LocalIn(abi, s) /\ (Allowed = Category \/ OwnIn(abi, s) \cap Allowed # {})
          => \E d \in Members(printed) : subject[d] = s

(* The details of a class are printed in one place only, and a class that   *)
(* is being reported is one whose report() has not returned, although each  *)
(* mention of a class has its own diff.                                     *)
DetailsOnce ==
    /\ ReportTypeOK
    /\ \A i, j \in DOMAIN printed :
         /\ i # j /\ MethodOf(printed[i]) = "class"
         => canonical[printed[i]] # canonical[printed[j]]
    /\ reporting = UNION {{reports[i].d, canonical[reports[i].d]} :
                            i \in {j \in DOMAIN reports : /\ reports[j].at = "open"
                                                          /\ MethodOf(reports[j].d) = "class"}}

(* assert(get_type_diff() && get_type_diff()->to_be_reported()): a          *)
(* parameter, or a qualified type, is not left to be reported when its type *)
(* is filtered out.                                                         *)
AssertionsHold ==
    \A i \in DOMAIN reports :
      LET d == reports[i].d
      IN reports[i].at = "open" /\ MethodOf(d) \in Asserting
         => \A c \in ListedParts(d) : ToBeReported(c)

(* The report ends, whatever cycles the types have.                         *)
ReportEnds == <>ReportDone
===============================================================================
