----------------------------- MODULE EditScript -----------------------------
(***************************************************************************)
(* diff_utils::compute_diff of include/abg-diff-utils.h: the linear space  *)
(* variant of Myers' algorithm that every comparison of two sequences of   *)
(* libabigail goes through (functions, variables and symbols of a corpus,  *)
(* members of a class, parameters of a function, enumerators...).          *)
(*                                                                         *)
(* A call looks at a region of each sequence.  It searches the middle      *)
(* snake of the region, by extending furthest reaching paths from both of  *)
(* its corners by turns, and then calls itself for what is before the      *)
(* snake and for what is after it.  A point <<x, y>> of the edit graph is  *)
(* what the code has: the indexes of the last elements consumed, so that   *)
(* the graph starts at <<-1, -1>>.                                         *)
(***************************************************************************)
EXTENDS EditGraph

CONSTANTS MaxA, MaxB     \* bounds of the sizes of the sequences

ASSUME SizesAssumption == MaxA \in Nat /\ MaxB \in Nat

VARIABLES
  aSize, bSize, match,   \* the input, see EditGraph
  calls,                 \* the running calls of compute_diff, innermost first
  search,                \* compute_middle_snake of the innermost call
  script,                \* the script so far
  lcs                    \* the points of the longest common subsequence so far

vars == <<aSize, bSize, match, calls, search, script, lcs>>
-----------------------------------------------------------------------------
(* Regions, snakes, searches *)

\* a_begin - a_base, a_end - a_base, b_begin - b_base, b_end - b_base
Region(a, aEnd, b, bEnd) == [a |-> a, aEnd |-> aEnd, b |-> b, bEnd |-> bEnd]

N(r) == r.aEnd - r.a
M(r) == r.bEnd - r.b
Delta(r) == N(r) - M(r)
EqualAt(r, x, y) == <<r.a + x, r.b + y>> \in match

\* Indexes of a d_path_vec.
Diagonals(r) == LET gap == Max({Delta(r), -Delta(r)}) IN
                -(N(r) + M(r) + gap) .. 3 * (N(r) + M(r)) - gap + 2

NoPoint == <<>>

\* Mutant of Overlap: the ends have to pass each other.
OverlapStrictly(forwardEnd, reverseEnd) == forwardEnd[1] > reverseEnd[1]

\* ends_of_furthest_d_paths_overlap; the points are on the same diagonal
Overlap(forwardEnd, reverseEnd) == forwardEnd[1] >= reverseEnd[1]

\* The number of diagonal edges from <<x, y>> on, forwards and backwards.
RunAhead(r, x, y) ==
  CHOOSE e \in 0 .. N(r) : /\ \A i \in 1 .. e : /\ x + i < N(r) /\ y + i < M(r)
                                                /\ EqualAt(r, x + i, y + i)
                           /\ ~(x + e + 1 < N(r) /\ y + e + 1 < M(r)
                                /\ EqualAt(r, x + e + 1, y + e + 1))

RunBack(r, x, y) ==
  CHOOSE e \in 0 .. N(r) : /\ \A i \in 0 .. e - 1 : /\ x - i >= 0 /\ y - i >= 0
                                                    /\ EqualAt(r, x - i, y - i)
                           /\ ~(x - e >= 0 /\ y - e >= 0 /\ EqualAt(r, x - e, y - e))

\* Mutant of SnakeAhead: of two paths that got equally far, the one from above.
SnakeAheadFromAbove(r, v, d, k) ==
  LET down == k = -d \/ (k # d /\ v[k - 1] <= v[k + 1])
      begin == IF down THEN <<v[k + 1], v[k + 1] - (k + 1)>>
                       ELSE <<v[k - 1], v[k - 1] - (k - 1)>>
      x == IF down THEN begin[1] ELSE begin[1] + 1
      run == RunAhead(r, x, x - k)
  IN  [begin |-> begin, middle |-> <<x, x - k>>, end |-> <<x + run, x - k + run>>,
       diagonal |-> IF run = 0 THEN NoPoint ELSE <<x + 1, x - k + 1>>, forward |-> TRUE]

\* end_of_fr_d_path_in_k
SnakeAhead(r, v, d, k) ==
  LET down == k = -d \/ (k # d /\ v[k - 1] < v[k + 1])
      begin == IF down THEN <<v[k + 1], v[k + 1] - (k + 1)>>
                       ELSE <<v[k - 1], v[k - 1] - (k - 1)>>
      x == IF down THEN begin[1] ELSE begin[1] + 1
      run == RunAhead(r, x, x - k)
  IN  [begin |-> begin, middle |-> <<x, x - k>>, end |-> <<x + run, x - k + run>>,
       diagonal |-> IF run = 0 THEN NoPoint ELSE <<x + 1, x - k + 1>>, forward |-> TRUE]

\* end_of_frr_d_path_in_k_plus_delta, for the diagonal k (plus delta)
SnakeBack(r, v, d, k) ==
  LET left == k = -d + Delta(r) \/ (k # d + Delta(r) /\ v[k + 1] <= v[k - 1])
      begin == IF left THEN <<v[k + 1], v[k + 1] - (k + 1)>>
                       ELSE <<v[k - 1], v[k - 1] - (k - 1)>>
      x == IF left THEN begin[1] - 1 ELSE begin[1]
      run == RunBack(r, x, x - k)
  IN  [begin |-> begin, middle |-> <<x, x - k>>, end |-> <<x - run, x - k - run>>,
       diagonal |-> IF run = 0 THEN NoPoint ELSE <<x, x - k>>, forward |-> FALSE]

\* What the two return: whether the end of the snake is in the edit graph.
InGraph(r, snake) ==
  LET x == snake.end[1]
      y == snake.end[2]
  IN  /\ x >= -1 /\ y >= -1
      /\ snake.forward => x < N(r) /\ y < M(r)

\* snake::add: from the coordinates of a region to those of the sequences
Shifted(r, snake) ==
  LET by(p) == IF p = NoPoint THEN NoPoint ELSE <<p[1] + r.a, p[2] + r.b>> IN
  [snake EXCEPT !.begin = by(@), !.middle = by(@), !.end = by(@), !.diagonal = by(@)]

\* snake_end_points
SnakeStart(snake) == IF snake.forward THEN snake.middle ELSE snake.end
SnakeEnd(snake) == IF snake.forward THEN snake.end ELSE snake.middle

\* The trace compute_diff makes of a snake: from where its diagonal was first
\* met up to its end.
Trace(snake) ==
  IF snake.diagonal = NoPoint
  THEN <<>>
  ELSE [i \in 1 .. Max({0, snake.end[1] - snake.diagonal[1] + 1}) |->
          <<snake.diagonal[1] + i - 1, snake.diagonal[2] + i - 1>>]
-----------------------------------------------------------------------------
(* Calls *)

NoSnake == [begin |-> NoPoint, middle |-> NoPoint, end |-> NoPoint,
            diagonal |-> NoPoint, forward |-> TRUE]

\* from: the length of the script when the call began.
Call(r) == [region |-> r, from |-> ScriptLength(script), at |-> "begin",
            snake |-> NoSnake, length |-> 0]

Current == Head(calls)
Here == Current.region

At(place) == calls # <<>> /\ Current.at = place

Return == calls' = Tail(calls)
GoOn(place) == calls' = <<[Current EXCEPT !.at = place]>> \o Tail(calls)
CallFrom(place, r) == calls' = <<Call(r), [Current EXCEPT !.at = place]>> \o Tail(calls)

\* compute_middle_snake before its first step
NewSearch(r) ==
  [d |-> 0, k |-> 0, ahead |-> TRUE,
   forward |-> [[k \in Diagonals(r) |-> 0] EXCEPT ![1] = -1],
   reverse |-> [[k \in Diagonals(r) |-> 0] EXCEPT ![Delta(r) + 1] = N(r)]]

NoSearch == NewSearch(Region(0, 0, 0, 0))

DMax(r) == (N(r) + M(r)) \div 2 + 1

\* Mutant of NextDiagonal: the number of edits stays.
NextDiagonalOfSameD(s) ==
  IF s.k + 2 <= s.d THEN [s EXCEPT !.k = s.k + 2]
  ELSE IF s.ahead THEN [s EXCEPT !.k = -s.d, !.ahead = FALSE]
  ELSE [s EXCEPT !.k = -s.d, !.ahead = TRUE]

\* The next diagonal, in steps of two; after the last one the reverse paths;
\* after those the paths with one more edit.
NextDiagonal(s) ==
  IF s.k + 2 <= s.d THEN [s EXCEPT !.k = s.k + 2]
  ELSE IF s.ahead THEN [s EXCEPT !.k = -s.d, !.ahead = FALSE]
  ELSE [s EXCEPT !.d = s.d + 1, !.k = -(s.d + 1), !.ahead = TRUE]

\* The search is over.  compute_diff goes on with the coordinates of the whole
\* sequences.
Found(snake, length) ==
  /\ search' = NoSearch
  /\ calls' = <<[Current EXCEPT !.at = "found", !.snake = Shifted(Here, snake),
                              !.length = length]>> \o Tail(calls)

Delete(es, first, end) ==
  [es EXCEPT !.deletions = @ \o [i \in 1 .. end - first |-> first + i - 1]]
Insert(es, point, first, end) ==
  [es EXCEPT !.insertions = Append(@, [point |-> point,
                                       inserted |-> [i \in 1 .. end - first |-> first + i - 1]])]
-----------------------------------------------------------------------------
(* Actions *)

Init ==
  /\ aSize \in 0 .. MaxA
  /\ bSize \in 0 .. MaxB
  /\ match \in SUBSET (Indexes(aSize) \X Indexes(bSize))
  /\ search = NoSearch
  /\ script = EmptyScript
  /\ lcs = <<>>
  /\ calls = <<[region |-> Region(0, aSize, 0, bSize), from |-> 0, at |-> "begin",
                snake |-> NoSnake, length |-> 0]>>

\* One of the regions is empty: all of the other is deleted or inserted.
OneSided ==
  /\ At("begin")
  /\ N(Here) = 0 \/ M(Here) = 0
  /\ LET deleted == Delete(script, Here.a, Here.aEnd) IN
     script' = IF M(Here) > 0
               THEN Insert(deleted, Here.aEnd - 1, Here.b, Here.bEnd)
               ELSE deleted
  /\ Return
  /\ UNCHANGED <<aSize, bSize, match, search, lcs>>

StartSearch ==
  /\ At("begin")
  /\ N(Here) > 0 /\ M(Here) > 0
  /\ search' = NewSearch(Here)
  /\ GoOn("search")
  /\ UNCHANGED <<aSize, bSize, match, script, lcs>>

\* One more diagonal for the forward paths; overlap is looked for when the
\* difference of the sizes is odd.
ExtendAhead ==
  /\ At("search") /\ search.ahead /\ search.d <= DMax(Here)
  /\ LET d == search.d
         k == search.k
         snake == SnakeAhead(Here, search.forward, d, k)
     IN  IF /\ InGraph(Here, snake)
            /\ Delta(Here) % 2 # 0
            /\ k \in Delta(Here) - (d - 1) .. Delta(Here) + (d - 1)
            /\ Overlap(snake.end, <<search.reverse[k], search.reverse[k] - k>>)
         THEN Found(snake, 2 * d - 1)
         ELSE /\ search' = NextDiagonal([search EXCEPT !.forward[k] = snake.end[1]])
              /\ UNCHANGED calls
  /\ UNCHANGED <<aSize, bSize, match, script, lcs>>

\* One more diagonal for the reverse paths; overlap is looked for when the
\* difference of the sizes is even.
ExtendBack ==
  /\ At("search") /\ ~search.ahead /\ search.d <= DMax(Here)
  /\ LET d == search.d
         k == search.k + Delta(Here)
         snake == SnakeBack(Here, search.reverse, d, k)
     IN  IF /\ InGraph(Here, snake)
            /\ Delta(Here) % 2 = 0
            /\ k \in -d .. d
            /\ Overlap(<<search.forward[k], search.forward[k] - k>>, snake.end)
         THEN Found(snake, 2 * d)
         ELSE /\ search' = NextDiagonal([search EXCEPT !.reverse[k] = snake.end[1]])
              /\ UNCHANGED calls
  /\ UNCHANGED <<aSize, bSize, match, script, lcs>>

\* No edit at all: the region is its own longest common subsequence.
NoEdit ==
  /\ At("found") /\ Current.length = 0
  /\ lcs' = lcs \o Trace(Current.snake)
  /\ Return
  /\ UNCHANGED <<aSize, bSize, match, search, script>>

\* Mutant of OneEdit: the element is inserted after the place it has in the second
\* sequence.
OneEditElsewhere ==
  /\ At("found") /\ Current.length = 1
  /\ LET begin == Current.snake.begin
         middle == Current.snake.middle
     IN  script' = IF begin[1] = middle[1]
                   THEN Insert(script, middle[2], middle[2], middle[2] + 1)
                   ELSE LET x == IF Current.snake.forward THEN middle[1] ELSE begin[1] IN
                        Delete(script, x, x + 1)
  /\ Return
  /\ UNCHANGED <<aSize, bSize, match, search, lcs>>

\* A single edit, which the snake begins with.
OneEdit ==
  /\ At("found") /\ Current.length = 1
  /\ LET begin == Current.snake.begin
         middle == Current.snake.middle
     IN  script' = IF begin[1] = middle[1]
                   THEN Insert(script, middle[1], middle[2], middle[2] + 1)
                   ELSE LET x == IF Current.snake.forward THEN middle[1] ELSE begin[1] IN
                        Delete(script, x, x + 1)
  /\ Return
  /\ UNCHANGED <<aSize, bSize, match, search, lcs>>

\* More edits: those before the snake first ...
Before ==
  /\ At("found") /\ Current.length > 1
  /\ LET p == SnakeStart(Current.snake) IN
     CallFrom("before", Region(Here.a, p[1] + 1, Here.b, p[2] + 1))
  /\ UNCHANGED <<aSize, bSize, match, search, script, lcs>>

\* ... then the snake, then those after it.
After ==
  /\ At("before")
  /\ lcs' = lcs \o Trace(Current.snake)
  /\ LET p == SnakeEnd(Current.snake) IN
     CallFrom("after", Region(p[1] + 1, Here.aEnd, p[2] + 1, Here.bEnd))
  /\ UNCHANGED <<aSize, bSize, match, search, script>>

Joined ==
  /\ At("after")
  /\ Return
  /\ UNCHANGED <<aSize, bSize, match, search, script, lcs>>

Next ==
  \/ OneSided \/ StartSearch \/ ExtendAhead \/ ExtendBack
  \/ NoEdit \/ OneEdit \/ Before \/ After \/ Joined

Spec == Init /\ [][Next]_vars /\ WF_vars(Next)
-----------------------------------------------------------------------------
(* Properties *)

Points == {NoPoint} \cup (Int \X Int)
Regions == [a : Nat, aEnd : Nat, b : Nat, bEnd : Nat]
Snakes == [begin : Points, middle : Points, end : Points, diagonal : Points,
           forward : BOOLEAN]
Places == {"begin", "search", "found", "before", "after"}

\* The regions are within the sequences and the innermost call's within those
\* of its callers; the search is that of the innermost call.
TypeOK ==
  /\ aSize \in 0 .. MaxA /\ bSize \in 0 .. MaxB
  /\ match \subseteq Indexes(aSize) \X Indexes(bSize)
  /\ script \in Scripts
  /\ lcs \in Seq(Points)
  /\ calls \in Seq([region : Regions, from : Nat, at : Places, snake : Snakes,
                    length : Nat])
  /\ \A i \in DOMAIN calls :
       LET r == calls[i].region
           outer == IF i = Len(calls) THEN Region(0, aSize, 0, bSize)
                                      ELSE calls[i + 1].region
       IN  /\ r.a \in outer.a .. r.aEnd /\ r.aEnd <= outer.aEnd
           /\ r.b \in outer.b .. r.bEnd /\ r.bEnd <= outer.bEnd
           /\ i > 1 => calls[i].at \in {"before", "after"}
  /\ search.forward \in [Diagonals(IF At("search") THEN Here ELSE Region(0, 0, 0, 0)) -> Int]
  /\ search.reverse \in [DOMAIN search.forward -> Int]

\* The search needs no more edits than the code tries (the branch "So there is
\* no middle snake" is never taken).
MiddleSnakeFound == At("search") => search.d <= DMax(Here)

\* The elements of a region that match, counted from one of its corners.
FromStart(r) == {p \in Indexes(N(r)) \X Indexes(M(r)) : EqualAt(r, p[1], p[2])}
FromEnd(r) == {p \in Indexes(N(r)) \X Indexes(M(r)) :
                 EqualAt(r, N(r) - 1 - p[1], M(r) - 1 - p[2])}

\* The edits it takes to consume x and y elements from a corner, where pairs
\* match; beyond the end of the sequences nothing does.
EditsTo(pairs, r, x, y) ==
  x + y - 2 * Lcs(pairs, Min({x, N(r)}), M(r))[Min({y, M(r)})]

\* The furthest one gets from a corner with d edits on the diagonal where k more
\* of the first sequence than of the second has been consumed.
Furthest(pairs, r, d, k) ==
  Max({x \in Max({0, k}) .. N(r) + d : EditsTo(pairs, r, x, x - k) <= d})

\* When all diagonals of a turn have been extended, the vectors hold furthest
\* reaching paths, from either corner (lemma 2 of the paper the code follows).
PathsReachFurthest ==
  (At("search") /\ search.k = -search.d) =>
    LET r == Here
        done == IF search.ahead THEN search.d - 1 ELSE search.d
    IN  /\ \A k \in {k \in -done .. done : (k + done) % 2 = 0} :
             search.forward[k] = Furthest(FromStart(r), r, done, k) - 1
        /\ \A k \in {k \in -(search.d - 1) .. search.d - 1 : (k + search.d - 1) % 2 = 0} :
             search.reverse[k + Delta(r)]
               = N(r) - 1 - Furthest(FromEnd(r), r, search.d - 1, -k)

\* compute_diff computes the length of the script "in two redundant ways and
\* ensures that both methods lead to the same result": from the middle snake,
\* and by counting what the calls for the two halves added.
LengthsAgree ==
  At("after") => ScriptLength(script) - Current.from = Current.length

\* What a caller gets is a shortest script that edits the first sequence into
\* the second, all at once when the outermost call returns.
Caller == INSTANCE ShortestScript WITH
            answered <- calls = <<>>,
            script <- IF calls = <<>> THEN script ELSE EmptyScript

GivesShortestScript == Caller!Spec

\* compute_diff ends.
Ends == <>(calls = <<>>)

\* The points in compute_diff's lcs are elements that match, in the order of both
\* sequences, that the script neither deletes nor inserts.  (They need not be all
\* of a longest common subsequence, whatever the documentation of lcs says.)
LcsIsKept ==
  /\ ToSet(lcs) \subseteq match
  /\ \A i, j \in DOMAIN lcs : i < j => lcs[i][1] < lcs[j][1] /\ lcs[i][2] < lcs[j][2]
  /\ ToSet(script.deletions) \cap {p[1] : p \in ToSet(lcs)} = {}
  /\ ToSet(InsertedIndexes(script)) \cap {p[2] : p \in ToSet(lcs)} = {}
\* The search finds what it looks for: the middle snake, in time, from vectors that
\* hold furthest reaching paths.
SearchIsRight == TypeOK /\ MiddleSnakeFound /\ PathsReachFurthest

\* The two halves of a region fit together: their lengths add up, and what is kept
\* of the one does not interfere with the other.
HalvesFit == LengthsAgree /\ LcsIsKept
=============================================================================
