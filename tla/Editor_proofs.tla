---------------------------- MODULE Editor_proofs ----------------------------
(* For any text, any keys and any files: the cursor stands on a boundary of a *)
(* row that is there, and a text that does not count as modified is saved.    *)
EXTENDS Editor, TLAPS, SequenceTheorems, FiniteSetTheorems, WellFoundedInduction

Row == Seq(Units)

TextInv == rows \in Seq(Row) /\ CursorOnBoundary

----------------------------------------------------------------------------
(* Boundaries *)

\* A set of numbers has a smallest one (< on Nat is well founded) ...
LEMMA LeastExists ==
  ASSUME NEW S \in SUBSET Nat, S # {}
  PROVE  \E i \in S : \A j \in S : i <= j
<1>1. PICK x \in S : \A y \in S : ~(<<y, x>> \in OpToRel(<, Nat))
  BY NatLessThanWellFounded, WFMin, Zenon
<1>2. \A y \in S : ~(y < x)
  BY <1>1, Zenon DEF OpToRel
<1> QED BY <1>2

\* ... and, if it is bounded, a largest one.
LEMMA GreatestExists ==
  ASSUME NEW n \in Nat, NEW S \in SUBSET (0 .. n), S # {}
  PROVE  \E i \in S : \A j \in S : j <= i
<1> DEFINE T == {n - j : j \in S}
<1>1. T \in SUBSET Nat /\ T # {}
  <2>1. \A j \in S : n - j \in Nat
    OBVIOUS
  <2> QED BY <2>1
<1>2. PICK k \in T : \A j \in T : k <= j
  BY <1>1, LeastExists
<1>3. PICK i \in S : k = n - i
  BY <1>2
<1>4. ASSUME NEW j \in S PROVE j <= i
  BY <1>2, <1>3
<1> QED BY <1>4

LEMMA BoundaryRange ==
  ASSUME NEW r \in Row
  PROVE  /\ Len(r) \in Nat /\ Boundaries(r) \subseteq 0 .. Len(r)
         /\ 0 \in Boundaries(r) /\ Len(r) \in Boundaries(r)
  BY LenProperties DEF Row, Boundaries

\* next(n) stays on boundaries: among n or more boundaries there is an n-th.
LEMMA ForwardOnBoundary ==
  ASSUME NEW r \in Row, NEW p \in Boundaries(r), NEW n \in Nat
  PROVE  Forward(r, p, n) \in Boundaries(r)
<1> DEFINE after == {b \in Boundaries(r) : b > p}
           upto(b) == {c \in after : c <= b}
<1>1. /\ Len(r) \in Nat /\ after \subseteq 0 .. Len(r) /\ after \subseteq Boundaries(r)
      /\ Len(r) \in Boundaries(r)
  BY BoundaryRange
<1>2. IsFiniteSet(after) /\ \A T \in SUBSET after : IsFiniteSet(T) /\ Cardinality(T) \in Nat
  <2>1. IsFiniteSet(0 .. Len(r))
    BY <1>1, FS_Interval
  <2>2. IsFiniteSet(after)
    BY <1>1, <2>1, FS_Subset
  <2> HIDE DEF after
  <2> QED BY <2>2, FS_Subset, FS_CardinalityType
<1>3. CASE n = 0
  BY <1>3 DEF Forward
<1>4. CASE n # 0 /\ Cardinality(after) < n
  BY <1>1, <1>4 DEF Forward
<1>5. CASE n # 0 /\ ~(Cardinality(after) < n)
  <2> DEFINE S == {b \in after : Cardinality(upto(b)) >= n}
  <2>1. after # {}
    BY <1>5, FS_EmptySet
  <2>2. PICK e \in after : \A j \in after : j <= e
    BY <1>1, <2>1, GreatestExists
  <2>3. upto(e) = after
    BY <2>2
  <2>4. e \in S /\ S \in SUBSET Nat
    BY <1>1, <1>2, <1>5, <2>2, <2>3
  <2>5. PICK b \in S : \A j \in S : b <= j
    BY <2>4, LeastExists
  <2>6. upto(b) \in SUBSET after /\ b \in upto(b) /\ Cardinality(upto(b)) \in Nat
    BY <1>1, <1>2, <2>5
  <2>7. ASSUME Cardinality(upto(b)) # n PROVE FALSE
    <3> DEFINE B == upto(b) \ {b}
    <3>1. IsFiniteSet(B) /\ Cardinality(B) = Cardinality(upto(b)) - 1
      BY <1>2, <2>6, FS_RemoveElement
    <3>2. Cardinality(B) >= n
      BY <2>5, <2>6, <2>7, <3>1
    <3>3. B # {}
      BY <1>5, <3>2, FS_EmptySet
    <3>4. B \in SUBSET (0 .. Len(r))
      BY <1>1
    <3>5. PICK d \in B : \A j \in B : j <= d
      BY <1>1, <3>3, <3>4, GreatestExists
    <3>6. d \in after /\ d < b /\ upto(d) = B
      BY <1>1, <2>5, <3>5
    <3>7. d \in S
      BY <3>2, <3>6
    <3> QED BY <1>1, <2>5, <3>6, <3>7
  <2>8. \E c \in after : Cardinality(upto(c)) = n
    BY <2>5, <2>7
  <2>9. Forward(r, p, n) = CHOOSE c \in after : Cardinality(upto(c)) = n
    BY <1>5 DEF Forward
  <2>10. Forward(r, p, n) \in after
    BY <2>8, <2>9
  <2> QED BY <1>1, <2>10
<1> QED BY <1>3, <1>4, <1>5

\* previous() stays on boundaries and goes back.
LEMMA BackwardOnBoundary ==
  ASSUME NEW r \in Row, NEW p \in Boundaries(r), p # 0
  PROVE  Backward(r, p) \in Boundaries(r) /\ Backward(r, p) < p
<1> DEFINE before == {b \in Boundaries(r) : b < p}
<1>1. /\ Len(r) \in Nat /\ before \in SUBSET (0 .. Len(r)) /\ 0 \in before
      /\ p \in 0 .. Len(r)
  BY BoundaryRange
<1>2. \E i \in before : \A j \in before : j <= i
  BY <1>1, GreatestExists
<1>3. \E i \in before : \A j \in before : i >= j
  BY <1>1, <1>2
<1>4. Max(before) \in before
  BY <1>3 DEF Max
<1> QED BY <1>4 DEF Backward

LEMMA PointsType ==
  ASSUME NEW t \in Row
  PROVE  Points(t) \in Nat
<1>1. IsFiniteSet(DOMAIN t)
  BY LenProperties, FS_Interval DEF Row
<1> QED BY <1>1, FS_Subset, FS_CardinalityType DEF Points

----------------------------------------------------------------------------
(* Rows *)

LEMMA PartsType ==
  ASSUME NEW S, NEW s \in Seq(S), NEW i \in 0 .. Len(s)
  PROVE  /\ SubSeq(s, 1, i) \in Seq(S) /\ Len(SubSeq(s, 1, i)) = i
         /\ SubSeq(s, i + 1, Len(s)) \in Seq(S)
         /\ Len(SubSeq(s, i + 1, Len(s))) = Len(s) - i
<1>1. Len(s) \in Nat /\ i \in Nat /\ \A j \in 1 .. Len(s) : s[j] \in S
  BY LenProperties, ElementOfSeq
<1>2. (\A j \in 1 .. i : s[j] \in S) /\ (\A j \in i + 1 .. Len(s) : s[j] \in S)
  BY <1>1
<1>3. SubSeq(s, 1, i) \in Seq(S) /\ Len(SubSeq(s, 1, i)) = i
  BY <1>1, <1>2, SubSeqProperties
<1>4. /\ SubSeq(s, i + 1, Len(s)) \in Seq(S)
      /\ Len(SubSeq(s, i + 1, Len(s))) = Len(s) - i
  BY <1>1, <1>2, SubSeqProperties
<1> QED BY <1>3, <1>4

LEMMA ConcatType ==
  ASSUME NEW S, NEW s \in Seq(S), NEW t \in Seq(S)
  PROVE  s \o t \in Seq(S) /\ Len(s \o t) = Len(s) + Len(t)
  BY ConcatProperties

LEMMA RowType ==
  ASSUME rows \in Seq(Row), NEW i \in 1 .. Len(rows)
  PROVE  rows[i] \in Row /\ Len(rows[i]) \in Nat
  BY ElementOfSeq, LenProperties DEF Row

LEMMA WithoutType ==
  ASSUME rows \in Seq(Row), NEW i \in 1 .. Len(rows),
         NEW from \in 0 .. Len(rows[i]), NEW to \in 0 .. Len(rows[i])
  PROVE  Without(i, from, to) \in Seq(Row) /\ Len(Without(i, from, to)) = Len(rows)
<1> DEFINE r == SubSeq(rows[i], 1, from) \o SubSeq(rows[i], to + 1, Len(rows[i]))
<1>1. r \in Row
  BY RowType, PartsType, ConcatProperties DEF Row
<1>2. Without(i, from, to) = [rows EXCEPT ![i] = r]
  BY DEF Without
<1> HIDE DEF r
<1> QED BY <1>1, <1>2, ExceptSeq

LEMMA JoinType ==
  ASSUME rows \in Seq(Row), NEW i \in 1 .. Len(rows) - 1
  PROVE  Join(i) \in Seq(Row) /\ Len(Join(i)) = Len(rows) - 1
<1>1. Len(rows) \in Nat /\ i \in 1 .. Len(rows) /\ i + 1 \in 1 .. Len(rows)
  BY LenProperties
<1>2. rows[i] \o rows[i + 1] \in Row
  BY <1>1, RowType, ConcatProperties DEF Row
<1>3. /\ SubSeq(rows, 1, i) \in Seq(Row) /\ Len(SubSeq(rows, 1, i)) = i
      /\ SubSeq(rows, i + 2, Len(rows)) \in Seq(Row)
      /\ Len(SubSeq(rows, i + 2, Len(rows))) = Len(rows) - i - 1
  <2>1. i \in 0 .. Len(rows) /\ i + 1 \in 0 .. Len(rows) /\ (i + 1) + 1 = i + 2
    BY <1>1
  <2>2. SubSeq(rows, 1, i) \in Seq(Row) /\ Len(SubSeq(rows, 1, i)) = i
    BY <2>1, PartsType
  <2>3. /\ SubSeq(rows, (i + 1) + 1, Len(rows)) \in Seq(Row)
        /\ Len(SubSeq(rows, (i + 1) + 1, Len(rows))) = Len(rows) - (i + 1)
    BY <2>1, PartsType
  <2> QED BY <1>1, <2>1, <2>2, <2>3
<1>4. /\ RemoveAt(rows, i + 1) \in Seq(Row)
      /\ Len(RemoveAt(rows, i + 1)) = Len(rows) - 1
  <2>1. RemoveAt(rows, i + 1) = SubSeq(rows, 1, i) \o SubSeq(rows, i + 2, Len(rows))
    <3>1. (i + 1) - 1 = i /\ (i + 1) + 1 = i + 2
      BY <1>1
    <3> QED BY <3>1, Zenon DEF RemoveAt
  <2> DEFINE above == SubSeq(rows, 1, i)
             below == SubSeq(rows, i + 2, Len(rows))
  <2>2. /\ above \in Seq(Row) /\ below \in Seq(Row)
        /\ Len(above) = i /\ Len(below) = Len(rows) - i - 1
    BY <1>3
  <2>3. RemoveAt(rows, i + 1) = above \o below
    BY <2>1
  <2> HIDE DEF above, below
  <2>4. above \o below \in Seq(Row) /\ Len(above \o below) = Len(above) + Len(below)
    BY <2>2, ConcatType
  <2>5. Len(above) + Len(below) = Len(rows) - 1
    BY <1>1, <2>2
  <2> QED BY <2>3, <2>4, <2>5, Zenon
<1> QED BY <1>1, <1>2, <1>4, ExceptSeq DEF Join

\* refresh_row stands the cursor on a boundary of any row there is, whatever
\* it is told the column is.
LEMMA RefreshOnBoundary ==
  ASSUME NEW rs \in Seq(Row), NEW i \in 1 .. Len(rs), NEW c \in Nat, RefreshRow(rs, i, c)
  PROVE  TextInv'
<1>1. rs[i] \in Row /\ 0 \in Boundaries(rs[i])
  BY ElementOfSeq, BoundaryRange
<1> QED BY <1>1, ForwardOnBoundary DEF RefreshRow, TextInv, CursorOnBoundary

----------------------------------------------------------------------------
\* What the invariant says of the row and the column.
LEMMA AtCursor ==
  ASSUME TextInv
  PROVE  /\ rows \in Seq(Row) /\ Len(rows) \in Nat /\ row \in 1 .. Len(rows)
         /\ rows[row] \in Row /\ Len(rows[row]) \in Nat
         /\ col \in Boundaries(rows[row]) /\ col \in 0 .. Len(rows[row]) /\ col \in Nat
  BY RowType, LenProperties, BoundaryRange DEF TextInv, CursorOnBoundary

LEMMA InsertStep ==
  ASSUME TextInv, NEW t \in Texts, InsertUtf8(t)
  PROVE  TextInv'
<1> DEFINE r == SubSeq(rows[row], 1, col) \o t \o SubSeq(rows[row], col + 1, Len(rows[row]))
<1>1. t \in Row /\ Points(t) \in Nat
  BY ConstantsAssumption, PointsType DEF Row
<1>2. r \in Row
  <2>1. /\ SubSeq(rows[row], 1, col) \in Row
        /\ SubSeq(rows[row], col + 1, Len(rows[row])) \in Row
    BY AtCursor, PartsType DEF Row
  <2>2. SubSeq(rows[row], 1, col) \o t \in Row
    BY <1>1, <2>1, ConcatProperties DEF Row
  <2> QED BY <2>1, <2>2, ConcatProperties DEF Row
<1>3. RefreshRow([rows EXCEPT ![row] = r], row, col + Points(t))
  BY DEF InsertUtf8
<1> HIDE DEF r
<1>4. [rows EXCEPT ![row] = r] \in Seq(Row) /\ Len([rows EXCEPT ![row] = r]) = Len(rows)
  BY <1>2, AtCursor, ExceptSeq
<1>5. col + Points(t) \in Nat /\ row \in 1 .. Len([rows EXCEPT ![row] = r])
  BY <1>1, <1>4, AtCursor
<1> QED BY <1>3, <1>4, <1>5, RefreshOnBoundary

LEMMA AddRowStep ==
  ASSUME TextInv, AddRow
  PROVE  TextInv'
<1> DEFINE before == SubSeq(rows[row], 1, col)
           after == SubSeq(rows[row], col + 1, Len(rows[row]))
           kept == [rows EXCEPT ![row] = before]
<1>1. before \in Row /\ after \in Row
  BY AtCursor, PartsType DEF Row
<1>2. RefreshRow(InsertAt(kept, row + 1, after), row + 1, 0)
  BY DEF AddRow
<1> HIDE DEF before, after
<1>3. kept \in Seq(Row) /\ Len(kept) = Len(rows)
  BY <1>1, AtCursor, ExceptSeq
<1> HIDE DEF kept
<1>4. InsertAt(kept, row + 1, after) \in Seq(Row)
      /\ Len(InsertAt(kept, row + 1, after)) = Len(rows) + 1
  <2>1. /\ SubSeq(kept, 1, row) \in Seq(Row) /\ Len(SubSeq(kept, 1, row)) = row
        /\ SubSeq(kept, row + 1, Len(kept)) \in Seq(Row)
        /\ Len(SubSeq(kept, row + 1, Len(kept))) = Len(rows) - row
    BY <1>3, AtCursor, PartsType
  <2>2. <<after>> \in Seq(Row) /\ Len(<<after>>) = 1
    BY <1>1
  <2>3. /\ SubSeq(kept, 1, row) \o <<after>> \in Seq(Row)
        /\ Len(SubSeq(kept, 1, row) \o <<after>>) = row + 1
    BY <2>1, <2>2, ConcatProperties
  <2>4. InsertAt(kept, row + 1, after)
          = (SubSeq(kept, 1, row) \o <<after>>) \o SubSeq(kept, row + 1, Len(kept))
    <3>1. (row + 1) - 1 = row
      BY AtCursor
    <3> QED BY <3>1, Zenon DEF InsertAt
  <2> DEFINE above == SubSeq(kept, 1, row) \o <<after>>
             below == SubSeq(kept, row + 1, Len(kept))
  <2>5. /\ above \in Seq(Row) /\ below \in Seq(Row)
        /\ Len(above) = row + 1 /\ Len(below) = Len(rows) - row
        /\ InsertAt(kept, row + 1, after) = above \o below
    BY <2>1, <2>3, <2>4
  <2> HIDE DEF above, below
  <2>6. above \o below \in Seq(Row) /\ Len(above \o below) = Len(above) + Len(below)
    BY <2>5, ConcatType
  <2>7. Len(above) + Len(below) = Len(rows) + 1
    BY <2>5, AtCursor
  <2> QED BY <2>5, <2>6, <2>7, Zenon
<1> QED BY <1>2, <1>4, AtCursor, RefreshOnBoundary

LEMMA RemoveBackRowStep ==
  ASSUME TextInv, RemoveBackRow
  PROVE  TextInv'
<1> DEFINE end == Points(rows[row - 1])
<1>1. row - 1 \in 1 .. Len(rows) - 1 /\ row - 1 \in 1 .. Len(rows)
  BY AtCursor DEF RemoveBackRow
<1>2. Join(row - 1) \in Seq(Row) /\ Len(Join(row - 1)) = Len(rows) - 1
  BY <1>1, AtCursor, JoinType
<1>3. end \in Nat
  BY <1>1, AtCursor, RowType, PointsType
<1>4. RefreshRow(Join(row - 1), row - 1, end)
  BY DEF RemoveBackRow, RefreshRow
<1> QED BY <1>1, <1>2, <1>3, <1>4, AtCursor, RefreshOnBoundary

LEMMA RemoveBackStep ==
  ASSUME TextInv, RemoveBack
  PROVE  TextInv'
<1> DEFINE to == Backward(rows[row], col)
<1>1. to \in 0 .. Len(rows[row]) /\ to \in Nat
  BY AtCursor, BackwardOnBoundary, BoundaryRange DEF RemoveBack
<1>2. RefreshRow(Without(row, to, col), row, to)
  BY DEF RemoveBack
<1> HIDE DEF to
<1>3. Without(row, to, col) \in Seq(Row) /\ Len(Without(row, to, col)) = Len(rows)
  BY <1>1, AtCursor, WithoutType
<1> QED BY <1>1, <1>2, <1>3, AtCursor, RefreshOnBoundary

LEMMA RemoveFrontStep ==
  ASSUME TextInv, RemoveFront
  PROVE  TextInv'
<1>1. CASE RefreshRow(Without(row, col, Forward(rows[row], col, 1)), row, col)
  <2> DEFINE to == Forward(rows[row], col, 1)
  <2>1. to \in 0 .. Len(rows[row])
    BY AtCursor, ForwardOnBoundary, BoundaryRange
  <2>2. RefreshRow(Without(row, col, to), row, col)
    BY <1>1
  <2> HIDE DEF to
  <2>3. Without(row, col, to) \in Seq(Row) /\ Len(Without(row, col, to)) = Len(rows)
    BY <2>1, AtCursor, WithoutType
  <2> QED BY <2>2, <2>3, AtCursor, RefreshOnBoundary
<1>2. CASE row < Len(rows) /\ RefreshRow(Join(row), row, col)
  <2>1. row \in 1 .. Len(rows) - 1
    BY <1>2, AtCursor
  <2>2. Join(row) \in Seq(Row) /\ Len(Join(row)) = Len(rows) - 1
    BY <2>1, AtCursor, JoinType
  <2> QED BY <1>2, <2>1, <2>2, AtCursor, RefreshOnBoundary
<1>3. CASE RefreshRow(rows, row, col)
  BY <1>3, AtCursor, RefreshOnBoundary
<1> QED BY <1>1, <1>2, <1>3 DEF RemoveFront

LEMMA MoveStep ==
  ASSUME TextInv,
         MoveUp \/ MoveDown \/ MoveLeft \/ MoveRight \/ MoveHome \/ MoveEnd
  PROVE  TextInv'
<1>1. CASE MoveUp \/ MoveDown
  <2>1. PICK i \in 1 .. Len(rows) : RefreshRow(rows, i, col)
    BY <1>1, AtCursor DEF MoveUp, MoveDown
  <2> QED BY <2>1, AtCursor, RefreshOnBoundary
<1>2. ASSUME NEW c \in Boundaries(rows[row]), MoveTo(c) PROVE TextInv'
  BY <1>2, AtCursor DEF MoveTo, Moved, TextInv, CursorOnBoundary
<1>3. CASE MoveLeft
  BY <1>2, <1>3, AtCursor, BackwardOnBoundary DEF MoveLeft
<1>4. CASE MoveRight
  BY <1>2, <1>4, AtCursor, ForwardOnBoundary DEF MoveRight
<1>5. CASE MoveHome \/ MoveEnd
  BY <1>2, <1>5, AtCursor, BoundaryRange DEF MoveHome, MoveEnd
<1> QED BY <1>1, <1>3, <1>4, <1>5

LEMMA TextInit == Init => TextInv
<1> SUFFICES ASSUME Init PROVE TextInv
  OBVIOUS
<1>1. rows = Empty \/ rows = Stored
  BY DEF Init, SetFile
<1>2. /\ Empty \in Seq(Row) /\ Len(Empty) = 1
      /\ Stored \in Seq(Row) /\ Len(Stored) = 2
  BY DEF Empty, Stored, Row, Units
<1>3. row = Len(rows) /\ col = Len(rows[row])
  BY DEF Init, SetFile
<1>4. rows \in Seq(Row) /\ row \in 1 .. Len(rows)
  <2>1. CASE rows = Empty
    BY <1>2, <1>3, <2>1
  <2>2. CASE rows = Stored
    BY <1>2, <1>3, <2>2
  <2> QED BY <1>1, <2>1, <2>2
<1> QED BY <1>3, <1>4, RowType, BoundaryRange DEF TextInv, CursorOnBoundary

LEMMA TextStep == TextInv /\ [Next]_vars => TextInv'
<1> SUFFICES ASSUME TextInv, [Next]_vars PROVE TextInv'
  OBVIOUS
<1>1. CASE AcceptInput
  BY <1>1, InsertStep, AddRowStep, RemoveBackRowStep, RemoveBackStep, RemoveFrontStep,
     MoveStep DEF AcceptInput
<1>2. CASE UNCHANGED <<rows, cursor>>
  BY <1>2 DEF cursor, TextInv, CursorOnBoundary
<1>3. CASE ~AcceptInput
  BY <1>2, <1>3 DEF Next, vars, cursor, WantSave, NameGiven, NameAborted, WantExit, Killed, Save
<1> QED BY <1>1, <1>3

\* The cursor stands on a boundary of a row that is there (refresh_row), although
\* columns are counted in units, code points and boundaries.
THEOREM CursorStaysOnBoundary == Spec => []CursorOnBoundary
<1>1. Spec => []TextInv
  BY TextInit, TextStep, PTL DEF Spec
<1>2. TextInv => CursorOnBoundary
  BY DEF TextInv
<1> QED BY <1>1, <1>2, PTL

----------------------------------------------------------------------------
\* A name is asked for only when there is none, so a text that has no name and
\* does not count as modified is empty until it is saved.
SavedInv ==
  /\ path \in Paths \cup {NoPath}
  /\ DOMAIN disk = Paths
  /\ mode = "naming" => path = NoPath
  /\ CleanIsOnDisk

LEMMA SavedStep == SavedInv /\ [Next]_vars => SavedInv'
<1> SUFFICES ASSUME SavedInv, [Next]_vars PROVE SavedInv'
  OBVIOUS
<1> USE DEF SavedInv, CleanIsOnDisk
<1>1. ASSUME Modified, Editing PROVE SavedInv'
  BY <1>1 DEF Modified, Editing
<1>2. ASSUME rows' = rows, UNCHANGED <<dirty, path, mode, disk>> PROVE SavedInv'
  BY <1>2
<1>3. CASE AcceptInput
  BY <1>1, <1>2, <1>3 DEF AcceptInput, InsertUtf8, AddRow, RemoveBackRow, RemoveBack,
     RemoveFront, MoveUp, MoveDown, MoveLeft, MoveRight, MoveHome, MoveEnd, MoveTo, Moved,
     RefreshRow
<1>4. ASSUME NEW p \in Paths, Save(p), path' = p, mode' = "editing", path \in {p, NoPath}
      PROVE  SavedInv'
  BY <1>4, ConstantsAssumption DEF Save
<1>5. CASE WantSave
  BY <1>4, <1>5 DEF WantSave, Editing
<1>6. ASSUME NEW p \in Paths, NameGiven(p) PROVE SavedInv'
  BY <1>4, <1>6 DEF NameGiven
<1>7. CASE NameAborted \/ WantExit \/ Killed
  BY <1>7 DEF NameAborted, WantExit, Killed
<1>8. CASE UNCHANGED vars
  BY <1>8 DEF vars
<1> QED BY <1>3, <1>5, <1>6, <1>7, <1>8 DEF Next

\* What does not count as modified is in the file of that name (handle_save,
\* handle_save_as), unless nobody has typed anything.
THEOREM CleanStaysOnDisk == Spec => []CleanIsOnDisk
<1>1. Init => SavedInv
  BY ConstantsAssumption DEF Init, SetFile, SavedInv, CleanIsOnDisk
<1>2. SavedInv => CleanIsOnDisk
  BY DEF SavedInv
<1> QED BY <1>1, <1>2, SavedStep, PTL DEF Spec
=============================================================================
