------------------------------- MODULE Editor -------------------------------
(* programs/editor: EditorState, the rows and the cursor of the program       *)
(* "edit", and that program's loop with its prompt for a name to save under   *)
(* (os_basic_edit.cpp).                                                       *)
(*                                                                            *)
(* A row is a sequence of UTF-16 code units, as icu::UnicodeString has it:    *)
(* "a" stands for a character of one unit, <<"h", "l">> for one that takes a  *)
(* surrogate pair, "m" for a mark that combines with what is before it.  The  *)
(* column is an offset in units; the cursor stands on the boundaries between  *)
(* user-perceived characters that the iterator col_it_ finds.  The code       *)
(* mixes three ways of counting: units, code points, and boundaries.          *)
(*                                                                            *)
(* Tabs, scrolling and what is drawn are left out.  No other program writes   *)
(* the files while the editor runs.                                           *)
EXTENDS Integers, Sequences, SequencesExt, FiniteSets, FiniteSetsExt

CONSTANTS Texts,     \* what one query of the terminal inserts: a key or a paste
          Paths,     \* names of files whose directories exist
          ReadOnly,  \* those of files the user may read but not write
          Absent,    \* no such file
          NoPath,    \* path_ is nullopt
          MaxEdits   \* bound on the inputs that change the text

Units == {"a", "h", "l", "m"}

ASSUME ConstantsAssumption ==
  /\ Texts \subseteq Seq(Units)
  /\ ReadOnly \subseteq Paths /\ NoPath \notin Paths
  /\ MaxEdits \in Nat

VARIABLES
  rows,   \* rows_
  row,    \* row_ and row_it_, counted from 1
  col,    \* col_, which is where col_it_ stands
  dirty,  \* is_dirty()
  path,   \* path_
  mode,   \* "editing", "naming" (write_in_statusbar), "left", "killed"
  disk,   \* [Paths]: the rows of a file, or Absent
  edits   \* inputs so far that changed the text

vars == <<rows, row, col, dirty, path, mode, disk, edits>>
cursor == <<row, col>>

Empty == << <<>> >>     \* the text of no characters has one row

----------------------------------------------------------------------------
\* BreakIterator, on one row: a boundary is an end of the row or comes before
\* a unit that begins a character.
Boundaries(r) ==
  {i \in 0 .. Len(r) : i \in {0, Len(r)} \/ r[i + 1] \in {"a", "h"}}

\* next(n) from position p, and last() if that is DONE.
Forward(r, p, n) ==
  LET after == {b \in Boundaries(r) : b > p} IN
  IF n = 0 THEN p
  ELSE IF Cardinality(after) < n THEN Len(r)
  ELSE CHOOSE b \in after : Cardinality({c \in after : c <= b}) = n

\* previous() from a position p # 0.
Backward(r, p) == Max({b \in Boundaries(r) : b < p})

\* countChar32
Points(t) == Cardinality({i \in DOMAIN t : t[i] # "l"})

----------------------------------------------------------------------------
\* refresh_row: the column is taken as a number of boundaries.  Mutant: it is
\* left as it is.
RefreshRowNot(rs, i, c) == rows' = rs /\ row' = i /\ col' = c

RefreshRow(rs, i, c) ==
  /\ rows' = rs
  /\ row' = i
  /\ col' = Forward(rs[i], 0, c)

Modified ==
  /\ edits < MaxEdits /\ edits' = edits + 1
  /\ dirty' = TRUE
  /\ UNCHANGED <<path, mode, disk>>

Moved == UNCHANGED <<rows, dirty, path, mode, disk, edits>>
Editing == mode = "editing"

\* insert_utf8.  An empty text, which is what a NUL key comes to, is inserted
\* like any other.
InsertUtf8(t) ==
  LET r == rows[row] IN
  /\ Editing
  /\ RefreshRow([rows EXCEPT ![row] = SubSeq(r, 1, col) \o t \o SubSeq(r, col + 1, Len(r))],
                row, col + Points(t))
  /\ Modified

\* add_row
AddRow ==
  LET r == rows[row]
      kept == [rows EXCEPT ![row] = SubSeq(r, 1, col)]
  IN
  /\ Editing
  /\ RefreshRow(InsertAt(kept, row + 1, SubSeq(r, col + 1, Len(r))), row + 1, 0)
  /\ Modified

\* Row i with the one after it.
Join(i) == [RemoveAt(rows, i + 1) EXCEPT ![i] = rows[i] \o rows[i + 1]]
Without(i, from, to) ==
  [rows EXCEPT ![i] = SubSeq(@, 1, from) \o SubSeq(@, to + 1, Len(@))]

\* remove_back: the row is joined to the one above, move_to its old end in code
\* points; or the character before the cursor goes.
RemoveBackRow ==
  LET end == Points(rows[row - 1]) IN
  /\ Editing /\ col = 0 /\ row > 1
  /\ rows' = Join(row - 1)
  /\ row' = row - 1
  /\ col' = Forward(rows'[row'], 0, end)
  /\ Modified

\* Mutant: one unit goes.
RemoveBackUnit ==
  /\ Editing /\ col > 0
  /\ RefreshRow(Without(row, col - 1, col), row, col - 1)
  /\ Modified

RemoveBack ==
  LET to == Backward(rows[row], col) IN
  /\ Editing /\ col > 0
  /\ RefreshRow(Without(row, to, col), row, to)
  /\ Modified

\* remove_front: the character after the cursor, or the end of the row.
RemoveFront ==
  /\ Editing
  /\ \/ /\ col < Len(rows[row])
        /\ RefreshRow(Without(row, col, Forward(rows[row], col, 1)), row, col)
        /\ Modified
     \/ /\ col = Len(rows[row]) /\ row < Len(rows)
        /\ RefreshRow(Join(row), row, col)
        /\ Modified
     \/ /\ col = Len(rows[row]) /\ row = Len(rows)
        /\ RefreshRow(rows, row, col)
        /\ UNCHANGED <<dirty, path, mode, disk, edits>>

\* The cursor keys.
MoveUp == Editing /\ row > 1 /\ RefreshRow(rows, row - 1, col) /\ Moved
MoveDown == Editing /\ row < Len(rows) /\ RefreshRow(rows, row + 1, col) /\ Moved

MoveTo(c) == Editing /\ col' = c /\ UNCHANGED row /\ Moved
MoveLeft == col > 0 /\ MoveTo(Backward(rows[row], col))
MoveRight == col < Len(rows[row]) /\ MoveTo(Forward(rows[row], col, 1))
MoveHome == MoveTo(0)
MoveEnd == MoveTo(Len(rows[row]))

----------------------------------------------------------------------------
\* handle_save with a path: open for writing, creating the file if there is
\* none, and write.  An error is shown and forgotten.
Writable(p) == disk[p] = Absent \/ p \notin ReadOnly

\* Mutant: the text counts as saved whatever open said.
SaveUnchecked(p) ==
  /\ disk' = IF Writable(p) THEN [disk EXCEPT ![p] = rows] ELSE disk
  /\ dirty' = FALSE
  /\ UNCHANGED <<rows, cursor, edits>>

Save(p) ==
  /\ IF Writable(p) THEN disk' = [disk EXCEPT ![p] = rows] /\ dirty' = FALSE
                    ELSE UNCHANGED <<disk, dirty>>
  /\ UNCHANGED <<rows, cursor, edits>>

\* Ctrl+S
WantSave ==
  /\ Editing
  /\ IF path = NoPath
       THEN mode' = "naming" /\ UNCHANGED <<rows, cursor, dirty, path, disk, edits>>
       ELSE Save(path) /\ UNCHANGED <<path, mode>>

\* handle_save_as: the prompt ends with Return or because its read failed (a
\* signal to the process), when the name is what has been typed so far; the
\* path is set before it is known whether it can be saved to.
NameGiven(p) ==
  /\ mode = "naming" /\ mode' = "editing"
  /\ path' = p
  /\ Save(p)

NameAborted ==
  /\ mode = "naming" /\ mode' = "editing"
  /\ UNCHANGED <<rows, cursor, dirty, path, disk, edits>>

\* Escape, and the end of a read in the loop itself.
WantExit ==
  /\ Editing /\ ~dirty
  /\ mode' = "left"
  /\ UNCHANGED <<rows, cursor, dirty, path, disk, edits>>

Killed ==
  /\ Editing
  /\ mode' = "killed"
  /\ UNCHANGED <<rows, cursor, dirty, path, disk, edits>>

----------------------------------------------------------------------------
\* CmdEdit: with a file, which is created if there is none, or without;
\* init_state puts the cursor behind the last character.
SetFile(p, content) ==
  /\ path = p /\ rows = content
  /\ row = Len(rows) /\ col = Len(rows[row])

Stored == << <<"a", "h", "l">>, <<"m", "a">> >>

Init ==
  /\ dirty = FALSE /\ mode = "editing" /\ edits = 0
  /\ \E before \in [Paths -> {Absent, Stored}] :
       \/ SetFile(NoPath, Empty) /\ disk = before
       \/ \E p \in Paths :
            LET content == IF before[p] = Absent THEN Empty ELSE before[p] IN
            SetFile(p, content) /\ disk = [before EXCEPT ![p] = content]

\* accept_input
AcceptInput ==
  \/ \E t \in Texts : InsertUtf8(t)
  \/ AddRow \/ RemoveBackRow \/ RemoveBack \/ RemoveFront
  \/ MoveUp \/ MoveDown \/ MoveLeft \/ MoveRight \/ MoveHome \/ MoveEnd

Next ==
  \/ AcceptInput
  \/ WantSave \/ NameAborted \/ WantExit \/ Killed
  \/ \E p \in Paths : NameGiven(p)

Spec == Init /\ [][Next]_vars

----------------------------------------------------------------------------
\* The cursor stands on a character boundary of a row that is there, although
\* marks join the characters of two rows, or of a row and what is typed.
CursorOnBoundary ==
  /\ row \in 1 .. Len(rows)
  /\ col \in Boundaries(rows[row])

\* as_utf8, an offset in it, and where its characters and line breaks meet.
Text(rs) == FoldLeft(LAMBDA t, r : t \o <<"\n">> \o r, Head(rs), Tail(rs))
Offset(rs, i, c) == c + IF i = 1 THEN 0 ELSE Len(Text(SubSeq(rs, 1, i - 1))) + 1
Seams(rs) == UNION {{Offset(rs, i, b) : b \in Boundaries(rs[i])} : i \in DOMAIN rs}
OneUnitEach(t) == \A i \in DOMAIN t : t[i] \in {"a", "\n"}

\* An input changes the text at the cursor and nowhere else: it puts in what
\* was typed or a line break, or takes one character or line break from before
\* or after the cursor.  The cursor then stands where that happened, if every
\* character of the text has one unit; otherwise it is found by counting
\* boundaries where units or code points were counted, and may land elsewhere.
EditsAtCursor ==
  [][ rows' # rows =>
        LET text == Text(rows)
            then == Text(rows')
            at == Offset(rows, row, col)
            seams == Seams(rows)
            Cut(from, to) == at \in {from, to} /\ \A s \in seams : s <= from \/ s >= to
            Changed(from, new, to) ==
              /\ then = SubSeq(text, 1, from) \o new \o SubSeq(text, to + 1, Len(text))
              /\ OneUnitEach(text \o then) =>
                   Offset(rows', row', col') = from + Len(new)
        IN \/ \E new \in Texts \cup {<<"\n">>} : Changed(at, new, at)
           \/ \E from, to \in seams :
                from < to /\ Cut(from, to) /\ Changed(from, <<>>, to) ]_vars

\* The text is in the file of that name whenever it does not count as modified,
\* which is when Escape leaves the editor; failed saves do not make it count as
\* saved.  The exception is a text nobody has typed anything into.
CleanIsOnDisk ==
  ~dirty => \/ path # NoPath /\ disk[path] = rows
            \/ rows = Empty
=============================================================================
