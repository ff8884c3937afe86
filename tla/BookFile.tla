------------------------------ MODULE BookFile -------------------------------
(***************************************************************************)
(* LeeHomework2, and the DB_INSERT and DB_REPLACE of LeeClientServer, which *)
(* have a copy: books.txt is read whole, the user is asked, and the file   *)
(* is written again from the row that changes, one call of the system      *)
(* after the other.  Several programs may do so, and one may be killed.    *)
(* A cell of the file is a word, the space after a title, or a line's end. *)
(***************************************************************************)
EXTENDS Integers, Sequences, FiniteSets, SequencesExt

CONSTANTS
  Editor,    \* programs that edit
  Word,      \* titles and authors
  Row,       \* the row numbers users ask for
  InitRows,  \* sequences of <<title, author>> the file may start with
  MaxEdits   \* bound: edits begun

Space == " "
NL == "newline"
NUL == "null"    \* what fills a hole in a file
Junk == "junk"   \* what the stack holds behind the bytes that were read

\* A word of scanf("%s") ends before a space or the line's end.
Typed == Word \cup UNION {{b[1], b[2]} : b \in UNION {Range(rs) : rs \in InitRows}}
Cell == Typed \cup {Space, NL, NUL, Junk}

BookFileAssumption ==
  /\ InitRows \subseteq Seq(Typed \X Typed) /\ Typed \cap {Space, NL, NUL, Junk} = {}
  /\ Row \subseteq Nat /\ MaxEdits \in Nat

VARIABLES
  file, edits,
  pc, buf, junk, row, todo, offset,  \* of each editor
  edit,                \* the edit it will have made
  rows,                \* the rows, as the users edited them
  overlapped, cut      \* two edits overlapped; one was cut off or wrote junk

vars == <<file, edits, pc, buf, junk, row, todo, offset, edit, rows, overlapped, cut>>

Text(rs) == FlattenSeq([k \in DOMAIN rs |-> <<rs[k][1], Space, rs[k][2], NL>>])

\* The first position from k on, or 0 (-1 in the code).
Find(c, k, cells) ==
  LET found == {i \in k..Len(cells) : cells[i] = c}
  IN  IF found = {} THEN 0 ELSE CHOOSE i \in found : \A j \in found : i <= j

From(k, cells) == SubSeq(cells, k, Len(cells))

\* replaceAtRow(): where the row starts, 0 if there are not so many.
Start(r, cells) ==
  LET lines(i) == Cardinality({j \in 1..i - 1 : cells[j] = NL})
      found == {i \in 1..Len(cells) : lines(i) >= r}
  IN  IF found = {} THEN 0 ELSE CHOOSE i \in found : \A j \in found : i <= j

Seek(k) == [call |-> "lseek", at |-> k, cells |-> <<>>]
Truncate(k) == [call |-> "ftruncate", at |-> k, cells |-> <<>>]
Write(cells) == [call |-> "write", at |-> 0, cells |-> cells]

\* A title is replaced from the line's end on, not from the space.
ReplaceTitleFromEnd(cells, start, space, end, j, title) ==
  <<Seek(start - 1), Truncate(start - 1), Write(<<title, Space>>),
    Write(From(end + 1, cells) \o j)>>

\* replaceElement(): the calls of each answer.  newBuf is copied by strcpy()
\* from a buffer that has no end: j stands for what follows.
ReplaceTitle(cells, start, space, end, j, title) ==
  <<Seek(start - 1), Truncate(start - 1), Write(<<title, Space>>),
    Write(From(space + 1, cells) \o j)>>

\* The file truncated where the row starts.
ReplaceAuthorOfRow(cells, start, space, end, j, author) ==
  <<Seek(space), Truncate(IF start > 1 THEN start - 2 ELSE 0), Write(<<author, NL>>)>>
  \o IF end > 0 THEN <<Write(From(end + 1, cells) \o j)>> ELSE <<>>

ReplaceAuthor(cells, start, space, end, j, author) ==
  <<Seek(space), Truncate(space), Write(<<author, NL>>)>>
  \o IF end > 0 THEN <<Write(From(end + 1, cells) \o j)>> ELSE <<>>

Insert(cells, start, j, title, author) ==
  <<Seek(start - 1), Write(<<title, Space>>), Write(<<author, NL>>),
    Write(From(start, cells) \o j)>>

Calls(cells, start, j, op, title, author) ==
  LET space == Find(Space, start, cells)
      end == Find(NL, IF space = 0 THEN 1 ELSE space, cells)
  IN  CASE op = "B" -> Insert(cells, start, j, title, author)
        [] op = "T" -> ReplaceTitle(cells, start, space, end, j, title)
        [] op = "A" -> ReplaceAuthor(cells, start, space, end, j, author)

\* What the user asked for.
Edited(rs, k, op, title, author) ==
  CASE op = "B" -> InsertAt(rs, k, <<title, author>>)
    [] op = "T" -> [rs EXCEPT ![k][1] = title]
    [] op = "A" -> [rs EXCEPT ![k][2] = author]

Busy(e) == pc[e] \in {"ask", "write"}
Active(e) == pc[e] = "read" \/ Busy(e)

\* replaceAtRow() looks how long the file is: that much of the buffer, which is
\* uninitialised, will count as read.
Measure(e, r) ==
  /\ pc[e] = "idle" /\ edits < MaxEdits
  /\ edits' = edits + 1
  /\ pc' = [pc EXCEPT ![e] = "read"]
  /\ buf' = [buf EXCEPT ![e] = [k \in DOMAIN file |-> Junk]]
  /\ row' = [row EXCEPT ![e] = r]
  /\ overlapped' = (overlapped \/ \E f \in Editor \ {e} : Active(f))
  /\ UNCHANGED <<file, junk, todo, offset, edit, rows, cut>>

\* It reads the file; nothing is asked if the row is not there.
Read(e) ==
  /\ pc[e] = "read"
  /\ buf' = [buf EXCEPT ![e] = [k \in DOMAIN @ |-> IF k <= Len(file) THEN file[k] ELSE Junk]]
  /\ pc' = [pc EXCEPT ![e] = IF Start(row[e], buf'[e]) = 0 THEN "idle" ELSE "ask"]
  /\ \E j \in {<<>>, <<Junk>>} : junk' = [junk EXCEPT ![e] = j]
  /\ UNCHANGED <<file, edits, row, todo, offset, edit, rows, overlapped, cut>>

\* Any other answer leaves the file alone.
AnswerNothing(e) ==
  /\ pc[e] = "ask"
  /\ pc' = [pc EXCEPT ![e] = "idle"]
  /\ UNCHANGED <<file, edits, buf, junk, row, todo, offset, edit, rows, overlapped, cut>>

Answer(e, op, title, author) ==
  /\ pc[e] = "ask"
  /\ todo' = [todo EXCEPT ![e] =
                Calls(buf[e], Start(row[e], buf[e]), junk[e], op, title, author)]
  /\ edit' = [edit EXCEPT ![e] = [op |-> op, title |-> title, author |-> author]]
  /\ pc' = [pc EXCEPT ![e] = "write"]
  /\ UNCHANGED <<file, edits, buf, junk, row, offset, rows, overlapped, cut>>

\* ftruncate() and write() of the system; both fill a hole.
Resized(f, n) == [k \in 1..n |-> IF k <= Len(f) THEN f[k] ELSE NUL]
Written(f, at, cells) ==
  LET g == IF Len(f) < at + Len(cells) THEN Resized(f, at + Len(cells)) ELSE f
  IN  [k \in DOMAIN g |-> IF k \in at + 1..at + Len(cells) THEN cells[k - at] ELSE g[k]]

\* The next call; the last one completes the edit.
Call(e) ==
  /\ pc[e] = "write"
  /\ LET c == Head(todo[e])
     IN  /\ file' = CASE c.call = "lseek" -> file
                      [] c.call = "ftruncate" -> Resized(file, c.at)
                      [] c.call = "write" -> Written(file, offset[e], c.cells)
         /\ offset' = [offset EXCEPT ![e] =
                         IF c.call = "lseek" THEN c.at ELSE @ + Len(c.cells)]
         /\ cut' = (cut \/ Contains(c.cells, Junk))
  /\ todo' = [todo EXCEPT ![e] = Tail(@)]
  /\ IF Len(todo[e]) > 1
     THEN UNCHANGED <<pc, rows>>
     ELSE /\ pc' = [pc EXCEPT ![e] = "idle"]
          /\ rows' = IF overlapped \/ cut' THEN rows
                     ELSE Edited(rows, row[e] + 1, edit[e].op, edit[e].title, edit[e].author)
  /\ UNCHANGED <<edits, buf, junk, row, edit, overlapped>>

Kill(e) ==
  /\ Active(e)
  /\ pc' = [pc EXCEPT ![e] = "killed"]
  /\ cut' = (cut \/ pc[e] = "write")
  /\ UNCHANGED <<file, edits, buf, junk, row, todo, offset, edit, rows, overlapped>>

Init ==
  /\ rows \in InitRows
  /\ file \in {Text(rows), IF rows = <<>> THEN <<>> ELSE Front(Text(rows))}
  /\ edits = 0 /\ overlapped = FALSE /\ cut = FALSE
  /\ pc = [e \in Editor |-> "idle"] /\ row = [e \in Editor |-> 0]
  /\ buf = [e \in Editor |-> <<>>] /\ junk = [e \in Editor |-> <<>>]
  /\ todo = [e \in Editor |-> <<>>] /\ offset = [e \in Editor |-> 0]
  /\ edit = [e \in Editor |-> [op |-> "none", title |-> NUL, author |-> NUL]]

Next == \E e \in Editor :
  \/ \E r \in Row : Measure(e, r)
  \/ Read(e)
  \/ AnswerNothing(e)
  \/ \E op \in {"B", "T", "A"}, title \in Word, author \in Word : Answer(e, op, title, author)
  \/ Call(e)
  \/ Kill(e)

Spec == Init /\ [][Next]_vars

-----------------------------------------------------------------------------
(* Properties                                                              *)

TypeOK ==
  /\ file \in Seq(Cell)
  /\ pc \in [Editor -> {"idle", "read", "ask", "write", "killed"}]
  /\ row \in [Editor -> Row \cup {0}] /\ offset \in [Editor -> Nat]
  /\ edits \in 0..MaxEdits
  /\ \A e \in Editor : /\ pc[e] = "write" => todo[e] # <<>>
                       /\ Busy(e) => Start(row[e], buf[e]) \in DOMAIN buf[e]
  /\ overlapped \in BOOLEAN /\ cut \in BOOLEAN

\* When nobody edits, the file has the rows that the users asked for, as long
\* as edits did not overlap, none was killed while it wrote and no junk was
\* copied.  The last line may lack its end, as in the file at the start.
FileHasTheRows ==
  ~overlapped /\ ~cut /\ (\A e \in Editor : ~Busy(e)) =>
    \/ file = Text(rows)
    \/ rows # <<>> /\ file = Front(Text(rows))

\* At every point where an edit may be killed, the rows above the one it
\* edits are in the file, whatever it has cut off below.  Not so once junk or
\* half an edit left a row without a space: its position is then -1.
RowsAboveSurvive ==
  ~overlapped /\ ~cut =>
    \A e \in Editor : Busy(e) =>
      IsPrefix(SubSeq(buf[e], 1, Start(row[e], buf[e]) - 1), file)

\* An edit that runs alone leaves no hole, whatever the file looks like: what
\* it writes begins where it truncated, or before the end.
NoHoles == ~overlapped => ~Contains(file, NUL)

\* The rows of the file survive edits, and those above an edit survive its
\* being cut off.
RowsAreKept ==
  /\ TypeOK /\ FileHasTheRows
  /\ RowsAboveSurvive /\ NoHoles
=============================================================================
