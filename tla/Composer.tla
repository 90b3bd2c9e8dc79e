------------------------------ MODULE Composer ------------------------------
(***************************************************************************)
(* The prompt buffer and its visual rows (src/crates/tea-agent/src/        *)
(* composer.rs, src/crates/tea-agent/src/ui/visual_layout.rs).             *)
(*                                                                         *)
(* A text is a sequence of characters.  "wide" takes two columns, "mark"   *)
(* none: it belongs to the character before it.  The cursor is the number  *)
(* of characters before it; its byte offset is left out.                   *)
(***************************************************************************)
EXTENDS Integers, Sequences, FiniteSets, SequencesExt

Newline == "\n"
Empty == [text |-> <<>>, cursor |-> 0]
AtEnd(text) == [text |-> text, cursor |-> Len(text)]
IsSpace(char) == char \in {" ", Newline}

Insert(buffer, part) ==
    [text |-> SubSeq(buffer.text, 1, buffer.cursor) \o part
                \o SubSeq(buffer.text, buffer.cursor + 1, Len(buffer.text)),
     cursor |-> buffer.cursor + Len(part)]
Cut(buffer, from, to) ==
    [text |-> SubSeq(buffer.text, 1, from) \o SubSeq(buffer.text, to + 1, Len(buffer.text)),
     cursor |-> from]

-----------------------------------------------------------------------------
(* Moves.                                                                  *)

ClusterStart(buffer) ==
    Max({0} \cup {k - 1 : k \in {j \in 1..buffer.cursor : buffer.text[j] # "mark"}})
ClusterEnd(buffer) ==
    IF buffer.cursor = Len(buffer.text) THEN buffer.cursor
    ELSE Min({Len(buffer.text)} \cup
             {k \in (buffer.cursor + 1)..(Len(buffer.text) - 1) : buffer.text[k + 1] # "mark"})

\* Back over spaces and then over the word, forward likewise.
WordStart(buffer) ==
    LET word == Max({0} \cup {k \in 1..buffer.cursor : ~IsSpace(buffer.text[k])})
    IN Max({0} \cup {k \in 1..word : IsSpace(buffer.text[k])})
WordEnd(buffer) ==
    LET last == Len(buffer.text)
        word == Min({last} \cup {k \in buffer.cursor..(last - 1) : ~IsSpace(buffer.text[k + 1])})
    IN Min({last} \cup {k \in word..(last - 1) : IsSpace(buffer.text[k + 1])})

LineStart(buffer) == Max({0} \cup {k \in 1..buffer.cursor : buffer.text[k] = Newline})
LineEnd(buffer) ==
    Min({Len(buffer.text)} \cup
        {k \in buffer.cursor..(Len(buffer.text) - 1) : buffer.text[k + 1] = Newline})

To(buffer, cursor) == [buffer EXCEPT !.cursor = cursor]
Backspace(buffer) == Cut(buffer, ClusterStart(buffer), buffer.cursor)
Delete(buffer) == Cut(buffer, buffer.cursor, ClusterEnd(buffer))

-----------------------------------------------------------------------------
(* Visual rows.                                                            *)

\* display_width of the characters from + 1 .. to.
Columns(text, from, to) ==
    LET Count(char) == Cardinality({k \in (from + 1)..to : text[k] = char})
    IN (to - from) + Count("wide") - Count("mark")

\* VisualLayout::measure: a row ends before a line feed, and where the next
\* character does not fit; its first character always stands in it.
RowEnd(text, start, width) ==
    Max({end \in start..Len(text) :
           /\ \A k \in (start + 1)..end : text[k] # Newline
           /\ \/ Columns(text, start, end) <= width
              \/ Columns(text, start, end - 1) = 0})
RowsOf(text, width) ==
    LET from[start \in 0..Len(text)] ==
          LET end == RowEnd(text, start, width)
          IN <<[start |-> start, end |-> end]>> \o
               (IF end = Len(text) THEN <<>>
                ELSE from[IF text[end + 1] = Newline THEN end + 1 ELSE end])
    IN from[0]
\* At the end of a wrapped row the cursor is shown at the start of the next one.
CursorRow(rows, cursor) == Max({k \in DOMAIN rows : rows[k].start <= cursor})

\* move_visual_line: the place of the same column in the row above or below.
HasRow(buffer, rows, direction) == CursorRow(rows, buffer.cursor) + direction \in DOMAIN rows
Vertical(buffer, rows, direction) ==
    LET row == rows[CursorRow(rows, buffer.cursor)]
        target == rows[CursorRow(rows, buffer.cursor) + direction]
    IN Max({place \in target.start..target.end :
              Columns(buffer.text, target.start, place) <= Columns(buffer.text, row.start, buffer.cursor)})
=============================================================================
