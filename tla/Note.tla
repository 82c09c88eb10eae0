-------------------------------- MODULE Note --------------------------------
(***************************************************************************)
(* The text editor of the console (fs/note.c): a buffer of lines and a     *)
(* cursor, changed key by key.  Drawing is left out.                       *)
(***************************************************************************)
EXTENDS Integers, FiniteSetsExt, SequencesExt

CONSTANTS
    MaxLines,   \* MAX_LINES
    Cols,       \* columns of the screen
    MaxCols,    \* NOTE_MAX_COLS
    Rows,       \* rows of the screen that show text
    Tab         \* NOTE_TAB_WIDTH

NL == 10

note_step(col, ch) == IF ch = 9 THEN Tab - (col % Tab) ELSE 1

note_col_from_index(s, idx) ==
    FoldLeft(LAMBDA col, ch : col + note_step(col, ch), 0, SubSeq(s, 1, IF idx < Len(s) THEN idx ELSE Len(s)))

\* The characters of s that end at or before the column.
note_index_from_col(s, target) == Max({i \in 0 .. Len(s) : note_col_from_index(s, i) <= target})

note_clamp_cursor(e) ==
    LET l == e.buf[e.cy + 1]
        cx == IF e.cx > Len(l) THEN Len(l) ELSE e.cx
    IN  [e EXCEPT !.cx = IF note_col_from_index(l, cx) >= Cols THEN note_index_from_col(l, Cols - 1) ELSE cx]

\* The cursor goes to line cy, column cx, and the window follows it by a line.
At(e, cy, cx) ==
    [e EXCEPT !.cy = cy, !.cx = cx,
              !.scroll = IF cy > e.cy /\ cy - @ >= Rows THEN @ + 1 ELSE IF cy < e.cy /\ cy < @ THEN @ - 1 ELSE @]

note_enter(e) ==
    LET l == e.buf[e.cy + 1]
    IN  IF Len(e.buf) >= MaxLines - 1 THEN e
        ELSE At([e EXCEPT !.buf = InsertAt(ReplaceAt(@, e.cy + 1, SubSeq(l, 1, e.cx)), e.cy + 2,
                                           SubSeq(l, e.cx + 1, Len(l)))], e.cy + 1, 0)


\* Joining two lines does not move the window.
note_backspace(e) ==
    LET l == e.buf[e.cy + 1]
        p == e.buf[e.cy]
    IN  IF e.cx > 0 THEN [e EXCEPT !.buf = ReplaceAt(@, e.cy + 1, RemoveAt(l, e.cx)), !.cx = @ - 1]
        ELSE IF e.cy = 0 \/ Len(p) + Len(l) >= Cols THEN e
        ELSE [e EXCEPT !.buf = ReplaceAt(RemoveAt(@, e.cy + 1), e.cy, p \o l), !.cy = @ - 1, !.cx = Len(p)]

note_left(e) ==
    LET n == Len(e.buf[e.cy])
    IN  IF e.cx > 0 THEN [e EXCEPT !.cx = @ - 1]
        ELSE IF e.cy > 0 THEN At(e, e.cy - 1, IF n >= Cols THEN Cols - 1 ELSE n) ELSE e

note_right(e) ==
    IF e.cx < Len(e.buf[e.cy + 1]) THEN [e EXCEPT !.cx = @ + 1]
    ELSE IF e.cy + 1 < Len(e.buf) THEN At(e, e.cy + 1, 0) ELSE e

\* Up and Down keep the column on the screen.
note_vertical(e, cy) ==
    IF cy \notin 0 .. Len(e.buf) - 1 THEN e
    ELSE At(e, cy, note_index_from_col(e.buf[cy + 1], note_col_from_index(e.buf[e.cy + 1], e.cx)))

note_insert(e, k) ==
    LET l == e.buf[e.cy + 1]
    IN  IF Len(l) >= Cols - 1 THEN e
        ELSE [e EXCEPT !.buf = ReplaceAt(@, e.cy + 1, InsertAt(l, e.cx + 1, k)), !.cx = @ + 1]

\* A key of the editing mode.
edit_key(e, k) ==
    CASE k = 27                 -> [e EXCEPT !.mode = "command"]
      [] k \in {10, 13}         -> note_enter(e)
      [] k = 8                  -> note_backspace(e)
      [] k = 144                -> note_left(e)
      [] k = 145                -> note_right(e)
      [] k = 146                -> note_vertical(e, e.cy - 1)
      [] k = 147                -> note_vertical(e, e.cy + 1)
      [] k \in 32 .. 126        -> note_insert(e, k)
      [] OTHER                  -> e

\* The text: lines with a newline between them.
TextOf(buf) == FoldLeft(LAMBDA acc, l : acc \o <<NL>> \o l, Head(buf), Tail(buf))

\* draw_buffer moves the window back when the text has become shorter.
window(e) ==
    LET n == Len(e.buf)
    IN  [e EXCEPT !.scroll = IF @ > n - Rows THEN (IF n > Rows THEN n - Rows ELSE 0) ELSE @]

\* 115 is s, 120 x and 105 i.
note_key(e, k) ==
    IF e.mode = "command" /\ k = 115 THEN [e EXCEPT !.mode = "off", !.file = TextOf(e.buf)]
    ELSE IF e.mode = "command" /\ k = 120 THEN [e EXCEPT !.mode = "off"]
    ELSE window(note_clamp_cursor(IF e.mode = "edit" THEN edit_key(e, k)
                                  ELSE IF k = 105 THEN [e EXCEPT !.mode = "edit"] ELSE e))

\* A file is cut at its newlines, and a line that is too long loses a
\* character; what follows the last newline is a line only if it is not empty.
note_load(file) ==
    LET Push(p) == [lines |-> Append(p.lines, p.cur), cur |-> <<>>]
        Read(p, ch) == IF Len(p.lines) = MaxLines THEN p
                       ELSE IF ch = NL \/ Len(p.cur) = MaxCols - 1 THEN Push(p)
                       ELSE [p EXCEPT !.cur = Append(@, ch)]
        all == FoldLeft(Read, [lines |-> <<>>, cur |-> <<>>], file)
        lines == IF all.cur # <<>> /\ Len(all.lines) < MaxLines THEN Push(all).lines ELSE all.lines
    IN  IF lines = <<>> THEN <<<<>>>> ELSE lines

note_open(e) == [e EXCEPT !.mode = "edit", !.buf = note_load(e.file), !.cx = 0, !.cy = 0, !.scroll = 0]

(***************************************************************************)
(* The same keys on a text without lines: a sequence and a position in it. *)
(***************************************************************************)
PosOf(e) == FoldLeft(LAMBDA n, l : n + Len(l) + 1, e.cx, SubSeq(e.buf, 1, e.cy))

LineEnds(t) == {i \in DOMAIN t : t[i] = NL}
LineAt(t, p) == Cardinality({i \in LineEnds(t) : i <= p})
LineLen(t, n) ==
    LET s == Max({0} \cup {i \in LineEnds(t) : LineAt(t, i) = n})
    IN  Min({i \in LineEnds(t) : i > s} \cup {Len(t) + 1}) - s - 1

ColAt(t, p) ==
    LET s == Max({0} \cup {i \in LineEnds(t) : i <= p})
    IN  note_col_from_index(SubSeq(t, s + 1, p), p - s)

\* The place on line n, if there is one, that is closest to the column of p.
Vertical(t, p, n) ==
    LET places == {q \in 0 .. Len(t) : LineAt(t, q) = n /\ ColAt(t, q) <= ColAt(t, p)}
    IN  [t |-> t, p |-> IF places = {} THEN p ELSE Max(places)]

\* What key k makes of text t with the cursor after its p-th character.
Flat(t, p, k) ==
    LET n == LineAt(t, p)
        same == [t |-> t, p |-> p]
    IN  CASE k = 10 -> IF Cardinality(LineEnds(t)) + 2 < MaxLines THEN [t |-> InsertAt(t, p + 1, NL), p |-> p + 1] ELSE same
          [] k = 8 -> IF p = 0 \/ (t[p] = NL /\ LineLen(t, n) + LineLen(t, n - 1) >= Cols) THEN same
                      ELSE [t |-> RemoveAt(t, p), p |-> p - 1]
          [] k = 144 -> IF p > 0 THEN [t |-> t, p |-> p - 1] ELSE same
          [] k = 145 -> IF p < Len(t) THEN [t |-> t, p |-> p + 1] ELSE same
          [] k = 146 -> Vertical(t, p, n - 1)
          [] k = 147 -> Vertical(t, p, n + 1)
          [] k \in 32 .. 126 -> IF LineLen(t, n) < Cols - 1 THEN [t |-> InsertAt(t, p + 1, k), p |-> p + 1] ELSE same
          [] OTHER -> same

\* Every line ends before the right edge of the screen.
Fits(buf) == \A i \in DOMAIN buf : note_col_from_index(buf[i], Len(buf[i])) < Cols
=============================================================================
