------------------------------- MODULE Screens -------------------------------
(***************************************************************************)
(* A snapshot of the screen: its cells, and what a test asks of them. Rows *)
(* and columns count from 0, places in a text from 1.                      *)
(*                                                                         *)
(* A screen is a record: cols, rows, cursor, cells (rows of cells),        *)
(* wrapped (per row, whether it continues on the next) and history (the    *)
(* text of the rows that have scrolled off, oldest first).                 *)
(***************************************************************************)
EXTENDS Characters

CONSTANT PlainStyle    (* Style::default() *)

Least(a, b) == IF a < b THEN a ELSE b
Greatest(a, b) == IF a < b THEN b ELSE a

Cell(text, style, wide, tail) == [text |-> text, style |-> style, wide |-> wide, tail |-> tail]
ErasedCell == Cell(<<>>, PlainStyle, FALSE, FALSE)

(* The record of a screen, and its cells. *)
ScreenFields == {"cols", "rows", "cursor", "cells", "wrapped", "history"}
IsCell(cell) == DOMAIN cell = DOMAIN ErasedCell /\ cell.text \in Text
HasLength(s, n) == s = [i \in 1 .. n |-> s[i]]
IsRow(cells, cols) == HasLength(cells, cols) /\ \A c \in 1 .. cols : IsCell(cells[c])

CellsOf(s, row) == s.cells[row + 1]
CellAt(s, row, col) == CellsOf(s, row)[col + 1]
Places(s) == (0 .. s.rows - 1) \X (0 .. s.cols - 1)

(* A hidden cursor is nowhere. *)
SameCursor(a, b) == a.visible = b.visible /\ (a.visible => a = b)

SamePicture(a, b) ==
    a.cols = b.cols /\ a.rows = b.rows /\ SameCursor(a.cursor, b.cursor) /\ a.cells = b.cells

RowWrapped(s, row) == row < Len(s.wrapped) /\ s.wrapped[row + 1]

-----------------------------------------------------------------------------
(* The text of a screen. *)

Glyph(cell) == IF cell.text = <<>> THEN <<Space>> ELSE cell.text

(* The text of some cells, each normalised on its own or none, and the column
   of each character, from the first of the cells. *)
Laid(cells, folded) ==
    LET upTo[n \in 0 .. Len(cells)] ==
            IF n = 0 THEN [text |-> <<>>, cols |-> <<>>]
            ELSE LET done == upTo[n - 1]
                     glyph == IF folded THEN Nfc(Glyph(cells[n])) ELSE Glyph(cells[n]) IN
                 IF cells[n].tail THEN done
                 ELSE [text |-> done.text \o glyph,
                       cols |-> done.cols \o [i \in DOMAIN glyph |-> n - 1]] IN
    upTo[Len(cells)]

RowText(s, row) == Laid(CellsOf(s, row), FALSE).text

RowTexts(s) == [i \in 1 .. s.rows |-> TrimEnd(RowText(s, i - 1))]

ScreenText(s) == Lines(RowTexts(s))

FullText(s) ==
    LET history == IF s.history = <<>> THEN <<>> ELSE Lines(s.history) IN
    IF history = <<>> THEN ScreenText(s) ELSE history \o <<NewLine>> \o ScreenText(s)

(* The lines as the application wrote them: a row that was wrapped goes on with
   the next one. *)
LogicalLines(s) ==
    LET upTo[n \in 0 .. s.rows] ==
            IF n = 0 THEN [lines |-> <<>>, open |-> <<>>]
            ELSE LET line == upTo[n - 1].open \o RowText(s, n - 1) IN
                 IF RowWrapped(s, n - 1) THEN [upTo[n - 1] EXCEPT !.open = line]
                 ELSE [lines |-> Append(upTo[n - 1].lines, TrimEnd(line)), open |-> <<>>]
        all == upTo[s.rows] IN
    IF all.open = <<>> THEN all.lines ELSE Append(all.lines, TrimEnd(all.open))

(* A range of columns or rows, from `start` to before `end`, or to the edge,
   wherever that is.  One that ends before it starts is refused. *)
OpenEnd == -1
ClampRange(range, len) ==
    LET end == IF range.end = OpenEnd THEN Greatest(len, range.start) ELSE range.end IN
    [start |-> Least(range.start, len), end |-> Least(end, len)]

RectText(s, cols, rows) ==
    LET c == ClampRange(cols, s.cols)
        r == ClampRange(rows, s.rows) IN
    [i \in 1 .. r.end - r.start |->
        TrimEnd(Laid(SubSeq(s.cells[r.start + i], c.start + 1, c.end), FALSE).text)]

-----------------------------------------------------------------------------
(* Searching. *)

SearchableRow(s, row) == Laid(CellsOf(s, row), TRUE)
SearchableRows(s) == [i \in 1 .. s.rows |-> SearchableRow(s, i - 1)]

NfcText(s) == Lines([i \in 1 .. s.rows |-> TrimEnd(SearchableRow(s, i - 1).text)])

ScreenIsAscii(s) == \A p \in Places(s) : IsAscii(CellAt(s, p[1], p[2]).text)

ContainsText(s, needle) ==
    IF ScreenIsAscii(s) /\ IsAscii(needle) THEN HasNeedle(ScreenText(s), needle)
    ELSE HasNeedle(NfcText(s), Nfc(needle))

(* What has been matched of a pattern of lines, once one more line follows: the
   failure function says what is left of a match that breaks. *)
Extended(pattern, fail, matched, line) ==
    LET back[k \in 0 .. matched] ==
            IF k > 0 /\ line # pattern[k + 1] THEN back[fail[k]] ELSE k
        kept == back[matched] IN
    IF line = pattern[kept + 1] THEN kept + 1 ELSE kept

Failures(pattern) ==
    LET upTo[n \in 1 .. Len(pattern)] ==
            IF n = 1 THEN <<0>>
            ELSE Append(upTo[n - 1], Extended(pattern, upTo[n - 1], Last(upTo[n - 1]), pattern[n])) IN
    upTo[Len(pattern)]

(* The places where the lines are those of the pattern, in one pass. *)
WholeRowsAt(lines, pattern) ==
    LET fail == Failures(pattern)
        upTo[n \in 0 .. Len(lines)] ==
            IF n = 0 THEN [matched |-> 0, at |-> {}]
            ELSE LET k == Extended(pattern, fail, upTo[n - 1].matched, lines[n]) IN
                 IF k = Len(pattern)
                 THEN [matched |-> fail[k], at |-> upTo[n - 1].at \union {n + 1 - k}]
                 ELSE [upTo[n - 1] EXCEPT !.matched = k] IN
    IF pattern = <<>> THEN 1 .. Len(lines) + 1 ELSE upTo[Len(lines)].at

(* The rows where a needle of several lines starts: its first segment ends a
   row, the middle ones are rows, the last one starts a row.  On the row where
   a match ended the next one may start, right of the last cell that was used. *)
MultirowMatches(rows, segments) ==
    LET extra == Len(segments) - 1
        lines == [i \in DOMAIN rows |-> TrimEnd(rows[i].text)]
        middle == WholeRowsAt(lines, SubSeq(segments, 2, extra))
        ColumnOf(row, i) == rows[row].cols[i]
        FirstColumn(row) == ColumnOf(row, Len(lines[row]) - Len(segments[1]) + 1)
        MatchedAt(row) == /\ IsSuffix(segments[1], lines[row])
                          /\ row + 1 \in middle
                          /\ IsPrefix(Last(segments), lines[row + extra])
        Spent(row) == IF Last(segments) = <<>> THEN -1 ELSE ColumnOf(row, Len(Last(segments)))
        Starts(row, ended) == /\ MatchedAt(row)
                              /\ ~(ended /\ segments[1] # <<>> /\ FirstColumn(row) <= Spent(row))
        from[p \in (1 .. Len(rows) + 1) \X BOOLEAN] ==
            IF p[1] + extra > Len(rows) THEN {}
            ELSE IF Starts(p[1], p[2]) THEN {p[1]} \union from[<<p[1] + extra, TRUE>>]
            ELSE from[<<p[1] + 1, FALSE>>] IN
    from[<<1, FALSE>>]

(* Where a multi-row match that starts on a row has its first character: on a
   row below, if the needle begins with newlines. *)
MultirowPlace(rows, segments, row) ==
    LET filled == {k \in DOMAIN segments : segments[k] # <<>>}
        k == CHOOSE i \in filled : \A j \in filled : i <= j
        line == TrimEnd(rows[row].text) IN
    CASE filled = {} -> <<row - 1 + Len(segments) - 1, 0>>
      [] filled # {} /\ k = 1 -> <<row - 1, rows[row].cols[Len(line) - Len(segments[1]) + 1]>>
      [] OTHER -> <<row - 1 + k - 1, 0>>

(* Slip: the row is searched with its padding. *)
FindAllPadded(s, needle) ==
    LET wanted == Nfc(needle)
        rows == SearchableRows(s) IN
    CASE wanted = <<>> -> {<<0, 0>>}
      [] wanted # <<>> /\ (\A i \in DOMAIN wanted : wanted[i] # NewLine) ->
            UNION {{<<r - 1, rows[r].cols[i]>> : i \in MatchIndices(rows[r].text, wanted)} : r \in DOMAIN rows}
      [] OTHER -> {MultirowPlace(rows, Segments(wanted), r) : r \in MultirowMatches(rows, Segments(wanted))}

(* Screen::find_all, the matches in no order: it tells them in reading order. *)
FindAll(s, needle) ==
    LET wanted == Nfc(needle)
        rows == SearchableRows(s) IN
    CASE wanted = <<>> -> {<<0, 0>>}
      [] wanted # <<>> /\ (\A i \in DOMAIN wanted : wanted[i] # NewLine) ->
            UNION {{<<r - 1, rows[r].cols[i]>> : i \in MatchIndices(TrimEnd(rows[r].text), wanted)}
                   : r \in DOMAIN rows}
      [] OTHER -> {MultirowPlace(rows, Segments(wanted), r) : r \in MultirowMatches(rows, Segments(wanted))}

ReadBefore(p, q) == p[1] < q[1] \/ (p[1] = q[1] /\ p[2] <= q[2])
FirstOf(places) == {p \in places : \A q \in places : ReadBefore(p, q)}

(* Screen::find: the first match, if there is one. *)
Find(s, needle) == FirstOf(FindAll(s, needle))

(* Screen::find_by, for the cells of a style. *)
FindStyled(s, style) == FirstOf({p \in Places(s) : CellAt(s, p[1], p[2]).style = style})

(* Screen::locate: on the screen, or else in the history, in the column that
   the text before the match takes. *)
Locate(s, needle) ==
    LET wanted == Nfc(needle)
        Line(i) == Nfc(s.history[i])
        rows == {i \in DOMAIN s.history : HasNeedle(Line(i), wanted)}
        row == CHOOSE i \in rows : \A j \in rows : i <= j
        places == MatchIndices(Line(row), wanted)
        at == CHOOSE i \in places : \A j \in places : i <= j IN
    IF Find(s, needle) # {} THEN {[on |-> "screen", at |-> p] : p \in Find(s, needle)}
    ELSE IF needle = <<>> \/ (\E i \in DOMAIN needle : needle[i] = NewLine) \/ rows = {} THEN {}
    ELSE {[on |-> "history", at |-> <<row - 1, Columns(SubSeq(Line(row), 1, at - 1))>>]}

-----------------------------------------------------------------------------
(* Masking. *)

(* Slip: only the half of a wide character that was hit. *)
WithHalvesNone(s, hits) == hits

(* Slip: a wide cell reached through another does not pass the mask on. *)
WithHalvesOnce(s, hits) ==
    hits \union {<<p[1], p[2] + 1>> : p \in {q \in hits : CellAt(s, q[1], q[2]).wide /\ q[2] + 1 < s.cols}}
         \union {<<p[1], p[2] - 1>> : p \in {q \in hits : CellAt(s, q[1], q[2]).tail /\ q[2] > 0}}

(* Both halves of a wide character are masked, whichever was hit.  The cells are
   visited in order, so a wide cell reached through the one before it (a wide
   cell that a resize cut from its second half) passes the mask on in turn. *)
WithHalves(s, hits) ==
    LET reached == {p \in Places(s) : \E c \in 0 .. p[2] :
                        <<p[1], c>> \in hits /\ \A b \in c .. p[2] - 1 : CellAt(s, p[1], b).wide}
    IN reached \union {<<p[1], p[2] - 1>> : p \in {q \in reached : CellAt(s, q[1], q[2]).tail /\ q[2] > 0}}

(* Screen::apply_mask: the cells hold the fill, and keep their style. *)
ApplyMask(s, hits, fill) ==
    LET masked == WithHalves(s, hits) IN
    [s EXCEPT !.cells = [r \in 1 .. s.rows |-> [c \in 1 .. s.cols |->
        IF <<r - 1, c - 1>> \in masked THEN Cell(fill, CellAt(s, r - 1, c - 1).style, FALSE, FALSE)
        ELSE CellAt(s, r - 1, c - 1)]]]

MaskRect(s, cols, rows) ==
    LET c == ClampRange(cols, s.cols)
        r == ClampRange(rows, s.rows) IN
    ApplyMask(s, (r.start .. r.end - 1) \X (c.start .. c.end - 1), <<>>)

(* Screen::mask_cells, for the cells of a style. *)
MaskStyled(s, style) ==
    ApplyMask(s, {p \in Places(s) : CellAt(s, p[1], p[2]).style = style}, <<>>)

(* The cells of a part of a row's text. *)
SpanCells(rows, row, from, to) == {<<row - 1, rows[row].cols[i]>> : i \in from .. to}

(* Screen::masked_spans *)
MatchedCells(rows, needle) ==
    UNION {UNION {SpanCells(rows, r, i, i + Len(needle) - 1) : i \in MatchIndices(TrimEnd(rows[r].text), needle)}
           : r \in DOMAIN rows}

(* Screen::masked_multiline: the end of a row, whole rows, the start of a row. *)
MultirowCells(rows, segments) ==
    LET Line(r) == TrimEnd(rows[r].text)
        OfSegment(row, k) ==
            CASE k = 1 -> SpanCells(rows, row, Len(Line(row)) - Len(segments[1]) + 1, Len(Line(row)))
              [] k = Len(segments) -> SpanCells(rows, row + k - 1, 1, Len(segments[k]))
              [] OTHER -> SpanCells(rows, row + k - 1, 1, Len(Line(row + k - 1))) IN
    UNION {UNION {OfSegment(row, k) : k \in DOMAIN segments} : row \in MultirowMatches(rows, segments)}

(* Screen::mask_matching *)
MaskMatching(s, pattern, fill) ==
    LET wanted == Nfc(pattern)
        rows == SearchableRows(s) IN
    ApplyMask(s, IF \E i \in DOMAIN wanted : wanted[i] = NewLine
                 THEN MultirowCells(rows, Segments(wanted))
                 ELSE MatchedCells(rows, wanted), <<fill>>)
===============================================================================
