----------------------------- MODULE SavedScreens -----------------------------
(***************************************************************************)
(* A screen on its way out and back: the snapshot text with its styles and *)
(* the reader of it, the JSON document and its checks, the difference of   *)
(* two screens, and the runs that the renderings are made of.              *)
(*                                                                         *)
(* A style is a record: fg and bg, <<>> for the default, <<index>> or      *)
(* <<red, green, blue>>, and on, the set of its attributes.  A saved text  *)
(* is its header and its lines.  A line is its text, and if it is one of   *)
(* the styles block its row and its spans; as text, that is one word.      *)
(***************************************************************************)
EXTENDS Screens

CONSTANT MaxDimension    (* MAX_DIMENSION *)

StylesWord == "styles:"
NoneWord == "(none)"
SpansWord == "0: 0 bold"

TextLine(text) == [text |-> text, row |-> -1, spans |-> {}]
SpanLine(row, spans) == [text |-> <<SpansWord>>, row |-> row, spans |-> spans]

-----------------------------------------------------------------------------
(* Writing. *)

(* Style::tokens: what is not the default, as words. *)
Tokens(style) ==
    {<<"fg", c>> : c \in {style.fg} \ {<<>>}} \union {<<"bg", c>> : c \in {style.bg} \ {<<>>}}
        \union {<<a, <<>> >> : a \in style.on}

(* The longest runs of cells of one style, but for the default. *)
RowSpans(s, row) ==
    LET style == [c \in 0 .. s.cols - 1 |-> CellAt(s, row, c).style]
        Uniform(from, to) == \A c \in from .. to : style[c] = style[from]
        Longest(from, to) == /\ from = 0 \/ style[from - 1] # style[from]
                             /\ to = s.cols - 1 \/ style[to + 1] # style[to] IN
    {[from |-> p[1], to |-> p[2], tokens |-> Tokens(style[p[1]])] :
        p \in {q \in (0 .. s.cols - 1) \X (0 .. s.cols - 1) :
                 /\ q[1] <= q[2] /\ style[q[1]] # PlainStyle
                 /\ Uniform(q[1], q[2]) /\ Longest(q[1], q[2])}}

HiddenCursor == [row |-> 0, col |-> 0, visible |-> FALSE]

(* Display for Screen *)
Displayed(s) ==
    [cols |-> s.cols, rows |-> s.rows, cursor |-> IF s.cursor.visible THEN s.cursor ELSE HiddenCursor,
     lines |-> [i \in 1 .. s.rows |-> TextLine(RowTexts(s)[i])]]

(* Display for ScreenWithStyles *)
WithStyles(s) ==
    LET Spans(row) == RowSpans(s, row)
        spans == FlattenSeq([i \in 1 .. s.rows |->
                     IF Spans(i - 1) = {} THEN <<>> ELSE <<SpanLine(i - 1, Spans(i - 1))>>]) IN
    [Displayed(s) EXCEPT !.lines =
        @ \o <<TextLine(<<>>), TextLine(<<StylesWord>>)>>
          \o IF spans = <<>> THEN <<TextLine(<<NoneWord>>)>> ELSE spans]

-----------------------------------------------------------------------------
(* Reading: a result is a set of one element, or empty if the text is refused. *)

(* Releases up to 0.11.1 wrote the column after the last for a cursor that a
   full row had left there. *)
ReadCursor(cols, rows, cursor) ==
    LET col == IF cursor.col = cols THEN cols - 1 ELSE cursor.col IN
    IF cursor.row < rows /\ col < cols THEN {[cursor EXCEPT !.col = col]} ELSE {}

ReadHeader(file) ==
    IF file.cols \in 1 .. MaxDimension /\ file.rows \in 1 .. MaxDimension
    THEN IF file.cursor.visible THEN ReadCursor(file.cols, file.rows, file.cursor) ELSE {HiddenCursor}
    ELSE {}

EmptyRow(cols) == [cells |-> [c \in 1 .. cols |-> ErasedCell], col |-> 0, ok |-> TRUE]

(* A mark joins the character before it, which begins two columns back if it is
   wide.  The selector may make that character wide. *)
JoinMark(row, cols, c, widen) ==
    LET owner == IF row.cells[row.col].tail THEN row.col - 1 ELSE row.col
        joined == [row EXCEPT !.cells[owner].text = Append(@, c)]
        widens == /\ widen /\ c = Selector /\ owner = row.col
                  /\ ~row.cells[owner].wide /\ CellIsWide(joined.cells[owner].text)
        refused == \/ row.col = 0
                   \/ row.cells[owner].text = <<>>
                   \/ widens /\ row.col >= cols IN
    CASE refused -> [row EXCEPT !.ok = FALSE]
      [] ~refused /\ ~widens -> joined
      [] OTHER -> [joined EXCEPT !.cells[owner].wide = TRUE,
                                 !.cells[row.col + 1] = Cell(<<>>, PlainStyle, FALSE, TRUE),
                                 !.col = @ + 1]

(* A character takes its columns.  A wide one in the last column was cut there
   by a resize, and stays wide. *)
PlaceChar(row, cols, c, widen) ==
    LET width == CharColumns(c)
        first == Cell(<<c>>, PlainStyle, width = 2, FALSE)
        cut == width = 2 /\ row.col + 1 = cols
        refused == c \in ControlChars \/ (width > 0 /\ ~cut /\ row.col + width > cols) IN
    CASE refused -> [row EXCEPT !.ok = FALSE]
      [] ~refused /\ width = 0 -> JoinMark(row, cols, c, widen)
      [] ~refused /\ cut -> [row EXCEPT !.cells[cols] = first, !.col = cols]
      [] OTHER -> [row EXCEPT !.cells = [i \in 1 .. cols |->
                                  CASE i = row.col + 1 -> first
                                    [] width = 2 /\ i = row.col + 2 -> Cell(<<>>, PlainStyle, FALSE, TRUE)
                                    [] OTHER -> row.cells[i]],
                              !.col = row.col + width]

(* parse::lay_out_row *)
LayOutRow(text, cols, widen) ==
    LET upTo[n \in 0 .. Len(text)] ==
            IF n = 0 THEN EmptyRow(cols)
            ELSE IF upTo[n - 1].ok THEN PlaceChar(upTo[n - 1], cols, text[n], widen) ELSE upTo[n - 1] IN
    upTo[Len(text)]

(* A row that does not fit as it is drawn now may be one that a release wrote
   to which the selector changed nothing. *)
ReadRow(text, cols) ==
    LET drawn == LayOutRow(text, cols, TRUE) IN
    IF drawn.ok THEN drawn ELSE LayOutRow(text, cols, FALSE)

StyleOf(tokens) ==
    LET Color(ground) == IF \E c \in tokens : c[1] = ground
                         THEN (CHOOSE c \in tokens : c[1] = ground)[2] ELSE <<>> IN
    [fg |-> Color("fg"), bg |-> Color("bg"), on |-> {t[1] : t \in tokens} \ {"fg", "bg"}]

SpansOk(s, line) ==
    /\ line.row \in 0 .. s.rows - 1
    /\ \A span \in line.spans : span.from <= span.to /\ span.to < s.cols

ReadStyles(s, lines) ==
    LET Says(line) == line.text \notin {<<>>, <<NoneWord>>}
        said == SelectSeq(lines, Says)
        Spans(row) == UNION {said[i].spans : i \in {j \in DOMAIN said : said[j].row = row}}
        Over(row, col) == {span \in Spans(row) : span.from <= col /\ col <= span.to} IN
    IF \E i \in DOMAIN said : ~SpansOk(s, said[i]) THEN {}
    ELSE {[s EXCEPT !.cells = [r \in 1 .. s.rows |-> [c \in 1 .. s.cols |->
              [s.cells[r][c] EXCEPT !.style =
                  IF Over(r - 1, c - 1) = {} THEN PlainStyle
                  ELSE StyleOf((CHOOSE span \in Over(r - 1, c - 1) : TRUE).tokens)]]]]}

(* Slip: the grid ends at the word that begins the styles. *)
GridLinesToTheWord(file) ==
    LET words == {i \in DOMAIN file.lines : file.lines[i].text = <<StylesWord>>} IN
    IF words = {} THEN Least(Len(file.lines), file.rows)
    ELSE Least(file.rows, (CHOOSE i \in words : \A j \in words : i <= j) - 1)

(* The header says where the grid ends, whatever the lines say. *)
GridLines(file) == Least(Len(file.lines), file.rows)

(* Screen::parse *)
Parse(file) ==
    LET split == GridLines(file)
        rows == [i \in 1 .. file.rows |->
                    IF i <= split THEN ReadRow(file.lines[i].text, file.cols) ELSE EmptyRow(file.cols)]
        rest == {i \in split + 1 .. Len(file.lines) : file.lines[i].text # <<>>}
        word == CHOOSE i \in rest : \A j \in rest : i <= j
        Bare(cursor) ==
            [cols |-> file.cols, rows |-> file.rows, cursor |-> cursor,
             cells |-> [r \in 1 .. file.rows |-> rows[r].cells], wrapped |-> <<>>, history |-> <<>>] IN
    IF (\E r \in DOMAIN rows : ~rows[r].ok) \/ (rest # {} /\ file.lines[word].text # <<StylesWord>>) THEN {}
    ELSE IF rest = {} THEN {Bare(c) : c \in ReadHeader(file)}
    ELSE UNION {ReadStyles(Bare(c), SubSeq(file.lines, word + 1, Len(file.lines))) : c \in ReadHeader(file)}

-----------------------------------------------------------------------------
(* JSON. *)

JsonFormat == 1

ToJson(s) == [format |-> JsonFormat, screen |-> s]

OneColumn(c) == c \notin NonAscii \union ControlChars

(* serde_impl::check_cell: what a termlens can have written in a cell. *)
CellReads(cell) ==
    /\ \A i \in DOMAIN cell.text : cell.text[i] \notin ControlChars
    /\ cell.text = <<>> => ~cell.wide
    /\ cell.text # <<>> =>
        /\ ~cell.tail
        /\ cell.wide => ~OneColumn(Head(cell.text)) \/ (\E i \in DOMAIN cell.text : cell.text[i] = Selector)
        /\ \A i \in 2 .. Len(cell.text) : ~OneColumn(cell.text[i])

RowReads(cells) ==
    \A c \in DOMAIN cells : CellReads(cells[c]) /\ (cells[c].tail => c > 1 /\ cells[c - 1].wide)

(* The document without its out-of-band state: neither the check of the history's
   rows, check_row again, nor the mask on the mouse modes is here. *)
FromJson(document) ==
    LET s == document.screen IN
    IF /\ document.format = JsonFormat
       /\ s.cols \in 1 .. MaxDimension /\ s.rows \in 1 .. MaxDimension
       /\ Len(s.cells) = s.rows
       /\ \A r \in DOMAIN s.cells : Len(s.cells[r]) = s.cols /\ RowReads(s.cells[r])
    THEN {[s EXCEPT !.cursor = c] : c \in ReadCursor(s.cols, s.rows, s.cursor)}
    ELSE {}

-----------------------------------------------------------------------------
(* Screen::diff *)

SameToTheEye(a, b) ==
    LET IsBlank(cell) == cell.text \in {<<>>, <<Space>>} IN
    /\ a.style = b.style /\ a.wide = b.wide /\ a.tail = b.tail
    /\ a.text = b.text \/ (IsBlank(a) /\ IsBlank(b))

(* The first columns of a row; a wide character cut at their edge is blank. *)
OverlapText(s, row, cols) ==
    TrimEnd(Laid([c \in 1 .. cols |-> IF c = cols /\ CellAt(s, row, c - 1).wide THEN ErasedCell
                                      ELSE CellAt(s, row, c - 1)], FALSE).text)

Diff(a, b) ==
    LET cols == Least(a.cols, b.cols)
        rows == Least(a.rows, b.rows)
        cells == {p \in (0 .. rows - 1) \X (0 .. cols - 1) :
                     ~SameToTheEye(CellAt(a, p[1], p[2]), CellAt(b, p[1], p[2]))}
        changed == {p[1] : p \in cells} IN
    [sizes |-> << <<a.cols, a.rows>>, <<b.cols, b.rows>> >>, cursors |-> <<a.cursor, b.cursor>>,
     cells |-> cells, unchanged |-> rows - Cardinality(changed),
     rows |-> {<<r, OverlapText(a, r, cols), OverlapText(b, r, cols)>> : r \in changed},
     styles |-> {<<r, RowSpans(a, r), RowSpans(b, r)>> : r \in {q \in changed : RowSpans(a, q) # RowSpans(b, q)}}]

DiffIsEmpty(d) == d.cells = {} /\ d.sizes[1] = d.sizes[2] /\ SameCursor(d.cursors[1], d.cursors[2])

-----------------------------------------------------------------------------
(* Renderings. *)

(* render::runs: the cells of a row, as runs of one style. *)
Runs(s, row) ==
    LET upTo[n \in 0 .. s.cols] ==
            IF n = 0 THEN <<>>
            ELSE LET runs == upTo[n - 1]
                     cell == CellAt(s, row, n - 1) IN
                 CASE cell.tail /\ runs = <<>> -> runs
                   [] cell.tail /\ runs # <<>> -> [runs EXCEPT ![Len(runs)].cols = @ + 1]
                   [] ~cell.tail /\ runs # <<>> /\ Last(runs).style = cell.style ->
                        [runs EXCEPT ![Len(runs)].cols = @ + 1, ![Len(runs)].text = @ \o Glyph(cell)]
                   [] OTHER -> Append(runs, [col |-> n - 1, cols |-> 1, style |-> cell.style, text |-> Glyph(cell)]) IN
    upTo[s.cols]

AttributeCodes ==
    [bold |-> 1, dim |-> 2, italic |-> 3, underline |-> 4, blink |-> 5, reverse |-> 7, conceal |-> 8, strikethrough |-> 9]

(* The parameters of SGR for a colour, on a ground that counts from `base`. *)
ColorParams(color, base) ==
    CASE color = <<>> -> <<>>
      [] Len(color) = 1 /\ color[1] < 8 -> <<base + color[1]>>
      [] Len(color) = 1 /\ color[1] \in 8 .. 15 -> <<base + 52 + color[1]>>
      [] Len(color) = 1 /\ color[1] > 15 -> <<base + 8, 5, color[1]>>
      [] OTHER -> <<base + 8, 2>> \o color

(* render::sgr: a reset, the attributes in their order, the colours. *)
Sgr(style) ==
    LET IsOn(code) == \E a \in style.on : AttributeCodes[a] = code IN
    <<0>> \o SelectSeq([i \in 1 .. 9 |-> i], IsOn) \o ColorParams(style.fg, 30) \o ColorParams(style.bg, 40)

(* Screen::to_ansi, a row: SGR, text and a reset for every run, and for a run of
   the default style its text alone. *)
AnsiRow(s, row) ==
    [i \in DOMAIN Runs(s, row) |->
        [sgr |-> IF Runs(s, row)[i].style = PlainStyle THEN <<>> ELSE Sgr(Runs(s, row)[i].style),
         text |-> Runs(s, row)[i].text]]
===============================================================================
