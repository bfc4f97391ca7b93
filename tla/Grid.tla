--------------------------------- MODULE Grid ---------------------------------
(***************************************************************************)
(* The vt100 parser and its grids, as far as the emulator reads them: a    *)
(* parser that is given bytes, the main and the alternate screen, and the  *)
(* main screen's bounded history.  It is a library, modelled from what the *)
(* code says of it and relies on.  Rows and columns count from 0, and the  *)
(* sequences that hold them from 1.                                        *)
(*                                                                         *)
(* `left` is no part of the parser: it is every row that the main screen   *)
(* has pushed off and not taken back, for the properties.                  *)
(***************************************************************************)
EXTENDS Unhandled

CONSTANTS
    Wide,          (* characters two columns wide *)
    Widened,       (* cell texts a selector makes two columns wide *)
    VS16,          (* U+FE0F, as bytes *)
    HardTab,       (* the parser's own, fixed tab interval *)
    Scrollback     (* rows of history it keeps *)

PlainAttrs == [on |-> {}, fg |-> <<>>, bg |-> <<>>]

Cell(text, wide, tail, attrs) == [text |-> text, wide |-> wide, tail |-> tail, attrs |-> attrs]
Blank == Cell(<<>>, FALSE, FALSE, PlainAttrs)

BlankLine(cols) == [cells |-> Repeat(Blank, cols), wrapped |-> FALSE]
Home == [row |-> 0, col |-> 0]

BlankScreen(rows, cols) == [lines |-> Repeat(BlankLine(cols), rows), at |-> Home, saved |-> Home]

NewGrid(rows, cols) ==
    [rows |-> rows, cols |-> cols, main |-> BlankScreen(rows, cols), alt |-> BlankScreen(rows, cols),
     onAlt |-> FALSE, attrs |-> PlainAttrs, savedAttrs |-> PlainAttrs, history |-> <<>>,
     modes |-> {25}, mouse |-> 0, held |-> <<>>, char |-> <<>>,
     unhandled |-> NoneUnhandled, left |-> <<>>]

Shown(g) == IF g.onAlt THEN g.alt ELSE g.main
Show(g, screen) == IF g.onAlt THEN [g EXCEPT !.alt = screen] ELSE [g EXCEPT !.main = screen]

CellsAt(g, row) == Shown(g).lines[row + 1].cells
CellAt(g, row, col) == CellsAt(g, row)[col + 1]

(* The text of a line, without the blanks at its end. *)
LineText(line) ==
    LET Lead(cell) == ~cell.tail
        Drawn(cell) == cell.text \notin {<<>>, <<" ">>}
        drawn == {i \in DOMAIN line.cells : Drawn(line.cells[i])}
        end == IF drawn = {} THEN 0 ELSE CHOOSE i \in drawn : \A j \in drawn : j <= i
        cells == SelectSeq(SubSeq(line.cells, 1, end), Lead) IN
    [i \in DOMAIN cells |-> IF Drawn(cells[i]) THEN cells[i].text ELSE <<" ">>]

ScreenText(screen) == [i \in DOMAIN screen.lines |-> LineText(screen.lines[i])]

(* A line at another width: no longer wrapped, and no half of a character. *)
Resized(line, cols) ==
    LET old == line.cells
        cells == SubSeq(old, 1, Lesser(cols, Len(old))) \o Repeat(Blank, Greater(0, cols - Len(old))) IN
    IF cols = Len(old) THEN line
    ELSE [cells |-> IF cells[cols].wide THEN [cells EXCEPT ![cols] = Blank] ELSE cells,
          wrapped |-> FALSE]

-----------------------------------------------------------------------------
(* Scrolling. *)

(* Lines go off the top of the main screen into the history, which keeps the
   newest of them. *)
Push(g, lines) ==
    LET history == g.history \o lines
        evicted == Greater(0, Len(history) - Scrollback) IN
    [g EXCEPT !.history = SubSeq(history, evicted + 1, Len(history)),
              !.unhandled = OnScroll(@, evicted, FALSE),
              !.left = @ \o [i \in DOMAIN lines |-> LineText(lines[i])]]

ScrollUp(g) ==
    LET screen == Shown(g)
        scrolled == Show(g, [screen EXCEPT !.lines = Append(Tail(@), BlankLine(g.cols))]) IN
    IF g.onAlt THEN scrolled ELSE Push(scrolled, <<Head(screen.lines)>>)

Move(g, row, col) ==
    Show(g, [Shown(g) EXCEPT !.at = [row |-> Lesser(row, g.rows - 1), col |-> col]])

LineFeed(g) ==
    LET at == Shown(g).at IN
    IF at.row < g.rows - 1 THEN Move(g, at.row + 1, at.col) ELSE ScrollUp(g)

-----------------------------------------------------------------------------
(* Drawing. *)

Columns(char) == CASE char = VS16 -> 0 [] char \in Wide -> 2 [] OTHER -> 1

(* The cells of a row, once those from `from` to `to` are another's: the other
   half of a character cut in two goes blank. *)
Mended(cells, from, to) ==
    [i \in DOMAIN cells |->
        IF \/ i = from - 1 /\ cells[i].wide
           \/ i = to + 1 /\ cells[i].tail
        THEN Blank ELSE cells[i]]

PutCell(g, text, width) ==
    LET screen == Shown(g)
        row == screen.at.row + 1
        first == screen.at.col + 1
        last == screen.at.col + width
        drawn == [i \in 1 .. g.cols |->
            CASE i = first -> Cell(text, width = 2, FALSE, g.attrs)
              [] i > first /\ i <= last -> Cell(<<>>, FALSE, TRUE, PlainAttrs)
              [] OTHER -> Mended(screen.lines[row].cells, first, last)[i]] IN
    Show(g, [screen EXCEPT !.lines[row].cells = drawn, !.at.col = last])

(* A character that does not fit wraps: the row is wrapped, unless its last
   column is empty. *)
Wrapped(g) ==
    LET screen == Shown(g)
        row == screen.at.row + 1
        last == screen.lines[row].cells[g.cols]
        full == last.text # <<>> \/ last.tail
        marked == Show(g, [screen EXCEPT !.lines[row].wrapped = full, !.at.col = 0]) IN
    LineFeed(marked)

(* A selector joins the character before the cursor, and may widen it. *)
Join(g) ==
    LET screen == Shown(g)
        at == screen.at
        row == at.row + 1
        cells == screen.lines[row].cells
        base == IF at.col > 1 /\ cells[at.col].tail THEN at.col - 1 ELSE at.col
        text == IF cells[base].text = <<>> THEN <<" ">> ELSE cells[base].text
        widens == ~cells[base].wide /\ text \in Widened
        joined == [i \in 1 .. g.cols |->
            CASE i = base -> [cells[i] EXCEPT !.text = text \o VS16, !.wide = @ \/ widens]
              [] widens /\ i = base + 1 -> Cell(<<>>, FALSE, TRUE, PlainAttrs)
              [] OTHER -> IF widens THEN Mended(cells, base, base + 1)[i] ELSE cells[i]] IN
    IF at.col = 0 THEN g
    ELSE Show(g, [screen EXCEPT !.lines[row].cells = joined,
                                !.at.col = IF widens THEN @ + 1 ELSE @])

(* U+FFFD is not drawn, nor is what is wider than the screen. *)
PrintChar(g, char) ==
    LET width == Columns(char) IN
    CASE width = 0 -> Join(g)
      [] char = Replacement \/ width > g.cols -> g
      [] OTHER -> PutCell(IF Shown(g).at.col + width > g.cols THEN Wrapped(g) ELSE g, char, width)

(* ICH and ECH, at the cursor. *)
InsertBlanks(g, count) ==
    LET screen == Shown(g)
        row == screen.at.row + 1
        col == screen.at.col
        old == screen.lines[row].cells
        cut == Mended(old, col + 1, col)
        moved == SubSeq(cut, 1, col) \o Repeat(Blank, count) \o SubSeq(cut, col + 1, g.cols)
        cells == SubSeq(moved, 1, g.cols) IN
    Show(g, [screen EXCEPT !.lines[row].cells =
        IF cells[g.cols].wide THEN [cells EXCEPT ![g.cols] = Blank] ELSE cells])

EraseChars(g, count) ==
    LET screen == Shown(g)
        row == screen.at.row + 1
        first == screen.at.col + 1
        last == Lesser(screen.at.col + count, g.cols)
        old == screen.lines[row].cells IN
    Show(g, [screen EXCEPT !.lines[row].cells =
        [i \in 1 .. g.cols |-> IF i \in first .. last THEN Cell(<<>>, FALSE, FALSE, g.attrs)
                               ELSE Mended(old, first, last)[i]]])

Erase(g, what) ==
    LET lines == Repeat([cells |-> Repeat(Cell(<<>>, FALSE, FALSE, g.attrs), g.cols),
                         wrapped |-> FALSE], g.rows) IN
    CASE what = 2 -> Show(g, [Shown(g) EXCEPT !.lines = lines])
      [] what = 3 /\ ~g.onAlt ->
            [g EXCEPT !.history = <<>>, !.unhandled = OnScroll(@, Len(g.history), FALSE)]
      [] OTHER -> g

-----------------------------------------------------------------------------
(* What sequences do. *)

Attribute == (1 :> "bold") @@ (2 :> "dim") @@ (3 :> "italic") @@ (4 :> "underline") @@ (7 :> "inverse")
AttributeOff == (22 :> {"bold", "dim"}) @@ (23 :> {"italic"}) @@ (24 :> {"underline"}) @@ (27 :> {"inverse"})

(* A group of an SGR, with the number it begins with and those of the four
   after it: the attributes, the groups that a colour still takes, and whether
   all was known. A group with sub-parameters is not. *)
SelectGroup(s, simple, n, args) ==
    LET colour == IF args[1] = 5 THEN <<args[2]>> ELSE SubSeq(args, 2, 4) IN
    CASE s.taken > 0 -> [s EXCEPT !.taken = @ - 1]
      [] s.taken = 0 /\ ~simple -> [s EXCEPT !.known = FALSE]
      [] OTHER ->
            CASE n = 0 -> [s EXCEPT !.attrs = PlainAttrs]
              [] n \in DOMAIN Attribute -> [s EXCEPT !.attrs.on = @ \union {Attribute[n]}]
              [] n \in DOMAIN AttributeOff -> [s EXCEPT !.attrs.on = @ \ AttributeOff[n]]
              [] n \in {38, 48} /\ args[1] \in {2, 5} ->
                    [s EXCEPT !.attrs[IF n = 38 THEN "fg" ELSE "bg"] = colour,
                              !.taken = IF args[1] = 5 THEN 2 ELSE 4]
              [] n \in {39, 49} -> [s EXCEPT !.attrs[IF n = 39 THEN "fg" ELSE "bg"] = <<>>]
              [] OTHER -> [s EXCEPT !.known = FALSE]

(* SGR, a group at a time; one it does not know is reported, and the rest is
   still read. *)
SelectGraphics(g, cs) ==
    LET Numbers4(groups) == [i \in DOMAIN groups |-> NumberOf(groups[i])] \o Repeat(0, 4)
        Selected(groups, numbers) ==
            LET upTo[i \in 0 .. Len(groups)] ==
                    IF i = 0 THEN [attrs |-> g.attrs, taken |-> 0, known |-> TRUE]
                    ELSE SelectGroup(upTo[i - 1], ":" \notin Range(groups[i]), numbers[i],
                                     SubSeq(numbers, i + 1, i + 4)) IN
            upTo[Len(groups)]
        Set(s) == [g EXCEPT !.attrs = s.attrs,
                            !.unhandled = IF s.known THEN @ ELSE UnhandledCsi(@, cs)] IN
    Set(Selected(cs.groups, Numbers4(cs.groups)))

SaveCursor(g) == Show([g EXCEPT !.savedAttrs = g.attrs], [Shown(g) EXCEPT !.saved = Shown(g).at])
RestoreCursor(g) == Show([g EXCEPT !.attrs = g.savedAttrs], [Shown(g) EXCEPT !.at = Shown(g).saved])

KnownModes == {1, 25, 2004}
MouseModes == {9, 1000, 1002, 1003}

SetMode(g, mode, on) ==
    CASE mode \in KnownModes -> [g EXCEPT !.modes = IF on THEN @ \union {mode} ELSE @ \ {mode}]
      [] mode \in MouseModes -> [g EXCEPT !.mouse = CASE on -> mode
                                                      [] ~on /\ @ = mode -> 0
                                                      [] OTHER -> @]
      [] mode = 47 -> [g EXCEPT !.onAlt = on]
      [] mode = 1049 /\ on ->
            [SaveCursor(g) EXCEPT !.onAlt = TRUE, !.alt.lines = BlankScreen(g.rows, g.cols).lines]
      [] mode = 1049 /\ ~on -> RestoreCursor([g EXCEPT !.onAlt = FALSE])
      [] OTHER -> g

PrivateMode(g, cs, on) ==
    LET modes == [i \in DOMAIN cs.groups |-> NumberOf(cs.groups[i])]
        upTo[i \in 0 .. Len(modes)] == IF i = 0 THEN g ELSE SetMode(upTo[i - 1], modes[i], on)
        after == upTo[Len(modes)]
        known == KnownModes \union MouseModes \union {47, 1049, 1005, 1006} IN
    IF Range(modes) \subseteq known THEN after
    ELSE [after EXCEPT !.unhandled = UnhandledCsi(@, cs)]

(* A control sequence. Those that no stream of the instance has are left out:
   the other cursor movements, the erasures within a line, the margins. *)
Control(g, cs) ==
    LET at == Shown(g).at
        n == NumberOf(Head(cs.groups))
        count == Greater(n, 1)
        Plain(final) == cs.marker = "" /\ cs.inner = "" /\ cs.final = final
        Private(final) == cs.marker = "?" /\ cs.inner = "" /\ cs.final = final IN
    CASE Plain("@") -> InsertBlanks(g, count)
      [] Plain("B") -> Move(g, at.row + count, at.col)
      [] Plain("C") -> Move(g, at.row, Lesser(at.col + count, g.cols - 1))
      [] Plain("G") -> Move(g, at.row, Lesser(count - 1, g.cols - 1))
      [] Plain("d") -> Move(g, count - 1, at.col)
      [] Plain("X") -> EraseChars(g, count)
      [] Plain("J") \/ Private("J") -> Erase(g, n)
      [] Plain("m") -> SelectGraphics(g, cs)
      [] Private("h") \/ Private("l") -> PrivateMode(g, cs, cs.final = "h")
      [] OTHER -> [g EXCEPT !.unhandled = UnhandledCsi(@, cs)]

Escape(g, inner, final) ==
    CASE inner = <<>> /\ final = "7" -> SaveCursor(g)
      [] inner = <<>> /\ final = "8" -> RestoreCursor(g)
      [] inner = <<>> /\ final = "c" ->
            [NewGrid(g.rows, g.cols) EXCEPT !.unhandled = g.unhandled, !.left = g.left]
      [] OTHER -> [g EXCEPT !.unhandled = UnhandledEscape(@, inner, final)]

(* An OSC, at its end. A title goes to a callback nobody listens to. *)
Title(params) == Head(params) \in {<<"0">>, <<"2">>} /\ Len(params) = 2
OscEnd(g) ==
    LET params == Split(SubSeq(g.held, 3, Len(g.held)), ";") IN
    IF Title(params) THEN g ELSE [g EXCEPT !.unhandled = UnhandledOsc(@, params)]

(* A control, executed wherever it stands. *)
Execute(g, b) ==
    LET at == Shown(g).at
        stop == ((at.col \div HardTab) + 1) * HardTab IN
    CASE b = "LF" -> LineFeed(g)
      [] b = "CR" -> Move(g, at.row, 0)
      [] b = "HT" -> Move(g, at.row, Lesser(stop, g.cols - 1))
      [] OTHER -> g

-----------------------------------------------------------------------------
(* The parser. `held` is the escape sequence that is not complete, `char` the
   character. *)

PutText(g, b) ==
    LET char == Append(g.char, b)
        length == IF char[1] \in DOMAIN Leads THEN Leads[char[1]] + 1 ELSE 1 IN
    IF Len(char) < length THEN [g EXCEPT !.char = char]
    ELSE PrintChar([g EXCEPT !.char = <<>>], char)

ParserState(g) ==
    CASE g.held = <<>> -> "ground"
      [] Len(g.held) = 1 -> "esc"
      [] g.held[2] = "[" -> "csi"
      [] g.held[2] = "]" -> "osc"
      [] g.held[2] \in {"P", "X", "^", "_"} -> "string"
      [] OTHER -> "esc"

PutByteIn(kind, g, b) ==
    LET held == Append(g.held, b)
        Hold == [g EXCEPT !.held = held]
        Done == [g EXCEPT !.held = <<>>] IN
    CASE b \in {"ESC"} \union Aborting \/ (kind = "osc" /\ b = "BEL") ->
            [IF kind = "osc" THEN OscEnd(g) ELSE g EXCEPT !.held = IF b = "ESC" THEN <<b>> ELSE <<>>]
      [] kind = "osc" /\ b \notin {"BEL", "ESC"} \union Aborting -> Hold
      [] kind = "string" /\ b \notin {"ESC"} \union Aborting -> g
      [] kind = "ground" /\ IsPrintable(b) -> PutText(g, b)
      [] kind \in {"ground", "esc", "csi"} /\ b \in Controls -> Execute(g, b)
      [] kind \in {"esc", "csi"} /\ b \in HighBytes -> g
      [] kind = "csi" /\ ~IsFinal(b) /\ b \notin InSequence \union Aborting -> Hold
      [] kind = "csi" /\ IsFinal(b) -> Control(Done, ControlSequence(held))
      [] kind = "esc" /\ \/ b \in Intermediates
                         \/ Len(g.held) = 1 /\ b \in {"[", "]", "P", "X", "^", "_"} -> Hold
      [] OTHER -> IF kind = "esc" THEN Escape(Done, SubSeq(g.held, 2, Len(g.held)), b) ELSE g

PutByte(g, b) == PutByteIn(ParserState(g), g, b)

RECURSIVE PutBytes(_, _)
PutBytes(g, bytes) == IF bytes = <<>> THEN g ELSE PutBytes(PutByte(g, Head(bytes)), Tail(bytes))

-----------------------------------------------------------------------------
(* Resizing. *)

(* A screen of fewer rows drops those below the cursor first; the rest of the
   shortfall goes off the top. *)
PushedBy(screen, rows) ==
    LET short == Len(screen.lines) - rows
        below == Len(screen.lines) - screen.at.row - 1 IN
    Greater(0, short - below)

ResizeScreen(screen, rows, cols, pulled) ==
    LET pushed == PushedBy(screen, rows)
        kept == SubSeq(screen.lines, pushed + 1, Lesser(pushed + rows, Len(screen.lines)))
        lines == pulled \o kept \o Repeat(BlankLine(cols), rows - Len(pulled) - Len(kept))
        At(at) == [row |-> Lesser(Greater(0, at.row + Len(pulled) - pushed), rows - 1),
                   col |-> Lesser(at.col, cols - 1)] IN
    [lines |-> [i \in 1 .. rows |-> Resized(lines[i], cols)],
     at |-> At(screen.at), saved |-> At(screen.saved)]

(* A taller main screen takes the newest rows of the history back. *)
ResizeGrid(g, rows, cols) ==
    LET pushed == PushedBy(g.main, rows)
        pulled == Greater(0, Lesser(rows - g.rows, Len(g.history)))
        old == Len(g.history) - pulled
        popped == [g EXCEPT !.history = SubSeq(@, 1, old),
                            !.left = SubSeq(@, 1, Len(@) - pulled)] IN
    [Push(popped, SubSeq(g.main.lines, 1, pushed)) EXCEPT
        !.rows = rows, !.cols = cols,
        !.main = ResizeScreen(g.main, rows, cols, SubSeq(g.history, old + 1, Len(g.history))),
        !.alt = ResizeScreen(g.alt, rows, cols, <<>>)]

(* The history rows from `from` on, once the view has been moved over them: it
   widens each to the screen, and with that they are no longer wrapped. *)
ViewHistory(g, from) ==
    [g EXCEPT !.history = [i \in DOMAIN @ |->
        IF i > from /\ Len(@[i].cells) < g.cols THEN Resized(@[i], g.cols) ELSE @[i]]]
===============================================================================
