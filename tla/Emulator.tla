------------------------------- MODULE Emulator -------------------------------
(***************************************************************************)
(* The emulator adapter: one read is scanned by the tracker, byte by byte, *)
(* and fed to the grid and to its attribute shadow, in bulk, but for what  *)
(* the vt100 parser does not do or does wrong: those bytes are fed in      *)
(* pieces, replaced, or followed by the adapter's own.                     *)
(***************************************************************************)
EXTENDS SeqTracker, Grid, Shadow

CONSTANTS
    StandIn,          (* what the grid is fed for U+FFFD *)
    GraphicsHistory,  (* HISTORY *)
    ImageSupport,     (* the inline graphics the test declared *)
    CellSize          (* ... and the size of a cell in pixels, if any *)

NewEmulator(rows, cols) ==
    [grid |-> NewGrid(rows, cols), shadow |-> NewGrid(rows, cols),
     colors |-> NothingPending, carriers |-> NothingPending, tracker |-> NewTracker(cols),
     updating |-> FALSE, history |-> <<>>, captured |-> 0, reset |-> FALSE,
     graphics |-> <<>>, forgets |-> <<>>, staged |-> <<>>]

Esc(text) == <<"ESC">> \o text
NumberByte(n) == ToString(n)
Csi(n, final) == Esc(<<"[", NumberByte(n), final>>)

(* A sequence with every `from` in it replaced. *)
Substituted(bytes, from, to) ==
    LET at[i \in 1 .. Len(bytes) + Len(from)] ==
            CASE i > Len(bytes) -> <<>>
              [] i <= Len(bytes) /\ StartsWith(SubSeq(bytes, i, Len(bytes)), from) -> to \o at[i + Len(from)]
              [] OTHER -> <<bytes[i]>> \o at[i + 1] IN
    at[1]

StandInForReplacement(bytes) == Substituted(bytes, Replacement, StandIn)
RestoreReplacement(text) == Substituted(text, StandIn, Replacement)

(* A cursor that is about to wrap is reported on the last column. *)
CursorPosition(e) ==
    LET at == Shown(e.grid).at IN [row |-> at.row, col |-> Lesser(at.col, e.grid.cols - 1)]

-----------------------------------------------------------------------------
(* What a cell becomes in a snapshot: the shadow's carriers are the blink,
   conceal and strikethrough; the second half of a wide character is painted
   as the first. *)

ConvertCell(cell, shadow) ==
    LET carried == {c \in {<<"bold", "blink">>, <<"italic", "conceal">>,
                           <<"underline", "strikethrough">>} : c[1] \in shadow.attrs.on} IN
    [text |-> RestoreReplacement(cell.text), wide |-> cell.wide, tail |-> cell.tail,
     style |-> [cell.attrs EXCEPT !.on = @ \union {c[2] : c \in carried}]]

ConvertLine(cells, shadows) ==
    [i \in DOMAIN cells |->
        LET own == ConvertCell(cells[i], shadows[i]) IN
        IF own.tail /\ i > 1
        THEN [own EXCEPT !.text = <<>>, !.style = ConvertCell(cells[i - 1], shadows[i - 1]).style]
        ELSE own]

RestoredText(line) ==
    LET text == LineText(line) IN [i \in DOMAIN text |-> RestoreReplacement(text[i])]

-----------------------------------------------------------------------------
(* History: rows that scrolled off are copied after every feed. *)

(* copy_top_rows: lines as they stand, at the back; the oldest go. *)
CopyRows(e, lines, shadows) ==
    LET copied == [i \in DOMAIN lines |->
            [text |-> RestoredText(lines[i]), cells |-> ConvertLine(lines[i].cells, shadows[i].cells)]] IN
    [e EXCEPT !.history = Newest(@ \o copied, Scrollback)]

(* copy_history: what the view shows is widened, in both parsers. *)
CopyHistory(e, from) ==
    LET seen == [e EXCEPT !.grid = ViewHistory(@, from), !.shadow = ViewHistory(@, from)]
        New(g) == SubSeq(g.history, from + 1, Len(g.history)) IN
    IF from >= Len(e.grid.history) THEN e ELSE CopyRows(seen, New(seen.grid), New(seen.shadow))

(* Slip: what is new is told from the history's length. *)
CaptureByLength(e) ==
    LET length == Len(e.grid.history)
        mark == IF e.reset THEN 0 ELSE e.captured
        copied == CopyHistory(e, Lesser(mark, length)) IN
    IF Scrollback = 0 \/ e.grid.onAlt THEN e
    ELSE [copied EXCEPT !.captured = length, !.reset = FALSE]

(* capture_scrolled_rows: the rows that the copy and the parser share are
   those of the last capture but for the dropped. The ones that are gone from
   the back were taken back by a resize, and the rest is new. The alternate
   screen hides the history. *)
CaptureScrolledRows(e) ==
    LET length == Len(e.grid.history)
        mark == IF e.reset THEN 0 ELSE e.captured
        kept == Greater(0, mark - e.grid.unhandled.evicted)
        pulled == Lesser(Greater(0, kept - length), Len(e.history))
        settled == [e EXCEPT !.grid.unhandled.evicted = 0, !.reset = FALSE,
                             !.history = SubSeq(@, 1, Len(@) - pulled)] IN
    IF Scrollback = 0 \/ e.grid.onAlt THEN e
    ELSE [CopyHistory(settled, Lesser(kept, length)) EXCEPT !.captured = length]

-----------------------------------------------------------------------------
(* Feeding. *)

(* The two parsers, each behind its rewriter. *)
Parsers(e) == ("colours" :> [grid |-> e.grid, pending |-> e.colors])
                @@ ("carriers" :> [grid |-> e.shadow, pending |-> e.carriers])

PutRewritten(g, rewritten) == [grid |-> PutBytes(g, rewritten.out), pending |-> rewritten.pending]

PutBoth(parsers, bytes) ==
    [rewriter \in DOMAIN parsers |->
        PutRewritten(parsers[rewriter].grid, RewriteStream(rewriter, parsers[rewriter].pending, bytes))]

Feed(e, bytes) ==
    LET With(parsers) ==
            [e EXCEPT !.grid = parsers["colours"].grid, !.colors = parsers["colours"].pending,
                      !.shadow = parsers["carriers"].grid, !.carriers = parsers["carriers"].pending] IN
    IF bytes = <<>> THEN e
    ELSE CaptureScrolledRows(With(PutBoth(Parsers(e), StandInForReplacement(bytes))))

FeedStaged(e, tail) == Feed([e EXCEPT !.staged = <<>>], e.staged \o tail)

(* apply_tabs, once all that comes before the last byte is fed: the column is
   read with no clamp; the move follows as a CHA. *)
TabsDone(fed, done, last) ==
    Feed(Feed([fed EXCEPT !.tracker.tabs = done.tabs], last),
         IF done.to = {} THEN <<>> ELSE Csi(Some(done.to) + 1, "G"))

ApplyTabs(fed, op, last) == TabsDone(fed, TabOp(fed.tracker.tabs, op, Shown(fed.grid).at.col), last)

(* feed_history_reset: what scrolled before the erasing byte is captured, and
   then the history starts over. *)
FeedHistoryReset(fed, last, hard) == Feed([fed EXCEPT !.reset = hard \/ ~fed.grid.onAlt], last)

SoftResetReplay ==
    LET Off(mode) == Esc(<<"[", "?", NumberByte(mode), "l">>) IN
    Off(1) \o Off(2004) \o Off(9) \o Off(1000) \o Off(1002) \o Off(1003) \o Off(1005) \o Off(1006)
        \o Esc(<<"[", "?", "25", "h">>)

-----------------------------------------------------------------------------
(* Inline graphics. *)

DataLen(payload) == IF payload.data = {} THEN 0 ELSE Len(Some(payload.data))
GraphicsBytes(log) == Total([i \in DOMAIN log |-> DataLen(log[i])])

(* record_graphics: the oldest go, by number and by bytes, but never the last. *)
RecordGraphics(e, payload, forgets) ==
    LET at == CursorPosition(e)
        log == Append(e.graphics, [payload EXCEPT !.at = <<at.row, at.col>>])
        freed == Append(e.forgets, forgets)
        Fits(drop) == LET rest == SubSeq(log, drop + 1, Len(log)) IN
            Len(rest) <= GraphicsHistory /\ (GraphicsBytes(rest) <= CaptureMax \/ Len(rest) <= 1)
        drop == CHOOSE n \in 0 .. Len(log) - 1 : Fits(n) /\ \A m \in 0 .. n - 1 : ~Fits(m) IN
    [e EXCEPT !.graphics = SubSeq(log, drop + 1, Len(log)),
              !.forgets = SubSeq(freed, drop + 1, Len(freed))]

(* The size of the image a placement names: its last transmission's, none if
   that said none, and no image at all once a delete has freed it. *)
PlacedImage(e, id) ==
    LET Frees(i) == e.forgets[i] # {}
                    /\ Some(e.forgets[i])[1] <= id /\ id <= Some(e.forgets[i])[2]
        Sends(i) == /\ e.graphics[i].protocol = "Kitty" /\ CarriesImage(e.graphics[i].action)
                    /\ e.graphics[i].id = {id}
        named == {i \in DOMAIN e.graphics : Frees(i) \/ Sends(i)}
        newest == CHOOSE i \in named : \A j \in named : j <= i IN
    CASE named = {} -> [gone |-> FALSE, size |-> {}]
      [] named # {} /\ e.forgets[newest] # {} -> [gone |-> TRUE, size |-> {}]
      [] OTHER -> [gone |-> FALSE, size |-> e.graphics[newest].size]

(* image_step: the cells the declared terminal moves the cursor past. *)
ImageStep(e, payload, placement) ==
    LET image == IF payload.action = "Place" /\ payload.id # {} THEN PlacedImage(e, Some(payload.id))
                 ELSE [gone |-> payload.action # "TransmitAndPlace", size |-> payload.size]
        cells == KittyCells(placement, image.size, CellSize)
        rows == CeilDiv(placement.height, Some(CellSize)[2]) IN
    CASE ImageSupport = "Kitty" /\ payload.protocol = "Kitty" /\ placement.moves /\ ~image.gone
            /\ cells # {} ->
            {[kind |-> "Kitty", cols |-> Some(cells)[1], rows |-> Some(cells)[2]]}
      [] ImageSupport = "Sixel" /\ payload.protocol = "Sixel" /\ CellSize # {} /\ rows > 0 ->
            {[kind |-> "Sixel", cols |-> 0, rows |-> rows]}
      [] OTHER -> {}

(* move_past_image: line feeds to its last row; for kitty also to the column
   past it, or to the next row. *)
MovePastImage(e, step) ==
    LET col == CursorPosition(e).col
        across == IF step.kind = "Kitty" THEN col + step.cols ELSE 0
        wrap == across >= e.grid.cols
        down == Lesser(Greater(0, step.rows - 1) + (IF wrap THEN 1 ELSE 0), e.grid.rows)
        sideways == CASE wrap -> <<"CR">>
                      [] ~wrap /\ across > col -> Csi(across - col, "C")
                      [] OTHER -> <<>> IN
    Feed(e, Repeat("LF", down) \o sideways)

PlaceGraphics(e, drawn) ==
    LET step == ImageStep(e, drawn.payload, drawn.placement)
        filed == RecordGraphics(e, drawn.payload, drawn.placement.forgets) IN
    IF step = {} THEN filed ELSE MovePastImage(filed, Some(step))

-----------------------------------------------------------------------------
(* Selectors and insert mode. *)

(* draw_selector: one that widens the last column's character moves it to the
   next row, written out; in insert mode it makes room first. *)
DrawSelector(e) ==
    LET g == e.grid
        at == Shown(g).at
        col == at.col
        base == IF col > 1 /\ CellAt(g, at.row, col - 1).tail THEN col - 2 ELSE col - 1
        cell == CellAt(g, at.row, base)
        text == IF cell.text = <<>> THEN <<" ">> ELSE cell.text
        widened == col > 0 /\ ~cell.wide /\ text \in Widened
        insert == e.tracker.insert IN
    Feed(e, CASE widened /\ col >= g.cols ->
                    Csi(g.cols, "G") \o Esc(<<"[", "X", "LF">>) \o Csi(1, "G")
                      \o (IF insert THEN Csi(2, "@") ELSE <<>>) \o cell.text \o VS16
              [] widened /\ col < g.cols /\ insert -> Csi(1, "@") \o VS16
              [] OTHER -> VS16)

AttributeCode == ("bold" :> "1") @@ ("dim" :> "2") @@ ("italic" :> "3") @@ ("underline" :> "4")
                   @@ ("inverse" :> "7")

(* The SGR of a cell's attributes, from a reset; attributes_formatted is the
   same for those in force. *)
PrimarySgr(attrs) ==
    LET Code(on) == IF on \in attrs.on THEN << <<AttributeCode[on]>> >> ELSE <<>>
        Colour(c, base) == CASE c = <<>> -> <<>>
                             [] Len(c) = 1 -> << <<base>>, <<"5">>, <<NumberByte(c[1])>> >>
                             [] OTHER -> << <<base>>, <<"2">> >>
                                            \o [i \in 1 .. 3 |-> <<NumberByte(c[i])>>] IN
    Sgr(<< <<"0">> >> \o Colour(attrs.fg, "38") \o Colour(attrs.bg, "48") \o Code("bold")
          \o Code("dim") \o Code("italic") \o Code("underline") \o Code("inverse"))

(* redraw_last_column: each parser is handed its own attributes, past the
   rewriters, and then its current ones back. An empty column is not redrawn. *)
Redrawn(g, text, row, col) ==
    PutBytes(g, Csi(col + 1, "G") \o PrimarySgr(CellAt(g, row, col).attrs) \o text
                  \o PrimarySgr(g.attrs))

RedrawLastColumn(e, row) ==
    LET last == e.grid.cols - 1
        col == IF last > 0 /\ CellAt(e.grid, row, last).tail THEN last - 1 ELSE last
        text == CellAt(e.grid, row, col).text IN
    IF text = <<>> THEN Feed(e, Csi(row + 2, "d") \o Csi(1, "G"))
    ELSE [e EXCEPT !.grid = Redrawn(@, text, row, col), !.shadow = Redrawn(@, text, row, col)]

(* reserve_after_wrap: room on the row the wrap lands on; a cursor down that
   does not move says that row is a new one. *)
ReserveBelow(down, width, row, col) ==
    LET reserve == Csi(1, "G") \o Csi(width, "@") \o Csi(row + 1, "d") IN
    CASE Shown(down.grid).at.row = row -> down
      [] Shown(down.grid).at.row # row /\ col < down.grid.cols ->
            Feed(down, reserve \o Csi(col + 1, "G"))
      [] OTHER -> RedrawLastColumn(Feed(down, reserve), row)

ReserveAfterWrap(e, width, row, col) == ReserveBelow(Feed(e, Esc(<<"[", "B">>)), width, row, col)

(* The characters that a run of printable bytes begins with. *)
Run(bytes) ==
    LET end == FirstOf({i \in DOMAIN bytes : ~IsPrintable(bytes[i])})
        run == IF end = 0 THEN bytes ELSE SubSeq(bytes, 1, end - 1)
        Length(i) == IF run[i] \in DOMAIN Leads THEN Leads[run[i]] + 1 ELSE 1
        from[i \in 1 .. Len(run) + 4] ==
            IF i > Len(run) \/ i + Length(i) - 1 > Len(run) THEN <<>>
            ELSE <<SubSeq(run, i, i + Length(i) - 1)>> \o from[i + Length(i)] IN
    from[1]

(* reserve_insert: room for what of the run the cursor's row takes, and how
   many bytes that is. *)
ReserveFor(e, chars) ==
    LET at == Shown(e.grid).at
        room == e.grid.cols - at.col
        Width(c) == IF Columns(c) > e.grid.cols THEN 0 ELSE Columns(c)
        WidthOf(n) == Total([i \in 1 .. n |-> Width(chars[i])])
        LengthOf(n) == Total([i \in 1 .. n |-> Len(chars[i])])
        Stops(n) == \/ n > 1 /\ chars[n] = VS16
                    \/ Width(chars[n]) > 0 /\ WidthOf(n) > room
        taken == CHOOSE n \in 0 .. Len(chars) :
                    /\ \A m \in 1 .. n : ~Stops(m)
                    /\ n < Len(chars) => Stops(n + 1) IN
    IF chars # <<>> /\ taken = 0
    THEN [to |-> ReserveAfterWrap(e, Width(chars[1]), at.row, at.col), covers |-> Len(chars[1])]
    ELSE [to |-> IF WidthOf(taken) > 0 THEN Feed(e, Csi(WidthOf(taken), "@")) ELSE e,
          covers |-> Greater(1, LengthOf(taken))]

ReserveInsert(e, text) == ReserveFor(e, Run(text))

-----------------------------------------------------------------------------
(* A segment of a read. The loop's locals: `fed`, how much of it the grid has
   been given; `runUntil`, where what was reserved for ends; and the stop. *)

NoStop == [kind |-> "none"]

(* What is fed for a character, or ahead of it, and how much that covers. *)
Prepared(e, rest) ==
    IF StartsWith(rest, VS16) THEN [to |-> DrawSelector(e), covers |-> Len(VS16), fed |-> Len(VS16)]
    ELSE ReserveInsert(e, rest) @@ ("fed" :> 0)

(* Ahead of a character's first byte. *)
AheadOf(s, bytes, i) ==
    LET rest == SubSeq(bytes, i, Len(bytes))
        Ahead(prepared) == [s EXCEPT !.e = prepared.to, !.fed = i - 1 + prepared.fed,
                                     !.runUntil = i - 1 + prepared.covers] IN
    IF \/ i <= s.runUntil \/ MidSequence(s.e.tracker) \/ ~IsPrintable(bytes[i])
       \/ ~StartsWith(rest, VS16) /\ ~s.e.tracker.insert
    THEN s ELSE Ahead(Prepared(FeedStaged(s.e, SubSeq(bytes, s.fed + 1, i - 1)), rest))

(* A byte the invoked set redefines is staged as its glyph. *)
Translated(s, bytes, i) ==
    LET glyph == CharsetGlyph(s.e.tracker, bytes[i]) IN
    IF glyph = {} THEN s
    ELSE [s EXCEPT !.e.staged = @ \o SubSeq(bytes, s.fed + 1, i - 1) \o Some(glyph), !.fed = i]

(* The events that are handled with their last byte fed; the others are with
   all that comes before it. *)
FedAfterEvent == {"SyncEnd", "Query", "Graphics", "GraphicsQuery", "SoftReset"}

(* What follows for the event, and how much of the segment is fed then. *)
Follow(event, e, last) ==
    CASE event.kind = "SyncBegin" -> [e EXCEPT !.updating = TRUE]
      [] event.kind = "SyncEnd" -> [e EXCEPT !.updating = FALSE, !.tracker.printable = 0]
      [] event.kind \in {"Graphics", "GraphicsQuery"} -> PlaceGraphics(e, event.drawn)
      [] event.kind = "SoftReset" -> Feed(e, SoftResetReplay)
      [] event.kind \in {"HardReset", "ScrollbackErased"} ->
            FeedHistoryReset([e EXCEPT !.updating = @ /\ event.kind # "HardReset"], last,
                             event.kind = "HardReset")
      [] event.kind = "Tabs" -> ApplyTabs(e, event.op, last)
      [] OTHER -> e

StopAt(event, t) ==
    CASE event.kind = "SyncEnd" -> [kind |-> "frame", printable |-> t.printable]
      [] event.kind \in {"Query", "GraphicsQuery"} -> [kind |-> "query", query |-> event.query]
      [] OTHER -> NoStop

(* The byte itself, by the event it completes. *)
HandleEvent(s, stepped, bytes, i) ==
    LET event == stepped.event
        e == [s.e EXCEPT !.tracker = stepped.to]
        stays == event.kind \in {"None", "SyncBegin"}
        to == IF event.kind \in FedAfterEvent THEN i ELSE i - 1 IN
    [s EXCEPT !.e = Follow(event, IF stays THEN e ELSE FeedStaged(e, SubSeq(bytes, s.fed + 1, to)),
                           <<bytes[i]>>),
              !.fed = CASE stays -> @ [] event.kind = "AlternateScreen" -> i - 1 [] OTHER -> i,
              !.consumed = i,
              !.stop = StopAt(event, stepped.to)]

Handled(s, bytes, i) == HandleEvent(s, Step(s.e.tracker, bytes[i]), bytes, i)

RECURSIVE Scan(_, _)
Scan(s, bytes) ==
    LET i == s.consumed + 1 IN
    IF i > Len(bytes) \/ s.stop.kind # "none" THEN s
    ELSE Scan(Handled(Translated(AheadOf(s, bytes, i), bytes, i), bytes, i), bytes)

FlushedAtEnd(s, bytes) ==
    IF s.stop.kind # "none" THEN s
    ELSE [s EXCEPT !.e = FeedStaged(@, SubSeq(bytes, s.fed + 1, Len(bytes)))]

(* Emulator::process: up to the first byte that completes a frame or a
   question. *)
Process(e, bytes) ==
    FlushedAtEnd(Scan([e |-> e, fed |-> 0, runUntil |-> 0, stop |-> NoStop, consumed |-> 0], bytes), bytes)

-----------------------------------------------------------------------------
(* What is read of it. *)

Snapshot(e) ==
    LET g == e.grid
        t == e.tracker
        screen == Shown(g) IN
    [rows |-> g.rows, cols |-> g.cols, cursor |-> CursorPosition(e), visible |-> 25 \in g.modes,
     cells |-> [i \in 1 .. g.rows |-> ConvertLine(screen.lines[i].cells, Shown(e.shadow).lines[i].cells)],
     wrapped |-> [i \in 1 .. g.rows |-> screen.lines[i].wrapped],
     scrollback |-> e.history, title |-> t.title, alternateScreen |-> g.onAlt,
     bracketedPaste |-> 2004 \in g.modes, applicationCursor |-> 1 \in g.modes, mouse |-> g.mouse,
     mouseModes |-> t.mouse, clipboard |-> t.clipboard, bells |-> t.bells, focusEvents |-> t.focus,
     cursorStyle |-> t.cursorStyle, links |-> t.links, counts |-> t.loader.counts,
     graphics |-> e.graphics, insertMode |-> t.insert,
     unsupported |-> g.unhandled.shapes, overflow |-> g.unhandled.overflow,
     visualBells |-> g.unhandled.visualBells]

(* The assertion of a snapshot: the shadow's grid is the grid. *)
InStep(e) ==
    /\ ScreenText(Shown(e.grid)) = ScreenText(Shown(e.shadow))
    /\ Shown(e.grid).at = Shown(e.shadow).at

InputModes(e) ==
    [mouse |-> e.grid.mouse, encoding |-> e.tracker.encoding, paste |-> 2004 \in e.grid.modes,
     applicationCursor |-> 1 \in e.grid.modes, focus |-> e.tracker.focus]

(* Only modes whose state is known exactly. *)
ModeState(e, mode) ==
    LET On(set) == IF set THEN "Set" ELSE "Reset" IN
    CASE mode = 2026 -> On(e.tracker.sync)
      [] mode \in {1, 2004, 25} -> On(mode \in e.grid.modes)
      [] mode \in AlternateModes -> On(e.grid.onAlt)
      [] mode = 1004 -> On(e.tracker.focus)
      [] mode \in Encodings -> On(e.tracker.encoding = mode)
      [] mode \in MouseTracking -> On(mode \in e.tracker.mouse)
      [] OTHER -> "NotRecognized"

(* copy_rows_a_resize_pushes: off the grid, as wide as they are. *)
CopyRowsAResizePushes(e, rows) ==
    LET current == CaptureScrolledRows(e)
        pushed == PushedBy(current.grid.main, rows)
        Top(g) == SubSeq(g.main.lines, 1, pushed) IN
    IF Scrollback = 0 \/ e.grid.onAlt \/ rows >= e.grid.rows THEN e
    ELSE [CopyRows(current, Top(current.grid), Top(current.shadow)) EXCEPT !.captured = @ + pushed]

SetSize(e, rows, cols) ==
    LET copied == CopyRowsAResizePushes(e, rows) IN
    CaptureScrolledRows(
        [copied EXCEPT !.grid = ResizeGrid(@, rows, cols), !.shadow = ResizeGrid(@, rows, cols),
                       !.tracker.tabs = SetCols(@, cols)])
===============================================================================
