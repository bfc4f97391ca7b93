---------------------------- MODULE MCTestSession ----------------------------
(***************************************************************************)
(* Instances of TestSession: screens of a few cells, with every kind of    *)
(* cell that a row is made of, needles and masks for them, texts that old  *)
(* releases wrote, and inputs of every kind in every mode.                 *)
(***************************************************************************)
EXTENDS TestSession

MCComposed == <<"e", "m">> :> "e_acute"
MCPlain == [fg |-> <<>>, bg |-> <<>>, on |-> {}]

(* A row from its glyphs, of which a wide one has two cells unless the row ends
   with its first. *)
Styled(text, style) == [text |-> text, style |-> style]
G(text) == Styled(text, PlainStyle)
Erased == G(<<>>)

PaintedRow(glyphs, cols) ==
    LET cells == FlattenSeq([i \in DOMAIN glyphs |->
            LET g == glyphs[i] IN
            IF CellIsWide(g.text)
            THEN <<Cell(g.text, g.style, TRUE, FALSE), Cell(<<>>, g.style, FALSE, TRUE)>>
            ELSE <<Cell(g.text, g.style, FALSE, FALSE)>>]) IN
    [c \in 1 .. cols |-> IF c <= Len(cells) THEN cells[c] ELSE ErasedCell]

(* Only a full row can have been wrapped. *)
IsFull(glyphs, cols) == PaintedRow(glyphs, cols)[cols] # ErasedCell

Cursor(row, col) == [row |-> row, col |-> col, visible |-> TRUE]

Painted(rows, cols, wrapped, history) ==
    [cols |-> cols, rows |-> Len(rows), cursor |-> IF wrapped[1] THEN HiddenCursor ELSE Cursor(1, cols - 1),
     cells |-> [r \in DOMAIN rows |-> PaintedRow(rows[r], cols)], wrapped |-> wrapped, history |-> history]

Chars(text) == [i \in DOMAIN text |-> G(<<text[i]>>)]

NoInput ==
    [keys |-> {}, texts |-> {}, pastes |-> {}, clicks |-> {}, found |-> {}, drags |-> {}, scrolls |-> {},
     focus |-> {}, modes |-> {}]
NoLook == [files |-> {}, masks |-> {}, needles |-> {}]

-----------------------------------------------------------------------------
(* Two rows of every kind of text. *)
Texts == {
    <<>>,
    Chars(<<"a", "b">>),
    Chars(<<"a", "a", "a">>),
    Chars(<<" ", "a", " ">>),
    <<Erased, G(<<"b">>), G(<<"a">>)>>,
    Chars(<<"W", "a">>),
    Chars(<<"b", "W">>),
    Chars(<<"a", "b", "W">>),
    <<G(<<"e", "m">>), G(<<"a", "m">>), G(<<"e_acute">>)>>,
    <<G(<<"h", "vs">>), G(<<"a">>)>>,
    <<G(<<"W", "m">>), G(<<"h">>)>>,
    Chars(<<"b", "nbsp">>)}

History == << <<"W", "e", "m", "x">>, <<"h", "vs", "h", "y", "a">>, <<"a", "m", "z">> >>

Reading == NoInput @@
    [screens |-> {Painted(<<r1, r2>>, 3, <<IsFull(r1, 3), FALSE>>, History) : r1 \in Texts, r2 \in Texts},
     files |-> {},
     needles |-> {<<>>, <<"a">>, <<"a", "a">>, <<"W">>, <<"e", "m">>, <<"e_acute">>, <<" ", "a">>, <<"a", " ">>, <<"h", "vs">>, <<"W", "m">>,
                  <<"a", NewLine, "a">>, <<"b", NewLine>>, <<NewLine, "a">>, <<NewLine>>, <<"W", NewLine, "W">>,
                  <<"x">>, <<"y">>, <<"z">>},
     masks |-> {<<"matching", <<"a">> >>, <<"matching", <<"W", NewLine, "b">> >>,
                <<"rect", <<[start |-> 1, end |-> 2], [start |-> 0, end |-> OpenEnd]>> >>,
                <<"rect", <<[start |-> 2, end |-> 9], [start |-> 1, end |-> 2]>> >>},
     steps |-> 2]

(* Five rows of one column, and three of two: needles of several lines, whose
   matches begin where others break off or end. *)
Tall == NoInput @@
    [screens |-> {Painted(<<r[1], r[2], r[3], r[4], r[5]>>, 1, [i \in 1 .. 5 |-> FALSE], <<>>) :
                     r \in [1 .. 5 -> {Chars(<<"a">>), Chars(<<"b">>), <<>>}]},
     files |-> {},
     needles |-> {<<"a", NewLine, "a", NewLine, "b", NewLine, "a">>, <<NewLine, "a", NewLine, "a", NewLine, "b", NewLine>>,
                  <<"a", NewLine, "a">>, <<"a", NewLine, NewLine, "a">>, <<NewLine, "a", NewLine>>, <<NewLine, NewLine>>},
     masks |-> {<<"matching", <<"a", NewLine, "a", NewLine, "b">> >>, <<"matching", <<NewLine, "a">> >>},
     steps |-> 1]

Broad == NoInput @@
    [screens |-> {Painted(<<r[1], r[2], r[3]>>, 2, [i \in 1 .. 3 |-> i = 2 /\ IsFull(r[i], 2)], <<>>) :
                     r \in [1 .. 3 -> {Chars(<<"a", "b">>), Chars(<<"b", "a">>), Chars(<<"b">>), Chars(<<"W">>)}]},
     files |-> {},
     needles |-> {<<"b", NewLine, "a">>, <<"a", "b", NewLine, "a", "b">>, <<"W", NewLine, "W">>, <<"b", NewLine>>,
                  <<"a", NewLine, "b", NewLine, "b">>},
     masks |-> {<<"matching", <<"b", NewLine, "a">> >>, <<"matching", <<"W", NewLine, "W", NewLine>> >>},
     steps |-> 2]

(* Cells with styles, a row that looks like the styles block, and the texts of
   older releases: the cursor after the last column, an emoji of one column. *)
Bold == [MCPlain EXCEPT !.on = {"bold"}]
Red == [MCPlain EXCEPT !.fg = <<1>>, !.on = {"conceal", "underline"}]
Bright == [MCPlain EXCEPT !.fg = <<12>>, !.bg = <<200>>]
Rgb == [fg |-> <<1, 2, 3>>, bg |-> <<7>>, on |-> {"reverse"}]

StyledRows == {
    <<Styled(<<"a">>, Bold), Styled(<<>>, Bold), Styled(<<"b">>, Red)>>,
    <<Styled(<<"W">>, Bright), Styled(<<" ">>, Rgb)>>,
    <<Styled(<<"a">>, Rgb), Styled(<<"h", "vs">>, Rgb)>>,
    <<G(<<StylesWord>>)>>,
    <<G(<<NoneWord>>), Styled(<<"a">>, Bright)>>,
    <<G(<<SpansWord>>)>>,
    <<>>}

OldText(cursor, lines) == [kind |-> "text", document |-> [cols |-> 3, rows |-> 2, cursor |-> cursor, lines |-> lines]]

Saving == NoInput @@
    [screens |-> {Painted(<<r1, r2>>, 3, <<IsFull(r1, 3), FALSE>>, <<>>) : r1 \in StyledRows, r2 \in StyledRows},
     files |-> {OldText(Cursor(0, 3), <<TextLine(<<"a", "b", "a">>)>>),
                OldText(Cursor(1, 1), <<TextLine(<<"h", "vs", "a", "b">>), TextLine(<<"h", "vs", "W">>)>>),
                OldText(HiddenCursor, <<TextLine(<<"h", "vs", "a">>), TextLine(<<"h", "vs", "m">>)>>)},
     needles |-> {},
     masks |-> {<<"style", Bold>>, <<"style", Bright>>, <<"matching", <<"a">> >>,
                <<"rect", <<[start |-> 0, end |-> 1], [start |-> 0, end |-> 2]>> >>},
     steps |-> 4]

(* JSON of a release up to 0.11.6, which made a screen narrower and wider again: a
   wide cell is the first of its row without its second half, before others. *)
Cut(text) == Cell(text, PlainStyle, TRUE, FALSE)
Beside == {<<ErasedCell, Cell(<<"a">>, Bold, FALSE, FALSE)>>,
           <<Cut(<<"W">>), Cell(<<>>, PlainStyle, FALSE, TRUE)>>,
           <<Cell(<<"a">>, Red, FALSE, FALSE), Cut(<<"W", "m">>)>>}
OldJson(cells) ==
    [kind |-> "json",
     document |-> ToJson([Painted(<< <<>>, Chars(<<"W", "a">>)>>, 3, <<FALSE, FALSE>>, <<>>)
                             EXCEPT !.cells[1] = <<Cut(<<"W">>)>> \o cells, !.cursor = Cursor(1, 3)])]

Reopening == NoInput @@
    [screens |-> {}, needles |-> {<<"W">>, <<"a">>, <<" ", "a">>},
     files |-> {OldJson(cells) : cells \in Beside},
     masks |-> {<<"matching", <<"W">> >>, <<"style", Bold>>,
                <<"rect", <<[start |-> 0, end |-> 1], [start |-> 0, end |-> 2]>> >>},
     steps |-> 4]

-----------------------------------------------------------------------------
(* Inputs. *)

Key(name) == [name |-> name, arg |-> 0, mods |-> {}]
KeyOf(name, arg) == [name |-> name, arg |-> arg, mods |-> {}]
Chord(name, arg, mods) == [name |-> name, arg |-> arg, mods |-> mods]
At(col, row) == [col |-> col, row |-> row]
Modes(mouse, encoding) == [DefaultModes EXCEPT !.mouse = mouse, !.encoding = encoding]

Small == Painted(<<Chars(<<"a", "b", "a">>), Chars(<<"W", "b">>), Chars(<<"b">>)>>, 4, <<FALSE, FALSE, FALSE>>, <<>>)
WideScreen == Painted(<< <<>>, <<>> >>, 240, <<FALSE, FALSE>>, <<>>)

Typing == NoLook @@
    [NoInput EXCEPT
        !.keys = {Key(n) : n \in {"Up", "Down", "Right", "Left", "Home", "End", "Insert", "Delete", "PageUp", "PageDown",
                                  "Enter", "Esc", "Tab", "BackTab", "Backspace"}}
                 \union {KeyOf("F", n) : n \in {1, 4, 5, 6, 10, 11, 12}}
                 \union {KeyOf("Ctrl", c) : c \in {99, 67, 105, 91, 63, 32, 95}}
                 \union {KeyOf("Alt", 106), KeyOf("Alt", 79), KeyOf("Alt", 91), KeyOf("Char", 106), KeyOf("Char", 233),
                        KeyOf("Char", 8364), KeyOf("Char", 128512)}
                 \union {Chord("Right", 0, {"ctrl"}), Chord("F", 2, {"shift"}), Chord("F", 5, {"ctrl", "shift"}),
                         Chord("Delete", 0, {"alt"}), Chord("Home", 0, {"shift", "alt", "ctrl"})},
        !.focus = BOOLEAN,
        !.modes = {[DefaultModes EXCEPT !.applicationCursor = TRUE], [DefaultModes EXCEPT !.focus = TRUE]}]
    @@ [screens |-> {Small}, steps |-> 4]

(* A marker whose removal leaves a marker. *)
Nested == <<97, 27, 91, 50, 27, 91, 50, 48, 49, 126, 48, 48, 126, 98>>

Pasting == NoLook @@
    [NoInput EXCEPT
        !.pastes = {<<8364, CR, LF, 98, LF, LF, 128512>>, <<CR, CR, LF>>, <<>>, Nested, PasteEnd \o <<97>>, Front(PasteStart)},
        !.texts = {<<97, LF, 9, 8364, 128512>>, <<27, 91, 65>>},
        !.keys = {KeyOf("Char", 106), Key("Up")},
        !.modes = {[DefaultModes EXCEPT !.paste = TRUE], [DefaultModes EXCEPT !.applicationCursor = TRUE]}]
    @@ [screens |-> {Small}, steps |-> 5]

Pointing(screen0, encodings, clicks, drags, scrolls) == NoLook @@
    [NoInput EXCEPT
        !.clicks = clicks, !.drags = drags, !.scrolls = scrolls,
        !.found = {<<"b", "a">>, <<"W">>, <<"b", NewLine, "W">>},
        !.modes = {Modes(m, e) : m \in {9, 1000, 1002, 1003}, e \in encodings}]
    @@ [screens |-> {screen0}, steps |-> 4]

ClickAt(button, mods, at) == [button |-> button, mods |-> mods, at |-> at]
ScrollAt(wheel, mods, at) == [wheel |-> wheel, mods |-> mods, at |-> at]
DragFrom(button, mods, from, to) == [button |-> button, mods |-> mods, from |-> from, to |-> to]

MCSessions == {
    Reading, Tall, Broad, Saving, Reopening, Typing, Pasting,
    Pointing(Small, {0, 1005, 1006, 1015},
        {ClickAt("Right", {"ctrl"}, At(3, 2)), ClickAt("Middle", {"shift", "alt"}, At(0, 1)), ClickAt("Left", {}, At(4, 0))},
        {DragFrom("Left", {}, At(0, 0), At(3, 1)), DragFrom("Right", {"alt"}, At(3, 2), At(2, 0)),
         DragFrom("Left", {}, At(1, 1), At(1, 1)), DragFrom("Left", {}, At(1, 1), At(1, 3))},
        {ScrollAt("Up", {"ctrl"}, At(0, 0)), ScrollAt("Left", {}, At(3, 0)), ScrollAt("Right", {"shift"}, At(0, 3))}),
    Pointing(WideScreen, {0, 1005, 1006, 1015},
        {ClickAt("Left", {}, At(c, 1)) : c \in {94, 95, 222, 223}},
        {DragFrom("Left", {}, At(221, 0), At(224, 1)), DragFrom("Middle", {"shift"}, At(96, 0), At(93, 1))},
        {ScrollAt("Down", {}, At(239, 1))})}

===============================================================================
