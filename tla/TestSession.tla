----------------------------- MODULE TestSession -----------------------------
(***************************************************************************)
(* What a test does with a terminal between two waits: it takes a          *)
(* snapshot, searches and masks it, saves it and reads what was saved, and *)
(* it types, clicks and pastes at an application that reads its input now  *)
(* or later, and sets the modes by which it is written.                    *)
(*                                                                         *)
(* A session is a record of what it works with: the screens the            *)
(* application may paint, the masks and needles of the test, the files it  *)
(* finds, the modes and the inputs, and the number of its steps.           *)
(***************************************************************************)
EXTENDS SavedScreens, InputMeaning

CONSTANT Sessions

(* What the test fills the cells of a match with. *)
Fill == "#"

(* A character is named by a string, and so are these. *)
ASSUME WordsAssumption ==
    {NewLine, Space, Fill, StylesWord, NoneWord, SpansWord} \subseteq STRING /\ Fill \notin ControlChars

(* A screen; a file, which may say of itself what is not so. *)
IsScreen(s) ==
    /\ DOMAIN s = ScreenFields
    /\ s.cols \in Narrow /\ s.rows \in Narrow
    /\ HasLength(s.cells, s.rows) /\ \A r \in 1 .. s.rows : IsRow(s.cells[r], s.cols)

IsText(file) ==
    /\ file.cols \in Narrow /\ file.rows \in Narrow
    /\ Len(file.lines) \in Nat /\ \A i \in 1 .. Len(file.lines) : file.lines[i].text \in Text

IsJson(file) ==
    /\ DOMAIN file.screen = ScreenFields
    /\ file.screen.cols \in Narrow /\ file.screen.rows \in Narrow
    /\ HasLength(file.screen.cells, Len(file.screen.cells))
    /\ \A r \in DOMAIN file.screen.cells : IsRow(file.screen.cells[r], Len(file.screen.cells[r]))

Cursors == [row : Nat, col : Nat, visible : BOOLEAN]

(* What the emulator makes of a screen: its size within the limit of a terminal,
   its cursor on it, and in every row cells that a termlens writes. *)
IsCaptured(s) ==
    /\ s = [f \in ScreenFields |-> s[f]]
    /\ s.cols \in 1 .. MaxDimension /\ s.rows \in 1 .. MaxDimension
    /\ s.cursor \in Cursors /\ s.cursor.row < s.rows /\ s.cursor.col < s.cols
    /\ \A r \in 1 .. s.rows : RowReads(s.cells[r])

(* A file says where its cursor is, on the screen or not. *)
SaysCursor(file) ==
    IF file.kind = "text" THEN file.document.cursor \in Cursors
    ELSE /\ file.document.screen = [f \in ScreenFields |-> file.document.screen[f]]
         /\ file.document.screen.cursor \in Cursors

IsFile(file) == (file.kind = "text" /\ IsText(file.document)) \/ (file.kind = "json" /\ IsJson(file.document))

(* What a session may hold: any screens of the emulator, any files and modes, and
   any inputs. *)
ASSUME SessionsAssumption ==
    \A s \in Sessions :
        /\ (\A x \in s.screens : IsScreen(x)) /\ (\A file \in s.files : IsFile(file))
        /\ (\A x \in s.screens : IsCaptured(x)) /\ (\A file \in s.files : SaysCursor(file))
        /\ (\A mask \in s.masks : mask[1] \in {"matching", "rect", "style"}) /\ s.found \subseteq Text
        /\ s.modes \subseteq AllModes /\ s.focus \subseteq BOOLEAN
        /\ s.keys \subseteq Keys /\ s.texts \subseteq Seq(Char) /\ s.pastes \subseteq Seq(Char)
        /\ \A c \in s.clicks : c.button \in DOMAIN ButtonCodes /\ c.mods \subseteq Modifiers /\ c.at \in Spots
        /\ \A d \in s.drags : /\ d.button \in DOMAIN ButtonCodes /\ d.mods \subseteq Modifiers
                               /\ d.from \in Spots /\ d.to \in Spots
        /\ \A c \in s.scrolls : c.wheel \in DOMAIN WheelCodes /\ c.mods \subseteq Modifiers /\ c.at \in Spots

VARIABLES
    session,
    screen,      (* the snapshot the test holds *)
    saved,       (* what it has saved: a kind and a document *)
    modes,       (* those the application has set *)
    wire,        (* inputs written and not yet read *)
    heard,       (* what the application took them for *)
    meant,       (* what the test did *)
    unclear,     (* input was read whose meaning hangs on where a read ends *)
    left         (* steps still to do *)

vars == <<session, screen, saved, modes, wire, heard, meant, unclear, left>>

NoScreen == [cols |-> 0, rows |-> 0, cursor |-> HiddenCursor, cells |-> <<>>, wrapped |-> <<>>, history |-> <<>>]
NoFile == [kind |-> "none", document |-> NoScreen]
DefaultModes == [mouse |-> 0, encoding |-> 0, paste |-> FALSE, applicationCursor |-> FALSE, focus |-> FALSE]

Init ==
    /\ session \in Sessions
    /\ screen = NoScreen /\ modes = DefaultModes
    /\ saved \in session.files \union {NoFile}
    /\ wire = <<>> /\ heard = <<>> /\ meant = <<>> /\ unclear = FALSE
    /\ left = session.steps

Step == left > 0 /\ left' = left - 1 /\ UNCHANGED session
Looking == Step /\ UNCHANGED <<modes, wire, heard, meant, unclear>>

-----------------------------------------------------------------------------
(* The screen. *)

(* Terminal::screen, once the application has painted it. *)
TakeSnapshot ==
    /\ Looking /\ screen = NoScreen
    /\ screen' \in session.screens
    /\ UNCHANGED saved

(* What a mask does: its kind, and what it is of. *)
Masked(s, mask) ==
    CASE mask[1] = "matching" -> MaskMatching(s, mask[2], Fill)
      [] mask[1] = "rect" -> MaskRect(s, mask[2][1], mask[2][2])
      [] mask[1] = "style" -> MaskStyled(s, mask[2])

Mask ==
    /\ Looking /\ screen # NoScreen
    /\ \E mask \in session.masks : screen' = Masked(screen, mask)
    /\ UNCHANGED saved

SaveText ==
    /\ Looking /\ screen # NoScreen
    /\ saved' = [kind |-> "text", document |-> WithStyles(screen)]
    /\ UNCHANGED screen

SaveJson ==
    /\ Looking /\ screen # NoScreen
    /\ saved' = [kind |-> "json", document |-> ToJson(screen)]
    /\ UNCHANGED screen

ReadFile(file) == IF file.kind = "text" THEN Parse(file.document) ELSE FromJson(file.document)

ReadSaved ==
    /\ Looking /\ saved # NoFile
    /\ screen' \in ReadFile(saved)
    /\ UNCHANGED saved

-----------------------------------------------------------------------------
(* Input: what is written for it, unless it is refused.  The application sets  *)
(* its modes when it has read what there is, so that what it reads was written *)
(* under the modes it reads it in.                                             *)

Written(bytes, meaning) ==
    /\ Step /\ screen # NoScreen
    /\ wire' = wire \o SetToSeq(bytes)
    /\ meant' = meant \o meaning
    /\ UNCHANGED <<screen, saved, modes, heard>>

TypeKey == \E key \in session.keys : Written(SendKey(modes, key), <<KeyMeans(key)>>) /\ UNCHANGED unclear

(* Sequences in what is typed are read as sequences, and in what is pasted
   without brackets. *)
HasEscape(text) == \E i \in DOMAIN text : text[i] = ESC

TypeText ==
    \E text \in session.texts :
        /\ Written(SendStr(text), Typed(text))
        /\ unclear' = (unclear \/ HasEscape(text))

PasteText ==
    \E text \in session.pastes :
        /\ Written(Paste(modes, text), PasteMeans(modes, text))
        /\ unclear' = (unclear \/ (~modes.paste /\ HasEscape(text)))

Click ==
    \E c \in session.clicks :
        /\ Written(ClickWith(modes, screen, c.button, c.mods, c.at), ClickMeans(modes, screen, c.button, c.mods, c.at))
        /\ UNCHANGED unclear

(* Terminal::click on what a search has found: it takes the column first. *)
ClickFound ==
    \E needle \in session.found : \E p \in Find(screen, needle) :
        LET at == [col |-> p[2], row |-> p[1]] IN
        /\ Written(ClickWith(modes, screen, "Left", {}, at), ClickMeans(modes, screen, "Left", {}, at))
        /\ UNCHANGED unclear

DragAcross ==
    \E d \in session.drags :
        /\ Written(Drag(modes, screen, d.button, d.mods, d.from, d.to), DragMeans(modes, screen, d.button, d.mods, d.from, d.to))
        /\ UNCHANGED unclear

Scroll ==
    \E c \in session.scrolls :
        /\ Written(ScrollWith(modes, screen, c.wheel, c.mods, c.at), ScrollMeans(modes, screen, c.wheel, c.mods, c.at))
        /\ UNCHANGED unclear

ChangeFocus == \E gained \in session.focus : Written(Focus(modes, gained), FocusMeans(modes, gained)) /\ UNCHANGED unclear

-----------------------------------------------------------------------------
(* The application. *)

(* A read takes one write or all of them. *)
AppReads ==
    /\ wire # <<>>
    /\ \E n \in {1, Len(wire)} :
        /\ heard' = heard \o EventsIn(modes, FlattenSeq(SubSeq(wire, 1, n)))
        /\ wire' = SubSeq(wire, n + 1, Len(wire))
        /\ unclear' = (unclear \/ \E i \in 1 .. n - 1 : wire[i] \in Beginnings)
    /\ UNCHANGED <<session, screen, saved, modes, meant, left>>

AppSetsModes ==
    /\ Step /\ wire = <<>>
    /\ modes' \in session.modes
    /\ UNCHANGED <<screen, saved, wire, heard, meant, unclear>>

Next ==
    \/ TakeSnapshot \/ Mask \/ SaveText \/ SaveJson \/ ReadSaved
    \/ TypeKey \/ TypeText \/ PasteText \/ Click \/ ClickFound \/ DragAcross \/ Scroll \/ ChangeFocus
    \/ AppReads \/ AppSetsModes

Spec == Init /\ [][Next]_vars

-----------------------------------------------------------------------------
(* What the properties compare with. *)

(* The text of a screen as one sequence of characters, each with its cell; a
   newline has the cell that follows it. *)
Joined(s) ==
    LET rows == SearchableRows(s)
        Row(r) == [i \in 1 .. Len(TrimEnd(rows[r].text)) |->
                      [char |-> rows[r].text[i], at |-> <<r - 1, rows[r].cols[i]>>]]
        upTo[n \in 1 .. s.rows] ==
            IF n = 1 THEN Row(1)
            ELSE upTo[n - 1] \o <<[char |-> NewLine, at |-> <<n - 1, 0>>]>> \o Row(n) IN
    upTo[s.rows]

(* Where a needle is in it, from left to right and not overlapping. *)
Occurrences(joined, needle) ==
    {i .. i + Len(needle) - 1 : i \in MatchIndices([k \in DOMAIN joined |-> joined[k].char], needle)}

(* The cell of the first character of an occurrence that is not a newline, or
   the one that follows the last newline. *)
PlaceOf(joined, occurrence) ==
    LET drawn == {i \in occurrence : joined[i].char # NewLine} IN
    IF drawn # {} THEN joined[CHOOSE i \in drawn : \A j \in drawn : i <= j].at
    ELSE joined[CHOOSE i \in occurrence : \A j \in occurrence : j <= i].at

PlacesOf(s, needle) ==
    IF needle = <<>> THEN {<<0, 0>>}
    ELSE {PlaceOf(Joined(s), o) : o \in Occurrences(Joined(s), Nfc(needle))}

(* The column where a needle begins in a line that is drawn. *)
DrawnColumn(line, needle) ==
    LET cells == LayOutRow(line, 2 * Len(line), TRUE).cells
        drawn == Laid(cells, TRUE)
        places == MatchIndices(drawn.text, Nfc(needle)) IN
    drawn.cols[CHOOSE i \in places : \A j \in places : i <= j]

InOneRow(needle) == needle # <<>> /\ (\A i \in DOMAIN needle : needle[i] # NewLine)

SearchesAgreeOn(s) ==
    \A needle \in session.needles :
        /\ FindAll(s, needle) = PlacesOf(s, needle)
        /\ ContainsText(s, needle) <=> PlacesOf(s, needle) # {}
        /\ Find(s, needle) = FirstOf(PlacesOf(s, needle))
        /\ InOneRow(needle) /\ Find(s, needle) # {} =>
              \E i \in DOMAIN LogicalLines(s) : HasNeedle(Nfc(LogicalLines(s)[i]), Nfc(needle))
        /\ \A l \in Locate(s, needle) :
              \/ l.on = "screen" /\ {l.at} = Find(s, needle)
              \/ l.on = "history" /\ l.at[2] = DrawnColumn(s.history[l.at[1] + 1], needle)
        /\ InOneRow(needle) /\ Locate(s, needle) = {} => ~HasNeedle(Nfc(FullText(s)), Nfc(needle))

(* The cells of the characters that some cells belong to. *)
WholeCharacters(s, places) ==
    {p \in Places(s) : \E q \in places : p[1] = q[1] /\
        \/ p = q
        \/ p[2] = q[2] + 1 /\ CellAt(s, p[1], p[2]).tail
        \/ p[2] = q[2] - 1 /\ CellAt(s, q[1], q[2]).tail}

Within(x, range) == range.start <= x /\ (range.end = OpenEnd \/ x < range.end)

Targets(s, mask) ==
    CASE mask[1] = "matching" ->
            {Joined(s)[i].at : i \in {k \in UNION Occurrences(Joined(s), Nfc(mask[2])) : Joined(s)[k].char # NewLine}}
      [] mask[1] = "rect" -> {p \in Places(s) : Within(p[2], mask[2][1]) /\ Within(p[1], mask[2][2])}
      [] mask[1] = "style" -> {p \in Places(s) : CellAt(s, p[1], p[2]).style = mask[2]}

MaskCovers(s, mask) ==
    LET masked == Masked(s, mask)
        targets == WholeCharacters(s, Targets(s, mask)) IN
    /\ mask[1] = "rect" =>
          \A text \in ToSet(RectText(masked, mask[2][1], mask[2][2])) : text = <<>>
    /\ \A p \in Places(s) :
        CellAt(masked, p[1], p[2]) =
            IF p \notin targets THEN CellAt(s, p[1], p[2])
            ELSE Cell(IF mask[1] = "matching" THEN <<Fill>> ELSE <<>>, CellAt(s, p[1], p[2]).style, FALSE, FALSE)

(* What a terminal makes of the parameters of SGR. *)
StyleBySgr(params) ==
    LET Basic(p, base) == IF p < 60 THEN <<p - base>> ELSE <<p - base - 52>>
        Long(n) == IF params[n + 1] = 5 THEN <<params[n + 2]>> ELSE SubSeq(params, n + 2, n + 4)
        after[n \in 0 .. Len(params)] ==
            IF n = 0 THEN [style |-> PlainStyle, skip |-> 0]
            ELSE LET p == params[n]
                     now == after[n - 1]
                     skip == IF p \in {38, 48} THEN Len(Long(n)) + 1 ELSE 0 IN
                 IF now.skip > 0 THEN [now EXCEPT !.skip = @ - 1]
                 ELSE [style |->
                          CASE p = 0 -> PlainStyle
                            [] p \in 30 .. 37 \union 90 .. 97 -> [now.style EXCEPT !.fg = Basic(p, 30)]
                            [] p \in 40 .. 47 \union 100 .. 107 -> [now.style EXCEPT !.bg = Basic(p, 40)]
                            [] p = 38 -> [now.style EXCEPT !.fg = Long(n)]
                            [] p = 48 -> [now.style EXCEPT !.bg = Long(n)]
                            [] OTHER -> [now.style EXCEPT !.on =
                                            @ \union {a \in DOMAIN AttributeCodes : AttributeCodes[a] = p}],
                       skip |-> skip] IN
    after[Len(params)].style

(* The runs of a row tile it, and say what is drawn in what style. *)
RunsTile(s, row) ==
    LET runs == Runs(s, row)
        ends == [i \in DOMAIN runs |-> runs[i].col + runs[i].cols] IN
    /\ runs[1].col = 0 /\ ends[Len(runs)] = s.cols
    /\ \A i \in DOMAIN runs :
        /\ i > 1 => runs[i].col = ends[i - 1]
        /\ \A c \in runs[i].col .. ends[i] - 1 : CellAt(s, row, c).tail \/ CellAt(s, row, c).style = runs[i].style
        /\ StyleBySgr(AnsiRow(s, row)[i].sgr) = runs[i].style
    /\ FlattenSeq([i \in DOMAIN runs |-> AnsiRow(s, row)[i].text]) = RowText(s, row)

(* Text that ends in white space that is drawn: it does not come back. *)
EndsInDrawnSpace(s) ==
    \E p \in Places(s) : LET cell == CellAt(s, p[1], p[2]) IN
        cell.text \notin {<<>>, <<Space>>} /\ TrimEnd(cell.text) = <<>>

(* Every wide cell has its second half, or is the last of its row.  A release up to
   0.11.6 could cut one anywhere, by making the screen narrower and wider. *)
IsWhole(s) ==
    \A p \in Places(s) :
        CellAt(s, p[1], p[2]).wide /\ p[2] + 1 < s.cols => CellAt(s, p[1], p[2] + 1).tail

SameLook(a, b) == a.cols = b.cols /\ a.rows = b.rows /\ WithStyles(a) = WithStyles(b)

ReadsBack(s) ==
    /\ IsWhole(s) /\ ~EndsInDrawnSpace(s) =>
          /\ Parse(WithStyles(s)) # {}
          /\ \A read \in Parse(WithStyles(s)) : SameLook(read, s)
    /\ \A row \in 0 .. s.rows - 1 : RunsTile(s, row)

(* What is read of a text is what it says, with the cursor on the screen. *)
ReadIsWritten(text) ==
    /\ Parse(text) # {}
    /\ \A s \in Parse(text) :
        /\ \A i \in 1 .. s.rows :
              RowTexts(s)[i] = IF i <= Len(text.lines) THEN TrimEnd(text.lines[i].text) ELSE <<>>
        /\ s.cursor.visible = text.cursor.visible /\ s.cursor.col < s.cols /\ s.cursor.row < s.rows

(* A difference is one that can be seen, and the other way round where what is
   drawn in white space, or took other columns in an old release, is not in
   question. *)
DiffTells(a, b) ==
    /\ DiffIsEmpty(Diff(a, b)) => SameLook(a, b)
    /\ SameLook(a, b) /\ ~EndsInDrawnSpace(a) /\ ~EndsInDrawnSpace(b)
          /\ (\A p \in Places(a) : /\ CellAt(a, p[1], p[2]).wide = CellAt(b, p[1], p[2]).wide
                                   /\ CellAt(a, p[1], p[2]).tail = CellAt(b, p[1], p[2]).tail)
       => DiffIsEmpty(Diff(a, b))

-----------------------------------------------------------------------------
(* The properties. *)

(* The several ways to search a snapshot agree with each other and with its text
   as one sequence of characters: find_all tells every occurrence of a needle,
   one of several lines or of wide and composed characters too, by the cell it
   begins in, contains says whether there is one, find the first of them, and
   locate the column that the cells of a row of the history had. *)
SearchesAgree == [][SearchesAgreeOn(screen')]_screen

(* mask, mask_rect and mask_style replace the characters they are about, both
   halves of the wide ones, by cells of the fill in their own style, and no cell
   beside them: unless a wide cell was cut, which takes the one after it along. *)
MasksCoverTheMatches == [][\A mask \in session.masks : IsWhole(screen') => MaskCovers(screen', mask)]_screen

(* A screen that is saved as text reads back as one that looks the same, a masked
   one too, if its wide cells have their second halves and it does not end in white
   space that is drawn (neither comes back, although parse.rs and DESIGN.md make no
   exception of them); a text that a release wrote is read as what it says; a diff
   is empty when no difference can be seen; and the runs of the renderings tile
   every row. *)
SavedScreensReadBack ==
    [][/\ screen' # screen => ReadsBack(screen') /\ (screen = NoScreen \/ DiffTells(screen, screen'))
       /\ saved'.kind = "text" /\ (saved' \in session.files \/ (saved' # saved /\ IsWhole(screen)))
              => ReadIsWritten(saved'.document)]_<<screen, saved>>

(* Reading the JSON of a screen gives that screen and nothing else: of one the
   emulator captured, of one that was read from a text or from the JSON of another
   release, and of what the masks have made of it.  A screen is here its size, its
   cursor and its cells, without the out-of-band state. *)
JsonReadsBack == screen # NoScreen => FromJson(ToJson(screen)) = {screen}

CapabilityKeys ==
    [kbs |-> "Backspace", kcuu1 |-> "Up", kcud1 |-> "Down", kcuf1 |-> "Right", kcub1 |-> "Left",
     khome |-> "Home", kend |-> "End", kdch1 |-> "Delete", kpp |-> "PageUp", knp |-> "PageDown"]

(* What the application takes its input for is what the test did, in order: keys
   in the form of the cursor mode, a click, a drag or a wheel in the tracking and
   the encoding it asked for, a paste as one event whatever it contains, and
   nothing for an input that is refused; unless an Esc and what follows it came
   in one read, or the test typed the escape sequences of others as text.  The
   keys it was told of are those that are sent. *)
InputIsUnderstood ==
    /\ ~unclear => IsPrefix(heard, meant) /\ (wire = <<>> => heard = meant)
    /\ \A name \in DOMAIN CapabilityKeys :
          TermcapKeys[name] = Encode([name |-> CapabilityKeys[name], arg |-> 0, mods |-> {}])
===============================================================================
