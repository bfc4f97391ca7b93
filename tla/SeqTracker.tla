------------------------------ MODULE SeqTracker ------------------------------
(***************************************************************************)
(* The sequence tracker: what the terminal keeps that the vt100 backend    *)
(* does not, read from the stream byte by byte.  Step gives the tracker    *)
(* after a byte and the event, if any, that the byte completed.            *)
(***************************************************************************)
EXTENDS TabStops, Graphics

CONSTANTS
    OscMax, LinkHistory, LabelMax,    (* OSC_CAPTURE_MAX, LINK_HISTORY, LINK_LABEL_MAX *)
    ShapeMax, HeadMax,                (* the lengths of seq_buf and dcs_head *)
    Glyphs,        (* charset -> byte it redefines -> the glyph's bytes *)
    Base64Text     (* clipboard payload -> the text it decodes to, if any *)

ASSUME TrackerAssumption == LinkHistory \in Nat \ {0} /\ {OscMax, LabelMax, ShapeMax, HeadMax} \subseteq Nat

MouseTracking == {9, 1000, 1002, 1003}
Encodings == {1005, 1006, 1015}
AlternateModes == {47, 1047, 1049}
Legacy == 0

PowerOnCharsets ==
    [g0 |-> "Ascii", g1 |-> "Ascii", g2 |-> "Ascii", g3 |-> "Ascii", shiftedOut |-> FALSE]

NoLabel == [open |-> FALSE, text |-> <<>>, truncated |-> FALSE]

EmptyCsi == [prefix |-> "", inter |-> "", invalid |-> FALSE, colon |-> FALSE, inSub |-> FALSE,
             first |-> TRUE, param |-> 0, digits |-> FALSE, params |-> <<>>]

EmptyDcs == [introducer |-> "", final |-> "", inter |-> "", len |-> 0, head |-> <<>>,
             first |-> "", body |-> <<>>, whole |-> TRUE, meter |-> EmptyMeter]

NewTracker(cols) ==
    [state |-> "Ground", utf8 |-> 0, sync |-> FALSE, printable |-> 0,
     csi |-> EmptyCsi, seq |-> <<>>, osc |-> [text |-> <<>>, truncated |-> FALSE], dcs |-> EmptyDcs,
     title |-> <<>>, clipboard |-> {}, links |-> <<>>, label |-> NoLabel, bells |-> 0,
     loader |-> EmptyLoader, focus |-> FALSE, mouse |-> {}, encoding |-> Legacy, cursorStyle |-> {},
     escInter |-> "", charsets |-> PowerOnCharsets, single |-> "", savedCharsets |-> {},
     tabs |-> PowerOnTabs(cols), insert |-> FALSE]

MidSequence(t) == t.state # "Ground" \/ t.utf8 > 0

Quiet(t) == [to |-> t, event |-> [kind |-> "None"]]
Says(t, kind) == [to |-> t, event |-> [kind |-> kind]]
Tabs(t, op) == [to |-> t, event |-> [kind |-> "Tabs", op |-> op]]
Asks(t, query) == [to |-> t, event |-> [kind |-> "Query", query |-> query]]
Unanswerable(t) == Asks(t, [kind |-> "Unanswerable", shape |-> t.seq])

-----------------------------------------------------------------------------
(* Character sets. *)

InvokedCharset(t) ==
    CASE t.single # "" -> t.charsets[t.single]
      [] t.single = "" /\ t.charsets.shiftedOut -> t.charsets.g1
      [] OTHER -> t.charsets.g0

(* The glyph a byte is drawn as, where the invoked set redefines it. *)
CharsetGlyph(t, b) ==
    LET glyphs == Glyphs[InvokedCharset(t)] IN
    IF t.state = "Ground" /\ b \in DOMAIN glyphs THEN {glyphs[b]} ELSE {}

ResetCharsets(t) == [t EXCEPT !.charsets = PowerOnCharsets, !.single = ""]

SlotOf == ("(" :> "g0") @@ (")" :> "g1") @@ ("*" :> "g2") @@ ("+" :> "g3")

Designate(t, b) ==
    LET set == CASE b = "0" -> "DecSpecialGraphics" [] b = "A" -> "Uk" [] OTHER -> "Ascii" IN
    IF t.escInter \in DOMAIN SlotOf THEN [t EXCEPT !.charsets[SlotOf[t.escInter]] = set] ELSE t

(* Slip: nothing was saved, and DECRC leaves the sets as they are. *)
RestoreSavedOnly(t) ==
    IF t.savedCharsets = {} THEN t ELSE [t EXCEPT !.charsets = Some(t.savedCharsets)]

(* DECRC: what DECSC saved, or the defaults. The single shift stays only
   beside what was saved. *)
RestoreCharsets(t) ==
    IF t.savedCharsets = {} THEN ResetCharsets(t)
    ELSE [t EXCEPT !.charsets = Some(t.savedCharsets)]

-----------------------------------------------------------------------------
(* Links: a span's label is what is drawn between its two sequences. *)

Newest(seq, count) == SubSeq(seq, Greater(1, Len(seq) - count + 1), Len(seq))

CloseLink(t) ==
    IF ~t.label.open THEN t
    ELSE [t EXCEPT
            !.links[Len(t.links)].closed = TRUE,
            !.links[Len(t.links)].label = IF t.label.truncated THEN {} ELSE {t.label.text},
            !.label = NoLabel]

OpenLink(t, params, uri) ==
    LET IsId(pair) == StartsWith(pair, <<"id", "=">>)
        ids == SelectSeq(Split(params, ":"), IsId)
        link == [uri |-> uri, id |-> IF ids = <<>> THEN {} ELSE {After(Head(ids), "=")},
                 label |-> {}, closed |-> FALSE] IN
    [CloseLink(t) EXCEPT !.links = Newest(Append(@, link), LinkHistory),
                         !.label = [NoLabel EXCEPT !.open = TRUE]]

Labelled(label, drawn) ==
    LET room == LabelMax - Len(label.text) IN
    IF ~label.open THEN label
    ELSE [label EXCEPT !.text = @ \o SubSeq(drawn, 1, Lesser(room, Len(drawn))),
                       !.truncated = @ \/ room < Len(drawn)]

-----------------------------------------------------------------------------
(* Resets. *)

AbandonUpload(t) == [t EXCEPT !.loader = Abandon(@)]

(* DECSTR: the modes and the sets, but no update, span or upload. *)
SoftReset(t) ==
    [ResetCharsets(t) EXCEPT
        !.savedCharsets = {}, !.cursorStyle = {}, !.focus = FALSE, !.mouse = {},
        !.encoding = Legacy, !.insert = FALSE, !.tabs = ResetTabs(@)]

(* RIS: an open update, span or upload ends as well; the title, the clipboard,
   the bells and the log of links are records, and stay. *)
HardReset(t) ==
    AbandonUpload(CloseLink([SoftReset(t) EXCEPT !.sync = FALSE, !.printable = 0]))

-----------------------------------------------------------------------------
(* Control sequences. *)

EndCsiParam(c) ==
    [c EXCEPT !.params = Append(@, c.param), !.param = 0, !.digits = FALSE, !.inSub = FALSE]

ScanCsiByte(c, b) ==
    LET scanned ==
            CASE b \in Markers /\ c.first -> [c EXCEPT !.prefix = b]
              [] b \in Digits /\ c.inSub -> c
              [] b \in Digits /\ ~c.inSub -> [c EXCEPT !.param = Value[b], !.digits = TRUE]
              [] b = ";" -> EndCsiParam(c)
              [] b = ":" -> [c EXCEPT !.colon = TRUE, !.inSub = TRUE]
              [] b \in {"$", " ", "!"} -> [c EXCEPT !.inter = b]
              [] OTHER -> [c EXCEPT !.invalid = TRUE] IN
    [scanned EXCEPT !.first = FALSE]

(* The private modes the tracker keeps, every one that a list names: focus
   reporting, mouse tracking as a set, and the encoding, which the last one
   named sets and only the one in force clears. *)
PrivateModes(t, params, on) ==
    LET named == Range(params)
        NamesEncoding(p) == p \in Encodings
        encodings == SelectSeq(params, NamesEncoding) IN
    [t EXCEPT
        !.focus = IF 1004 \in named THEN on ELSE @,
        !.mouse = IF on THEN @ \union (named \intersect MouseTracking) ELSE @ \ named,
        !.encoding = CASE on /\ encodings # <<>> -> Last(encodings)
                       [] ~on /\ @ \in named -> Legacy
                       [] OTHER -> @]

(* ESC [ ? ... h and l. An End with no Begin ends no frame. *)
PrivateFinal(t, params, b) ==
    LET set == PrivateModes(t, params, b = "h")
        named == Range(params) IN
    CASE 2026 \in named /\ b = "h" -> Says([set EXCEPT !.sync = TRUE, !.printable = 0], "SyncBegin")
      [] 2026 \in named /\ b = "l" /\ t.sync -> Says([set EXCEPT !.sync = FALSE], "SyncEnd")
      [] 2026 \notin named /\ b = "h" /\ named \intersect AlternateModes # {} ->
            Says(set, "AlternateScreen")
      [] OTHER -> Quiet(set)

(* The questions among the sequences without a marker. *)
PlainQuery(t, params, b) ==
    LET count == Len(params)
        Single(v) == params = <<v>> IN
    CASE b = "n" /\ Single(6) -> Asks(t, [kind |-> "CursorPosition", private |-> FALSE])
      [] b = "n" /\ Single(5) -> Asks(t, [kind |-> "OperatingStatus"])
      [] b = "n" /\ ~Single(5) /\ ~Single(6) -> Unanswerable(t)
      [] b = "c" /\ (count = 0 \/ Single(0)) -> Asks(t, [kind |-> "PrimaryDa"])
      [] b = "t" /\ Single(18) -> Asks(t, [kind |-> "TextAreaSize"])
      [] b = "t" /\ Single(14) -> Asks(t, [kind |-> "WindowSizePixels"])
      [] b = "t" /\ Single(16) -> Asks(t, [kind |-> "CellSizePixels"])
      [] b = "t" /\ count = 1 /\ params[1] \in {11, 13, 19, 20, 21} -> Unanswerable(t)
      [] OTHER -> Quiet(t)

(* A final byte with neither marker nor intermediate: insert mode, tab stops,
   ED 3, which is read with its first value alone, and the questions. *)
PlainFinal(t, c, b) ==
    LET count == Len(c.params)
        ps == IF count = 0 THEN 0 ELSE c.params[1]
        moves == Greater(Lesser(ps, CountMax), 1) IN
    CASE b \in {"h", "l"} /\ 4 \in Range(c.params) -> Quiet([t EXCEPT !.insert = b = "h"])
      [] b = "g" /\ count <= 1 /\ ps = 0 -> Tabs(t, [kind |-> "ClearAtCursor"])
      [] b = "g" /\ count <= 1 /\ ps = 3 -> Tabs(t, [kind |-> "ClearAll"])
      [] b = "I" /\ count <= 1 -> Tabs(t, [kind |-> "Forward", count |-> moves])
      [] b = "Z" /\ count <= 1 -> Tabs(t, [kind |-> "Back", count |-> moves])
      [] b = "J" /\ ps = 3 -> Says(t, "ScrollbackErased")
      [] b \notin {"h", "l", "g", "I", "Z", "J"} /\ ~c.colon -> PlainQuery(t, c.params, b)
      [] OTHER -> Quiet(t)

CursorStyle(t, params) ==
    LET ps == IF params = <<>> THEN 0 ELSE params[1] IN
    IF Len(params) <= 1 /\ ps \in 0 .. 6 THEN [t EXCEPT !.cursorStyle = {ps}] ELSE t

CsiFinal(t, b) ==
    LET c == IF t.csi.digits THEN EndCsiParam(t.csi) ELSE t.csi
        none == c.params = <<>>
        Is(prefix, inter) == c.prefix = prefix /\ c.inter = inter IN
    CASE c.invalid \/ (c.colon /\ b # "J") -> Quiet(t)
      [] ~c.invalid /\ c.inter = "$" ->
            CASE c.prefix = "?" /\ b = "p" /\ Len(c.params) = 1 ->
                    Asks(t, [kind |-> "RequestMode", mode |-> c.params[1]])
              [] b \in {"p", "y"} /\ ~(c.prefix = "?" /\ b = "p" /\ Len(c.params) = 1) ->
                    Unanswerable(t)
              [] OTHER -> Quiet(t)
      [] Is("", "!") -> IF b = "p" /\ none THEN Says(SoftReset(t), "SoftReset") ELSE Quiet(t)
      [] Is("", " ") -> Quiet(IF b = "q" THEN CursorStyle(t, c.params) ELSE t)
      [] c.prefix # "" /\ c.inter \in {"!", " "} -> Quiet(t)
      [] Is("?", "") /\ b \in {"h", "l"} -> PrivateFinal(t, c.params, b)
      [] Is("?", "") /\ b = "J" /\ ~none /\ c.params[1] = 3 -> Says(t, "ScrollbackErased")
      [] Is("?", "") /\ b = "n" /\ c.params = <<6>> ->
            Asks(t, [kind |-> "CursorPosition", private |-> TRUE])
      [] \/ Is("?", "") /\ b = "n" /\ c.params # <<6>>
         \/ Is("?", "") /\ (b = "S" \/ (b = "u" /\ none))
         \/ Is(">", "") /\ (b = "n" \/ (b = "q" /\ (none \/ c.params = <<0>>)))
         \/ Is("=", "") /\ b \in {"n", "c"} -> Unanswerable(t)
      [] Is(">", "") /\ b = "c" /\ (none \/ c.params = <<0>>) -> Asks(t, [kind |-> "SecondaryDa"])
      [] Is("", "") -> PlainFinal(t, c, b)
      [] OTHER -> Quiet(t)

-----------------------------------------------------------------------------
(* Strings. *)

PushOsc(t, b) ==
    IF Len(t.osc.text) < OscMax THEN [t EXCEPT !.osc.text = Append(@, b)]
    ELSE [t EXCEPT !.osc.truncated = TRUE]

(* string_final, of an OSC. A colour or a palette that is asked for is a
   question, and one that is set is not; what was cut off opens or closes no
   link, and what was copied is then not known. *)
OscFinal(t, stTerminated) ==
    LET content == t.osc.text
        Opens(code) == StartsWith(content, <<code, ";">>)
        rest == SubSeq(content, 3, Len(content))
        parted == ";" \in Range(rest)
        first == Before(rest, ";")
        second == After(rest, ";")
        asked == content # <<>> /\ Last(content) = "?" IN
    CASE content \in {<<"10", ";", "?">>, <<"11", ";", "?">>} ->
            Asks(t, [kind |-> "OscColor", code |-> Head(content), st |-> stTerminated])
      [] content = <<"12", ";", "?">> \/ (asked /\ (Opens("4") \/ Opens("52"))) -> Unanswerable(t)
      [] Opens("0") \/ Opens("2") -> Quiet([t EXCEPT !.title = rest])
      [] Opens("8") /\ parted /\ ~t.osc.truncated ->
            Quiet(IF second = <<>> THEN CloseLink(t) ELSE OpenLink(t, first, second))
      [] Opens("52") /\ parted /\ ~asked ->
            Quiet([t EXCEPT !.clipboard =
                {[targets |-> first,
                  text |-> IF t.osc.truncated \/ second \notin DOMAIN Base64Text THEN {}
                           ELSE Base64Text[second]]}])
      [] OTHER -> Quiet(t)

IsSixel(d) == d.introducer = "P" /\ d.final = "q" /\ d.inter = ""

(* The scanner starts over, but for the first byte of the head: dcs_head is
   cleared by its length alone. *)
ResetDcsScanner(t, introducer) ==
    [t EXCEPT !.dcs = [EmptyDcs EXCEPT !.introducer = introducer, !.first = t.dcs.first]]

PushDcs(d, b) ==
    LET header == d.introducer # "_" /\ d.final = ""
        kept == Len(d.head) < HeadMax IN
    [d EXCEPT
        !.len = @ + 1,
        !.meter = IF IsSixel(d) THEN Measure(@, b) ELSE @,
        !.inter = IF header /\ b \in Intermediates THEN b ELSE @,
        !.final = IF header /\ IsFinal(b) THEN b ELSE @,
        !.head = IF kept THEN Append(@, b) ELSE @,
        !.first = IF d.head = <<>> THEN b ELSE @,
        !.body = IF Len(d.body) < CaptureMax THEN Append(@, b) ELSE @,
        !.whole = @ /\ Len(d.body) < CaptureMax]

(* The keys of a control block: G, then pairs up to the first ';'. *)
KittyKeys(d) ==
    LET control == Before(d.head, ";")
        pairs == Split(IF StartsWith(control, <<"G">>) THEN Tail(control) ELSE control, ",")
        IsPair(pair) == Len(pair) >= 3 /\ pair[2] = "="
        given == SelectSeq(pairs, IsPair)
        Meant(value) == IF value \in Digits THEN Value[value] ELSE value IN
    [name \in {given[i][1] : i \in DOMAIN given} |->
        Meant(given[FirstOf({i \in DOMAIN given : given[i][1] = name})][3])]

(* The image data an escape carries, after the block or the header. *)
EscapeOf(d) ==
    [bytes |-> d.len, whole |-> d.whole,
     data |-> After(d.body, IF d.introducer = "_" THEN ";" ELSE d.final)]

Loaded(t, result) ==
    LET to == [t EXCEPT !.loader = result.to] IN
    IF result.done = {} THEN Quiet(to)
    ELSE [to |-> to, event |-> [kind |-> "Graphics", drawn |-> Some(result.done)]]

KittyQuery(t, keys) ==
    LET result == QueryLoad(t.loader, keys, EscapeOf(t.dcs))
        to == [t EXCEPT !.loader = result.to]
        query == [kind |-> "KittyGraphics", id |-> Opt(keys, "i"), number |-> Opt(keys, "I"),
                  placement |-> Opt(keys, "p"), quiet |-> Number(keys, "q"),
                  load |-> result.load, shape |-> t.seq] IN
    IF result.done = {} THEN Asks(to, query)
    ELSE [to |-> to, event |-> [kind |-> "GraphicsQuery", drawn |-> Some(result.done), query |-> query]]

(* string_final, of a DCS or an APC. Which of the two an APC is, is asked of
   the first byte of dcs_head, whether it is this string's or not. *)
DcsFinal(t) ==
    LET d == t.dcs
        keys == KittyKeys(d)
        kitty == d.introducer = "_" /\ d.first = "G" IN
    CASE kitty /\ ~KeyIs(keys, "a", "q") -> Loaded(t, Transmission(t.loader, keys, EscapeOf(d)))
      [] kitty /\ KeyIs(keys, "a", "q") -> KittyQuery(t, keys)
      [] IsSixel(d) -> Loaded(t, SixelLoad(t.loader, d.meter, EscapeOf(d)))
      [] d.introducer = "P" /\ d.inter = "+" /\ d.final = "q" ->
            Asks(t, [kind |-> "RequestTermcap", names |-> After(d.head, "q"), shape |-> t.seq])
      [] ~kitty /\ Len(t.seq) >= 4 /\ SubSeq(t.seq, 3, 4) \in {<<"$", "q">>, <<"+", "q">>} -> Unanswerable(t)
      [] OTHER -> Quiet(t)

-----------------------------------------------------------------------------
(* The state machine. *)

In(t, state) == [t EXCEPT !.state = state]

(* A control that is executed inside a sequence; the sequence goes on. *)
ExecuteInSequence(t, b) ==
    CASE b = "BEL" -> [t EXCEPT !.bells = @ + 1]
      [] b \in {"SO", "SI"} -> [t EXCEPT !.charsets.shiftedOut = b = "SO"]
      [] OTHER -> t

Utf8Remaining(t, b) ==
    CASE t.utf8 > 0 /\ b \in Continuations -> t.utf8 - 1
      [] b \in DOMAIN Leads -> Leads[b]
      [] OTHER -> 0

(* Text: counted by characters, and drawn into the label of an open link as
   the glyphs it shows; a single shift lasts for one character. *)
Drawn(t, b) ==
    LET glyph == CharsetGlyph(t, b) IN
    [t EXCEPT !.printable = IF t.utf8 = 0 THEN @ + 1 ELSE @,
              !.label = Labelled(@, IF glyph = {} THEN <<b>> ELSE Some(glyph)),
              !.single = IF b \in Continuations THEN @ ELSE ""]

InGround(t, b) ==
    LET tracked == [t EXCEPT !.utf8 = Utf8Remaining(t, b)] IN
    CASE b = "ESC" -> Quiet(In([t EXCEPT !.utf8 = 0], "Esc"))
      [] b = "HT" -> Tabs(tracked, [kind |-> "Forward", count |-> 1])
      [] b = "BEL" /\ t.utf8 > 0 -> Quiet(tracked)
      [] IsPrintable(b) -> Quiet([Drawn(t, b) EXCEPT !.utf8 = Utf8Remaining(t, b)])
      [] OTHER -> Quiet(ExecuteInSequence(tracked, b))

InEsc(t, b) ==
    LET ground == In(t, "Ground") IN
    CASE b = "[" -> Quiet(In([t EXCEPT !.csi = EmptyCsi], "Csi"))
      [] b = "]" -> Quiet(In([t EXCEPT !.osc = [text |-> <<>>, truncated |-> FALSE]], "Osc"))
      [] b \in {"P", "X", "^", "_"} -> Quiet(In(ResetDcsScanner(t, b), "Dcs"))
      [] b \in Intermediates -> Quiet(In([t EXCEPT !.escInter = b], "EscIntermediate"))
      [] b = "ESC" -> Quiet(In(t, "Esc"))
      [] b \in InSequence -> Quiet(In(ExecuteInSequence(t, b), "Esc"))
      [] b = "c" -> Says(HardReset(ground), "HardReset")
      [] b = "7" -> Quiet([ground EXCEPT !.savedCharsets = {t.charsets}])
      [] b = "8" -> Quiet(RestoreCharsets(ground))
      [] b = "H" -> Tabs(ground, [kind |-> "Set"])
      [] b \in {"N", "O"} -> Quiet([ground EXCEPT !.single = IF b = "N" THEN "g2" ELSE "g3"])
      [] OTHER -> Quiet(ground)

InEscIntermediate(t, b) ==
    CASE b \in Intermediates -> Quiet([t EXCEPT !.escInter = ""])
      [] b = "ESC" -> Quiet(In(t, "Esc"))
      [] b \in Aborting -> Quiet(In(t, "Ground"))
      [] b \in InSequence -> Quiet(ExecuteInSequence(t, b))
      [] OTHER -> Quiet(Designate(In(t, "Ground"), b))

InCsi(t, b) ==
    CASE IsFinal(b) -> CsiFinal(In(t, "Ground"), b)
      [] b = "ESC" -> Quiet(In(t, "Esc"))
      [] b \in Aborting -> Quiet(In(t, "Ground"))
      [] b \in InSequence -> Quiet(ExecuteInSequence(t, b))
      [] OTHER -> Quiet([t EXCEPT !.csi = ScanCsiByte(@, b)])

InString(t, b) ==
    LET osc == t.state = "Osc" IN
    CASE osc /\ b = "BEL" -> OscFinal(In(t, "Ground"), FALSE)
      [] b = "ESC" -> Quiet(In(t, IF osc THEN "OscEsc" ELSE "DcsEsc"))
      [] b \in Aborting -> Quiet(In(t, "Ground"))
      [] osc /\ b \notin {"BEL", "ESC"} \union Aborting -> Quiet(PushOsc(t, b))
      [] OTHER -> Quiet([t EXCEPT !.dcs = PushDcs(@, b)])

(* After an ESC in a string: its end, or a sequence that cut it off. *)
InStringEsc(t, b) ==
    CASE b = "\\" /\ t.state = "OscEsc" -> OscFinal(In(t, "Ground"), TRUE)
      [] b = "\\" /\ t.state = "DcsEsc" -> DcsFinal(In(t, "Ground"))
      [] b = "ESC" -> Quiet(t)
      [] OTHER -> InEsc(In(t, "Esc"), b)

Transition(t, b) ==
    CASE t.state = "Ground" -> InGround(t, b)
      [] t.state = "Esc" -> InEsc(t, b)
      [] t.state = "EscIntermediate" -> InEscIntermediate(t, b)
      [] t.state = "Csi" -> InCsi(t, b)
      [] t.state \in {"Osc", "Dcs"} -> InString(t, b)
      [] t.state \in {"OscEsc", "DcsEsc"} -> InStringEsc(t, b)

(* The bytes of the sequence itself are captured, up to a bound. *)
Step(t, b) ==
    LET passes == t.state \in {"Esc", "EscIntermediate", "Csi"} /\ b \in InSequence
        captured == IF Len(t.seq) < ShapeMax THEN Append(t.seq, b) ELSE t.seq IN
    Transition(CASE t.state = "Ground" /\ b = "ESC" -> [t EXCEPT !.seq = <<b>>]
                 [] t.state # "Ground" /\ ~passes -> [t EXCEPT !.seq = captured]
                 [] OTHER -> t, b)
===============================================================================
