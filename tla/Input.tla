-------------------------------- MODULE Input --------------------------------
(***************************************************************************)
(* What a test types, clicks and pastes, as the bytes that are written for *)
(* it under the modes the application has set.  Bytes are numbers, and so  *)
(* are characters.  An input that the modes cannot express is refused: a   *)
(* result is a set of one sequence of bytes, or empty.                     *)
(*                                                                         *)
(* The modes are a record: which tracking of the mouse and which encoding, *)
(* by their numbers, and whether the others are set.                       *)
(***************************************************************************)
EXTENDS Integers, Sequences, FiniteSets, SequencesExt

AllModes ==
    [mouse : {0, 9, 1000, 1002, 1003}, encoding : {0, 1005, 1006, 1015},
     paste : BOOLEAN, applicationCursor : BOOLEAN, focus : BOOLEAN]

(* A place on a screen: numbers of two bytes. *)
Narrow == 0 .. 65535
Spots == [col : Narrow, row : Narrow]

ESC == 27
CR == 13
LF == 10
Tilde == 126
Csi == <<ESC, 91>>
Ss3 == <<ESC, 79>>

(* A number in decimal. *)
Decimal(n) ==
    LET digits[k \in 0 .. n] == IF k < 10 THEN <<48 + k>> ELSE Append(digits[k \div 10], 48 + (k % 10)) IN
    digits[n]

(* A character in UTF-8, and a text. *)
Char == {c \in Nat : c < 1114112}
Utf8Of(c) ==
    LET Further(shift) == 128 + ((c \div shift) % 64) IN
    CASE c < 128 -> <<c>>
      [] c >= 128 /\ c < 2048 -> <<192 + c \div 64, Further(1)>>
      [] c >= 2048 /\ c < 65536 -> <<224 + c \div 4096, Further(64), Further(1)>>
      [] OTHER -> <<240 + c \div 262144, Further(4096), Further(64), Further(1)>>

Utf8(text) == FlattenSeq([i \in DOMAIN text |-> Utf8Of(text[i])])

-----------------------------------------------------------------------------
(* Keys (keys.rs): a record of a name, an argument and the modifiers held. *)

CursorLetters == [Up |-> 65, Down |-> 66, Right |-> 67, Left |-> 68, Home |-> 72, End |-> 70]
EditNumbers == [Insert |-> 2, Delete |-> 3, PageUp |-> 5, PageDown |-> 6]
FunctionNumber(n) == CASE n = 5 -> 15 [] n \in 6 .. 10 -> 11 + n [] OTHER -> 12 + n

(* ctrl_byte: a letter of either case, or one of the six signs after them. *)
CtrlByte(c) == CASE c = 32 -> 0 [] c = 63 -> 127 [] OTHER -> c % 32

Simple == [Enter |-> <<CR>>, Esc |-> <<ESC>>, Tab |-> <<9>>, BackTab |-> Csi \o <<90>>, Backspace |-> <<127>>]

Encode(key) ==
    CASE key.name \in DOMAIN Simple -> Simple[key.name]
      [] key.name \in DOMAIN CursorLetters -> Csi \o <<CursorLetters[key.name]>>
      [] key.name \in DOMAIN EditNumbers -> Csi \o Decimal(EditNumbers[key.name]) \o <<Tilde>>
      [] key.name = "F" /\ key.arg \in 1 .. 4 -> Ss3 \o <<79 + key.arg>>
      [] key.name = "F" /\ key.arg \in 5 .. 12 -> Csi \o Decimal(FunctionNumber(key.arg)) \o <<Tilde>>
      [] key.name = "Char" -> Utf8Of(key.arg)
      [] key.name = "Ctrl" -> <<CtrlByte(key.arg)>>
      [] key.name = "Alt" -> <<ESC>> \o Utf8Of(key.arg)

(* What the modifiers add to a number, with so much for each. *)
ModifierSum(mods, shift, alt, ctrl) ==
    (IF "shift" \in mods THEN shift ELSE 0) + (IF "alt" \in mods THEN alt ELSE 0)
        + (IF "ctrl" \in mods THEN ctrl ELSE 0)

(* Chord::encode, for the keys that have such a form. *)
EncodeChord(key) ==
    LET held == <<59>> \o Decimal(1 + ModifierSum(key.mods, 1, 2, 4))
        Letter(letter) == Csi \o <<49>> \o held \o <<letter>>
        Numbered(n) == Csi \o Decimal(n) \o held \o <<Tilde>> IN
    CASE key.name \in DOMAIN CursorLetters -> Letter(CursorLetters[key.name])
      [] key.name \in DOMAIN EditNumbers -> Numbered(EditNumbers[key.name])
      [] key.name = "F" /\ key.arg \in 1 .. 4 -> Letter(79 + key.arg)
      [] key.name = "F" /\ key.arg \in 5 .. 12 -> Numbered(FunctionNumber(key.arg))

(* encode_modal: the cursor keys alone have a form of their own (DECCKM). *)
EncodeModal(key, applicationCursor) ==
    CASE key.mods # {} -> EncodeChord(key)
      [] key.mods = {} /\ applicationCursor /\ key.name \in DOMAIN CursorLetters ->
            Ss3 \o <<CursorLetters[key.name]>>
      [] OTHER -> Encode(key)

(* What is said of the keys to an application that asks (XTGETTCAP). *)
TermcapKeys ==
    [kbs |-> <<127>>, kcuu1 |-> <<27, 91, 65>>, kcud1 |-> <<27, 91, 66>>, kcuf1 |-> <<27, 91, 67>>,
     kcub1 |-> <<27, 91, 68>>, khome |-> <<27, 91, 72>>, kend |-> <<27, 91, 70>>,
     kdch1 |-> <<27, 91, 51, 126>>, kpp |-> <<27, 91, 53, 126>>, knp |-> <<27, 91, 54, 126>>]

(* The keys that can be sent: which of them take modifiers, and the characters
   that Ctrl has a byte for. *)
Modifiers == {"shift", "alt", "ctrl"}
Keys ==
    [name : DOMAIN CursorLetters \union DOMAIN EditNumbers, arg : {0}, mods : SUBSET Modifiers]
        \union [name : {"F"}, arg : 1 .. 12, mods : SUBSET Modifiers]
        \union [name : DOMAIN Simple, arg : {0}, mods : {{}}]
        \union [name : {"Char"}, arg : Char, mods : {{}}]
        \union [name : {"Alt"}, arg : Char \ {ESC}, mods : {{}}]
        \union [name : {"Ctrl"}, arg : {32, 63} \union 64 .. 95 \union 97 .. 122, mods : {{}}]

SendKey(modes, key) == {EncodeModal(key, modes.applicationCursor)}

SendStr(text) == {Utf8(text)}

-----------------------------------------------------------------------------
(* Paste. *)

PasteStart == Csi \o Decimal(200) \o <<Tilde>>
PasteEnd == Csi \o Decimal(201) \o <<Tilde>>

(* str::replace *)
Replaced(text, what, with) ==
    LET from[i \in 1 .. Len(text) + 1] ==
            CASE i > Len(text) -> <<>>
              [] i <= Len(text) /\ IsPrefix(what, SubSeq(text, i, Len(text))) -> with \o from[i + Len(what)]
              [] OTHER -> <<text[i]>> \o from[i + 1] IN
    from[1]

(* Slip: the markers are removed once. *)
StripPasteMarkersOnce(text) == Replaced(Replaced(text, PasteStart, <<>>), PasteEnd, <<>>)

(* What is left when a marker goes may be a marker: until none goes. *)
StripPasteMarkers(text) ==
    LET Stripped(t) == Replaced(Replaced(t, PasteStart, <<>>), PasteEnd, <<>>)
        after[n \in 0 .. Len(text)] == IF n = 0 THEN text ELSE Stripped(after[n - 1]) IN
    after[Len(text) \div Len(PasteStart)]

Paste(modes, text) ==
    LET broken == Replaced(Replaced(text, <<CR, LF>>, <<CR>>), <<LF>>, <<CR>>) IN
    IF modes.paste THEN {PasteStart \o Utf8(StripPasteMarkers(broken)) \o PasteEnd} ELSE SendStr(broken)

-----------------------------------------------------------------------------
(* The mouse. *)

ButtonCodes == [Left |-> 0, Middle |-> 1, Right |-> 2]
WheelCodes == [Up |-> 64, Down |-> 65, Left |-> 66, Right |-> 67]
MotionCode == 32

ChordCode(code, mods) == code + ModifierSum(mods, 4, 8, 16)

LegacyMax == 222

InGrid(size, at) == at.col < size.cols /\ at.row < size.rows

Point(at) == Decimal(at.col + 1) \o <<59>> \o Decimal(at.row + 1)

MouseSgr(code, at, press) == Csi \o <<60>> \o Decimal(code) \o <<59>> \o Point(at) \o <<IF press THEN 77 ELSE 109>>
MouseLegacy(code, at) == Csi \o <<77, 32 + code, 33 + at.col, 33 + at.row>>
MouseUtf8(code, at) == Csi \o <<77, 32 + code>> \o Utf8Of(33 + at.col) \o Utf8Of(33 + at.row)
MouseUrxvt(code, at) == Csi \o Decimal(32 + code) \o <<59>> \o Point(at) \o <<77>>

(* mouse_report: but for SGR, every release is that of button 3. *)
MouseReport(modes, code, at, press) ==
    LET button == IF press THEN code ELSE 3 IN
    CASE modes.encoding = 1006 -> {MouseSgr(code, at, press)}
      [] modes.encoding = 1005 -> {MouseUtf8(button, at)}
      [] modes.encoding = 1015 -> {MouseUrxvt(button, at)}
      [] modes.encoding = 0 /\ at.col <= LegacyMax /\ at.row <= LegacyMax -> {MouseLegacy(button, at)}
      [] OTHER -> {}

(* Reports one after the other, unless one of them is refused. *)
Reports(results) ==
    IF \E i \in DOMAIN results : results[i] = {} THEN {}
    ELSE {FlattenSeq([i \in DOMAIN results |-> CHOOSE bytes \in results[i] : TRUE])}

(* X10 (mode 9) reports presses, and of them the button alone. *)
ClickWith(modes, size, button, mods, at) ==
    LET code == ChordCode(ButtonCodes[button], mods) IN
    CASE modes.mouse = 0 \/ ~InGrid(size, at) -> {}
      [] modes.mouse = 9 /\ InGrid(size, at) -> MouseReport(modes, ButtonCodes[button], at, TRUE)
      [] OTHER -> Reports(<<MouseReport(modes, code, at, TRUE), MouseReport(modes, code, at, FALSE)>>)

(* The cells a drag crosses, without the one it starts from: one for each step
   along the longer axis, the other axis scaled to it and rounded. *)
CellsBetween(from, to) ==
    LET Sign(d) == IF d < 0 THEN -1 ELSE 1
        Size(d) == Sign(d) * d
        cols == to.col - from.col
        rows == to.row - from.row
        steps == IF Size(cols) < Size(rows) THEN Size(rows) ELSE Size(cols)
        Scaled(d, k) == Sign(d) * ((Size(d) * k + steps \div 2) \div steps) IN
    IF steps = 0 THEN <<to>>
    ELSE [k \in 1 .. steps |-> [col |-> from.col + Scaled(cols, k), row |-> from.row + Scaled(rows, k)]]

Drag(modes, size, button, mods, from, to) ==
    LET code == ChordCode(ButtonCodes[button], mods)
        path == IF modes.mouse \in {1002, 1003} THEN CellsBetween(from, to) ELSE <<>> IN
    IF modes.mouse \in {0, 9} \/ ~InGrid(size, from) \/ ~InGrid(size, to) THEN {}
    ELSE Reports(<<MouseReport(modes, code, from, TRUE)>>
                 \o [k \in DOMAIN path |-> MouseReport(modes, code + MotionCode, path[k], TRUE)]
                 \o <<MouseReport(modes, code, to, FALSE)>>)

ScrollWith(modes, size, wheel, mods, at) ==
    IF modes.mouse \in {0, 9} \/ ~InGrid(size, at) THEN {}
    ELSE MouseReport(modes, ChordCode(WheelCodes[wheel], mods), at, TRUE)

Focus(modes, gained) == IF modes.focus THEN {Csi \o <<IF gained THEN 73 ELSE 79>>} ELSE {}
===============================================================================
