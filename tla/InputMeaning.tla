----------------------------- MODULE InputMeaning -----------------------------
(***************************************************************************)
(* What a test means by its input, and what an application takes the bytes *)
(* for that are written for it.  Both are sequences of events.  An event   *)
(* is a tuple of its kind and its particulars, a place is the column and   *)
(* the row, and the modes are those of Input.                              *)
(***************************************************************************)
EXTENDS Screens, Input

KeyEvent(name, arg, mods) == <<"key", name, arg, mods>>
MouseEvent(kind, button, mods, at) == <<kind, button, mods, at.col, at.row>>
PasteEvent(bytes) == <<"paste", bytes>>
FocusEvent(gained) == <<"focus", gained>>

-----------------------------------------------------------------------------
(* The meaning of what the test does. *)

(* A character on a keyboard, and one typed with Ctrl. *)
CharEvent(c) ==
    CASE c = 9 -> KeyEvent("Tab", 0, {})
      [] c = 13 -> KeyEvent("Enter", 0, {})
      [] c = 27 -> KeyEvent("Esc", 0, {})
      [] c = 127 -> KeyEvent("Backspace", 0, {})
      [] c < 32 /\ c \notin {9, 13, 27} -> KeyEvent("Ctrl", 64 + c, {})
      [] OTHER -> KeyEvent("Char", c, {})

CtrlEvent(c) ==
    LET upper == IF c \in 97 .. 122 THEN c - 32 ELSE c IN
    CASE c = 32 -> KeyEvent("Ctrl", 64, {})
      [] c = 63 -> CharEvent(127)
      [] OTHER -> CharEvent(upper - 64)

KeyMeans(key) ==
    CASE key.name = "Char" -> CharEvent(key.arg)
      [] key.name = "Ctrl" -> CtrlEvent(key.arg)
      [] OTHER -> KeyEvent(key.name, key.arg, key.mods)

Typed(text) == [i \in DOMAIN text |-> CharEvent(text[i])]

(* A line break is that of the Enter key, and CR LF is one of them. *)
Folded(text) ==
    FlattenSeq([i \in DOMAIN text |->
        IF text[i] # LF THEN <<text[i]>> ELSE IF i > 1 /\ text[i - 1] = CR THEN <<>> ELSE <<CR>>])

Markers == {<<27, 91, 50, 48, 48, 126>>, <<27, 91, 50, 48, 49, 126>>}

(* A marker goes as soon as its last character has come. *)
Unmarked(text) ==
    LET upTo[n \in 0 .. Len(text)] ==
            IF n = 0 THEN <<>>
            ELSE LET next == Append(upTo[n - 1], text[n]) IN
                 IF Len(next) >= 6 /\ SubSeq(next, Len(next) - 5, Len(next)) \in Markers
                 THEN SubSeq(next, 1, Len(next) - 6) ELSE next IN
    upTo[Len(text)]

PasteMeans(modes, text) ==
    IF modes.paste THEN <<PasteEvent(Utf8(Unmarked(Folded(text))))>> ELSE Typed(Folded(text))

(* A place can be told if it is on the screen, and in the form of old by a byte. *)
CanTell(modes, size, at) ==
    /\ at.col \in 0 .. size.cols - 1 /\ at.row \in 0 .. size.rows - 1
    /\ modes.encoding = 0 => 33 + at.col < 256 /\ 33 + at.row < 256

(* Which button was released is told in one of the forms only. *)
Release(modes, button, mods, at) ==
    IF modes.encoding = 1006 THEN MouseEvent("release", button, mods, at)
    ELSE MouseEvent("release", "any", {}, at)

ClickMeans(modes, size, button, mods, at) ==
    CASE modes.mouse = 0 \/ ~CanTell(modes, size, at) -> <<>>
      [] modes.mouse = 9 /\ CanTell(modes, size, at) -> <<MouseEvent("press", button, {}, at)>>
      [] OTHER -> <<MouseEvent("press", button, mods, at), Release(modes, button, mods, at)>>

(* The place after k of n steps along an axis: the nearest to the line, and of
   two as near the farther one. *)
Along(from, to, k, n) ==
    LET Abs(x) == IF x < 0 THEN -x ELSE x
        Off(x) == Abs(n * (x - from) - k * (to - from))
        between == IF from <= to THEN from .. to ELSE to .. from IN
    CHOOSE x \in between : \A y \in between :
        Off(x) < Off(y) \/ (Off(x) = Off(y) /\ Abs(x - from) >= Abs(y - from))

DragMeans(modes, size, button, mods, from, to) ==
    LET cols == Greatest(from.col, to.col) - Least(from.col, to.col)
        rows == Greatest(from.row, to.row) - Least(from.row, to.row)
        steps == Greatest(1, Greatest(cols, rows))
        Crossed(k) == [col |-> Along(from.col, to.col, k, steps), row |-> Along(from.row, to.row, k, steps)]
        path == IF modes.mouse \in {1002, 1003}
                THEN [k \in 1 .. steps |-> MouseEvent("motion", button, mods, Crossed(k))] ELSE <<>> IN
    IF modes.mouse \in {0, 9} \/ ~CanTell(modes, size, from) \/ ~CanTell(modes, size, to) THEN <<>>
    ELSE <<MouseEvent("press", button, mods, from)>> \o path \o <<Release(modes, button, mods, to)>>

ScrollMeans(modes, size, wheel, mods, at) ==
    IF modes.mouse \in {0, 9} \/ ~CanTell(modes, size, at) THEN <<>>
    ELSE <<MouseEvent("wheel", wheel, mods, at)>>

FocusMeans(modes, gained) == IF modes.focus THEN <<FocusEvent(gained)>> ELSE <<>>

-----------------------------------------------------------------------------
(* The application: what the bytes begin with, and how many of them that is.   *)

Taken(event, length) == [event |-> event, length |-> length]

LetterKeys ==
    [final \in {65, 66, 67, 68, 70, 72} |->
        CASE final = 65 -> "Up" [] final = 66 -> "Down" [] final = 67 -> "Right"
          [] final = 68 -> "Left" [] final = 70 -> "End" [] final = 72 -> "Home"]
NumberKeys ==
    [number \in {2, 3, 5, 6} |->
        CASE number = 2 -> "Insert" [] number = 3 -> "Delete" [] number = 5 -> "PageUp" [] number = 6 -> "PageDown"]
FunctionNumbers == <<15, 17, 18, 19, 20, 21, 23, 24>>    (* from F5 *)
WheelNames == <<"Up", "Down", "Left", "Right">>
ButtonNames == <<"Left", "Middle", "Right", "any">>

Bit(n, b) == (n \div b) % 2 = 1
ModsOf(n, shift, alt, ctrl) ==
    (IF Bit(n, shift) THEN {"shift"} ELSE {}) \union (IF Bit(n, alt) THEN {"alt"} ELSE {})
        \union (IF Bit(n, ctrl) THEN {"ctrl"} ELSE {})

(* An event of the mouse by the number of its button, for all the forms. *)
ByButton(code, at, released) ==
    LET mods == ModsOf(code, 4, 8, 16)
        button == ButtonNames[(code % 4) + 1] IN
    CASE Bit(code, 64) -> MouseEvent("wheel", WheelNames[(code % 4) + 1], mods, at)
      [] ~Bit(code, 64) /\ Bit(code, 32) -> MouseEvent("motion", button, mods, at)
      [] ~Bit(code, 64) /\ ~Bit(code, 32) /\ (released \/ button = "any") -> MouseEvent("release", button, mods, at)
      [] OTHER -> MouseEvent("press", button, mods, at)

(* The character that bytes begin with. *)
CharIn(bytes) ==
    LET lead == bytes[1]
        More(value, k) == 64 * value + bytes[k] - 128 IN
    CASE lead < 192 -> [char |-> lead, length |-> 1]
      [] lead \in 192 .. 223 -> [char |-> More(lead - 192, 2), length |-> 2]
      [] lead \in 224 .. 239 -> [char |-> More(More(lead - 224, 2), 3), length |-> 3]
      [] OTHER -> [char |-> More(More(More(lead - 240, 2), 3), 4), length |-> 4]

Behind(bytes, n) == SubSeq(bytes, n + 1, Len(bytes))

(* ESC [ M, and three bytes, of which two may be characters. *)
OldMouse(modes, bytes) ==
    LET Place(b) == IF modes.encoding = 1005 THEN CharIn(b) ELSE [char |-> b[1], length |-> 1]
        col == Place(Behind(bytes, 4))
        row == Place(Behind(bytes, 4 + col.length)) IN
    Taken(ByButton(bytes[4] - 32, [col |-> col.char - 33, row |-> row.char - 33], FALSE),
          4 + col.length + row.length)

(* The numbers between semicolons. *)
NumbersIn(bytes) ==
    LET upTo[n \in 0 .. Len(bytes)] ==
            IF n = 0 THEN <<0>>
            ELSE IF bytes[n] = 59 THEN Append(upTo[n - 1], 0)
            ELSE Append(Front(upTo[n - 1]), 10 * Last(upTo[n - 1]) + bytes[n] - 48) IN
    upTo[Len(bytes)]

Unknown == <<"unknown">>

(* A key by the final byte of a sequence and its numbers.  The cursor keys have
   the form that the application has set. *)
KeyByFinal(modes, final, numbers) ==
    LET mods == IF Len(numbers) = 2 THEN ModsOf(numbers[2] - 1, 1, 2, 4) ELSE {}
        functions == {k \in DOMAIN FunctionNumbers : FunctionNumbers[k] = numbers[1]} IN
    CASE final = 90 /\ numbers = <<0>> -> KeyEvent("BackTab", 0, {})
      [] final \in DOMAIN LetterKeys /\ numbers = <<0>> /\ ~modes.applicationCursor ->
            KeyEvent(LetterKeys[final], 0, {})
      [] final \in DOMAIN LetterKeys /\ Len(numbers) = 2 -> KeyEvent(LetterKeys[final], 0, mods)
      [] final \in 80 .. 83 /\ Len(numbers) = 2 -> KeyEvent("F", final - 79, mods)
      [] final = 126 /\ numbers[1] \in DOMAIN NumberKeys -> KeyEvent(NumberKeys[numbers[1]], 0, mods)
      [] final = 126 /\ functions # {} -> KeyEvent("F", 4 + CHOOSE k \in functions : TRUE, mods)
      [] OTHER -> Unknown

(* ESC [, its parameters and its final byte.  What is pasted ends with the first
   marker after. *)
CsiEvent(modes, params, final, after) ==
    LET sgr == params # <<>> /\ params[1] = 60
        numbers == NumbersIn(IF sgr THEN Tail(params) ELSE params)
        at == [col |-> numbers[2] - 1, row |-> numbers[3] - 1]
        closes == {j \in 1 .. Len(after) - 5 : SubSeq(after, j, j + 5) = PasteEnd}
        close == CHOOSE j \in closes : \A k \in closes : j <= k IN
    CASE sgr /\ modes.encoding = 1006 -> Taken(ByButton(numbers[1], at, final = 109), 0)
      [] ~sgr /\ Len(numbers) = 3 /\ modes.encoding = 1015 -> Taken(ByButton(numbers[1] - 32, at, FALSE), 0)
      [] ~sgr /\ final = 126 /\ numbers = <<200>> /\ modes.paste /\ closes # {} ->
            Taken(PasteEvent(SubSeq(after, 1, close - 1)), close + 5)
      [] ~sgr /\ final \in {73, 79} /\ modes.focus -> Taken(FocusEvent(final = 73), 0)
      [] OTHER -> Taken(KeyByFinal(modes, final, numbers), 0)

IsFinal(bytes, j) == bytes[j] >= 64 /\ (\A k \in 3 .. j - 1 : bytes[k] < 64)

CsiIn(modes, bytes) ==
    LET end == CHOOSE j \in 3 .. Len(bytes) : IsFinal(bytes, j)
        csi == CsiEvent(modes, SubSeq(bytes, 3, end - 1), bytes[end], Behind(bytes, end)) IN
    Taken(csi.event, end + csi.length)

Ss3Key(modes, final) ==
    CASE final \in 80 .. 83 -> KeyEvent("F", final - 79, {})
      [] final \in DOMAIN LetterKeys /\ modes.applicationCursor -> KeyEvent(LetterKeys[final], 0, {})
      [] OTHER -> Unknown

EventIn(modes, bytes) ==
    LET Byte(k) == IF k <= Len(bytes) THEN bytes[k] ELSE -1
        typed == CharIn(bytes)
        meta == CharIn(Behind(bytes, 1)) IN
    CASE bytes[1] # 27 -> Taken(CharEvent(typed.char), typed.length)
      [] bytes[1] = 27 /\ Byte(2) \in {-1, 27} -> Taken(CharEvent(27), 1)
      [] bytes[1] = 27 /\ Byte(2) = 91 /\ Byte(3) = 77 /\ modes.mouse # 0 /\ modes.encoding \in {0, 1005} ->
            OldMouse(modes, bytes)
      [] bytes[1] = 27 /\ Byte(2) = 91 /\ Byte(3) # 77 /\ (\E j \in 3 .. Len(bytes) : bytes[j] >= 64) ->
            CsiIn(modes, bytes)
      [] bytes[1] = 27 /\ Byte(2) = 79 /\ Byte(3) # -1 -> Taken(Ss3Key(modes, bytes[3]), 3)
      [] OTHER -> Taken(KeyEvent("Alt", meta.char, {}), 1 + meta.length)

(* One event after the other; the last one may be cut off. *)
EventsIn(modes, bytes) ==
    LET First(i) == EventIn(modes, Behind(bytes, i - 1))
        from[i \in 1 .. Len(bytes) + 1] ==
            IF i > Len(bytes) THEN <<>>
            ELSE <<First(i).event>> \o from[Least(i + First(i).length, Len(bytes) + 1)] IN
    from[1]

(* Keys that are the beginning of a sequence of others. *)
Beginnings == {<<27>>, <<27, 91>>, <<27, 79>>}
===============================================================================
