------------------------------ MODULE Characters ------------------------------
(***************************************************************************)
(* Text as the screen code takes it: a sequence of characters, of which    *)
(* some are two columns wide, some are marks that join the one before, and *)
(* some compose with a mark into a character of their own.  A character is *)
(* named by a string.                                                      *)
(*                                                                         *)
(* The code counts bytes and looks a column up for each; all bytes of a    *)
(* character have one column, so places in a text are characters here.     *)
(***************************************************************************)
EXTENDS Integers, Sequences, FiniteSets, SequencesExt

CONSTANTS
    WideChars,      (* two columns on their own *)
    Marks,          (* no column of their own; the selector is one *)
    Selector,       (* U+FE0F *)
    Emoji,          (* one column, or two with the selector after them *)
    ControlChars,   (* not drawn *)
    Spaces,         (* what trim_end takes for white space *)
    NonAscii,       (* characters that are not ASCII *)
    Composed        (* <<character, mark>> -> the one character of both *)

ASSUME CharactersAssumption ==
    /\ Selector \in Marks
    /\ WideChars \intersect (Marks \union Emoji) = {}
    /\ WideChars \union Marks \union Emoji \subseteq NonAscii
    /\ \A pair \in DOMAIN Composed : Composed[pair] \in STRING

Text == Seq(STRING)

NewLine == "nl"
Space == " "

IsAscii(text) == \A i \in DOMAIN text : text[i] \notin NonAscii

-----------------------------------------------------------------------------
(* Widths (width.rs). *)

CharColumns(c) == CASE c \in Marks -> 0 [] c \in WideChars -> 2 [] OTHER -> 1

(* A mark joins the cell before it, and a selector widens it. *)
Columns(text) ==
    LET IsDrawn(c) == c \notin ControlChars
        drawn == SelectSeq(text, IsDrawn)
        starts == {i \in DOMAIN drawn : CharColumns(drawn[i]) > 0}
        wide == {i \in starts : \/ CharColumns(drawn[i]) = 2
                                \/ drawn[i] \in Emoji /\ i < Len(drawn) /\ drawn[i + 1] = Selector} IN
    Cardinality(starts) + Cardinality(wide)

CellIsWide(text) == Columns(text) = 2

-----------------------------------------------------------------------------
(* NFC: a character and the mark after it, if there is one character for both. *)
Nfc(text) ==
    LET upTo[n \in 0 .. Len(text)] ==
            IF n = 0 THEN <<>>
            ELSE LET done == upTo[n - 1] IN
                 IF done # <<>> /\ <<Last(done), text[n]>> \in DOMAIN Composed
                 THEN Append(Front(done), Composed[<<Last(done), text[n]>>])
                 ELSE Append(done, text[n]) IN
    upTo[Len(text)]

TrimEnd(text) ==
    LET kept == {i \in DOMAIN text : text[i] \notin Spaces} IN
    SubSeq(text, 1, IF kept = {} THEN 0 ELSE CHOOSE i \in kept : \A j \in kept : j <= i)

OccursAt(needle, text, i) == SubSeq(text, i, i + Len(needle) - 1) = needle

(* str::match_indices: where a needle starts, from left to right, no two of its
   places overlapping. *)
MatchIndices(text, needle) ==
    LET from[i \in 1 .. Len(text) + 1] ==
            IF i + Len(needle) > Len(text) + 1 THEN {}
            ELSE IF OccursAt(needle, text, i) THEN {i} \union from[i + Len(needle)] ELSE from[i + 1] IN
    IF needle = <<>> THEN {} ELSE from[1]

HasNeedle(text, needle) == \E i \in 1 .. Len(text) - Len(needle) + 1 : OccursAt(needle, text, i)

(* str::split('\n') *)
Segments(text) ==
    LET from[i \in 1 .. Len(text) + 1] ==
            IF i > Len(text) THEN << <<>> >>
            ELSE LET rest == from[i + 1] IN
                 IF text[i] = NewLine THEN << <<>> >> \o rest
                 ELSE << <<text[i]>> \o Head(rest) >> \o Tail(rest) IN
    from[1]

(* Lines, put together again. *)
Lines(parts) ==
    LET upTo[n \in 1 .. Len(parts)] ==
            IF n = 1 THEN parts[1] ELSE upTo[n - 1] \o <<NewLine>> \o parts[n] IN
    upTo[Len(parts)]
===============================================================================
