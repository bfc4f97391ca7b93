-------------------------------- MODULE Bytes --------------------------------
(***************************************************************************)
(* The bytes of a stream, by name: "ESC", "[", "h", "e6".  A run of digits *)
(* is one symbol, whose value is known, and so is the text between two     *)
(* separators that the code only carries along.                            *)
(***************************************************************************)
EXTENDS Utf8, TLC

CONSTANTS
    Numbers,     (* the numbers that runs of digits stand for *)
    CountMax     (* u16::MAX: where a narrow count saturates *)

ASSUME BytesAssumption == Numbers \subseteq Nat /\ CountMax \in Nat

Digits == {ToString(n) : n \in Numbers}

Value == [s \in Digits |-> CHOOSE n \in Numbers : ToString(n) = s]

(* The classes of bytes that escape sequences are made of: C0 controls that
   are executed, the bytes from 0x7f, and what a CSI has between its
   introducer and its final byte. *)
Controls == {"BEL", "HT", "LF", "CR", "SO", "SI"}
Aborting == {"CAN", "SUB"}
HighBytes == {"DEL"} \union (DOMAIN Leads) \union Continuations \union NeverBytes
Intermediates == {" ", "!", "\"", "#", "$", "%", "(", ")", "*", "+", ",", "-"}
Markers == {"?", ">", "="}
Parameters == Digits \union Markers \union {";", ":"}

InSequence == Controls \union HighBytes    (* what passes through a sequence *)
IsFinal(b) == b \notin InSequence \union Aborting \union Intermediates \union Parameters \union {"ESC"}

IsPrintable(b) == b \notin Controls \union Aborting \union {"ESC", "DEL"}

Lesser(a, b) == IF a < b THEN a ELSE b
Greater(a, b) == IF a < b THEN b ELSE a

(* The value of an option that is a set of one element, or none. *)
Some(option) == CHOOSE x \in option : TRUE

(* The least of a set of places, or 0 where there is none. *)
FirstOf(places) == IF places = {} THEN 0 ELSE CHOOSE i \in places : \A j \in places : i <= j

PlaceOf(seq, b) == FirstOf({i \in DOMAIN seq : seq[i] = b})

(* The sum of a sequence of numbers. *)
Total(numbers) ==
    LET upTo[i \in 0 .. Len(numbers)] == IF i = 0 THEN 0 ELSE upTo[i - 1] + numbers[i] IN
    upTo[Len(numbers)]

(* What follows the first `separator`. *)
After(seq, separator) ==
    LET at == PlaceOf(seq, separator) IN IF at = 0 THEN <<>> ELSE SubSeq(seq, at + 1, Len(seq))

Before(seq, separator) ==
    LET at == PlaceOf(seq, separator) IN IF at = 0 THEN seq ELSE SubSeq(seq, 1, at - 1)

StartsWith(seq, prefix) == IsPrefix(prefix, seq)

Repeat(x, n) == [i \in 1 .. n |-> x]

(* The parts of a sequence between its separators. *)
Split(seq, separator) ==
    LET from[i \in 1 .. Len(seq) + 1] ==
            IF i > Len(seq) THEN << <<>> >>
            ELSE LET rest == from[i + 1] IN
                 IF seq[i] = separator THEN << <<>> >> \o rest
                 ELSE << <<seq[i]>> \o Head(rest) >> \o Tail(rest) IN
    from[1]

(* The parts, put together again. *)
Joined(parts, separator) ==
    LET from[i \in 1 .. Len(parts) + 1] ==
            CASE i > Len(parts) -> <<>>
              [] i = Len(parts) -> parts[i]
              [] OTHER -> parts[i] \o <<separator>> \o from[i + 1] IN
    from[1]

(* The number of a group of parameter bytes, which is its first value. *)
NumberOf(group) ==
    LET digits == Before(group, ":") IN IF digits = <<>> THEN 0 ELSE Value[Head(digits)]

(* A whole control sequence, ESC [ to its final byte, taken apart: its marker
   and intermediate, if any, and its groups of parameter bytes. *)
ControlSequence(seq) ==
    LET body == SubSeq(seq, 3, Len(seq) - 1)
        Inner(b) == b \in Intermediates
        Plain(b) == b \in Parameters \ Markers
        inner == SelectSeq(body, Inner) IN
    [marker |-> IF body # <<>> /\ Head(body) \in Markers THEN Head(body) ELSE "",
     inner |-> IF inner = <<>> THEN "" ELSE Head(inner),
     groups |-> Split(SelectSeq(body, Plain), ";"),
     final |-> seq[Len(seq)]]
===============================================================================
