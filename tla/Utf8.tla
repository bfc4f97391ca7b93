--------------------------------- MODULE Utf8 ---------------------------------
(***************************************************************************)
(* The streaming UTF-8 sanitizer: what is no character becomes one         *)
(* replacement, and a character that a read cuts in two is carried.        *)
(*                                                                         *)
(* A byte is a name. The lead bytes and the continuation bytes of the      *)
(* instance are given below; every other name is a byte that is a          *)
(* character of its own, but for those that are never part of one.         *)
(***************************************************************************)
EXTENDS Integers, Sequences, SequencesExt

CONSTANTS
    Leads,           (* lead byte -> how many continuation bytes follow *)
    Continuations,
    SecondBytes,     (* lead byte -> the second bytes it can have *)
    NeverBytes,      (* bytes that are in no character *)
    Replacement      (* U+FFFD, as bytes *)

ASSUME Utf8Assumption ==
    /\ \A b \in DOMAIN Leads : Leads[b] \in 1 .. 3 /\ SecondBytes[b] \subseteq Continuations
    /\ (DOMAIN Leads) \intersect (Continuations \union NeverBytes) = {}

(* What begins at a place: a character, what can still become one, or what
   was rejected, up to the byte that shows it (std::str::from_utf8's valid_up_to
   and error_len). *)
Decoded(rest) ==
    LET lead == Head(rest)
        needs == IF lead \in DOMAIN Leads THEN Leads[lead] ELSE 0
        Fits(n) == /\ n < Len(rest)
                   /\ rest[n + 1] \in IF n = 1 THEN SecondBytes[lead] ELSE Continuations
        got == IF \A n \in 1 .. needs : Fits(n) THEN needs
               ELSE CHOOSE n \in 0 .. needs - 1 : ~Fits(n + 1) /\ \A m \in 1 .. n : Fits(m) IN
    CASE lead \in Continuations \union NeverBytes -> [kind |-> "invalid", length |-> 1]
      [] got = needs /\ lead \notin Continuations \union NeverBytes ->
            [kind |-> "character", length |-> needs + 1]
      [] got < needs /\ got + 1 = Len(rest) -> [kind |-> "partial", length |-> got + 1]
      [] OTHER -> [kind |-> "invalid", length |-> got + 1]

(* U+FFFD is a character. *)
ASSUME ReplacementAssumption ==
    Replacement # <<>> /\ Decoded(Replacement) = [kind |-> "character", length |-> Len(Replacement)]

(* Slip: a character cut in two is replaced at once. *)
SanitizeAtOnce(carry, bytes) ==
    LET rest == carry \o bytes
        from[i \in 1 .. Len(rest) + 1] ==
            IF i > Len(rest) THEN [out |-> <<>>, carry |-> <<>>]
            ELSE LET d == Decoded(SubSeq(rest, i, Len(rest)))
                     after == from[i + d.length] IN
                 IF d.kind = "character"
                 THEN [after EXCEPT !.out = SubSeq(rest, i, i + d.length - 1) \o @]
                 ELSE [after EXCEPT !.out = Replacement \o @] IN
    from[1]

(* Utf8Sanitizer::feed: what goes on to the emulator, and what is held back. *)
Sanitize(carry, bytes) ==
    LET rest == carry \o bytes
        from[i \in 1 .. Len(rest) + 1] ==
            IF i > Len(rest) THEN [out |-> <<>>, carry |-> <<>>]
            ELSE LET d == Decoded(SubSeq(rest, i, Len(rest))) IN
                 IF d.kind = "partial"
                 THEN [out |-> <<>>, carry |-> SubSeq(rest, i, Len(rest))]
                 ELSE [from[i + d.length] EXCEPT !.out =
                          (IF d.kind = "character" THEN SubSeq(rest, i, i + d.length - 1)
                           ELSE Replacement) \o @] IN
    from[1]

Pending(carry) == carry # <<>>

(* Utf8Sanitizer::finish: at the end of the stream. *)
Finish(carry) == IF carry = <<>> THEN <<>> ELSE Replacement
===============================================================================
