-------------------------------- MODULE Shadow --------------------------------
(***************************************************************************)
(* The rewriters in front of the two parsers: one keeps complete plain     *)
(* SGRs only, and replaces them; all other bytes go through.  The colour   *)
(* normalizer writes the colours for the primary parser; the shadow's      *)
(* rewrite leaves nothing but the carriers of blink, conceal and           *)
(* strikethrough.                                                          *)
(***************************************************************************)
EXTENDS Bytes

(* What is held back is what may still become an SGR: nothing, ESC, or ESC [
   and parameters. It is the state as well. *)
NothingPending == <<>>

IsPlainSgr(seq) ==
    \A i \in 3 .. Len(seq) - 1 : seq[i] \in Digits \union {";", ":"}

SgrGroups(seq) == Split(SubSeq(seq, 3, Len(seq) - 1), ";")

Sgr(groups) == <<"ESC", "[">> \o Joined(groups, ";") \o <<"m">>

Carrier == (0 :> "0") @@ (5 :> "1") @@ (6 :> "1") @@ (8 :> "3") @@ (9 :> "4")
             @@ (25 :> "22") @@ (28 :> "23") @@ (29 :> "24")

(* How many groups an extended colour takes: one in the colon form. *)
ColourLength(groups, i) ==
    LET next == IF i < Len(groups) THEN NumberOf(groups[i + 1]) ELSE 0 IN
    CASE ":" \in Range(groups[i]) -> 1
      [] ":" \notin Range(groups[i]) /\ next = 2 -> 5
      [] ":" \notin Range(groups[i]) /\ next = 5 -> 3
      [] OTHER -> 1

(* The carriers that an SGR selects. *)
Carriers(groups) ==
    LET from[i \in 1 .. Len(groups) + 5] ==
            LET v == NumberOf(groups[i]) IN
            CASE i > Len(groups) -> <<>>
              [] i <= Len(groups) /\ v \in {38, 48, 58} -> from[i + ColourLength(groups, i)]
              [] OTHER -> (IF v \in DOMAIN Carrier THEN << <<Carrier[v]>> >> ELSE <<>>) \o from[i + 1] IN
    from[1]

(* rewrite_sgr: only carriers are left, and a harmless colour reset where
   there are none, so that the ESC stays. *)
RewriteSgr(seq) ==
    LET Written(groups) == Sgr(IF groups = <<>> THEN << <<"39">> >> ELSE groups) IN
    IF IsPlainSgr(seq) THEN Written(Carriers(SgrGroups(seq))) ELSE seq

(* An underline colour takes its arguments as one parameter, which vt100 then
   skips whole; a colon form becomes the form it reads. *)
NormalizedGroup(groups, i) ==
    LET next == IF i < Len(groups) THEN groups[i + 1] ELSE <<>>
        arguments == CASE next = <<"5">> -> 2 [] next = <<"2">> -> 4 [] OTHER -> 0
        to == Lesser(i + arguments, Len(groups))
        Colon(parts) ==
            LET Is(kind, length) == parts[2] = <<kind>> /\ Len(parts) = length IN
            CASE parts[1] \notin {<<"38">>, <<"48">>} \/ Len(parts) = 1 -> <<groups[i]>>
              [] Is("2", 6) /\ parts[3] = <<>> -> SubSeq(parts, 1, 2) \o SubSeq(parts, 4, 6)
              [] Is("2", 5) \/ Is("5", 3) -> parts
              [] OTHER -> <<groups[i]>> IN
    IF groups[i] = <<"58">> /\ arguments > 0
    THEN [groups |-> <<Joined(SubSeq(groups, i, to), ":")>>, next |-> to + 1]
    ELSE [groups |-> Colon(Split(groups[i], ":")), next |-> i + 1]

NormalGroups(groups) ==
    LET from[i \in 1 .. Len(groups) + 5] ==
            LET Then(normal) == normal.groups \o from[normal.next] IN
            IF i > Len(groups) THEN <<>> ELSE Then(NormalizedGroup(groups, i)) IN
    from[1]

(* normalize_for_grid: what changes nothing leaves the sequence as it is. *)
NormalizeForGrid(seq) == IF IsPlainSgr(seq) THEN Sgr(NormalGroups(SgrGroups(seq))) ELSE seq

Rewritten(rewriter, seq) ==
    IF rewriter = "colours" THEN NormalizeForGrid(seq) ELSE RewriteSgr(seq)

(* rewrite_stream, by one byte: what goes out, and what is held. *)
RewriteByte(rewriter, pending, b) ==
    LET held == Append(pending, b) IN
    CASE b = "ESC" -> [out |-> pending, pending |-> <<b>>]
      [] b # "ESC" /\ pending = <<>> -> [out |-> <<b>>, pending |-> <<>>]
      [] b # "ESC" /\ Len(pending) = 1 ->
            IF b = "[" THEN [out |-> <<>>, pending |-> held] ELSE [out |-> held, pending |-> <<>>]
      [] b # "ESC" /\ Len(pending) > 1 /\ b \in Parameters \union Intermediates ->
            [out |-> <<>>, pending |-> held]
      [] OTHER -> [out |-> IF b = "m" THEN Rewritten(rewriter, held) ELSE held, pending |-> <<>>]

RECURSIVE Rewriting(_, _, _)
Rewriting(rewriter, s, bytes) ==
    IF bytes = <<>> THEN s
    ELSE Rewriting(rewriter, [RewriteByte(rewriter, s.pending, Head(bytes)) EXCEPT !.out = s.out \o @],
                   Tail(bytes))

RewriteStream(rewriter, pending, bytes) ==
    Rewriting(rewriter, [out |-> <<>>, pending |-> pending], bytes)
===============================================================================
