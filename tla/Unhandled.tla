------------------------------ MODULE Unhandled ------------------------------
(***************************************************************************)
(* What the vt100 backend declined, kept by shape: the callback set of the *)
(* primary parser. What the tracker and the shadow parser carry out is     *)
(* filtered, so that the list names what nobody honoured.                  *)
(***************************************************************************)
EXTENDS Bytes

CONSTANT MaxUnsupported    (* MAX_UNSUPPORTED *)

ASSUME UnsupportedAssumption == MaxUnsupported \in Nat \ {0}

TrackedPrivateModes == {9, 1000, 1002, 1003, 1005, 1006, 1015, 1004, 2026, 9001}
Autowrap == 7
ShadowSgrParams == {5, 6, 8, 9, 25, 28, 29}

NoneUnhandled == [shapes |-> <<>>, overflow |-> 0, visualBells |-> 0, evicted |-> 0]

(* One that is known is not counted; one too many only is. *)
RecordShape(u, shape) ==
    CASE shape \in Range(u.shapes) -> u
      [] shape \notin Range(u.shapes) /\ Len(u.shapes) >= MaxUnsupported -> [u EXCEPT !.overflow = @ + 1]
      [] OTHER -> [u EXCEPT !.shapes = Append(@, shape)]

(* A row that a scroll took off the main screen's history. *)
OnScroll(u, rows, alternate) == IF alternate THEN u ELSE [u EXCEPT !.evicted = @ + rows]

UnhandledEscape(u, inner, final) ==
    LET designation == inner # <<>> /\ Head(inner) \in {"(", ")", "*", "+"} /\ Len(inner) = 1 IN
    CASE final = "g" /\ inner = <<>> -> [u EXCEPT !.visualBells = @ + 1]
      [] designation \/ (inner = <<>> /\ final \in {"H", "N", "O", "\\"}) -> u
      [] OTHER -> RecordShape(u, <<"ESC">> \o inner \o <<final>>)

(* The values a control sequence gives, sub-parameters and all; an omitted one
   is 0, and the parser never hands over fewer than one. *)
ParamValues(cs) ==
    UNION {{IF part = <<>> THEN 0 ELSE Value[Head(part)] : part \in Range(Split(group, ":"))}
             : group \in Range(cs.groups)}

(* params_text: an only parameter of zero is left out. *)
ParamsText(groups) ==
    LET Written(group) == IF group = <<>> THEN <<"0">> ELSE group
        text == [i \in DOMAIN groups |-> Written(groups[i])] IN
    IF text = << <<"0">> >> THEN <<>> ELSE text

(* What the tracker, the responder or the shadow parser makes of a sequence
   that vt100 declined. A list is honoured when all of it is. *)
Honoured(cs) ==
    LET values == ParamValues(cs)
        Is(marker, inner, finals) == cs.marker = marker /\ cs.inner = inner /\ cs.final \in finals IN
    \/ Is("", "", {"g", "I", "Z", "c", "n"})
    \/ /\ Is("", "", {"t"}) /\ Len(cs.groups) = 1
       /\ NumberOf(Head(cs.groups)) \in {11, 13, 14, 16, 18, 19, 20, 21}
    \/ Is("", "", {"h", "l"}) /\ values \subseteq {4}
    \/ Is("", "!", {"p"}) \/ Is("", " ", {"q"})
    \/ cs.inner = "$" /\ cs.final \in {"p", "y"}
    \/ Is(">", "", {"c"}) \/ Is("?", "", {"u", "S"})
    \/ /\ Is("?", "", {"h", "l"})
       /\ values \subseteq TrackedPrivateModes \union (IF cs.final = "h" THEN {Autowrap} ELSE {})
    \/ Is("", "", {"m"}) /\ values \subseteq ShadowSgrParams

UnhandledCsi(u, cs) ==
    IF Honoured(cs) THEN u
    ELSE RecordShape(u, <<"ESC", "[", cs.marker, ParamsText(cs.groups), cs.inner, cs.final>>)

(* Links, the clipboard and a title are the tracker's; of the colours, only
   the questions are. *)
UnhandledOsc(u, params) ==
    LET code == Head(params)
        question == \/ code \in {<<"10">>, <<"11">>} /\ Tail(params) = << <<"?">> >>
                    \/ code = <<"4">> /\ Last(params) = <<"?">> IN
    IF \/ code \in {<<"8">>, <<"52">>} \/ question
       \/ code \in {<<"0">>, <<"2">>} /\ Len(params) > 1
    THEN u
    ELSE RecordShape(u, <<"ESC", "]">> \o Joined(params, ";"))
===============================================================================
