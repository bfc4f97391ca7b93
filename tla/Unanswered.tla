------------------------------ MODULE Unanswered ------------------------------
(***************************************************************************)
(* The queries a terminal left unanswered: a bounded list of their shapes, *)
(* each with the read it was last asked in, and what the note appended to  *)
(* the error of a wait makes of it.                                        *)
(***************************************************************************)
EXTENDS Integers, Sequences

CONSTANT MaxUnanswered    (* MAX_UNANSWERED *)

ASSUME UnansweredAssumption == MaxUnanswered \in Nat

NothingUnanswered == [kept |-> <<>>, overflow |-> 0]

Shapes(notes) == {notes.kept[i].shape : i \in DOMAIN notes.kept}

Asked(notes, shape) == \E i \in DOMAIN notes.kept : notes.kept[i].shape = shape

(* Slip: a shape asked again keeps the read of its first occurrence. *)
NoteUnansweredOnce(notes, shape, read) ==
    IF Asked(notes, shape) THEN notes
    ELSE IF Len(notes.kept) < MaxUnanswered
    THEN [notes EXCEPT !.kept = Append(@, [shape |-> shape, read |-> read])]
    ELSE [notes EXCEPT !.overflow = @ + 1]

(* A shape asked again is judged by its last occurrence; a new one beyond the
   bound is only counted. *)
NoteUnanswered(notes, shape, read) ==
    IF Asked(notes, shape)
    THEN [notes EXCEPT !.kept =
            [i \in DOMAIN @ |-> IF @[i].shape = shape THEN [@[i] EXCEPT !.read = read] ELSE @[i]]]
    ELSE IF Len(notes.kept) < MaxUnanswered
    THEN [notes EXCEPT !.kept = Append(@, [shape |-> shape, read |-> read])]
    ELSE [notes EXCEPT !.overflow = @ + 1]

(* query_note: the shapes asked in the last read may be what the application
   waits for; if there are none, those it has moved past are context. *)
QueryNote(notes, reads) ==
    LET blocking == {i \in DOMAIN notes.kept : notes.kept[i].read = reads} IN
    IF notes.kept = <<>> THEN [kind |-> "none", shapes |-> {}, more |-> 0]
    ELSE IF blocking = {}
    THEN [kind |-> "movedPast", shapes |-> Shapes(notes), more |-> notes.overflow]
    ELSE [kind |-> "cause", shapes |-> {notes.kept[i].shape : i \in blocking},
          more |-> notes.overflow]
=============================================================================
