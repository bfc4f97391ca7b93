------------------------------- MODULE Answers -------------------------------
(***************************************************************************)
(* What the terminal answers to a question, from the emulator as it stood  *)
(* at the byte that completed it; or which question stays unanswered.      *)
(* A reply is a record of what it says, with its wording left out.         *)
(***************************************************************************)
EXTENDS Emulator

CONSTANTS
    Respond,         (* whether the responder is on *)
    Capabilities,    (* capability names, hex-encoded, that termcap_value knows *)
    HexNames         (* names that decode, known or not *)

Reply(said) == [reply |-> {said}, unanswered |-> {}]
Unasked(shape) == [reply |-> {}, unanswered |-> {shape}]
Silence == [reply |-> {}, unanswered |-> {}]

(* query_shape: the form a question is noted in. *)
QueryShape(query) ==
    CASE query.kind \in {"KittyGraphics", "RequestTermcap", "Unanswerable"} -> query.shape
      [] query.kind = "CursorPosition" ->
            Esc(IF query.private THEN <<"[", "?", "6", "n">> ELSE <<"[", "6", "n">>)
      [] query.kind = "OperatingStatus" -> Csi(5, "n")
      [] query.kind = "PrimaryDa" -> Esc(<<"[", "c">>)
      [] query.kind = "SecondaryDa" -> Esc(<<"[", ">", "c">>)
      [] query.kind = "TextAreaSize" -> Csi(18, "t")
      [] query.kind = "WindowSizePixels" -> Csi(14, "t")
      [] query.kind = "CellSizePixels" -> Csi(16, "t")
      [] query.kind = "OscColor" -> Esc(<<"]", query.code, ";", "?">>)
      [] query.kind = "RequestMode" -> Esc(<<"[", "?", NumberByte(query.mode), "$", "p">>)

NonZero(option) == option \ {0}

(* kitty's own answer, to a query of a terminal that has kitty's graphics: what
   its loader made of the data, and what q= silences. *)
KittyAnswer(query) ==
    LET id == NonZero(query.id)
        number == NonZero(query.number)
        Told(what) == Reply([kind |-> "Kitty", id |-> Some(id), says |-> what]) IN
    CASE id # {} /\ number # {} -> IF query.quiet >= 2 THEN Silence ELSE Told("EINVAL")
      [] id = {} -> IF query.quiet >= 2 THEN Silence ELSE Unasked(query.shape)
      [] id # {} /\ number = {} /\ query.load = "Loaded" ->
            IF query.quiet >= 1 THEN Silence ELSE Told("OK")
      [] id # {} /\ number = {} /\ query.load = "Gone" ->
            IF query.quiet >= 2 THEN Silence ELSE Told("EILSEQ")
      [] OTHER -> IF query.quiet = 0 THEN Unasked(query.shape) ELSE Silence

(* termcap_reply: one answer for each name that can be read, known or not. *)
TermcapAnswer(query) ==
    LET Readable(name) == name # <<>> /\ Head(name) \in HexNames
        names == SelectSeq(Split(query.names, ";"), Readable)
        said == [i \in DOMAIN names |-> [name |-> Head(names[i]), known |-> Head(names[i]) \in Capabilities]] IN
    IF said = <<>> THEN Unasked(query.shape) ELSE Reply([kind |-> "Termcap", said |-> said])

(* EmuState::answer. *)
Answer(e, query) ==
    LET at == CursorPosition(e)
        sized == CellSize # {}
        cell == Some(CellSize) IN
    CASE ~Respond \/ query.kind = "Unanswerable" -> Unasked(QueryShape(query))
      [] Respond /\ query.kind = "CursorPosition" ->
            Reply([kind |-> "Cursor", private |-> query.private, row |-> at.row + 1, col |-> at.col + 1])
      [] Respond /\ query.kind = "OperatingStatus" -> Reply([kind |-> "Status"])
      [] Respond /\ query.kind = "PrimaryDa" -> Reply([kind |-> "Da1", sixel |-> ImageSupport = "Sixel"])
      [] Respond /\ query.kind = "SecondaryDa" -> Reply([kind |-> "Da2"])
      [] Respond /\ query.kind = "TextAreaSize" ->
            Reply([kind |-> "Size", height |-> e.grid.rows, width |-> e.grid.cols])
      [] Respond /\ query.kind = "CellSizePixels" /\ sized ->
            Reply([kind |-> "Pixels", height |-> cell[2], width |-> cell[1]])
      [] Respond /\ query.kind = "WindowSizePixels" /\ sized ->
            Reply([kind |-> "Pixels", height |-> e.grid.rows * cell[2], width |-> e.grid.cols * cell[1]])
      [] Respond /\ query.kind = "KittyGraphics" /\ ImageSupport = "Kitty" -> KittyAnswer(query)
      [] Respond /\ query.kind = "OscColor" ->
            Reply([kind |-> "Colour", code |-> query.code, st |-> query.st])
      [] Respond /\ query.kind = "RequestMode" ->
            Reply([kind |-> "Mode", mode |-> query.mode, state |-> ModeState(e, query.mode)])
      [] Respond /\ query.kind = "RequestTermcap" -> TermcapAnswer(query)
      [] OTHER -> Unasked(QueryShape(query))
===============================================================================
