------------------------------- MODULE Graphics -------------------------------
(***************************************************************************)
(* Inline graphics as the sequence tracker takes them in: a payload under  *)
(* construction, the measure of a sixel, kitty's loader with its chunked   *)
(* uploads and queries, and the cells a placement covers.                  *)
(*                                                                         *)
(* The keys of a kitty control block are a function from the names it      *)
(* gives to their values.  An option is a set of at most one element.      *)
(***************************************************************************)
EXTENDS Bytes, FiniteSets

CONSTANTS
    SixelBits,       (* a painting byte of a sixel -> which of six rows it sets *)
    CaptureMax       (* the budget of payload bytes *)

Opt(keys, name) == IF name \in DOMAIN keys THEN {keys[name]} ELSE {}
Number(keys, name) == IF name \in DOMAIN keys THEN keys[name] ELSE 0
KeyIs(keys, name, value) == name \in DOMAIN keys /\ keys[name] = value

Both(keys, a, b) ==
    IF {a, b} \subseteq DOMAIN keys THEN {<<keys[a], keys[b]>>} ELSE {}

(* GraphicsAction::carries_image. *)
CarriesImage(action) == action \in {"Transmit", "TransmitAndPlace"}

NoPlacement == [cols |-> 0, rows |-> 0, srcWidth |-> 0, srcHeight |-> 0, srcX |-> 0, srcY |-> 0,
                cellX |-> 0, cellY |-> 0, moves |-> FALSE, height |-> 0, forgets |-> {}]

(* GraphicsBuilder::default. *)
EmptyBuilder ==
    [protocol |-> "none", action |-> "Other", format |-> "Rgba", compressed |-> FALSE,
     transmission |-> {}, id |-> {}, size |-> {}, cells |-> {}, chunks |-> 0, bytes |-> 0,
     data |-> <<>>, dropped |-> FALSE, placement |-> NoPlacement]

(* The images, from the first id to the last, that a delete frees: by id or by
   a range of ids, and not when it names one placement. *)
Forgets(keys) ==
    LET first == IF KeyIs(keys, "d", "I") THEN Number(keys, "i") ELSE Greater(Number(keys, "x"), 1)
        last == IF KeyIs(keys, "d", "I") THEN Number(keys, "i") ELSE Number(keys, "y") IN
    IF /\ Number(keys, "p") = 0
       /\ \/ KeyIs(keys, "d", "I") /\ first # 0
          \/ KeyIs(keys, "d", "R") /\ first <= last
    THEN {<<first, last>>} ELSE {}

(* GraphicsBuilder::kitty: the facts of the first escape of a transmission;
   those of a chunk that follows are not looked at. *)
Kitty(builder, keys) ==
    LET action == CASE Opt(keys, "a") \in {{}, {"t"}} -> "Transmit"
                    [] KeyIs(keys, "a", "p") -> "Place"
                    [] KeyIs(keys, "a", "T") -> "TransmitAndPlace"
                    [] KeyIs(keys, "a", "d") -> "Delete"
                    [] OTHER -> "Other"
        format == CASE Opt(keys, "f") \in {{}, {32}} -> "Rgba"
                    [] KeyIs(keys, "f", 24) -> "Rgb"
                    [] KeyIs(keys, "f", 100) -> "Png"
                    [] OTHER -> "Other" IN
    IF builder.protocol # "none" THEN builder
    ELSE [builder EXCEPT
            !.protocol = "Kitty", !.action = action, !.format = format,
            !.compressed = KeyIs(keys, "o", "z"),
            !.transmission = Opt(keys, "t"),
            !.id = Opt(keys, "i"), !.size = Both(keys, "s", "v"), !.cells = Both(keys, "c", "r"),
            !.placement =
                [cols |-> Number(keys, "c"), rows |-> Number(keys, "r"),
                 srcWidth |-> Number(keys, "w"), srcHeight |-> Number(keys, "h"),
                 srcX |-> Number(keys, "x"), srcY |-> Number(keys, "y"),
                 cellX |-> Number(keys, "X"), cellY |-> Number(keys, "Y"),
                 moves |-> Number(keys, "C") # 1 /\ Number(keys, "U") # 1 /\ "P" \notin DOMAIN keys,
                 height |-> 0,
                 forgets |-> IF action = "Delete" THEN Forgets(keys) ELSE {}]]

(* GraphicsBuilder::chunk: counted whole, kept within the budget or not at
   all. *)
Chunk(builder, escape) ==
    LET keeps == /\ escape.whole /\ ~builder.dropped
                 /\ Len(builder.data) + Len(escape.data) <= CaptureMax IN
    [builder EXCEPT !.chunks = @ + 1, !.bytes = @ + escape.bytes,
                    !.data = IF keeps THEN @ \o escape.data ELSE <<>>,
                    !.dropped = ~keeps]

(* The payload of finish_placed, which leaves the builder empty. *)
Payload(builder) ==
    [protocol |-> builder.protocol, action |-> builder.action, format |-> builder.format,
     compressed |-> builder.compressed, transmission |-> builder.transmission,
     id |-> builder.id, size |-> builder.size, cells |-> builder.cells,
     chunks |-> builder.chunks, bytes |-> builder.bytes, at |-> <<0, 0>>,
     data |-> IF builder.dropped THEN {} ELSE {builder.data}]

NoCounts == [kitty |-> 0, sixel |-> 0, deletes |-> 0, bytes |-> 0]

(* GraphicsCounts::record: bytes for every payload, images for those that
   carry one. *)
Record(counts, payload) ==
    [counts EXCEPT
        !.bytes = @ + payload.bytes,
        !.deletes = IF payload.action = "Delete" THEN @ + 1 ELSE @,
        !.kitty = IF CarriesImage(payload.action) /\ payload.protocol = "Kitty" THEN @ + 1 ELSE @,
        !.sixel = IF CarriesImage(payload.action) /\ payload.protocol = "Sixel" THEN @ + 1 ELSE @]

-----------------------------------------------------------------------------
(***************************************************************************)
(* A sixel, measured as its bytes come.                                    *)
(***************************************************************************)

(* The raster record, as far as it has been read: its parameters while it is
   being read, and the size it gave. *)
EmptyMeter == [at |-> "leading", params |-> <<>>, band |-> 0, height |-> 0]

RasterSize(params) ==
    IF Len(params) >= 4 /\ params[3] > 0 /\ params[4] > 0 THEN {<<params[3], params[4]>>} ELSE {}

(* The rows a painting byte sets, counted from the top of its band, 1 to 6. *)
LowestRow(b) == IF SixelBits[b] = {} THEN 0 ELSE CHOOSE r \in SixelBits[b] : \A q \in SixelBits[b] : q <= r

(* SixelMeter::feed. A record counts only if it leads. *)
Measure(meter, b) ==
    LET paints == b \in DOMAIN SixelBits
        reading == meter.at = "reading"
        last == Len(meter.params) IN
    [at |-> CASE meter.at = "leading" /\ b = "\"" -> "reading"
              [] meter.at = "leading" /\ paints -> "done"
              [] reading /\ b \notin Digits \union {";"} -> "done"
              [] OTHER -> meter.at,
     params |-> CASE meter.at = "leading" /\ b = "\"" -> <<0>>
                  [] reading /\ b \in Digits -> [meter.params EXCEPT ![last] = Value[b]]
                  [] reading /\ b = ";" -> Append(meter.params, 0)
                  [] OTHER -> meter.params,
     band |-> IF b = "-" THEN meter.band + 1 ELSE meter.band,
     height |-> IF paints /\ SixelBits[b] # {}
                THEN Greater(meter.height, 6 * meter.band + LowestRow(b)) ELSE meter.height]

(* GraphicsBuilder::sixel: the height is the greater of the declared and the
   painted one. *)
Sixel(builder, meter) ==
    LET size == RasterSize(meter.params) IN
    [builder EXCEPT !.protocol = "Sixel", !.action = "TransmitAndPlace", !.format = "Sixel",
                    !.size = size,
                    !.placement.height =
                        Greater(IF size = {} THEN 0 ELSE Some(size)[2], meter.height)]

-----------------------------------------------------------------------------
(***************************************************************************)
(* kitty's loader: the upload in progress (building), whether the next     *)
(* chunk is for an image that is gone (orphaned), and what was counted.    *)
(***************************************************************************)

EmptyLoader == [building |-> EmptyBuilder, orphaned |-> FALSE, counts |-> NoCounts]

InProgress(loader) == loader.building.protocol # "none"

(* SeqTracker::abandon_upload: nothing comes of it, but its bytes count. *)
Abandon(loader) ==
    [building |-> EmptyBuilder, orphaned |-> FALSE,
     counts |-> [loader.counts EXCEPT !.bytes = @ + loader.building.bytes]]

Direct(keys) == "t" \notin DOMAIN keys \/ keys.t = "d"

(* MidUpload::of: what an escape does to an upload in progress. *)
MidUpload(keys) ==
    CASE Opt(keys, "a") \in {{}, {"t"}, {"T"}, {"f"}} -> IF Direct(keys) THEN "Continues" ELSE "Aborts"
      [] KeyIs(keys, "a", "d") -> "Aborts"
      [] OTHER -> "Beside"

(* A payload is complete: it is counted, and leaves the loader. *)
Completed(loader, builder, left) ==
    [to |-> [loader EXCEPT !.building = left, !.counts = Record(@, Payload(builder))],
     done |-> {[payload |-> Payload(builder), placement |-> builder.placement]}]

Going(loader) == [to |-> loader, done |-> {}]

(* The escape is the next chunk, or the first, and the last without m=1. *)
Load(loader, keys, escape) ==
    LET building == Chunk(Kitty(loader.building, keys), escape) IN
    IF KeyIs(keys, "m", 1) THEN Going([loader EXCEPT !.building = building])
    ELSE Completed(loader, building, EmptyBuilder)

(* string_final, for a kitty escape that is no query. What is sent to a loader
   whose image is gone is refused; a delete, or an image from elsewhere,
   aborts an upload; what is no transmission goes past it. *)
Transmission(loader, keys, escape) ==
    LET upload == MidUpload(keys)
        beside == Chunk(Kitty(EmptyBuilder, keys), escape) IN
    CASE loader.orphaned /\ upload = "Continues" /\ ~KeyIs(keys, "a", "f") ->
            Going([loader EXCEPT !.orphaned = FALSE, !.counts.bytes = @ + escape.bytes])
      [] InProgress(loader) /\ upload = "Aborts" -> Load(Abandon(loader), keys, escape)
      [] InProgress(loader) /\ upload = "Beside" -> Completed(loader, beside, loader.building)
      [] OTHER -> Load([loader EXCEPT !.orphaned = @ /\ upload # "Aborts"], keys, escape)

(* SeqTracker::kitty_query: a query with an id goes through the loader as a
   transmission does, and with m=1 it leaves the loader without its image. *)
QueryLoad(loader, keys, escape) ==
    LET loads == Number(keys, "i") # 0 /\ Number(keys, "I") = 0 /\ "e" \notin DOMAIN keys
        more == KeyIs(keys, "m", 1)
        joined == Chunk(loader.building, escape)
        With(result, load) == [to |-> result.to, done |-> result.done, load |-> load] IN
    CASE ~loads -> With(Going(loader), "Loaded")
      [] loads /\ ~Direct(keys) -> With(Going(Abandon(loader)), "Loaded")
      [] loads /\ Direct(keys) /\ loader.orphaned ->
            With(Going([loader EXCEPT !.orphaned = FALSE]), "Gone")
      [] loads /\ Direct(keys) /\ ~loader.orphaned /\ more ->
            With(Going([Abandon(IF InProgress(loader) THEN [loader EXCEPT !.building = joined]
                                ELSE loader) EXCEPT !.orphaned = TRUE]), "Pending")
      [] OTHER -> IF InProgress(loader) THEN With(Completed(loader, joined, EmptyBuilder), "Loaded")
                  ELSE With(Going(loader), "Loaded")

(* A sixel is no part of an upload, and abandons one. *)
SixelLoad(loader, meter, escape) ==
    Completed(Abandon(loader), Chunk(Sixel(EmptyBuilder, meter), escape), EmptyBuilder)

-----------------------------------------------------------------------------
(***************************************************************************)
(* The cells a kitty placement covers.                                     *)
(***************************************************************************)

CeilDiv(a, b) == (a + b - 1) \div b

(* kitty_cells: as asked for, or from the part of the image that is shown and
   the size of a cell, keeping the image's aspect where one side is given. *)
KittyCells(placement, image, cell) ==
    LET CellW == Some(cell)[1]
        CellH == Some(cell)[2]
        Source(asked, from, whole) ==
            Lesser(IF asked = 0 THEN whole ELSE asked, whole - Lesser(from, whole))
        srcW == Source(placement.srcWidth, placement.srcX, Some(image)[1])
        srcH == Source(placement.srcHeight, placement.srcY, Some(image)[2])
        offX == Lesser(placement.cellX, CellW - 1)
        offY == Lesser(placement.cellY, CellH - 1)
        cols == CASE placement.cols > 0 -> placement.cols
                  [] placement.cols = 0 /\ placement.rows = 0 -> CeilDiv(srcW + offX, CellW)
                  [] OTHER -> IF srcH = 0 THEN 0
                              ELSE CeilDiv((CellH * placement.rows + offY) * srcW, srcH * CellW)
        rows == CASE placement.rows > 0 -> placement.rows
                  [] placement.cols = 0 /\ placement.rows = 0 -> CeilDiv(srcH + offY, CellH)
                  [] OTHER -> IF srcW = 0 THEN 0
                              ELSE CeilDiv((CellW * placement.cols + offX) * srcH, srcW * CellH) IN
    CASE placement.cols > 0 /\ placement.rows > 0 -> {<<placement.cols, placement.rows>>}
      [] placement.cols * placement.rows = 0 /\ (cell = {} \/ 0 \in {CellW, CellH} \/ image = {}) -> {}
      [] OTHER -> {<<cols, rows>>}
===============================================================================
