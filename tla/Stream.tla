-------------------------------- MODULE Stream --------------------------------
(***************************************************************************)
(* An application's output, read by the emulator. The application writes   *)
(* scripts of whole commands; the PTY gives them out in reads that cut     *)
(* them anywhere, in an escape sequence, a string or a character; the      *)
(* reader sanitizes each read and drives the emulator through it, stop by  *)
(* stop.                                                                   *)
(*                                                                         *)
(* Beside it stand two references: the same emulator, given every script   *)
(* in one piece, and the meaning of the commands, as the protocols define  *)
(* it, where nothing is parsed.                                            *)
(***************************************************************************)
EXTENDS Answers

CONSTANTS
    Rows, Cols,        (* the first size *)
    Sizes,             (* the sizes the test resizes to *)
    Suites,            (* sets of commands; a behaviour uses those of one suite *)
    ReadSizes,         (* how much a read takes, when it does not take all *)
    ScriptMax, CommandMax, ResizeMax    (* bounds: commands in a script, and in all; resizes *)

ASSUME StreamAssumption ==
    /\ \A size \in Sizes \union {<<Rows, Cols>>} : size[1] >= 2 /\ size[2] >= 2
    /\ {ScriptMax, CommandMax, ResizeMax} \subseteq Nat

VARIABLES
    suite,
    written, resizes,   (* how many commands were written, and how often it was resized *)
    pipe,          (* bytes written and not read *)
    carry,         (* Utf8Sanitizer's carry *)
    driven,        (* the emulator, with what it answered and what frames it completed *)
    whole,         (* the same, given whole scripts *)
    meaning        (* what the commands mean *)

vars == <<suite, written, resizes, pipe, carry, driven, whole, meaning>>

-----------------------------------------------------------------------------
(* The meaning of the commands, a state that holds what a terminal keeps. *)

Nothing ==
    [charsets |-> PowerOnCharsets, single |-> "", saved |-> {}, bells |-> 0, title |-> <<>>,
     on |-> {25}, mouse |-> {}, encoding |-> Legacy, style |-> {}, copied |-> {},
     links |-> <<>>, linked |-> FALSE, sync |-> FALSE, frames |-> 0,
     upload |-> "none", images |-> 0, sixels |-> 0]

(* A character shows the glyph of the set invoked for it; a link that is open
   is labelled with what is shown. *)
MeansChar(m, char) ==
    LET set == CASE m.single # "" -> m.charsets[m.single]
                 [] m.single = "" /\ m.charsets.shiftedOut -> m.charsets.g1
                 [] OTHER -> m.charsets.g0
        shown == IF char[1] \in DOMAIN Glyphs[set] THEN Glyphs[set][char[1]] ELSE char IN
    [m EXCEPT !.single = "",
              !.links = IF m.linked THEN [@ EXCEPT ![Len(@)].label = @ \o shown] ELSE @]

(* Modes, each of a list. *)
MeansMode(m, mode, on) ==
    CASE mode \in {1, 4, 25, 1004, 2004} -> [m EXCEPT !.on = IF on THEN @ \union {mode} ELSE @ \ {mode}]
      [] mode \in MouseTracking -> [m EXCEPT !.mouse = IF on THEN @ \union {mode} ELSE @ \ {mode}]
      [] mode \in Encodings -> [m EXCEPT !.encoding = CASE on -> mode
                                                        [] ~on /\ @ = mode -> Legacy
                                                        [] OTHER -> @]
      [] mode = 2026 -> [m EXCEPT !.frames = IF m.sync /\ ~on THEN @ + 1 ELSE @, !.sync = on]
      [] OTHER -> m

(* The modes that a soft reset returns to their defaults, and a hard one with
   what is open. *)
MeansSoftReset(m) ==
    [m EXCEPT !.charsets = PowerOnCharsets, !.single = "", !.saved = {}, !.on = {25}, !.mouse = {},
              !.encoding = Legacy, !.style = {}]

(* An upload is open from its first chunk to its last, when it is an image; a
   query may be its last chunk, or leave the loader without its image, and then
   the next chunk is lost. *)
MeansUpload(m, what) ==
    CASE what = "more" -> [m EXCEPT !.upload = IF @ = "gone" THEN "none" ELSE "open"]
      [] what = "last" -> [m EXCEPT !.upload = "none", !.images = IF m.upload = "gone" THEN @ ELSE @ + 1]
      [] what = "delete" -> [m EXCEPT !.upload = "none"]
      [] what = "sixel" -> [m EXCEPT !.upload = "none", !.sixels = @ + 1]
      [] what = "query" -> [m EXCEPT !.upload = "none", !.images = IF m.upload = "open" THEN @ + 1 ELSE @]
      [] what = "query more" -> [m EXCEPT !.upload = IF @ = "gone" THEN "none" ELSE "gone"]
      [] what = "beside" -> m

Means(m, command) ==
    LET kind == command.means[1]
        arg == command.means[2] IN
    CASE kind = "text" -> FoldLeft(MeansChar, m, arg)
      [] kind = "designate" -> [m EXCEPT !.charsets[arg[1]] = arg[2]]
      [] kind = "shift" -> [m EXCEPT !.charsets.shiftedOut = arg]
      [] kind = "single" -> [m EXCEPT !.single = arg]
      [] kind = "save" -> [m EXCEPT !.saved = {m.charsets}]
      [] kind = "restore" -> IF m.saved = {} THEN [m EXCEPT !.charsets = PowerOnCharsets, !.single = ""]
                             ELSE [m EXCEPT !.charsets = Some(m.saved)]
      [] kind = "bell" -> [m EXCEPT !.bells = @ + 1]
      [] kind = "title" -> [m EXCEPT !.title = arg]
      [] kind = "link" -> [m EXCEPT !.links = Append(@, [uri |-> arg, label |-> <<>>]), !.linked = TRUE]
      [] kind = "unlink" -> [m EXCEPT !.linked = FALSE]
      [] kind = "copy" -> [m EXCEPT !.copied = {arg}]
      [] kind = "style" -> [m EXCEPT !.style = {arg}]
      [] kind = "set" -> FoldLeft(LAMBDA n, mode : MeansMode(n, mode, TRUE), m, arg)
      [] kind = "reset" -> FoldLeft(LAMBDA n, mode : MeansMode(n, mode, FALSE), m, arg)
      [] kind = "soft" -> MeansSoftReset(m)
      [] kind = "hard" -> [MeansSoftReset(m) EXCEPT !.linked = FALSE, !.sync = FALSE, !.upload = "none"]
      [] kind = "upload" -> MeansUpload(m, arg)
      [] OTHER -> m    \* it only draws, or means nothing at all

-----------------------------------------------------------------------------
(* The reader's part: a read, driven through its stops. *)

Idle == [emu |-> NewEmulator(Rows, Cols), said |-> <<>>, frames |-> 0]

(* One stop: a frame that is complete, or a question that is answered. *)
Stopped(d, p) ==
    LET e == p.e IN
    CASE p.stop.kind = "none" -> [d EXCEPT !.emu = e]
      [] p.stop.kind = "frame" ->
            [d EXCEPT !.emu = e, !.frames = @ + 1,
                      !.said = Append(@, [frame |-> ScreenText(Shown(e.grid)), printable |-> p.stop.printable])]
      [] p.stop.kind = "query" ->
            [d EXCEPT !.emu = e, !.said = Append(@, Answer(e, p.stop.query))]

RECURSIVE Drive(_, _), DriveOn(_, _, _)
Drive(d, bytes) ==
    IF bytes = <<>> THEN d ELSE DriveOn(d, Process(d.emu, bytes), bytes)

DriveOn(d, p, bytes) == Drive(Stopped(d, p), SubSeq(bytes, p.consumed + 1, Len(bytes)))

-----------------------------------------------------------------------------
Init ==
    /\ suite \in Suites
    /\ written = 0 /\ resizes = 0
    /\ pipe = <<>> /\ carry = <<>>
    /\ driven = Idle /\ whole = Idle
    /\ meaning = Nothing

BytesOf(script) == FoldLeft(LAMBDA bytes, command : bytes \o command.bytes, <<>>, script)

Write ==
    /\ pipe = <<>>
    /\ \E n \in 1 .. Lesser(ScriptMax, CommandMax - written) : \E script \in [1 .. n -> suite] :
          /\ pipe' = BytesOf(script)
          /\ whole' = Drive(whole, Sanitize(<<>>, BytesOf(script)).out)
          /\ meaning' = FoldLeft(Means, meaning, script)
          /\ written' = written + n
    /\ UNCHANGED <<suite, resizes, carry, driven>>

(* A few bytes, or all there is. *)
Read ==
    /\ pipe # <<>>
    /\ \E n \in {size \in ReadSizes : size < Len(pipe)} \union {Len(pipe)} :
          LET sane == Sanitize(carry, SubSeq(pipe, 1, n)) IN
          /\ pipe' = SubSeq(pipe, n + 1, Len(pipe))
          /\ carry' = sane.carry
          /\ driven' = Drive(driven, sane.out)
    /\ UNCHANGED <<suite, written, resizes, whole, meaning>>

(* Terminal::resize, between two reads. *)
Resize ==
    /\ pipe = <<>> /\ resizes < ResizeMax /\ written > 0
    /\ \E size \in Sizes :
          /\ size # <<driven.emu.grid.rows, driven.emu.grid.cols>>
          /\ driven' = [driven EXCEPT !.emu = SetSize(@, size[1], size[2])]
          /\ whole' = [whole EXCEPT !.emu = SetSize(@, size[1], size[2])]
    /\ resizes' = resizes + 1
    /\ UNCHANGED <<suite, written, pipe, carry, meaning>>

Next == Write \/ Read \/ Resize

Spec == Init /\ [][Next]_vars

-----------------------------------------------------------------------------
(* Properties. *)

AllRead == pipe = <<>>

(* The screen, the history, the modes and the answers do not depend on where
   the reads cut the output: in a character, in a sequence, between a selector
   and its character, or in a run of characters in insert mode. *)
CutsDoNotMatter == AllRead => carry = <<>> /\ driven = whole

(* The images that were counted are those that were sent. *)
ImagesAreCounted(t) ==
    /\ t.loader.counts.kitty = meaning.images /\ t.loader.counts.sixel = meaning.sixels
    /\ InProgress(t.loader) = (meaning.upload = "open")
    /\ t.loader.orphaned = (meaning.upload = "gone")

(* The links that are kept are the newest, and the label of each is what was
   drawn in it, or unknown if that is longer than a label may be. *)
LinksAreLabelled(t) ==
    LET links == Newest(meaning.links, LinkHistory) IN
    /\ Len(t.links) = Len(links)
    /\ t.label.open = meaning.linked
    /\ \A i \in DOMAIN links :
          /\ t.links[i].uri = links[i].uri
          /\ t.links[i].closed = ~(meaning.linked /\ i = Len(links))
          /\ t.links[i].closed =>
                t.links[i].label = IF Len(links[i].label) > LabelMax THEN {} ELSE {links[i].label}

(* Tracker and parsers read one stream: they are in a sequence together, the
   attribute shadow has the grid's text and cursor, the tab stops are those of
   the grid's columns, and no byte is held back once all is complete. *)
ParsersAgree(e) ==
    /\ MidSequence(e.tracker) = (e.grid.held # <<>> \/ e.grid.char # <<>>)
    /\ e.grid.held = e.shadow.held
    /\ InStep(e)
    /\ e.tracker.tabs.cols = e.grid.cols /\ e.tracker.tabs.stops \subseteq 0 .. e.grid.cols - 1
    /\ ~MidSequence(e.tracker) => e.colors = <<>> /\ e.carriers = <<>> /\ e.staged = <<>>

(* Once it is all read, the emulator holds what the commands mean: sets,
   modes, links and their labels, bells, title and clipboard, frames and
   images; whatever was reset, saved, restored, cut off or aborted on the way. *)
StreamIsUnderstood ==
    LET e == driven.emu
        t == e.tracker IN
    AllRead =>
        /\ t.charsets = meaning.charsets /\ t.single = meaning.single
        /\ t.savedCharsets = meaning.saved
        /\ t.bells = meaning.bells /\ t.title = meaning.title
        /\ e.grid.modes = meaning.on \ {4, 1004}
        /\ t.focus = (1004 \in meaning.on) /\ t.insert = (4 \in meaning.on)
        /\ t.mouse = meaning.mouse /\ t.encoding = meaning.encoding /\ t.cursorStyle = meaning.style
        /\ LinksAreLabelled(t)
        /\ t.clipboard = meaning.copied
        /\ t.sync = meaning.sync /\ e.updating = meaning.sync /\ driven.frames = meaning.frames
        /\ ImagesAreCounted(t)
        /\ ParsersAgree(e)

(* While the main screen is shown, the history is the newest of all the rows
   that left it and did not come back, in order, none missing and none twice;
   it reaches at least as far back as the parser's own. A reset or ED 3 erases
   the parser's, and resizes push rows and take them back. *)
HistoryIsComplete ==
    LET e == driven.emu
        left == e.grid.left
        texts == [i \in DOMAIN e.history |-> e.history[i].text]
        Restored(row) == [i \in DOMAIN row |-> RestoreReplacement(row[i])] IN
    AllRead /\ ~e.grid.onAlt =>
        /\ Len(texts) <= Lesser(Scrollback, Len(left))
        /\ \A i \in DOMAIN texts : texts[i] = Restored(left[Len(left) - Len(texts) + i])
        /\ Len(texts) >= Len(e.grid.history)
===============================================================================
