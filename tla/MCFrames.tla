------------------------------ MODULE MCFrames ------------------------------
(***************************************************************************)
(* Small instances of Frames: two grid sizes, one a third of the other.    *)
(***************************************************************************)
EXTENDS Frames

MCCells(size) == IF size = "small" THEN 1 ELSE 3

(* Three updates, of which the last paints nothing; an update a reset
   abandons, which leaves an End without its Begin; an emulator that panics inside an
   update. *)
Updates == <<"begin", "paint", "end", "begin", "paint", "end", "begin", "end">>
Abandoned == <<"paint", "begin", "paint", "reset", "end", "begin", "paint", "end">>
Panics == <<"begin", "paint", "end", "begin", "fault", "paint", "end">>

MCScripts == {Updates, Abandoned, Panics}
MCRecordedScripts == {<<"begin", "end", "begin", "paint", "end">>, <<"end", "fault", "end">>}
MCResizedScripts == {<<"begin", "paint", "end">>}
MCPanicScripts == {<<"paint", "fault">>}

(* Waits for any painting at all, and for one particular painting. *)
MCWants == {0..9, {6, 7}}
MCLateWant == {{4}}

(* While the reader holds the state lock, what others may do without it
   neither reads nor writes what the reader does, so it may as well happen
   before or after: only the reader's steps are explored there. *)
LockHolderFirst == reader = "feeding" => chunk' # chunk \/ reader' # reader

(* The generation is only ever compared with the cached snapshot's. *)
View == <<appVars, ptyVars, readerVars, emuVars, generation = cache.generation, cache.screen,
          eof, frameVars, recordVars, testVars>>

=============================================================================
