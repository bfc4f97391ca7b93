----------------------------- MODULE Recording -----------------------------
(***************************************************************************)
(* The buffer of one recording (RecordingState): the complete frames the   *)
(* reader thread pushed since the recording began, bounded by a budget in  *)
(* cells, the oldest dropped and counted when a new frame does not fit.    *)
(* A frame weighs the cells of the grid it was taken at, so a resize in    *)
(* the middle of a recording makes its frames unequal.                     *)
(***************************************************************************)
EXTENDS Naturals, SequencesExt

CONSTANTS
    Cells(_),     (* columns times rows of a grid size *)
    Budget        (* record_budget, in cells *)

ASSUME BudgetAssumption == Budget \in Nat

(* An entry keeps the number of its frame and the size it was taken at. *)
EmptyRecording == [frames |-> <<>>, cells |-> 0, dropped |-> 0]

(* The cells of the first k entries. *)
CellsOfFirst(entries, k) ==
    FoldLeft(LAMBDA total, entry : total + Cells(entry.size), 0, SubSeq(entries, 1, k))

(* How many of the oldest entries `push` drops before a frame of this many
   cells goes in: as many as it takes to fit the budget, or all of them. *)
Overflowing(recording, cells) ==
    LET Fits(k) == recording.cells - CellsOfFirst(recording.frames, k) + cells <= Budget
    IN  CHOOSE k \in 0..Len(recording.frames) :
            /\ k = Len(recording.frames) \/ Fits(k)
            /\ \A j \in 0..(k - 1) : ~Fits(j)

(* A plausible slip: the dropped frames' cells stay on the account. *)
RecordingPushLeaky(recording, entry) ==
    LET k == Overflowing(recording, Cells(entry.size))
    IN  [frames  |-> Append(SubSeq(recording.frames, k + 1, Len(recording.frames)), entry),
         cells   |-> recording.cells + Cells(entry.size),
         dropped |-> recording.dropped + k]

RecordingPush(recording, entry) ==
    LET k == Overflowing(recording, Cells(entry.size))
    IN  [frames  |-> Append(SubSeq(recording.frames, k + 1, Len(recording.frames)), entry),
         cells   |-> recording.cells - CellsOfFirst(recording.frames, k) + Cells(entry.size),
         dropped |-> recording.dropped + k]

=============================================================================
