------------------------------- MODULE Frames -------------------------------
(***************************************************************************)
(* The frame pipeline of one terminal: the application writes into the     *)
(* PTY, the reader thread (reader_loop) feeds what it reads to the         *)
(* emulator under the state lock and retains every completed DEC 2026      *)
(* update, and the test thread waits for frames (wait_frame), takes        *)
(* screens, records, and resizes.                                          *)
(*                                                                         *)
(* The state lock is implicit: the reader holds it exactly while           *)
(* reader = "feeding", one token of the chunk per step, and every critical *)
(* section of the test thread is one step that needs it free.  What        *)
(* happens between two critical sections is a step of its own, so the      *)
(* reader may run there.                                                   *)
(*                                                                         *)
(* The output is a stream of tokens: the Begin and the End of an update,   *)
(* a painting, a full reset (RIS), and bytes the emulator panics on.       *)
(***************************************************************************)
EXTENDS Integers, Sequences, FiniteSets, Recording

CONSTANTS
    Sizes,             (* the grid sizes a test may ask for *)
    InitialSize,       (* the size the terminal is spawned with *)
    FrameHistory,      (* FRAME_HISTORY: completed frames retained *)
    TimingHistory,     (* FRAME_TIMING_HISTORY: timings retained *)
    Recorders,         (* the recorders a test may start *)
    Wants,             (* the predicates a test waits with: sets of paintings *)
    Scripts,           (* the programs to run: what each writes, in kinds of token *)
    IoctlMayFail,      (* whether TIOCSWINSZ may fail *)
    MaxInFlight,       (* bound: tokens the PTY holds unread *)
    MaxWaits,          (* bound: calls of wait_frame *)
    MaxResizes         (* bound: calls of resize *)

Kinds == {"begin", "paint", "end", "reset", "fault"}

ASSUME SizesAssumption ==
    /\ InitialSize \in Sizes
    /\ \A s \in Sizes : Cells(s) \in Nat \ {0}
ASSUME HistoryAssumption == FrameHistory \in Nat \ {0} /\ TimingHistory \in Nat \ {0}
ASSUME WantsAssumption == Wants \subseteq SUBSET Nat
ASSUME ScriptsAssumption == Scripts \subseteq Seq(Kinds)
ASSUME BoundsAssumption ==
    /\ IoctlMayFail \in BOOLEAN
    /\ MaxInFlight \in Nat
    /\ MaxWaits \in Nat /\ MaxResizes \in Nat

VARIABLES
    (* The application and the kernel *)
    alive,         (* some process still holds the slave side *)
    appSize,       (* the size the application lays out for *)
    appOpen,       (* it is inside an update *)
    painted,       (* what its screen shows: its last painting *)
    script,        (* the program it runs *)
    writes,        (* the tokens of it written so far *)
    ptySize,       (* the size the kernel reports *)
    pty,           (* written and not yet read *)
    (* The reader thread *)
    reader,        (* where it is in its loop *)
    chunk,         (* what the last read returned and is not yet fed *)
    (* EmuState, behind the state lock *)
    grid,          (* the emulator's screen *)
    syncUpdate,    (* the tracker: an update is open *)
    generation, framesSeen, frames, timings, cache, panicked, eof, recorders,
    recording,     (* each recorder's RecordingState *)
    (* The test thread *)
    test,          (* the call it is in *)
    want,          (* the predicate of the wait *)
    seenFrame,     (* framesSeen at the wait's last scan *)
    late,          (* the deadline of the wait has passed *)
    asked,         (* the size of the resize *)
    captured,      (* the frame count resize read under the lock *)
    frameCursor, waits, resizes,
    outcome,       (* how the last wait ended *)
    (* History, for the properties *)
    drawn,         (* the updates the application completed, in order *)
    era,           (* how many resizes changed the grid *)
    eraOf,         (* per completed frame, the era it was completed in *)
    returned,      (* the frames wait_frame returned, in order *)
    since          (* per recorder, framesSeen when it was started *)

appVars == <<alive, script, appSize, appOpen, painted, writes, drawn>>
ptyVars == <<ptySize, pty>>
readerVars == <<reader, chunk>>
emuVars == <<grid, syncUpdate, panicked>>
stateVars == <<generation, cache, eof>>
frameVars == <<framesSeen, frames, timings, eraOf>>
recordVars == <<recorders, recording, since>>
waitVars == <<want, seenFrame, late, waits, outcome, returned>>
resizeVars == <<asked, captured, resizes, era>>
testVars == <<test, frameCursor, waitVars, resizeVars>>
vars == <<appVars, ptyVars, readerVars, emuVars, stateVars, frameVars, recordVars, testVars>>

-----------------------------------------------------------------------------

(* A painting names itself and the size it was laid out for. *)
Painting == [id : Nat, laid : Sizes]
Blank == [id |-> 0, laid |-> InitialSize]

Token == [kind : {"begin", "end", "reset", "fault"}] \cup [kind : {"paint"}, painting : Painting]

(* The emulator's grid: its size, the last painting, and whether a resize
   has clipped or padded that painting since. *)
Grid == [size : Sizes, painting : Painting, whole : BOOLEAN]

Screen == [size : Sizes, painting : Painting, whole : BOOLEAN, repaints : Nat]

(* The grid as a snapshot, stamped with the repaint count. *)
ScreenOf(g, repaints) ==
    [size |-> g.size, painting |-> g.painting, whole |-> g.whole, repaints |-> repaints]

(* Slip: the check for room is off by one. *)
PushBoundedLate(queue, entry, capacity) ==
    Append(IF Len(queue) > capacity THEN Tail(queue) ELSE queue, entry)

(* VecDeque at a capacity: pop_front when full, then push_back. *)
PushBounded(queue, entry, capacity) ==
    Append(IF Len(queue) = capacity THEN Tail(queue) ELSE queue, entry)

Init ==
    /\ alive = TRUE /\ appSize = InitialSize /\ appOpen = FALSE /\ painted = Blank
    /\ script \in Scripts /\ writes = 0 /\ ptySize = InitialSize /\ pty = <<>>
    /\ reader = "reading" /\ chunk = <<>>
    /\ grid = [size |-> InitialSize, painting |-> Blank, whole |-> TRUE]
    /\ syncUpdate = FALSE
    /\ generation = 0 /\ framesSeen = 0 /\ frames = <<>> /\ timings = <<>>
    /\ cache = [generation |-> 0, screen |-> ScreenOf(grid, 0)]
    /\ panicked = FALSE /\ eof = FALSE
    /\ recorders = {} /\ recording = [r \in Recorders |-> EmptyRecording]
    /\ test = "idle" /\ want = {} /\ seenFrame = 0 /\ late = FALSE
    /\ asked = InitialSize /\ captured = 0
    /\ frameCursor = 0 /\ waits = 0 /\ resizes = 0 /\ outcome = "none"
    /\ drawn = <<>> /\ era = 0 /\ eraOf = <<>> /\ returned = <<>>
    /\ since = [r \in Recorders |-> 0]

-----------------------------------------------------------------------------
(***************************************************************************)
(* The application (outside the library: any program under a terminal).    *)
(***************************************************************************)

(* It writes its next token.  An End closes an update it had open: that
   update is complete as the application sees it. *)
AppWrite(kind) ==
    /\ alive /\ writes < Len(script) /\ Len(pty) < MaxInFlight
    /\ kind = script[writes + 1]
    /\ writes' = writes + 1
    /\ LET painting == [id |-> writes + 1, laid |-> appSize]
       IN  /\ pty' = Append(pty, IF kind = "paint" THEN [kind |-> kind, painting |-> painting]
                                 ELSE [kind |-> kind])
           /\ painted' = CASE kind = "paint" -> painting
                           [] kind = "reset" -> Blank
                           [] OTHER -> painted
    /\ appOpen' = (kind = "begin" \/ (appOpen /\ kind \notin {"end", "reset"}))
    /\ drawn' = IF kind = "end" /\ appOpen THEN Append(drawn, painted) ELSE drawn
    /\ UNCHANGED <<alive, script, appSize, ptySize, readerVars, emuVars, stateVars, frameVars,
                   recordVars, testVars>>

(* It handles SIGWINCH: from here on it lays out for the new size. *)
AppLearnsSize ==
    /\ alive /\ appSize # ptySize
    /\ appSize' = ptySize
    /\ UNCHANGED <<alive, script, appOpen, painted, writes, drawn, ptyVars, readerVars, emuVars,
                   stateVars, frameVars, recordVars, testVars>>

(* The last process with the terminal open ends. *)
AppExit ==
    /\ alive
    /\ alive' = FALSE
    /\ UNCHANGED <<script, appSize, appOpen, painted, writes, drawn, ptyVars, readerVars, emuVars,
                   stateVars, frameVars, recordVars, testVars>>

-----------------------------------------------------------------------------
(***************************************************************************)
(* The reader thread: reader_loop.                                         *)
(***************************************************************************)

(* read(2) returns some of what is in flight; the lock is not held. *)
ReadChunk ==
    /\ reader = "reading" /\ pty # <<>>
    /\ \E n \in 1..Len(pty) :
          /\ chunk' = SubSeq(pty, 1, n)
          /\ pty' = SubSeq(pty, n + 1, Len(pty))
    /\ reader' = "locking"
    /\ UNCHANGED <<appVars, ptySize, emuVars, stateVars, frameVars, recordVars, testVars>>

(* Slip: the drain ends with the emulator. *)
LockStateDies ==
    /\ reader = "locking"
    /\ IF panicked THEN reader' = "done" /\ chunk' = <<>>
       ELSE reader' = "feeding" /\ UNCHANGED chunk
    /\ UNCHANGED <<appVars, ptyVars, emuVars, stateVars, frameVars, recordVars, testVars>>

(* The chunk reaches the state: a panicked emulator is never fed again,
   and the chunk is dropped so that the PTY keeps draining. *)
LockState ==
    /\ reader = "locking"
    /\ IF panicked THEN reader' = "reading" /\ chunk' = <<>>
       ELSE reader' = "feeding" /\ UNCHANGED chunk
    /\ UNCHANGED <<appVars, ptyVars, emuVars, stateVars, frameVars, recordVars, testVars>>

Feeding(kind) ==
    /\ reader = "feeding" /\ chunk # <<>> /\ Head(chunk).kind = kind
    /\ chunk' = Tail(chunk)
    /\ UNCHANGED <<appVars, ptyVars, reader, generation, eof, testVars>>

FeedBegin ==
    /\ Feeding("begin")
    /\ syncUpdate' = TRUE
    /\ UNCHANGED <<grid, panicked, cache, frameVars, recordVars>>

FeedPaint ==
    /\ Feeding("paint")
    /\ grid' = [grid EXCEPT !.painting = Head(chunk).painting, !.whole = TRUE]
    /\ UNCHANGED <<syncUpdate, panicked, cache, frameVars, recordVars>>

(* An End that closes no Begin ends no frame. *)
FeedStrayEnd ==
    /\ Feeding("end") /\ ~syncUpdate
    /\ UNCHANGED <<emuVars, cache, frameVars, recordVars>>

(* Slip: a panicked emulator is asked for its grid. *)
BuildSnapshotAlways(repaints) == ScreenOf(grid, repaints)

(* build_snapshot: once the emulator has panicked, the frozen screen. *)
BuildSnapshot(repaints) ==
    IF panicked THEN cache.screen ELSE ScreenOf(grid, repaints)

(* Stop::FrameComplete: the frame is counted, snapshotted, handed to every
   recorder, and retained with its number and its timing. *)
FrameComplete ==
    LET number == framesSeen + 1
        frame == BuildSnapshot(number)
        entry == [index |-> number, screen |-> frame]
    IN  /\ framesSeen' = number
        /\ recording' = [r \in Recorders |->
               IF r \in recorders
               THEN RecordingPush(recording[r], [index |-> number, size |-> frame.size])
               ELSE recording[r]]
        /\ frames' = PushBounded(frames, entry, FrameHistory)
        /\ timings' = PushBounded(timings, number, TimingHistory)
        /\ eraOf' = Append(eraOf, era)

FeedEnd ==
    /\ Feeding("end") /\ syncUpdate
    /\ syncUpdate' = FALSE
    /\ FrameComplete
    /\ UNCHANGED <<grid, panicked, cache, recorders, since>>

(* Slip: a reset leaves the update open. *)
FeedResetLeavesOpen ==
    /\ Feeding("reset")
    /\ grid' = [grid EXCEPT !.painting = Blank, !.whole = TRUE]
    /\ UNCHANGED <<syncUpdate, panicked, cache, frameVars, recordVars>>

(* RIS clears the grid and closes any open update without a frame. *)
FeedReset ==
    /\ Feeding("reset")
    /\ syncUpdate' = FALSE
    /\ grid' = [grid EXCEPT !.painting = Blank, !.whole = TRUE]
    /\ UNCHANGED <<panicked, cache, frameVars, recordVars>>

(* The emulator panics: the rest of the chunk is lost and the last stored
   snapshot is frozen, stamped with the present generation. *)
FeedFault ==
    /\ reader = "feeding" /\ chunk # <<>> /\ Head(chunk).kind = "fault"
    /\ chunk' = <<>>
    /\ panicked' = TRUE
    /\ cache' = [generation |-> generation, screen |-> cache.screen]
    /\ UNCHANGED <<appVars, ptyVars, reader, grid, syncUpdate, generation, eof,
                   frameVars, recordVars, testVars>>

(* Slip: the read is not recorded as a change. *)
UnlockUntouched ==
    /\ reader = "feeding" /\ chunk = <<>>
    /\ reader' = "reading"
    /\ UNCHANGED <<appVars, ptyVars, chunk, emuVars, stateVars, frameVars, recordVars,
                   testVars>>

(* touch(), and the lock is released. *)
Unlock ==
    /\ reader = "feeding" /\ chunk = <<>>
    /\ generation' = generation + 1
    /\ reader' = "reading"
    /\ UNCHANGED <<appVars, ptyVars, chunk, emuVars, cache, eof, frameVars, recordVars,
                   testVars>>

(* read(2) reports the end, and then the state learns of it. *)
ReadEnd ==
    /\ reader = "reading" /\ pty = <<>> /\ ~alive
    /\ reader' = "ending"
    /\ UNCHANGED <<appVars, ptyVars, chunk, emuVars, stateVars, frameVars, recordVars,
                   testVars>>

SetEof ==
    /\ reader = "ending"
    /\ reader' = "done"
    /\ eof' = TRUE
    /\ generation' = generation + 1
    /\ UNCHANGED <<appVars, ptyVars, chunk, emuVars, cache, frameVars, recordVars, testVars>>

-----------------------------------------------------------------------------
(***************************************************************************)
(* The test thread.  Its critical sections need the state lock free.       *)
(***************************************************************************)

LockFree == reader # "feeding"

(* Everything the test thread does not own. *)
OthersUnchanged == UNCHANGED <<appVars, pty, readerVars, syncUpdate, panicked, eof, frameVars>>

(* peek_snapshot: the stored snapshot while it is current, else a new one. *)
PeekSnapshot ==
    IF cache.generation = generation THEN cache.screen ELSE BuildSnapshot(framesSeen)

(* snapshot(): the same, stored. *)
StoreSnapshot == cache' = [generation |-> generation, screen |-> PeekSnapshot]

(* Terminal::screen. *)
TakeScreen ==
    /\ test = "idle" /\ LockFree
    /\ StoreSnapshot
    /\ OthersUnchanged /\ UNCHANGED <<ptySize, grid, generation, recordVars, testVars>>

(* Terminal::record and Recorder::stop (or its Drop). The recorder borrows
   nothing, so it may be stopped in the middle of another call. *)
Record(r) ==
    /\ test = "idle" /\ LockFree
    /\ r \notin recorders /\ recording[r] = EmptyRecording
    /\ recorders' = recorders \cup {r}
    /\ since' = [since EXCEPT ![r] = framesSeen]
    /\ OthersUnchanged
    /\ UNCHANGED <<ptySize, grid, generation, cache, recording, testVars>>

StopRecording(r) ==
    /\ r \in recorders /\ LockFree
    /\ recorders' = recorders \ {r}
    /\ OthersUnchanged
    /\ UNCHANGED <<ptySize, grid, generation, cache, recording, since, testVars>>

(* wait_frame: the cursor it scans from is the one the call starts with. *)
WaitFrame(predicate) ==
    /\ test = "idle" /\ waits < MaxWaits
    /\ test' = "waiting" /\ waits' = waits + 1
    /\ want' = predicate /\ seenFrame' = 0 /\ late' = FALSE
    /\ outcome' = "none"
    /\ OthersUnchanged
    /\ UNCHANGED <<ptySize, grid, generation, cache, recordVars, frameCursor, returned,
                   resizeVars>>

DeadlinePasses ==
    /\ test = "waiting" /\ ~late
    /\ late' = TRUE
    /\ OthersUnchanged
    /\ UNCHANGED <<ptySize, grid, generation, cache, recordVars, test, frameCursor, want,
                   seenFrame, waits, outcome, returned, resizeVars>>

(* Slip: the frame at the cursor is offered again. *)
OfferedAgain(entry) == entry.index >= frameCursor /\ entry.screen.painting.id \in want

(* A retained frame the wait may return. *)
Offered(entry) == entry.index > frameCursor /\ entry.screen.painting.id \in want

(* The check looks through the ring only when a frame completed since the
   last look: 0 stands for None, which no frame count past a cursor is. *)
Scans == framesSeen > frameCursor /\ seenFrame # framesSeen

(* Slip: the newest match instead of the oldest. *)
LastMatch == IF Scans THEN SelectLastInSeq(frames, Offered) ELSE 0

(* The oldest frame the scan finds, as a position in the ring; 0 for none. *)
FirstMatch == IF Scans THEN SelectInSeq(frames, Offered) ELSE 0

(* One check of the wait's condition under the lock, with what follows. *)
Check ==
    /\ test = "waiting" /\ LockFree
    /\ OthersUnchanged
    /\ UNCHANGED <<ptySize, grid, generation, cache, recordVars, want, late, waits,
                   resizeVars>>

EndWait(how) == test' = "idle" /\ outcome' = how

WaitFails ==
    /\ Check /\ panicked
    /\ EndWait("failed")
    /\ UNCHANGED <<frameCursor, seenFrame, returned>>

(* Slip: the end of the stream is looked at before the ring. *)
WaitSeesEofFirst ==
    /\ Check /\ ~panicked /\ eof
    /\ EndWait("eof")
    /\ UNCHANGED <<frameCursor, seenFrame, returned>>

WaitReturns ==
    /\ Check /\ ~panicked /\ FirstMatch # 0
    /\ EndWait("frame")
    /\ LET entry == frames[FirstMatch]
       IN  /\ frameCursor' = entry.index
           /\ returned' = Append(returned, [index |-> entry.index, screen |-> entry.screen,
                                            era |-> era])
    /\ UNCHANGED seenFrame

WaitSeesEof ==
    /\ Check /\ ~panicked /\ FirstMatch = 0 /\ eof
    /\ EndWait("eof")
    /\ UNCHANGED <<frameCursor, seenFrame, returned>>

(* Slip: the deadline is not looked at. *)
WaitGoesOnForever ==
    /\ Check /\ ~panicked /\ FirstMatch = 0 /\ ~eof
    /\ seenFrame' = IF Scans THEN framesSeen ELSE seenFrame
    /\ UNCHANGED <<test, frameCursor, outcome, returned>>

(* Nothing yet: the lock is released, for a sleep or for the error. *)
WaitGoesOn ==
    /\ Check /\ ~panicked /\ FirstMatch = 0 /\ ~eof
    /\ seenFrame' = IF Scans THEN framesSeen ELSE seenFrame
    /\ test' = IF late THEN "expired" ELSE "waiting"
    /\ UNCHANGED <<frameCursor, outcome, returned>>

(* The timeout error takes the lock again: a snapshot is stored, and the
   message says what happened since the cursor. *)
Diagnosis ==
    CASE framesSeen > 0 /\ framesSeen = frameCursor -> "noRepaint"
      [] framesSeen = 0 -> "noUpdates"
      [] OTHER -> "noMatch"

ReportTimeout ==
    /\ test = "expired" /\ LockFree
    /\ StoreSnapshot
    /\ EndWait(Diagnosis)
    /\ OthersUnchanged
    /\ UNCHANGED <<ptySize, grid, generation, recordVars, frameCursor, want, seenFrame,
                   late, waits, returned, resizeVars>>

(* resize: ensure_deliverable refuses after EOF, in a section of its own. *)
Resize(size) ==
    /\ test = "idle" /\ LockFree /\ resizes < MaxResizes
    /\ ~eof
    /\ test' = "resizing" /\ asked' = size /\ resizes' = resizes + 1
    /\ OthersUnchanged
    /\ UNCHANGED <<ptySize, grid, generation, cache, recordVars, frameCursor, waitVars,
                   captured, era>>

(* The size the screen already has: nothing happens. *)
ResizeSame ==
    /\ test = "resizing" /\ LockFree
    /\ PeekSnapshot.size = asked
    /\ test' = "idle"
    /\ OthersUnchanged
    /\ UNCHANGED <<ptySize, grid, generation, cache, recordVars, frameCursor, waitVars,
                   resizeVars>>

(* Grid, kernel, touch() and the frame count are one section; the cursor
   moves after it. *)
ResizeGrid ==
    /\ test = "resizing" /\ LockFree
    /\ PeekSnapshot.size # asked
    /\ grid' = [grid EXCEPT !.size = asked, !.whole = FALSE]
    /\ ptySize' = asked
    /\ generation' = generation + 1
    /\ captured' = framesSeen
    /\ era' = era + 1
    /\ test' = "moving"
    /\ OthersUnchanged
    /\ UNCHANGED <<cache, recordVars, frameCursor, waitVars, asked, resizes>>

(* Slip: the count is read after the lock was released. *)
MoveCursorLate ==
    /\ test = "moving"
    /\ frameCursor' = framesSeen
    /\ test' = "idle"
    /\ OthersUnchanged
    /\ UNCHANGED <<ptySize, grid, generation, cache, recordVars, waitVars, resizeVars>>

(* Slip: a resize leaves the cursor where it was. *)
MoveCursorNot ==
    /\ test = "moving"
    /\ test' = "idle"
    /\ OthersUnchanged
    /\ UNCHANGED <<ptySize, grid, generation, cache, recordVars, frameCursor, waitVars,
                   resizeVars>>

(* Slip: one frame too few is put out of reach, counted without a sign. *)
MoveCursorShort ==
    /\ test = "moving"
    /\ frameCursor' = captured - 1
    /\ test' = "idle"
    /\ OthersUnchanged
    /\ UNCHANGED <<ptySize, grid, generation, cache, recordVars, waitVars, resizeVars>>

(* The ioctl fails: the grid goes back to the size it had, and what the
   detour clipped stays clipped. *)
ResizeFails ==
    /\ IoctlMayFail
    /\ test = "resizing" /\ LockFree
    /\ PeekSnapshot.size # asked
    /\ grid' = [grid EXCEPT !.size = PeekSnapshot.size, !.whole = FALSE]
    /\ test' = "idle"
    /\ OthersUnchanged
    /\ UNCHANGED <<ptySize, generation, cache, recordVars, frameCursor, waitVars, resizeVars>>

MoveCursor ==
    /\ test = "moving"
    /\ frameCursor' = captured
    /\ test' = "idle"
    /\ OthersUnchanged
    /\ UNCHANGED <<ptySize, grid, generation, cache, recordVars, waitVars, resizeVars>>

-----------------------------------------------------------------------------

App == (\E kind \in Kinds : AppWrite(kind)) \/ AppLearnsSize \/ AppExit

Reader ==
    \/ ReadChunk \/ LockState \/ Unlock \/ ReadEnd \/ SetEof
    \/ FeedBegin \/ FeedPaint \/ FeedStrayEnd \/ FeedEnd \/ FeedReset \/ FeedFault

Waiter == WaitFails \/ WaitReturns \/ WaitSeesEof \/ WaitGoesOn \/ ReportTimeout

Test ==
    \/ TakeScreen \/ Waiter \/ DeadlinePasses
    \/ \E r \in Recorders : Record(r) \/ StopRecording(r)
    \/ \E predicate \in Wants : WaitFrame(predicate)
    \/ \E size \in Sizes : Resize(size)
    \/ ResizeSame \/ ResizeGrid \/ ResizeFails \/ MoveCursor

Next == App \/ Reader \/ Test

Spec == Init /\ [][Next]_vars

(* The scheduler runs every thread that can run, and time passes. Nothing
   obliges the application to write, nor the test to make a call. *)
FairSpec ==
    /\ Spec
    /\ WF_vars(Reader)
    /\ WF_vars(Waiter)
    /\ WF_vars(DeadlinePasses)
    /\ WF_vars(MoveCursor)

-----------------------------------------------------------------------------
(***************************************************************************)
(* Correctness.                                                            *)
(***************************************************************************)

RingEntry == [index : Nat \ {0}, screen : Screen]

RecordingEntry == [index : Nat \ {0}, size : Sizes]
ReturnedFrame == [index : Nat \ {0}, screen : Screen, era : Nat]

AppTypeOK ==
    /\ alive \in BOOLEAN /\ appOpen \in BOOLEAN /\ appSize \in Sizes
    /\ painted \in Painting /\ drawn \in Seq(Painting)
    /\ script \in Seq(Kinds) /\ writes \in Nat

PtyTypeOK ==
    /\ ptySize \in Sizes /\ pty \in Seq(Token) /\ chunk \in Seq(Token)
    /\ reader \in {"reading", "locking", "feeding", "ending", "done"}

EmuTypeOK ==
    /\ grid \in Grid /\ syncUpdate \in BOOLEAN /\ panicked \in BOOLEAN
    /\ generation \in Nat /\ eof \in BOOLEAN
    /\ cache \in [generation : Nat, screen : Screen]

FrameTypeOK ==
    /\ framesSeen \in Nat /\ frames \in Seq(RingEntry) /\ timings \in Seq(Nat)
    /\ eraOf \in Seq(Nat)

RecordTypeOK ==
    /\ recorders \subseteq Recorders /\ since \in [Recorders -> Nat]
    /\ DOMAIN recording = Recorders
    /\ \A r \in Recorders :
          recording[r].frames \in Seq(RecordingEntry) /\ recording[r].dropped \in Nat

TestTypeOK ==
    /\ test \in {"idle", "waiting", "expired", "resizing", "moving"}
    /\ asked \in Sizes /\ want \subseteq Nat /\ seenFrame \in Nat /\ late \in BOOLEAN
    /\ waits \in Nat /\ resizes \in Nat /\ captured \in Nat /\ frameCursor \in Nat
    /\ era \in Nat
    /\ outcome \in {"none", "frame", "eof", "failed", "noRepaint", "noUpdates", "noMatch"}
    /\ returned \in Seq(ReturnedFrame)

(* Every variable has its type: no count goes below zero, no ring holds
   anything but numbered screens. (RecordingsAccount says which cells.) *)
TypeOK ==
    AppTypeOK /\ PtyTypeOK /\ EmuTypeOK /\ FrameTypeOK /\ RecordTypeOK /\ TestTypeOK

(* `queue` holds the newest of the numbers 1..framesSeen, in order and
   without a gap, as many as `capacity` allows. *)
HoldsTheNewest(queue, capacity) ==
    /\ Len(queue) = IF framesSeen < capacity THEN framesSeen ELSE capacity
    /\ \A k \in 1..Len(queue) : queue[k] = framesSeen - Len(queue) + k

(* The frame ring and the timing ring keep exactly the newest completed
   frames: a burst is lost from its old end only, and never has a hole. *)
RingsHoldTheNewest ==
    /\ HoldsTheNewest([k \in 1..Len(frames) |-> frames[k].index], FrameHistory)
    /\ HoldsTheNewest(timings, TimingHistory)

(* Frame n, wherever it is kept, is the n-th update the application
   completed, exactly as the application left it at its End: nothing of the
   bytes read with it, no update counted that was never completed, none
   missed. It says so itself through repaints(). *)
IsUpdate(index, screen) ==
    /\ index \in 1..Len(drawn)
    /\ screen.painting = drawn[index]
    /\ screen.repaints = index

FramesAreUpdates ==
    /\ \A k \in 1..Len(frames) : IsUpdate(frames[k].index, frames[k].screen)
    /\ \A k \in 1..Len(returned) : IsUpdate(returned[k].index, returned[k].screen)

(* The cursor never passes the count: wait_frame's error subtracts one from
   the other, unsigned. *)
CursorWithinCount == frameCursor <= framesSeen

(* No frame satisfies two waits, and none is handed back after a later one. *)
ReturnedInOrder ==
    \A j, k \in 1..Len(returned) : j < k => returned[j].index < returned[k].index

(* A frame completed before the last change of the grid's size is not
   returned after it, whatever the reader did between the steps of resize. *)
OldGridNotReturned ==
    \A k \in 1..Len(returned) : eraOf[returned[k].index] = returned[k].era

(* A frame completed since the last change of the grid's size stays within
   wait_frame's reach until it, or a later one, has been returned: the
   repaint that answers a resize cannot fall behind the cursor. *)
NewGridNotSkipped ==
    \A i \in 1..framesSeen :
        (eraOf[i] = era /\ i <= frameCursor)
            => \E k \in 1..Len(returned) : returned[k].era = era /\ returned[k].index >= i

(* Update i satisfies the wait and was not lost to the ring's bound. *)
StillOwed(i) == drawn[i].id \in want /\ i > framesSeen - FrameHistory

(* A wait returns the oldest update that satisfies it: the ones it passes
   over do not, or were already dropped from the ring. *)
OldestFirst ==
    [][returned' # returned =>
          \A i \in (frameCursor + 1)..(frameCursor' - 1) : ~StillOwed(i)]_vars

(* A wait that fails with Eof really had nothing to wait for: no update the
   application ever completed satisfies it and was within reach. *)
EofMeansNothingOwed ==
    [][(outcome' = "eof" /\ outcome # "eof") =>
          \A i \in (frameCursor + 1)..Len(drawn) : ~StillOwed(i)]_vars

(* A stored snapshot that claims the present generation is the screen of
   the present grid: every change of the grid is followed by touch(). *)
CacheIsCurrent ==
    (cache.generation = generation /\ LockFree /\ ~panicked)
        => cache.screen = ScreenOf(grid, framesSeen)

(* Once the emulator has panicked, the screen every call shows stands
   still, through later output, resizes and the end of the stream. *)
FrozenAfterPanic == [][panicked => PeekSnapshot' = PeekSnapshot]_vars

(* A recording holds consecutive frames up to the newest one it was handed,
   accounts for every frame since it began as held or dropped, carries the
   exact cells of what it holds, and is over budget only by a single frame. *)
RecordingsAccount ==
    \A r \in Recorders :
        LET entries == recording[r].frames
            last == since[r] + recording[r].dropped + Len(entries)
        IN  /\ r \in recorders => last = framesSeen
            /\ \A k \in 1..Len(entries) :
                  entries[k].index = since[r] + recording[r].dropped + k
            /\ recording[r].cells = CellsOfFirst(entries, Len(entries))
            /\ recording[r].cells <= Budget \/ Len(entries) = 1

(* Every wait ends: with a frame, with an error, or at its deadline. *)
WaitsEnd == test \in {"waiting", "expired"} ~> test = "idle"

(* The PTY is drained to its end and the state learns of it, also after the
   emulator panicked: the application never blocks on a full buffer. *)
OutputIsDrained == ~alive ~> eof

(* The frames up to this one are out of wait_frame's reach: between the two
   steps of a resize already the ones it is about to pass over. *)
Floor == IF test = "moving" THEN captured ELSE frameCursor

(* What the cursor's properties rest on: resize's count lies between the
   cursor and the frames completed, every frame it covers is of an older era
   and every frame past the floor of the present one, and the cursor is past
   everything returned. *)
CursorInv ==
    /\ RingsHoldTheNewest
    /\ Len(eraOf) = framesSeen
    /\ frameCursor <= framesSeen
    /\ test = "moving" => frameCursor <= captured /\ captured <= framesSeen
    /\ \A i \in 1..framesSeen : eraOf[i] <= era
    /\ \A i \in 1..framesSeen : i > Floor => eraOf[i] = era
    /\ test = "moving" => \A i \in 1..captured : eraOf[i] < era
    /\ \A k \in 1..Len(returned) : returned[k].index <= frameCursor
    /\ ReturnedInOrder
    /\ OldGridNotReturned
    /\ NewGridNotSkipped

(* The promise of wait_frame, step by step. *)
Stream == INSTANCE FrameStream WITH
    log   <- [i \in 1..framesSeen |-> [painting |-> drawn[i], era |-> eraOf[i]]],
    floor <- Floor,
    taken <- [k \in 1..Len(returned) |->
                 [index |-> returned[k].index, painting |-> returned[k].screen.painting]]

ImplementsFrameStream == Stream!Spec

(* What the comment in resize says: a frame the application laid out for
   an old size stops being offered. *)
StaleLayoutNotReturned ==
    [][returned' # returned =>
          returned'[Len(returned')].screen.painting.laid = ptySize]_vars

(* What the comment in reader_loop says: the frozen screen is the grid as
   it stood when the emulator was last coherent. *)
FrozenIsTheLastGrid ==
    [][panicked' # panicked => cache'.screen = ScreenOf(grid, framesSeen)]_vars

=============================================================================
