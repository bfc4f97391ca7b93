# termlens in TLA+

termlens runs a terminal program inside a real PTY and shows a test what is on
its screen. This directory models how it does so: the threads that drain the
PTY, type into it and wait for it; the emulator that makes a screen of the
output; what a test reads off a screen and saves of it; and how its keys and
clicks reach the application. All source paths below are relative to
`src/crates/termlens/src/`.

## 1. Inventory

| Component | State | Operations | Hard because |
|---|---|---|---|
| Frame pipeline, `terminal.rs` `reader_loop`, `EmuState`, `wait_frame`, `resize`, `screen` | emulator grid, generation and snapshot cache, frame ring (8) and timing ring (512), frame count, eof, panic; per terminal a frame cursor | feed a chunk, complete a frame, freeze after a panic, EOF; take a screen, wait for a frame, resize | reads cut the stream anywhere; the cursor is read under the lock and moved after it; rings evict while waits look |
| Recorder, `terminal.rs` `RecordingState`, `Recorder` | frames, cells, budget, drop count | push, start, stop, drop | frames of unequal weight against one budget, stopped in the middle of other calls |
| Write queue, `terminal.rs` `queue_replies`, writer thread, `write_within_deadline` | an unbounded channel, three unlocked atomics, acknowledgement channels | hand over replies, type, write a batch, acknowledge, give up | atomics read and written by two threads without a lock; an application that does not read |
| PTY lifecycle, `terminal.rs` `PTY_LIFECYCLE`, `open_pty`, `Opening`, `MasterDup`, `unblock_teardown`, `Drop` | a process-wide lock, who holds each master descriptor | open, spawn, close | closes by threads that outlive the terminal; a write asleep at teardown |
| Waits, `terminal.rs` `wait_until`, `wait_idle`, `wait_stable`, `snapshot_after`; `wait.rs` `Monitor` | generation seen, quiet clock, last picture | look, sleep, time out | lost wake-ups, stale looks, quiet inside an unfinished update |
| Child, `terminal.rs` `wait_exit`, `signal`, `stop_child` | exit status, reaped here or elsewhere | poll, signal, stop | reaping by others, pid reuse, bounded teardown |
| Query answers, `EmuState::answer`, `note_unanswered`, `query_note` | bounded set of unanswered shapes, read count | answer, note | the bound, repeated shapes |
| UTF-8 sanitizer, `utf8.rs` | a pending prefix | feed, finish | chunk boundaries |
| Sequence tracker, `emu/seq.rs` | parser state, DEC modes, tab stops, character sets, links, clipboard, upload in progress | step a byte | every byte may be split from the next; resets inside strings; it must stay in step with a parser it cannot ask |
| Emulator adapter, `emu/vt100.rs`; `emu/shadow.rs`, `emu/unhandled.rs` | vt100 parser, attribute shadow, history | process, set_size, snapshot | bytes held back, replaced or added around the parser; rows that leave the grid between snapshots and in resizes |
| Graphics, `graphics.rs` | payload under construction, loader | parse, count, decode | uploads in chunks, interleaved with queries and deletes |
| Screens, `screen.rs`, `screen/` | none of their own | search, mask, save, read, diff, render | characters of several widths, rows that wrap, formats of old releases |
| Keys, mouse, paste, `keys.rs`, `terminal.rs`; `width.rs` | none of their own | encode under the application's modes | one byte sequence must not mean two things |
| Command line, `termlens-cli` | none | run a command | I/O |

How they interact: the reader thread and the test thread share `EmuState`
behind one mutex with a condition variable (`Monitor`). The reader thread
sanitizes each chunk and drives the emulator through it; the sequence tracker
scans every byte first, and stops the feed at the End of an update and at a
query. Frames go to the rings and to every recorder, query answers to the
writer thread through the channel, before the lock is released. The test thread
sends what it types through the same channel, encoded under the modes that the
tracker has seen the application set. The child and the kernel are the
environment; several terminals in a process share the PTY lock.

What makes each of them correct:

- *Frames*: what `wait_frame` returns are the updates the application
  completed, exactly as it left them, oldest first, each at most once, none of
  a grid that was resized away, and none of the new grid out of reach. The
  drain never ends before EOF. A snapshot is current.
- *Recorder*: every frame since the start is held or counted as dropped.
- *Write queue*: bytes reach the PTY in the order handed over, once; replies go
  ahead of what is typed in answer to the screen they belong to; the drain and
  the sends never hang; the counters say the truth; memory is bounded.
- *Lifecycle*: no close of a master overlaps an open, spawns and drops end,
  everything is released.
- *Waits and child*: a wait returns only on a state that was there, and always
  by the deadline; the child's end is told as it was, no signal goes to a pid
  that is not ours; a note on queries is current.
- *Sanitizer, tracker, adapter*: the result does not depend on where reads cut;
  modes, sets, links, uploads and history follow the protocol.
- *Screens*: all searches agree, a mask covers whole characters, what is saved
  reads back.
- *Input*: what the application takes its input for is what the test did.

## 2. Plan

| Modules | Composed in | Run by | Proofs |
|---|---|---|---|
| `Recording`, `Frames`; abstract specification `FrameStream` | `Frames` | `frames`, `frames_live` and three violations | `Frames_proofs` |
| `WriteQueue` | | `write_queue`, one violation | `WriteQueue_proofs` |
| `Lifecycle` | | `lifecycle` | `Lifecycle_proofs` |
| `Unanswered`, `Waits` | `Waits` | `waits` | `Waits_proofs` |
| `Utf8`, `Bytes`, `TabStops`, `Graphics`, `SeqTracker`, `Unhandled`, `Grid` (external), `Shadow`, `Emulator`, `Answers`, `Stream` | `Stream` | `emulator`, one violation | `Utf8_proofs` |
| `Characters`, `Screens`, `SavedScreens`, `Input`, `InputMeaning`, `TestSession` | `TestSession` | `test_session` | `Input_proofs`, `TestSession_proofs` |

Each `MC...` module holds the values of the constants of its runs.

`Sums_proofs` holds the lemmas the others share. What is left are lemmas on
`TabStops` and on the searches and masks of `Screens`. The modules are
written to be proved about (constants with named assumptions, one action per
operation, recursive functions in place of recursive operators), but for `Grid`,
`Shadow`, `Emulator` and what uses them: there a step runs over a whole read, by
recursive operators, and TLC alone checks it.

## 3. Frames

`Frames.tla` extends `Recording.tla`. The output of the application is a stream
of tokens: `begin` and `end` (DEC 2026), `paint` (anything that changes the
grid; a painting names itself and the size it was laid out for), `reset` (RIS)
and `fault` (bytes the emulator panics on). A grid is its size, its last
painting and whether a resize clipped it since.

| In the code | In the model |
|---|---|
| the `Monitor` mutex | held by the reader while `reader = "feeding"`; each critical section of the test thread is one action guarded by `LockFree` |
| `reader_loop` | `ReadChunk` (any prefix of what is in flight), `LockState`, one `Feed...` action per token, `Unlock` (touch), `ReadEnd`, `SetEof` |
| `Stop::FrameComplete` | `FrameComplete`, inside `FeedEnd`: count, snapshot, recorders, both rings |
| the panic branch | `FeedFault`: the rest of the chunk is lost, the cached snapshot is frozen |
| `snapshot`, `peek_snapshot`, `build_snapshot` | `StoreSnapshot`, `PeekSnapshot`, `BuildSnapshot` |
| `wait_frame_deadline` | `WaitFrame`, then per wake-up one of `WaitFails`, `WaitReturns`, `WaitSeesEof`, `WaitGoesOn`; `ReportTimeout` takes the lock again, as the code does |
| `resize` | `Resize` (ensure_deliverable), then one section `ResizeSame`, `ResizeGrid` or `ResizeFails`, then `MoveCursor` after the lock was released |
| `record`, `Recorder::stop` and `Drop` | `Record`, `StopRecording` |

`drawn`, `era`, `eraOf`, `returned` and `since` are history variables: no guard
reads them. `FrameStream.tla` is the promise of `wait_frame` with no ring, lock
or reader in it: a log of frames, a floor, what was taken, and a change of size
that puts everything completed so far out of reach.

A `recording` holds frame numbers and sizes rather than screens; screens of the
same frame are those of the ring. Wall-clock times and `printable` counts are
left out of the timings.

### Its runs

- `frames`: three programs (three updates; an update abandoned by a reset,
  which leaves a stray End; a panic inside an update), two waits, one resize,
  three tokens in flight, a frame ring of two. About 1.3 million states. Two
  waits are what "each at most once" needs, one resize what the cursor needs,
  a ring of two with three updates makes it overflow.
- `frames_live`: one recorder over a budget that a single large frame exceeds,
  an ioctl that may fail, one wait, and the liveness properties.
- `frames_stale_layout`, `frames_frozen`, `frames_ioctl`: see section 10.

`frames` uses two reductions. The VIEW replaces the generation by whether the
cached snapshot has it, which is all any guard or property asks of it. The
ACTION_CONSTRAINT explores, while the reader holds the lock, only the reader's
steps: what others can do then (write a token, notice SIGWINCH, exit, start a
wait, reach a deadline, move the cursor) touches nothing the feeding steps read
or write, so it commutes with them. `frames_live` uses neither.

The runs disable the deadlock check: a test that makes no more calls and an
application that has ended are a legitimate end.

### Fairness

`FairSpec` is weak fairness of the reader thread, of the thread inside a wait,
of the passing of time and of the second half of a resize: threads are
scheduled, `read(2)` returns when there is something to read or the slave is
closed, and a `Condvar` sleep is bounded by POLL_CAP (so a lost notification
cannot stop a wait). Nothing is assumed of the application, nor of the test
beyond a call it is in.

## 4. WriteQueue

`WriteQueue.tla` models the channel with unlocked atomics around it, so each
access to `replies_pending`, `queued_bytes` and `writer_busy` is an action. A
byte knows its request. `handed` and `delivered` are history.

| In the code | In the model |
|---|---|
| `queue_replies` | `CheckCeiling`, `CountPending`, `CountBytes`, `HandOverReplies` or `HandOverFails` then `UncountBytes`; all before `Show` releases the lock |
| the writer thread | `Receive`, `Coalesce`, `StartWrite` (try_recv found nothing), `WriteByte` or `WriteFails`, `FinishWrite`, `UncountReplies`, `LoadBytes`, `SubtractBytes`, `Acknowledge`, and `DropReceiver` after a failure |
| `send`, `write_within_deadline` | `Send`, `HandOverInput` or `SendToClosed`, `TakeAck`, `Expire`, `LookWhetherBusy`, `GiveUp` |
| `write(2)` into the PTY | one byte per step while the child's input queue has room; with the slave closed it may fail (macOS) or go on succeeding (Linux) |

Requests have numbers in the order they entered the channel, so "in order" is
that the bytes delivered follow each other request by request. `since` is the
read a reply belongs to, and for input the last read whose screen the test
could have seen. Where a write has failed because the slave is closed, nothing
more is read: no platform both fails that write and still returns output.

An access under `Ordering::Relaxed` is modelled as an atomic step in the order
of the program. That is enough here: each counter is one atomic with
read-modify-write updates, and the channel's send and receive order the
counting before the hand-off against the uncounting after it.

`queued_bytes` may wrap: if the writer, writing typed bytes that were never
added, takes the reader's freshly counted bytes out of the account and then
dies, the reader's `fetch_sub` (terminal.rs:2842) subtracts them again. The
model lets the counter go below zero and `BytesNeverWrap` states what makes
that harmless: the writer is dead and nothing is checked against the ceiling
any more.

### Its runs

- `write_queue`: a ceiling of 3 bytes, an input queue of one byte, two reads
  with no answer or two of them (two bytes), one send of two bytes: a batch
  blocks half-way, a reply and a send coalesce, the ceiling refuses, a send
  gives up while its bytes go out later. About 205 thousand states, with the
  liveness properties. What two sends do to each other is not in this instance;
  it rests on the proofs (`RequestsGoInOrder` and the others of section 11),
  which are for any number.
- `reply_ceiling`: see section 10.

`FairSpec` is weak fairness of the reader thread inside a read, of the writer
thread and of the caller of `send`, which are all running threads, and of an
application that has not stopped reading. It may stop for good at any time, and
close its side.

## 5. Lifecycle

`Lifecycle.tla` models several terminals of one process, each spawned and
dropped once, and the devices they take from the system. What the process-wide
lock is for is the kernel's doing: the last close of a master puts the device
back first and revokes it a moment later, so that an `openpty` in between gets a
device that is about to be hung up under it. The close is therefore two steps
of whichever thread makes it, `CloseMaster` and `Revoke`.

| In the code | In the model |
|---|---|
| `pty_lifecycle_guard`, `HOLDS_LIFECYCLE` | `TakeGuard`, `DropGuard`, and `CanGuard`, which lets the thread that has the lock in again |
| `open_pty` | `OpenPty`, `OpenFails` (the lock is free between attempts) |
| the rest of `spawn` | `CloneReader` to `Spawned`, and `SpawnFails` at every step that may fail: `OpenedBy` is what an `Opening` dropped there closes, in order |
| `Terminal::drop` | `Drop`, `StopChild` (outside the lock, and perhaps without success), `UnblockTeardown` (either of its steps may be refused), `LockToClose`, `CloseNext`, `Dropped` |
| the PTY layer's writer, whose drop writes an EOT | the descriptor `cell`; closing it needs the cell's mutex and a write that ends |
| the reader and writer threads | from their start to the close of their `MasterDup`; inline replies where there is no writer thread |

Run `lifecycle`: two terminals that want one device (an attempt fails, and then
may succeed because the other's teardown put the device back), two attempts, one
terminal that is written to twice, so that its input queue fills and its writer
thread sleeps; its teardown may be refused fcntl or the slave (`MCRefusals`; with
both refused the properties say no more than with fcntl refused). About 205
thousand states. The fairness is weak fairness of each
terminal's user, reader and writer thread, where a call of the kernel that can
end ends; nothing is asked of the application, and no terminal need be dropped.

`unblock_teardown` is best effort: what `fcntl` and the open of the slave answer
is passed over (terminal.rs:4772-4774). `CallsEnd` and `EverythingIsReleased` say
what depends on it. With fcntl granted and a writer thread, nobody waits although
the slave cannot be opened; a write that is asleep by then is not woken, and its
thread keeps its duplicate, and nothing else is kept (`LeftAsleep`). Two cases are
excepted (`Hindered`), and TLC finds each to be needed. If fcntl is refused, the
EOT or a woken write may wait on a full queue. And if the slave cannot be opened
where replies are inline (no descriptor could be duplicated, and by the same want
none may be had here), a reader thread asleep in its reply has the cell locked:
`Drop` waits for it with the process-wide lock held, and so does every other spawn
and drop. The comment on `Drop` (terminal.rs:4826) says that nothing after the stop
may block.

## 6. Waits

`Waits.tla` has a clock. A look of a wait, under the state lock, is one step, as
is a poll of the child; between them the test thread sleeps, until it is
notified or for the time the code works out from deadline, quiet period and
POLL_CAP. Time passes whenever it likes, also while the thread could go on, as
with a scheduler: `hist.late` remembers that it did, and no bound on a wait is
claimed of such a behaviour. No fairness is assumed: the deadlines are safety.

| In the code | In the model |
|---|---|
| `wait_until_deadline`, `wait_idle_deadline`, `wait_stable_deadline`, `snapshot_after` | `WaitUntil`, `UntilLook`, `UntilExpired`; `WaitIdle`, `IdleLook`; `WaitStable`, `StableLook`; `SnapshotAfter`, `Settle` |
| `Monitor`, `next_backoff`, `deadline_after` | `notified`, the sleep's `wake`, `NextBackoff` |
| `wait_exit` | `WaitExit`, `WaitExitAgain`, `ExitPoll`, `ExitExpired`, then `DrainLook` for what was written before the exit |
| `signal`; `stop_child`, `reaped_by` | `Signal`, `SendSignal` (the question and the kill are two steps); `Drop`, `HangUp`, `KillIt`, `ReapedBy` |
| `note_unanswered`, `query_note` | `Unanswered.tla` |
| another thread's `waitpid`, SIGCHLD ignored, pid reuse | `SomeoneReaps`, `PidIsReused`, `ChildExits` under `kernelReaps` |

Run `waits` has ten scenarios: each wait against a screen painted twice, with an
update, a sequence or a character left open; `wait_stable` against three
paintings (a picture that comes back); four reads with queries of two shapes
where one can be noted; `wait_exit`, `signal` and the drop, in this order,
against others that reap; a kernel that reaps by itself; and the two of
`EXIT_CLOSES_THE_TERMINAL`. Two pictures, a quiet period of 2, a timeout of 3,
POLL_CAP 2, and graces of 1 to 4 so that each expires before and after the
others. About 2.4 million states.

Noted while modelling, and left as they are because no document promises
otherwise: `wait_stable` cannot see a picture that changes and changes back
between two looks (`StillHeld` says what it does promise); the screen and the
query note of a timed-out `wait_until` are taken after the lock was released
(terminal.rs:3707), so that the screen may satisfy the predicate by then; the
overflow count of unanswered queries counts occurrences (terminal.rs:1345).

## 7. The emulator

`Stream.tla` composes everything between the application's bytes and the grid.
A byte is a name (`"ESC"`, `"["`, `"e6"`); a run of digits is one symbol, and so
is text between two separators that the code only carries along. All else is
byte by byte, and a read may cut between any two.

| In the code | In the model |
|---|---|
| `Utf8Sanitizer` | `Utf8` |
| `SeqTracker::step` with its states, `dispatch_csi` and the rest | `SeqTracker`, with `Bytes` (classes of bytes), `TabStops`, `Graphics` (payload builder, kitty loader, placements) |
| `shadow.rs`: the colour normalizer, the attribute carriers | `Shadow` |
| `unhandled.rs`: the callbacks of the parser | `Unhandled` |
| `emu/vt100.rs`: `process` with each detour of the feed, the capture of history, resize, snapshot | `Emulator` |
| the vt100 crate | `Grid`: external, as far as the adapter relies on it |
| `EmuState::answer` | `Answers` |
| the loop of `reader_loop` over stops | `Drive`, `Stopped` |

Beside the emulator that is given reads stand two references: the same emulator
given each script in one piece (`whole`), and what the commands mean in the
protocols, where nothing is parsed (`meaning`). `CutsDoNotMatter` compares with
the one, `StreamIsUnderstood` with the other; `HistoryIsComplete` compares the
copied history with every row that `Grid` ever pushed off its main screen.

`Grid` leaves out the scroll region, the cursor movements A, D, E, F and H, and
K, L, M, P, S, T, which the adapter feeds through as they are, and the request
to resize the window; mode 1047 is known to the tracker only, as in the code; a
string aborted by CAN or SUB is dispatched by the vt100 parser and dropped by
the tracker.

Run `emulator`: eleven suites of commands (character sets, strings and links,
mouse modes, updates and focus, insert mode with wide and widened characters,
kitty uploads with deletes and queries, with sixels and placements, tab stops,
colours, scrolling with a reset, scrolling with the alternate screen),
three commands in scripts of one or two, reads of one byte, three, or all there
is, one resize, on 2 rows of 5 columns with a history of 2. About 81 thousand
states, each of them a whole read. Three commands are what a mode or a set that
is saved, changed and restored needs; one resize with a history of two makes
rows go both ways. A reset that finds the alternate screen up is kept out of it
by the suites: see section 10.

Noted while modelling: an empty APC string after a kitty one is taken for a
transmission, because the head of the last string is kept until the next one's
first byte (emu/seq.rs:1615, against the comment above it); a query in several
parts followed by a frame load starts an upload that `orphaned_load` is
documented never to meet (emu/seq.rs:731). The model does both; the suites do
neither.

## 8. Screens and input

`TestSession.tla` is what a test does between two waits, against an application
that paints, sets modes and decodes its input. Characters are symbols with the
properties that matter (wide, mark, selector, emoji, composes with a mark);
places in a text are characters, not bytes, as all bytes of a character have one
column. A result that may be an error is a set of at most one element.

| In the code | In the model |
|---|---|
| `width.rs`; the search text of a row or a window of rows with its column map; `find_all`, `find`, `contains`, `locate` | `Characters`, `Screens` |
| `mask`, `mask_rect`, `mask_style` | `Screens` (`Masked`) |
| `Display` and `with_styles`, `screen/parse.rs`, `serde_impl.rs`, `diff.rs`, runs and SGR of `render.rs` | `SavedScreens` |
| `keys.rs`; `click`, `drag`, `scroll`, `paste`, `focus` and their encodings | `Input`; bytes are numbers there |
| what the test means by each input | `InputMeaning`: events, in the terms of the test and not of the bytes |
| the application | `EventsIn` of `InputMeaning`: a decoder of its own, from the protocols (external) |

Run `test_session` has nine sessions: 144 screens of two rows with every kind
of text, searched and masked; tall and broad screens for needles of several
lines; screens with styles, and rows that look like the styles block, saved and
read, with files of older releases; JSON of an old release with wide characters
cut from their second halves, masked, saved and read; every key and chord; pastes whose markers
nest; the mouse in each tracking mode and encoding, on a small screen and on one
of 240 columns, where encodings run out. About 333 thousand states.

The application sets its modes only when it has read all its input (what was
typed under other modes is its own affair). Where it reads an Esc, or an Alt-[ or
Alt-O, and what follows in one read, or was sent an ESC in a typed text or in an
unbracketed paste, what it hears depends on where the read ends, or is the
sequence of someone else, in any terminal. From then on `unclear` is set, and
`InputIsUnderstood` says nothing more of that session. A needle that begins with
a mark is not searched for. A screen whose text ends in drawn white space that is not a blank
(U+00A0, U+3000) does not read back, although parse.rs:45-48 says that a diff
with what was saved is empty: `SavedScreensReadBack` leaves it out.

A release up to 0.11.6 could leave a wide cell without its second half; the JSON
reader takes such a row (`check_row`), the text format cannot say it
(below), and a mask counts the cell as two columns: it takes the next
cell along, and if that one is wide too its second half, and so on, which is why
`WithHalves` goes along the row. So `MasksCoverTheMatches` and the text part of
`SavedScreensReadBack` speak of screens that are whole (`IsWhole`), and
`JsonReadsBack` of all. The document of the model has the size, the cursor and the
cells; its out-of-band state is left out, and with it the check of the history's
rows (serde_impl.rs:141-153, `check_row` once more) and the mask on the mouse modes
(serde_impl.rs:190-200): `JsonReadsBack` says nothing of them.

Noted while modelling, without a run: a wide character cut from its second half
and left before a blank, read from an old release's JSON and written as text, is
refused by `Screen::parse` where its row is full, and shifts the rest of the row
otherwise: the character is taken for two columns unless it is in the last one
(screen/parse.rs:247-270). docs/DESIGN.md:831 says that the reader accepts exactly
what `Display` writes, and docs/DESIGN.md:969 that it reads such a row as the
JSON reader does.

## 9. What the passing runs show

| Property | Run | Says |
|---|---|---|
| `TypeOK` | `frames` | every variable keeps its type (the one type invariant that is checked: it carries the proofs) |
| `RingsHoldTheNewest` | `frames` | the rings hold exactly the newest frames, without a hole |
| `FramesAreUpdates` | `frames` | frame n is the n-th update the application completed, as it left it |
| `ReturnedInOrder`, `OldestFirst` | `frames` | frames are handed out forward, oldest match first |
| `OldGridNotReturned`, `NewGridNotSkipped` | `frames` | a resize puts the old grid's frames, and only those, out of reach |
| `EofMeansNothingOwed` | `frames` | Eof is reported only if no matching update within reach was completed |
| `CacheIsCurrent`, `FrozenAfterPanic` | `frames` | a current cache shows the grid; after a panic the screen stands still |
| `ImplementsFrameStream` | `frames` | every step of `Frames` is a step of `FrameStream` or none |
| `RecordingsAccount` | `frames_live` | a recording accounts for every frame and every cell |
| `WaitsEnd`, `OutputIsDrained` | `frames_live` | waits end, the PTY is drained to EOF |
| `WrittenInOrder`, `QueueIsWritten` | `write_queue` | bytes are written once and in order, also those of a send that gave up |
| `RepliesAheadOfInput` | `write_queue` | replies go ahead of what answers the screen drawn after the queries |
| `PendingIsExact`, `BytesNeverWrap`, `ReplyBytesNearCeiling` | `write_queue` | what the unlocked counters are good for |
| `OkMeansWritten`, `SendsEnd`, `DrainNeverStalls` | `write_queue` | success means written; nobody hangs |
| `NobodyIsRevoked` | `lifecycle` | no terminal is hung up by the close of another's master |
| `CallsEnd` | `lifecycle` | spawns and drops return, with full queues and wedged children too, unless a teardown was hindered (section 5) |
| `EverythingIsReleased` | `lifecycle` | no descriptor and no thread outlives its terminal for good; a slave that could not be opened leaves one sleeping write and its duplicate |
| `NobodyOversleeps` | `waits` | every wait and every poll of a teardown is over by its deadline |
| `UntilIsRight`, `StillHeld` | `waits` | what a wait returned or gave up on was so |
| `SignalsReachTheChild`, `ExitIsTold` | `waits` | no stranger is signalled but in the unavoidable window; the exit is told as it was |
| `NotesAreCurrent` | `waits` | what a note says of unanswered queries |
| `CutsDoNotMatter` | `emulator` | screen, history, modes, frames and answers do not depend on the reads |
| `StreamIsUnderstood` | `emulator` | tracker and grid hold what the commands mean, and stay in step |
| `HistoryIsComplete` | `emulator` | each row that left the screen is in the history once, in order |
| `SearchesAgree`, `MasksCoverTheMatches` | `test_session` | every way to search agrees with the text; masks cover whole characters |
| `SavedScreensReadBack` | `test_session` | text reads back; a diff tells what can be seen; runs tile a row |
| `JsonReadsBack` | `test_session` | JSON of every screen is read as that screen, whatever old files and masks made of it |
| `InputIsUnderstood` | `test_session` | the application hears what the test did |

Every property of a passing run has a mutant: a definition with a plausible
slip (`Slip:` in the modules), with which the same run reports that property
violated.

No run checks for deadlock: a test that makes no more calls and an application
that has ended, or does nothing, are a legitimate end of every one of these
systems. What must go on is stated as liveness instead.

## 10. What fails

Five runs show a property, taken from a comment of the code, that fails:

- `frames_stale_layout`: an update laid out for the old size and still in
  flight at the resize is returned as the repaint that answers it. The frame
  cursor compares when frames were completed, not what they were drawn for.
- `frames_frozen`: the screen frozen after a panic is the last one *stored*,
  which may be the blank screen of the spawn.
- `frames_ioctl`: if TIOCSWINSZ fails, the grid has been through the new size
  and back without a `touch()`; a cached screen then hides what was clipped.
- `reply_ceiling`: the writer subtracts the bytes of its whole batch, typed
  bytes included, from the account of reply bytes. Replies that wait behind
  typed input fall out of it, and the hard ceiling is exceeded by as much.
- `emulator_reset_on_alternate`: a full reset that finds the alternate screen
  up, resized meanwhile, discards a history whose moved rows nobody has copied:
  `feed_history_reset` relies on a capture that returns at once on the alternate
  screen. The copy keeps a row that is on the screen, or misses one.

## 11. What is proved

`Frames_proofs.tla`, checked by TLAPS, for every value of the constants:

- `TypeCorrect`: `TypeOK`, inductive by itself. One step per action.
- `RingsCorrect`: `RingsHoldTheNewest`, from `TypeOK` and a lemma on a push at
  a capacity.
- `CursorWithin`, `ReturnsInOrder`, `ResizeCursorCorrect` and
  `NewGridWithinReach` (`NewGridNotSkipped`): these are not inductive. `CursorInv`
  adds what they lack: every frame past the floor is of the present era, and between the two steps of a resize the count read under
  the lock lies between the cursor and the frame count and covers only frames
  of older eras. It was checked with TLC before it was proved.
- `CacheCorrect`: `CacheIsCurrent`, assuming no ioctl fails (`frames_ioctl`
  shows that the assumption is needed).
- `FrozenForGood`: `FrozenAfterPanic`, from the next-state relation.

- `FramesCorrect`: `FramesAreUpdates`. It relates a frame the reader completed
  to an update the application completed, maybe long before, with the rest of
  the output between the two. `FlightInv` says what is between them: there are
  views (is an update open, which painting is shown, how many updates are
  complete), one before and after each token in flight, each the one before it
  after its token, that lead from where the reader is to where the application
  is. A token written adds a view at the end; a token fed takes one away at the
  front; a cut between two reads moves none. `ReaderInv` adds that past the end
  nothing is in flight. It is about any output, so about resets inside an
  update, `end`s that close nothing and paintings outside an update.
- `OldestCorrect` (`OldestFirst`) and `EofCorrect` (`EofMeansNothingOwed`):
  `ScanInv` says that what the last look of a wait passed over was not owed to
  it, and so need not be looked at when it is notified again.
- `StreamImplemented`: `ImplementsFrameStream`. Initial states map to initial
  states and each action of `Frames` to one of `FrameStream` or a stutter, with
  the invariants above.

- `RecordingCorrect`: `RecordingsAccount`. `AccountInv` says it of one recording
  at a time, with the frame it was handed last. What is dropped is the least
  number of oldest frames that makes room for the new one, and the cells of a
  recording are those of its first frames and those of the rest (`CellsConcat`).

`Sums_proofs.tla` has the sums these need. The induction theorems of the library
take a predicate as a parameter, which no installed prover can instantiate; so
an induction on a length goes by the least counterexample of a set of numbers
(`NatMin`, `UpTo`), and a fold over a sequence is related to its partial sums
(`IteratesAdds`), of which sums of a concatenation, a first and a last element
follow.

`WriteQueue_proofs.tla`, likewise:

- `RequestsGoInOrder`: `WrittenInOrder`. `OrderInv` looks at `Sent`, what was
  delivered followed by what the writer has in its hands: it is in order, it
  ends with the last byte of the last request taken (as long as no write
  failed), and the channel holds the requests after that one. Writing a byte
  leaves `Sent` as it is; taking a request adds the next one to it; a failed
  write cuts its end, and nothing is taken after that.
- `OkIsNeverEarly`: `OkMeansWritten`. `AckInv`, on top of `OrderInv`: whoever
  waits for the batch in hand has its last byte in `Sent`, and when the batch
  is acknowledged nothing is left in hand.
- `RepliesGoAhead`: `RepliesAheadOfInput`, from `HandInv`: between the feeding
  of a read and the hand-off of its replies no screen of that read has been
  shown, so nothing typed in answer to it is in the channel yet.
- `AccountServes`: `BytesNeverWrap`, from `BytesInv`: what the writer is about
  to subtract is at most what the account holds, and only a failed hand-off
  subtracts without looking.
- `PendingCorrect`: `PendingIsExact`, from `PendingInv`: the counter is the
  replies in the channel, those of the writer's batch and those the reader has
  counted and not yet handed over, as long as there is a writer, and never less.
- `ReplyBytesCorrect`: `ReplyBytesNearCeiling`, from `RoomInv`: the account
  covers what is in the channel, in the batch and on its way into the channel,
  but for the typed bytes of requests the writer took, and the reader lets it
  grow to the ceiling at the most. It holds at each of the steps a check, a
  count, a hand-off, a load and a subtraction are made of. The ceiling itself is
  not kept (`reply_ceiling`); this is how far it can be missed.

`Waits_proofs.tla`, likewise; `Inv` is the conjunction of `Types` and of one
invariant for each theorem, all inductive relative to `Types`:

- `OversleepsNever`: `NobodyOversleeps`, from `ClockInv`: a thread that was not
  kept from running has its deadline ahead of it, and what it sleeps for comes no
  later, between two polls of a teardown too.
- `UntilCorrect`: `UntilIsRight`, from `UntilInv`: a picture looked at and not
  changed since is one not to return for, so a wake-up at a known generation may
  skip it; the time the exit watch counts from is that of our reaping the child.
- `StillCorrect`: `StillHeld`, from `HeldInv`, which relates three clocks: of the
  last byte, of the last activity and of the picture a poll compares with. The
  activity is not before the byte, the picture has been there since, and no
  other picture was looked at later.
- `SignalsCorrect` and `ExitCorrect`: `SignalsReachTheChild` and `ExitIsTold`,
  from `ProcessInv`: the pid is the child's until it is reaped, by us or by
  someone else, and if it is not the child's where a signal is about to be sent,
  the child was taken after we asked.
- `NotesCorrect`: `NotesAreCurrent`, from `NotesInv`: a shape is kept at most
  once, with the read that last asked for it.

A proof attempt showed that the guards of a CASE in `Verdict` of `Waits`
overlapped: the end of the stream and a closed exit may come together, and the
model left the choice open where `wait_until` decides in an order. It is an
IF ... ELSE now.

`Lifecycle_proofs.tla`, likewise:

- `NeverRevoked`: `NobodyIsRevoked`. That nobody is revoked is not inductive:
  `Inv` adds that the mark of each thread says who has the lock and that
  whoever is between its open or its close and the end of that section has it;
  that a device is free or of one terminal; and that a device that has yet to
  be revoked is nobody's, its closer inside the lock at a place it cannot leave
  before the revoke. The steps are of five kinds (elsewhere, entering the lock,
  leaving it, closing, revoking), a lemma for each, and opening, where the
  invariant is used: with the lock had and nobody closing, nothing is left to
  revoke. It holds for any number of terminals, devices, attempts and writes, and
  whatever `unblock_teardown` is refused.

`Utf8_proofs.tla`, about the sanitizer as a function, for any bytes:

- `CutsAreInvisible`: after any first part of a stream, what comes next and what
  was held back give, in all, what one read of everything gives, and the same is
  held back. By induction this is so for any number of cuts. A verdict that does
  not wait for more bytes is not changed by them (`DecodedOfMore`); the function
  that goes through a stream gives within a stream what it gives for the rest of
  it alone (`Shift`), so it can be unfolded one verdict at a time (`Unfold`).
- `CarryIsShort`: what is held back is the beginning of a character, of three
  bytes at the most (utf8.rs:22).
- `OutIsWellFormed`: what goes out is valid (utf8.rs:27): the sanitizer, fed with
  it, changes nothing and holds nothing back.

`TestSession_proofs.tla`, on top of `Input_proofs.tla`, is about the input and
about the screens and files that a test keeps:

- `InputUnderstood`: `InputIsUnderstood`, for any session: any screens and files,
  any masks and needles, any keys, chords, texts, pastes, buttons and places, any
  modes at any time, and any number of steps. The encoder (`Input`) works with
  bytes, the decoder (`EventsIn`) takes the first event off a sequence of bytes
  again and again, and what is meant (`KeyMeans`, `DragMeans`, `PasteMeans`) is
  said without either; the proof is that the three agree.
- `SessionInvariant` is the inductive invariant. `IInv`: what was meant is what
  was heard and then what will be heard of each write on the wire, one by one, and
  each write is read as what it means whatever follows it, or is one of the
  beginnings of a sequence; the modes are modes; what the test holds is a screen
  and what it has saved is a file. The last two are needed because a click is on a
  place of the screen or on what a search finds: so every search is shown to give
  places (`FoundType`), every mask, save and read to give screens and files
  (`MaskedType`, `SavedType`, `ReadType`).
- `KeyUnderstood`, `ClickUnderstood`, `ScrollUnderstood`, `DragUnderstood`,
  `FocusUnderstood` and `PasteUnderstood`: an input is refused and means nothing,
  or what is written for it is decoded as what it means. They rest on: the
  decoder, fed with a write and any bytes after it, gives the events of the write
  and goes on with the rest (`ReadsBoth`); decimal numbers read back (`NumberIsRead`);
  a character in UTF-8 reads back (`CharReads`); a button's number holds its bits
  (`ByButtonIs`); the cell that the scaled and rounded step of a drag gives is the
  nearest to the line (`AlongIs`).
- `FoldedIsBroken` and `StripIsUnmarked`: what paste makes of a text in several
  replacements, repeated until nothing changes, is one pass of a reader over it.
  Each round takes out a marker, six bytes, or there is none left; so the rounds
  are enough. And a text free of the end marker has it nowhere in its bytes, nor
  across the end marker that follows (`ClosesFirst`): the paste ends where it should.
- `JsonIsReadBack`: `JsonReadsBack`, for any screens and files a session begins
  with and any steps. That JSON reads back is not inductive: a text that is read
  and a mask make new screens. `ReadsInv` says what they all have: a size within
  the limit, the cursor on the screen, cells that the reader takes (`CellReads`:
  no control character, wide only what may be), and a first half before every
  second one (`RowReads`). It is kept by a capture and by the checks of the JSON
  reader itself; by the text reader, which puts a second half only behind a first
  and never past the last column (`PlaceCharReads`, `JoinMarkReads`,
  `ReadRowReads`) and clamps the cursor (`CursorReads`); by the styles, which
  change no text (`StylesRead`); and by a mask, because one that takes a first
  half goes on to the second (`HalvesTogether`, `MaskReads`). Then
  `FromJson(ToJson(s)) = {s}` follows field by field (`JsonIsRead`).

These are inductions over lengths, each by the least counterexample; a recursive
function is unfolded by what `FollowingIs` (forwards) or `DescentExists`
(backwards) says of it. Four things the proofs asked of the model: what a typed
text means if it holds escape sequences (`unclear`), that a character of a screen
is a character and not any value (`WordsAssumption`, `CharactersAssumption`), functions of one
argument in `MultirowMatches`, and how far a mask goes along wide cells that stand
side by side without their second halves: the model had it stop at the first,
where `apply_mask` goes on, and the rows it left were ones the reader refuses.

The assumptions are the named ASSUMEs of `Recording`, `Frames`, `WriteQueue`,
`Lifecycle`, `Waits`, `Unanswered`, `Utf8`, `Characters` and `TestSession`: sizes
have cells, capacities and the caps of polls are positive, bounds and periods are numbers, a batch has bytes
if it has answers, nobody is not a thread, a lead byte needs one to three
continuation bytes and is not itself one, U+FFFD is a character; a session holds
screens and files of numbers of two bytes, inputs of the types that the API
takes, keys that have an encoding, and modes that an application can set; its
screens are ones the emulator can make (`IsCaptured`), a file names a cursor, and
the character a mask fills with is no control character. TLC evaluates them.

Only model-checked: the properties of `Stream`, which drives the emulator by a
recursive operator, from which tlapm cannot reach a prover; `SearchesAgree`,
`MasksCoverTheMatches` and `SavedScreensReadBack`, which compare functions of
whole screens over all screens and needles of the instance (proved of them is
that their results are screens, files and places); and all liveness, which is
beyond the prover.

## 12. Not modelled

- The command line tool: one spawn, one wait and one rendering, one after the
  other, with no state between them.
- Searches by regular expression (the engine is a library), the markup of the
  SVG and HTML renderings, the texts of errors and the wording of replies.
- The out-of-band state in a screen's JSON (title, modes, history, counters).
- The decoding of pixels in `graphics.rs`: a pure function of one payload. What
  is kept, counted and forgotten of payloads is modelled.
- The child's set-up between fork and exec (`spawn.rs`).
- The fallback of the write queue without a writer thread: replies written
  inline are in `Lifecycle`, where they can block a teardown; typed input is one
  synchronous write with no deadline.
- The greatest instant of a clock (`deadline_after`, wait.rs:35): the clock of
  `Waits` has none.
- The Windows branches but for `ExitWatch`, which is in `Waits`: the models are
  of the Unix build.
