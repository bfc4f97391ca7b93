-------------------------------- MODULE Waits --------------------------------
(***************************************************************************)
(* What the test thread waits for and what it learns: wait_until,          *)
(* wait_idle, wait_stable and snapshot_after on the screen; wait_exit,     *)
(* signal and Drop's stop_child on the child; against the reader thread    *)
(* that feeds the screen, and whoever else in the process reaps children.  *)
(*                                                                         *)
(* A look of a wait, under the state lock, is one step, and so is a poll   *)
(* of the child.  In between the thread sleeps, until it is notified or    *)
(* for the time the code works out.  Time passes whenever it likes, also   *)
(* while the thread could go on: hist.late remembers that it did.          *)
(***************************************************************************)
EXTENDS Integers, Sequences, FiniteSets, Unanswered

CONSTANTS
    Pictures,      (* what the grid can look like *)
    Wanted,        (* the pictures the predicate of wait_until holds of *)
    QueryShapes,   (* the shapes of queries that are left unanswered *)
    Scenarios,     (* bound: the test's calls, and what else happens *)
    Quiet,         (* the silence or stillness waited for *)
    Timeout,       (* of every wait, from its call *)
    PollCap,       (* POLL_CAP *)
    BackoffCap,    (* the longest step of next_backoff *)
    DrainGrace,    (* DRAIN_GRACE *)
    HangupGrace,   (* HANGUP_GRACE *)
    ReapGrace      (* DROP_REAP_GRACE *)

Open == {"sequence", "character", "update"}

Calls == {"until", "quiet", "stable", "snapshot", "exit", "signal", "drop"}

ASSUME WaitsAssumption ==
    /\ Wanted \subseteq Pictures /\ Pictures # {}
    /\ \A s \in Scenarios : /\ \A i \in DOMAIN s.calls : s.calls[i] \in Calls
                            /\ {s.reads, s.time} \subseteq Nat
                            /\ s.openings \subseteq SUBSET Open
                            /\ {s.asks, s.others, s.kernelReaps, s.exitCloses} \subseteq BOOLEAN
    /\ {Quiet, Timeout, DrainGrace, HangupGrace, ReapGrace} \subseteq Nat
    /\ {PollCap, BackoffCap} \subseteq Nat \ {0}

(* A scenario: the test's calls; how many reads there are, what they may leave
   open and whether they ask queries; how far the clock goes; whether another
   thread, or the kernel, reaps children; and whether the exit of the child is
   what closes the terminal (EXIT_CLOSES_THE_TERMINAL). *)

VARIABLES
    now, scenario,
    emu,           (* EmuState: picture, open, lastActivity, generation, reads,
                      eof, panicked, notes *)
    child,         (* running, zombie, reaped by us, or taken by someone else *)
    pid,           (* whose its pid is: the child's, nobody's, a stranger's *)
    term,          (* the Terminal's exit_status (status), reaped_elsewhere
                      (elsewhere) and ExitWatch (reapedAt) *)
    test,          (* where the test thread is *)
    calls,         (* the calls it has still to make *)
    wait,          (* the locals of its call: deadline, seen, last, since,
                      fresh, backoff, how long it polls (until) and
                      sleeps (wake) *)
    notified,      (* the condvar was notified while it slept *)
    hist           (* history, see Init *)

vars == <<now, scenario, emu, child, pid, term, test, calls, wait, notified, hist>>

Never == -1

NoCall == [call |-> "none", kind |-> "none", decided |-> "none", screen |-> "none", at |-> 0]

Init ==
    /\ now = 0 /\ scenario \in Scenarios /\ calls = scenario.calls
    /\ emu \in [picture : Pictures, open : {{}}, lastActivity : {0}, generation : {0},
                reads : {0}, eof : {FALSE}, panicked : {FALSE}, notes : {NothingUnanswered}]
    /\ child = "running" /\ pid = "child"
    /\ term = [status |-> FALSE, elsewhere |-> FALSE, reapedAt |-> Never]
    /\ test = "free" /\ notified = FALSE
    /\ wait = [deadline |-> 0, seen |-> Never, last |-> "none", since |-> 0, fresh |-> FALSE,
               backoff |-> 1, wake |-> 0, until |-> 0]
    /\ hist = [lastRead |-> 0,                               (* when bytes came last *)
               shown |-> [p \in Pictures |-> IF p = emu.picture THEN {0} ELSE {}],
               lastAsked |-> [s \in QueryShapes |-> 0],      (* and in which read each shape *)
               reapedAt |-> Never,                           (* when we reaped the child *)
               looked |-> [p \in Pictures |-> Never],        (* when this call saw each picture *)
               late |-> FALSE,                               (* it was kept from going on *)
               takenAfterAsking |-> FALSE,                   (* since it was last asked *)
               hurt |-> FALSE,                               (* a signal hit a stranger, see Kill *)
               ended |-> NoCall]                             (* what the last call came to *)

-----------------------------------------------------------------------------
(***************************************************************************)
(* The reader thread, whose critical sections notify.                      *)
(***************************************************************************)

(* EmuState::touch. *)
Touch(state) == [state EXCEPT !.lastActivity = now, !.generation = @ + 1]

(* A read: it paints, it leaves something open or not, and it may ask. *)
ReadChunk(p, o, asked) ==
    /\ ~emu.eof /\ ~emu.panicked /\ emu.reads < scenario.reads
    /\ emu' = Touch([emu EXCEPT
                  !.picture = p, !.open = o, !.reads = @ + 1,
                  !.notes = IF asked \in QueryShapes
                            THEN NoteUnanswered(@, asked, emu.reads + 1) ELSE @])
    /\ hist' = [hist EXCEPT
                  !.lastRead = now, !.shown[p] = @ \union {now},
                  !.lastAsked = [s \in QueryShapes |-> IF s = asked THEN emu.reads + 1 ELSE @[s]]]
    /\ notified' = TRUE
    /\ UNCHANGED <<now, scenario, child, pid, term, test, calls, wait>>

(* The emulator panics in a read: the screen is frozen. *)
Panic ==
    /\ ~emu.eof /\ ~emu.panicked /\ emu.reads < scenario.reads
    /\ emu' = Touch([emu EXCEPT !.panicked = TRUE, !.reads = @ + 1])
    /\ hist' = [hist EXCEPT !.lastRead = now]
    /\ notified' = TRUE
    /\ UNCHANGED <<now, scenario, child, pid, term, test, calls, wait>>

(* Nobody holds the slave any more. Where the exit closes the terminal there
   is no EOF as long as the terminal is there. *)
SetEof ==
    /\ ~emu.eof /\ ~scenario.exitCloses /\ child # "running"
    /\ emu' = Touch([emu EXCEPT !.eof = TRUE])
    /\ notified' = TRUE
    /\ UNCHANGED <<now, scenario, child, pid, term, test, calls, wait, hist>>

-----------------------------------------------------------------------------
(***************************************************************************)
(* The child and the rest of the process (outside the library).            *)
(***************************************************************************)

(* It is taken, and its pid is free. *)
Taken ==
    /\ child' = "taken" /\ pid' = "nobody"
    /\ hist' = [hist EXCEPT !.takenAfterAsking = TRUE]

(* Where SIGCHLD is ignored the kernel reaps it. *)
ChildExits ==
    /\ child = "running"
    /\ IF scenario.kernelReaps THEN Taken ELSE child' = "zombie" /\ UNCHANGED <<pid, hist>>
    /\ UNCHANGED <<now, scenario, emu, term, test, calls, wait, notified>>

SomeoneReaps ==
    /\ child = "zombie" /\ scenario.others
    /\ Taken
    /\ UNCHANGED <<now, scenario, emu, term, test, calls, wait, notified>>

PidIsReused ==
    /\ pid = "nobody" /\ pid' = "stranger"
    /\ UNCHANGED <<now, scenario, emu, child, term, test, calls, wait, notified, hist>>

-----------------------------------------------------------------------------
(***************************************************************************)
(* Sleeping, and the ends of calls.                                        *)
(***************************************************************************)

OnCondvar == {"until", "quiet", "stable", "drain", "lost"}
Sleeping == OnCondvar \union {"exit", "hup", "kill"}

(* The thread can go on: it is not asleep, or what it sleeps for is there. *)
Ready == \/ test \notin Sleeping \/ now >= wait.wake
         \/ notified /\ test \in OnCondvar

Tick ==
    /\ now < scenario.time /\ now' = now + 1
    /\ hist' = [hist EXCEPT !.late = @ \/ (test # "free" /\ Ready),
                            !.shown[emu.picture] = @ \union {now + 1}]
    /\ UNCHANGED <<scenario, emu, child, pid, term, test, calls, wait, notified>>

Lesser(a, b) == IF a < b THEN a ELSE b
Greater(a, b) == IF a < b THEN b ELSE a

(* What a call comes to: what the look or poll that decided it saw, when that
   was, and the screen that is handed out. *)
Outcome(call, kind, decided) ==
    [call |-> call, kind |-> kind, decided |-> decided, screen |-> emu.picture, at |-> now]

-----------------------------------------------------------------------------
(***************************************************************************)
(* The child, as this thread reaps it.                                     *)
(***************************************************************************)

(* Slip: a child that is gone counts as one that runs. *)
TryWaitBlind ==
    CASE child = "zombie" -> "exited" [] OTHER -> "running"

(* try_wait: the status of a zombie, or ECHILD for one that was taken. *)
TryWait ==
    CASE child = "zombie" -> "exited"
      [] child = "running" -> "running"
      [] OTHER -> "ECHILD"

(* The child is reaped, and its pid is free, if try_wait says it exited. *)
Reaping(reaps) ==
    /\ child' = IF reaps THEN "reaped" ELSE child
    /\ pid' = IF reaps THEN "nobody" ELSE pid

(* The first time anything of this terminal saw the child reaped. *)
ReapedAt == IF term.reapedAt = Never THEN now ELSE term.reapedAt

(* ExitWatch::tick, ahead of every look: where the exit closes the terminal,
   the child is reaped and, the grace after that, the stream is over. *)
WatchExit ==
    LET watches == scenario.exitCloses /\ ~emu.eof
        reaps == watches /\ ~term.status /\ TryWait = "exited"
        sees == watches /\ (term.status \/ reaps)
        closes == sees /\ now - ReapedAt >= DrainGrace IN
    [reaps |-> reaps,
     term |-> [term EXCEPT !.status = @ \/ reaps, !.reapedAt = IF sees THEN ReapedAt ELSE @],
     emu |-> [emu EXCEPT !.eof = @ \/ closes, !.generation = IF closes THEN @ + 1 ELSE @]]

-----------------------------------------------------------------------------
(***************************************************************************)
(* The calls of the screen waits.                                          *)
(***************************************************************************)

Call(call) == test = "free" /\ calls # <<>> /\ Head(calls) = call /\ calls' = Tail(calls)

(* The call being made. *)
Current == scenario.calls[Len(scenario.calls) - Len(calls)]

(* A wait begins: its deadline, and nothing seen yet. *)
StartWait(to) ==
    /\ test' = to /\ notified' = FALSE
    /\ wait' = [wait EXCEPT !.deadline = now + Timeout, !.seen = Never, !.fresh = TRUE,
                            !.backoff = 1, !.wake = now]
    /\ hist' = [hist EXCEPT !.late = FALSE, !.looked = [p \in Pictures |-> Never]]
    /\ UNCHANGED <<now, scenario, emu, child, pid, term>>

WaitUntil == Call("until") /\ StartWait("until")
WaitIdle == Call("quiet") /\ StartWait("quiet")
WaitStable == Call("stable") /\ StartWait("stable")

(* snapshot_after is wait_until, then wait_stable with a deadline of its own. *)
SnapshotAfter == Call("snapshot") /\ StartWait("until")
Settle == test = "settle" /\ StartWait("stable") /\ UNCHANGED calls

(* What a look does besides: the exit watch, and its own locals. *)
Look(w, at, outcome, locals) ==
    /\ emu' = w.emu /\ term' = w.term /\ Reaping(w.reaps)
    /\ test' = at /\ wait' = [locals EXCEPT !.fresh = FALSE]
    /\ notified' = FALSE
    /\ hist' = [hist EXCEPT !.looked[emu.picture] = now, !.ended = outcome,
                            !.reapedAt = IF w.reaps THEN now ELSE @]
    /\ UNCHANGED <<now, scenario, calls>>

-----------------------------------------------------------------------------
(***************************************************************************)
(* wait_until.                                                             *)
(***************************************************************************)

(* Slip: EOF is reported before the last picture is looked at. *)
VerdictEofFirst(state) ==
    IF wait.seen = state.generation THEN "none"
    ELSE IF state.panicked THEN "emulator"
    ELSE IF state.eof THEN "eof"
    ELSE IF state.picture \in Wanted THEN "ok" ELSE "none"

(* Nothing changed since the last look; or the emulator failed; or the
   predicate holds; or it never will. *)
Verdict(state) ==
    IF wait.seen = state.generation THEN "none"
    ELSE IF state.panicked THEN "emulator"
    ELSE IF state.picture \in Wanted THEN "ok"
    ELSE IF state.eof THEN "eof" ELSE "none"

(* Slip: the cap on a sleep is all there is. *)
MonitorSleepCap == PollCap

(* Monitor::wait_until sleeps for the rest of the time, up to POLL_CAP. *)
MonitorSleep == Lesser(wait.deadline - now, PollCap)

UntilLook ==
    /\ test = "until" /\ Ready
    /\ LET w == WatchExit
           verdict == Verdict(w.emu)
           goesOn == verdict = "none" /\ now < wait.deadline IN
       Look(w,
            CASE goesOn -> "until"
              [] verdict = "none" /\ ~goesOn -> "expired"
              [] verdict = "ok" /\ Current = "snapshot" -> "settle"
              [] OTHER -> "free",
            Outcome("until", IF verdict = "none" THEN "timeout" ELSE verdict, emu.picture),
            [wait EXCEPT !.seen = w.emu.generation,
                         !.wake = IF goesOn THEN now + MonitorSleep ELSE @])

(* The deadline has passed: the screen and the note of the error are taken,
   with the lock released since. *)
UntilExpired ==
    /\ test = "expired" /\ test' = "free"
    /\ hist' = [hist EXCEPT !.ended.screen = emu.picture]
    /\ UNCHANGED <<now, scenario, emu, child, pid, term, calls, wait, notified>>

-----------------------------------------------------------------------------
(***************************************************************************)
(* wait_idle and wait_stable.                                              *)
(***************************************************************************)

(* The stream does not end inside a sequence, a character or an update. *)
Complete(state) == state.open = {}

(* Until the quiet period could be over, or the deadline. *)
QuietSleep(elapsed) ==
    Greater(1, Lesser(IF elapsed < Quiet THEN Quiet - elapsed ELSE PollCap, wait.deadline - now))

(* The look of a wait for which the clock has run since `start`. *)
QuietLook(call, w, start, locals) ==
    LET verdict == CASE w.emu.panicked -> "emulator"
                     [] ~w.emu.panicked /\ w.emu.eof -> "eof"
                     [] ~w.emu.panicked /\ ~w.emu.eof
                          /\ now - start >= Quiet /\ Complete(w.emu) -> "ok"
                     [] OTHER -> IF now >= wait.deadline THEN "timeout" ELSE "none" IN
    Look(w, IF verdict = "none" THEN call ELSE "free", Outcome(call, verdict, emu.picture),
         [locals EXCEPT !.wake = IF verdict = "none" THEN now + QuietSleep(now - start) ELSE @])

(* Bytes reset the clock of wait_idle. *)
IdleLook ==
    /\ test = "quiet" /\ Ready
    /\ QuietLook("quiet", WatchExit, emu.lastActivity, wait)

(* Slip: the clock of a picture starts where it was looked at, if it is the
   first one, and is not reset by another one. *)
ObserveOnce(state) ==
    IF wait.fresh
    THEN [wait EXCEPT !.last = emu.picture, !.since = emu.lastActivity, !.seen = emu.generation]
    ELSE [wait EXCEPT !.last = state.picture, !.seen = state.generation]

(* The picture, and since when it has looked so: the first time since the
   last byte came, and so again when another picture than the last one is
   there. The picture is compared only if something happened. *)
Observe(state) ==
    IF wait.fresh
    THEN [wait EXCEPT !.last = emu.picture, !.since = emu.lastActivity, !.seen = emu.generation]
    ELSE IF state.generation = wait.seen THEN wait
    ELSE [wait EXCEPT !.seen = state.generation, !.last = state.picture,
                      !.since = IF state.picture = wait.last THEN @ ELSE state.lastActivity]

StableLook ==
    /\ test = "stable" /\ Ready
    /\ LET w == WatchExit
           locals == Observe(w.emu) IN
       QuietLook("stable", w, locals.since, locals)

-----------------------------------------------------------------------------
(***************************************************************************)
(* wait_exit.                                                              *)
(***************************************************************************)

(* The status, once known, is the answer. *)
WaitExitAgain ==
    /\ Call("exit") /\ term.status
    /\ hist' = [hist EXCEPT !.ended = Outcome("exit", "exited", "status")]
    /\ UNCHANGED <<now, scenario, emu, child, pid, term, test, wait, notified>>

WaitExit == ~term.status /\ Call("exit") /\ StartWait("exit")

NextBackoff(step) == Lesser(2 * step, BackoffCap)

(* A poll: the child is reaped, or someone else has, and what is left of its
   output gets a grace; or the deadline has passed; or it runs. *)
ExitPoll ==
    /\ test = "exit" /\ Ready
    /\ LET polled == TryWait
           reaps == polled = "exited" IN
       /\ Reaping(reaps)
       /\ term' = [term EXCEPT !.status = reaps, !.elsewhere = @ \/ polled = "ECHILD",
                               !.reapedAt = IF reaps THEN ReapedAt ELSE @]
       /\ test' = CASE polled = "exited" -> "drain"
                    [] polled = "ECHILD" -> "lost"
                    [] OTHER -> IF now >= wait.deadline THEN "exitExpired" ELSE "exit"
       /\ wait' = IF polled = "running" /\ now < wait.deadline
                  THEN [wait EXCEPT !.wake = now + Lesser(wait.backoff, wait.deadline - now),
                                    !.backoff = NextBackoff(@)]
                  ELSE [wait EXCEPT !.deadline = now + DrainGrace, !.wake = now]
       /\ hist' = [hist EXCEPT !.ended = Outcome("exit", "timeout", child),
                               !.reapedAt = IF reaps THEN now ELSE @]
       /\ notified' = FALSE
    /\ UNCHANGED <<now, scenario, emu, calls>>

ExitExpired ==
    /\ test = "exitExpired" /\ test' = "free"
    /\ hist' = [hist EXCEPT !.ended.screen = emu.picture]
    /\ UNCHANGED <<now, scenario, emu, child, pid, term, calls, wait, notified>>

(* The final screen is waited for, with an end: EOF, or the grace. Where the
   exit closes the terminal, the end of the grace is EOF. *)
DrainLook ==
    /\ test \in {"drain", "lost"} /\ Ready
    /\ IF ~emu.eof /\ now < wait.deadline
       THEN /\ wait' = [wait EXCEPT !.wake = now + MonitorSleep]
            /\ UNCHANGED <<emu, test, hist>>
       ELSE /\ emu' = [emu EXCEPT !.eof = @ \/ (test = "drain" /\ scenario.exitCloses)]
            /\ test' = "free"
            /\ hist' = [hist EXCEPT !.ended =
                          Outcome("exit", IF test = "drain" THEN "exited" ELSE "lost", child)]
            /\ UNCHANGED wait
    /\ notified' = FALSE
    /\ UNCHANGED <<now, scenario, child, pid, term, calls>>

-----------------------------------------------------------------------------
(***************************************************************************)
(* signal, and the stop_child of Drop.                                     *)
(***************************************************************************)

(* gone_unwaited: asked with WNOWAIT, which takes no status. *)
Gone == term.elsewhere \/ child = "taken"

(* The question whether there is still a child to signal... *)
Signal ==
    /\ Call("signal")
    /\ term' = IF term.status THEN term ELSE [term EXCEPT !.elsewhere = Gone]
    /\ hist' = IF term.status \/ Gone
               THEN [hist EXCEPT !.ended = Outcome("signal", "refused", child)]
               ELSE [hist EXCEPT !.takenAfterAsking = FALSE]
    /\ test' = IF term.status \/ Gone THEN "free" ELSE "killOnce"
    /\ UNCHANGED <<now, scenario, emu, child, pid, wait, notified>>

(* ...and kill(2), on whoever has the pid by now. *)
Kill(outcome) ==
    hist' = [hist EXCEPT !.hurt = @ \/ (pid = "stranger" /\ ~hist.takenAfterAsking),
                         !.ended = outcome]

SendSignal ==
    /\ test = "killOnce" /\ test' = "free"
    /\ Kill(Outcome("signal", IF pid = "nobody" THEN "failed" ELSE "sent", child))
    /\ UNCHANGED <<now, scenario, emu, child, pid, term, calls, wait, notified>>

(* reaped_now, which is the question here, and may reap. *)
ReapedNow == TryWait # "running"

AfterAsking == [hist EXCEPT !.takenAfterAsking = FALSE,
                            !.reapedAt = IF TryWait = "exited" THEN now ELSE @]

(* Slip: a child that was reaped elsewhere is stopped as well. *)
HasChildToStopBlind == ~term.status /\ child # "zombie"

(* The child is there, as far as anybody knows. *)
HasChildToStop == ~term.status /\ ~term.elsewhere /\ ~ReapedNow

Drop ==
    /\ Call("drop")
    /\ Reaping(~term.status /\ ~term.elsewhere /\ TryWait = "exited")
    /\ test' = IF HasChildToStop THEN "hangUp" ELSE "gone"
    /\ hist' = [(IF term.status \/ term.elsewhere THEN hist ELSE AfterAsking) EXCEPT !.late = FALSE]
    /\ wait' = [wait EXCEPT !.deadline = now + ReapGrace]
    /\ UNCHANGED <<now, scenario, emu, term, notified>>

(* stop_child hangs the child up, and polls until the grace is over... *)
HangUp ==
    /\ test = "hangUp" /\ test' = "hup"
    /\ Kill(hist.ended)
    /\ wait' = [wait EXCEPT !.wake = now, !.backoff = 1,
                            !.until = Lesser(now + HangupGrace, wait.deadline)]
    /\ UNCHANGED <<now, scenario, emu, child, pid, term, calls, notified>>

(* ...and then kills it, and polls until the deadline. *)
KillIt ==
    /\ test = "killIt" /\ test' = "kill"
    /\ Kill(hist.ended)
    /\ wait' = [wait EXCEPT !.wake = now, !.backoff = 1, !.until = wait.deadline]
    /\ UNCHANGED <<now, scenario, emu, child, pid, term, calls, notified>>

(* reaped_by. *)
ReapedBy ==
    /\ test \in {"hup", "kill"} /\ Ready
    /\ Reaping(TryWait = "exited")
    /\ hist' = AfterAsking
    /\ test' = CASE ReapedNow -> "gone"
                 [] ~ReapedNow /\ now >= wait.until -> IF test = "hup" THEN "killIt" ELSE "gone"
                 [] OTHER -> test
    /\ wait' = [wait EXCEPT !.wake = now + Lesser(wait.backoff, Greater(0, wait.until - now)),
                            !.backoff = NextBackoff(@)]
    /\ UNCHANGED <<now, scenario, emu, term, calls, notified>>

-----------------------------------------------------------------------------
Environment ==
    \/ \E p \in Pictures, o \in scenario.openings,
       asked \in {"nothing"} \union IF scenario.asks THEN QueryShapes ELSE {} :
          ReadChunk(p, o, asked)
    \/ Panic \/ SetEof \/ ChildExits \/ SomeoneReaps \/ PidIsReused \/ Tick

TestStep ==
    \/ WaitUntil \/ WaitIdle \/ WaitStable \/ SnapshotAfter \/ Settle
    \/ UntilLook \/ UntilExpired \/ IdleLook \/ StableLook
    \/ WaitExit \/ WaitExitAgain \/ ExitPoll \/ ExitExpired \/ DrainLook
    \/ Signal \/ SendSignal \/ Drop \/ HangUp \/ KillIt \/ ReapedBy

Next == Environment \/ TestStep

Spec == Init /\ [][Next]_vars

-----------------------------------------------------------------------------
(***************************************************************************)
(* Properties.                                                             *)
(***************************************************************************)

(* A thread that is never kept from going on is done with every wait, and
   with every poll of a teardown, by its deadline: sleeps are cut short by it,
   whatever notifications come or do not come (wait.rs, the wait_* loops,
   reaped_by). *)
NobodyOversleeps ==
    ~hist.late /\ test \in Sleeping => now <= wait.deadline

(* wait_until is never wrong about the picture it decided on, the latest one:
   it succeeds if the predicate holds of it, and fails only if it does not,
   at EOF as at the deadline, although looks that find the generation of the
   last one are skipped. Where the exit closes the terminal it does not time
   out once the child has been reaped for the grace, by whatever call
   (wait_until_deadline, ExitWatch). *)
UntilIsRight ==
    test \in {"free", "expired"} /\ hist.ended.call = "until" =>
        /\ hist.ended.kind = "ok" => hist.ended.decided \in Wanted
        /\ hist.ended.kind \in {"eof", "timeout"} => hist.ended.decided \notin Wanted
        /\ hist.ended.kind = "timeout" /\ scenario.exitCloses =>
              hist.reapedAt = Never \/ hist.ended.at - hist.reapedAt < DrainGrace

(* What wait_idle and wait_stable return has held still and is whole: nothing
   is left open by the stream; for wait_idle no byte came in the quiet period;
   for wait_stable the picture was there that long ago, and no look since saw
   another (wait_idle_deadline, wait_stable_deadline). *)
StillHeld ==
    [][test' = "free" /\ test \in {"quiet", "stable"} /\ hist'.ended.kind = "ok" =>
          /\ emu.open = {}
          /\ test = "quiet" => now - hist.lastRead >= Quiet
          /\ test = "stable" =>
                \E time \in hist.shown[emu.picture] :
                    /\ now - time >= Quiet
                    /\ \A p \in Pictures \ {emu.picture} : hist.looked[p] <= time]_vars

(* A signal of ours reaches a process that is not our child only if the child
   was taken by someone else after we had asked whether it was: signal and
   stop_child ask before each kill(2) (#630). *)
SignalsReachTheChild == ~hist.hurt

(* wait_exit tells what became of the child: a status only if we reaped it,
   lost only if someone else did, a timeout only if it ran at the last poll. *)
ExitIsTold ==
    test = "free" /\ hist.ended.call = "exit" =>
        CASE hist.ended.kind = "exited" -> child = "reaped"
          [] hist.ended.kind = "lost" -> child = "taken"
          [] hist.ended.kind = "timeout" -> hist.ended.decided = "running"

(* What a note tells of unanswered queries: each shape is kept once, with the
   read it was last asked in, and none is forgotten but for the bound; the
   note calls a query the cause only if nothing was read since it was asked,
   and says the application moved past them only if it moved past each
   (note_unanswered, query_note). *)
NotesAreCurrent ==
    LET kept == emu.notes.kept
        note == QueryNote(emu.notes, emu.reads) IN
    /\ Len(kept) <= MaxUnanswered
    /\ \A i, j \in DOMAIN kept : kept[i].shape = kept[j].shape => i = j
    /\ \A s \in QueryShapes :
          hist.lastAsked[s] > 0 => Asked(emu.notes, s) \/ emu.notes.overflow > 0
    /\ note.kind = "cause" => \A s \in note.shapes : hist.lastAsked[s] = emu.reads
    /\ note.kind = "movedPast" => \A s \in note.shapes : hist.lastAsked[s] < emu.reads
=============================================================================
