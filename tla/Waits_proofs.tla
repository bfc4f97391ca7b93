----------------------------- MODULE Waits_proofs -----------------------------
(***************************************************************************)
(* No wait oversleeps its deadline, is wrong about the picture it decided  *)
(* on or returns one that did not hold still; no signal hits a stranger    *)
(* who has had the pid since before we asked; and what is told of the      *)
(* child and of unanswered queries is so: for any pictures, times, bounds  *)
(* and sequences of calls.                                                 *)
(***************************************************************************)
EXTENDS Waits, SequenceTheorems, TLAPS

-----------------------------------------------------------------------------
(***************************************************************************)
(* Types.                                                                  *)
(***************************************************************************)

Places == {"until", "quiet", "stable", "drain", "lost", "exit", "hup", "kill", "free", "settle",
           "expired", "exitExpired", "killOnce", "hangUp", "killIt", "gone"}

Children == {"running", "zombie", "reaped", "taken"}

Kinds == {"none", "ok", "eof", "emulator", "timeout", "exited", "lost", "refused", "failed", "sent"}

Notes == [kept : Seq([shape : QueryShapes, read : Nat]), overflow : Nat]

Emus == [picture : Pictures, open : SUBSET Open, lastActivity : Nat, generation : Nat,
         reads : Nat, eof : BOOLEAN, panicked : BOOLEAN, notes : Notes]

Terms == [status : BOOLEAN, elsewhere : BOOLEAN, reapedAt : Nat \union {Never}]

Locals == [deadline : Nat, seen : Nat \union {Never}, last : Pictures \union {"none"},
           since : Nat, fresh : BOOLEAN, backoff : Nat, wake : Nat, until : Nat]

Outcomes == [call : Calls \union {"none"}, kind : Kinds,
             decided : Pictures \union Children \union {"none", "status"},
             screen : Pictures \union {"none"}, at : Nat]

Histories == [lastRead : Nat, shown : [Pictures -> SUBSET Nat], lastAsked : [QueryShapes -> Nat],
              reapedAt : Nat \union {Never}, looked : [Pictures -> Nat \union {Never}],
              late : BOOLEAN, takenAfterAsking : BOOLEAN, hurt : BOOLEAN, ended : Outcomes]

Types ==
    /\ now \in Nat /\ scenario \in Scenarios
    /\ emu \in Emus
    /\ child \in Children /\ pid \in {"child", "nobody", "stranger"}
    /\ term \in Terms
    /\ test \in Places
    /\ wait \in Locals
    /\ hist \in Histories

(* What note_unanswered makes of notes are notes. *)
LEMMA NoteTypes ==
    ASSUME NEW notes \in Notes, NEW shape \in QueryShapes, NEW read \in Nat
    PROVE  NoteUnanswered(notes, shape, read) \in Notes
<1> DEFINE Entry == [shape : QueryShapes, read : Nat]
           Kept == [i \in DOMAIN notes.kept |-> IF notes.kept[i].shape = shape
                                               THEN [notes.kept[i] EXCEPT !.read = read] ELSE notes.kept[i]]
<1>1. notes.kept \in Seq(Entry) /\ notes.overflow \in Nat
    BY DEF Notes
<1>2. Kept \in Seq(Entry)
  <2>1. Len(notes.kept) \in Nat /\ DOMAIN notes.kept = 1..Len(notes.kept)
      BY <1>1, LenProperties
  <2>2. ASSUME NEW entry \in Entry
        PROVE  [entry EXCEPT !.read = read] \in Entry
      OBVIOUS
  <2>3. ASSUME NEW i \in 1..Len(notes.kept)
        PROVE  Kept[i] \in Entry
    <3>1. notes.kept[i] \in Entry
        BY <1>1, ElementOfSeq
    <3>2. Kept[i] \in {notes.kept[i], [notes.kept[i] EXCEPT !.read = read]}
        BY <2>1
    <3> QED
        BY <3>1, <3>2, <2>2
  <2>4. Kept \in [1..Len(notes.kept) -> Entry]
    <3>1. Kept = [i \in 1..Len(notes.kept) |-> Kept[i]]
        BY <2>1
    <3> HIDE DEF Kept
    <3> QED
        BY <3>1, <2>3
  <2> HIDE DEF Kept, Entry
  <2> QED
      BY <2>1, <2>4
<1>3. Append(notes.kept, [shape |-> shape, read |-> read]) \in Seq(Entry)
    BY <1>1
<1>4. ASSUME NEW kept \in Seq(Entry)
      PROVE  [notes EXCEPT !.kept = kept] \in Notes
    BY DEF Notes
<1>5. [notes EXCEPT !.overflow = notes.overflow + 1] \in Notes
    BY <1>1 DEF Notes
<1>6. \/ NoteUnanswered(notes, shape, read) = [notes EXCEPT !.kept = Kept]
      \/ NoteUnanswered(notes, shape, read) =
           [notes EXCEPT !.kept = Append(notes.kept, [shape |-> shape, read |-> read])]
      \/ NoteUnanswered(notes, shape, read) = [notes EXCEPT !.overflow = notes.overflow + 1]
    BY Zenon DEF NoteUnanswered
<1> QED
    BY <1>2, <1>3, <1>4, <1>5, <1>6

(* A screen that is touched, with what else has changed. *)
LEMMA EmuUpdates ==
    ASSUME NEW e \in Emus, NEW p \in Pictures, NEW o \in SUBSET Open, NEW t \in Nat, NEW g \in Nat,
           NEW r \in Nat, NEW notes \in Notes
    PROVE  /\ [e EXCEPT !.picture = p, !.open = o, !.reads = r, !.notes = notes,
                        !.lastActivity = t, !.generation = g] \in Emus
           /\ [e EXCEPT !.panicked = TRUE, !.reads = r, !.lastActivity = t, !.generation = g] \in Emus
           /\ [e EXCEPT !.eof = TRUE, !.lastActivity = t, !.generation = g] \in Emus
BY DEF Emus

(* An emulator that is told of the end is an emulator. *)
LEMMA EmuEnds ==
    ASSUME NEW e \in Emus, NEW over \in BOOLEAN, NEW g \in Nat
    PROVE  /\ [e EXCEPT !.eof = over, !.generation = g] \in Emus
           /\ [e EXCEPT !.eof = over] \in Emus
BY DEF Emus

(* The exit watch changes nothing of the screen but that it is over. *)
LEMMA WatchTypes ==
    ASSUME Types
    PROVE  WatchExit.emu \in Emus /\ WatchExit.term \in Terms /\ WatchExit.reaps \in BOOLEAN
<1>1. term.reapedAt \in Nat \union {Never} /\ now \in Nat /\ ReapedAt \in Nat \union {Never}
    BY DEF Types, Terms, ReapedAt
<1>2. WatchExit.reaps \in BOOLEAN
    BY DEF WatchExit
<1>3. WatchExit.term \in Terms
    BY <1>1 DEF WatchExit, Types, Terms, ReapedAt
<1>4. WatchExit.emu \in Emus
  <2>1. PICK closes \in BOOLEAN :
          WatchExit.emu = [emu EXCEPT !.eof = emu.eof \/ closes,
                                      !.generation = IF closes THEN emu.generation + 1 ELSE emu.generation]
      BY DEF WatchExit
  <2>2. emu \in Emus /\ emu.generation \in Nat
      BY DEF Types, Emus
  <2>3. (emu.eof \/ closes) \in BOOLEAN
      OBVIOUS
  <2>4. (IF closes THEN emu.generation + 1 ELSE emu.generation) \in Nat
      BY <2>2
  <2>5. \A over \in BOOLEAN, g \in Nat : [emu EXCEPT !.eof = over, !.generation = g] \in Emus
      BY <2>2, EmuEnds
  <2> DEFINE over == emu.eof \/ closes
             g == IF closes THEN emu.generation + 1 ELSE emu.generation
  <2>6. WatchExit.emu = [emu EXCEPT !.eof = over, !.generation = g] /\ over \in BOOLEAN /\ g \in Nat
      BY <2>1, <2>3, <2>4
  <2> HIDE DEF over, g
  <2> QED
      BY <2>5, <2>6
<1> QED
    BY <1>2, <1>3, <1>4

USE DEF Never

(* The types hold at the start. *)
LEMMA TypesInit == Init => Types
<1> SUFFICES ASSUME Init PROVE Types
    OBVIOUS
<1>1. NothingUnanswered \in Notes
  <2>1. <<>> \in Seq([shape : QueryShapes, read : Nat])
      OBVIOUS
  <2> QED
      BY <2>1 DEF NothingUnanswered, Notes
<1>2. emu \in Emus
  <2>1. {} \in SUBSET Open /\ 0 \in Nat /\ FALSE \in BOOLEAN
      OBVIOUS
  <2> QED
      BY <1>1, <2>1, Zenon DEF Init, Emus
<1>3. hist \in Histories
  <2>1. NoCall \in Outcomes
      BY DEF NoCall, Outcomes, Kinds
  <2>2. [p \in Pictures |-> IF p = emu.picture THEN {0} ELSE {}] \in [Pictures -> SUBSET Nat]
      OBVIOUS
  <2> QED
      BY <2>1, <2>2 DEF Init, Histories
<1> QED
    BY <1>2, <1>3 DEF Init, Types, Terms, Locals, Places, Children

(* What happens around the test thread keeps them. *)
LEMMA TypesEnvironment == Types /\ Environment => Types'
<1> SUFFICES ASSUME Types, Environment PROVE Types'
    OBVIOUS
<1>a. /\ emu \in Emus /\ emu.reads + 1 \in Nat /\ emu.generation + 1 \in Nat
      /\ emu.picture \in Pictures /\ emu.notes \in Notes /\ now \in Nat
    BY DEF Types, Emus
<1> USE DEF Types
<1>1. ASSUME NEW p \in Pictures, NEW o \in scenario.openings, NEW asked, ReadChunk(p, o, asked)
      PROVE  Types'
  <2>1. emu' \in Emus
    <3>1. o \in SUBSET Open
        BY WaitsAssumption
    <3> DEFINE notes == IF asked \in QueryShapes
                        THEN NoteUnanswered(emu.notes, asked, emu.reads + 1) ELSE emu.notes
    <3>2. notes \in Notes
        BY <1>a, NoteTypes
    <3>3. emu' = [emu EXCEPT !.picture = p, !.open = o, !.reads = emu.reads + 1, !.notes = notes,
                             !.lastActivity = now, !.generation = emu.generation + 1]
        BY <1>1 DEF ReadChunk, Touch, Emus
    <3> HIDE DEF notes
    <3> QED
        BY <1>a, <3>1, <3>2, <3>3, EmuUpdates, Zenon
  <2>2. hist' \in Histories
    <3>1. [s \in QueryShapes |-> IF s = asked THEN emu.reads + 1 ELSE hist.lastAsked[s]]
            \in [QueryShapes -> Nat]
        BY DEF Emus, Histories
    <3>2. [hist.shown EXCEPT ![p] = hist.shown[p] \union {now}] \in [Pictures -> SUBSET Nat]
        BY DEF Histories
    <3> QED
        BY <1>1, <3>1, <3>2 DEF ReadChunk, Histories
  <2> QED
      BY <1>1, <2>1, <2>2 DEF ReadChunk
<1>2. CASE Panic
  <2>1. emu' = [emu EXCEPT !.panicked = TRUE, !.reads = emu.reads + 1,
                           !.lastActivity = now, !.generation = emu.generation + 1]
      BY <1>2 DEF Panic, Touch, Emus
  <2>2. emu' \in Emus
      BY <1>a, <2>1, EmuUpdates, Zenon
  <2> QED
      BY <1>2, <2>2 DEF Panic, Histories
<1>3. CASE SetEof
  <2>1. emu' = [emu EXCEPT !.eof = TRUE, !.lastActivity = now, !.generation = emu.generation + 1]
      BY <1>3 DEF SetEof, Touch, Emus
  <2>2. emu' \in Emus
      BY <1>a, <2>1, EmuUpdates, Zenon
  <2> QED
      BY <1>3, <2>2 DEF SetEof
<1>4. CASE ChildExits \/ SomeoneReaps \/ PidIsReused
    BY <1>4 DEF ChildExits, SomeoneReaps, PidIsReused, Taken, Children, Histories
<1>5. CASE Tick
  <2>1. [hist.shown EXCEPT ![emu.picture] = hist.shown[emu.picture] \union {now + 1}]
          \in [Pictures -> SUBSET Nat]
      BY DEF Histories, Emus
  <2>2. hist' \in Histories
      BY <1>5, <2>1 DEF Tick, Histories
  <2> QED
      BY <1>5, <2>2 DEF Tick
<1> QED
    BY <1>1, <1>2, <1>3, <1>4, <1>5 DEF Environment

Decisions == Pictures \union Children \union {"none", "status"}

(* What a call tells is an outcome. *)
LEMMA OutcomeTypes ==
    ASSUME Types, NEW call \in Calls, NEW kind \in Kinds, NEW decided \in Decisions
    PROVE  Outcome(call, kind, decided) \in Outcomes
BY DEF Types, Emus, Outcome, Outcomes, Decisions

(* The assignments to the locals of a wait keep their types. *)
LEMMA LocalTypes ==
    ASSUME NEW w \in Locals
    PROVE  /\ \A deadline \in Nat, wake \in Nat :
                [w EXCEPT !.deadline = deadline, !.seen = Never, !.fresh = TRUE, !.backoff = 1, !.wake = wake] \in Locals
           /\ \A seen \in Nat, wake \in Nat : [w EXCEPT !.seen = seen, !.wake = wake] \in Locals
           /\ \A wake \in Nat : [w EXCEPT !.wake = wake] \in Locals
           /\ \A fresh \in BOOLEAN : [w EXCEPT !.fresh = fresh] \in Locals
           /\ \A wake \in Nat, backoff \in Nat : [w EXCEPT !.wake = wake, !.backoff = backoff] \in Locals
           /\ \A deadline \in Nat, wake \in Nat : [w EXCEPT !.deadline = deadline, !.wake = wake] \in Locals
           /\ \A deadline \in Nat : [w EXCEPT !.deadline = deadline] \in Locals
           /\ \A wake \in Nat, until \in Nat :
                [w EXCEPT !.wake = wake, !.backoff = 1, !.until = until] \in Locals
BY DEF Locals

(* So does a new time to wake up. *)
LEMMA WakeTypes ==
    ASSUME NEW w \in Locals, NEW wake \in Nat
    PROVE  [w EXCEPT !.wake = wake] \in Locals
BY DEF Locals

(* A child that may have been reaped is a child. *)
LEMMA ReapingTypes ==
    ASSUME Types, NEW reaps \in BOOLEAN, Reaping(reaps)
    PROVE  child' \in Children /\ pid' \in {"child", "nobody", "stranger"}
BY DEF Types, Reaping, Children

(* The start of a wait keeps them. *)
LEMMA StartTypes ==
    ASSUME Types, NEW to \in Places, StartWait(to)
    PROVE  Types'
<1>1. wait' \in Locals
  <2>1. wait \in Locals /\ now \in Nat /\ now + Timeout \in Nat
      BY WaitsAssumption DEF Types
  <2> QED
      BY <2>1 DEF StartWait, Locals
<1>2. hist' \in Histories
    BY DEF StartWait, Types, Histories
<1> QED
    BY <1>1, <1>2 DEF StartWait, Types

(* A look that ends the wait or goes back to sleep keeps them. *)
LEMMA LookTypes ==
    ASSUME Types, NEW at \in Places, NEW outcome \in Outcomes, NEW locals \in Locals,
           Look(WatchExit, at, outcome, locals)
    PROVE  Types'
<1>1. wait' \in Locals
    BY LocalTypes DEF Look
<1>2. hist' \in Histories
  <2>1. emu.picture \in Pictures /\ hist.reapedAt \in Nat \union {Never}
      BY DEF Types, Emus, Histories
  <2>2. [hist.looked EXCEPT ![emu.picture] = now] \in [Pictures -> Nat \union {Never}]
      BY DEF Types, Histories
  <2> DEFINE reapedAt == IF WatchExit.reaps THEN now ELSE hist.reapedAt
  <2>3. reapedAt \in Nat \union {Never}
      BY <2>1 DEF Types
  <2>4. hist' = [hist EXCEPT !.looked = [hist.looked EXCEPT ![emu.picture] = now], !.ended = outcome,
                             !.reapedAt = reapedAt]
      BY DEF Look, Types, Histories
  <2> HIDE DEF reapedAt
  <2> QED
      BY <2>2, <2>3, <2>4 DEF Types, Histories
<1>3. /\ emu' \in Emus /\ term' \in Terms /\ child' \in Children
      /\ pid' \in {"child", "nobody", "stranger"}
    BY WatchTypes, ReapingTypes DEF Look
<1> QED
    BY <1>1, <1>2, <1>3 DEF Look, Types

(* Sleeps are of some length. *)
LEMMA SleepTypes ==
    ASSUME Types
    PROVE  /\ now < wait.deadline => now + MonitorSleep \in Nat
           /\ \A elapsed \in Int : now + QuietSleep(elapsed) \in Nat
           /\ now + Lesser(wait.backoff, wait.deadline - now) \in Int
           /\ now < wait.deadline => now + Lesser(wait.backoff, wait.deadline - now) \in Nat
           /\ now + Lesser(wait.backoff, Greater(0, wait.until - now)) \in Nat
           /\ NextBackoff(wait.backoff) \in Nat
<1>1. /\ now \in Nat /\ wait.deadline \in Nat /\ wait.until \in Nat /\ wait.backoff \in Nat
      /\ PollCap \in Nat \ {0} /\ BackoffCap \in Nat \ {0} /\ Quiet \in Nat
    BY WaitsAssumption DEF Types, Locals
<1>2. ASSUME NEW elapsed \in Int
      PROVE  now + QuietSleep(elapsed) \in Nat
    BY <1>1 DEF QuietSleep, Lesser, Greater
<1>3. /\ now < wait.deadline => now + MonitorSleep \in Nat
      /\ now + Lesser(wait.backoff, Greater(0, wait.until - now)) \in Nat
    BY <1>1 DEF MonitorSleep, Lesser, Greater
<1>4. NextBackoff(wait.backoff) \in Nat
    BY <1>1 DEF NextBackoff, Lesser
<1>5. /\ now + Lesser(wait.backoff, wait.deadline - now) \in Int
      /\ now < wait.deadline => now + Lesser(wait.backoff, wait.deadline - now) \in Nat
    BY <1>1 DEF Lesser
<1> QED
    BY <1>2, <1>3, <1>4, <1>5

(* A look of wait_until keeps them. *)
LEMMA TypesUntilLook == Types /\ UntilLook => Types'
<1> SUFFICES ASSUME Types, UntilLook PROVE Types'
    OBVIOUS
<1> DEFINE verdict == Verdict(WatchExit.emu)
           goesOn == verdict = "none" /\ now < wait.deadline
           at == CASE goesOn -> "until"
                   [] verdict = "none" /\ ~goesOn -> "expired"
                   [] verdict = "ok" /\ Current = "snapshot" -> "settle"
                   [] OTHER -> "free"
           kind == IF verdict = "none" THEN "timeout" ELSE verdict
           locals == [wait EXCEPT !.seen = WatchExit.emu.generation,
                                  !.wake = IF goesOn THEN now + MonitorSleep ELSE wait.wake]
<1>1. Look(WatchExit, at, Outcome("until", kind, emu.picture), locals)
    BY DEF UntilLook
<1>2. verdict \in {"none", "emulator", "ok", "eof"}
    BY DEF Verdict
<1>3. at \in Places /\ kind \in Kinds
    BY <1>2 DEF Places, Kinds
<1>4. locals \in Locals
  <2>1. wait \in Locals /\ wait.wake \in Nat
      BY DEF Types, Locals
  <2>2. WatchExit.emu.generation \in Nat
      BY WatchTypes DEF Emus
  <2>3. (IF goesOn THEN now + MonitorSleep ELSE wait.wake) \in Nat
      BY <2>1, SleepTypes
  <2> HIDE DEF goesOn
  <2> QED
      BY <2>1, <2>2, <2>3, LocalTypes
<1>5. Outcome("until", kind, emu.picture) \in Outcomes
    BY <1>3, OutcomeTypes DEF Calls, Decisions, Types, Emus
<1> HIDE DEF at, kind, locals
<1> QED
    BY <1>1, <1>3, <1>4, <1>5, LookTypes

(* A look of wait_idle or wait_stable keeps them. *)
LEMMA TypesQuietLook ==
    ASSUME Types, NEW call \in {"quiet", "stable"}, NEW start \in Nat, NEW locals \in Locals,
           QuietLook(call, WatchExit, start, locals)
    PROVE  Types'
<1> DEFINE w == WatchExit
           verdict == CASE w.emu.panicked -> "emulator"
                        [] ~w.emu.panicked /\ w.emu.eof -> "eof"
                        [] ~w.emu.panicked /\ ~w.emu.eof
                             /\ now - start >= Quiet /\ Complete(w.emu) -> "ok"
                        [] OTHER -> IF now >= wait.deadline THEN "timeout" ELSE "none"
           at == IF verdict = "none" THEN call ELSE "free"
           slept == [locals EXCEPT !.wake = IF verdict = "none" THEN now + QuietSleep(now - start)
                                            ELSE locals.wake]
<1>1. Look(w, at, Outcome(call, verdict, emu.picture), slept)
    BY DEF QuietLook, Locals
<1>2. verdict \in {"none", "emulator", "ok", "eof", "timeout"}
    OBVIOUS
<1>3. at \in Places /\ verdict \in Kinds /\ call \in Calls
    BY <1>2 DEF Places, Kinds, Calls
<1>4. slept \in Locals
  <2>1. locals \in Locals /\ locals.wake \in Nat /\ now - start \in Int
      BY DEF Types, Locals
  <2>2. (IF verdict = "none" THEN now + QuietSleep(now - start) ELSE locals.wake) \in Nat
      BY <2>1, SleepTypes
  <2> HIDE DEF verdict
  <2> QED
      BY <2>1, <2>2, LocalTypes
<1>5. Outcome(call, verdict, emu.picture) \in Outcomes
    BY <1>3, OutcomeTypes DEF Decisions, Types, Emus
<1> HIDE DEF at, verdict, slept
<1> QED
    BY <1>1, <1>3, <1>4, <1>5, LookTypes

(* What wait_stable keeps of a look are locals. *)
LEMMA ObserveTypes ==
    ASSUME Types, NEW state \in Emus
    PROVE  Observe(state) \in Locals
BY DEF Types, Emus, Observe, Locals

(* The screen of a timed-out wait_until belongs into the history. *)
LEMMA ScreenTypes == Types => [hist EXCEPT !.ended.screen = emu.picture] \in Histories
<1> SUFFICES ASSUME Types PROVE [hist EXCEPT !.ended.screen = emu.picture] \in Histories
    OBVIOUS
<1>1. hist.ended \in Outcomes /\ emu.picture \in Pictures
    BY DEF Types, Emus, Histories
<1>2. [hist.ended EXCEPT !.screen = emu.picture] \in Outcomes
    BY <1>1 DEF Outcomes
<1> QED
    BY <1>2 DEF Types, Histories

(* Every step of the waits on the screen keeps them. *)
LEMMA TypesScreenWaits ==
    Types /\ (WaitUntil \/ WaitIdle \/ WaitStable \/ SnapshotAfter \/ Settle
              \/ UntilLook \/ UntilExpired \/ IdleLook \/ StableLook) => Types'
<1>1. Types /\ (WaitUntil \/ WaitIdle \/ WaitStable \/ SnapshotAfter \/ Settle) => Types'
    BY StartTypes DEF WaitUntil, WaitIdle, WaitStable, SnapshotAfter, Settle, Places
<1>2. Types /\ UntilExpired => Types'
    BY ScreenTypes DEF UntilExpired, Types, Places
<1>3. Types /\ IdleLook => Types'
  <2> SUFFICES ASSUME Types, IdleLook PROVE Types'
      OBVIOUS
  <2>1. emu.lastActivity \in Nat /\ wait \in Locals
      BY DEF Types, Emus
  <2> QED
      BY <2>1, TypesQuietLook DEF IdleLook
<1>4. Types /\ StableLook => Types'
  <2> SUFFICES ASSUME Types, StableLook PROVE Types'
      OBVIOUS
  <2> DEFINE locals == Observe(WatchExit.emu)
  <2>1. locals \in Locals
      BY WatchTypes, ObserveTypes
  <2>2. locals.since \in Nat
      BY <2>1 DEF Locals
  <2>3. QuietLook("stable", WatchExit, locals.since, locals)
      BY DEF StableLook
  <2> HIDE DEF locals
  <2> QED
      BY <2>1, <2>2, <2>3, TypesQuietLook
<1> QED
    BY <1>1, <1>2, <1>3, <1>4, TypesUntilLook

(* A poll of wait_exit keeps them. *)
LEMMA TypesExitPoll == Types /\ ExitPoll => Types'
<1> SUFFICES ASSUME Types, ExitPoll PROVE Types'
    OBVIOUS
<1>1. /\ now \in Nat /\ term \in Terms /\ wait \in Locals /\ wait.deadline \in Nat /\ ReapedAt \in Nat
      /\ now + DrainGrace \in Nat
    BY WaitsAssumption DEF Types, Terms, Locals, ReapedAt
<1>2. term' \in Terms
    BY <1>1 DEF ExitPoll, Terms
<1>3. wait' \in Locals
  <2>1. CASE TryWait = "running" /\ now < wait.deadline
    <3>1. wait' = [wait EXCEPT !.wake = now + Lesser(wait.backoff, wait.deadline - now),
                               !.backoff = NextBackoff(wait.backoff)]
        BY <2>1, <1>1 DEF ExitPoll, Locals
    <3> QED
        BY <1>1, <2>1, <3>1, SleepTypes, LocalTypes
  <2>2. CASE ~(TryWait = "running" /\ now < wait.deadline)
    <3>1. wait' = [wait EXCEPT !.deadline = now + DrainGrace, !.wake = now]
        BY <2>2 DEF ExitPoll
    <3> QED
        BY <1>1, <3>1, LocalTypes
  <2> QED
      BY <2>1, <2>2
<1>4. hist' \in Histories
  <2>1. Outcome("exit", "timeout", child) \in Outcomes
      BY OutcomeTypes DEF Calls, Kinds, Decisions, Types
  <2> QED
      BY <2>1 DEF ExitPoll, Types, Histories
<1>5. child' \in Children /\ pid' \in {"child", "nobody", "stranger"} /\ test' \in Places
    BY ReapingTypes DEF ExitPoll, Places
<1> QED
    BY <1>2, <1>3, <1>4, <1>5 DEF ExitPoll, Types

(* So does a look for what was written before the exit. *)
LEMMA TypesDrainLook == Types /\ DrainLook => Types'
<1> SUFFICES ASSUME Types, DrainLook PROVE Types'
    OBVIOUS
<1>1. now \in Nat /\ wait \in Locals /\ emu \in Emus /\ wait.deadline \in Nat
    BY DEF Types, Locals
<1>2. CASE ~emu.eof /\ now < wait.deadline
  <2>1. wait' \in Locals
    <3>1. now + MonitorSleep \in Nat
        BY <1>2, SleepTypes
    <3>2. wait' = [wait EXCEPT !.wake = now + MonitorSleep]
        BY <1>2 DEF DrainLook
    <3> QED
        BY <1>1, <3>1, <3>2, LocalTypes
  <2> QED
      BY <1>2, <2>1 DEF DrainLook, Types
<1>3. CASE ~(~emu.eof /\ now < wait.deadline)
  <2> DEFINE over == emu.eof \/ (test = "drain" /\ scenario.exitCloses)
             kind == IF test = "drain" THEN "exited" ELSE "lost"
  <2>1. over \in BOOLEAN
      OBVIOUS
  <2>2. emu' = [emu EXCEPT !.eof = over]
      BY <1>3 DEF DrainLook, Types, Emus
  <2>3. emu' \in Emus
    <3> HIDE DEF over
    <3>1. emu.generation \in Nat
        BY DEF Types, Emus
    <3> QED
        BY <1>1, <2>1, <2>2, <3>1, EmuEnds
  <2>4. Outcome("exit", kind, child) \in Outcomes
      BY OutcomeTypes DEF Calls, Kinds, Decisions, Types
  <2>5. hist' \in Histories
      BY <1>3, <2>4 DEF DrainLook, Types, Histories
  <2> QED
      BY <1>3, <2>3, <2>5 DEF DrainLook, Types, Places
<1> QED
    BY <1>2, <1>3

(* The other steps of wait_exit keep them. *)
LEMMA TypesExits == Types /\ (WaitExit \/ WaitExitAgain \/ ExitExpired) => Types'
<1>1. Types /\ WaitExit => Types'
    BY StartTypes DEF WaitExit, Places
<1>2. Types /\ WaitExitAgain => Types'
  <2> SUFFICES ASSUME Types, WaitExitAgain PROVE Types'
      OBVIOUS
  <2>1. Outcome("exit", "exited", "status") \in Outcomes
      BY OutcomeTypes DEF Calls, Kinds, Decisions
  <2> QED
      BY <2>1 DEF WaitExitAgain, Types, Histories
<1>3. Types /\ ExitExpired => Types'
    BY ScreenTypes DEF ExitExpired, Types, Places
<1> QED
    BY <1>1, <1>2, <1>3

(* A kill leaves a history. *)
LEMMA KillTypes ==
    ASSUME Types, NEW outcome \in Outcomes, Kill(outcome)
    PROVE  hist' \in Histories
BY DEF Types, Histories, Kill

(* signal keeps them. *)
LEMMA TypesSignals == Types /\ (Signal \/ SendSignal) => Types'
<1>1. Types /\ Signal => Types'
  <2> SUFFICES ASSUME Types, Signal PROVE Types'
      OBVIOUS
  <2>1. Outcome("signal", "refused", child) \in Outcomes
      BY OutcomeTypes DEF Calls, Kinds, Decisions, Types
  <2>2. hist' \in Histories
      BY <2>1 DEF Signal, Types, Histories
  <2>3. term' \in Terms
      BY DEF Signal, Gone, Types, Terms
  <2> QED
      BY <2>2, <2>3 DEF Signal, Types, Places
<1>2. Types /\ SendSignal => Types'
  <2> SUFFICES ASSUME Types, SendSignal PROVE Types'
      OBVIOUS
  <2>1. Outcome("signal", IF pid = "nobody" THEN "failed" ELSE "sent", child) \in Outcomes
      BY OutcomeTypes DEF Calls, Kinds, Decisions, Types
  <2>2. hist' \in Histories
      BY <2>1, KillTypes DEF SendSignal
  <2> QED
      BY <2>2 DEF SendSignal, Types, Places
<1> QED
    BY <1>1, <1>2

(* What is remembered of the question is in the history. *)
LEMMA AskingTypes == Types => AfterAsking \in Histories
BY DEF Types, Histories, AfterAsking

(* The teardown keeps them. *)
LEMMA TypesTeardown == Types /\ (Drop \/ HangUp \/ KillIt \/ ReapedBy) => Types'
<1> SUFFICES ASSUME Types, Drop \/ HangUp \/ KillIt \/ ReapedBy PROVE Types'
    OBVIOUS
<1>1. /\ now \in Nat /\ wait \in Locals /\ hist \in Histories /\ hist.ended \in Outcomes
      /\ wait.deadline \in Nat /\ now + ReapGrace \in Nat /\ now + HangupGrace \in Nat
    BY WaitsAssumption DEF Types, Locals, Histories
<1>2. CASE Drop
  <2>1. wait' \in Locals
      BY <1>1, <1>2, LocalTypes DEF Drop
  <2>2. hist' \in Histories
      BY <1>1, <1>2, AskingTypes DEF Drop, Histories
  <2>3. child' \in Children /\ pid' \in {"child", "nobody", "stranger"}
      BY <1>2, ReapingTypes DEF Drop
  <2> QED
      BY <1>2, <2>1, <2>2, <2>3 DEF Drop, Types, Places
<1>3. CASE HangUp
  <2>1. Lesser(now + HangupGrace, wait.deadline) \in Nat
      BY <1>1 DEF Lesser
  <2>2. wait' \in Locals
      BY <1>1, <1>3, <2>1, LocalTypes DEF HangUp
  <2> QED
      BY <1>1, <1>3, <2>2, KillTypes DEF HangUp, Types, Places
<1>4. CASE KillIt
  <2>1. wait' \in Locals
      BY <1>1, <1>4, LocalTypes DEF KillIt
  <2> QED
      BY <1>1, <1>4, <2>1, KillTypes DEF KillIt, Types, Places
<1>5. CASE ReapedBy
  <2>1. wait' \in Locals
    <3>1. wait' = [wait EXCEPT !.wake = now + Lesser(wait.backoff, Greater(0, wait.until - now)),
                               !.backoff = NextBackoff(wait.backoff)]
        BY <1>1, <1>5 DEF ReapedBy, Locals
    <3> QED
        BY <1>1, <3>1, SleepTypes, LocalTypes
  <2>2. hist' \in Histories
      BY <1>5, AskingTypes DEF ReapedBy
  <2>3. child' \in Children /\ pid' \in {"child", "nobody", "stranger"}
      BY <1>5, ReapingTypes DEF ReapedBy
  <2> QED
      BY <1>5, <2>1, <2>2, <2>3 DEF ReapedBy, Types, Places
<1> QED
    BY <1>2, <1>3, <1>4, <1>5

(* Every step keeps the types. *)
LEMMA TypesNext == Types /\ [Next]_vars => Types'
<1>1. Types /\ UNCHANGED vars => Types'
    BY DEF Types, vars
<1> QED
    BY <1>1, TypesEnvironment, TypesScreenWaits, TypesExits, TypesExitPoll, TypesDrainLook,
       TypesSignals, TypesTeardown DEF Next, TestStep

-----------------------------------------------------------------------------
(***************************************************************************)
(* Nobody oversleeps.                                                      *)
(***************************************************************************)

(* A thread that is not late has its deadline ahead of it, where it is under
   way from one poll to another too, and what it sleeps for comes no later. *)
ClockInv ==
    ~hist.late => /\ test \in Sleeping \union {"hangUp", "killIt"} => now <= wait.deadline
                  /\ test \in Sleeping => wait.wake <= wait.deadline
                  /\ test \in {"hup", "kill"} => wait.until <= wait.deadline

(* The clock, the times of a wait and the periods are numbers. *)
LEMMA ClockTypes ==
    Types => /\ now \in Nat /\ wait \in Locals /\ hist \in Histories /\ hist.late \in BOOLEAN
             /\ wait.deadline \in Nat /\ wait.wake \in Nat /\ wait.until \in Nat /\ wait.backoff \in Nat
             /\ PollCap \in Nat \ {0} /\ BackoffCap \in Nat \ {0}
             /\ Quiet \in Nat /\ Timeout \in Nat
             /\ DrainGrace \in Nat /\ HangupGrace \in Nat /\ ReapGrace \in Nat
BY WaitsAssumption DEF Types, Locals, Histories

(* Time that passes, and whatever notifies the thread, keep ClockInv. *)
LEMMA ClockEnvironment == Types /\ ClockInv /\ Environment => ClockInv'
<1> SUFFICES ASSUME Types, ClockInv, Environment PROVE ClockInv'
    OBVIOUS
<1>1. CASE Tick
  <2>1. now' = now + 1 /\ UNCHANGED <<test, wait>>
      BY <1>1 DEF Tick
  <2>2. ~hist'.late => ~hist.late /\ (test = "free" \/ ~Ready)
      BY ClockTypes, <1>1 DEF Tick, Histories
  <2>3. ~hist'.late /\ test # "free" => test \in Sleeping /\ now < wait.wake
      BY ClockTypes, <2>2 DEF Ready
  <2>4. CASE hist'.late
      BY <2>4 DEF ClockInv
  <2>5. CASE ~hist'.late /\ test = "free"
      BY <2>1, <2>5 DEF ClockInv, Sleeping, OnCondvar
  <2>6. CASE ~hist'.late /\ test # "free"
    <3>1. test \in Sleeping /\ now + 1 <= wait.wake /\ ~hist.late
        BY ClockTypes, <2>2, <2>3, <2>6
    <3>2. wait.wake <= wait.deadline /\ (test \in {"hup", "kill"} => wait.until <= wait.deadline)
        BY <3>1 DEF ClockInv
    <3>3. now' <= wait'.deadline
        BY ClockTypes, <2>1, <3>1, <3>2
    <3> QED
        BY <2>1, <3>2, <3>3 DEF ClockInv
  <2> QED
      BY <2>4, <2>5, <2>6
<1>2. CASE ~Tick
  <2>1. UNCHANGED <<now, test, wait>>
      BY <1>2 DEF Environment, ReadChunk, Panic, SetEof, ChildExits, SomeoneReaps, PidIsReused
  <2>2. hist'.late = hist.late
      BY ClockTypes, <1>2 DEF Environment, ReadChunk, Panic, SetEof, ChildExits, SomeoneReaps, PidIsReused, Taken, Histories
  <2> QED
      BY <2>1, <2>2 DEF ClockInv
<1> QED
    BY <1>1, <1>2

(* The start of a wait, with its deadline, keeps it. *)
LEMMA ClockStart ==
    ASSUME Types, NEW to \in {"until", "quiet", "stable", "exit"}, StartWait(to)
    PROVE  ClockInv'
<1>1. test' = to /\ now' = now /\ wait'.deadline = now + Timeout /\ wait'.wake = now
    BY ClockTypes DEF StartWait, Locals
<1>2. now' <= wait'.deadline /\ wait'.wake <= wait'.deadline
  <2>1. now \in Nat /\ Timeout \in Nat
      BY ClockTypes
  <2> QED
      BY <1>1, <2>1
<1> QED
    BY <1>1, <1>2 DEF ClockInv

(* The waits on the screen keep it: no sleep goes past the deadline. *)
LEMMA ClockScreenWaits ==
    Types /\ ClockInv /\ (WaitUntil \/ WaitIdle \/ WaitStable \/ SnapshotAfter \/ Settle
                          \/ UntilLook \/ UntilExpired \/ IdleLook \/ StableLook) => ClockInv'
<1>1. Types /\ (WaitUntil \/ WaitIdle \/ WaitStable \/ SnapshotAfter \/ Settle) => ClockInv'
    BY ClockStart DEF WaitUntil, WaitIdle, WaitStable, SnapshotAfter, Settle
<1>2. Types /\ ClockInv /\ UntilExpired => ClockInv'
    BY DEF UntilExpired, ClockInv, Sleeping, OnCondvar
<1>3. ASSUME Types, ClockInv, UntilLook
      PROVE  ClockInv'
  <2>1. now' = now /\ hist'.late = hist.late
      BY ClockTypes, <1>3 DEF UntilLook, Look, Histories
  <2>2. wait'.deadline = wait.deadline
      BY ClockTypes, <1>3 DEF UntilLook, Look, Locals
  <2>a. now \in Nat /\ wait.deadline \in Nat /\ PollCap \in Nat \ {0}
      BY ClockTypes, <1>3
  <2>3. CASE Verdict(WatchExit.emu) = "none" /\ now < wait.deadline
    <3>1. test' = "until" /\ wait'.wake = now + MonitorSleep
        BY ClockTypes, <1>3, <2>3 DEF UntilLook, Look, Locals
    <3>2. now + MonitorSleep <= wait.deadline
        BY ClockTypes, <1>3, <2>3 DEF MonitorSleep, Lesser
    <3>3. now' <= wait'.deadline /\ wait'.wake <= wait'.deadline
        BY <2>a, <2>1, <2>2, <2>3, <3>1, <3>2
    <3> QED
        BY <3>1, <3>3 DEF ClockInv
  <2>4. CASE ~(Verdict(WatchExit.emu) = "none" /\ now < wait.deadline)
    <3>1. test' \in {"expired", "settle", "free"}
        BY <1>3, <2>4 DEF UntilLook, Look
    <3> QED
        BY <3>1 DEF ClockInv, Sleeping, OnCondvar
  <2> QED
      BY <2>3, <2>4
<1>4. ASSUME Types, ClockInv, NEW call \in {"quiet", "stable"}, NEW start \in Nat, NEW locals \in Locals,
             locals.deadline = wait.deadline, test = call, QuietLook(call, WatchExit, start, locals)
      PROVE  ClockInv'
  <2>1. now' = now /\ hist'.late = hist.late
      BY ClockTypes, <1>4 DEF QuietLook, Look, Histories
  <2>2. CASE test' = "free"
      BY <2>2 DEF ClockInv, Sleeping, OnCondvar
  <2>3. CASE test' # "free"
    <3>1. test' = call /\ now < wait.deadline /\ wait'.wake = now + QuietSleep(now - start)
          /\ wait'.deadline = wait.deadline
        BY ClockTypes, <1>4, <2>3 DEF QuietLook, Look, Locals
    <3>2. now + QuietSleep(now - start) <= wait.deadline
        BY ClockTypes, <1>4, <3>1 DEF QuietSleep, Lesser, Greater
    <3>3. now' <= wait'.deadline /\ wait'.wake <= wait'.deadline
        BY ClockTypes, <1>4, <2>1, <3>1, <3>2
    <3> QED
        BY <1>4, <3>1, <3>3 DEF ClockInv
  <2> QED
      BY <2>2, <2>3
<1>5. Types /\ ClockInv /\ IdleLook => ClockInv'
    BY <1>4 DEF IdleLook, Types, Emus
<1>6. ASSUME Types, ClockInv, StableLook
      PROVE  ClockInv'
  <2> DEFINE locals == Observe(WatchExit.emu)
  <2>1. locals \in Locals
      BY <1>6, WatchTypes, ObserveTypes
  <2>2. locals.since \in Nat
      BY <2>1 DEF Locals
  <2>3. locals.deadline = wait.deadline
      BY ClockTypes, <1>6 DEF Observe, Locals
  <2>4. test = "stable" /\ QuietLook("stable", WatchExit, locals.since, locals)
      BY <1>6 DEF StableLook
  <2> HIDE DEF locals
  <2> QED
      BY <1>4, <1>6, <2>1, <2>2, <2>3, <2>4
<1> QED
    BY <1>1, <1>2, <1>3, <1>5, <1>6

(* The waits for the child and the teardown keep it. *)
LEMMA ClockChild ==
    Types /\ ClockInv /\ (WaitExit \/ WaitExitAgain \/ ExitPoll \/ ExitExpired \/ DrainLook
                          \/ Signal \/ SendSignal \/ Drop \/ HangUp \/ KillIt \/ ReapedBy) => ClockInv'
<1>1. Types /\ WaitExit => ClockInv'
    BY ClockStart DEF WaitExit
<1>2. Types /\ ClockInv /\ (WaitExitAgain \/ ExitExpired \/ Signal \/ SendSignal) => ClockInv'
    BY DEF WaitExitAgain, ExitExpired, Signal, SendSignal, Call, ClockInv, Sleeping, OnCondvar
<1>3. ASSUME Types, ClockInv, ExitPoll
      PROVE  ClockInv'
  <2>1. now' = now /\ hist'.late = hist.late /\ test = "exit"
      BY ClockTypes, <1>3 DEF ExitPoll, Histories
  <2>a. /\ now \in Nat /\ wait.deadline \in Nat /\ wait.backoff \in Nat /\ DrainGrace \in Nat
        /\ TryWait \in {"exited", "running", "ECHILD"}
      BY ClockTypes, <1>3 DEF TryWait
  <2>2. CASE TryWait = "running" /\ now < wait.deadline
    <3>1. test' = "exit" /\ wait'.deadline = wait.deadline
          /\ wait'.wake = now + Lesser(wait.backoff, wait.deadline - now)
      <4>1. wait' = [wait EXCEPT !.wake = now + Lesser(wait.backoff, wait.deadline - now),
                                 !.backoff = NextBackoff(wait.backoff)]
          BY ClockTypes, <1>3, <2>2 DEF ExitPoll, Locals
      <4>2. test' = "exit"
        <5>1. ~(now >= wait.deadline)
            BY <2>a, <2>2
        <5> QED
            BY <1>3, <2>2, <5>1 DEF ExitPoll
      <4> QED
          BY ClockTypes, <1>3, <4>1, <4>2 DEF Locals
    <3>2. now + Lesser(wait.backoff, wait.deadline - now) <= wait.deadline
        BY ClockTypes, <1>3 DEF Lesser
    <3>3. now' <= wait'.deadline /\ wait'.wake <= wait'.deadline
        BY ClockTypes, <1>3, <2>1, <2>2, <3>1, <3>2
    <3> QED
        BY <3>1, <3>3 DEF ClockInv
  <2>3. CASE ~(TryWait = "running" /\ now < wait.deadline)
    <3>1. /\ wait'.deadline = now + DrainGrace /\ wait'.wake = now
          /\ test' \in {"drain", "lost", "exitExpired"}
      <4>1. wait' = [wait EXCEPT !.deadline = now + DrainGrace, !.wake = now]
          BY ClockTypes, <1>3, <2>3 DEF ExitPoll
      <4>2. test' \in {"drain", "lost", "exitExpired"}
        <5>1. TryWait = "running" => now >= wait.deadline
            BY <2>a, <2>3
        <5> QED
            BY <1>3, <2>a, <5>1 DEF ExitPoll
      <4> QED
          BY ClockTypes, <1>3, <4>1, <4>2 DEF Locals
    <3>2. now' <= wait'.deadline /\ wait'.wake <= wait'.deadline
        BY <2>a, <2>1, <3>1
    <3> QED
        BY <3>1, <3>2 DEF ClockInv
  <2> QED
      BY <2>2, <2>3
<1>4. ASSUME Types, ClockInv, DrainLook
      PROVE  ClockInv'
  <2>1. CASE ~emu.eof /\ now < wait.deadline
    <3>1. /\ now' = now /\ hist' = hist /\ test' = test /\ test \in {"drain", "lost"}
          /\ wait'.deadline = wait.deadline /\ wait'.wake = now + MonitorSleep
        BY ClockTypes, <1>4, <2>1 DEF DrainLook, Locals
    <3>2. now + MonitorSleep <= wait.deadline
        BY ClockTypes, <1>4, <2>1 DEF MonitorSleep, Lesser
    <3> QED
        BY ClockTypes, <1>4, <2>1, <3>1, <3>2 DEF ClockInv
  <2>2. CASE ~(~emu.eof /\ now < wait.deadline)
      BY ClockTypes, <1>4, <2>2 DEF DrainLook, ClockInv, Sleeping, OnCondvar
  <2> QED
      BY <2>1, <2>2
<1>5. ASSUME Types, ClockInv, Drop
      PROVE  ClockInv'
  <2>1. test' \in {"hangUp", "gone"} /\ now' = now /\ wait'.deadline = now + ReapGrace
      BY ClockTypes, <1>5 DEF Drop, Locals
  <2>2. now' <= wait'.deadline
    <3>1. now \in Nat /\ ReapGrace \in Nat
        BY ClockTypes, <1>5
    <3> QED
        BY <2>1, <3>1
  <2> QED
      BY <2>1, <2>2 DEF ClockInv, Sleeping, OnCondvar
<1>6. ASSUME Types, ClockInv, HangUp \/ KillIt
      PROVE  ClockInv'
  <2>1. /\ test \in {"hangUp", "killIt"} /\ test' \in {"hup", "kill"}
        /\ now' = now /\ hist'.late = hist.late
      BY ClockTypes, <1>6 DEF HangUp, KillIt, Kill, Histories
  <2>2. wait'.deadline = wait.deadline /\ wait'.wake = now /\ wait'.until <= wait.deadline
    <3>1. CASE HangUp
      <4>1. wait'.deadline = wait.deadline /\ wait'.wake = now
            /\ wait'.until = Lesser(now + HangupGrace, wait.deadline)
          BY ClockTypes, <1>6, <3>1 DEF HangUp, Locals
      <4>2. Lesser(now + HangupGrace, wait.deadline) <= wait.deadline
          BY ClockTypes, <1>6 DEF Lesser
      <4> QED
          BY <4>1, <4>2
    <3>2. CASE KillIt
      <4>1. wait.deadline \in Nat /\ wait \in Locals
          BY ClockTypes, <1>6
      <4> QED
          BY <3>2, <4>1 DEF KillIt, Locals
    <3> QED
        BY <1>6, <3>1, <3>2
  <2> QED
      BY <1>6, <2>1, <2>2 DEF ClockInv, Sleeping, OnCondvar
<1>7. ASSUME Types, ClockInv, ReapedBy
      PROVE  ClockInv'
  <2>1. /\ test \in {"hup", "kill"} /\ test' \in {test, "gone", "killIt"}
        /\ now' = now /\ hist'.late = hist.late
      BY ClockTypes, <1>7 DEF ReapedBy, AfterAsking, Histories
  <2>2. /\ wait'.deadline = wait.deadline /\ wait'.until = wait.until
        /\ wait'.wake = now + Lesser(wait.backoff, Greater(0, wait.until - now))
      BY ClockTypes, <1>7 DEF ReapedBy, Locals
  <2>3. ASSUME ~hist.late
        PROVE  wait'.wake <= wait.deadline
    <3>1. now <= wait.deadline /\ wait.until <= wait.deadline
        BY <1>7, <2>1, <2>3 DEF ClockInv, Sleeping, OnCondvar
    <3>2. now + Lesser(wait.backoff, Greater(0, wait.until - now)) <= wait.deadline
        BY ClockTypes, <1>7, <3>1 DEF Lesser, Greater
    <3> QED
        BY <2>2, <3>2
  <2> QED
      BY <1>7, <2>1, <2>2, <2>3 DEF ClockInv, Sleeping, OnCondvar
<1> QED
    BY <1>1, <1>2, <1>3, <1>4, <1>5, <1>6, <1>7

(* Every step keeps ClockInv. *)
LEMMA ClockNext == Types /\ ClockInv /\ [Next]_vars => ClockInv'
<1>1. ClockInv /\ UNCHANGED vars => ClockInv'
    BY DEF ClockInv, vars
<1> QED
    BY <1>1, ClockEnvironment, ClockScreenWaits, ClockChild DEF Next, TestStep

-----------------------------------------------------------------------------
(***************************************************************************)
(* What becomes of the child, and of its pid.                              *)
(***************************************************************************)

(* The pid is the child's until it is reaped, by us or by someone else; we
   know of it if it was us, but for a teardown, which keeps no status; and if
   the pid is not the child's any more where a signal is about to be sent, the
   child was taken since we asked. *)
ChildInv ==
    /\ pid = "child" <=> child \in {"running", "zombie"}
    /\ term.status => child = "reaped"
    /\ child = "reaped" => term.status \/ test = "gone"
    /\ test = "exit" => ~term.status
    /\ test \in {"killOnce", "hangUp", "killIt"} /\ pid # "child" => hist.takenAfterAsking
    /\ ~hist.hurt

(* What a wait_exit that has returned, or is about to, has told is so. *)
ToldInv ==
    /\ test = "drain" => child = "reaped"
    /\ test = "lost" => child = "taken"
    /\ test = "exitExpired" => hist.ended.call = "exit"
    /\ hist.ended.call = "exit" /\ test \notin {"exit", "drain", "lost"} =>
         \/ hist.ended.kind = "exited" /\ child = "reaped"
         \/ hist.ended.kind = "lost" /\ child = "taken"
         \/ hist.ended.kind = "timeout" /\ hist.ended.decided = "running"

ProcessInv == ChildInv /\ ToldInv

(* ProcessInv holds at the start. *)
LEMMA ProcessInit == Init => ProcessInv
BY DEF Init, NoCall, ProcessInv, ChildInv, ToldInv

(* A step of the child, of whoever takes it, or of nobody: what is known of the
   child and what was told stays. *)
LEMMA ProcessEnvironment == Types /\ ProcessInv /\ Environment => ProcessInv'
<1> SUFFICES ASSUME Types, ProcessInv, Environment PROVE ProcessInv'
    OBVIOUS
<1> USE DEF ProcessInv, ChildInv, ToldInv
<1>1. UNCHANGED <<term, test>>
    BY DEF Environment, ReadChunk, Panic, SetEof, ChildExits, SomeoneReaps, PidIsReused, Tick
<1>2. hist'.hurt = hist.hurt /\ hist'.ended = hist.ended
    BY DEF Environment, ReadChunk, Panic, SetEof, ChildExits, SomeoneReaps, PidIsReused, Tick, Taken,
           Types, Histories
<1>3. CASE UNCHANGED <<child, pid>>
  <2>1. hist'.takenAfterAsking = hist.takenAfterAsking
    <3>1. ~SomeoneReaps /\ ~ChildExits
        BY <1>3 DEF ChildExits, SomeoneReaps, Taken
    <3> QED
        BY <3>1 DEF Environment, ReadChunk, Panic, SetEof, PidIsReused, Tick, Types, Histories
  <2> QED
      BY <1>1, <1>2, <1>3, <2>1
<1>4. CASE ChildExits \/ SomeoneReaps
  <2>1. CASE child' = "zombie" /\ child = "running" /\ UNCHANGED <<pid, hist>>
      BY <1>1, <2>1
  <2>2. CASE Taken /\ child \in {"running", "zombie"}
    <3>1. hist'.takenAfterAsking
        BY <2>2 DEF Taken, Types, Histories
    <3> QED
        BY <1>1, <1>2, <2>2, <3>1 DEF Taken
  <2> QED
      BY <1>4, <2>1, <2>2 DEF ChildExits, SomeoneReaps
<1>5. CASE PidIsReused
    BY <1>5 DEF PidIsReused
<1> QED
    BY <1>3, <1>4, <1>5 DEF Environment, ReadChunk, Panic, SetEof, Tick

(* A wait, once begun, is not yet told anything. *)
LEMMA ProcessStart ==
    ASSUME Types, ProcessInv, NEW to \in {"until", "quiet", "stable"}, test \in {"free", "settle"}, StartWait(to)
    PROVE  ProcessInv'
<1>1. UNCHANGED <<child, pid, term>> /\ test' = to
    BY DEF StartWait
<1>2. UNCHANGED <<hist.hurt, hist.ended, hist.takenAfterAsking>>
    BY DEF StartWait, Types, Histories
<1> QED
    BY <1>1, <1>2 DEF ProcessInv, ChildInv, ToldInv

(* A look of a screen wait reaps the child where the exit closes the terminal,
   and then the status is known; what was told last is its own. *)
LEMMA ProcessLook ==
    ASSUME Types, ProcessInv, test \in {"until", "quiet", "stable"},
           NEW at \in {"until", "quiet", "stable", "expired", "settle", "free"},
           NEW call \in {"until", "quiet", "stable"}, NEW kind, NEW decided, NEW locals,
           Look(WatchExit, at, Outcome(call, kind, decided), locals)
    PROVE  ProcessInv'
<1>1. hist'.ended.call = call /\ UNCHANGED <<hist.hurt, hist.takenAfterAsking>>
    BY DEF Look, Outcome, Types, Histories
<1>2. test' = at
    BY DEF Look
<1>3. CASE WatchExit.reaps
  <2>1. child = "zombie"
      BY <1>3 DEF WatchExit, TryWait
  <2>2. child' = "reaped" /\ pid' = "nobody"
      BY <1>3 DEF Look, Reaping
  <2>3. term'.status
      BY <1>3 DEF Look, WatchExit, Types, Terms
  <2> QED
      BY <1>1, <1>2, <2>1, <2>2, <2>3 DEF ProcessInv, ChildInv, ToldInv
<1>4. CASE ~WatchExit.reaps
  <2>1. UNCHANGED <<child, pid>>
      BY <1>4 DEF Look, Reaping
  <2>2. term'.status <=> term.status
      BY <1>4 DEF Look, WatchExit, Types, Terms
  <2> QED
      BY <1>1, <1>2, <2>1, <2>2 DEF ProcessInv, ChildInv, ToldInv
<1> QED
    BY <1>3, <1>4

(* The waits on the screen keep it: they may reap the child. *)
LEMMA ProcessScreenWaits ==
    Types /\ ProcessInv /\ (WaitUntil \/ WaitIdle \/ WaitStable \/ SnapshotAfter \/ Settle
                            \/ UntilLook \/ UntilExpired \/ IdleLook \/ StableLook) => ProcessInv'
<1>1. Types /\ ProcessInv /\ (WaitUntil \/ WaitIdle \/ WaitStable \/ SnapshotAfter \/ Settle) => ProcessInv'
    BY ProcessStart DEF WaitUntil, WaitIdle, WaitStable, SnapshotAfter, Settle, Call
<1>2. ASSUME Types, ProcessInv, UntilExpired
      PROVE  ProcessInv'
  <2>1. /\ UNCHANGED <<child, pid, term, hist.hurt, hist.takenAfterAsking, hist.ended.call, hist.ended.kind,
                       hist.ended.decided>>
        /\ test = "expired" /\ test' = "free"
      BY <1>2 DEF UntilExpired, Types, Histories, Outcomes
  <2> QED
      BY <1>2, <2>1 DEF ProcessInv, ChildInv, ToldInv
<1>3. ASSUME Types, ProcessInv, UntilLook
      PROVE  ProcessInv'
    BY <1>3, ProcessLook DEF UntilLook
<1>4. ASSUME Types, ProcessInv, IdleLook
      PROVE  ProcessInv'
    BY <1>4, ProcessLook DEF IdleLook, QuietLook
<1>5. ASSUME Types, ProcessInv, StableLook
      PROVE  ProcessInv'
    BY <1>5, ProcessLook DEF StableLook, QuietLook
<1> QED
    BY <1>1, <1>2, <1>3, <1>4, <1>5

(* wait_exit keeps it. *)
LEMMA ProcessExits ==
    Types /\ ProcessInv /\ (WaitExit \/ WaitExitAgain \/ ExitPoll \/ ExitExpired \/ DrainLook) => ProcessInv'
<1> USE DEF ProcessInv, ChildInv, ToldInv
<1>1. ASSUME Types, ProcessInv, WaitExit
      PROVE  ProcessInv'
  <2>1. UNCHANGED <<child, pid, term, hist.hurt, hist.takenAfterAsking, hist.ended>>
        /\ test = "free" /\ test' = "exit" /\ ~term.status
      BY <1>1 DEF WaitExit, StartWait, Call, Types, Histories
  <2> QED
      BY <1>1, <2>1
<1>2. ASSUME Types, ProcessInv, WaitExitAgain
      PROVE  ProcessInv'
  <2>1. /\ UNCHANGED <<child, pid, term, test, hist.hurt, hist.takenAfterAsking>> /\ term.status
        /\ test = "free" /\ hist'.ended.call = "exit" /\ hist'.ended.kind = "exited"
      BY <1>2 DEF WaitExitAgain, Outcome, Call, Types, Histories
  <2> QED
      BY <1>2, <2>1
<1>3. ASSUME Types, ProcessInv, ExitPoll
      PROVE  ProcessInv'
  <2>1. /\ UNCHANGED <<hist.hurt, hist.takenAfterAsking>> /\ test = "exit"
        /\ hist'.ended = Outcome("exit", "timeout", child)
      BY <1>3 DEF ExitPoll, Types, Histories
  <2>2. CASE TryWait = "exited"
    <3>1. child = "zombie" /\ child' = "reaped" /\ pid' = "nobody" /\ test' = "drain"
        BY <1>3, <2>2 DEF ExitPoll, Reaping, TryWait
    <3>2. term'.status
        BY <1>3, <2>2 DEF ExitPoll, Types, Terms
    <3> QED
        BY <1>3, <2>1, <3>1, <3>2
  <2>3. CASE TryWait = "ECHILD"
    <3>1. child \in {"reaped", "taken"} /\ UNCHANGED <<child, pid>> /\ test' = "lost" /\ ~term'.status
        BY <1>3, <2>3 DEF ExitPoll, Reaping, TryWait, Types, Terms, Children
    <3> QED
        BY <1>3, <2>1, <3>1
  <2>4. CASE TryWait = "running"
    <3>1. child = "running" /\ UNCHANGED <<child, pid>> /\ test' \in {"exit", "exitExpired"} /\ ~term'.status
        BY <1>3, <2>4 DEF ExitPoll, Reaping, TryWait, Types, Terms, Children
    <3> QED
        BY <1>3, <2>1, <3>1 DEF Outcome
  <2> QED
      BY <2>2, <2>3, <2>4 DEF TryWait
<1>4. ASSUME Types, ProcessInv, ExitExpired
      PROVE  ProcessInv'
  <2>1. /\ UNCHANGED <<child, pid, term, hist.hurt, hist.takenAfterAsking, hist.ended.call, hist.ended.kind,
                       hist.ended.decided>>
        /\ test = "exitExpired" /\ test' = "free"
      BY <1>4 DEF ExitExpired, Types, Histories, Outcomes
  <2> QED
      BY <1>4, <2>1
<1>5. ASSUME Types, ProcessInv, DrainLook
      PROVE  ProcessInv'
  <2>1. UNCHANGED <<child, pid, term, hist.hurt, hist.takenAfterAsking>> /\ test \in {"drain", "lost"}
      BY <1>5 DEF DrainLook, Types, Histories
  <2>2. \/ UNCHANGED <<test, hist>>
        \/ /\ test' = "free"
           /\ hist'.ended.kind = IF test = "drain" THEN "exited" ELSE "lost"
      BY <1>5 DEF DrainLook, Outcome, Types, Histories
  <2> QED
      BY <1>5, <2>1, <2>2
<1> QED
    BY <1>1, <1>2, <1>3, <1>4, <1>5

(* A signal is sent where, if the pid is not the child's any more, it was taken
   since we asked: nobody is hurt by us. *)
LEMMA ProcessKill ==
    ASSUME Types, ProcessInv, test \in {"killOnce", "hangUp", "killIt"}, NEW outcome, Kill(outcome)
    PROVE  /\ ~hist'.hurt /\ hist'.ended = outcome
           /\ hist'.takenAfterAsking = hist.takenAfterAsking
<1>1. ~(pid = "stranger" /\ ~hist.takenAfterAsking)
    BY DEF ProcessInv, ChildInv, Types, Children
<1> QED
    BY <1>1 DEF Kill, Types, Histories, ProcessInv, ChildInv

(* signal and the kills of the teardown keep it: each asks first. *)
LEMMA ProcessSignals ==
    Types /\ ProcessInv /\ (Signal \/ SendSignal \/ HangUp \/ KillIt) => ProcessInv'
<1>1. ASSUME Types, ProcessInv, Signal
      PROVE  ProcessInv'
  <2>1. UNCHANGED <<child, pid>> /\ (term'.status <=> term.status) /\ test = "free" /\ hist'.hurt = hist.hurt
      BY <1>1 DEF Signal, Call, Types, Terms, Histories
  <2>2. CASE term.status \/ Gone
    <3>1. test' = "free" /\ hist'.ended.call = "signal"
        BY <1>1, <2>2 DEF Signal, Outcome, Types, Histories
    <3> QED
        BY <1>1, <2>1, <3>1 DEF ProcessInv, ChildInv, ToldInv
  <2>3. CASE ~(term.status \/ Gone)
    <3>1. test' = "killOnce" /\ hist'.ended = hist.ended
        BY <1>1, <2>3 DEF Signal, Types, Histories
    <3>2. pid = "child"
        BY <1>1, <2>1, <2>3 DEF Gone, ProcessInv, ChildInv, Types, Children
    <3> QED
        BY <1>1, <2>1, <3>1, <3>2 DEF ProcessInv, ChildInv, ToldInv
  <2> QED
      BY <2>2, <2>3
<1>2. ASSUME Types, ProcessInv, SendSignal
      PROVE  ProcessInv'
  <2>1. ~hist'.hurt /\ hist'.ended.call = "signal"
      BY <1>2, ProcessKill DEF SendSignal, Outcome
  <2> QED
      BY <1>2, <2>1 DEF SendSignal, ProcessInv, ChildInv, ToldInv
<1>3. ASSUME Types, ProcessInv, HangUp \/ KillIt
      PROVE  ProcessInv'
  <2>1. ~hist'.hurt /\ hist'.ended = hist.ended
      BY <1>3, ProcessKill DEF HangUp, KillIt
  <2> QED
      BY <1>3, <2>1 DEF HangUp, KillIt, ProcessInv, ChildInv, ToldInv
<1> QED
    BY <1>1, <1>2, <1>3

(* A teardown asks by reaping. *)
LEMMA ProcessTeardown == Types /\ ProcessInv /\ (Drop \/ ReapedBy) => ProcessInv'
<1> USE DEF ProcessInv, ChildInv, ToldInv
<1>1. ASSUME Types, ProcessInv, Drop
      PROVE  ProcessInv'
  <2>1. UNCHANGED <<term, hist.hurt, hist.ended>> /\ test = "free" /\ test' \in {"hangUp", "gone"}
      BY <1>1 DEF Drop, AfterAsking, Call, Types, Histories
  <2>2. CASE ~term.status /\ ~term.elsewhere /\ TryWait = "exited"
    <3>1. child = "zombie" /\ child' = "reaped" /\ pid' = "nobody" /\ test' = "gone"
        BY <1>1, <2>2 DEF Drop, Reaping, TryWait, HasChildToStop, ReapedNow
    <3> QED
        BY <1>1, <2>1, <3>1
  <2>3. CASE ~(~term.status /\ ~term.elsewhere /\ TryWait = "exited")
    <3>1. UNCHANGED <<child, pid>>
        BY <1>1, <2>3 DEF Drop, Reaping
    <3>2. test' = "hangUp" => child = "running"
        BY <1>1, <2>3 DEF Drop, HasChildToStop, ReapedNow, TryWait, Types, Children
    <3> QED
        BY <1>1, <2>1, <3>1, <3>2
  <2> QED
      BY <2>2, <2>3
<1>2. ASSUME Types, ProcessInv, ReapedBy
      PROVE  ProcessInv'
  <2>1. UNCHANGED <<term, hist.hurt, hist.ended>> /\ test \in {"hup", "kill"}
        /\ test' \in {test, "gone", "killIt"}
      BY <1>2 DEF ReapedBy, AfterAsking, Types, Histories
  <2>2. CASE TryWait = "exited"
    <3>1. child = "zombie" /\ child' = "reaped" /\ pid' = "nobody" /\ test' = "gone"
        BY <1>2, <2>2 DEF ReapedBy, Reaping, TryWait, ReapedNow
    <3> QED
        BY <1>2, <2>1, <3>1
  <2>3. CASE TryWait # "exited"
    <3>1. UNCHANGED <<child, pid>>
        BY <1>2, <2>3 DEF ReapedBy, Reaping
    <3>2. test' = "killIt" => child = "running"
        BY <1>2, <2>1, <2>3 DEF ReapedBy, ReapedNow, TryWait, Types, Children
    <3> QED
        BY <1>2, <2>1, <3>1, <3>2
  <2> QED
      BY <2>2, <2>3
<1> QED
    BY <1>1, <1>2

(* Every step keeps ProcessInv. *)
LEMMA ProcessNext == Types /\ ProcessInv /\ [Next]_vars => ProcessInv'
<1>1. ProcessInv /\ UNCHANGED vars => ProcessInv'
    BY DEF ProcessInv, ChildInv, ToldInv, vars
<1> QED
    BY <1>1, ProcessEnvironment, ProcessScreenWaits, ProcessExits, ProcessSignals, ProcessTeardown
    DEF Next, TestStep

-----------------------------------------------------------------------------
(***************************************************************************)
(* wait_until decides on the latest picture.                               *)
(***************************************************************************)

(* A picture that was looked at and has not changed since is not one to return
   for, nor is the stream over; and the time the exit watch goes by is that of
   our reaping the child. *)
UntilInv ==
    /\ wait.seen <= emu.generation
    /\ test = "until" /\ wait.seen = emu.generation =>
         emu.picture \notin Wanted /\ ~emu.panicked /\ ~emu.eof
    /\ ~term.status => term.reapedAt = Never
    /\ hist.reapedAt # Never => test = "gone" \/ (term.status /\ term.reapedAt = hist.reapedAt)
    /\ UntilIsRight

(* The times and generations of UntilInv are numbers. *)
LEMMA UntilTypes ==
    Types => /\ now \in Nat /\ emu.generation \in Nat /\ wait.seen \in Int /\ hist.ended.at \in Nat
             /\ hist.reapedAt \in Nat \union {Never} /\ term.reapedAt \in Nat \union {Never}
             /\ DrainGrace \in Nat
BY WaitsAssumption DEF Types, Emus, Locals, Terms, Histories, Outcomes

(* UntilInv holds at the start. *)
LEMMA UntilInit == Init => UntilInv
BY DEF Init, NoCall, UntilInv, UntilIsRight

(* The reader and the child keep it: a new picture has a new generation. *)
LEMMA UntilEnvironment == Types /\ UntilInv /\ Environment => UntilInv'
<1> SUFFICES ASSUME Types, UntilInv, Environment PROVE UntilInv'
    OBVIOUS
<1>1. UNCHANGED <<term, test, wait, scenario>> /\ UNCHANGED <<hist.ended, hist.reapedAt>>
    BY DEF Environment, ReadChunk, Panic, SetEof, ChildExits, SomeoneReaps, PidIsReused, Tick, Taken,
           Types, Histories
<1>2. UntilIsRight'
    BY <1>1 DEF UntilInv, UntilIsRight
<1>3. \/ UNCHANGED emu
      \/ emu'.generation = emu.generation + 1
    <2>1. emu \in Emus
        BY DEF Types
    <2>2. CASE ChildExits \/ SomeoneReaps \/ PidIsReused \/ Tick
        BY <2>2 DEF ChildExits, SomeoneReaps, PidIsReused, Tick
    <2>3. CASE Panic \/ SetEof
        BY <2>1, <2>3 DEF Panic, SetEof, Touch, Emus
    <2>4. ASSUME NEW p, NEW o, NEW asked, ReadChunk(p, o, asked)
          PROVE  emu'.generation = emu.generation + 1
        BY <2>1, <2>4 DEF ReadChunk, Touch, Emus
    <2> QED
        BY <2>2, <2>3, <2>4 DEF Environment
<1>4. CASE UNCHANGED emu
    BY <1>1, <1>2, <1>4 DEF UntilInv
<1>5. CASE emu'.generation = emu.generation + 1
  <2>1. wait'.seen <= emu'.generation /\ wait'.seen # emu'.generation
      BY <1>1, <1>5, UntilTypes DEF UntilInv
  <2> QED
      BY <1>1, <1>2, <2>1 DEF UntilInv
<1> QED
    BY <1>3, <1>4, <1>5

(* What a look makes of the times at which the child was reaped. *)
LEMMA WatchReaped ==
    ASSUME Types, UntilInv, test # "gone", NEW at, NEW outcome, NEW locals, Look(WatchExit, at, outcome, locals)
    PROVE  /\ ~term'.status => term'.reapedAt = Never
           /\ hist'.reapedAt # Never => term'.status /\ term'.reapedAt = hist'.reapedAt
<1> DEFINE watches == scenario.exitCloses /\ ~emu.eof
           sees == watches /\ (term.status \/ WatchExit.reaps)
<1>1. WatchExit.reaps <=> watches /\ ~term.status /\ TryWait = "exited"
    BY DEF WatchExit
<1>2. /\ term'.status <=> term.status \/ WatchExit.reaps
      /\ term'.reapedAt = IF sees THEN ReapedAt ELSE term.reapedAt
    BY <1>1 DEF Look, WatchExit, Types, Terms
<1>3. hist'.reapedAt = IF WatchExit.reaps THEN now ELSE hist.reapedAt
    BY DEF Look, Types, Histories
<1>4. CASE WatchExit.reaps
  <2>1. term.reapedAt = Never /\ ReapedAt = now /\ sees
      BY <1>1, <1>4 DEF UntilInv, ReapedAt
  <2> QED
      BY <1>2, <1>3, <1>4, <2>1
<1>5. CASE ~WatchExit.reaps
    BY <1>1, <1>2, <1>3, <1>5, UntilTypes DEF UntilInv, ReapedAt
<1> QED
    BY <1>4, <1>5

(* Where the exit watch does not end the stream, the child was reaped less than
   the grace ago. *)
LEMMA WatchCloses ==
    ASSUME Types, UntilInv, test # "gone", NEW at, NEW outcome, NEW locals, Look(WatchExit, at, outcome, locals),
           scenario.exitCloses, ~emu'.eof
    PROVE  hist'.reapedAt = Never \/ now - hist'.reapedAt < DrainGrace
<1> DEFINE sees == term.status \/ WatchExit.reaps
<1>1. WatchExit.emu.eof <=> emu.eof \/ (~emu.eof /\ sees /\ now - ReapedAt >= DrainGrace)
    BY DEF WatchExit, Types, Emus
<1>2. ~emu.eof /\ ~(sees /\ now - ReapedAt >= DrainGrace)
    BY <1>1 DEF Look
<1>3. /\ term'.status <=> sees
      /\ term'.reapedAt = IF sees THEN ReapedAt ELSE term.reapedAt
    BY <1>2 DEF Look, WatchExit, Types, Terms
<1>4. ASSUME hist'.reapedAt # Never
      PROVE  now - hist'.reapedAt < DrainGrace
  <2>1. sees /\ hist'.reapedAt = ReapedAt
      BY <1>3, <1>4, WatchReaped
  <2>2. ReapedAt \in Int
      BY UntilTypes DEF ReapedAt
  <2> QED
      BY <1>2, <2>1, <2>2, UntilTypes
<1> QED
    BY <1>4

(* The exit watch touches nothing of the emulator but its end. *)
LEMMA WatchEmu ==
    ASSUME Types
    PROVE  /\ WatchExit.emu.picture = emu.picture /\ WatchExit.emu.panicked = emu.panicked
           /\ WatchExit.emu.open = emu.open /\ WatchExit.emu.lastActivity = emu.lastActivity
           /\ WatchExit.emu.notes = emu.notes /\ WatchExit.emu.reads = emu.reads
           /\ \/ WatchExit.emu.eof = emu.eof /\ WatchExit.emu.generation = emu.generation
              \/ WatchExit.emu.eof /\ WatchExit.emu.generation = emu.generation + 1
BY DEF WatchExit, Types, Emus

(* A look of wait_until keeps it. *)
LEMMA UntilLooks == Types /\ UntilInv /\ UntilLook => UntilInv'
<1> SUFFICES ASSUME Types, UntilInv, UntilLook PROVE UntilInv'
    OBVIOUS
<1> DEFINE verdict == Verdict(WatchExit.emu)
           goesOn == verdict = "none" /\ now < wait.deadline
           at == CASE goesOn -> "until"
                   [] verdict = "none" /\ ~goesOn -> "expired"
                   [] verdict = "ok" /\ Current = "snapshot" -> "settle"
                   [] OTHER -> "free"
           kind == IF verdict = "none" THEN "timeout" ELSE verdict
           locals == [wait EXCEPT !.seen = WatchExit.emu.generation,
                                  !.wake = IF goesOn THEN now + MonitorSleep ELSE wait.wake]
           outcome == Outcome("until", kind, emu.picture)
<1>1. test = "until" /\ Look(WatchExit, at, outcome, locals)
    BY DEF UntilLook
<1>2. /\ emu' = WatchExit.emu /\ wait'.seen = emu'.generation /\ test' = at
      /\ hist'.ended = outcome /\ UNCHANGED scenario
    BY <1>1 DEF Look, Types, Locals, Histories
<1>3. emu'.generation \in Nat
    BY <1>2, WatchTypes DEF Emus
<1>4. verdict = "none" => emu.picture \notin Wanted /\ ~emu'.panicked /\ ~emu'.eof
  <2>1. ASSUME wait.seen = emu'.generation
        PROVE  emu.picture \notin Wanted /\ ~emu'.panicked /\ ~emu'.eof
    <3>1. emu'.generation = emu.generation /\ emu'.eof = emu.eof
        BY <1>2, <2>1, WatchEmu, UntilTypes DEF UntilInv
    <3> QED
        BY <1>1, <1>2, <2>1, <3>1, WatchEmu DEF UntilInv
  <2>2. ASSUME wait.seen # emu'.generation, verdict = "none"
        PROVE  emu.picture \notin Wanted /\ ~emu'.panicked /\ ~emu'.eof
    BY <1>2, <2>2, WatchEmu DEF Verdict
  <2> QED
      BY <2>1, <2>2
<1>5. /\ verdict = "ok" => emu.picture \in Wanted
      /\ verdict = "eof" => emu.picture \notin Wanted
      /\ verdict \in {"none", "emulator", "ok", "eof"}
  <2>1. WatchExit.emu.picture = emu.picture
      BY WatchEmu
  <2> QED
      BY <2>1 DEF Verdict
<1>6. at = "until" => verdict = "none"
    OBVIOUS
<1>7. UntilIsRight'
  <2>1. /\ hist'.ended.kind = kind /\ hist'.ended.decided = emu.picture /\ hist'.ended.at = now
        /\ hist'.ended.call = "until"
      BY <1>2 DEF Outcome
  <2>2. kind = "timeout" <=> verdict = "none"
      BY <1>5
  <2>3. kind = "timeout" /\ scenario.exitCloses => hist'.reapedAt = Never \/ now - hist'.reapedAt < DrainGrace
    <3> HIDE DEF verdict, at, outcome, locals, kind
    <3> QED
        BY <1>1, <1>4, <2>2, WatchCloses
  <2>4. kind = "ok" => emu.picture \in Wanted
      BY <1>5
  <2>5. kind \in {"eof", "timeout"} => emu.picture \notin Wanted
      BY <1>4, <1>5
  <2> HIDE DEF verdict, at, outcome, locals, kind
  <2> QED
      BY <1>2, <2>1, <2>3, <2>4, <2>5 DEF UntilIsRight
<1> HIDE DEF verdict, at, outcome, locals, kind
<1>8. /\ ~term'.status => term'.reapedAt = Never
      /\ hist'.reapedAt # Never => term'.status /\ term'.reapedAt = hist'.reapedAt
    BY <1>1, WatchReaped
<1>9. emu'.picture = emu.picture
    BY <1>2, WatchEmu
<1> QED
    BY <1>2, <1>3, <1>4, <1>6, <1>7, <1>8, <1>9 DEF UntilInv

(* A look of the other two waits tells of another call. *)
LEMMA UntilQuietLook ==
    ASSUME Types, UntilInv, NEW call \in {"quiet", "stable"}, test = call, NEW start \in Int,
           NEW locals \in Locals, locals.seen <= WatchExit.emu.generation,
           QuietLook(call, WatchExit, start, locals)
    PROVE  UntilInv'
<1> DEFINE w == WatchExit
           verdict == CASE w.emu.panicked -> "emulator"
                        [] ~w.emu.panicked /\ w.emu.eof -> "eof"
                        [] ~w.emu.panicked /\ ~w.emu.eof
                             /\ now - start >= Quiet /\ Complete(w.emu) -> "ok"
                        [] OTHER -> IF now >= wait.deadline THEN "timeout" ELSE "none"
           at == IF verdict = "none" THEN call ELSE "free"
           slept == [locals EXCEPT !.wake = IF verdict = "none" THEN now + QuietSleep(now - start)
                                            ELSE locals.wake]
           outcome == Outcome(call, verdict, emu.picture)
<1>1. Look(w, at, outcome, slept)
    BY DEF QuietLook, Locals
<1> HIDE DEF verdict
<1>2. /\ wait'.seen = locals.seen /\ emu' = WatchExit.emu /\ test' \in {call, "free"}
      /\ hist'.ended.call = call
    BY <1>1 DEF Look, Locals, Outcome, Types, Histories
<1>3. wait'.seen <= emu'.generation
    BY <1>2
<1> HIDE DEF at, outcome, slept
<1>4. /\ ~term'.status => term'.reapedAt = Never
      /\ hist'.reapedAt # Never => term'.status /\ term'.reapedAt = hist'.reapedAt
    BY <1>1, WatchReaped
<1> QED
    BY <1>2, <1>3, <1>4 DEF UntilInv, UntilIsRight

(* Every step of the waits on the screen keeps it. *)
LEMMA UntilScreenWaits ==
    Types /\ UntilInv /\ (WaitUntil \/ WaitIdle \/ WaitStable \/ SnapshotAfter \/ Settle
                          \/ UntilLook \/ UntilExpired \/ IdleLook \/ StableLook) => UntilInv'
<1>1. ASSUME Types, UntilInv, NEW to \in {"until", "quiet", "stable"}, test # "gone", StartWait(to)
      PROVE  UntilInv'
  <2>1. wait'.seen = Never /\ test' = to /\ UNCHANGED <<emu, term>> /\ hist'.reapedAt = hist.reapedAt
      BY <1>1 DEF StartWait, Types, Locals, Histories
  <2>2. wait'.seen <= emu'.generation /\ wait'.seen # emu'.generation
      BY <1>1, <2>1, UntilTypes
  <2> QED
      BY <1>1, <2>1, <2>2 DEF UntilInv, UntilIsRight
<1>2. Types /\ UntilInv /\ (WaitUntil \/ WaitIdle \/ WaitStable \/ SnapshotAfter \/ Settle) => UntilInv'
    BY <1>1 DEF WaitUntil, WaitIdle, WaitStable, SnapshotAfter, Settle, Call
<1>3. ASSUME Types, UntilInv, UntilExpired
      PROVE  UntilInv'
  <2>1. UNCHANGED <<scenario, emu, term, wait, hist.reapedAt, hist.ended.call, hist.ended.kind,
                    hist.ended.decided, hist.ended.at>>
        /\ test = "expired" /\ test' = "free"
      BY <1>3 DEF UntilExpired, Types, Histories, Outcomes
  <2> QED
      BY <1>3, <2>1 DEF UntilInv, UntilIsRight
<1>4. ASSUME Types, UntilInv, IdleLook
      PROVE  UntilInv'
  <2>1. emu.lastActivity \in Int /\ wait \in Locals
      BY <1>4 DEF Types, Emus
  <2>2. wait.seen <= WatchExit.emu.generation
      BY <1>4, WatchEmu, UntilTypes DEF UntilInv
  <2> QED
      BY <1>4, <2>1, <2>2, UntilQuietLook DEF IdleLook
<1>5. ASSUME Types, UntilInv, StableLook
      PROVE  UntilInv'
  <2> DEFINE locals == Observe(WatchExit.emu)
  <2>1. locals \in Locals /\ test = "stable" /\ QuietLook("stable", WatchExit, locals.since, locals)
      BY <1>5, WatchTypes, ObserveTypes DEF StableLook
  <2>2. locals.since \in Int
      BY <2>1 DEF Locals
  <2>3. locals.seen <= WatchExit.emu.generation
    <3>1. /\ wait.seen \in Int /\ wait.seen <= emu.generation /\ emu.generation \in Nat
          /\ WatchExit.emu.generation \in {emu.generation, emu.generation + 1}
        BY <1>5, WatchEmu, UntilTypes DEF UntilInv
    <3>2. locals.seen \in {emu.generation, wait.seen, WatchExit.emu.generation}
        BY <1>5 DEF Observe, Types, Locals
    <3> HIDE DEF locals
    <3> QED
        BY <3>1, <3>2
  <2> HIDE DEF locals
  <2> QED
      BY <1>5, <2>1, <2>2, <2>3, UntilQuietLook
<1> QED
    BY <1>2, <1>3, <1>4, <1>5, UntilLooks

(* The waits for the child and the teardown keep it. *)
LEMMA UntilChild ==
    Types /\ ProcessInv /\ UntilInv
    /\ (WaitExit \/ WaitExitAgain \/ ExitPoll \/ ExitExpired \/ DrainLook
        \/ Signal \/ SendSignal \/ Drop \/ HangUp \/ KillIt \/ ReapedBy) => UntilInv'
<1>1. ASSUME Types, ProcessInv, UntilInv, WaitExit
      PROVE  UntilInv'
  <2>1. wait'.seen = Never /\ test = "free" /\ test' = "exit" /\ UNCHANGED <<emu, term>>
        /\ hist'.reapedAt = hist.reapedAt
      BY <1>1 DEF WaitExit, StartWait, Call, Types, Locals, Histories
  <2>2. wait'.seen <= emu'.generation
      BY <1>1, <2>1, UntilTypes
  <2> QED
      BY <1>1, <2>1, <2>2 DEF UntilInv, UntilIsRight
<1>2. ASSUME Types, ProcessInv, UntilInv, WaitExitAgain
      PROVE  UntilInv'
  <2>1. /\ UNCHANGED <<wait, emu, term, test>> /\ hist'.reapedAt = hist.reapedAt /\ test = "free"
        /\ hist'.ended.call = "exit"
      BY <1>2 DEF WaitExitAgain, Call, Outcome, Types, Histories
  <2> QED
      BY <1>2, <2>1 DEF UntilInv, UntilIsRight
<1>3. ASSUME Types, ProcessInv, UntilInv, ExitPoll
      PROVE  UntilInv'
  <2>1. /\ test = "exit" /\ test' \in {"drain", "lost", "exitExpired", "exit"} /\ UNCHANGED emu
        /\ wait'.seen = wait.seen
      BY <1>3 DEF ExitPoll, Types, Locals
  <2>2. /\ term'.status <=> TryWait = "exited"
        /\ term'.reapedAt = IF TryWait = "exited" THEN ReapedAt ELSE term.reapedAt
        /\ hist'.reapedAt = IF TryWait = "exited" THEN now ELSE hist.reapedAt
      BY <1>3 DEF ExitPoll, Types, Terms, Histories
  <2>3. ~term.status /\ term.reapedAt = Never /\ hist.reapedAt = Never /\ ReapedAt = now
      BY <1>3, <2>1 DEF ProcessInv, ChildInv, UntilInv, ReapedAt
  <2> QED
      BY <1>3, <2>1, <2>2, <2>3 DEF UntilInv, UntilIsRight
<1>4. ASSUME Types, ProcessInv, UntilInv, ExitExpired
      PROVE  UntilInv'
  <2>1. /\ UNCHANGED <<wait, emu, term, hist.reapedAt, hist.ended.call>> /\ test = "exitExpired" /\ test' = "free"
      BY <1>4 DEF ExitExpired, Types, Histories, Outcomes
  <2> QED
      BY <1>4, <2>1 DEF ProcessInv, ToldInv, UntilInv, UntilIsRight
<1>5. ASSUME Types, ProcessInv, UntilInv, DrainLook
      PROVE  UntilInv'
  <2>1. /\ UNCHANGED <<term, hist.reapedAt>> /\ test \in {"drain", "lost"} /\ wait'.seen = wait.seen
        /\ emu'.generation = emu.generation
      BY <1>5 DEF DrainLook, Types, Emus, Locals, Histories
  <2>2. \/ UNCHANGED <<test, hist>>
        \/ test' = "free" /\ hist'.ended.call = "exit"
      BY <1>5 DEF DrainLook, Outcome, Types, Histories
  <2> QED
      BY <1>5, <2>1, <2>2 DEF UntilInv, UntilIsRight
<1>6. ASSUME Types, ProcessInv, UntilInv, Signal \/ SendSignal
      PROVE  UntilInv'
  <2>1. /\ UNCHANGED <<wait, emu, term.status, term.reapedAt, hist.reapedAt>> /\ test \in {"free", "killOnce"}
        /\ \/ test' = "free" /\ hist'.ended.call = "signal"
           \/ test' = "killOnce"
    <3>1. CASE Signal
        BY <1>6, <3>1 DEF Signal, Call, Outcome, Types, Terms, Histories
    <3>2. CASE SendSignal
        BY <1>6, <3>2 DEF SendSignal, Kill, Outcome, Types, Histories
    <3> QED
        BY <1>6, <3>1, <3>2
  <2> QED
      BY <1>6, <2>1 DEF UntilInv, UntilIsRight
<1>7. ASSUME Types, ProcessInv, UntilInv, Drop
      PROVE  UntilInv'
  <2>1. /\ UNCHANGED <<emu, term>> /\ wait'.seen = wait.seen /\ test = "free" /\ test' \in {"hangUp", "gone"}
      BY <1>7 DEF Drop, Call, Types, Locals
  <2>2. test' = "gone" \/ hist'.reapedAt = hist.reapedAt
      BY <1>7 DEF Drop, HasChildToStop, ReapedNow, AfterAsking, Types, Histories
  <2> QED
      BY <1>7, <2>1, <2>2 DEF UntilInv, UntilIsRight
<1>8. ASSUME Types, ProcessInv, UntilInv, HangUp \/ KillIt
      PROVE  UntilInv'
  <2>1. /\ UNCHANGED <<emu, term, hist.reapedAt>> /\ wait'.seen = wait.seen /\ test # "gone"
        /\ test' \in {"hup", "kill"}
      BY <1>8 DEF HangUp, KillIt, Kill, Types, Locals, Histories
  <2> QED
      BY <1>8, <2>1 DEF UntilInv, UntilIsRight
<1>9. ASSUME Types, ProcessInv, UntilInv, ReapedBy
      PROVE  UntilInv'
  <2>1. /\ UNCHANGED <<emu, term>> /\ wait'.seen = wait.seen /\ test \in {"hup", "kill"}
        /\ test' \in {"hup", "kill", "gone", "killIt"}
      BY <1>9 DEF ReapedBy, Types, Locals
  <2>2. test' = "gone" \/ hist'.reapedAt = hist.reapedAt
      BY <1>9 DEF ReapedBy, ReapedNow, AfterAsking, Types, Histories
  <2> QED
      BY <1>9, <2>1, <2>2 DEF UntilInv, UntilIsRight
<1> QED
    BY <1>1, <1>2, <1>3, <1>4, <1>5, <1>6, <1>7, <1>8, <1>9

(* Every step keeps UntilInv. *)
LEMMA UntilNext == Types /\ ProcessInv /\ UntilInv /\ [Next]_vars => UntilInv'
<1>1. UntilInv /\ UNCHANGED vars => UntilInv'
    BY DEF UntilInv, UntilIsRight, vars
<1> QED
    BY <1>1, UntilEnvironment, UntilScreenWaits, UntilChild DEF Next, TestStep

-----------------------------------------------------------------------------
(***************************************************************************)
(* What is returned has held still.                                        *)
(***************************************************************************)

(* The last activity is not before the last byte, and the picture has been
   there since; a look at another picture was no later; and what wait_stable
   compares with has been there since the time it counts from, with no other
   picture looked at after it. *)
HeldInv ==
    /\ hist.lastRead <= emu.lastActivity /\ emu.lastActivity <= now
    /\ {now, emu.lastActivity} \subseteq hist.shown[emu.picture]
    /\ \A p \in Pictures : hist.looked[p] <= now
    /\ \A p \in Pictures \ {emu.picture} : hist.looked[p] <= emu.lastActivity
    /\ test = "stable" /\ ~wait.fresh =>
         /\ wait.last \in Pictures /\ wait.since \in hist.shown[wait.last]
         /\ \A p \in Pictures \ {wait.last} : hist.looked[p] <= wait.since
         /\ wait.seen = emu.generation => wait.last = emu.picture

(* The times and pictures of HeldInv have their types. *)
LEMMA HeldTypes ==
    Types => /\ now \in Nat /\ emu.lastActivity \in Nat /\ emu.generation \in Nat /\ emu.picture \in Pictures
             /\ hist.lastRead \in Nat /\ hist.shown \in [Pictures -> SUBSET Nat]
             /\ hist.looked \in [Pictures -> Nat \union {Never}]
             /\ wait.since \in Nat /\ wait.seen \in Nat \union {Never} /\ Quiet \in Nat
BY WaitsAssumption DEF Types, Emus, Locals, Histories

(* HeldInv holds at the start. *)
LEMMA HeldInit == Init => HeldInv
BY DEF Init, HeldInv

(* Nothing that wait_stable goes by happens. *)
HeldVars == <<now, emu.picture, emu.lastActivity, emu.generation, test, wait.fresh, wait.last, wait.since, wait.seen,
              hist.lastRead, hist.shown, hist.looked>>

(* A step that touches none of its variables keeps it. *)
LEMMA HeldSame ==
    ASSUME HeldInv, UNCHANGED HeldVars
    PROVE  HeldInv'
BY DEF HeldInv, HeldVars

(* The reader thread touches the screen. *)
LEMMA HeldTouch ==
    ASSUME Types, HeldInv, UntilInv, NEW p \in Pictures, UNCHANGED <<now, test, wait, hist.looked>>,
           emu'.picture = p, emu'.lastActivity = now, emu'.generation = emu.generation + 1,
           hist'.lastRead \in {now, hist.lastRead},
           now \in hist'.shown[p], \A q \in Pictures : hist.shown[q] \subseteq hist'.shown[q]
    PROVE  HeldInv'
<1>1. hist'.lastRead <= emu'.lastActivity /\ emu'.lastActivity <= now'
    BY HeldTypes DEF HeldInv
<1>2. \A q \in Pictures : hist'.looked[q] <= emu'.lastActivity
    BY DEF HeldInv
<1>3. wait'.seen # emu'.generation
    BY UntilTypes DEF UntilInv
<1> QED
    BY <1>1, <1>2, <1>3 DEF HeldInv

(* The reader keeps it: a picture that is painted is shown from then on. *)
LEMMA HeldEnvironment == Types /\ HeldInv /\ UntilInv /\ Environment => HeldInv'
<1> SUFFICES ASSUME Types, HeldInv, UntilInv, Environment PROVE HeldInv'
    OBVIOUS
<1>1. ASSUME NEW p \in Pictures, NEW o, NEW asked, ReadChunk(p, o, asked)
      PROVE  HeldInv'
  <2>1. /\ UNCHANGED <<now, test, wait, hist.looked>> /\ emu'.picture = p /\ emu'.lastActivity = now
        /\ emu'.generation = emu.generation + 1 /\ hist'.lastRead = now
        /\ hist'.shown = [hist.shown EXCEPT ![p] = hist.shown[p] \union {now}]
      BY <1>1 DEF ReadChunk, Touch, Types, Emus, Histories
  <2>2. now \in hist'.shown[p] /\ \A q \in Pictures : hist.shown[q] \subseteq hist'.shown[q]
      BY <2>1, HeldTypes
  <2> QED
      BY <2>1, <2>2, HeldTouch
<1>2. CASE Panic \/ SetEof
  <2>1. /\ UNCHANGED <<now, test, wait, hist.looked, hist.shown>>
        /\ emu'.picture = emu.picture /\ emu'.lastActivity = now
        /\ emu'.generation = emu.generation + 1 /\ hist'.lastRead \in {now, hist.lastRead}
      BY <1>2 DEF Panic, SetEof, Touch, Types, Emus, Histories
  <2> QED
      BY <2>1, HeldTouch, HeldTypes DEF HeldInv
<1>3. CASE ChildExits \/ SomeoneReaps \/ PidIsReused
  <2>1. UNCHANGED HeldVars
      BY <1>3 DEF ChildExits, SomeoneReaps, PidIsReused, Taken, HeldVars, Types, Histories
  <2> QED
      BY <2>1, HeldSame
<1>4. CASE Tick
  <2>1. /\ now' = now + 1 /\ UNCHANGED <<emu, test, wait, hist.lastRead, hist.looked>>
        /\ hist'.shown = [hist.shown EXCEPT ![emu.picture] = hist.shown[emu.picture] \union {now + 1}]
      BY <1>4 DEF Tick, Types, Histories
  <2>2. /\ \A q \in Pictures : hist.shown[q] \subseteq hist'.shown[q]
        /\ now + 1 \in hist'.shown[emu.picture]
      BY <2>1, HeldTypes
  <2>3. emu'.lastActivity <= now' /\ \A q \in Pictures : hist'.looked[q] <= now'
      BY <2>1, HeldTypes DEF HeldInv
  <2> QED
      BY <2>1, <2>2, <2>3 DEF HeldInv
<1> QED
    BY <1>1, <1>2, <1>3, <1>4 DEF Environment

(* A look leaves the picture and its times, and notes the picture. *)
LEMMA HeldLook ==
    ASSUME Types, HeldInv, NEW at, NEW outcome, NEW locals \in Locals, Look(WatchExit, at, outcome, locals)
    PROVE  /\ UNCHANGED <<now, emu.picture, emu.lastActivity, hist.lastRead, hist.shown>>
           /\ hist'.looked = [hist.looked EXCEPT ![emu.picture] = now]
           /\ test' = at /\ wait' = [locals EXCEPT !.fresh = FALSE]
           /\ emu' = WatchExit.emu
           /\ hist'.lastRead <= emu'.lastActivity /\ emu'.lastActivity <= now'
           /\ {now', emu'.lastActivity} \subseteq hist'.shown[emu'.picture]
           /\ \A p \in Pictures : hist'.looked[p] <= now'
           /\ \A p \in Pictures \ {emu'.picture} : hist'.looked[p] <= emu'.lastActivity
<1>1. /\ UNCHANGED <<now, hist.lastRead, hist.shown>> /\ emu' = WatchExit.emu
      /\ hist'.looked = [hist.looked EXCEPT ![emu.picture] = now]
      /\ test' = at /\ wait' = [locals EXCEPT !.fresh = FALSE]
    BY DEF Look, Types, Histories
<1>2. UNCHANGED <<emu.picture, emu.lastActivity>>
    BY <1>1, WatchEmu
<1>3. \A p \in Pictures : hist'.looked[p] = IF p = emu.picture THEN now ELSE hist.looked[p]
    BY <1>1, HeldTypes
<1>4. /\ \A p \in Pictures : hist'.looked[p] <= now'
      /\ \A p \in Pictures \ {emu'.picture} : hist'.looked[p] <= emu'.lastActivity
    BY <1>1, <1>2, <1>3, HeldTypes DEF HeldInv
<1> QED
    BY <1>1, <1>2, <1>4 DEF HeldInv

(* The look of wait_idle or wait_stable, with what it decides. *)
LEMMA QuietLookDecides ==
    ASSUME Types, NEW call \in {"quiet", "stable"}, NEW start \in Nat, NEW locals \in Locals,
           QuietLook(call, WatchExit, start, locals)
    PROVE  \E verdict \in {"none", "emulator", "eof", "ok", "timeout"}, wake \in Nat :
             /\ Look(WatchExit, IF verdict = "none" THEN call ELSE "free", Outcome(call, verdict, emu.picture),
                     [locals EXCEPT !.wake = wake])
             /\ verdict \in {"none", "ok"} => ~WatchExit.emu.eof
             /\ verdict = "ok" => now - start >= Quiet /\ Complete(emu)
<1> DEFINE w == WatchExit
           verdict == CASE w.emu.panicked -> "emulator"
                        [] ~w.emu.panicked /\ w.emu.eof -> "eof"
                        [] ~w.emu.panicked /\ ~w.emu.eof
                             /\ now - start >= Quiet /\ Complete(w.emu) -> "ok"
                        [] OTHER -> IF now >= wait.deadline THEN "timeout" ELSE "none"
           wake == IF verdict = "none" THEN now + QuietSleep(now - start) ELSE locals.wake
<1>1. Look(w, IF verdict = "none" THEN call ELSE "free", Outcome(call, verdict, emu.picture),
           [locals EXCEPT !.wake = wake])
    BY DEF QuietLook
<1>2. verdict \in {"none", "emulator", "eof", "ok", "timeout"}
    OBVIOUS
<1>3. verdict \in {"none", "ok"} => ~w.emu.eof
    OBVIOUS
<1>4. verdict = "ok" => now - start >= Quiet /\ Complete(emu)
  <2>1. Complete(w.emu) <=> Complete(emu)
      BY WatchEmu DEF Complete
  <2> HIDE DEF w
  <2> QED
      BY <2>1
<1>5. wake \in Nat
  <2>1. now - start \in Int /\ locals.wake \in Nat
      BY HeldTypes DEF Locals
  <2> HIDE DEF verdict
  <2> QED
      BY <2>1, SleepTypes
<1> HIDE DEF verdict, wake
<1> QED
    BY <1>1, <1>2, <1>3, <1>4, <1>5

(* What wait_stable goes by after a look that does not end the stream. *)
LEMMA StableObserves ==
    ASSUME Types, HeldInv, test = "stable", WatchExit.emu.generation = emu.generation
    PROVE  LET locals == Observe(WatchExit.emu) IN
           /\ locals.last = emu.picture /\ locals.since \in hist.shown[emu.picture]
           /\ \A p \in Pictures \ {emu.picture} : hist.looked[p] <= locals.since
<1> DEFINE locals == Observe(WatchExit.emu)
<1> SUFFICES /\ locals.last = emu.picture /\ locals.since \in hist.shown[emu.picture]
             /\ \A p \in Pictures \ {emu.picture} : hist.looked[p] <= locals.since
    OBVIOUS
<1>1. CASE wait.fresh
  <2>1. locals.last = emu.picture /\ locals.since = emu.lastActivity
      BY <1>1 DEF Observe, Types, Locals
  <2> HIDE DEF locals
  <2> QED
      BY <2>1 DEF HeldInv
<1>2. CASE ~wait.fresh /\ emu.generation = wait.seen
  <2>1. locals = wait /\ wait.last = emu.picture
      BY <1>2 DEF Observe, HeldInv
  <2> HIDE DEF locals
  <2> QED
      BY <1>2, <2>1 DEF HeldInv
<1>3. CASE ~wait.fresh /\ emu.generation # wait.seen /\ emu.picture = wait.last
  <2>1. locals.last = emu.picture /\ locals.since = wait.since
      BY <1>3, WatchEmu DEF Observe, Types, Locals
  <2> HIDE DEF locals
  <2> QED
      BY <1>3, <2>1 DEF HeldInv
<1>4. CASE ~wait.fresh /\ emu.generation # wait.seen /\ emu.picture # wait.last
  <2>1. locals.last = emu.picture /\ locals.since = emu.lastActivity
      BY <1>4, WatchEmu DEF Observe, Types, Locals
  <2> HIDE DEF locals
  <2> QED
      BY <2>1 DEF HeldInv
<1> QED
    BY <1>1, <1>2, <1>3, <1>4

(* The waits on the screen keep it: a look at another picture starts the quiet period anew. *)
LEMMA HeldScreenWaits ==
    Types /\ HeldInv /\ UntilInv
    /\ (WaitUntil \/ WaitIdle \/ WaitStable \/ SnapshotAfter \/ Settle
        \/ UntilLook \/ UntilExpired \/ IdleLook \/ StableLook) => HeldInv'
<1>1. ASSUME Types, HeldInv, NEW to, StartWait(to)
      PROVE  HeldInv'
  <2>1. /\ UNCHANGED <<now, emu, hist.lastRead, hist.shown>> /\ wait'.fresh
        /\ hist'.looked = [p \in Pictures |-> Never]
      BY <1>1 DEF StartWait, Types, Locals, Histories
  <2>2. \A p \in Pictures : hist'.looked[p] <= now /\ hist'.looked[p] <= emu.lastActivity
      BY <1>1, <2>1, HeldTypes
  <2> QED
      BY <1>1, <2>1, <2>2 DEF HeldInv
<1>2. Types /\ HeldInv /\ (WaitUntil \/ WaitIdle \/ WaitStable \/ SnapshotAfter \/ Settle) => HeldInv'
    BY <1>1 DEF WaitUntil, WaitIdle, WaitStable, SnapshotAfter, Settle
<1>3. ASSUME Types, HeldInv, UntilExpired
      PROVE  HeldInv'
  <2>1. /\ UNCHANGED <<now, emu, wait, hist.lastRead, hist.shown, hist.looked>> /\ test' = "free"
      BY <1>3 DEF UntilExpired, Types, Histories
  <2> QED
      BY <1>3, <2>1 DEF HeldInv
<1>4. ASSUME Types, HeldInv, NEW at, at # "stable", NEW outcome, NEW locals \in Locals,
             Look(WatchExit, at, outcome, locals)
      PROVE  HeldInv'
    BY <1>4, HeldLook DEF HeldInv
<1>5. ASSUME Types, HeldInv, UntilLook
      PROVE  HeldInv'
  <2> DEFINE goesOn == Verdict(WatchExit.emu) = "none" /\ now < wait.deadline
             locals == [wait EXCEPT !.seen = WatchExit.emu.generation,
                                    !.wake = IF goesOn THEN now + MonitorSleep ELSE wait.wake]
  <2>1. locals \in Locals
    <3>1. /\ wait \in Locals /\ WatchExit.emu.generation \in Nat
          /\ (IF goesOn THEN now + MonitorSleep ELSE wait.wake) \in Nat
        BY <1>5, WatchTypes, SleepTypes, ClockTypes DEF Emus
    <3> QED
        BY <3>1, LocalTypes
  <2>2. PICK at, outcome : at # "stable" /\ Look(WatchExit, at, outcome, locals)
      BY <1>5 DEF UntilLook
  <2> QED
      BY <1>4, <1>5, <2>1, <2>2
<1>6. ASSUME Types, HeldInv, IdleLook
      PROVE  HeldInv'
  <2>1. wait \in Locals /\ emu.lastActivity \in Nat
      BY <1>6, ClockTypes, HeldTypes
  <2>2. PICK verdict \in {"none", "emulator", "eof", "ok", "timeout"}, wake \in Nat :
          Look(WatchExit, IF verdict = "none" THEN "quiet" ELSE "free",
               Outcome("quiet", verdict, emu.picture), [wait EXCEPT !.wake = wake])
      BY <1>6, <2>1, QuietLookDecides DEF IdleLook
  <2>3. [wait EXCEPT !.wake = wake] \in Locals
      BY <2>1, WakeTypes
  <2> QED
      BY <1>4, <1>6, <2>2, <2>3
<1>7. ASSUME Types, HeldInv, UntilInv, StableLook
      PROVE  HeldInv'
  <2> DEFINE locals == Observe(WatchExit.emu)
  <2>1. locals \in Locals /\ QuietLook("stable", WatchExit, locals.since, locals)
      BY <1>7, WatchTypes, ObserveTypes DEF StableLook
  <2>2. test = "stable" /\ locals.since \in Nat
      BY <1>7, <2>1 DEF StableLook, Locals
  <2>3. PICK verdict \in {"none", "emulator", "eof", "ok", "timeout"}, wake \in Nat :
          /\ Look(WatchExit, IF verdict = "none" THEN "stable" ELSE "free",
                  Outcome("stable", verdict, emu.picture), [locals EXCEPT !.wake = wake])
          /\ verdict = "none" => ~WatchExit.emu.eof
    <3> HIDE DEF locals
    <3> QED
        BY <1>7, <2>1, <2>2, QuietLookDecides
  <2> DEFINE at == IF verdict = "none" THEN "stable" ELSE "free"
  <2>4. [locals EXCEPT !.wake = wake] \in Locals
      BY <2>1, <2>3, WakeTypes
  <2>5. CASE at = "free"
    <3> HIDE DEF locals
    <3> QED
        BY <1>4, <1>7, <2>3, <2>4, <2>5
  <2>6. CASE at = "stable"
    <3>1. WatchExit.emu.generation = emu.generation
        BY <1>7, <2>3, <2>6, WatchEmu
    <3>2. /\ locals.last = emu.picture /\ locals.since \in hist.shown[emu.picture]
          /\ \A p \in Pictures \ {emu.picture} : hist.looked[p] <= locals.since
        BY <1>7, <2>2, <3>1, StableObserves
    <3> DEFINE slept == [locals EXCEPT !.wake = wake]
    <3>3. /\ wait'.last = locals.last /\ wait'.since = locals.since /\ emu'.picture = emu.picture
          /\ hist'.shown = hist.shown /\ hist'.looked = [hist.looked EXCEPT ![emu.picture] = now]
      <4>1. slept.last = locals.last /\ slept.since = locals.since
          BY <2>1 DEF Locals
      <4> HIDE DEF locals
      <4>2. slept \in Locals /\ Look(WatchExit, at, Outcome("stable", verdict, emu.picture), slept)
          BY <2>3, <2>4
      <4> HIDE DEF slept
      <4>3. wait' = [slept EXCEPT !.fresh = FALSE] /\ emu'.picture = emu.picture
            /\ hist'.shown = hist.shown /\ hist'.looked = [hist.looked EXCEPT ![emu.picture] = now]
          BY <1>7, <4>2, HeldLook
      <4> QED
          BY <4>1, <4>2, <4>3 DEF Locals
    <3> HIDE DEF locals
    <3>4. \A p \in Pictures \ {wait'.last} : hist'.looked[p] <= wait'.since
        BY <1>7, <3>2, <3>3, HeldTypes
    <3>5. /\ hist'.lastRead <= emu'.lastActivity /\ emu'.lastActivity <= now'
          /\ {now', emu'.lastActivity} \subseteq hist'.shown[emu'.picture]
          /\ \A p \in Pictures : hist'.looked[p] <= now'
          /\ \A p \in Pictures \ {emu'.picture} : hist'.looked[p] <= emu'.lastActivity
        BY <1>7, <2>3, <2>4, HeldLook
    <3> QED
        BY <1>7, <3>2, <3>3, <3>4, <3>5, HeldTypes DEF HeldInv
  <2> QED
      BY <2>5, <2>6
<1> QED
    BY <1>2, <1>3, <1>5, <1>6, <1>7

(* The waits for the child and the teardown keep it. *)
LEMMA HeldChild ==
    Types /\ HeldInv
    /\ (WaitExit \/ WaitExitAgain \/ ExitPoll \/ ExitExpired \/ DrainLook
        \/ Signal \/ SendSignal \/ Drop \/ HangUp \/ KillIt \/ ReapedBy) => HeldInv'
<1> SUFFICES ASSUME Types, HeldInv,
                    WaitExit \/ WaitExitAgain \/ ExitPoll \/ ExitExpired \/ DrainLook
                    \/ Signal \/ SendSignal \/ Drop \/ HangUp \/ KillIt \/ ReapedBy
             PROVE  HeldInv'
    OBVIOUS
<1>1. UNCHANGED <<now, emu.picture, emu.lastActivity>> /\ test' # "stable"
    BY DEF WaitExit, WaitExitAgain, ExitPoll, ExitExpired, DrainLook, Signal, SendSignal, Drop, HangUp, KillIt,
           ReapedBy, StartWait, Call, Types, Emus
<1>2. UNCHANGED <<hist.lastRead, hist.shown>>
    BY DEF WaitExit, WaitExitAgain, ExitPoll, ExitExpired, DrainLook, Signal, SendSignal, Drop, HangUp, KillIt,
           ReapedBy, StartWait, Kill, AfterAsking, Types, Histories
<1>3. CASE WaitExit
  <2>1. hist'.looked = [p \in Pictures |-> Never]
      BY <1>3 DEF WaitExit, StartWait, Types, Histories
  <2>2. \A p \in Pictures : hist'.looked[p] <= now /\ hist'.looked[p] <= emu.lastActivity
      BY <2>1, HeldTypes
  <2> QED
      BY <1>1, <1>2, <2>2 DEF HeldInv
<1>4. CASE ~WaitExit
  <2>1. hist'.looked = hist.looked
      BY <1>4 DEF WaitExitAgain, ExitPoll, ExitExpired, DrainLook, Signal, SendSignal, Drop, HangUp, KillIt,
                  ReapedBy, Kill, AfterAsking, Types, Histories
  <2> QED
      BY <1>1, <1>2, <2>1 DEF HeldInv
<1> QED
    BY <1>3, <1>4

(* Every step keeps HeldInv. *)
LEMMA HeldNext == Types /\ UntilInv /\ HeldInv /\ [Next]_vars => HeldInv'
<1>1. HeldInv /\ UNCHANGED vars => HeldInv'
    BY DEF HeldInv, vars
<1> QED
    BY <1>1, HeldEnvironment, HeldScreenWaits, HeldChild DEF Next, TestStep

(* What StillHeld says of a step. *)
Held ==
    test' = "free" /\ test \in {"quiet", "stable"} /\ hist'.ended.kind = "ok" =>
        /\ emu.open = {}
        /\ test = "quiet" => now - hist.lastRead >= Quiet
        /\ test = "stable" =>
              \E time \in hist.shown[emu.picture] :
                  /\ now - time >= Quiet
                  /\ \A p \in Pictures \ {emu.picture} : hist.looked[p] <= time

(* No step returns a screen that has not held still. *)
LEMMA HeldStep == Types /\ HeldInv /\ [Next]_vars => Held
<1> SUFFICES ASSUME Types, HeldInv, [Next]_vars,
                    test' = "free", test \in {"quiet", "stable"}, hist'.ended.kind = "ok"
             PROVE  /\ emu.open = {}
                    /\ test = "quiet" => now - hist.lastRead >= Quiet
                    /\ test = "stable" =>
                          \E time \in hist.shown[emu.picture] :
                              /\ now - time >= Quiet
                              /\ \A p \in Pictures \ {emu.picture} : hist.looked[p] <= time
    BY DEF Held
<1>1. IdleLook \/ StableLook
  <2>1. ~UNCHANGED test
      OBVIOUS
  <2>2. ~Environment
      BY <2>1 DEF Environment, ReadChunk, Panic, SetEof, ChildExits, SomeoneReaps, PidIsReused, Tick
  <2>3. ~(WaitUntil \/ WaitIdle \/ WaitStable \/ SnapshotAfter \/ Settle \/ UntilLook \/ UntilExpired)
      BY DEF WaitUntil, WaitIdle, WaitStable, SnapshotAfter, Settle, UntilLook, UntilExpired, Call
  <2>4. ~(WaitExit \/ WaitExitAgain \/ ExitPoll \/ ExitExpired \/ DrainLook
          \/ Signal \/ SendSignal \/ Drop \/ HangUp \/ KillIt \/ ReapedBy)
      BY DEF WaitExit, WaitExitAgain, ExitPoll, ExitExpired, DrainLook, Signal, SendSignal, Drop, HangUp, KillIt,
             ReapedBy, Call
  <2> QED
      BY <2>1, <2>2, <2>3, <2>4 DEF Next, TestStep, vars
<1>2. ASSUME NEW call \in {"quiet", "stable"}, NEW start \in Nat, NEW locals \in Locals,
             QuietLook(call, WatchExit, start, locals)
      PROVE  now - start >= Quiet /\ emu.open = {} /\ ~WatchExit.emu.eof
  <2>1. PICK verdict \in {"none", "emulator", "eof", "ok", "timeout"}, wake \in Nat :
          /\ Look(WatchExit, IF verdict = "none" THEN call ELSE "free", Outcome(call, verdict, emu.picture),
                  [locals EXCEPT !.wake = wake])
          /\ verdict \in {"none", "ok"} => ~WatchExit.emu.eof
          /\ verdict = "ok" => now - start >= Quiet /\ Complete(emu)
      BY <1>2, QuietLookDecides
  <2>2. hist'.ended.kind = verdict
      BY <2>1 DEF Look, Outcome, Types, Histories
  <2> QED
      BY <2>1, <2>2 DEF Complete
<1>3. CASE IdleLook
  <2>1. test = "quiet" /\ QuietLook("quiet", WatchExit, emu.lastActivity, wait)
      BY <1>3 DEF IdleLook
  <2>2. now - emu.lastActivity >= Quiet /\ emu.open = {}
      BY <1>2, <2>1, HeldTypes, ClockTypes
  <2>3. now - hist.lastRead >= Quiet
      BY <2>2, HeldTypes DEF HeldInv
  <2> QED
      BY <2>1, <2>2, <2>3
<1>4. CASE StableLook
  <2> DEFINE locals == Observe(WatchExit.emu)
  <2>1. test = "stable" /\ QuietLook("stable", WatchExit, locals.since, locals)
      BY <1>4 DEF StableLook
  <2>2. locals \in Locals /\ locals.since \in Nat
    <3>1. locals \in Locals
        BY WatchTypes, ObserveTypes
    <3> QED
        BY <3>1 DEF Locals
  <2>3. now - locals.since >= Quiet /\ emu.open = {} /\ ~WatchExit.emu.eof
    <3> HIDE DEF locals
    <3> QED
        BY <1>2, <2>1, <2>2
  <2>4. WatchExit.emu.generation = emu.generation
      BY <2>3, WatchEmu
  <2>5. /\ locals.since \in hist.shown[emu.picture]
        /\ \A p \in Pictures \ {emu.picture} : hist.looked[p] <= locals.since
      BY <2>1, <2>4, StableObserves
  <2> HIDE DEF locals
  <2> QED
      BY <2>1, <2>3, <2>5
<1> QED
    BY <1>1, <1>3, <1>4

-----------------------------------------------------------------------------
(***************************************************************************)
(* What is noted of unanswered queries.                                    *)
(***************************************************************************)

(* The notes tell of each shape they keep the read it was last asked in, once,
   and forget none but for the bound. *)
Telling(notes, asked, reads) ==
    /\ Len(notes.kept) <= MaxUnanswered
    /\ \A i, j \in DOMAIN notes.kept : notes.kept[i].shape = notes.kept[j].shape => i = j
    /\ \A i \in DOMAIN notes.kept : notes.kept[i].read = asked[notes.kept[i].shape]
    /\ \A s \in QueryShapes : /\ asked[s] <= reads
                              /\ asked[s] > 0 => Asked(notes, s) \/ notes.overflow > 0

(* The parts of the notes. *)
LEMMA NotesTypes ==
    ASSUME NEW notes \in Notes
    PROVE  /\ notes.kept \in Seq([shape : QueryShapes, read : Nat]) /\ notes.overflow \in Nat
           /\ Len(notes.kept) \in Nat /\ DOMAIN notes.kept = 1..Len(notes.kept)
           /\ \A i \in DOMAIN notes.kept : notes.kept[i].shape \in QueryShapes /\ notes.kept[i].read \in Nat
<1>1. notes.kept \in Seq([shape : QueryShapes, read : Nat]) /\ notes.overflow \in Nat
    BY DEF Notes
<1>2. Len(notes.kept) \in Nat /\ DOMAIN notes.kept = 1..Len(notes.kept)
    BY <1>1, LenProperties
<1>3. \A i \in 1..Len(notes.kept) : notes.kept[i] \in [shape : QueryShapes, read : Nat]
    BY <1>1, ElementOfSeq
<1> QED
    BY <1>1, <1>2, <1>3

(* A query that is left unanswered is noted so. *)
LEMMA NoteTells ==
    ASSUME NEW notes \in Notes, NEW asked \in [QueryShapes -> Nat], NEW reads \in Nat, NEW shape \in QueryShapes,
           Telling(notes, asked, reads)
    PROVE  Telling(NoteUnanswered(notes, shape, reads + 1),
                   [s \in QueryShapes |-> IF s = shape THEN reads + 1 ELSE asked[s]], reads + 1)
<1> DEFINE then == [s \in QueryShapes |-> IF s = shape THEN reads + 1 ELSE asked[s]]
           kept == notes.kept
           noted == NoteUnanswered(notes, shape, reads + 1)
<1>1. /\ kept \in Seq([shape : QueryShapes, read : Nat]) /\ notes.overflow \in Nat
      /\ Len(kept) \in Nat /\ DOMAIN kept = 1..Len(kept)
      /\ \A i \in DOMAIN kept : kept[i].shape \in QueryShapes /\ kept[i].read \in Nat
    BY NotesTypes
<1>2. \A s \in QueryShapes : then[s] <= reads + 1
    BY DEF Telling
<1>3. CASE Asked(notes, shape)
  <2>1. /\ noted.kept = [i \in DOMAIN kept |-> IF kept[i].shape = shape THEN [kept[i] EXCEPT !.read = reads + 1]
                                                ELSE kept[i]]
        /\ noted.overflow = notes.overflow
      BY <1>3 DEF NoteUnanswered, Notes
  <2>2. \A i \in DOMAIN kept : kept[i] \in [shape : QueryShapes, read : Nat]
      BY <1>1, ElementOfSeq
  <2>3. ASSUME NEW i \in DOMAIN kept
        PROVE  /\ noted.kept[i].shape = kept[i].shape
               /\ noted.kept[i].read = IF kept[i].shape = shape THEN reads + 1 ELSE kept[i].read
    <3>1. noted.kept[i] = IF kept[i].shape = shape THEN [kept[i] EXCEPT !.read = reads + 1] ELSE kept[i]
        BY <2>1
    <3> QED
        BY <2>2, <3>1
  <2>4. DOMAIN noted.kept = DOMAIN kept /\ Len(noted.kept) = Len(kept)
    <3>1. DOMAIN noted.kept = 1..Len(kept)
        BY <1>1, <2>1
    <3>2. noted \in Notes
        BY NoteTypes
    <3>3. DOMAIN noted.kept = 1..Len(noted.kept) /\ Len(noted.kept) \in Nat
        BY <3>2, NotesTypes
    <3> QED
        BY <1>1, <3>1, <3>3
  <2>5. \A s \in QueryShapes : Asked(noted, s) <=> Asked(notes, s)
      BY <2>3, <2>4 DEF Asked
  <2>6. \A i \in DOMAIN kept : noted.kept[i].read = then[noted.kept[i].shape]
      BY <1>1, <2>3 DEF Telling
  <2>7. \A s \in QueryShapes : then[s] > 0 => Asked(noted, s) \/ noted.overflow > 0
      BY <1>3, <2>1, <2>5 DEF Telling
  <2>8. \A i, j \in DOMAIN kept : noted.kept[i].shape = noted.kept[j].shape => i = j
      BY <2>3 DEF Telling
  <2>9. Len(noted.kept) <= MaxUnanswered
      BY <2>4 DEF Telling
  <2> HIDE DEF then, kept, noted
  <2> QED
      BY <1>2, <2>4, <2>6, <2>7, <2>8, <2>9 DEF Telling, then, noted
<1>4. CASE ~Asked(notes, shape) /\ Len(kept) < MaxUnanswered
  <2> DEFINE entry == [shape |-> shape, read |-> reads + 1]
  <2>1. noted.kept = Append(kept, entry) /\ noted.overflow = notes.overflow
      BY <1>4 DEF NoteUnanswered, Notes
  <2>2. entry.shape = shape /\ entry.read = reads + 1
      OBVIOUS
  <2> DEFINE last == Len(kept) + 1
             longer == noted.kept
  <2>3. /\ Len(longer) = last /\ DOMAIN longer = 1..last
        /\ \A i \in 1..Len(kept) : longer[i] = kept[i]
        /\ longer[last] = entry
    <3>1. entry \in [shape : QueryShapes, read : Nat]
        OBVIOUS
    <3>2. longer = Append(kept, entry)
        BY <2>1
    <3> HIDE DEF entry, kept, longer
    <3> QED
        BY <1>1, <3>1, <3>2, AppendProperties
  <2>4. \A i \in DOMAIN longer : i \in 1..Len(kept) \/ i = last
    <3> HIDE DEF entry, kept, longer
    <3> QED
        BY <1>1, <2>3
  <2>5. \A i \in 1..Len(kept) : kept[i].shape # shape
      BY <1>1, <1>4 DEF Asked
  <2>6. /\ \A i, j \in 1..Len(kept) : kept[i].shape = kept[j].shape => i = j
        /\ \A i \in 1..Len(kept) : kept[i].read = asked[kept[i].shape] /\ kept[i].shape \in QueryShapes
      BY <1>1 DEF Telling
  <2>7. \A s \in QueryShapes : Asked(noted, s) <=> s = shape \/ Asked(notes, s)
    <3>1. \A s : Asked(noted, s) <=> \E i \in DOMAIN longer : longer[i].shape = s
        BY DEF Asked
    <3>2. \A s : Asked(notes, s) <=> \E i \in 1..Len(kept) : kept[i].shape = s
        BY <1>1 DEF Asked
    <3>3. last \in DOMAIN longer /\ 1..Len(kept) \subseteq DOMAIN longer
        BY <1>1, <2>3
    <3> HIDE DEF entry, kept, longer, last, noted
    <3> QED
        BY <2>2, <2>3, <2>4, <3>1, <3>2, <3>3
  <2> HIDE DEF entry, kept, longer, last
  <2>8. \A i, j \in DOMAIN longer : longer[i].shape = longer[j].shape => i = j
      BY <2>2, <2>3, <2>5, <2>4, <2>6
  <2>9. \A i \in DOMAIN longer : longer[i].read = then[longer[i].shape]
      BY <2>2, <2>3, <2>5, <2>4, <2>6
  <2>10. \A s \in QueryShapes : then[s] > 0 => Asked(noted, s) \/ noted.overflow > 0
      BY <2>1, <2>7 DEF Telling
  <2>11. Len(noted.kept) <= MaxUnanswered
      BY <1>1, <1>4, <2>3, UnansweredAssumption DEF longer, last
  <2> HIDE DEF then, noted
  <2> QED
      BY <1>2, <2>8, <2>9, <2>10, <2>11 DEF Telling, then, noted, longer
<1>5. CASE ~Asked(notes, shape) /\ ~(Len(kept) < MaxUnanswered)
  <2>1. noted.kept = kept /\ noted.overflow = notes.overflow + 1
      BY <1>5 DEF NoteUnanswered, Notes
  <2>2. noted.overflow > 0
      BY <1>1, <2>1
  <2>3. \A i \in DOMAIN kept : kept[i].read = then[kept[i].shape]
      BY <1>1, <1>5 DEF Telling, Asked
  <2> HIDE DEF then, noted
  <2> QED
      BY <1>2, <2>1, <2>2, <2>3 DEF Telling, then, noted
<1> QED
    BY <1>3, <1>4, <1>5

NotesInv == Telling(emu.notes, hist.lastAsked, emu.reads)

(* NotesInv holds at the start. *)
LEMMA NotesInit == Init => NotesInv
<1> SUFFICES ASSUME Init PROVE NotesInv
    OBVIOUS
<1>1. emu.notes.kept = <<>> /\ emu.reads = 0 /\ hist.lastAsked = [s \in QueryShapes |-> 0]
    BY DEF Init, NothingUnanswered
<1> QED
    BY <1>1, UnansweredAssumption DEF NotesInv, Telling

(* Later reads are no earlier. *)
LEMMA NotesRead ==
    ASSUME Types, NotesInv, emu'.notes = emu.notes, hist'.lastAsked = hist.lastAsked, emu'.reads = emu.reads + 1
    PROVE  NotesInv'
<1>1. emu.reads \in Nat /\ hist.lastAsked \in [QueryShapes -> Nat]
    BY DEF Types, Emus, Histories
<1> QED
    BY <1>1 DEF NotesInv, Telling

(* Every step keeps NotesInv. *)
LEMMA NotesNext == Types /\ NotesInv /\ [Next]_vars => NotesInv'
<1> SUFFICES ASSUME Types, NotesInv, [Next]_vars PROVE NotesInv'
    OBVIOUS
<1>1. ASSUME NEW p, NEW o, NEW asked, ReadChunk(p, o, asked)
      PROVE  NotesInv'
  <2>1. /\ emu'.notes = (IF asked \in QueryShapes THEN NoteUnanswered(emu.notes, asked, emu.reads + 1) ELSE emu.notes)
        /\ emu'.reads = emu.reads + 1
        /\ hist'.lastAsked = [s \in QueryShapes |-> IF s = asked THEN emu.reads + 1 ELSE hist.lastAsked[s]]
      BY <1>1 DEF ReadChunk, Touch, Types, Emus, Histories
  <2>2. /\ emu.notes \in Notes /\ emu.reads \in Nat /\ hist.lastAsked \in [QueryShapes -> Nat]
      BY DEF Types, Emus, Histories
  <2>3. CASE asked \in QueryShapes
      BY <2>1, <2>2, <2>3, NoteTells DEF NotesInv
  <2>4. CASE asked \notin QueryShapes
    <3>1. hist'.lastAsked = hist.lastAsked
        BY <2>1, <2>2, <2>4
    <3> QED
        BY <2>1, <2>4, <3>1, NotesRead
  <2> QED
      BY <2>3, <2>4
<1>2. CASE Panic
  <2>1. emu'.notes = emu.notes /\ emu'.reads = emu.reads + 1 /\ hist'.lastAsked = hist.lastAsked
      BY <1>2 DEF Panic, Touch, Types, Emus, Histories
  <2> QED
      BY <2>1, NotesRead
<1>3. ASSUME UNCHANGED <<emu.notes, emu.reads, hist.lastAsked>>
      PROVE  NotesInv'
    BY <1>3 DEF NotesInv
<1>4. CASE SetEof \/ ChildExits \/ SomeoneReaps \/ PidIsReused \/ Tick
  <2>1. UNCHANGED <<emu.notes, emu.reads, hist.lastAsked>>
      BY <1>4 DEF SetEof, ChildExits, SomeoneReaps, PidIsReused, Tick, Taken, Touch, Types, Emus, Histories
  <2> QED
      BY <1>3, <2>1
<1>5. CASE WaitUntil \/ WaitIdle \/ WaitStable \/ SnapshotAfter \/ Settle \/ UntilExpired
           \/ WaitExit \/ WaitExitAgain \/ ExitPoll \/ ExitExpired \/ DrainLook
           \/ Signal \/ SendSignal \/ Drop \/ HangUp \/ KillIt \/ ReapedBy
  <2>1. UNCHANGED <<emu.notes, emu.reads>>
      BY <1>5 DEF WaitUntil, WaitIdle, WaitStable, SnapshotAfter, Settle, UntilExpired, WaitExit, WaitExitAgain,
                  ExitPoll, ExitExpired, DrainLook, Signal, SendSignal, Drop, HangUp, KillIt, ReapedBy, StartWait,
                  Types, Emus
  <2>2. UNCHANGED hist.lastAsked
      BY <1>5 DEF WaitUntil, WaitIdle, WaitStable, SnapshotAfter, Settle, UntilExpired, WaitExit, WaitExitAgain,
                  ExitPoll, ExitExpired, DrainLook, Signal, SendSignal, Drop, HangUp, KillIt, ReapedBy, StartWait,
                  Kill, AfterAsking, Types, Histories
  <2> QED
      BY <1>3, <2>1, <2>2
<1>6. ASSUME NEW at, NEW outcome, NEW locals, Look(WatchExit, at, outcome, locals)
      PROVE  NotesInv'
  <2>1. UNCHANGED <<emu.notes, emu.reads, hist.lastAsked>>
      BY <1>6, WatchEmu DEF Look, Types, Histories
  <2> QED
      BY <1>3, <2>1
<1>7. CASE UntilLook \/ IdleLook \/ StableLook
    BY <1>6, <1>7 DEF UntilLook, IdleLook, StableLook, QuietLook
<1>8. CASE UNCHANGED vars
    BY <1>3, <1>8 DEF vars
<1> QED
    BY <1>1, <1>2, <1>4, <1>5, <1>7, <1>8 DEF Next, Environment, TestStep

(* The note made of them is true of the queries. *)
LEMMA NotesAre == Types /\ NotesInv => NotesAreCurrent
<1> SUFFICES ASSUME Types, NotesInv PROVE NotesAreCurrent
    OBVIOUS
<1> DEFINE kept == emu.notes.kept
           note == QueryNote(emu.notes, emu.reads)
<1>1. /\ emu.notes \in Notes /\ emu.reads \in Nat /\ hist.lastAsked \in [QueryShapes -> Nat]
    BY DEF Types, Emus, Histories
<1>2. ASSUME NEW s \in QueryShapes, note.kind = "cause", s \in note.shapes
      PROVE  hist.lastAsked[s] = emu.reads
  <2>1. PICK i \in DOMAIN kept : kept[i].read = emu.reads /\ s = kept[i].shape
      BY <1>2 DEF QueryNote
  <2> QED
      BY <2>1 DEF NotesInv, Telling
<1>3. ASSUME NEW s \in QueryShapes, note.kind = "movedPast", s \in note.shapes
      PROVE  hist.lastAsked[s] < emu.reads
  <2>1. \A i \in DOMAIN kept : kept[i].read # emu.reads
      BY <1>3 DEF QueryNote
  <2>2. PICK i \in DOMAIN kept : s = kept[i].shape
      BY <1>3 DEF QueryNote, Shapes
  <2>3. hist.lastAsked[s] # emu.reads /\ hist.lastAsked[s] <= emu.reads
      BY <2>1, <2>2 DEF NotesInv, Telling
  <2> QED
      BY <1>1, <2>3
<1>4. ASSUME NEW s \in note.shapes
      PROVE  s \in QueryShapes
    BY <1>1, <1>4, NotesTypes DEF QueryNote, Shapes
<1> HIDE DEF note
<1> QED
    BY <1>2, <1>3, <1>4 DEF NotesAreCurrent, NotesInv, Telling, note

-----------------------------------------------------------------------------
(***************************************************************************)
(* The theorems.                                                           *)
(***************************************************************************)

Inv == Types /\ ClockInv /\ ProcessInv /\ UntilInv /\ HeldInv /\ NotesInv

(* ClockInv holds at the start. *)
LEMMA ClockInit == Init => ClockInv
BY DEF Init, ClockInv, Sleeping, OnCondvar

(* The invariant: every part holds at the start, and every step keeps it given the others. *)
LEMMA Invariant == Spec => []Inv
<1>1. Init => Inv
    BY TypesInit, ClockInit, ProcessInit, UntilInit, HeldInit, NotesInit DEF Inv
<1>2. Inv /\ [Next]_vars => Inv'
    BY TypesNext, ClockNext, ProcessNext, UntilNext, HeldNext, NotesNext DEF Inv
<1> QED
    BY <1>1, <1>2, PTL DEF Spec

(* Every state is of the types the code's fields have (EmuState, Terminal,
   ExitWatch, the locals of the waits). *)
THEOREM TypesCorrect == Spec => []Types
BY Invariant, PTL DEF Inv

(* A thread that is never kept from going on is done with every wait by its
   deadline (wait.rs, the wait_* loops, reaped_by). *)
THEOREM OversleepsNever == Spec => []NobodyOversleeps
<1>1. Inv => NobodyOversleeps
    BY DEF Inv, ClockInv, NobodyOversleeps
<1> QED
    BY <1>1, Invariant, PTL

(* wait_until is right about the picture it decided on, and where the exit
   closes the terminal does not time out once the grace is over. *)
THEOREM UntilCorrect == Spec => []UntilIsRight
<1>1. Inv => UntilIsRight
    BY DEF Inv, UntilInv
<1> QED
    BY <1>1, Invariant, PTL

(* What wait_idle and wait_stable return has held still and is whole. *)
THEOREM StillCorrect == Spec => StillHeld
<1>1. Inv /\ [Next]_vars => Held
    BY HeldStep DEF Inv
<1>2. Spec => [][Inv /\ [Next]_vars]_vars
    BY Invariant, PTL DEF Spec
<1> QED
    BY <1>1, <1>2, PTL DEF StillHeld, Held

(* No signal of ours reaches a process that had the pid when we asked. *)
THEOREM SignalsCorrect == Spec => []SignalsReachTheChild
<1>1. Inv => SignalsReachTheChild
    BY DEF Inv, ProcessInv, ChildInv, SignalsReachTheChild
<1> QED
    BY <1>1, Invariant, PTL

(* wait_exit tells what became of the child. *)
THEOREM ExitCorrect == Spec => []ExitIsTold
<1>1. Inv => ExitIsTold
    BY DEF Inv, ProcessInv, ToldInv, ExitIsTold
<1> QED
    BY <1>1, Invariant, PTL

(* The note on unanswered queries tells of each shape what is so. *)
THEOREM NotesCorrect == Spec => []NotesAreCurrent
<1>1. Inv => NotesAreCurrent
    BY NotesAre DEF Inv
<1> QED
    BY <1>1, Invariant, PTL
=============================================================================
