---------------------------- MODULE Frames_proofs ----------------------------
(***************************************************************************)
(* Safety of the frame pipeline and of its recorders for every value of    *)
(* its constants, any number of frames, waits and resizes, and any         *)
(* application.                                                            *)
(*                                                                         *)
(*   - TypeOK is inductive by itself (TypeStep);                           *)
(*   - RingsHoldTheNewest needs it and nothing else (RingsStep);           *)
(*   - what wait_frame returns around a resize rests on CursorInv, which   *)
(*     adds where the era of the grid changed to the cursor properties;    *)
(*   - CacheIsCurrent holds if no ioctl fails: the run frames_ioctl shows  *)
(*     that the assumption is needed;                                      *)
(*   - each frame is an update of the application, each wait returns the   *)
(*     oldest one that satisfies it, and the pipeline implements           *)
(*     FrameStream.  The reader and the application disagree by what is in *)
(*     flight between them.  UpdatesInv says that feeding it, token by     *)
(*     token, takes the view of the reader to the view of the application, *)
(*     and that every update completed on the way is the one the           *)
(*     application recorded: FlightInv.  A step then moves one end or the  *)
(*     other of that run by one token;                                     *)
(*   - RecordingsAccount is inductive with the types.  What it needs is    *)
(*     that the cells of a recording are a sum: of the part push drops and *)
(*     the part it keeps (CellsConcat).                                    *)
(***************************************************************************)
EXTENDS Frames, Sums_proofs

(* A position the scan finds is one of the ring, with a frame on offer. *)
LEMMA FirstMatchProperties ==
    ASSUME FrameTypeOK
    PROVE  /\ FirstMatch \in 0..Len(frames)
           /\ FirstMatch # 0 => Offered(frames[FirstMatch])
<1> DEFINE I == {i \in 1..Len(frames) : Offered(frames[i])}
<1>1. Len(frames) \in Nat /\ I \subseteq Nat
    BY DEF FrameTypeOK
<1>0. \A i \in I : i \in 1..Len(frames) /\ Offered(frames[i])
    OBVIOUS
<1>2. I # {} => Min(I) \in I
    BY <1>1, NatMin
<1>3. FirstMatch = 0 \/ (I # {} /\ FirstMatch = Min(I))
    BY Zenon DEF FirstMatch, SelectInSeq
<1> HIDE DEF I
<1>4. FirstMatch = 0 \/ FirstMatch \in I
    BY <1>2, <1>3
<1>5. CASE FirstMatch = 0
    BY <1>1, <1>5
<1>6. CASE FirstMatch \in I
    <2>1. FirstMatch \in 1..Len(frames) /\ Offered(frames[FirstMatch])
        BY <1>0, <1>6, Zenon
    <2> QED
        BY <1>1, <2>1
<1> QED
    BY <1>4, <1>5, <1>6

(* push drops at most all of the entries, and less only if what is left fits. *)
LEMMA OverflowingProperties ==
    ASSUME NEW rec, NEW cells, rec.frames \in Seq(RecordingEntry)
    PROVE  /\ Overflowing(rec, cells) \in 0..Len(rec.frames)
           /\ \/ Overflowing(rec, cells) = Len(rec.frames)
              \/ rec.cells - CellsOfFirst(rec.frames, Overflowing(rec, cells)) + cells <= Budget
<1> DEFINE Fits(k) == rec.cells - CellsOfFirst(rec.frames, k) + cells <= Budget
           K == {k \in 0..Len(rec.frames) : k = Len(rec.frames) \/ Fits(k)}
           Smallest(k) == /\ k = Len(rec.frames) \/ Fits(k)
                          /\ \A j \in 0..(k - 1) : ~Fits(j)
<1>1. Len(rec.frames) \in Nat
    OBVIOUS
<1>2. K \in SUBSET Nat /\ Len(rec.frames) \in K
    BY <1>1
<1>3. Min(K) \in K /\ \A y \in K : Min(K) =< y
    BY <1>2, NatMin
<1>4. Min(K) \in 0..Len(rec.frames) /\ Smallest(Min(K))
    <2>1. ASSUME NEW j \in 0..(Min(K) - 1) PROVE ~Fits(j)
        BY <1>1, <1>2, <1>3, <2>1
    <2> QED
        BY <1>3, <2>1
<1>5. Overflowing(rec, cells) = CHOOSE k \in 0..Len(rec.frames) : Smallest(k)
    BY DEF Overflowing
<1> HIDE DEF Smallest
<1> DEFINE k == Overflowing(rec, cells)
<1>6. k \in 0..Len(rec.frames) /\ Smallest(k)
    BY <1>4, <1>5
<1>7. k = Len(rec.frames) \/ Fits(k)
    BY <1>6 DEF Smallest
<1> QED
    BY <1>6, <1>7

-----------------------------------------------------------------------------
(***************************************************************************)
(* Type correctness.                                                       *)
(***************************************************************************)

(* The empty sequence is one of any set. *)
LEMMA EmptyIsSeq == ASSUME NEW S PROVE <<>> \in Seq(S)
OBVIOUS

(* A built snapshot is a screen. *)
LEMMA BuildSnapshotType ==
    ASSUME EmuTypeOK, NEW n \in Nat
    PROVE  BuildSnapshot(n) \in Screen
<1>1. cache.screen \in Screen
    BY DEF EmuTypeOK
<1>2. ScreenOf(grid, n) \in Screen
    BY DEF EmuTypeOK, ScreenOf, Grid, Screen
<1> QED
    BY <1>1, <1>2 DEF BuildSnapshot

(* A peeked snapshot is a screen. *)
LEMMA PeekSnapshotType ==
    ASSUME EmuTypeOK, FrameTypeOK
    PROVE  PeekSnapshot \in Screen
<1>1. cache.screen \in Screen
    BY DEF EmuTypeOK
<1>2. BuildSnapshot(framesSeen) \in Screen
    BY BuildSnapshotType DEF FrameTypeOK
<1> QED
    BY <1>1, <1>2 DEF PeekSnapshot

(* A push keeps a sequence over its set. *)
LEMMA PushBoundedType ==
    ASSUME NEW S, NEW queue \in Seq(S), NEW entry \in S, NEW capacity \in Nat \ {0}
    PROVE  PushBounded(queue, entry, capacity) \in Seq(S)
BY DEF PushBounded

(* A push keeps a recording well-typed. *)
LEMMA RecordingPushType ==
    ASSUME NEW rec, NEW entry \in RecordingEntry,
           rec.frames \in Seq(RecordingEntry), rec.dropped \in Nat
    PROVE  /\ RecordingPush(rec, entry).frames \in Seq(RecordingEntry)
           /\ RecordingPush(rec, entry).dropped \in Nat
<1> DEFINE k == Overflowing(rec, Cells(entry.size))
<1>1. k \in 0..Len(rec.frames)
    BY OverflowingProperties
<1> HIDE DEF k
<1>2. SubSeq(rec.frames, k + 1, Len(rec.frames)) \in Seq(RecordingEntry)
    BY <1>1
<1>3. /\ RecordingPush(rec, entry).frames
            = Append(SubSeq(rec.frames, k + 1, Len(rec.frames)), entry)
      /\ RecordingPush(rec, entry).dropped = rec.dropped + k
    BY DEF RecordingPush, k
<1> QED
    BY <1>1, <1>2, <1>3

(* Each part of TypeOK reads its own variables only. *)
LEMMA AppUnchanged == ASSUME AppTypeOK, UNCHANGED appVars PROVE AppTypeOK'
BY DEF AppTypeOK, appVars

(* the PTY and the reader, *)
LEMMA PtyUnchanged == ASSUME PtyTypeOK, UNCHANGED <<ptyVars, readerVars>> PROVE PtyTypeOK'
BY DEF PtyTypeOK, ptyVars, readerVars

(* the emulator and the shared state, *)
LEMMA EmuUnchanged == ASSUME EmuTypeOK, UNCHANGED <<emuVars, stateVars>> PROVE EmuTypeOK'
BY DEF EmuTypeOK, emuVars, stateVars

(* the rings, *)
LEMMA FrameUnchanged == ASSUME FrameTypeOK, UNCHANGED frameVars PROVE FrameTypeOK'
BY DEF FrameTypeOK, frameVars

(* the recorders, *)
LEMMA RecordUnchanged == ASSUME RecordTypeOK, UNCHANGED recordVars PROVE RecordTypeOK'
BY DEF RecordTypeOK, recordVars

(* and the test thread. *)
LEMMA TestUnchanged == ASSUME TestTypeOK, UNCHANGED testVars PROVE TestTypeOK'
BY DEF TestTypeOK, testVars, waitVars, resizeVars

(* Every step keeps the types: one step per action, one conjunct of TypeOK
   each below it. *)
LEMMA TypeStep ==
    ASSUME TypeOK, [Next]_vars
    PROVE  TypeOK'
<1> USE SizesAssumption, HistoryAssumption
<1> USE DEF appVars, ptyVars, readerVars, emuVars, stateVars, frameVars, recordVars, waitVars,
            resizeVars, testVars, OthersUnchanged
<1>0. AppTypeOK /\ PtyTypeOK /\ EmuTypeOK /\ FrameTypeOK /\ RecordTypeOK /\ TestTypeOK
    BY DEF TypeOK
<1>1. ASSUME NEW kind \in Kinds, AppWrite(kind) PROVE TypeOK'
    <2>1. AppTypeOK'
        <3>1. writes' \in Nat /\ alive' \in BOOLEAN /\ script' \in Seq(Kinds) /\ appSize' \in Sizes
            BY <1>0, <1>1 DEF AppTypeOK, AppWrite
        <3>2. appOpen' \in BOOLEAN
            BY <1>0, <1>1 DEF AppTypeOK, AppWrite
        <3>3. painted' \in Painting
            BY <1>0, <1>1 DEF AppTypeOK, AppWrite, Painting, Blank
        <3>4. drawn' \in Seq(Painting)
            BY <1>0, <1>1 DEF AppTypeOK, AppWrite
        <3> QED
            BY <3>1, <3>2, <3>3, <3>4 DEF AppTypeOK
    <2>2. PtyTypeOK'
        <3> DEFINE painting == [id |-> writes + 1, laid |-> appSize]
                   token == IF kind = "paint" THEN [kind |-> kind, painting |-> painting]
                            ELSE [kind |-> kind]
        <3>1. painting \in Painting
            BY <1>0, <1>1 DEF AppTypeOK, Painting
        <3>2. token \in Token
            BY <3>1 DEF Token, Kinds
        <3>3. pty' = Append(pty, token)
            BY <1>0, <1>1 DEF AppWrite
        <3>4. pty' \in Seq(Token)
            BY <1>0, <1>1, <3>2, <3>3 DEF PtyTypeOK
        <3> QED
            BY <1>0, <1>1, <3>4 DEF PtyTypeOK, AppWrite
    <2>3. EmuTypeOK' /\ FrameTypeOK' /\ RecordTypeOK' /\ TestTypeOK'
        BY <1>0, <1>1, EmuUnchanged, FrameUnchanged, RecordUnchanged, TestUnchanged DEF AppWrite
    <2> QED
        BY <2>1, <2>2, <2>3 DEF TypeOK
<1>2. ASSUME AppLearnsSize PROVE TypeOK'
    <2>1. AppTypeOK'
        BY <1>0, <1>2 DEF AppLearnsSize, AppTypeOK, PtyTypeOK
    <2>2. PtyTypeOK' /\ EmuTypeOK' /\ FrameTypeOK' /\ RecordTypeOK' /\ TestTypeOK'
        BY <1>0, <1>2, PtyUnchanged, EmuUnchanged, FrameUnchanged, RecordUnchanged, TestUnchanged DEF AppLearnsSize
    <2> QED
        BY <2>1, <2>2 DEF TypeOK
<1>3. ASSUME AppExit PROVE TypeOK'
    <2>1. AppTypeOK'
        BY <1>0, <1>3 DEF AppExit, AppTypeOK
    <2>2. PtyTypeOK' /\ EmuTypeOK' /\ FrameTypeOK' /\ RecordTypeOK' /\ TestTypeOK'
        BY <1>0, <1>3, PtyUnchanged, EmuUnchanged, FrameUnchanged, RecordUnchanged, TestUnchanged DEF AppExit
    <2> QED
        BY <2>1, <2>2 DEF TypeOK
<1>4. ASSUME ReadChunk PROVE TypeOK'
    <2>1. PtyTypeOK'
        BY <1>0, <1>4 DEF ReadChunk, PtyTypeOK
    <2>2. AppTypeOK' /\ EmuTypeOK' /\ FrameTypeOK' /\ RecordTypeOK' /\ TestTypeOK'
        BY <1>0, <1>4, AppUnchanged, EmuUnchanged, FrameUnchanged, RecordUnchanged, TestUnchanged DEF ReadChunk
    <2> QED
        BY <2>1, <2>2 DEF TypeOK
<1>5. ASSUME LockState PROVE TypeOK'
    <2>1. PtyTypeOK'
        <3>1. chunk' = chunk \/ chunk' = <<>>
            BY <1>0, <1>5 DEF LockState
        <3>2. chunk' \in Seq(Token)
            BY <1>0, <1>5, <3>1, EmptyIsSeq, Zenon DEF PtyTypeOK
        <3>3. reader' \in {"reading", "feeding"}
            BY <1>0, <1>5 DEF LockState
        <3> QED
            BY <1>0, <1>5, <3>2, <3>3 DEF LockState, PtyTypeOK
    <2>2. AppTypeOK' /\ EmuTypeOK' /\ FrameTypeOK' /\ RecordTypeOK' /\ TestTypeOK'
        BY <1>0, <1>5, AppUnchanged, EmuUnchanged, FrameUnchanged, RecordUnchanged, TestUnchanged DEF LockState
    <2> QED
        BY <2>1, <2>2 DEF TypeOK
<1>6. ASSUME Unlock PROVE TypeOK'
    <2>1. PtyTypeOK'
        BY <1>0, <1>6 DEF Unlock, PtyTypeOK
    <2>2. EmuTypeOK'
        BY <1>0, <1>6 DEF Unlock, EmuTypeOK
    <2>3. AppTypeOK' /\ FrameTypeOK' /\ RecordTypeOK' /\ TestTypeOK'
        BY <1>0, <1>6, AppUnchanged, FrameUnchanged, RecordUnchanged, TestUnchanged DEF Unlock
    <2> QED
        BY <2>1, <2>2, <2>3 DEF TypeOK
<1>7. ASSUME ReadEnd PROVE TypeOK'
    <2>1. PtyTypeOK'
        BY <1>0, <1>7 DEF ReadEnd, PtyTypeOK
    <2>2. AppTypeOK' /\ EmuTypeOK' /\ FrameTypeOK' /\ RecordTypeOK' /\ TestTypeOK'
        BY <1>0, <1>7, AppUnchanged, EmuUnchanged, FrameUnchanged, RecordUnchanged, TestUnchanged DEF ReadEnd
    <2> QED
        BY <2>1, <2>2 DEF TypeOK
<1>8. ASSUME SetEof PROVE TypeOK'
    <2>1. PtyTypeOK'
        BY <1>0, <1>8 DEF SetEof, PtyTypeOK
    <2>2. EmuTypeOK'
        BY <1>0, <1>8 DEF SetEof, EmuTypeOK
    <2>3. AppTypeOK' /\ FrameTypeOK' /\ RecordTypeOK' /\ TestTypeOK'
        BY <1>0, <1>8, AppUnchanged, FrameUnchanged, RecordUnchanged, TestUnchanged DEF SetEof
    <2> QED
        BY <2>1, <2>2, <2>3 DEF TypeOK
<1>9. ASSUME FeedBegin PROVE TypeOK'
    <2>1. PtyTypeOK'
        BY <1>0, <1>9 DEF FeedBegin, Feeding, PtyTypeOK
    <2>2. EmuTypeOK'
        BY <1>0, <1>9 DEF FeedBegin, Feeding, EmuTypeOK
    <2>3. AppTypeOK' /\ FrameTypeOK' /\ RecordTypeOK' /\ TestTypeOK'
        BY <1>0, <1>9, AppUnchanged, FrameUnchanged, RecordUnchanged, TestUnchanged DEF FeedBegin, Feeding
    <2> QED
        BY <2>1, <2>2, <2>3 DEF TypeOK
<1>10. ASSUME FeedPaint PROVE TypeOK'
    <2>1. PtyTypeOK'
        BY <1>0, <1>10 DEF FeedPaint, Feeding, PtyTypeOK
    <2>2. EmuTypeOK'
        <3>1. Head(chunk) \in Token /\ Head(chunk).kind = "paint"
            BY <1>0, <1>10 DEF FeedPaint, Feeding, PtyTypeOK
        <3>2. Head(chunk).painting \in Painting
            BY <3>1 DEF Token
        <3>3. grid' \in Grid
            BY <1>0, <1>10, <3>2 DEF EmuTypeOK, FeedPaint, Grid
        <3> QED
            BY <1>0, <1>10, <3>3 DEF EmuTypeOK, FeedPaint, Feeding
    <2>3. AppTypeOK' /\ FrameTypeOK' /\ RecordTypeOK' /\ TestTypeOK'
        BY <1>0, <1>10, AppUnchanged, FrameUnchanged, RecordUnchanged, TestUnchanged DEF FeedPaint, Feeding
    <2> QED
        BY <2>1, <2>2, <2>3 DEF TypeOK
<1>11. ASSUME FeedStrayEnd PROVE TypeOK'
    <2>1. PtyTypeOK'
        BY <1>0, <1>11 DEF FeedStrayEnd, Feeding, PtyTypeOK
    <2>2. EmuTypeOK'
        BY <1>0, <1>11 DEF FeedStrayEnd, Feeding, EmuTypeOK
    <2>3. AppTypeOK' /\ FrameTypeOK' /\ RecordTypeOK' /\ TestTypeOK'
        BY <1>0, <1>11, AppUnchanged, FrameUnchanged, RecordUnchanged, TestUnchanged DEF FeedStrayEnd, Feeding
    <2> QED
        BY <2>1, <2>2, <2>3 DEF TypeOK
<1>12. ASSUME FeedEnd PROVE TypeOK'
    <2>1. PtyTypeOK'
        BY <1>0, <1>12 DEF FeedEnd, Feeding, PtyTypeOK
    <2>2. EmuTypeOK'
        BY <1>0, <1>12 DEF FeedEnd, Feeding, EmuTypeOK
    <2>3. FrameTypeOK'
        <3> DEFINE number == framesSeen + 1
                   entry == [index |-> number, screen |-> BuildSnapshot(number)]
        <3>1. number \in Nat \ {0} /\ entry \in RingEntry
            BY <1>0, <1>12, BuildSnapshotType DEF FrameTypeOK, RingEntry
        <3>2. /\ frames' = PushBounded(frames, entry, FrameHistory)
            /\ timings' = PushBounded(timings, number, TimingHistory)
            BY <1>0, <1>12 DEF FeedEnd, FrameComplete
        <3>3. frames' \in Seq(RingEntry) /\ timings' \in Seq(Nat)
            BY <1>0, <1>12, <3>1, <3>2, PushBoundedType DEF FrameTypeOK
        <3>4. era \in Nat
            BY <1>0, <1>12 DEF TestTypeOK
        <3>5. framesSeen' \in Nat /\ eraOf' \in Seq(Nat)
            BY <1>0, <1>12, <3>4 DEF FeedEnd, FrameComplete, FrameTypeOK
        <3> QED
            BY <3>3, <3>5 DEF FrameTypeOK
    <2>4. RecordTypeOK'
        <3> DEFINE number == framesSeen + 1
                   entry == [index |-> number, size |-> BuildSnapshot(number).size]
        <3>1. number \in Nat \ {0}
            BY <1>0, <1>12 DEF FrameTypeOK
        <3>2. BuildSnapshot(number) \in Screen
            BY <1>0, <1>12, <3>1, BuildSnapshotType
        <3>3. entry \in RecordingEntry
            BY <3>1, <3>2 DEF RecordingEntry, Screen
        <3>4. recording' = [r \in Recorders |->
                IF r \in recorders THEN RecordingPush(recording[r], entry) ELSE recording[r]]
            BY <1>0, <1>12 DEF FeedEnd, FrameComplete
        <3>5. ASSUME NEW r \in Recorders
             PROVE  recording'[r].frames \in Seq(RecordingEntry) /\ recording'[r].dropped \in Nat
            BY <1>0, <1>12, <3>3, <3>4, RecordingPushType DEF RecordTypeOK
        <3> QED
            BY <1>0, <1>12, <3>4, <3>5 DEF RecordTypeOK, FeedEnd
    <2>5. AppTypeOK' /\ TestTypeOK'
        BY <1>0, <1>12, AppUnchanged, TestUnchanged DEF FeedEnd, Feeding
    <2> QED
        BY <2>1, <2>2, <2>3, <2>4, <2>5 DEF TypeOK
<1>13. ASSUME FeedReset PROVE TypeOK'
    <2>1. PtyTypeOK'
        BY <1>0, <1>13 DEF FeedReset, Feeding, PtyTypeOK
    <2>2. EmuTypeOK'
        <3>1. Blank \in Painting
            BY DEF Blank, Painting
        <3>2. grid' \in Grid
            BY <1>0, <1>13, <3>1 DEF EmuTypeOK, FeedReset, Grid
        <3> QED
            BY <1>0, <1>13, <3>2 DEF EmuTypeOK, FeedReset, Feeding
    <2>3. AppTypeOK' /\ FrameTypeOK' /\ RecordTypeOK' /\ TestTypeOK'
        BY <1>0, <1>13, AppUnchanged, FrameUnchanged, RecordUnchanged, TestUnchanged DEF FeedReset, Feeding
    <2> QED
        BY <2>1, <2>2, <2>3 DEF TypeOK
<1>14. ASSUME FeedFault PROVE TypeOK'
    <2>1. PtyTypeOK'
        BY <1>0, <1>14 DEF FeedFault, PtyTypeOK
    <2>2. EmuTypeOK'
        BY <1>0, <1>14 DEF FeedFault, EmuTypeOK
    <2>3. AppTypeOK' /\ FrameTypeOK' /\ RecordTypeOK' /\ TestTypeOK'
        BY <1>0, <1>14, AppUnchanged, FrameUnchanged, RecordUnchanged, TestUnchanged DEF FeedFault
    <2> QED
        BY <2>1, <2>2, <2>3 DEF TypeOK
<1>15. ASSUME TakeScreen PROVE TypeOK'
    <2>1. EmuTypeOK'
        BY <1>0, <1>15, PeekSnapshotType DEF TakeScreen, StoreSnapshot, EmuTypeOK
    <2>2. AppTypeOK' /\ PtyTypeOK' /\ FrameTypeOK' /\ RecordTypeOK' /\ TestTypeOK'
        BY <1>0, <1>15, AppUnchanged, PtyUnchanged, FrameUnchanged, RecordUnchanged, TestUnchanged DEF TakeScreen, StoreSnapshot
    <2> QED
        BY <2>1, <2>2 DEF TypeOK
<1>16. ASSUME WaitFails PROVE TypeOK'
    <2>1. TestTypeOK'
        BY <1>0, <1>16 DEF WaitFails, Check, EndWait, TestTypeOK
    <2>2. AppTypeOK' /\ PtyTypeOK' /\ EmuTypeOK' /\ FrameTypeOK' /\ RecordTypeOK'
        BY <1>0, <1>16, AppUnchanged, PtyUnchanged, EmuUnchanged, FrameUnchanged, RecordUnchanged DEF WaitFails, Check, EndWait
    <2> QED
        BY <2>1, <2>2 DEF TypeOK
<1>17. ASSUME WaitReturns PROVE TypeOK'
    <2>1. TestTypeOK'
        <3>1. FirstMatch \in 1..Len(frames)
            BY <1>0, <1>17, FirstMatchProperties DEF WaitReturns
        <3>2. frames[FirstMatch] \in RingEntry
            BY <1>0, <1>17, <3>1 DEF FrameTypeOK
        <3> DEFINE entry == frames[FirstMatch]
        <3>3. entry.index \in Nat \ {0} /\ entry.screen \in Screen
            BY <3>2 DEF RingEntry
        <3>4. /\ frameCursor' = entry.index
            /\ returned' = Append(returned, [index |-> entry.index, screen |-> entry.screen, era |-> era])
            BY <1>0, <1>17 DEF WaitReturns
        <3> HIDE DEF entry
        <3>5. frameCursor' \in Nat
            BY <3>3, <3>4
        <3>6. era \in Nat /\ returned \in Seq(ReturnedFrame)
            BY <1>0, <1>17 DEF TestTypeOK
        <3>7. returned' \in Seq(ReturnedFrame)
            <4>1. [index |-> entry.index, screen |-> entry.screen, era |-> era] \in ReturnedFrame
                BY <3>3, <3>6 DEF ReturnedFrame
            <4> QED
                BY <3>4, <3>6, <4>1
        <3> QED
            BY <1>0, <1>17, <3>5, <3>7 DEF WaitReturns, Check, EndWait, TestTypeOK
    <2>2. AppTypeOK' /\ PtyTypeOK' /\ EmuTypeOK' /\ FrameTypeOK' /\ RecordTypeOK'
        BY <1>0, <1>17, AppUnchanged, PtyUnchanged, EmuUnchanged, FrameUnchanged, RecordUnchanged DEF WaitReturns, Check, EndWait
    <2> QED
        BY <2>1, <2>2 DEF TypeOK
<1>18. ASSUME WaitSeesEof PROVE TypeOK'
    <2>1. TestTypeOK'
        BY <1>0, <1>18 DEF WaitSeesEof, Check, EndWait, TestTypeOK
    <2>2. AppTypeOK' /\ PtyTypeOK' /\ EmuTypeOK' /\ FrameTypeOK' /\ RecordTypeOK'
        BY <1>0, <1>18, AppUnchanged, PtyUnchanged, EmuUnchanged, FrameUnchanged, RecordUnchanged DEF WaitSeesEof, Check, EndWait
    <2> QED
        BY <2>1, <2>2 DEF TypeOK
<1>19. ASSUME WaitGoesOn PROVE TypeOK'
    <2>1. TestTypeOK'
        BY <1>0, <1>19 DEF WaitGoesOn, Check, TestTypeOK, FrameTypeOK
    <2>2. AppTypeOK' /\ PtyTypeOK' /\ EmuTypeOK' /\ FrameTypeOK' /\ RecordTypeOK'
        BY <1>0, <1>19, AppUnchanged, PtyUnchanged, EmuUnchanged, FrameUnchanged, RecordUnchanged DEF WaitGoesOn, Check
    <2> QED
        BY <2>1, <2>2 DEF TypeOK
<1>20. ASSUME ReportTimeout PROVE TypeOK'
    <2>1. EmuTypeOK'
        BY <1>0, <1>20, PeekSnapshotType DEF ReportTimeout, StoreSnapshot, EndWait, EmuTypeOK
    <2>2. TestTypeOK'
        BY <1>0, <1>20 DEF ReportTimeout, StoreSnapshot, EndWait, TestTypeOK, Diagnosis
    <2>3. AppTypeOK' /\ PtyTypeOK' /\ FrameTypeOK' /\ RecordTypeOK'
        BY <1>0, <1>20, AppUnchanged, PtyUnchanged, FrameUnchanged, RecordUnchanged DEF ReportTimeout, StoreSnapshot, EndWait
    <2> QED
        BY <2>1, <2>2, <2>3 DEF TypeOK
<1>21. ASSUME DeadlinePasses PROVE TypeOK'
    <2>1. TestTypeOK'
        BY <1>0, <1>21 DEF DeadlinePasses, TestTypeOK
    <2>2. AppTypeOK' /\ PtyTypeOK' /\ EmuTypeOK' /\ FrameTypeOK' /\ RecordTypeOK'
        BY <1>0, <1>21, AppUnchanged, PtyUnchanged, EmuUnchanged, FrameUnchanged, RecordUnchanged DEF DeadlinePasses
    <2> QED
        BY <2>1, <2>2 DEF TypeOK
<1>22. ASSUME NEW r \in Recorders, Record(r) PROVE TypeOK'
    <2>1. RecordTypeOK'
        <3>1. recorders' \subseteq Recorders
            BY <1>0, <1>22 DEF Record, RecordTypeOK
        <3>2. since' \in [Recorders -> Nat]
            BY <1>0, <1>22 DEF Record, RecordTypeOK, FrameTypeOK
        <3> QED
            BY <1>0, <1>22, <3>1, <3>2 DEF Record, RecordTypeOK
    <2>2. AppTypeOK' /\ PtyTypeOK' /\ EmuTypeOK' /\ FrameTypeOK' /\ TestTypeOK'
        BY <1>0, <1>22, AppUnchanged, PtyUnchanged, EmuUnchanged, FrameUnchanged, TestUnchanged DEF Record
    <2> QED
        BY <2>1, <2>2 DEF TypeOK
<1>23. ASSUME NEW r \in Recorders, StopRecording(r) PROVE TypeOK'
    <2>1. RecordTypeOK'
        BY <1>0, <1>23 DEF StopRecording, RecordTypeOK
    <2>2. AppTypeOK' /\ PtyTypeOK' /\ EmuTypeOK' /\ FrameTypeOK' /\ TestTypeOK'
        BY <1>0, <1>23, AppUnchanged, PtyUnchanged, EmuUnchanged, FrameUnchanged, TestUnchanged DEF StopRecording
    <2> QED
        BY <2>1, <2>2 DEF TypeOK
<1>24. ASSUME NEW predicate \in Wants, WaitFrame(predicate) PROVE TypeOK'
    <2>1. TestTypeOK'
        <3>1. waits \in Nat
            BY <1>0, <1>24 DEF TestTypeOK
        <3>2. waits' = waits + 1 /\ want' = predicate
            BY <1>0, <1>24 DEF WaitFrame
        <3>3. waits' \in Nat /\ want' \subseteq Nat
            BY <1>0, <1>24, <3>1, <3>2, WantsAssumption
        <3> QED
            BY <1>0, <1>24, <3>3 DEF WaitFrame, TestTypeOK
    <2>2. AppTypeOK' /\ PtyTypeOK' /\ EmuTypeOK' /\ FrameTypeOK' /\ RecordTypeOK'
        BY <1>0, <1>24, AppUnchanged, PtyUnchanged, EmuUnchanged, FrameUnchanged, RecordUnchanged DEF WaitFrame
    <2> QED
        BY <2>1, <2>2 DEF TypeOK
<1>25. ASSUME NEW size \in Sizes, Resize(size) PROVE TypeOK'
    <2>1. TestTypeOK'
        <3>1. resizes \in Nat
            BY <1>0, <1>25 DEF TestTypeOK
        <3>2. resizes' = resizes + 1
            BY <1>0, <1>25 DEF Resize
        <3>3. resizes' \in Nat
            BY <3>1, <3>2
        <3> QED
            BY <1>0, <1>25, <3>3 DEF Resize, TestTypeOK
    <2>2. AppTypeOK' /\ PtyTypeOK' /\ EmuTypeOK' /\ FrameTypeOK' /\ RecordTypeOK'
        BY <1>0, <1>25, AppUnchanged, PtyUnchanged, EmuUnchanged, FrameUnchanged, RecordUnchanged DEF Resize
    <2> QED
        BY <2>1, <2>2 DEF TypeOK
<1>26. ASSUME ResizeSame PROVE TypeOK'
    <2>1. TestTypeOK'
        BY <1>0, <1>26 DEF ResizeSame, TestTypeOK
    <2>2. AppTypeOK' /\ PtyTypeOK' /\ EmuTypeOK' /\ FrameTypeOK' /\ RecordTypeOK'
        BY <1>0, <1>26, AppUnchanged, PtyUnchanged, EmuUnchanged, FrameUnchanged, RecordUnchanged DEF ResizeSame
    <2> QED
        BY <2>1, <2>2 DEF TypeOK
<1>27. ASSUME ResizeGrid PROVE TypeOK'
    <2>1. PtyTypeOK'
        BY <1>0, <1>27 DEF ResizeGrid, PtyTypeOK, TestTypeOK
    <2>2. EmuTypeOK'
        <3>1. grid' = [grid EXCEPT !.size = asked, !.whole = FALSE]
            BY <1>0, <1>27 DEF ResizeGrid
        <3>2. grid' \in Grid
            BY <1>0, <1>27, <3>1 DEF EmuTypeOK, TestTypeOK, Grid
        <3> QED
            BY <1>0, <1>27, <3>2 DEF ResizeGrid, EmuTypeOK
    <2>3. TestTypeOK'
        <3>1. framesSeen \in Nat /\ era \in Nat
            BY <1>0, <1>27 DEF FrameTypeOK, TestTypeOK
        <3>2. captured' = framesSeen /\ era' = era + 1
            BY <1>0, <1>27 DEF ResizeGrid
        <3>3. captured' \in Nat /\ era' \in Nat
            BY <3>1, <3>2
        <3> QED
            BY <1>0, <1>27, <3>3 DEF ResizeGrid, TestTypeOK
    <2>4. AppTypeOK' /\ FrameTypeOK' /\ RecordTypeOK'
        BY <1>0, <1>27, AppUnchanged, FrameUnchanged, RecordUnchanged DEF ResizeGrid
    <2> QED
        BY <2>1, <2>2, <2>3, <2>4 DEF TypeOK
<1>28. ASSUME ResizeFails PROVE TypeOK'
    <2>1. EmuTypeOK'
        <3>1. grid' = [grid EXCEPT !.size = PeekSnapshot.size, !.whole = FALSE]
            BY <1>0, <1>28 DEF ResizeFails
        <3>2. PeekSnapshot.size \in Sizes
            BY <1>0, <1>28, PeekSnapshotType DEF Screen
        <3>3. grid' \in Grid
            BY <1>0, <1>28, <3>1, <3>2 DEF EmuTypeOK, Grid
        <3> QED
            BY <1>0, <1>28, <3>3 DEF ResizeFails, EmuTypeOK
    <2>2. TestTypeOK'
        BY <1>0, <1>28 DEF ResizeFails, TestTypeOK
    <2>3. AppTypeOK' /\ PtyTypeOK' /\ FrameTypeOK' /\ RecordTypeOK'
        BY <1>0, <1>28, AppUnchanged, PtyUnchanged, FrameUnchanged, RecordUnchanged DEF ResizeFails
    <2> QED
        BY <2>1, <2>2, <2>3 DEF TypeOK
<1>29. ASSUME MoveCursor PROVE TypeOK'
    <2>1. TestTypeOK'
        BY <1>0, <1>29 DEF MoveCursor, TestTypeOK
    <2>2. AppTypeOK' /\ PtyTypeOK' /\ EmuTypeOK' /\ FrameTypeOK' /\ RecordTypeOK'
        BY <1>0, <1>29, AppUnchanged, PtyUnchanged, EmuUnchanged, FrameUnchanged, RecordUnchanged DEF MoveCursor
    <2> QED
        BY <2>1, <2>2 DEF TypeOK
<1>30. CASE UNCHANGED vars
    BY <1>0, <1>30, AppUnchanged, PtyUnchanged, EmuUnchanged, FrameUnchanged, RecordUnchanged,
       TestUnchanged DEF vars, TypeOK
<1> QED
    BY <1>1, <1>2, <1>3, <1>4, <1>5, <1>6, <1>7, <1>8, <1>9, <1>10, <1>11, <1>12, <1>13, <1>14, <1>15, <1>16, <1>17, <1>18, <1>19, <1>20, <1>21, <1>22, <1>23, <1>24, <1>25, <1>26, <1>27, <1>28, <1>29, <1>30
    DEF Next, App, Reader, Test, Waiter

(* The initial state is well-typed. *)
LEMMA TypeInit ==
    ASSUME Init
    PROVE  TypeOK
<1>1. Blank \in Painting /\ grid \in Grid
    BY SizesAssumption DEF Init, Blank, Painting, Grid
<1>2. ScreenOf(grid, 0) \in Screen
    BY <1>1 DEF ScreenOf, Grid, Screen
<1>3. AppTypeOK
    BY <1>1, SizesAssumption, ScriptsAssumption, EmptyIsSeq DEF Init, AppTypeOK
<1>4. PtyTypeOK
    BY SizesAssumption, EmptyIsSeq DEF Init, PtyTypeOK
<1>5. EmuTypeOK
    BY <1>1, <1>2 DEF Init, EmuTypeOK
<1>6. FrameTypeOK
    BY EmptyIsSeq DEF Init, FrameTypeOK
<1>7. RecordTypeOK
    BY EmptyIsSeq DEF Init, RecordTypeOK, EmptyRecording
<1>8. TestTypeOK
    BY SizesAssumption, EmptyIsSeq DEF Init, TestTypeOK
<1> QED
    BY <1>3, <1>4, <1>5, <1>6, <1>7, <1>8 DEF TypeOK

(* Every variable keeps its type in every reachable state: the counts the
   code keeps in u64 and subtracts from one another never go below zero, and
   every ring holds numbered screens only. *)
THEOREM TypeCorrect == Spec => []TypeOK
<1>1. Init => TypeOK
    BY TypeInit
<1>2. TypeOK /\ [Next]_vars => TypeOK'
    BY TypeStep
<1> QED
    BY <1>1, <1>2, PTL DEF Spec

-----------------------------------------------------------------------------
(***************************************************************************)
(* The rings and the cursor.                                               *)
(***************************************************************************)

(* `q` is `queue` with `entry` at its end, the oldest gone if it was full. *)
Pushed(q, queue, entry, capacity) ==
    /\ Len(q) = IF Len(queue) = capacity THEN capacity ELSE Len(queue) + 1
    /\ \A k \in 1..Len(q) :
          q[k] = IF k = Len(q) THEN entry
                 ELSE IF Len(queue) = capacity THEN queue[k + 1] ELSE queue[k]

(* A push at a capacity keeps the newest entries and adds one. *)
LEMMA PushBoundedProperties ==
    ASSUME NEW S, NEW queue \in Seq(S), NEW entry \in S, NEW capacity \in Nat \ {0},
           Len(queue) <= capacity
    PROVE  Pushed(PushBounded(queue, entry, capacity), queue, entry, capacity)
<1>1. CASE Len(queue) = capacity
    <2>1. PushBounded(queue, entry, capacity) = Append(Tail(queue), entry) /\ queue # <<>>
        BY <1>1 DEF PushBounded
    <2>2. /\ Tail(queue) \in Seq(S) /\ Len(Tail(queue)) = capacity - 1
          /\ \A k \in 1..(capacity - 1) : Tail(queue)[k] = queue[k + 1]
        BY <1>1, <2>1
    <2> QED
        BY <1>1, <2>1, <2>2 DEF Pushed
<1>2. CASE Len(queue) # capacity
    BY <1>2 DEF PushBounded, Pushed
<1> QED
    BY <1>1, <1>2

(* The ring properties without the functions they are stated with. *)
NewestFrames ==
    /\ Len(frames) = IF framesSeen < FrameHistory THEN framesSeen ELSE FrameHistory
    /\ \A k \in 1..Len(frames) : frames[k].index = framesSeen - Len(frames) + k

NewestTimings ==
    /\ Len(timings) = IF framesSeen < TimingHistory THEN framesSeen ELSE TimingHistory
    /\ \A k \in 1..Len(timings) : timings[k] = framesSeen - Len(timings) + k

(* RingsHoldTheNewest, by position instead of by set. *)
LEMMA RingsAsSequences == FrameTypeOK => (RingsHoldTheNewest <=> NewestFrames /\ NewestTimings)
<1> SUFFICES ASSUME FrameTypeOK
             PROVE  RingsHoldTheNewest <=> NewestFrames /\ NewestTimings
    OBVIOUS
<1> DEFINE indices == [k \in 1..Len(frames) |-> frames[k].index]
<1>1. Len(frames) \in Nat
    BY DEF FrameTypeOK
<1>2. Len(indices) = Len(frames) /\ \A k \in 1..Len(frames) : indices[k] = frames[k].index
    BY <1>1
<1>3. RingsHoldTheNewest <=> HoldsTheNewest(indices, FrameHistory)
                              /\ HoldsTheNewest(timings, TimingHistory)
    BY DEF RingsHoldTheNewest
<1> HIDE DEF indices
<1> QED
    BY <1>2, <1>3 DEF HoldsTheNewest, NewestFrames, NewestTimings

(* Every step keeps the rings. *)
LEMMA RingsStep ==
    ASSUME TypeOK, FrameTypeOK', NewestFrames, NewestTimings, FeedEnd
    PROVE  NewestFrames' /\ NewestTimings'
<1> USE HistoryAssumption
<1> DEFINE number == framesSeen + 1
           entry == [index |-> number, screen |-> BuildSnapshot(number)]
<1>0. framesSeen \in Nat /\ frames \in Seq(RingEntry) /\ timings \in Seq(Nat)
    BY DEF TypeOK, FrameTypeOK
<1>1. entry \in RingEntry /\ entry.index = number /\ number \in Nat
    BY <1>0, BuildSnapshotType DEF TypeOK, RingEntry
<1>2. /\ frames' = PushBounded(frames, entry, FrameHistory)
      /\ timings' = PushBounded(timings, number, TimingHistory)
      /\ framesSeen' = number
    BY DEF FeedEnd, FrameComplete
<1> HIDE DEF entry
<1>3. NewestFrames'
    <2>1. Len(frames) \in Nat /\ Len(frames) <= FrameHistory
        BY <1>0 DEF NewestFrames
    <2>2. Pushed(frames', frames, entry, FrameHistory)
        <3>1. frames \in Seq(RingEntry) /\ entry \in RingEntry
            BY <1>0, <1>1
        <3>2. Pushed(PushBounded(frames, entry, FrameHistory), frames, entry, FrameHistory)
            BY <2>1, <3>1, PushBoundedProperties, HistoryAssumption
        <3> QED
            BY <1>2, <3>2
    <2>3. Len(frames') = IF framesSeen' < FrameHistory THEN framesSeen' ELSE FrameHistory
        BY <1>0, <1>1, <1>2, <2>1, <2>2 DEF NewestFrames, Pushed
    <2>4. ASSUME NEW k \in 1..Len(frames')
          PROVE  frames'[k].index = framesSeen' - Len(frames') + k
        <3>1. CASE k = Len(frames')
            <4>1. frames'[k] = entry
                BY <2>2, <3>1 DEF Pushed
            <4> QED
                BY <1>0, <1>1, <1>2, <2>1, <2>3, <3>1, <4>1
        <3>2. CASE k # Len(frames') /\ Len(frames) = FrameHistory
            <4>1. frames'[k] = frames[k + 1] /\ k + 1 \in 1..Len(frames)
                BY <2>1, <2>2, <3>2 DEF Pushed
            <4>2. frames[k + 1].index = framesSeen - Len(frames) + (k + 1)
                BY <4>1 DEF NewestFrames
            <4>3. Len(frames') = Len(frames)
                BY <2>2, <3>2 DEF Pushed
            <4>4. framesSeen' = framesSeen + 1 /\ k \in Int
                BY <1>2, <2>1, <4>3
            <4>5. framesSeen - Len(frames) + (k + 1) = framesSeen' - Len(frames') + k
                BY <1>0, <2>1, <4>3, <4>4
            <4> QED
                BY <4>1, <4>2, <4>5
        <3>3. CASE k # Len(frames') /\ Len(frames) # FrameHistory
            BY <1>0, <1>1, <1>2, <2>1, <2>2, <2>3, <3>3 DEF Pushed, NewestFrames
        <3> QED
            BY <3>1, <3>2, <3>3
    <2> QED
        BY <2>3, <2>4 DEF NewestFrames
<1>4. NewestTimings'
    <2>1. Len(timings) \in Nat /\ Len(timings) <= TimingHistory
        BY <1>0 DEF NewestTimings
    <2>2. Pushed(timings', timings, number, TimingHistory)
        <3>1. timings \in Seq(Nat) /\ number \in Nat
            BY <1>0, <1>1
        <3>2. Pushed(PushBounded(timings, number, TimingHistory), timings, number, TimingHistory)
            BY <2>1, <3>1, PushBoundedProperties, HistoryAssumption
        <3> QED
            BY <1>2, <3>2
    <2>3. Len(timings') = IF framesSeen' < TimingHistory THEN framesSeen' ELSE TimingHistory
        BY <1>0, <1>1, <1>2, <2>1, <2>2 DEF NewestTimings, Pushed
    <2>4. ASSUME NEW k \in 1..Len(timings')
          PROVE  timings'[k] = framesSeen' - Len(timings') + k
        <3>1. CASE k = Len(timings')
            <4>1. timings'[k] = number
                BY <2>2, <3>1 DEF Pushed
            <4> QED
                BY <1>0, <1>1, <1>2, <2>1, <2>3, <3>1, <4>1
        <3>2. CASE k # Len(timings') /\ Len(timings) = TimingHistory
            <4>1. timings'[k] = timings[k + 1] /\ k + 1 \in 1..Len(timings)
                BY <2>1, <2>2, <3>2 DEF Pushed
            <4>2. timings[k + 1] = framesSeen - Len(timings) + (k + 1)
                BY <4>1 DEF NewestTimings
            <4>3. Len(timings') = Len(timings)
                BY <2>2, <3>2 DEF Pushed
            <4>4. framesSeen' = framesSeen + 1 /\ k \in Int
                BY <1>2, <2>1, <4>3
            <4>5. framesSeen - Len(timings) + (k + 1) = framesSeen' - Len(timings') + k
                BY <1>0, <2>1, <4>3, <4>4
            <4> QED
                BY <4>1, <4>2, <4>5
        <3>3. CASE k # Len(timings') /\ Len(timings) # TimingHistory
            BY <1>0, <1>1, <1>2, <2>1, <2>2, <2>3, <3>3 DEF Pushed, NewestTimings
        <3> QED
            BY <3>1, <3>2, <3>3
    <2> QED
        BY <2>3, <2>4 DEF NewestTimings
<1> QED
    BY <1>3, <1>4

(* What CursorInv reads. *)
cursorVars == <<framesSeen, frames, timings, eraOf, era, frameCursor, captured, returned>>

(* A step that touches no variable of CursorInv keeps it. *)
LEMMA CursorUnchanged ==
    ASSUME CursorInv, UNCHANGED cursorVars, test' = "moving" <=> test = "moving"
    PROVE  CursorInv'
BY DEF CursorInv, cursorVars, RingsHoldTheNewest, HoldsTheNewest, Floor, ReturnedInOrder,
       OldGridNotReturned, NewGridNotSkipped

(* The types the steps below need, without the ones they do not. *)
CursorTypes ==
    /\ framesSeen \in Nat /\ frameCursor \in Nat /\ captured \in Nat /\ era \in Nat
    /\ eraOf \in Seq(Nat)
    /\ Len(returned) \in Nat
    /\ \A k \in 1..Len(returned) : returned[k].index \in Nat \ {0} /\ returned[k].era \in Nat

(* The types CursorInv needs, out of TypeOK. *)
LEMMA CursorTyped == TypeOK => CursorTypes
<1> SUFFICES ASSUME TypeOK PROVE CursorTypes
    OBVIOUS
<1>1. framesSeen \in Nat /\ eraOf \in Seq(Nat)
    BY DEF TypeOK, FrameTypeOK
<1>2. frameCursor \in Nat /\ captured \in Nat /\ era \in Nat
    BY DEF TypeOK, TestTypeOK
<1>3. returned \in Seq(ReturnedFrame)
    BY DEF TypeOK, TestTypeOK
<1>4. ASSUME NEW k \in 1..Len(returned)
      PROVE  returned[k].index \in Nat \ {0} /\ returned[k].era \in Nat
    <2>1. returned[k] \in ReturnedFrame
        BY <1>3
    <2> QED
        BY <2>1 DEF ReturnedFrame
<1> QED
    BY <1>1, <1>2, <1>3, <1>4 DEF CursorTypes

(* A completed frame is numbered past the cursor and is of this era. *)
LEMMA CursorFeedEnd ==
    ASSUME TypeOK, TypeOK', CursorInv, FeedEnd
    PROVE  CursorInv'
<1>0. CursorTypes
    BY CursorTyped
<1>1. RingsHoldTheNewest'
    <2>1. FrameTypeOK /\ FrameTypeOK'
        BY DEF TypeOK
    <2>2. NewestFrames /\ NewestTimings
        BY <2>1, RingsAsSequences DEF CursorInv
    <2>3. NewestFrames' /\ NewestTimings'
        BY <2>1, <2>2, RingsStep
    <2>4. FrameTypeOK' => (RingsHoldTheNewest' <=> NewestFrames' /\ NewestTimings')
        BY RingsAsSequences, PTL
    <2> QED
        BY <2>1, <2>3, <2>4
<1>2. /\ framesSeen' = framesSeen + 1
      /\ eraOf' = Append(eraOf, era)
      /\ UNCHANGED <<test, era, frameCursor, captured, returned>>
    BY DEF FeedEnd, Feeding, FrameComplete, testVars, waitVars, resizeVars
<1>3. /\ Len(eraOf') = framesSeen'
      /\ \A i \in 1..framesSeen : eraOf'[i] = eraOf[i]
      /\ eraOf'[framesSeen'] = era
    BY <1>0, <1>2 DEF CursorInv, CursorTypes
<1>4. frameCursor' <= framesSeen' /\ (test' = "moving" => frameCursor' <= captured' /\ captured' <= framesSeen')
    BY <1>0, <1>2 DEF CursorInv, CursorTypes
<1>5. \A i \in 1..framesSeen' : eraOf'[i] <= era' /\ (i > Floor' => eraOf'[i] = era')
    BY <1>0, <1>2, <1>3 DEF CursorInv, CursorTypes, Floor
<1>6. test' = "moving" => \A i \in 1..captured' : eraOf'[i] < era'
    BY <1>0, <1>2, <1>3 DEF CursorInv, CursorTypes
<1>7. \A k \in 1..Len(returned') : returned'[k].index <= frameCursor'
    BY <1>2 DEF CursorInv
<1>8. ReturnedInOrder'
    BY <1>2 DEF CursorInv, ReturnedInOrder
<1>9. OldGridNotReturned'
    BY <1>0, <1>2, <1>3 DEF CursorInv, CursorTypes, OldGridNotReturned
<1>10. NewGridNotSkipped'
    <2>1. ASSUME NEW i \in 1..framesSeen', eraOf'[i] = era', i <= frameCursor'
          PROVE  \E k \in 1..Len(returned') : returned'[k].era = era' /\ returned'[k].index >= i
        <3>1. i \in 1..framesSeen /\ eraOf[i] = era /\ i <= frameCursor
            BY <1>0, <1>2, <1>3, <2>1 DEF CursorInv, CursorTypes
        <3> QED
            BY <1>2, <3>1 DEF CursorInv, NewGridNotSkipped
    <2> QED
        BY <2>1 DEF NewGridNotSkipped
<1> QED
    BY <1>1, <1>3, <1>4, <1>5, <1>6, <1>7, <1>8, <1>9, <1>10 DEF CursorInv

(* A returned frame is past the cursor, and the cursor moves to it. *)
LEMMA CursorWaitReturns ==
    ASSUME TypeOK, CursorInv, WaitReturns
    PROVE  CursorInv'
<1>0. CursorTypes /\ FrameTypeOK
    BY CursorTyped DEF TypeOK
<1> DEFINE entry == frames[FirstMatch]
           i == entry.index
<1>1. FirstMatch \in 1..Len(frames) /\ Offered(entry)
    BY <1>0, FirstMatchProperties DEF WaitReturns
<1>2. i \in Nat /\ frameCursor < i /\ i <= framesSeen
    <2>1. entry \in RingEntry
        BY <1>0, <1>1 DEF FrameTypeOK
    <2>2. i = framesSeen - Len(frames) + FirstMatch
        BY <1>0, <1>1, RingsAsSequences DEF CursorInv, NewestFrames
    <2> QED
        BY <1>0, <1>1, <2>1, <2>2 DEF RingEntry, Offered, CursorTypes, FrameTypeOK
<1>3. /\ test = "waiting" /\ test' = "idle"
      /\ frameCursor' = i
      /\ UNCHANGED <<framesSeen, frames, timings, eraOf, era, captured>>
    BY DEF WaitReturns, Check, EndWait, OthersUnchanged, frameVars, resizeVars
<1>4. /\ Len(returned') = Len(returned) + 1
      /\ \A k \in 1..Len(returned) : returned'[k] = returned[k]
      /\ returned'[Len(returned')].index = i
      /\ returned'[Len(returned')].era = era
    <2>1. returned' = Append(returned, [index |-> i, screen |-> entry.screen, era |-> era])
        BY DEF WaitReturns
    <2>2. returned \in Seq(ReturnedFrame)
        BY DEF TypeOK, TestTypeOK
    <2>3. [index |-> i, screen |-> entry.screen, era |-> era] \in ReturnedFrame
        <3>1. entry \in RingEntry /\ era \in Nat
            BY <1>0, <1>1 DEF FrameTypeOK, CursorTypes
        <3> QED
            BY <3>1 DEF RingEntry, ReturnedFrame
    <2> QED
        BY <2>1, <2>2, <2>3
<1> HIDE DEF i
<1>5. eraOf[i] = era
    BY <1>0, <1>2, <1>3 DEF CursorInv, CursorTypes, Floor
<1>6. RingsHoldTheNewest' /\ Len(eraOf') = framesSeen'
    BY <1>3 DEF CursorInv, RingsHoldTheNewest, HoldsTheNewest
<1>7. /\ frameCursor' <= framesSeen'
      /\ test' # "moving"
      /\ \A j \in 1..framesSeen' : eraOf'[j] <= era' /\ (j > Floor' => eraOf'[j] = era')
    BY <1>0, <1>2, <1>3 DEF CursorInv, CursorTypes, Floor
<1>8. \A k \in 1..Len(returned') : returned'[k].index <= frameCursor'
    <2>1. ASSUME NEW k \in 1..Len(returned') PROVE returned'[k].index <= frameCursor'
        <3>1. CASE k = Len(returned')
            BY <1>2, <1>3, <1>4, <3>1
        <3>2. CASE k # Len(returned')
            <4>1. k \in 1..Len(returned)
                BY <1>0, <1>4, <3>2 DEF CursorTypes
            <4>2. returned[k].index <= frameCursor /\ returned[k].index \in Nat
                BY <1>0, <4>1 DEF CursorInv, CursorTypes
            <4> QED
                BY <1>0, <1>2, <1>3, <1>4, <4>1, <4>2 DEF CursorTypes
        <3> QED
            BY <3>1, <3>2
    <2> QED
        BY <2>1
<1>9. ReturnedInOrder'
    <2>1. ASSUME NEW j \in 1..Len(returned'), NEW k \in 1..Len(returned'), j < k
          PROVE  returned'[j].index < returned'[k].index
        <3>1. j \in 1..Len(returned) /\ returned'[j] = returned[j]
            BY <1>0, <1>4, <2>1 DEF CursorTypes
        <3>2. CASE k = Len(returned')
            <4>1. returned[j].index <= frameCursor /\ returned[j].index \in Nat
                BY <1>0, <3>1 DEF CursorInv, CursorTypes
            <4> QED
                BY <1>0, <1>2, <1>4, <3>1, <3>2, <4>1 DEF CursorTypes
        <3>3. CASE k # Len(returned')
            <4>1. k \in 1..Len(returned) /\ returned'[k] = returned[k]
                BY <1>0, <1>4, <3>3 DEF CursorTypes
            <4> QED
                BY <2>1, <3>1, <4>1 DEF CursorInv, ReturnedInOrder
        <3> QED
            BY <3>2, <3>3
    <2> QED
        BY <2>1 DEF ReturnedInOrder
<1>10. OldGridNotReturned'
    <2>1. ASSUME NEW k \in 1..Len(returned')
          PROVE  eraOf'[returned'[k].index] = returned'[k].era
        <3>1. CASE k = Len(returned')
            BY <1>3, <1>4, <1>5, <3>1
        <3>2. CASE k # Len(returned')
            <4>1. k \in 1..Len(returned) /\ returned'[k] = returned[k]
                BY <1>0, <1>4, <3>2 DEF CursorTypes
            <4> QED
                BY <1>3, <4>1 DEF CursorInv, OldGridNotReturned
        <3> QED
            BY <3>1, <3>2
    <2> QED
        BY <2>1 DEF OldGridNotReturned
<1>11. NewGridNotSkipped'
    <2>1. ASSUME NEW j \in 1..framesSeen', eraOf'[j] = era', j <= frameCursor'
          PROVE  \E k \in 1..Len(returned') : returned'[k].era = era' /\ returned'[k].index >= j
        <3>1. Len(returned') \in 1..Len(returned')
            BY <1>0, <1>4 DEF CursorTypes
        <3>2. returned'[Len(returned')].era = era' /\ returned'[Len(returned')].index >= j
            BY <1>2, <1>3, <1>4, <2>1
        <3> QED
            BY <3>1, <3>2
    <2> QED
        BY <2>1 DEF NewGridNotSkipped
<1> QED
    BY <1>6, <1>7, <1>8, <1>9, <1>10, <1>11 DEF CursorInv

(* The count a resize reads is that of the frames of the older grids. *)
LEMMA CursorResizeGrid ==
    ASSUME TypeOK, CursorInv, ResizeGrid
    PROVE  CursorInv'
<1>0. CursorTypes
    BY CursorTyped
<1>1. /\ test' = "moving" /\ test # "moving"
      /\ captured' = framesSeen /\ era' = era + 1
      /\ UNCHANGED <<framesSeen, frames, timings, eraOf, frameCursor, returned>>
    BY DEF ResizeGrid, OthersUnchanged, frameVars, waitVars
<1>2. RingsHoldTheNewest' /\ Len(eraOf') = framesSeen'
    BY <1>1 DEF CursorInv, RingsHoldTheNewest, HoldsTheNewest
<1>3. /\ frameCursor' <= captured' /\ captured' <= framesSeen' /\ frameCursor' <= framesSeen'
      /\ Floor' = framesSeen'
    BY <1>0, <1>1 DEF CursorInv, CursorTypes, Floor
<1>4. \A i \in 1..framesSeen' : eraOf'[i] < era' /\ eraOf'[i] \in Nat
    BY <1>0, <1>1 DEF CursorInv, CursorTypes
<1>5. ASSUME NEW i \in 1..framesSeen'
      PROVE  eraOf'[i] <= era' /\ ~(i > Floor')
    <2>1. i \in 1..framesSeen /\ era' \in Nat /\ framesSeen' \in Nat
        BY <1>0, <1>1 DEF CursorTypes
    <2>2. eraOf'[i] < era' /\ eraOf'[i] \in Nat
        BY <1>4
    <2> QED
        BY <1>3, <2>1, <2>2
<1>6. \A i \in 1..captured' : eraOf'[i] < era'
    BY <1>1, <1>4
<1>7. /\ \A k \in 1..Len(returned') : returned'[k].index <= frameCursor'
      /\ ReturnedInOrder' /\ OldGridNotReturned'
    BY <1>1 DEF CursorInv, ReturnedInOrder, OldGridNotReturned
<1>8. NewGridNotSkipped'
    <2>1. \A i \in 1..framesSeen' : eraOf'[i] # era'
        <3>1. era' \in Nat
            BY <1>0, <1>1 DEF CursorTypes
        <3> QED
            BY <1>4, <3>1
    <2> QED
        BY <2>1 DEF NewGridNotSkipped
<1> QED
    BY <1>2, <1>3, <1>5, <1>6, <1>7, <1>8 DEF CursorInv

(* The cursor moves to the count read under the lock. *)
LEMMA CursorMoveCursor ==
    ASSUME TypeOK, CursorInv, MoveCursor
    PROVE  CursorInv'
<1>0. CursorTypes
    BY CursorTyped
<1>1. /\ test = "moving" /\ test' = "idle"
      /\ frameCursor' = captured
      /\ UNCHANGED <<framesSeen, frames, timings, eraOf, era, captured, returned>>
    BY DEF MoveCursor, OthersUnchanged, frameVars, waitVars, resizeVars
<1>2. RingsHoldTheNewest' /\ Len(eraOf') = framesSeen'
    BY <1>1 DEF CursorInv, RingsHoldTheNewest, HoldsTheNewest
<1>3. /\ frameCursor' <= framesSeen'
      /\ \A i \in 1..framesSeen' : eraOf'[i] <= era' /\ (i > Floor' => eraOf'[i] = era')
    BY <1>1 DEF CursorInv, Floor
<1>4. \A k \in 1..Len(returned') : returned'[k].index <= frameCursor'
    BY <1>0, <1>1 DEF CursorInv, CursorTypes
<1>5. ReturnedInOrder' /\ OldGridNotReturned'
    BY <1>1 DEF CursorInv, ReturnedInOrder, OldGridNotReturned
<1>6. NewGridNotSkipped'
    <2>1. \A i \in 1..framesSeen : i <= captured => eraOf[i] < era /\ eraOf[i] \in Nat
        BY <1>0, <1>1 DEF CursorInv, CursorTypes
    <2> QED
        BY <1>0, <1>1, <2>1 DEF NewGridNotSkipped, CursorTypes
<1> QED
    BY <1>1, <1>2, <1>3, <1>4, <1>5, <1>6 DEF CursorInv

(* Every step keeps CursorInv. *)
LEMMA CursorStep ==
    ASSUME TypeOK, TypeOK', CursorInv, [Next]_vars
    PROVE  CursorInv'
<1> USE DEF appVars, ptyVars, readerVars, emuVars, stateVars, frameVars, recordVars, waitVars,
            resizeVars, testVars, cursorVars, OthersUnchanged
<1>1. CASE App
    BY <1>1, CursorUnchanged DEF App, AppWrite, AppLearnsSize, AppExit
<1>2. CASE ReadChunk \/ LockState \/ Unlock \/ ReadEnd \/ SetEof
    BY <1>2, CursorUnchanged DEF ReadChunk, LockState, Unlock, ReadEnd, SetEof
<1>3. CASE FeedBegin \/ FeedPaint \/ FeedStrayEnd \/ FeedReset \/ FeedFault
    BY <1>3, CursorUnchanged
       DEF FeedBegin, FeedPaint, FeedStrayEnd, FeedReset, FeedFault, Feeding
<1>4. CASE FeedEnd
    BY <1>4, CursorFeedEnd
<1>5. CASE TakeScreen \/ DeadlinePasses \/ \E r \in Recorders : Record(r) \/ StopRecording(r)
    BY <1>5, CursorUnchanged DEF TakeScreen, DeadlinePasses, Record, StopRecording
<1>6. CASE WaitFails \/ WaitSeesEof \/ WaitGoesOn \/ ReportTimeout
    BY <1>6, CursorUnchanged DEF WaitFails, WaitSeesEof, WaitGoesOn, ReportTimeout, Check, EndWait
<1>7. CASE WaitReturns
    BY <1>7, CursorWaitReturns
<1>8. CASE \E predicate \in Wants : WaitFrame(predicate)
    BY <1>8, CursorUnchanged DEF WaitFrame
<1>9. CASE (\E size \in Sizes : Resize(size)) \/ ResizeSame \/ ResizeFails
    BY <1>9, CursorUnchanged DEF Resize, ResizeSame, ResizeFails
<1>10. CASE ResizeGrid
    BY <1>10, CursorResizeGrid
<1>11. CASE MoveCursor
    BY <1>11, CursorMoveCursor
<1>12. CASE UNCHANGED vars
    BY <1>12, CursorUnchanged DEF vars
<1> QED
    BY <1>1, <1>2, <1>3, <1>4, <1>5, <1>6, <1>7, <1>8, <1>9, <1>10, <1>11, <1>12
    DEF Next, Reader, Test, Waiter

(* CursorInv holds at the start. *)
LEMMA CursorInit ==
    ASSUME Init
    PROVE  CursorInv
<1>1. /\ framesSeen = 0 /\ frameCursor = 0 /\ test = "idle" /\ era = 0
      /\ frames = <<>> /\ timings = <<>> /\ eraOf = <<>> /\ returned = <<>>
    BY DEF Init
<1>2. RingsHoldTheNewest
    <2>1. FrameTypeOK
        BY TypeInit DEF TypeOK
    <2>2. NewestFrames /\ NewestTimings
        BY <1>1, HistoryAssumption DEF NewestFrames, NewestTimings
    <2> QED
        BY <2>1, <2>2, RingsAsSequences
<1> QED
    BY <1>1, <1>2 DEF CursorInv, ReturnedInOrder, OldGridNotReturned, NewGridNotSkipped

(* CursorInv is an invariant: the strengthening the theorems below share. *)
LEMMA CursorCorrect == Spec => []CursorInv
<1>1. Init => CursorInv
    BY CursorInit
<1>2. TypeOK /\ TypeOK' /\ CursorInv /\ [Next]_vars => CursorInv'
    BY CursorStep
<1> QED
    BY <1>1, <1>2, TypeCorrect, PTL DEF Spec

(* The frame ring and the timing ring hold exactly the newest completed
   frames, at every capacity and whatever the reader and the test do. *)
THEOREM RingsCorrect == Spec => []RingsHoldTheNewest
<1>1. CursorInv => RingsHoldTheNewest
    BY DEF CursorInv
<1> QED
    BY <1>1, CursorCorrect, PTL

(* The subtraction in wait_frame's error message cannot underflow. *)
THEOREM CursorWithin == Spec => []CursorWithinCount
<1>1. CursorInv => CursorWithinCount
    BY DEF CursorInv, CursorWithinCount
<1> QED
    BY <1>1, CursorCorrect, PTL

(* wait_frame hands frames out in the order they were completed, none
   twice, over any number of waits and resizes. *)
THEOREM ReturnsInOrder == Spec => []ReturnedInOrder
<1>1. CursorInv => ReturnedInOrder
    BY DEF CursorInv
<1> QED
    BY <1>1, CursorCorrect, PTL

(* The cursor that resize moves keeps both promises of the comment in the
   code: no frame completed before the grid changed is returned after it, *)
THEOREM ResizeCursorCorrect == Spec => []OldGridNotReturned
<1>1. CursorInv => OldGridNotReturned
    BY DEF CursorInv
<1> QED
    BY <1>1, CursorCorrect, PTL

(* and none completed since is out of reach unless it or a later one was
   returned: the repaint that answers a resize stays to be waited for. *)
THEOREM NewGridWithinReach == Spec => []NewGridNotSkipped
<1>1. CursorInv => NewGridNotSkipped
    BY DEF CursorInv
<1> QED
    BY <1>1, CursorCorrect, PTL

-----------------------------------------------------------------------------
(***************************************************************************)
(* The cached snapshot.                                                    *)
(***************************************************************************)

CacheInv == cache.generation <= generation /\ CacheIsCurrent

(* What CacheInv reads. *)
cacheVars == <<generation, cache, reader, panicked, grid, framesSeen>>

(* A step that touches none of what CacheIsCurrent reads keeps it. *)
LEMMA CacheUnchanged ==
    ASSUME CacheInv, UNCHANGED cacheVars
    PROVE  CacheInv'
BY DEF CacheInv, CacheIsCurrent, LockFree, cacheVars

(* A step that counts a new generation leaves no stored snapshot current. *)
LEMMA CacheTouched ==
    ASSUME EmuTypeOK, CacheInv, generation' = generation + 1, UNCHANGED cache
    PROVE  CacheInv'
<1>1. cache.generation \in Nat /\ generation \in Nat
    BY DEF EmuTypeOK
<1>2. cache'.generation < generation'
    BY <1>1 DEF CacheInv
<1> QED
    BY <1>1, <1>2 DEF CacheInv, CacheIsCurrent

(* A stored snapshot shows the grid. *)
LEMMA CacheStored ==
    ASSUME EmuTypeOK, CacheInv, LockFree, StoreSnapshot,
           UNCHANGED <<generation, reader, panicked, grid, framesSeen>>
    PROVE  CacheInv'
<1>1. cache'.generation = generation /\ cache'.screen = PeekSnapshot
    BY DEF StoreSnapshot
<1>2. ~panicked => PeekSnapshot = ScreenOf(grid, framesSeen)
    BY DEF PeekSnapshot, BuildSnapshot, CacheInv, CacheIsCurrent
<1>3. generation \in Nat
    BY DEF EmuTypeOK
<1> QED
    BY <1>1, <1>2, <1>3 DEF CacheInv, CacheIsCurrent, ScreenOf

(* While the reader holds the lock nothing is claimed of the cache. *)
LEMMA CacheFeeding ==
    ASSUME CacheInv, reader' = "feeding", UNCHANGED <<generation, cache>>
    PROVE  CacheInv'
BY DEF CacheInv, CacheIsCurrent, LockFree

(* Every step but a failing ioctl keeps CacheIsCurrent. *)
LEMMA CacheStep ==
    ASSUME ~IoctlMayFail, TypeOK, CacheInv, [Next]_vars
    PROVE  CacheInv'
<1> USE DEF appVars, ptyVars, readerVars, emuVars, stateVars, frameVars, recordVars, waitVars,
            resizeVars, testVars, cacheVars, OthersUnchanged
<1>0. EmuTypeOK
    BY DEF TypeOK
<1>1. CASE App
    BY <1>1, CacheUnchanged DEF App, AppWrite, AppLearnsSize, AppExit
<1>2. CASE ReadChunk \/ LockState \/ ReadEnd
    BY <1>2 DEF ReadChunk, LockState, ReadEnd, CacheInv, CacheIsCurrent, LockFree
<1>3. CASE Unlock \/ SetEof \/ ResizeGrid
    BY <1>0, <1>3, CacheTouched DEF Unlock, SetEof, ResizeGrid
<1>4. CASE FeedBegin \/ FeedPaint \/ FeedStrayEnd \/ FeedEnd \/ FeedReset
    BY <1>4, CacheFeeding DEF FeedBegin, FeedPaint, FeedStrayEnd, FeedEnd, FeedReset, Feeding
<1>5. CASE FeedFault
    <2>1. cache'.generation = generation' /\ panicked' /\ generation' \in Nat
        BY <1>0, <1>5 DEF FeedFault, EmuTypeOK
    <2> QED
        BY <2>1 DEF CacheInv, CacheIsCurrent
<1>6. CASE TakeScreen \/ ReportTimeout
    BY <1>0, <1>6, CacheStored DEF TakeScreen, ReportTimeout
<1>7. CASE DeadlinePasses \/ \E r \in Recorders : Record(r) \/ StopRecording(r)
    BY <1>7, CacheUnchanged DEF DeadlinePasses, Record, StopRecording
<1>8. CASE WaitFails \/ WaitReturns \/ WaitSeesEof \/ WaitGoesOn
    BY <1>8, CacheUnchanged DEF WaitFails, WaitReturns, WaitSeesEof, WaitGoesOn, Check
<1>9. CASE \E predicate \in Wants : WaitFrame(predicate)
    BY <1>9, CacheUnchanged DEF WaitFrame
<1>10. CASE (\E size \in Sizes : Resize(size)) \/ ResizeSame \/ MoveCursor
    BY <1>10, CacheUnchanged DEF Resize, ResizeSame, MoveCursor
<1>11. ~ResizeFails
    BY DEF ResizeFails
<1>12. CASE UNCHANGED vars
    BY <1>12, CacheUnchanged DEF vars
<1> QED
    BY <1>1, <1>2, <1>3, <1>4, <1>5, <1>6, <1>7, <1>8, <1>9, <1>10, <1>11, <1>12
    DEF Next, Reader, Test, Waiter

(* Whoever stores or peeks at a snapshot, no call is ever answered from a
   stored screen that is not the grid's: touch() covers every change of the
   grid, as long as no ioctl fails in the middle of a resize. *)
THEOREM CacheCorrect ==
    ASSUME ~IoctlMayFail
    PROVE  Spec => []CacheIsCurrent
<1>1. Init => CacheInv
    BY DEF Init, CacheInv, CacheIsCurrent
<1>2. TypeOK /\ CacheInv /\ [Next]_vars => CacheInv'
    BY CacheStep
<1>3. CacheInv => CacheIsCurrent
    BY DEF CacheInv
<1> QED
    BY <1>1, <1>2, <1>3, TypeCorrect, PTL DEF Spec

(* After the emulator panicked every call shows the same screen for good:
   later output, resizes, failed ioctls and the end of the stream do not
   move it. *)
THEOREM FrozenForGood == Spec => FrozenAfterPanic
<1> USE DEF appVars, ptyVars, readerVars, emuVars, stateVars, frameVars, recordVars, waitVars,
            resizeVars, testVars, OthersUnchanged
<1>1. ASSUME [Next]_vars, panicked PROVE PeekSnapshot' = PeekSnapshot
    <2>1. PeekSnapshot = cache.screen
        BY <1>1 DEF PeekSnapshot, BuildSnapshot
    <2>2. panicked' /\ cache'.screen = cache.screen
        <3>1. CASE StoreSnapshot /\ UNCHANGED panicked
            BY <1>1, <2>1, <3>1 DEF StoreSnapshot
        <3>2. CASE cache'.screen = cache.screen /\ panicked' \in {panicked, TRUE}
            BY <1>1, <3>2
        <3>3. CASE App
            BY <3>2, <3>3 DEF App, AppWrite, AppLearnsSize, AppExit
        <3>4. CASE Reader
            <4>1. CASE FeedFault
                BY <3>2, <4>1 DEF FeedFault
            <4>2. CASE FeedBegin \/ FeedPaint \/ FeedStrayEnd \/ FeedEnd \/ FeedReset
                BY <3>2, <4>2 DEF FeedBegin, FeedPaint, FeedStrayEnd, FeedEnd, FeedReset
            <4>3. CASE ReadChunk \/ LockState \/ Unlock \/ ReadEnd \/ SetEof
                BY <3>2, <4>3 DEF ReadChunk, LockState, Unlock, ReadEnd, SetEof
            <4> QED
                BY <3>4, <4>1, <4>2, <4>3 DEF Reader
        <3>5. CASE Waiter
            BY <3>1, <3>2, <3>5 DEF Waiter, WaitFails, WaitReturns, WaitSeesEof, WaitGoesOn,
               ReportTimeout, Check
        <3>6. CASE TakeScreen
            BY <3>1, <3>6 DEF TakeScreen
        <3>7. CASE DeadlinePasses \/ \E r \in Recorders : Record(r) \/ StopRecording(r)
            BY <3>2, <3>7 DEF DeadlinePasses, Record, StopRecording
        <3>8. CASE \/ \E predicate \in Wants : WaitFrame(predicate)
                   \/ \E size \in Sizes : Resize(size)
            BY <3>2, <3>8 DEF WaitFrame, Resize
        <3>9. CASE ResizeSame \/ ResizeGrid \/ ResizeFails \/ MoveCursor
            BY <3>2, <3>9 DEF ResizeSame, ResizeGrid, ResizeFails, MoveCursor
        <3>10. CASE UNCHANGED vars
            BY <3>2, <3>10 DEF vars
        <3> QED
            BY <1>1, <3>3, <3>4, <3>5, <3>6, <3>7, <3>8, <3>9, <3>10 DEF Next, Test
    <2> QED
        BY <2>1, <2>2 DEF PeekSnapshot, BuildSnapshot
<1>2. [Next]_vars => [panicked => PeekSnapshot' = PeekSnapshot]_vars
    BY <1>1
<1> QED
    BY <1>2, PTL DEF Spec, FrozenAfterPanic

-----------------------------------------------------------------------------
(***************************************************************************)
(* The tokens in flight.                                                   *)
(***************************************************************************)

(* What an end of the stream knows: whether an update is open, what the
   screen shows, and how many updates were completed. *)
Views == [open : BOOLEAN, shown : Painting, count : Nat]

ReaderView == [open |-> syncUpdate, shown |-> grid.painting, count |-> framesSeen]
AppView == [open |-> appOpen, shown |-> painted, count |-> Len(drawn)]

(* The token completes an update. *)
Completes(token, view) == token.kind = "end" /\ view.open

(* The view after a token. *)
After(token, view) ==
    [open  |-> token.kind = "begin" \/ (view.open /\ token.kind \notin {"end", "reset"}),
     shown |-> IF token.kind = "paint" THEN token.painting
               ELSE IF token.kind = "reset" THEN Blank ELSE view.shown,
     count |-> IF Completes(token, view) THEN view.count + 1 ELSE view.count]

(* `run` goes through the views that the tokens of q lead to, and each
   update completed on the way is the one `log` has under its number. *)
Replays(q, run, log) ==
    /\ run \in [0..Len(q) -> Views]
    /\ \A k \in 1..Len(q) : run[k] = After(q[k], run[k - 1])
    /\ \A k \in 1..Len(q) :
          Completes(q[k], run[k - 1]) => log[run[k].count] = run[k - 1].shown
    /\ \A k \in 0..Len(q) : run[k].count <= Len(log)

Flight == chunk \o pty

(* Until the emulator panics, what is in flight takes the reader to where
   the application is. *)
FlightInv ==
    ~panicked => \E run : /\ Replays(Flight, run, drawn)
                          /\ run[0] = ReaderView
                          /\ run[Len(Flight)] = AppView

(* A token takes a view to a view. *)
LEMMA AfterType ==
    ASSUME NEW token \in Token, NEW view \in Views
    PROVE  After(token, view) \in Views
<1>1. view.open \in BOOLEAN /\ view.shown \in Painting /\ view.count \in Nat
    BY DEF Views
<1>2. Blank \in Painting
    BY SizesAssumption DEF Blank, Painting
<1>3. token.kind = "paint" => token.painting \in Painting
    BY DEF Token
<1>4. view.count + 1 \in Nat
    BY <1>1
<1> DEFINE shown == IF token.kind = "paint" THEN token.painting
                    ELSE IF token.kind = "reset" THEN Blank ELSE view.shown
           count == IF Completes(token, view) THEN view.count + 1 ELSE view.count
           open == token.kind = "begin" \/ (view.open /\ token.kind \notin {"end", "reset"})
<1>5. shown \in Painting /\ count \in Nat /\ open \in BOOLEAN
    BY <1>1, <1>2, <1>3, <1>4
<1>6. After(token, view) = [open |-> open, shown |-> shown, count |-> count]
    BY Zenon DEF After
<1> HIDE DEF shown, count, open
<1> QED
    BY <1>5, <1>6 DEF Views

(* Feeding the first token shortens the run from its front. *)
LEMMA ReplayHead ==
    ASSUME NEW q \in Seq(Token), q # <<>>, NEW run, NEW log, Replays(q, run, log)
    PROVE  /\ run[1] = After(Head(q), run[0])
           /\ Completes(Head(q), run[0]) => log[run[1].count] = run[0].shown
           /\ run[1].count <= Len(log)
           /\ run[0] \in Views /\ run[1] \in Views
           /\ \E rest : /\ Replays(Tail(q), rest, log)
                        /\ rest[0] = run[1]
                        /\ rest[Len(Tail(q))] = run[Len(q)]
<1> DEFINE n == Len(q)
           rest == [k \in 0..(n - 1) |-> run[k + 1]]
<1>1. n \in Nat \ {0} /\ Head(q) = q[1]
    OBVIOUS
<1>2. Tail(q) \in Seq(Token) /\ Len(Tail(q)) = n - 1 /\ \A k \in 1..(n - 1) : Tail(q)[k] = q[k + 1]
    BY <1>1
<1>3. /\ run \in [0..n -> Views]
      /\ \A k \in 1..n : run[k] = After(q[k], run[k - 1])
      /\ \A k \in 1..n : Completes(q[k], run[k - 1]) => log[run[k].count] = run[k - 1].shown
      /\ \A k \in 0..n : run[k].count <= Len(log)
    BY DEF Replays
<1> HIDE DEF n
<1>4. 0 \in 0..n /\ 1 \in 1..n /\ 1 \in 0..n /\ 1 - 1 = 0
    BY <1>1
<1>5. /\ run[1] = After(Head(q), run[0])
      /\ Completes(Head(q), run[0]) => log[run[1].count] = run[0].shown
      /\ run[1].count <= Len(log)
      /\ run[0] \in Views /\ run[1] \in Views
    <2>1. run[0] \in Views /\ run[1] \in Views
        BY <1>3, <1>4
    <2>2. run[1] = After(q[1], run[1 - 1])
        BY <1>3, <1>4, Zenon
    <2>3. Completes(q[1], run[1 - 1]) => log[run[1].count] = run[1 - 1].shown
        BY <1>3, <1>4, Zenon
    <2>4. run[1].count <= Len(log)
        BY <1>3, <1>4, Zenon
    <2> QED
        BY <1>1, <1>4, <2>1, <2>2, <2>3, <2>4, Zenon
<1>6. \A k \in 0..(n - 1) : rest[k] = run[k + 1] /\ k + 1 \in 0..n
    BY <1>1
<1>7. rest \in [0..(n - 1) -> Views]
    BY <1>1, <1>3
<1>8. ASSUME NEW k \in 1..(n - 1)
      PROVE  /\ rest[k] = After(Tail(q)[k], rest[k - 1])
             /\ Completes(Tail(q)[k], rest[k - 1]) => log[rest[k].count] = rest[k - 1].shown
    <2>1. k + 1 \in 1..n /\ (k + 1) - 1 = k /\ k \in 0..(n - 1) /\ k - 1 \in 0..(n - 1) /\ (k - 1) + 1 = k
        BY <1>1
    <2>2. rest[k] = run[k + 1] /\ rest[k - 1] = run[k] /\ Tail(q)[k] = q[k + 1]
        BY <1>2, <1>6, <2>1
    <2>3. run[k + 1] = After(q[k + 1], run[(k + 1) - 1])
        BY <1>3, <2>1, Zenon
    <2>4. Completes(q[k + 1], run[(k + 1) - 1]) => log[run[k + 1].count] = run[(k + 1) - 1].shown
        BY <1>3, <2>1, Zenon
    <2> HIDE DEF rest
    <2> QED
        BY <2>1, <2>2, <2>3, <2>4, Zenon
<1>9. \A k \in 0..(n - 1) : rest[k].count <= Len(log)
    BY <1>3, <1>6
<1>10. rest[0] = run[1] /\ rest[n - 1] = run[n]
    BY <1>1
<1> HIDE DEF rest
<1>11. Replays(Tail(q), rest, log)
    BY <1>2, <1>7, <1>8, <1>9 DEF Replays
<1>12. rest[Len(Tail(q))] = run[Len(q)]
    BY <1>2, <1>10 DEF n
<1> QED
    BY <1>5, <1>10, <1>11, <1>12

(* A token written at the end lengthens the run by its view. *)
LEMMA ReplayAppend ==
    ASSUME NEW q \in Seq(Token), NEW token \in Token, NEW run, NEW log, NEW longer,
           Replays(q, run, log),
           Len(log) \in Nat, Len(longer) \in Nat, Len(log) <= Len(longer),
           \A i \in 1..Len(log) : longer[i] = log[i],
           Completes(token, run[Len(q)])
               => longer[After(token, run[Len(q)]).count] = run[Len(q)].shown,
           After(token, run[Len(q)]).count <= Len(longer)
    PROVE  \E next : /\ Replays(Append(q, token), next, longer)
                     /\ next[0] = run[0]
                     /\ next[Len(Append(q, token))] = After(token, run[Len(q)])
<1> DEFINE n == Len(q)
           p == Append(q, token)
           next == [k \in 0..(n + 1) |-> IF k = n + 1 THEN After(token, run[n]) ELSE run[k]]
<1>1. n \in Nat
    OBVIOUS
<1>2. p \in Seq(Token) /\ Len(p) = n + 1 /\ p[n + 1] = token /\ \A k \in 1..n : p[k] = q[k]
    BY <1>1
<1>3. /\ run \in [0..n -> Views]
      /\ \A k \in 1..n : run[k] = After(q[k], run[k - 1])
      /\ \A k \in 1..n : Completes(q[k], run[k - 1]) => log[run[k].count] = run[k - 1].shown
      /\ \A k \in 0..n : run[k].count <= Len(log)
    BY DEF Replays
<1>4. \A k \in 0..n : run[k] \in Views /\ run[k].count \in Nat
    BY <1>3 DEF Views
<1>5. After(token, run[n]) \in Views
    BY <1>1, <1>4, AfterType
<1>6. next[n + 1] = After(token, run[n]) /\ \A k \in 0..n : next[k] = run[k]
    BY <1>1
<1>7. next \in [0..(n + 1) -> Views]
    BY <1>1, <1>3, <1>5
<1> HIDE DEF next, p
<1>8. ASSUME NEW k \in 1..(n + 1)
      PROVE  /\ next[k] = After(p[k], next[k - 1])
             /\ Completes(p[k], next[k - 1]) => longer[next[k].count] = next[k - 1].shown
    <2>1. CASE k = n + 1
        <3>1. next[k - 1] = run[n] /\ next[k] = After(token, run[n]) /\ p[k] = token
            BY <1>1, <1>2, <1>6, <2>1
        <3> QED
            BY <3>1 DEF n
    <2>2. CASE k # n + 1
        <3>1. k \in 1..n /\ k \in 0..n /\ k - 1 \in 0..n
            BY <1>1, <2>2
        <3>2. next[k] = run[k] /\ next[k - 1] = run[k - 1] /\ p[k] = q[k]
            BY <1>2, <1>6, <3>1
        <3>3. run[k] = After(q[k], run[k - 1])
            BY <1>3, <3>1
        <3>4. Completes(q[k], run[k - 1]) => longer[run[k].count] = run[k - 1].shown
            <4>1. SUFFICES ASSUME Completes(q[k], run[k - 1])
                           PROVE  longer[run[k].count] = run[k - 1].shown
                OBVIOUS
            <4>2. run[k].count \in 1..Len(log)
                <5>1. run[k - 1].count \in Nat /\ run[k].count \in Nat
                    BY <1>4, <3>1
                <5>2. run[k].count = run[k - 1].count + 1
                    BY <3>3, <4>1 DEF After
                <5>3. run[k].count <= Len(log)
                    BY <1>3, <3>1
                <5> QED
                    BY <5>1, <5>2, <5>3
            <4>3. log[run[k].count] = run[k - 1].shown
                BY <1>3, <3>1, <4>1
            <4> QED
                BY <4>2, <4>3
        <3> QED
            BY <3>2, <3>3, <3>4
    <2> QED
        BY <2>1, <2>2
<1>9. ASSUME NEW k \in 0..(n + 1) PROVE next[k].count <= Len(longer)
    <2>1. CASE k = n + 1
        BY <1>6, <2>1 DEF n
    <2>2. CASE k # n + 1
        <3>1. k \in 0..n
            BY <1>1, <2>2
        <3>2. next[k] = run[k] /\ run[k].count \in Nat /\ run[k].count <= Len(log)
            BY <1>3, <1>4, <1>6, <3>1
        <3> QED
            BY <3>2
    <2> QED
        BY <2>1, <2>2
<1>10. Replays(p, next, longer)
    BY <1>2, <1>7, <1>8, <1>9 DEF Replays
<1>11. next[0] = run[0] /\ next[Len(p)] = After(token, run[n])
    BY <1>1, <1>2, <1>6
<1> QED
    BY <1>10, <1>11 DEF p, n

-----------------------------------------------------------------------------
(***************************************************************************)
(* The reader, the frames and the application.                             *)
(***************************************************************************)

(* Where the reader is says what it still holds; once it is past the end
   nothing is left and nothing comes. *)
ReaderInv ==
    /\ reader = "feeding" /\ chunk # <<>> => ~panicked
    /\ reader \in {"reading", "ending", "done"} => chunk = <<>>
    /\ reader \in {"ending", "done"} => ~alive /\ pty = <<>>
    /\ eof => reader = "done"

UpdatesInv ==
    /\ ReaderInv
    /\ FlightInv
    /\ framesSeen <= Len(drawn)
    /\ FramesAreUpdates

(* What UpdatesInv reads. *)
updatesVars == <<alive, pty, readerVars, panicked, eof, syncUpdate, grid.painting, framesSeen,
                 frames, returned, appOpen, painted, drawn>>

(* A step that touches none of it keeps UpdatesInv. *)
LEMMA UpdatesUnchanged ==
    ASSUME UpdatesInv, UNCHANGED updatesVars
    PROVE  UpdatesInv'
<1> USE DEF updatesVars, readerVars
<1>1. ReaderInv'
    BY DEF UpdatesInv, ReaderInv
<1>2. Flight' = Flight /\ ReaderView' = ReaderView /\ AppView' = AppView
    BY DEF Flight, ReaderView, AppView
<1>3. FlightInv'
    BY <1>2 DEF UpdatesInv, FlightInv
<1>4. FramesAreUpdates'
    BY DEF UpdatesInv, FramesAreUpdates, IsUpdate
<1> QED
    BY <1>1, <1>3, <1>4 DEF UpdatesInv

(* The types of what is in flight. *)
LEMMA FlightType ==
    ASSUME TypeOK
    PROVE  /\ chunk \in Seq(Token) /\ pty \in Seq(Token) /\ Flight \in Seq(Token)
           /\ drawn \in Seq(Painting) /\ Len(drawn) \in Nat /\ framesSeen \in Nat
           /\ ReaderView \in Views /\ AppView \in Views
<1>1. chunk \in Seq(Token) /\ pty \in Seq(Token)
    BY DEF TypeOK, PtyTypeOK
<1>2. drawn \in Seq(Painting) /\ Len(drawn) \in Nat
    BY DEF TypeOK, AppTypeOK
<1>3. framesSeen \in Nat
    BY DEF TypeOK, FrameTypeOK
<1>4. grid.painting \in Painting /\ syncUpdate \in BOOLEAN
    BY DEF TypeOK, EmuTypeOK, Grid
<1>5. painted \in Painting /\ appOpen \in BOOLEAN
    BY DEF TypeOK, AppTypeOK
<1>6. Flight \in Seq(Token)
    BY <1>1 DEF Flight
<1>7. ReaderView \in Views /\ AppView \in Views
    BY <1>2, <1>3, <1>4, <1>5 DEF ReaderView, AppView, Views
<1> QED
    BY <1>1, <1>2, <1>3, <1>6, <1>7

(* What the application writes joins the end of what is in flight. *)
LEMMA UpdatesAppWrite ==
    ASSUME TypeOK, UpdatesInv, NEW kind \in Kinds, AppWrite(kind)
    PROVE  UpdatesInv'
<1> DEFINE painting == [id |-> writes + 1, laid |-> appSize]
           token == IF kind = "paint" THEN [kind |-> kind, painting |-> painting]
                    ELSE [kind |-> kind]
<1>0. /\ chunk \in Seq(Token) /\ pty \in Seq(Token) /\ Flight \in Seq(Token)
      /\ drawn \in Seq(Painting) /\ Len(drawn) \in Nat /\ framesSeen \in Nat
      /\ AppView \in Views
    BY FlightType
<1>1. /\ pty' = Append(pty, token)
      /\ alive
      /\ drawn' = IF kind = "end" /\ appOpen THEN Append(drawn, painted) ELSE drawn
      /\ UNCHANGED <<alive, chunk, reader, panicked, eof, syncUpdate, grid, framesSeen,
                     frames, returned>>
    BY DEF AppWrite, readerVars, emuVars, stateVars, frameVars, testVars, waitVars
<1>2. token \in Token /\ token.kind = kind
    <2>1. painting \in Painting
        BY DEF TypeOK, AppTypeOK, Painting
    <2> QED
        BY <2>1 DEF Token, Kinds
<1>3. /\ Len(drawn') \in Nat /\ Len(drawn) <= Len(drawn')
      /\ \A i \in 1..Len(drawn) : drawn'[i] = drawn[i]
    <2>1. painted \in Painting
        BY DEF TypeOK, AppTypeOK
    <2> QED
        BY <1>0, <1>1, <2>1
<1>4. AppView' = After(token, AppView)
    <2>1. appOpen' = (kind = "begin" \/ (appOpen /\ kind \notin {"end", "reset"}))
        BY DEF AppWrite
    <2>2. painted' = IF kind = "paint" THEN painting ELSE IF kind = "reset" THEN Blank ELSE painted
        BY DEF AppWrite
    <2>3. kind = "paint" => token.painting = painting
        OBVIOUS
    <2>4. Len(drawn') = IF kind = "end" /\ appOpen THEN Len(drawn) + 1 ELSE Len(drawn)
        <3>1. painted \in Painting
            BY DEF TypeOK, AppTypeOK
        <3> QED
            BY <1>0, <1>1, <3>1
    <2> HIDE DEF token, painting
    <2>5. (kind = "begin" \/ (appOpen /\ kind \notin {"end", "reset"}))
            = (token.kind = "begin" \/ (AppView.open /\ token.kind \notin {"end", "reset"}))
        BY <1>2, Zenon DEF AppView
    <2>6. painted' = IF token.kind = "paint" THEN token.painting
                     ELSE IF token.kind = "reset" THEN Blank ELSE AppView.shown
        BY <1>2, <2>2, <2>3 DEF AppView
    <2>7. Len(drawn') = IF Completes(token, AppView) THEN AppView.count + 1 ELSE AppView.count
        BY <1>2, <2>4 DEF Completes, AppView
    <2>8. appOpen' = (token.kind = "begin" \/ (AppView.open /\ token.kind \notin {"end", "reset"}))
        BY <2>1, <2>5, Zenon
    <2>9. AppView' = [open |-> appOpen', shown |-> painted', count |-> Len(drawn')]
        BY Zenon DEF AppView
    <2> QED
        BY <2>6, <2>7, <2>8, <2>9, Zenon DEF After
<1>5. Completes(token, AppView) => drawn'[After(token, AppView).count] = AppView.shown
    <2> SUFFICES ASSUME Completes(token, AppView)
                 PROVE  drawn'[After(token, AppView).count] = AppView.shown
        OBVIOUS
    <2>1. kind = "end" /\ appOpen
        BY <1>2 DEF Completes, AppView
    <2>2. painted \in Painting
        BY DEF TypeOK, AppTypeOK
    <2>3. drawn' = Append(drawn, painted)
        BY <1>1, <2>1
    <2>4. After(token, AppView).count = Len(drawn) + 1
        BY DEF After, AppView
    <2> QED
        BY <1>0, <2>2, <2>3, <2>4 DEF AppView
<1>6. Flight' = Append(Flight, token)
    <2> HIDE DEF token
    <2> QED
        BY <1>0, <1>1, <1>2 DEF Flight
<1> HIDE DEF token, painting
<1>7. After(token, AppView).count <= Len(drawn')
    <2>1. AppView'.count = Len(drawn')
        BY DEF AppView
    <2> QED
        BY <1>3, <1>4, <2>1
<1>8. FlightInv'
    <2> SUFFICES ASSUME ~panicked'
                 PROVE  \E run : /\ Replays(Flight', run, drawn')
                                 /\ run[0] = ReaderView'
                                 /\ run[Len(Flight')] = AppView'
        BY DEF FlightInv
    <2>1. PICK run : /\ Replays(Flight, run, drawn)
                     /\ run[0] = ReaderView
                     /\ run[Len(Flight)] = AppView
        BY <1>1 DEF UpdatesInv, FlightInv
    <2>2. \E next : /\ Replays(Append(Flight, token), next, drawn')
                    /\ next[0] = run[0]
                    /\ next[Len(Append(Flight, token))] = After(token, run[Len(Flight)])
        <3>1. /\ Completes(token, run[Len(Flight)])
                    => drawn'[After(token, run[Len(Flight)]).count] = run[Len(Flight)].shown
              /\ After(token, run[Len(Flight)]).count <= Len(drawn')
            BY <1>5, <1>7, <2>1, Zenon
        <3>2. Flight \in Seq(Token) /\ token \in Token /\ Replays(Flight, run, drawn)
            BY <1>0, <1>2, <2>1
        <3>3. Len(drawn) \in Nat
            BY <1>0
        <3> QED
            BY <1>3, <3>1, <3>2, <3>3, ReplayAppend
    <2>3. ReaderView' = ReaderView
        BY <1>1 DEF ReaderView
    <2> QED
        BY <1>4, <1>6, <2>1, <2>2, <2>3
<1>9. ReaderInv'
    BY <1>1 DEF UpdatesInv, ReaderInv
<1>10. FramesAreUpdates'
    <2>1. ASSUME NEW index, NEW screen, IsUpdate(index, screen)
          PROVE  IsUpdate(index, screen)'
        BY <1>0, <1>3, <2>1 DEF IsUpdate
    <2>2. UNCHANGED <<frames, returned>> /\ FramesAreUpdates
        BY <1>1 DEF UpdatesInv
    <2> QED
        BY <2>1, <2>2 DEF FramesAreUpdates
<1>11. framesSeen' <= Len(drawn')
    BY <1>0, <1>1, <1>3 DEF UpdatesInv
<1> QED
    BY <1>8, <1>9, <1>10, <1>11 DEF UpdatesInv

(* A read moves tokens from the PTY to the chunk, in order. *)
LEMMA UpdatesReadChunk ==
    ASSUME TypeOK, UpdatesInv, ReadChunk
    PROVE  UpdatesInv'
<1>0. chunk \in Seq(Token) /\ pty \in Seq(Token)
    BY FlightType
<1>1. /\ reader = "reading" /\ reader' = "locking" /\ pty # <<>>
      /\ UNCHANGED <<alive, panicked, eof, syncUpdate, grid, framesSeen, frames, returned,
                     appOpen, painted, drawn>>
    BY DEF ReadChunk, appVars, emuVars, stateVars, frameVars, testVars, waitVars
<1>2. chunk = <<>>
    BY <1>1 DEF UpdatesInv, ReaderInv
<1>3. PICK n \in 1..Len(pty) : chunk' = SubSeq(pty, 1, n) /\ pty' = SubSeq(pty, n + 1, Len(pty))
    BY DEF ReadChunk
<1>4. Flight' = Flight
    <2>1. Flight = pty
        BY <1>0, <1>2 DEF Flight
    <2>2. SubSeq(pty, 1, n) \o SubSeq(pty, n + 1, Len(pty)) = pty
        BY <1>0
    <2> QED
        BY <1>3, <2>1, <2>2 DEF Flight
<1>5. ReaderView' = ReaderView /\ AppView' = AppView
    BY <1>1 DEF ReaderView, AppView
<1>6. FlightInv'
    BY <1>1, <1>4, <1>5 DEF UpdatesInv, FlightInv
<1>7. ReaderInv' /\ FramesAreUpdates' /\ framesSeen' <= Len(drawn')
    BY <1>1 DEF UpdatesInv, ReaderInv, FramesAreUpdates, IsUpdate
<1> QED
    BY <1>6, <1>7 DEF UpdatesInv

(* The reader feeds its next token: what is in flight takes the view after
   it to the application's, and an update completed by it is the next one. *)
LEMMA FlightFed ==
    ASSUME TypeOK, UpdatesInv, reader = "feeding", chunk # <<>>
    PROVE  /\ Head(chunk) \in Token
           /\ Completes(Head(chunk), ReaderView)
                => framesSeen + 1 <= Len(drawn) /\ drawn[framesSeen + 1] = grid.painting
           /\ /\ chunk' = Tail(chunk)
              /\ UNCHANGED <<pty, panicked, drawn, appOpen, painted>>
              /\ ReaderView' = After(Head(chunk), ReaderView)
              => FlightInv'
<1>0. chunk \in Seq(Token) /\ pty \in Seq(Token) /\ Flight \in Seq(Token)
    BY FlightType
<1>1. PICK run : /\ Replays(Flight, run, drawn)
                 /\ run[0] = ReaderView
                 /\ run[Len(Flight)] = AppView
    BY DEF UpdatesInv, ReaderInv, FlightInv
<1>2. Flight # <<>> /\ Head(Flight) = Head(chunk) /\ Tail(Flight) = Tail(chunk) \o pty
    BY <1>0 DEF Flight
<1>3. /\ run[1] = After(Head(Flight), run[0])
      /\ Completes(Head(Flight), run[0]) => drawn[run[1].count] = run[0].shown
      /\ run[1].count <= Len(drawn)
      /\ \E rest : /\ Replays(Tail(Flight), rest, drawn)
                   /\ rest[0] = run[1]
                   /\ rest[Len(Tail(Flight))] = run[Len(Flight)]
    BY <1>0, <1>1, <1>2, ReplayHead
<1>4. PICK rest : /\ Replays(Tail(Flight), rest, drawn)
                  /\ rest[0] = run[1]
                  /\ rest[Len(Tail(Flight))] = run[Len(Flight)]
    BY <1>3
<1>5. run[1] = After(Head(chunk), ReaderView)
    BY <1>1, <1>2, <1>3, Zenon
<1>6. ASSUME Completes(Head(chunk), ReaderView)
      PROVE  framesSeen + 1 <= Len(drawn) /\ drawn[framesSeen + 1] = grid.painting
    <2>1. run[1].count = framesSeen + 1
        BY <1>5, <1>6 DEF After, ReaderView
    <2>2. run[0].shown = grid.painting
        BY <1>1 DEF ReaderView
    <2> QED
        BY <1>1, <1>2, <1>3, <1>6, <2>1, <2>2
<1>7. ASSUME chunk' = Tail(chunk), UNCHANGED <<pty, panicked, drawn, appOpen, painted>>,
             ReaderView' = After(Head(chunk), ReaderView)
      PROVE  FlightInv'
    <2>1. Flight' = Tail(Flight)
        BY <1>2, <1>7 DEF Flight
    <2>2. AppView' = AppView /\ drawn' = drawn
        BY <1>7 DEF AppView
    <2>3. /\ Replays(Flight', rest, drawn')
          /\ rest[0] = ReaderView'
          /\ rest[Len(Flight')] = AppView'
        BY <1>1, <1>4, <1>5, <1>7, <2>1, <2>2
    <2> QED
        BY <2>3 DEF FlightInv
<1>8. Head(chunk) \in Token
    BY <1>0
<1> QED
    BY <1>6, <1>7, <1>8

(* A token that completes no update changes the view of the reader only. *)
LEMMA UpdatesFeed ==
    ASSUME TypeOK, UpdatesInv, FeedBegin \/ FeedPaint \/ FeedStrayEnd \/ FeedReset
    PROVE  UpdatesInv'
<1>1. /\ reader = "feeding" /\ chunk # <<>> /\ chunk' = Tail(chunk)
      /\ UNCHANGED <<alive, pty, reader, panicked, eof, drawn, appOpen, painted, framesSeen,
                     frames, returned>>
    BY DEF FeedBegin, FeedPaint, FeedStrayEnd, FeedReset, Feeding, appVars, ptyVars, emuVars,
           frameVars, testVars, waitVars
<1>2. grid \in Grid /\ syncUpdate \in BOOLEAN
    BY DEF TypeOK, EmuTypeOK
<1>3. ReaderView' = After(Head(chunk), ReaderView)
    <2>1. CASE FeedBegin
        BY <2>1 DEF FeedBegin, Feeding, frameVars, After, Completes, ReaderView
    <2>2. CASE FeedPaint
        <3>1. Head(chunk).kind = "paint" /\ syncUpdate' = syncUpdate /\ framesSeen' = framesSeen
            BY <2>2 DEF FeedPaint, Feeding, frameVars
        <3>2. grid'.painting = Head(chunk).painting
            BY <1>2, <2>2 DEF FeedPaint, Grid
        <3> QED
            BY <1>2, <3>1, <3>2 DEF After, Completes, ReaderView
    <2>3. CASE FeedStrayEnd
        BY <1>2, <2>3 DEF FeedStrayEnd, Feeding, emuVars, frameVars, After, Completes, ReaderView
    <2>4. CASE FeedReset
        <3>1. Head(chunk).kind = "reset" /\ syncUpdate' = FALSE /\ framesSeen' = framesSeen
            BY <2>4 DEF FeedReset, Feeding, frameVars
        <3>2. grid'.painting = Blank
            BY <1>2, <2>4 DEF FeedReset, Grid
        <3> QED
            BY <1>2, <3>1, <3>2 DEF After, Completes, ReaderView
    <2> QED
        BY <2>1, <2>2, <2>3, <2>4
<1>4. FlightInv'
    BY <1>1, <1>3, FlightFed
<1>5. ReaderInv' /\ FramesAreUpdates' /\ framesSeen' <= Len(drawn')
    BY <1>1 DEF UpdatesInv, ReaderInv, FramesAreUpdates, IsUpdate
<1> QED
    BY <1>4, <1>5 DEF UpdatesInv

(* A completed frame shows the next update of the application. *)
LEMMA UpdatesFeedEnd ==
    ASSUME TypeOK, CursorInv, UpdatesInv, FeedEnd
    PROVE  UpdatesInv'
<1> DEFINE number == framesSeen + 1
           entry == [index |-> number, screen |-> BuildSnapshot(number)]
<1>1. /\ reader = "feeding" /\ chunk # <<>> /\ chunk' = Tail(chunk)
      /\ Head(chunk).kind = "end" /\ syncUpdate /\ syncUpdate' = FALSE
      /\ framesSeen' = number
      /\ frames' = PushBounded(frames, entry, FrameHistory)
      /\ UNCHANGED <<alive, pty, reader, panicked, eof, grid, drawn, appOpen, painted, returned>>
    BY DEF FeedEnd, Feeding, FrameComplete, appVars, ptyVars, frameVars, testVars, waitVars
<1>2. ~panicked
    BY <1>1 DEF UpdatesInv, ReaderInv
<1>3. grid \in Grid /\ framesSeen \in Nat /\ Len(drawn) \in Nat
    BY FlightType DEF TypeOK, EmuTypeOK
<1>4. Completes(Head(chunk), ReaderView)
    BY <1>1 DEF Completes, ReaderView
<1>5. number <= Len(drawn) /\ drawn[number] = grid.painting
    BY <1>1, <1>4, FlightFed
<1>6. ReaderView' = After(Head(chunk), ReaderView)
    BY <1>1, <1>3 DEF After, Completes, ReaderView
<1>7. FlightInv'
    BY <1>1, <1>6, FlightFed
<1>8. entry.index = number /\ IsUpdate(entry.index, entry.screen) /\ entry \in RingEntry
    <2>1. entry.screen = ScreenOf(grid, number) /\ entry.index = number
        BY <1>2 DEF BuildSnapshot
    <2>2. entry \in RingEntry
        BY <1>3, BuildSnapshotType DEF TypeOK, RingEntry
    <2> QED
        BY <1>3, <1>5, <2>1, <2>2 DEF IsUpdate, ScreenOf
<1> HIDE DEF entry
<1>9. FramesAreUpdates'
    <2>1. frames \in Seq(RingEntry) /\ Len(frames) \in Nat
        BY DEF TypeOK, FrameTypeOK
    <2>2. Len(frames) <= FrameHistory
        <3>1. NewestFrames
            BY RingsAsSequences DEF CursorInv, TypeOK
        <3> QED
            BY <1>3, <2>1, <3>1, HistoryAssumption DEF NewestFrames
    <2>3. Pushed(frames', frames, entry, FrameHistory)
        <3>1. Pushed(PushBounded(frames, entry, FrameHistory), frames, entry, FrameHistory)
            BY <1>8, <2>1, <2>2, PushBoundedProperties, HistoryAssumption
        <3> QED
            BY <1>1, <3>1
    <2>4. ASSUME NEW k \in 1..Len(frames')
          PROVE  frames'[k] = entry \/ \E j \in 1..Len(frames) : frames'[k] = frames[j]
        <3>1. CASE k = Len(frames')
            BY <2>3, <3>1 DEF Pushed
        <3>2. CASE k # Len(frames') /\ Len(frames) = FrameHistory
            <4>1. frames'[k] = frames[k + 1] /\ k + 1 \in 1..Len(frames)
                BY <2>1, <2>3, <3>2 DEF Pushed
            <4> QED
                BY <4>1
        <3>3. CASE k # Len(frames') /\ Len(frames) # FrameHistory
            <4>1. frames'[k] = frames[k] /\ k \in 1..Len(frames)
                BY <2>1, <2>3, <3>3 DEF Pushed
            <4> QED
                BY <4>1
        <3> QED
            BY <3>1, <3>2, <3>3
    <2>5. ASSUME NEW k \in 1..Len(frames')
          PROVE  IsUpdate(frames'[k].index, frames'[k].screen)
        BY <1>8, <2>4 DEF UpdatesInv, FramesAreUpdates
    <2> QED
        BY <1>1, <2>5 DEF UpdatesInv, FramesAreUpdates, IsUpdate
<1>10. framesSeen' <= Len(drawn')
    BY <1>1, <1>5
<1>11. ReaderInv'
    BY <1>1 DEF UpdatesInv, ReaderInv
<1> QED
    BY <1>7, <1>9, <1>10, <1>11 DEF UpdatesInv

(* A wait hands out a retained frame. *)
LEMMA UpdatesWaitReturns ==
    ASSUME TypeOK, UpdatesInv, WaitReturns
    PROVE  UpdatesInv'
<1> DEFINE entry == frames[FirstMatch]
           taken == [index |-> entry.index, screen |-> entry.screen, era |-> era]
<1>1. /\ returned' = Append(returned, taken)
      /\ UNCHANGED <<alive, pty, reader, chunk, panicked, eof, syncUpdate, grid, drawn, appOpen,
                     painted, framesSeen, frames>>
    BY DEF WaitReturns, Check, OthersUnchanged, appVars, readerVars, frameVars
<1>2. FirstMatch \in 1..Len(frames)
    <2>1. FrameTypeOK /\ FirstMatch # 0
        BY DEF TypeOK, WaitReturns
    <2> QED
        BY <2>1, FirstMatchProperties DEF FrameTypeOK
<1>3. IsUpdate(taken.index, taken.screen)
    BY <1>2 DEF UpdatesInv, FramesAreUpdates
<1>4. returned \in Seq(ReturnedFrame) /\ taken \in ReturnedFrame
    <2>1. entry \in RingEntry
        BY <1>2 DEF TypeOK, FrameTypeOK
    <2>2. entry.index \in Nat \ {0} /\ entry.screen \in Screen
        BY <2>1 DEF RingEntry
    <2> QED
        BY <2>2 DEF TypeOK, TestTypeOK, ReturnedFrame
<1> HIDE DEF taken
<1>5. ASSUME NEW k \in 1..Len(returned')
      PROVE  IsUpdate(returned'[k].index, returned'[k].screen)
    <2>1. returned'[k] = taken \/ (k \in 1..Len(returned) /\ returned'[k] = returned[k])
        BY <1>1, <1>4
    <2> QED
        BY <1>3, <2>1 DEF UpdatesInv, FramesAreUpdates
<1>6. FramesAreUpdates'
    BY <1>1, <1>5 DEF UpdatesInv, FramesAreUpdates, IsUpdate
<1>7. Flight' = Flight /\ ReaderView' = ReaderView /\ AppView' = AppView
    BY <1>1 DEF Flight, ReaderView, AppView
<1>8. FlightInv' /\ ReaderInv' /\ framesSeen' <= Len(drawn')
    BY <1>1, <1>7 DEF UpdatesInv, FlightInv, ReaderInv
<1> QED
    BY <1>6, <1>8 DEF UpdatesInv

(* Every step keeps UpdatesInv. *)
LEMMA UpdatesStep ==
    ASSUME TypeOK, CursorInv, UpdatesInv, [Next]_vars
    PROVE  UpdatesInv'
<1> USE DEF appVars, ptyVars, readerVars, emuVars, stateVars, frameVars, recordVars, waitVars,
            resizeVars, testVars, updatesVars, OthersUnchanged
<1>1. CASE \E kind \in Kinds : AppWrite(kind)
    BY <1>1, UpdatesAppWrite
<1>2. CASE AppLearnsSize
    BY <1>2, UpdatesUnchanged DEF AppLearnsSize
<1>3. CASE AppExit
    <2>1. ~alive' /\ UNCHANGED <<pty, reader, chunk, panicked, eof, syncUpdate, grid, framesSeen,
                                 frames, returned, appOpen, painted, drawn>>
        BY <1>3 DEF AppExit
    <2>2. ReaderInv' /\ FramesAreUpdates' /\ framesSeen' <= Len(drawn')
        BY <2>1 DEF UpdatesInv, ReaderInv, FramesAreUpdates, IsUpdate
    <2>3. Flight' = Flight /\ ReaderView' = ReaderView /\ AppView' = AppView
        BY <2>1 DEF Flight, ReaderView, AppView
    <2> QED
        BY <2>1, <2>2, <2>3 DEF UpdatesInv, FlightInv
<1>4. CASE ReadChunk
    BY <1>4, UpdatesReadChunk
<1>5. CASE LockState
    <2>1. UNCHANGED <<alive, pty, panicked, eof, syncUpdate, grid, framesSeen, frames, returned,
                      appOpen, painted, drawn>>
        BY <1>5 DEF LockState
    <2>2. IF panicked THEN reader' = "reading" /\ chunk' = <<>>
          ELSE reader' = "feeding" /\ chunk' = chunk
        BY <1>5 DEF LockState
    <2>3. ReaderInv'
        BY <1>5, <2>1, <2>2 DEF UpdatesInv, ReaderInv, LockState
    <2>4. FlightInv'
        <3>1. ~panicked => Flight' = Flight /\ ReaderView' = ReaderView /\ AppView' = AppView
            BY <2>1, <2>2 DEF Flight, ReaderView, AppView
        <3> QED
            BY <2>1, <3>1 DEF UpdatesInv, FlightInv
    <2>5. FramesAreUpdates' /\ framesSeen' <= Len(drawn')
        BY <2>1 DEF UpdatesInv, FramesAreUpdates, IsUpdate
    <2> QED
        BY <2>3, <2>4, <2>5 DEF UpdatesInv
<1>6. CASE Unlock \/ ReadEnd \/ SetEof
    <2>1. UNCHANGED <<alive, pty, chunk, panicked, syncUpdate, grid, framesSeen, frames, returned,
                      appOpen, painted, drawn>>
        BY <1>6 DEF Unlock, ReadEnd, SetEof
    <2>2. ReaderInv'
        BY <1>6, <2>1 DEF UpdatesInv, ReaderInv, Unlock, ReadEnd, SetEof
    <2>3. Flight' = Flight /\ ReaderView' = ReaderView /\ AppView' = AppView
        BY <2>1 DEF Flight, ReaderView, AppView
    <2>4. FlightInv' /\ FramesAreUpdates' /\ framesSeen' <= Len(drawn')
        BY <2>1, <2>3 DEF UpdatesInv, FlightInv, FramesAreUpdates, IsUpdate
    <2> QED
        BY <2>2, <2>4 DEF UpdatesInv
<1>7. CASE FeedBegin \/ FeedPaint \/ FeedStrayEnd \/ FeedReset
    BY <1>7, UpdatesFeed
<1>8. CASE FeedEnd
    BY <1>8, UpdatesFeedEnd
<1>9. CASE FeedFault
    <2>1. panicked' /\ chunk' = <<>> /\ reader = "feeding"
          /\ UNCHANGED <<reader, eof, framesSeen, frames, returned, drawn>>
        BY <1>9 DEF FeedFault
    <2>2. ReaderInv'
        BY <2>1 DEF UpdatesInv, ReaderInv
    <2> QED
        BY <2>1, <2>2 DEF UpdatesInv, FlightInv, FramesAreUpdates, IsUpdate
<1>10. CASE TakeScreen \/ DeadlinePasses \/ \E r \in Recorders : Record(r) \/ StopRecording(r)
    BY <1>10, UpdatesUnchanged DEF TakeScreen, DeadlinePasses, Record, StopRecording
<1>11. CASE WaitFails \/ WaitSeesEof \/ WaitGoesOn \/ ReportTimeout
    BY <1>11, UpdatesUnchanged DEF WaitFails, WaitSeesEof, WaitGoesOn, ReportTimeout, Check
<1>12. CASE WaitReturns
    BY <1>12, UpdatesWaitReturns
<1>13. CASE \E predicate \in Wants : WaitFrame(predicate)
    BY <1>13, UpdatesUnchanged DEF WaitFrame
<1>14. CASE (\E size \in Sizes : Resize(size)) \/ ResizeSame \/ MoveCursor
    BY <1>14, UpdatesUnchanged DEF Resize, ResizeSame, MoveCursor
<1>15. CASE ResizeGrid \/ ResizeFails
    <2>1. grid \in Grid
        BY DEF TypeOK, EmuTypeOK
    <2>2. grid'.painting = grid.painting
        BY <1>15, <2>1 DEF ResizeGrid, ResizeFails, Grid
    <2>3. UNCHANGED <<alive, pty, reader, chunk, panicked, eof, syncUpdate, framesSeen, frames,
                      returned, appOpen, painted, drawn>>
        BY <1>15 DEF ResizeGrid, ResizeFails
    <2> QED
        BY <2>2, <2>3, UpdatesUnchanged
<1>16. CASE UNCHANGED vars
    BY <1>16, UpdatesUnchanged DEF vars
<1> QED
    BY <1>1, <1>2, <1>3, <1>4, <1>5, <1>6, <1>7, <1>8, <1>9, <1>10, <1>11, <1>12, <1>13, <1>14,
       <1>15, <1>16
    DEF Next, App, Reader, Test, Waiter

(* UpdatesInv holds at the start: nothing is in flight, and both ends have
   the same view. *)
LEMMA UpdatesInit ==
    ASSUME Init
    PROVE  UpdatesInv
<1>1. /\ reader = "reading" /\ chunk = <<>> /\ pty = <<>> /\ ~eof /\ framesSeen = 0
      /\ drawn = <<>> /\ frames = <<>> /\ returned = <<>>
      /\ ~appOpen /\ ~syncUpdate /\ painted = Blank /\ grid.painting = Blank
    BY DEF Init
<1>2. ReaderInv /\ FramesAreUpdates /\ framesSeen <= Len(drawn)
    BY <1>1 DEF ReaderInv, FramesAreUpdates
<1>3. FlightInv
    <2>1. Flight = <<>> /\ Len(Flight) = 0
        BY <1>1 DEF Flight
    <2>2. ReaderView = AppView
        BY <1>1 DEF Init, ReaderView, AppView
    <2>3. ReaderView \in Views /\ ReaderView.count = 0
        BY <1>1, FlightType, TypeInit DEF ReaderView
    <2> DEFINE run == [k \in 0..0 |-> ReaderView]
    <2>4. Replays(Flight, run, drawn)
        BY <1>1, <2>1, <2>3 DEF Replays
    <2>5. run[0] = ReaderView /\ run[Len(Flight)] = AppView
        BY <2>1, <2>2
    <2> QED
        BY <2>4, <2>5 DEF FlightInv
<1> QED
    BY <1>2, <1>3 DEF UpdatesInv

(* UpdatesInv is an invariant. *)
LEMMA UpdatesCorrect == Spec => []UpdatesInv
<1>1. Init => UpdatesInv
    BY UpdatesInit
<1>2. TypeOK /\ CursorInv /\ UpdatesInv /\ [Next]_vars => UpdatesInv'
    BY UpdatesStep
<1> QED
    BY <1>1, <1>2, TypeCorrect, CursorCorrect, PTL DEF Spec

(* However reads cut the output, whatever the reader had fed when a resize,
   a reset or a panic came, frame n in the ring or in the hands of a test is
   the n-th update the application completed, as it completed it. *)
THEOREM FramesCorrect == Spec => []FramesAreUpdates
<1>1. UpdatesInv => FramesAreUpdates
    BY DEF UpdatesInv
<1> QED
    BY <1>1, UpdatesCorrect, PTL

-----------------------------------------------------------------------------
(***************************************************************************)
(* What a wait may pass over.                                              *)
(***************************************************************************)

(* The scan finds the oldest frame on offer, and none only if none is. *)
LEMMA FirstMatchLeast ==
    ASSUME FrameTypeOK
    PROVE  /\ FirstMatch # 0 => \A k \in 1..(FirstMatch - 1) : ~Offered(frames[k])
           /\ Scans /\ FirstMatch = 0 => \A k \in 1..Len(frames) : ~Offered(frames[k])
<1> DEFINE I == {i \in 1..Len(frames) : Offered(frames[i])}
<1>1. Len(frames) \in Nat /\ I \in SUBSET Nat
    BY DEF FrameTypeOK
<1>2. \A k \in 1..Len(frames) : k \notin I => ~Offered(frames[k])
    OBVIOUS
<1>3. FirstMatch = IF Scans THEN (IF I # {} THEN Min(I) ELSE 0) ELSE 0
    BY Zenon DEF FirstMatch, SelectInSeq
<1>4. FirstMatch \in 0..Len(frames)
    BY FirstMatchProperties
<1>5. \A k \in I : k # 0
    OBVIOUS
<1> HIDE DEF I
<1>6. I # {} => Min(I) \in I /\ \A y \in I : Min(I) =< y
    BY <1>1, NatMin
<1>7. ASSUME FirstMatch # 0, NEW k \in 1..(FirstMatch - 1)
      PROVE  ~Offered(frames[k])
    <2>1. I # {} /\ FirstMatch = Min(I)
        BY <1>3, <1>7
    <2>2. k \notin I
        BY <1>1, <1>4, <1>6, <1>7, <2>1
    <2>3. k \in 1..Len(frames)
        BY <1>1, <1>4, <1>7
    <2> QED
        BY <1>2, <2>2, <2>3
<1>8. ASSUME Scans, FirstMatch = 0
      PROVE  I = {}
    <2>1. SUFFICES ASSUME I # {} PROVE FALSE
        OBVIOUS
    <2>2. FirstMatch = Min(I)
        BY <1>3, <1>8, <2>1
    <2> QED
        BY <1>5, <1>6, <1>8, <2>1, <2>2
<1> QED
    BY <1>2, <1>7, <1>8

(* Behind the part of the ring that holds no frame on offer, and behind the
   ring itself, nothing is owed to the wait. *)
LEMMA PassedOver ==
    ASSUME TypeOK, CursorInv, UpdatesInv,
           NEW m \in 0..Len(frames), \A k \in 1..m : ~Offered(frames[k])
    PROVE  \A i \in (frameCursor + 1)..(framesSeen - Len(frames) + m) : ~StillOwed(i)
<1> SUFFICES ASSUME NEW i \in (frameCursor + 1)..(framesSeen - Len(frames) + m), StillOwed(i)
             PROVE  FALSE
    OBVIOUS
<1>1. /\ framesSeen \in Nat /\ frameCursor \in Nat /\ Len(frames) \in Nat
      /\ FrameHistory \in Nat \ {0}
    BY HistoryAssumption DEF TypeOK, FrameTypeOK, TestTypeOK
<1>2. /\ Len(frames) = IF framesSeen < FrameHistory THEN framesSeen ELSE FrameHistory
      /\ \A k \in 1..Len(frames) : frames[k].index = framesSeen - Len(frames) + k
    BY RingsAsSequences DEF TypeOK, CursorInv, NewestFrames
<1>3. i \in Nat /\ i > framesSeen - FrameHistory /\ drawn[i].id \in want
    BY <1>1 DEF StillOwed
<1>4. i > framesSeen - Len(frames)
    BY <1>1, <1>2, <1>3
<1>5. PICK k \in 1..m : i = framesSeen - Len(frames) + k
    <2>1. i - (framesSeen - Len(frames)) \in 1..m
        BY <1>1, <1>3, <1>4
    <2> QED
        BY <1>1, <1>3, <2>1
<1>6. frames[k].index = i /\ k \in 1..Len(frames)
    BY <1>1, <1>2, <1>5
<1>7. frames[k].screen.painting = drawn[i]
    BY <1>6 DEF UpdatesInv, FramesAreUpdates, IsUpdate
<1>8. i > frameCursor
    BY <1>1
<1>9. Offered(frames[k])
    BY <1>3, <1>6, <1>7, <1>8 DEF Offered
<1> QED
    BY <1>5, <1>9

(* What the last look of a wait saw, it passed over rightly. *)
ScanInv ==
    test = "waiting" =>
        /\ seenFrame <= framesSeen
        /\ \A i \in (frameCursor + 1)..seenFrame : ~StillOwed(i)

(* A look that finds nothing leaves nothing owed up to the present count. *)
LEMMA NothingOwed ==
    ASSUME TypeOK, CursorInv, UpdatesInv, ScanInv, test = "waiting", FirstMatch = 0
    PROVE  \A i \in (frameCursor + 1)..framesSeen : ~StillOwed(i)
<1>0. FrameTypeOK /\ Len(frames) \in Nat /\ framesSeen \in Nat /\ frameCursor \in Nat
    BY DEF TypeOK, FrameTypeOK, TestTypeOK
<1>1. CASE Scans
    <2>1. \A k \in 1..Len(frames) : ~Offered(frames[k])
        BY <1>0, <1>1, FirstMatchLeast
    <2>2. Len(frames) \in 0..Len(frames) /\ framesSeen - Len(frames) + Len(frames) = framesSeen
        BY <1>0
    <2>3. \A i \in (frameCursor + 1)..(framesSeen - Len(frames) + Len(frames)) : ~StillOwed(i)
        BY <2>1, <2>2, PassedOver
    <2> QED
        BY <2>2, <2>3
<1>2. CASE ~(framesSeen > frameCursor)
    BY <1>0, <1>2
<1>3. CASE seenFrame = framesSeen
    BY <1>3 DEF ScanInv
<1> QED
    BY <1>1, <1>2, <1>3 DEF Scans

(* What a later count leaves out of the ring's reach. *)
LEMMA OutOfReach ==
    ASSUME NEW i \in Int, NEW a \in Int, NEW b \in Int, NEW capacity \in Int,
           a <= b, i > b - capacity
    PROVE  i > a - capacity
OBVIOUS

(* More updates and more frames leave nothing owed that was not. *)
LEMMA ScanGrows ==
    ASSUME TypeOK, UpdatesInv, ScanInv, framesSeen' \in Nat, framesSeen <= framesSeen',
           \A j \in 1..Len(drawn) : drawn'[j] = drawn[j],
           UNCHANGED <<test, want, seenFrame, frameCursor>>
    PROVE  ScanInv'
<1> SUFFICES ASSUME test = "waiting"
             PROVE  /\ seenFrame <= framesSeen'
                    /\ \A i \in (frameCursor + 1)..seenFrame : ~StillOwed(i)'
    BY DEF ScanInv
<1>1. /\ framesSeen \in Nat /\ seenFrame \in Nat /\ frameCursor \in Nat /\ Len(drawn) \in Nat
      /\ FrameHistory \in Nat /\ framesSeen <= Len(drawn)
    BY HistoryAssumption DEF TypeOK, FrameTypeOK, TestTypeOK, AppTypeOK, UpdatesInv
<1>2. seenFrame <= framesSeen /\ \A i \in (frameCursor + 1)..seenFrame : ~StillOwed(i)
    BY DEF ScanInv
<1>3. ASSUME NEW i \in (frameCursor + 1)..seenFrame, StillOwed(i)'
      PROVE  FALSE
    <2>1. drawn'[i] = drawn[i]
        BY <1>1, <1>2
    <2>2. i > framesSeen - FrameHistory
        <3>1. i > framesSeen' - FrameHistory
            BY <1>3 DEF StillOwed
        <3>2. i \in Int
            BY <1>1
        <3>3. /\ framesSeen \in Int /\ framesSeen' \in Int /\ FrameHistory \in Int
              /\ framesSeen <= framesSeen'
            BY <1>1
        <3> QED
            BY <3>1, <3>2, <3>3, OutOfReach
    <2> QED
        BY <1>2, <1>3, <2>1, <2>2 DEF StillOwed
<1> QED
    BY <1>1, <1>2, <1>3

(* A step that touches nothing ScanInv reads keeps it. *)
LEMMA ScanUnchanged ==
    ASSUME ScanInv, UNCHANGED <<test, want, seenFrame, frameCursor, framesSeen, drawn>>
    PROVE  ScanInv'
BY DEF ScanInv, StillOwed

(* Every step keeps ScanInv. *)
LEMMA ScanStep ==
    ASSUME TypeOK, CursorInv, UpdatesInv, ScanInv, [Next]_vars
    PROVE  ScanInv'
<1> USE DEF appVars, ptyVars, readerVars, emuVars, stateVars, frameVars, recordVars, waitVars,
            resizeVars, testVars, OthersUnchanged
<1>0. /\ framesSeen \in Nat /\ frameCursor \in Nat /\ drawn \in Seq(Painting)
      /\ painted \in Painting
    BY DEF TypeOK, FrameTypeOK, TestTypeOK, AppTypeOK
<1>1. ASSUME NEW kind \in Kinds, AppWrite(kind) PROVE ScanInv'
    <2>1. /\ UNCHANGED <<test, want, seenFrame, frameCursor, framesSeen>>
          /\ drawn' = IF kind = "end" /\ appOpen THEN Append(drawn, painted) ELSE drawn
        BY <1>1 DEF AppWrite
    <2>2. \A j \in 1..Len(drawn) : drawn'[j] = drawn[j]
        BY <1>0, <2>1
    <2>3. framesSeen' \in Nat /\ framesSeen <= framesSeen'
        BY <1>0, <2>1
    <2> QED
        BY <2>1, <2>2, <2>3, ScanGrows
<1>2. CASE FeedEnd
    <2>1. UNCHANGED <<test, want, seenFrame, frameCursor, drawn>> /\ framesSeen' = framesSeen + 1
        BY <1>2 DEF FeedEnd, Feeding, FrameComplete
    <2>2. framesSeen' \in Nat /\ framesSeen <= framesSeen'
        BY <1>0, <2>1
    <2>3. \A j \in 1..Len(drawn) : drawn'[j] = drawn[j]
        BY <2>1
    <2> QED
        BY <2>1, <2>2, <2>3, ScanGrows
<1>3. CASE WaitGoesOn
    <2>1. /\ test = "waiting" /\ FirstMatch = 0
          /\ seenFrame' = framesSeen \/ seenFrame' = seenFrame
          /\ UNCHANGED <<want, frameCursor, framesSeen, drawn>>
        BY <1>3 DEF WaitGoesOn, Check
    <2>2. \A i \in (frameCursor + 1)..framesSeen : ~StillOwed(i)
        BY <2>1, NothingOwed
    <2>3. \A i \in (frameCursor + 1)..seenFrame : ~StillOwed(i)
        BY <2>1 DEF ScanInv
    <2> QED
        BY <1>0, <2>1, <2>2, <2>3 DEF ScanInv, StillOwed
<1>4. CASE \E predicate \in Wants : WaitFrame(predicate)
    <2>1. seenFrame' = 0 /\ framesSeen' = framesSeen /\ frameCursor' = frameCursor
        BY <1>4 DEF WaitFrame
    <2> QED
        BY <1>0, <2>1 DEF ScanInv
<1>5. CASE AppLearnsSize \/ AppExit
    BY <1>5, ScanUnchanged DEF AppLearnsSize, AppExit
<1>6. CASE ReadChunk \/ LockState \/ Unlock \/ ReadEnd \/ SetEof
    BY <1>6, ScanUnchanged DEF ReadChunk, LockState, Unlock, ReadEnd, SetEof
<1>7. CASE FeedBegin \/ FeedPaint \/ FeedStrayEnd \/ FeedReset \/ FeedFault
    BY <1>7, ScanUnchanged
       DEF FeedBegin, FeedPaint, FeedStrayEnd, FeedReset, FeedFault, Feeding
<1>8. CASE TakeScreen \/ DeadlinePasses \/ \E r \in Recorders : Record(r) \/ StopRecording(r)
    BY <1>8, ScanUnchanged DEF TakeScreen, DeadlinePasses, Record, StopRecording
<1>9. CASE WaitFails \/ WaitReturns \/ WaitSeesEof \/ ReportTimeout
    BY <1>9 DEF WaitFails, WaitReturns, WaitSeesEof, ReportTimeout, Check, EndWait, ScanInv
<1>10. CASE (\E size \in Sizes : Resize(size)) \/ ResizeSame \/ ResizeGrid \/ ResizeFails
             \/ MoveCursor
    BY <1>10 DEF Resize, ResizeSame, ResizeGrid, ResizeFails, MoveCursor, ScanInv
<1>11. CASE UNCHANGED vars
    BY <1>11, ScanUnchanged DEF vars
<1> QED
    BY <1>1, <1>2, <1>3, <1>4, <1>5, <1>6, <1>7, <1>8, <1>9, <1>10, <1>11
    DEF Next, App, Reader, Test, Waiter

(* ScanInv is an invariant. *)
LEMMA ScanCorrect == Spec => []ScanInv
<1>1. Init => ScanInv
    BY DEF Init, ScanInv
<1>2. TypeOK /\ CursorInv /\ UpdatesInv /\ ScanInv /\ [Next]_vars => ScanInv'
    BY ScanStep
<1> QED
    BY <1>1, <1>2, TypeCorrect, CursorCorrect, UpdatesCorrect, PTL DEF Spec

(* Only a wait that succeeds hands out a frame, *)
LEMMA OnlyWaitReturns ==
    ASSUME [Next]_vars, returned' # returned
    PROVE  WaitReturns
<1> USE DEF appVars, ptyVars, readerVars, emuVars, stateVars, frameVars, recordVars, waitVars,
            resizeVars, testVars, OthersUnchanged
<1>1. ~App
    BY DEF App, AppWrite, AppLearnsSize, AppExit
<1>2. ~Reader
    BY DEF Reader, ReadChunk, LockState, Unlock, ReadEnd, SetEof, FeedBegin, FeedPaint,
           FeedStrayEnd, FeedEnd, FeedReset, FeedFault, Feeding
<1>3. Test => WaitReturns
    BY DEF Test, TakeScreen, DeadlinePasses, Record, StopRecording, WaitFrame, Resize,
           ResizeSame, ResizeGrid, ResizeFails, MoveCursor, Waiter, WaitFails, WaitSeesEof,
           WaitGoesOn, ReportTimeout, Check
<1>4. ~UNCHANGED vars
    BY DEF vars
<1> QED
    BY <1>1, <1>2, <1>3, <1>4 DEF Next

(* and only the look that finds the end of the stream ends a wait with it. *)
LEMMA OnlyWaitSeesEof ==
    ASSUME [Next]_vars, outcome' = "eof", outcome # "eof"
    PROVE  WaitSeesEof
<1> USE DEF appVars, ptyVars, readerVars, emuVars, stateVars, frameVars, recordVars, waitVars,
            resizeVars, testVars, OthersUnchanged
<1>1. ~App
    BY DEF App, AppWrite, AppLearnsSize, AppExit
<1>2. ~Reader
    BY DEF Reader, ReadChunk, LockState, Unlock, ReadEnd, SetEof, FeedBegin, FeedPaint,
           FeedStrayEnd, FeedEnd, FeedReset, FeedFault, Feeding
<1>3. Diagnosis # "eof"
    BY DEF Diagnosis
<1>4. ~(WaitFails \/ WaitReturns \/ WaitGoesOn \/ ReportTimeout)
    BY <1>3 DEF WaitFails, WaitReturns, WaitGoesOn, ReportTimeout, Check, EndWait
<1>5. Test => WaitSeesEof
    BY <1>4 DEF Test, TakeScreen, DeadlinePasses, Record, StopRecording, WaitFrame, Resize,
           ResizeSame, ResizeGrid, ResizeFails, MoveCursor, Waiter
<1>6. ~UNCHANGED vars
    BY DEF vars
<1> QED
    BY <1>1, <1>2, <1>5, <1>6 DEF Next

(* A wait returns the oldest update that satisfies it and is still within
   reach, whatever was completed while it slept and whatever the ring lost:
   the scan by framesSeen skips nothing a full scan would find. *)
THEOREM OldestCorrect == Spec => OldestFirst
<1>1. ASSUME TypeOK, CursorInv, UpdatesInv, [Next]_vars, returned' # returned,
             NEW i \in (frameCursor + 1)..(frameCursor' - 1)
      PROVE  ~StillOwed(i)
    <2>1. WaitReturns
        BY <1>1, OnlyWaitReturns
    <2>2. FirstMatch # 0 /\ frameCursor' = frames[FirstMatch].index
        BY <2>1 DEF WaitReturns
    <2>3. /\ FrameTypeOK /\ Len(frames) \in Nat /\ framesSeen \in Nat /\ frameCursor \in Nat
        BY <1>1 DEF TypeOK, FrameTypeOK, TestTypeOK
    <2>4. FirstMatch \in 1..Len(frames) /\ \A k \in 1..(FirstMatch - 1) : ~Offered(frames[k])
        BY <2>2, <2>3, FirstMatchProperties, FirstMatchLeast
    <2>5. frameCursor' = framesSeen - Len(frames) + FirstMatch
        BY <1>1, <2>2, <2>3, <2>4, RingsAsSequences DEF CursorInv, NewestFrames
    <2>6. FirstMatch - 1 \in 0..Len(frames)
        BY <2>3, <2>4
    <2>7. \A j \in (frameCursor + 1)..(framesSeen - Len(frames) + (FirstMatch - 1)) : ~StillOwed(j)
        BY <1>1, <2>4, <2>6, PassedOver
    <2>8. frameCursor' - 1 = framesSeen - Len(frames) + (FirstMatch - 1)
        BY <2>3, <2>4, <2>5
    <2> QED
        BY <1>1, <2>7, <2>8
<1>2. TypeOK /\ CursorInv /\ UpdatesInv /\ [Next]_vars =>
        [returned' # returned =>
            \A i \in (frameCursor + 1)..(frameCursor' - 1) : ~StillOwed(i)]_vars
    BY <1>1
<1> QED
    BY <1>2, TypeCorrect, CursorCorrect, UpdatesCorrect, PTL DEF Spec, OldestFirst

(* Eof from wait_frame is final: the state learns of the end only after the
   last token was fed, so no update the application ever completed satisfies
   the wait and was within reach. *)
THEOREM EofCorrect == Spec => EofMeansNothingOwed
<1>1. ASSUME TypeOK, CursorInv, UpdatesInv, ScanInv, [Next]_vars,
             outcome' = "eof", outcome # "eof", NEW i \in (frameCursor + 1)..Len(drawn)
      PROVE  ~StillOwed(i)
    <2>1. WaitSeesEof
        BY <1>1, OnlyWaitSeesEof
    <2>2. test = "waiting" /\ ~panicked /\ FirstMatch = 0 /\ eof
        BY <2>1 DEF WaitSeesEof, Check
    <2>3. \A j \in (frameCursor + 1)..framesSeen : ~StillOwed(j)
        BY <1>1, <2>2, NothingOwed
    <2>4. framesSeen = Len(drawn)
        <3>1. PICK run : /\ Replays(Flight, run, drawn)
                         /\ run[0] = ReaderView
                         /\ run[Len(Flight)] = AppView
            BY <1>1, <2>2 DEF UpdatesInv, FlightInv
        <3>2. chunk = <<>> /\ pty = <<>>
            BY <1>1, <2>2 DEF UpdatesInv, ReaderInv
        <3>3. Len(Flight) = 0
            BY <3>2 DEF Flight
        <3>4. ReaderView = AppView
            BY <3>1, <3>3
        <3>5. ReaderView.count = framesSeen /\ AppView.count = Len(drawn)
            BY DEF ReaderView, AppView
        <3> QED
            BY <3>4, <3>5
    <2> QED
        BY <1>1, <2>3, <2>4
<1>2. TypeOK /\ CursorInv /\ UpdatesInv /\ ScanInv /\ [Next]_vars =>
        [(outcome' = "eof" /\ outcome # "eof") =>
            \A i \in (frameCursor + 1)..Len(drawn) : ~StillOwed(i)]_vars
    BY <1>1
<1> QED
    BY <1>2, TypeCorrect, CursorCorrect, UpdatesCorrect, ScanCorrect, PTL
    DEF Spec, EofMeansNothingOwed

-----------------------------------------------------------------------------
(***************************************************************************)
(* The pipeline implements FrameStream.                                    *)
(***************************************************************************)

(* The mapped variables of FrameStream. *)
Log == [i \in 1..framesSeen |-> [painting |-> drawn[i], era |-> eraOf[i]]]
Taken == [k \in 1..Len(returned) |->
             [index |-> returned[k].index, painting |-> returned[k].screen.painting]]

(* A step that completes no frame, takes none and changes no size is a
   stutter, also when the application completes an update in flight. *)
LEMMA StreamStutters ==
    ASSUME TypeOK, UpdatesInv, \A j \in 1..Len(drawn) : drawn'[j] = drawn[j],
           UNCHANGED <<framesSeen, eraOf, era, returned>>, Floor' = Floor
    PROVE  UNCHANGED Stream!vars
<1>1. framesSeen \in Nat /\ Len(drawn) \in Nat /\ framesSeen <= Len(drawn)
    BY DEF TypeOK, FrameTypeOK, AppTypeOK, UpdatesInv
<1>2. Log' = Log
    BY <1>1 DEF Log
<1>3. Taken' = Taken
    BY DEF Taken
<1> QED
    BY <1>2, <1>3 DEF Stream!vars, Log, Taken

(* The length and the entries of the mapped log, *)
LogEntries ==
    /\ Len(Log) = framesSeen
    /\ \A j \in 1..framesSeen : Log[j] = [painting |-> drawn[j], era |-> eraOf[j]]

(* which it has in every well-typed state. *)
LEMMA LogIs == TypeOK => LogEntries
<1> SUFFICES ASSUME TypeOK PROVE LogEntries
    OBVIOUS
<1>1. framesSeen \in Nat
    BY DEF TypeOK, FrameTypeOK
<1> QED
    BY <1>1 DEF LogEntries, Log

(* A completed frame is one more entry of this era. *)
LEMMA StreamCompletes ==
    ASSUME TypeOK, TypeOK', CursorInv, FeedEnd
    PROVE  Stream!Complete
<1>1. /\ framesSeen' = framesSeen + 1
      /\ eraOf' = Append(eraOf, era)
      /\ UNCHANGED <<test, drawn, era, returned, captured, frameCursor>>
    BY DEF FeedEnd, Feeding, FrameComplete, appVars, testVars, waitVars, resizeVars
<1>2. framesSeen \in Nat /\ eraOf \in Seq(Nat) /\ era \in Nat /\ Len(eraOf) = framesSeen
    BY DEF TypeOK, FrameTypeOK, TestTypeOK, CursorInv
<1>3. \A j \in 1..framesSeen : eraOf'[j] = eraOf[j]
    BY <1>1, <1>2
<1>4. eraOf'[framesSeen'] = era
    BY <1>1, <1>2
<1>5. /\ Len(Log) = framesSeen
      /\ \A j \in 1..framesSeen : Log[j] = [painting |-> drawn[j], era |-> eraOf[j]]
    BY LogIs DEF LogEntries
<1>6. /\ Len(Log') = framesSeen'
      /\ \A j \in 1..framesSeen' : Log'[j] = [painting |-> drawn'[j], era |-> eraOf'[j]]
    <2>1. LogEntries'
        BY LogIs, PTL
    <2> QED
        BY <2>1 DEF LogEntries
<1>7. Len(Log') = Len(Log) + 1
    BY <1>1, <1>5, <1>6
<1>8. \A j \in 1..Len(Log) : Log'[j] = Log[j]
    <2>1. ASSUME NEW j \in 1..framesSeen PROVE Log'[j] = Log[j]
        <3>1. j \in 1..framesSeen' /\ eraOf'[j] = eraOf[j] /\ drawn'[j] = drawn[j]
            BY <1>1, <1>2, <1>3
        <3> QED
            BY <1>5, <1>6, <3>1
    <2> QED
        BY <1>5, <2>1
<1>9. Log'[Len(Log')].era = era
    <2>1. framesSeen' \in 1..framesSeen'
        BY <1>1, <1>2
    <2> QED
        BY <1>4, <1>6, <2>1
<1>10. UNCHANGED <<era, Floor, Taken>>
    BY <1>1 DEF Floor, Taken
<1> QED
    BY <1>7, <1>8, <1>9, <1>10 DEF Stream!Complete, Log, Taken

(* A wait that succeeds takes the frame it returns. *)
LEMMA StreamTakes ==
    ASSUME TypeOK, CursorInv, UpdatesInv, WaitReturns
    PROVE  \E i \in 1..Len(Log) : Stream!Take(i)
<1> DEFINE entry == frames[FirstMatch]
           i == entry.index
           out == [index |-> i, screen |-> entry.screen, era |-> era]
<1>1. /\ returned' = Append(returned, out) /\ frameCursor' = i
      /\ test = "waiting" /\ test' = "idle"
      /\ UNCHANGED <<framesSeen, drawn, eraOf, era>>
    BY DEF WaitReturns, Check, EndWait, OthersUnchanged, appVars, frameVars, resizeVars
<1>2. FrameTypeOK /\ CursorTypes /\ Len(frames) \in Nat
    BY CursorTyped DEF TypeOK, FrameTypeOK
<1>3. FirstMatch \in 1..Len(frames) /\ Offered(entry)
    BY <1>2, FirstMatchProperties DEF WaitReturns
<1>4. entry \in RingEntry
    BY <1>2, <1>3 DEF FrameTypeOK
<1>5. i = framesSeen - Len(frames) + FirstMatch
    BY <1>2, <1>3, RingsAsSequences DEF CursorInv, NewestFrames
<1>6. entry.screen.painting = drawn[i]
    BY <1>3 DEF UpdatesInv, FramesAreUpdates, IsUpdate
<1>7. i > frameCursor
    BY <1>3 DEF Offered
<1>8. out \in ReturnedFrame /\ returned \in Seq(ReturnedFrame)
    <2>1. i \in Nat \ {0} /\ entry.screen \in Screen
        BY <1>4 DEF RingEntry
    <2> QED
        BY <2>1 DEF TypeOK, TestTypeOK, ReturnedFrame
<1>9. out.index = i /\ out.screen.painting = drawn[i]
    BY <1>6
<1> HIDE DEF entry, i, out
<1>10. i \in 1..framesSeen
    BY <1>2, <1>3, <1>5, <1>7 DEF CursorTypes
<1>11. eraOf[i] = era
    BY <1>1, <1>7, <1>10 DEF CursorInv, Floor
<1>12. /\ Len(Log) = framesSeen
       /\ Log[i] = [painting |-> drawn[i], era |-> eraOf[i]]
    BY <1>10, LogIs DEF LogEntries
<1>13. i > Floor /\ Floor' = i
    BY <1>1, <1>7 DEF Floor
<1>14. Taken' = Append(Taken, [index |-> i, painting |-> Log[i].painting])
    <2> DEFINE last == [index |-> i, painting |-> drawn[i]]
               n == Len(returned)
               Entries == [index : Nat, painting : Painting]
               Shown(frame) == [index |-> frame.index, painting |-> frame.screen.painting]
    <2>1. n \in Nat /\ Len(returned') = n + 1 /\ returned'[n + 1] = out
          /\ \A k \in 1..n : returned'[k] = returned[k]
        BY <1>1, <1>8
    <2>2. ASSUME NEW frame \in ReturnedFrame PROVE Shown(frame) \in Entries
        BY DEF ReturnedFrame, Screen
    <2>3. \A k \in 1..n : returned[k] \in ReturnedFrame
        BY <1>8
    <2>4. Shown(out) = last
        BY <1>9
    <2>5. last \in Entries
        BY <1>8, <2>2, <2>4
    <2> HIDE DEF last, Entries
    <2>6. Taken = [k \in 1..n |-> Shown(returned[k])]
        BY DEF Taken
    <2>7. Taken' = [k \in 1..(n + 1) |-> Shown(returned'[k])]
        BY <2>1 DEF Taken
    <2> HIDE DEF Shown, n
    <2>8. Taken \in Seq(Entries) /\ Len(Taken) = n /\ \A k \in 1..n : Taken[k] = Shown(returned[k])
        BY <2>1, <2>2, <2>3, <2>6
    <2>9. ASSUME NEW k \in 1..(n + 1)
          PROVE  Shown(returned'[k]) \in Entries /\ Shown(returned'[k]) = Append(Taken, last)[k]
        <3>1. CASE k = n + 1
            BY <2>1, <2>4, <2>5, <2>8, <3>1
        <3>2. CASE k # n + 1
            <4>1. k \in 1..n
                BY <2>1, <3>2
            <4> QED
                BY <2>1, <2>2, <2>3, <2>5, <2>8, <4>1
        <3> QED
            BY <3>1, <3>2
    <2>10. Taken' \in Seq(Entries) /\ Len(Taken') = n + 1
           /\ \A k \in 1..(n + 1) : Taken'[k] = Append(Taken, last)[k]
        <3>1. n + 1 \in Nat /\ \A k \in 1..(n + 1) : Shown(returned'[k]) \in Entries
            BY <2>1, <2>9
        <3>2. Taken' \in Seq(Entries)
            BY <2>7, <3>1
        <3>3. Len(Taken') = n + 1 /\ \A k \in 1..(n + 1) : Taken'[k] = Shown(returned'[k])
            BY <2>7, <3>1
        <3> QED
            BY <2>9, <3>2, <3>3
    <2>11. Append(Taken, last) \in Seq(Entries) /\ Len(Append(Taken, last)) = n + 1
        BY <2>5, <2>8
    <2>12. Taken' = Append(Taken, last)
        BY <2>1, <2>10, <2>11, SeqEqual
    <2> QED
        BY <1>12, <2>12 DEF last
<1>15. UNCHANGED <<Log, era>>
    BY <1>1 DEF Log
<1>16. Log[i].era = era
    BY <1>11, <1>12
<1>17. Stream!Take(i)
    BY <1>13, <1>14, <1>15, <1>16, Zenon DEF Stream!Take, Log, Taken
<1>18. i \in 1..Len(Log)
    BY <1>10, <1>12
<1> QED
    BY <1>17, <1>18, Zenon DEF Stream!Take

(* A resize of the grid changes the size. *)
LEMMA StreamChangesSize ==
    ASSUME TypeOK, ResizeGrid
    PROVE  Stream!ChangeSize
<1>1. /\ test' = "moving" /\ captured' = framesSeen /\ era' = era + 1
      /\ UNCHANGED <<framesSeen, drawn, eraOf, returned>>
    BY DEF ResizeGrid, OthersUnchanged, appVars, frameVars, waitVars
<1>2. Len(Log) = framesSeen
    BY LogIs DEF LogEntries
<1>3. Floor' = Len(Log)
    BY <1>1, <1>2 DEF Floor
<1>4. UNCHANGED <<Log, Taken>>
    BY <1>1 DEF Log, Taken
<1> QED
    BY <1>1, <1>3, <1>4 DEF Stream!ChangeSize, Log, Taken

(* Every step of the pipeline is a step of FrameStream or a stutter. *)
LEMMA StreamStep ==
    ASSUME TypeOK, TypeOK', CursorInv, UpdatesInv, [Next]_vars
    PROVE  [Stream!Next]_Stream!vars
<1> USE DEF appVars, ptyVars, readerVars, emuVars, stateVars, frameVars, recordVars, waitVars,
            resizeVars, testVars, OthersUnchanged
<1>1. ASSUME NEW kind \in Kinds, AppWrite(kind) PROVE UNCHANGED Stream!vars
    <2>1. /\ UNCHANGED <<framesSeen, eraOf, era, returned, test, captured, frameCursor>>
          /\ drawn' = IF kind = "end" /\ appOpen THEN Append(drawn, painted) ELSE drawn
        BY <1>1 DEF AppWrite
    <2>2. drawn \in Seq(Painting) /\ painted \in Painting
        BY DEF TypeOK, AppTypeOK
    <2>3. \A j \in 1..Len(drawn) : drawn'[j] = drawn[j]
        BY <2>1, <2>2
    <2> QED
        BY <2>1, <2>3, StreamStutters DEF Floor
<1>2. CASE UNCHANGED <<framesSeen, eraOf, era, returned, drawn, captured, frameCursor>>
           /\ (test' = "moving" <=> test = "moving")
    BY <1>2, StreamStutters DEF Floor
<1>3. CASE AppLearnsSize \/ AppExit
    BY <1>2, <1>3 DEF AppLearnsSize, AppExit
<1>4. CASE ReadChunk \/ LockState \/ Unlock \/ ReadEnd \/ SetEof
    BY <1>2, <1>4 DEF ReadChunk, LockState, Unlock, ReadEnd, SetEof
<1>5. CASE FeedBegin \/ FeedPaint \/ FeedStrayEnd \/ FeedReset \/ FeedFault
    BY <1>2, <1>5 DEF FeedBegin, FeedPaint, FeedStrayEnd, FeedReset, FeedFault, Feeding
<1>6. CASE FeedEnd
    BY <1>6, StreamCompletes DEF Stream!Next
<1>7. CASE TakeScreen \/ DeadlinePasses \/ \E r \in Recorders : Record(r) \/ StopRecording(r)
    BY <1>2, <1>7 DEF TakeScreen, DeadlinePasses, Record, StopRecording
<1>8. CASE WaitFails \/ WaitSeesEof \/ WaitGoesOn \/ ReportTimeout
    BY <1>2, <1>8 DEF WaitFails, WaitSeesEof, WaitGoesOn, ReportTimeout, Check, EndWait
<1>9. CASE WaitReturns
    BY <1>9, StreamTakes DEF Stream!Next, Log
<1>10. CASE \E predicate \in Wants : WaitFrame(predicate)
    BY <1>2, <1>10 DEF WaitFrame
<1>11. CASE (\E size \in Sizes : Resize(size)) \/ ResizeSame \/ ResizeFails
    BY <1>2, <1>11 DEF Resize, ResizeSame, ResizeFails
<1>12. CASE ResizeGrid
    BY <1>12, StreamChangesSize DEF Stream!Next
<1>13. CASE MoveCursor
    <2>1. UNCHANGED <<framesSeen, eraOf, era, returned, drawn>> /\ Floor' = Floor
        BY <1>13 DEF MoveCursor, Floor
    <2>2. \A j \in 1..Len(drawn) : drawn'[j] = drawn[j]
        BY <2>1
    <2> QED
        BY <2>1, <2>2, StreamStutters
<1>14. CASE UNCHANGED vars
    BY <1>2, <1>14 DEF vars
<1> QED
    BY <1>1, <1>3, <1>4, <1>5, <1>6, <1>7, <1>8, <1>9, <1>10, <1>11, <1>12, <1>13, <1>14
    DEF Next, App, Reader, Test, Waiter

(* The frame pipeline implements what wait_frame promises: with the ring,
   the cursor, the reader and the two-step resize, it does only what
   FrameStream allows. *)
THEOREM StreamImplemented == Spec => ImplementsFrameStream
<1>1. Init => Stream!Init
    <2> SUFFICES ASSUME Init PROVE Stream!Init
        OBVIOUS
    <2>2. framesSeen = 0 /\ era = 0 /\ returned = <<>> /\ test = "idle" /\ frameCursor = 0
        BY DEF Init
    <2>3. Log = <<>> /\ Taken = <<>> /\ Floor = 0
        BY <2>2 DEF Log, Taken, Floor
    <2> QED
        BY <2>2, <2>3 DEF Stream!Init, Log, Taken
<1>2. TypeOK /\ TypeOK' /\ CursorInv /\ UpdatesInv /\ [Next]_vars => [Stream!Next]_Stream!vars
    BY StreamStep
<1> QED
    BY <1>1, <1>2, TypeCorrect, CursorCorrect, UpdatesCorrect, PTL
    DEF Spec, ImplementsFrameStream, Stream!Spec

-----------------------------------------------------------------------------
(***************************************************************************)
(* The account of every recording, for every budget, any sizes and any     *)
(* number of recorders started and stopped at any time.                    *)
(***************************************************************************)

(* The cells of a whole sequence of entries. *)
CellsIn(entries) == FoldLeft(LAMBDA total, entry : total + Cells(entry.size), 0, entries)

Weights(entries) == [k \in 1..Len(entries) |-> Cells(entries[k].size)]

(* CellsOfFirst adds up a prefix. *)
LEMMA CellsOfPrefix ==
    ASSUME NEW entries, NEW k
    PROVE  CellsOfFirst(entries, k) = CellsIn(SubSeq(entries, 1, k))
BY Zenon DEF CellsOfFirst, CellsIn

(* The fold is the last partial sum. *)
LEMMA CellsSum ==
    ASSUME NEW entries \in Seq(RecordingEntry)
    PROVE  \E sum : /\ Partial(sum, Weights(entries), Len(entries))
                    /\ sum[Len(entries)] = CellsIn(entries)
<1> DEFINE n == Len(entries)
           c == Weights(entries)
           Is(f) == f = [s \in SUBSET DOMAIN entries |->
                           IF s = {} THEN 0 ELSE f[s \ {Max(s)}] + Cells(entries[Max(s)].size)]
           it == CHOOSE f : Is(f)
<1>1. n \in Nat /\ DOMAIN entries = 1..n
    OBVIOUS
<1>2. \A k \in 1..n : c[k] = Cells(entries[k].size) /\ c[k] \in Nat
    <2>1. ASSUME NEW k \in 1..n PROVE entries[k].size \in Sizes
        <3>1. entries[k] \in RecordingEntry
            OBVIOUS
        <3> QED
            BY <3>1 DEF RecordingEntry
    <2> QED
        BY <2>1, SizesAssumption DEF Weights
<1>3. CellsIn(entries) = it[DOMAIN entries]
    BY Zenon DEF CellsIn, FoldLeft, MapThenFoldSet
<1> HIDE DEF c, n
<1>4. ASSUME NEW f PROVE Is(f) <=> Iterates(f, c, n)
    <2>1. ASSUME NEW s \in SUBSET (1..n), s # {}
          PROVE  Cells(entries[Max(s)].size) = c[Max(s)]
        <3>1. Max(s) \in 1..n
            BY <1>1, <2>1, UpToMax
        <3> QED
            BY <1>2, <3>1
    <2>2. [s \in SUBSET (1..n) |->
              IF s = {} THEN 0 ELSE f[s \ {Max(s)}] + Cells(entries[Max(s)].size)]
            = [s \in SUBSET (1..n) |-> IF s = {} THEN 0 ELSE f[s \ {Max(s)}] + c[Max(s)]]
        BY <2>1
    <2> QED
        BY <1>1, <2>2, Zenon DEF Iterates
<1>5. \E f : Is(f)
    BY <1>1, <1>4, IteratesExists
<1> HIDE DEF Is
<1>6. Is(it)
    BY <1>5, Zenon
<1> HIDE DEF it
<1>7. Iterates(it, c, n)
    BY <1>4, <1>6
<1>8. \E sum : Partial(sum, c, n) /\ sum[n] = it[1..n]
    BY <1>1, <1>2, <1>7, IteratesSums
<1> QED
    BY <1>1, <1>3, <1>8 DEF c, n

(* The cells of a sequence are a number, that of none being 0. *)
LEMMA CellsType ==
    /\ \A entries \in Seq(RecordingEntry) : CellsIn(entries) \in Nat
    /\ CellsIn(<<>>) = 0
<1>1. ASSUME NEW entries \in Seq(RecordingEntry)
      PROVE  CellsIn(entries) \in Nat /\ (Len(entries) = 0 => CellsIn(entries) = 0)
    <2>1. PICK sum : /\ Partial(sum, Weights(entries), Len(entries))
                     /\ sum[Len(entries)] = CellsIn(entries)
        BY CellsSum
    <2>2. Len(entries) \in Nat /\ Len(entries) \in 0..Len(entries)
        OBVIOUS
    <2> QED
        BY <2>1, <2>2 DEF Partial
<1>2. <<>> \in Seq(RecordingEntry) /\ Len(<<>>) = 0
    OBVIOUS
<1> QED
    BY <1>1, <1>2

(* The cells of a sequence are those of its two parts. *)
LEMMA CellsConcat ==
    ASSUME NEW p \in Seq(RecordingEntry), NEW q \in Seq(RecordingEntry)
    PROVE  CellsIn(p \o q) = CellsIn(p) + CellsIn(q)
<1> DEFINE r == p \o q
           i == Len(p)
           m == Len(q)
           n == Len(r)
<1>1. i \in Nat /\ m \in Nat /\ n \in Nat /\ r \in Seq(RecordingEntry) /\ n = i + m
    OBVIOUS
<1>2. /\ \A k \in 1..i : r[k] = p[k] /\ k \in 1..n
      /\ \A k \in 1..m : r[i + k] = q[k] /\ i + k \in 1..n
    OBVIOUS
<1> HIDE DEF r
<1>3. PICK sum : Partial(sum, Weights(r), n) /\ sum[n] = CellsIn(r)
    BY <1>1, CellsSum
<1>4. PICK left : Partial(left, Weights(p), i) /\ left[i] = CellsIn(p)
    BY CellsSum
<1>5. PICK right : Partial(right, Weights(q), m) /\ right[m] = CellsIn(q)
    BY CellsSum
<1>6. Continues(Weights(p), Weights(r), 0, i)
    BY <1>1, <1>2 DEF Weights, Continues
<1>7. Continues(Weights(q), Weights(r), i, m)
    BY <1>1, <1>2 DEF Weights, Continues
<1> HIDE DEF i, m, n
<1>8. sum[n] = left[i] + right[m]
    BY <1>1, <1>3, <1>4, <1>5, <1>6, <1>7, PartialConcat
<1> QED
    BY <1>3, <1>4, <1>5, <1>8 DEF r

(* The cells of a sequence of one entry. *)
LEMMA CellsOne ==
    ASSUME NEW entry \in RecordingEntry
    PROVE  CellsIn(<<entry>>) = Cells(entry.size)
<1>1. <<entry>> \in Seq(RecordingEntry) /\ Len(<<entry>>) = 1 /\ <<entry>>[1] = entry
    OBVIOUS
<1>2. PICK sum : Partial(sum, Weights(<<entry>>), 1) /\ sum[1] = CellsIn(<<entry>>)
    BY <1>1, CellsSum
<1>3. Weights(<<entry>>)[1] = Cells(entry.size)
    BY <1>1 DEF Weights
<1>4. sum[1] = sum[1 - 1] + Weights(<<entry>>)[1] /\ sum[0] = 0
    BY <1>2 DEF Partial
<1>5. Cells(entry.size) \in Nat
    BY SizesAssumption DEF RecordingEntry
<1> QED
    BY <1>2, <1>3, <1>4, <1>5

-----------------------------------------------------------------------------
(***************************************************************************)
(* The account of one recording, and of all of them.                       *)
(***************************************************************************)

(* The number of the last frame a recording was handed. *)
LastHanded(rec, from) == from + rec.dropped + Len(rec.frames)

(* One recording that began after frame `from`: RecordingsAccount of it. *)
Accounts(rec, from) ==
    /\ \A k \in 1..Len(rec.frames) : rec.frames[k].index = from + rec.dropped + k
    /\ rec.cells = CellsIn(rec.frames)
    /\ rec.cells <= Budget \/ Len(rec.frames) = 1

(* A frame pushed keeps the account: what was dropped comes off the cells
   and onto the count, and a frame alone may be over the budget. *)
LEMMA PushAccounts ==
    ASSUME NEW rec, NEW from \in Nat, NEW entry \in RecordingEntry,
           rec.frames \in Seq(RecordingEntry), rec.dropped \in Nat,
           Accounts(rec, from), entry.index = LastHanded(rec, from) + 1
    PROVE  /\ Accounts(RecordingPush(rec, entry), from)
           /\ LastHanded(RecordingPush(rec, entry), from) = entry.index
<1> DEFINE all == rec.frames
           n == Len(all)
           w == Cells(entry.size)
           k == Overflowing(rec, w)
           gone == SubSeq(all, 1, k)
           kept == SubSeq(all, k + 1, n)
           new == RecordingPush(rec, entry)
<1>1. n \in Nat /\ k \in 0..n /\ rec.dropped \in Nat /\ all \in Seq(RecordingEntry)
    BY OverflowingProperties
<1>2. k = n \/ rec.cells - CellsOfFirst(all, k) + w <= Budget
    BY OverflowingProperties
<1>3. /\ new.frames = Append(kept, entry)
      /\ new.cells = rec.cells - CellsOfFirst(all, k) + w
      /\ new.dropped = rec.dropped + k
    BY DEF RecordingPush
<1>4. w \in Nat
    BY SizesAssumption DEF RecordingEntry
<1>5. /\ \A j \in 1..n : all[j].index = from + rec.dropped + j
      /\ rec.cells = CellsIn(all)
      /\ entry.index = from + rec.dropped + n + 1
    BY DEF Accounts, LastHanded
<1>6. CellsOfFirst(all, k) = CellsIn(gone)
    BY CellsOfPrefix
<1> HIDE DEF k, w, all, new
<1>7. /\ gone \in Seq(RecordingEntry) /\ kept \in Seq(RecordingEntry)
      /\ Len(kept) = n - k /\ gone \o kept = all
    BY <1>1, CutAndRejoin
<1>8. \A j \in 1..(n - k) : kept[j] = all[k + j] /\ k + j \in 1..n
    BY <1>1
<1> HIDE DEF n, gone, kept
<1>10. CellsIn(all) = CellsIn(gone) + CellsIn(kept)
    BY <1>7, CellsConcat
<1>11. CellsIn(gone) \in Nat /\ CellsIn(kept) \in Nat /\ CellsIn(all) \in Nat
    BY <1>1, <1>7, CellsType
<1>12. CellsIn(Append(kept, entry)) = CellsIn(kept) + w
    <2>1. <<entry>> \in Seq(RecordingEntry)
        OBVIOUS
    <2>2. Append(kept, entry) = kept \o <<entry>>
        BY <1>7, AppendIsConcat
    <2> QED
        BY <1>7, <2>1, <2>2, CellsConcat, CellsOne DEF w
<1>13. Len(new.frames) = n - k + 1 /\ new.dropped = rec.dropped + k
    <2>1. Len(Append(kept, entry)) = Len(kept) + 1
        BY <1>7, AppendProperties
    <2> QED
        BY <1>1, <1>3, <1>7, <2>1
<1>14. new.cells = CellsIn(new.frames)
    BY <1>3, <1>4, <1>5, <1>6, <1>10, <1>11, <1>12
<1>15. ASSUME NEW j \in 1..Len(new.frames)
       PROVE  new.frames[j].index = from + new.dropped + j
    <2>1. CASE j = n - k + 1
        <3>1. new.frames[j] = entry
            <4>1. j = Len(kept) + 1
                BY <1>7, <2>1
            <4> QED
                BY <1>3, <1>7, <4>1, AppendProperties
        <3> QED
            BY <1>1, <1>5, <1>13, <2>1, <3>1
    <2>2. CASE j # n - k + 1
        <3>1. j \in 1..(n - k)
            BY <1>1, <1>13, <2>2
        <3>2. new.frames[j] = all[k + j] /\ k + j \in 1..n
            <4>1. j \in 1..Len(kept)
                BY <1>7, <3>1
            <4>2. Append(kept, entry)[j] = kept[j]
                BY <1>7, <4>1, AppendProperties
            <4> QED
                BY <1>3, <1>8, <3>1, <4>2
        <3>3. all[k + j].index = from + rec.dropped + (k + j)
            BY <1>5, <3>2
        <3> QED
            BY <1>1, <1>13, <3>1, <3>2, <3>3
    <2> QED
        BY <2>1, <2>2
<1>16. new.cells <= Budget \/ Len(new.frames) = 1
    BY <1>1, <1>2, <1>3, <1>13
<1>17. LastHanded(new, from) = entry.index
    BY <1>1, <1>5, <1>13 DEF LastHanded
<1>18. Accounts(new, from)
    BY <1>14, <1>15, <1>16 DEF Accounts
<1> QED
    BY <1>17, <1>18 DEF new

(* RecordingsAccount, one recording at a time. *)
AccountInv ==
    \A r \in Recorders :
        /\ Accounts(recording[r], since[r])
        /\ r \in recorders => LastHanded(recording[r], since[r]) = framesSeen

(* It is RecordingsAccount: CellsOfFirst of a whole recording is its cells. *)
LEMMA AccountIs == RecordTypeOK => (AccountInv <=> RecordingsAccount)
<1> SUFFICES ASSUME RecordTypeOK PROVE AccountInv <=> RecordingsAccount
    OBVIOUS
<1>1. ASSUME NEW r \in Recorders
      PROVE  CellsOfFirst(recording[r].frames, Len(recording[r].frames))
                = CellsIn(recording[r].frames)
    <2>1. recording[r].frames \in Seq(RecordingEntry)
        BY DEF RecordTypeOK
    <2>2. SubSeq(recording[r].frames, 1, Len(recording[r].frames)) = recording[r].frames
        BY <2>1
    <2> QED
        BY <2>2, CellsOfPrefix
<1> QED
    BY <1>1 DEF AccountInv, Accounts, LastHanded, RecordingsAccount

(* Every step keeps the account. *)
LEMMA AccountStep ==
    ASSUME TypeOK, AccountInv, [Next]_vars
    PROVE  AccountInv'
<1> USE DEF appVars, ptyVars, readerVars, emuVars, stateVars, frameVars, recordVars, waitVars,
            resizeVars, testVars, OthersUnchanged
<1>0. RecordTypeOK /\ framesSeen \in Nat /\ EmuTypeOK
    BY DEF TypeOK, FrameTypeOK
<1>1. CASE UNCHANGED <<recorders, recording, since, framesSeen>>
    BY <1>1 DEF AccountInv
<1>2. CASE FeedEnd
    <2> DEFINE number == framesSeen + 1
               entry == [index |-> number, size |-> BuildSnapshot(number).size]
    <2>1. /\ framesSeen' = number
          /\ recording' = [r \in Recorders |->
                 IF r \in recorders THEN RecordingPush(recording[r], entry) ELSE recording[r]]
          /\ UNCHANGED <<recorders, since>>
        BY <1>2 DEF FeedEnd, FrameComplete
    <2>2. entry \in RecordingEntry /\ entry.index = number
        <3>1. BuildSnapshot(number) \in Screen /\ number \in Nat \ {0}
            BY <1>0, BuildSnapshotType
        <3> QED
            BY <3>1 DEF RecordingEntry, Screen
    <2> HIDE DEF entry
    <2>3. ASSUME NEW r \in Recorders
          PROVE  /\ Accounts(recording'[r], since'[r])
                 /\ r \in recorders' => LastHanded(recording'[r], since'[r]) = framesSeen'
        <3>1. /\ recording[r].frames \in Seq(RecordingEntry) /\ recording[r].dropped \in Nat
              /\ since[r] \in Nat
            BY <1>0 DEF RecordTypeOK
        <3>2. CASE r \in recorders
            <4>1. /\ Accounts(recording[r], since[r])
                  /\ entry.index = LastHanded(recording[r], since[r]) + 1
                BY <2>2, <3>2 DEF AccountInv
            <4>2. /\ Accounts(RecordingPush(recording[r], entry), since[r])
                  /\ LastHanded(RecordingPush(recording[r], entry), since[r]) = entry.index
                BY <2>2, <3>1, <4>1, PushAccounts
            <4> QED
                BY <2>1, <2>2, <3>2, <4>2
        <3>3. CASE r \notin recorders
            BY <2>1, <3>3 DEF AccountInv
        <3> QED
            BY <3>2, <3>3
    <2> QED
        BY <2>3 DEF AccountInv
<1>3. ASSUME NEW r \in Recorders, Record(r) PROVE AccountInv'
    <2>1. /\ recording[r] = EmptyRecording /\ recorders' = recorders \cup {r}
          /\ since' = [since EXCEPT ![r] = framesSeen]
          /\ UNCHANGED <<recording, framesSeen>>
        BY <1>3 DEF Record
    <2>2. ASSUME NEW q \in Recorders
          PROVE  /\ Accounts(recording'[q], since'[q])
                 /\ q \in recorders' => LastHanded(recording'[q], since'[q]) = framesSeen'
        <3>1. CASE q = r
            <4>1. since'[q] = framesSeen /\ recording'[q] = EmptyRecording
                BY <1>0, <2>1, <3>1 DEF RecordTypeOK
            <4>2. Accounts(EmptyRecording, framesSeen)
                BY CellsType, BudgetAssumption DEF Accounts, EmptyRecording
            <4>3. LastHanded(EmptyRecording, framesSeen) = framesSeen
                BY <1>0 DEF LastHanded, EmptyRecording
            <4> QED
                BY <2>1, <4>1, <4>2, <4>3
        <3>2. CASE q # r
            <4>1. since'[q] = since[q] /\ (q \in recorders' => q \in recorders)
                BY <1>0, <2>1, <3>2 DEF RecordTypeOK
            <4> QED
                BY <2>1, <4>1 DEF AccountInv
        <3> QED
            BY <3>1, <3>2
    <2> QED
        BY <2>2 DEF AccountInv
<1>4. ASSUME NEW r \in Recorders, StopRecording(r) PROVE AccountInv'
    BY <1>4 DEF StopRecording, AccountInv
<1>5. CASE App
    BY <1>1, <1>5 DEF App, AppWrite, AppLearnsSize, AppExit
<1>6. CASE ReadChunk \/ LockState \/ Unlock \/ ReadEnd \/ SetEof
    BY <1>1, <1>6 DEF ReadChunk, LockState, Unlock, ReadEnd, SetEof
<1>7. CASE FeedBegin \/ FeedPaint \/ FeedStrayEnd \/ FeedReset \/ FeedFault
    BY <1>1, <1>7 DEF FeedBegin, FeedPaint, FeedStrayEnd, FeedReset, FeedFault, Feeding
<1>8. CASE TakeScreen \/ DeadlinePasses
    BY <1>1, <1>8 DEF TakeScreen, DeadlinePasses
<1>9. CASE Waiter
    BY <1>1, <1>9 DEF Waiter, WaitFails, WaitReturns, WaitSeesEof, WaitGoesOn, ReportTimeout, Check
<1>10. CASE (\E predicate \in Wants : WaitFrame(predicate)) \/ \E size \in Sizes : Resize(size)
    BY <1>1, <1>10 DEF WaitFrame, Resize
<1>11. CASE ResizeSame \/ ResizeGrid \/ ResizeFails \/ MoveCursor
    BY <1>1, <1>11 DEF ResizeSame, ResizeGrid, ResizeFails, MoveCursor
<1>12. CASE UNCHANGED vars
    BY <1>1, <1>12 DEF vars
<1> QED
    BY <1>2, <1>3, <1>4, <1>5, <1>6, <1>7, <1>8, <1>9, <1>10, <1>11, <1>12
    DEF Next, Reader, Test

(* Whatever the sizes of the frames, the budget, and whenever recorders come
   and go: a recording accounts for every frame since it began, holds the
   newest of them without a gap, carries the exact number of their cells,
   and exceeds its budget by a single frame at most. *)
THEOREM RecordingCorrect == Spec => []RecordingsAccount
<1>1. Init => AccountInv
    <2> SUFFICES ASSUME Init PROVE AccountInv
        OBVIOUS
    <2>1. /\ recorders = {} /\ recording = [r \in Recorders |-> EmptyRecording]
          /\ since = [r \in Recorders |-> 0]
        BY DEF Init
    <2>2. Accounts(EmptyRecording, 0)
        BY CellsType, BudgetAssumption DEF Accounts, EmptyRecording
    <2> QED
        BY <2>1, <2>2 DEF AccountInv
<1>2. TypeOK /\ AccountInv /\ [Next]_vars => AccountInv'
    BY AccountStep
<1>3. TypeOK /\ AccountInv => RecordingsAccount
    BY AccountIs DEF TypeOK
<1> QED
    BY <1>1, <1>2, <1>3, TypeCorrect, PTL DEF Spec

=============================================================================
