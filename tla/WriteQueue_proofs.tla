--------------------------- MODULE WriteQueue_proofs ---------------------------
(***************************************************************************)
(* Safety of the write queue for every value of its constants: any         *)
(* ceiling and capacity, any batches of replies, any number of reads and   *)
(* sends.                                                                  *)
(***************************************************************************)
EXTENDS WriteQueue, Sums_proofs, FiniteSetTheorems

-----------------------------------------------------------------------------
(***************************************************************************)
(* Replies go ahead of what answers their screen.                          *)
(***************************************************************************)

(* The reader holds the state lock, with a read nobody has seen the screen
   of yet. *)
Unseen == reader \in {"checking", "pending", "counting", "handing", "uncounting"}

HandTypes ==
    /\ reads \in Nat /\ shown \in Nat /\ seen \in Nat /\ typing \in Nat
    /\ answers \in [count : Nat, size : Nat]
    /\ handed \in Seq(Request)

(* What a test has seen is at most what is shown, what is shown lies before
   the read in hand, and so does every screen that was typed in answer to. *)
HandInv ==
    /\ HandTypes
    /\ shown <= reads /\ seen <= shown
    /\ Unseen => shown < reads
    /\ \A k \in 1..Len(handed) : handed[k].input => handed[k].since <= shown
    /\ RepliesAheadOfInput

handVars == <<reads, shown, seen, typing, answers, handed, reader>>

(* It holds at the start. *)
LEMMA HandInit == Init => HandInv
BY QueueAssumption DEF Init, HandInv, HandTypes, Unseen, RepliesAheadOfInput, Nothing

(* A step that touches none of its variables keeps it. *)
LEMMA HandUnchanged ==
    ASSUME HandInv, UNCHANGED handVars
    PROVE  HandInv'
BY DEF HandInv, HandTypes, handVars, Unseen, RepliesAheadOfInput

(* A step of the reader that hands nothing over, unless it starts a read
   that is already shown, keeps it. *)
LEMMA HandReader ==
    ASSUME HandInv, UNCHANGED <<reads, shown, seen, typing, answers, handed>>,
           Unseen' => Unseen
    PROVE  HandInv'
BY DEF HandInv, HandTypes, RepliesAheadOfInput

(* Every request knows a read. *)
LEMMA SinceIsNat ==
    ASSUME handed \in Seq(Request)
    PROVE  \A k \in 1..Len(handed) : handed[k].since \in Nat
<1> TAKE k \in 1..Len(handed)
<1>1. handed[k] \in Request
    OBVIOUS
<1> QED
    BY <1>1 DEF Request

(* A hand-over keeps it, of replies because their read is not shown yet, of
   input because what it answers is. *)
LEMMA HandHandOver ==
    ASSUME HandInv, NEW request \in Request, HandOver(request),
           UNCHANGED <<reads, shown, seen, typing, answers>>, Unseen' => Unseen,
           ~request.input => Unseen /\ request.since = reads,
           request.input => request.since <= shown
    PROVE  HandInv'
<1>1. handed' \in Seq(Request) /\ Len(handed') = Len(handed) + 1
      /\ handed'[Len(handed')] = request
      /\ \A k \in 1..Len(handed) : handed'[k] = handed[k]
    BY DEF HandInv, HandTypes, HandOver
<1>2. reads \in Nat /\ shown \in Nat /\ Len(handed) \in Nat
      /\ \A k \in 1..Len(handed) : handed[k].since \in Nat
    BY SinceIsNat DEF HandInv, HandTypes
<1>3. \A k \in 1..Len(handed') : handed'[k].input => handed'[k].since <= shown'
    BY <1>1, <1>2 DEF HandInv
<1>4. RepliesAheadOfInput'
    <2> SUFFICES ASSUME NEW j \in 1..Len(handed'), NEW k \in 1..Len(handed'), j < k,
                        handed'[j].input, ~handed'[k].input
                 PROVE  handed'[k].since > handed'[j].since
        BY DEF RepliesAheadOfInput
    <2>1. CASE k \in 1..Len(handed)
        BY <1>1, <1>2, <2>1 DEF HandInv, RepliesAheadOfInput
    <2>2. CASE k = Len(handed')
        <3>1. handed'[k].since = reads /\ shown < reads
            BY <1>1, <2>2 DEF HandInv
        <3>2. j \in 1..Len(handed) /\ handed'[j] = handed[j]
            BY <1>1, <1>2, <2>2
        <3>3. handed[j].since <= shown
            BY <3>2 DEF HandInv
        <3> QED
            BY <1>2, <3>1, <3>2, <3>3
    <2> QED
        BY <1>1, <1>2, <2>1, <2>2
<1>5. HandTypes'
    BY <1>1 DEF HandInv, HandTypes
<1> QED
    BY <1>3, <1>4, <1>5 DEF HandInv

(* Every step keeps it. *)
LEMMA HandStep == HandInv /\ [Next]_vars => HandInv'
<1> SUFFICES ASSUME HandInv, [Next]_vars PROVE HandInv'
    OBVIOUS
<1> USE DEF childVars, readerVars, writerVars, testVars, sharedVars, handVars, OthersUnchanged
<1>1. CASE Child \/ Write \/ UNCHANGED vars
    BY <1>1, HandUnchanged DEF Child, AppReads, AppStopsReading, AppCloses, Write, Receive,
       Coalesce, Take, StartWrite, WriteByte, WriteFails, FinishWrite, UncountReplies, LoadBytes,
       SubtractBytes, Acknowledge, DropReceiver, vars
<1>2. CASE CheckCeiling \/ CountPending \/ CountBytes \/ HandOverFails \/ UncountBytes \/ ReadEnd
    BY <1>2, HandReader DEF CheckCeiling, CountPending, CountBytes, HandOverFails, UncountBytes,
       ReadEnd, Unseen
<1>3. CASE \E batch \in Batches : Feed(batch)
    <2> PICK batch \in Batches : Feed(batch)
        BY <1>3
    <2>1. batch \in [count : Nat, size : Nat]
        BY QueueAssumption
    <2>2. reads' = reads + 1 /\ answers' = batch
          /\ UNCHANGED <<shown, seen, typing, handed>>
        BY DEF Feed
    <2>3. HandTypes' /\ shown' < reads' /\ seen' <= shown'
        BY <2>1, <2>2 DEF HandInv, HandTypes
    <2> QED
        BY <2>2, <2>3 DEF HandInv, HandTypes, RepliesAheadOfInput
<1>4. CASE HandOverReplies
    <2>1. ReplyRequest \in Request
        BY DEF HandInv, HandTypes, ReplyRequest, Request
    <2> QED
        BY <1>4, <2>1, HandHandOver DEF HandOverReplies, Unseen, ReplyRequest
<1>5. CASE Show
    <2>1. shown' = reads /\ reads' = reads /\ reader' = "reading"
          /\ UNCHANGED <<seen, typing, handed>> /\ answers' = Nothing
        BY <1>5 DEF Show
    <2>2. HandTypes' /\ shown <= shown' /\ shown' \in Nat
        BY <2>1 DEF HandInv, HandTypes, Nothing
    <2>3. \A k \in 1..Len(handed) : handed[k].input => handed[k].since <= shown'
        BY <2>1, <2>2, SinceIsNat DEF HandInv, HandTypes
    <2> QED
        BY <2>1, <2>2, <2>3 DEF HandInv, HandTypes, RepliesAheadOfInput, Unseen
<1>6. CASE \E size \in InputSizes : Send(size)
    <2> PICK size \in InputSizes : Send(size)
        BY <1>6
    <2>1. size \in Nat
        BY QueueAssumption
    <2>2. typing' = size /\ seen' = shown /\ UNCHANGED <<reads, shown, answers, handed, reader>>
        BY DEF Send
    <2> QED
        BY <2>1, <2>2 DEF HandInv, HandTypes, RepliesAheadOfInput, Unseen
<1>7. CASE HandOverInput
    <2> DEFINE request == [id |-> Len(handed) + 1, size |-> typing, replies |-> 0,
                           input |-> TRUE, since |-> seen]
    <2>1. request \in Request
        BY DEF HandInv, HandTypes, Request
    <2>2. HandOver(request) /\ UNCHANGED <<reads, shown, seen, typing, answers, reader>>
        BY <1>7 DEF HandOverInput
    <2>3. request.since <= shown /\ request.input
        BY DEF HandInv
    <2> HIDE DEF request
    <2> QED
        BY <2>1, <2>2, <2>3, HandHandOver DEF Unseen
<1>8. CASE SendToClosed \/ TakeAck \/ GiveUp
    <2>1. typing' = 0 /\ seen' = 0 /\ UNCHANGED <<reads, shown, answers, handed, reader>>
        BY <1>8 DEF SendToClosed, TakeAck, GiveUp, EndSend
    <2> QED
        BY <2>1 DEF HandInv, HandTypes, RepliesAheadOfInput, Unseen
<1>9. CASE Expire \/ LookWhetherBusy
    BY <1>9, HandUnchanged DEF Expire, LookWhetherBusy
<1> QED
    BY <1>1, <1>2, <1>3, <1>4, <1>5, <1>6, <1>7, <1>8, <1>9 DEF Next, Answer, Wait

(* What the test types in answer to a screen never overtakes the replies to
   queries made before that screen was drawn: queue_replies runs under the
   state lock, before anybody can see the screen. *)
THEOREM RepliesGoAhead == Spec => []RepliesAheadOfInput
<1>1. HandInv => RepliesAheadOfInput
    BY DEF HandInv
<1> QED
    BY <1>1, HandInit, HandStep, PTL DEF Spec

-----------------------------------------------------------------------------
(***************************************************************************)
(* The account of queued bytes.                                            *)
(***************************************************************************)

BytesTypes ==
    /\ queuedBytes \in Int /\ queued \in Nat /\ subtract \in Nat
    /\ bytes \in Seq(Unit) /\ queue \in Seq(Request)
    /\ answers \in [count : Nat, size : Nat] /\ typing \in Nat /\ seen \in Nat
    /\ reads \in Nat /\ shown \in Nat /\ handed \in Seq(Request)

(* The writer never takes out more than is there, only a dead writer makes
   the reader take bytes back, and a dead writer means that no further read
   can ask the account anything. *)
BytesInv ==
    /\ BytesTypes
    /\ writer = "subtracting" => subtract <= queuedBytes
    /\ queuedBytes < 0 => writer = "done" /\ reader \in {"showing", "reading", "done"}
    /\ reader = "uncounting" => writer = "done"
    /\ writer \in {"breaking", "done"} => failed
    /\ failed => closed

bytesVars == <<queuedBytes, queued, subtract, bytes, queue, answers, typing, seen, reads, shown,
               handed, writer, reader, failed, closed>>

(* The bytes of a request are units. *)
LEMMA UnitsType ==
    ASSUME NEW request \in Request
    PROVE  Units(request) \in Seq(Unit)
<1>1. request.id \in Nat \ {0} /\ request.size \in Nat
    BY DEF Request
<1>2. \A u \in 1..request.size : [request |-> request.id, unit |-> u] \in Unit
    BY <1>1 DEF Unit
<1> QED
    BY <1>1, <1>2 DEF Units

(* It holds at the start. *)
LEMMA BytesInit == Init => BytesInv
BY DEF Init, BytesInv, BytesTypes, Nothing

(* A step that touches none of its variables keeps it. *)
LEMMA BytesUnchanged ==
    ASSUME BytesInv, UNCHANGED bytesVars
    PROVE  BytesInv'
BY DEF BytesInv, BytesTypes, bytesVars

(* The reader's steps keep it: it adds, and takes back only from a dead
   writer's account. *)
LEMMA BytesReader ==
    ASSUME BytesInv, Answer
    PROVE  BytesInv'
<1> USE DEF childVars, writerVars, testVars, sharedVars
<1>0. answers.size \in Nat /\ answers.count \in Nat /\ queuedBytes \in Int
    BY DEF BytesInv, BytesTypes
<1>1. CASE CheckCeiling \/ CountPending \/ HandOverFails \/ ReadEnd
    <2>1. UNCHANGED <<queuedBytes, queued, subtract, bytes, queue, answers, typing, seen, reads,
                      shown, handed, writer, failed, closed>>
        BY <1>1 DEF CheckCeiling, CountPending, HandOverFails, ReadEnd
    <2>2. \/ reader = "checking" /\ reader' \in {"pending", "showing"}
          \/ reader = "pending" /\ reader' = "counting"
          \/ reader = "handing" /\ reader' = "uncounting" /\ writer = "done"
          \/ reader = "reading" /\ reader' = "done"
        BY <1>1 DEF CheckCeiling, CountPending, HandOverFails, ReadEnd
    <2> QED
        BY <2>1, <2>2 DEF BytesInv, BytesTypes
<1>2. CASE CountBytes
    BY <1>0, <1>2 DEF CountBytes, BytesInv, BytesTypes
<1>3. CASE HandOverReplies
    <2>1. ReplyRequest \in Request
        BY DEF BytesInv, BytesTypes, ReplyRequest, Request
    <2>2. queue' \in Seq(Request) /\ handed' \in Seq(Request)
        BY <1>3, <2>1 DEF HandOverReplies, HandOver, BytesInv, BytesTypes
    <2> QED
        BY <1>3, <2>2 DEF HandOverReplies, BytesInv, BytesTypes
<1>4. CASE UncountBytes
    BY <1>0, <1>4 DEF UncountBytes, BytesInv, BytesTypes
<1>5. CASE Show
    BY <1>5 DEF Show, BytesInv, BytesTypes, Nothing
<1> QED
    BY <1>1, <1>2, <1>3, <1>4, <1>5 DEF Answer

(* The writer's steps keep it. *)
LEMMA BytesWriter ==
    ASSUME BytesInv, Write
    PROVE  BytesInv'
<1> USE DEF childVars, readerVars, testVars
<1>0. queuedBytes \in Int /\ queued \in Nat /\ subtract \in Nat /\ bytes \in Seq(Unit)
    BY DEF BytesInv, BytesTypes
<1>1. ASSUME queue # <<>>, Take(Head(queue))
      PROVE  queue' \in Seq(Request) /\ bytes' \in Seq(Unit)
    <2>1. Head(queue) \in Request /\ Tail(queue) \in Seq(Request)
        BY <1>1 DEF BytesInv, BytesTypes
    <2> QED
        BY <1>0, <1>1, <2>1, UnitsType DEF Take
<1>2. CASE Receive
    BY <1>1, <1>2 DEF Receive, BytesInv, BytesTypes
<1>3. CASE Coalesce
    BY <1>1, <1>3 DEF Coalesce, BytesInv, BytesTypes
<1>4. CASE StartWrite
    BY <1>0, <1>4 DEF StartWrite, BytesInv, BytesTypes
<1>5. CASE WriteByte
    BY <1>0, <1>5 DEF WriteByte, sharedVars, BytesInv, BytesTypes
<1>6. CASE WriteFails
    BY <1>6 DEF WriteFails, sharedVars, BytesInv, BytesTypes
<1>7. CASE FinishWrite \/ UncountReplies
    <2>1. CASE FinishWrite
        BY <2>1 DEF FinishWrite, BytesInv, BytesTypes
    <2>2. CASE UncountReplies
        BY <2>2 DEF UncountReplies, BytesInv, BytesTypes
    <2> QED
        BY <1>7, <2>1, <2>2
<1>8. CASE LoadBytes
    <2>1. queuedBytes >= 0
        BY <1>0, <1>8 DEF LoadBytes, BytesInv
    <2>2. subtract' \in Nat /\ subtract' <= queuedBytes
        BY <1>0, <1>8, <2>1 DEF LoadBytes
    <2> QED
        BY <1>8, <2>2 DEF LoadBytes, sharedVars, BytesInv, BytesTypes
<1>9. CASE SubtractBytes
    <2>1. queuedBytes' \in Int /\ queuedBytes' >= 0
        BY <1>0, <1>9 DEF SubtractBytes, BytesInv
    <2> QED
        BY <1>9, <2>1 DEF SubtractBytes, BytesInv, BytesTypes
<1>10. CASE Acknowledge
    BY <1>10 DEF Acknowledge, sharedVars, BytesInv, BytesTypes
<1>11. CASE DropReceiver
    BY <1>11 DEF DropReceiver, BytesInv, BytesTypes
<1> QED
    BY <1>2, <1>3, <1>4, <1>5, <1>6, <1>7, <1>8, <1>9, <1>10, <1>11 DEF Write

(* Every step keeps it. *)
LEMMA BytesStep == BytesInv /\ [Next]_vars => BytesInv'
<1> SUFFICES ASSUME BytesInv, [Next]_vars PROVE BytesInv'
    OBVIOUS
<1> USE DEF childVars, readerVars, writerVars, testVars, sharedVars, bytesVars, OthersUnchanged
<1>1. CASE Answer \/ Write
    BY <1>1, BytesReader, BytesWriter
<1>2. CASE AppReads \/ AppStopsReading \/ Expire \/ LookWhetherBusy \/ UNCHANGED vars
    BY <1>2, BytesUnchanged DEF AppReads, AppStopsReading, Expire, LookWhetherBusy, vars
<1>3. CASE AppCloses
    BY <1>3 DEF AppCloses, BytesInv, BytesTypes
<1>4. CASE \E batch \in Batches : Feed(batch)
    <2> PICK batch \in Batches : Feed(batch)
        BY <1>4
    <2>1. batch \in [count : Nat, size : Nat]
        BY QueueAssumption
    <2>2. ~(queuedBytes < 0)
        BY DEF Feed, BytesInv
    <2> QED
        BY <2>1, <2>2 DEF Feed, BytesInv, BytesTypes
<1>5. CASE \E size \in InputSizes : Send(size)
    <2> PICK size \in InputSizes : Send(size)
        BY <1>5
    <2>1. size \in Nat
        BY QueueAssumption
    <2> QED
        BY <2>1 DEF Send, BytesInv, BytesTypes
<1>6. CASE HandOverInput
    <2> DEFINE request == [id |-> Len(handed) + 1, size |-> typing, replies |-> 0,
                           input |-> TRUE, since |-> seen]
    <2>1. request \in Request
        BY DEF BytesInv, BytesTypes, Request
    <2> HIDE DEF request
    <2>2. queue' \in Seq(Request) /\ handed' \in Seq(Request)
        BY <1>6, <2>1 DEF HandOverInput, HandOver, request, BytesInv, BytesTypes
    <2> QED
        BY <1>6, <2>2 DEF HandOverInput, BytesInv, BytesTypes
<1>7. CASE SendToClosed \/ TakeAck \/ GiveUp
    <2>1. CASE SendToClosed
        BY <2>1 DEF SendToClosed, EndSend, BytesInv, BytesTypes
    <2>2. CASE TakeAck
        BY <2>2 DEF TakeAck, EndSend, BytesInv, BytesTypes
    <2>3. CASE GiveUp
        BY <2>3 DEF GiveUp, EndSend, BytesInv, BytesTypes
    <2> QED
        BY <1>7, <2>1, <2>2, <2>3
<1> QED
    BY <1>1, <1>2, <1>3, <1>4, <1>5, <1>6, <1>7 DEF Next, Child, Wait

(* queued_bytes is never asked for room after it wrapped: while the writer
   lives its min keeps the account at zero or above, and after that the
   stream is at its end. *)
THEOREM AccountServes == Spec => []BytesNeverWrap
<1>1. BytesInv => BytesNeverWrap
    BY DEF BytesInv, BytesNeverWrap
<1> QED
    BY <1>1, BytesInit, BytesStep, PTL DEF Spec

-----------------------------------------------------------------------------
(***************************************************************************)
(* What the child is given.                                                *)
(***************************************************************************)

(* What the writer has taken and not lost: written, or in its hands. *)
Sent == delivered \o bytes

(* How many requests the writer has taken. *)
Taken == Len(handed) - Len(queue)

LastUnit(n) == [request |-> n, unit |-> handed[n].size]

(* WrittenInOrder, of any sequence of units. *)
Chained(s) ==
    /\ s # <<>> => s[1] = [request |-> 1, unit |-> 1]
    /\ \A k \in 1..(Len(s) - 1) : Follows(s[k], s[k + 1])

OrderTypes ==
    /\ delivered \in Seq(Unit) /\ bytes \in Seq(Unit)
    /\ handed \in Seq(Request) /\ queue \in Seq(Request)
    /\ answers \in [count : Nat, size : Nat] /\ reads \in Nat
    /\ typing \in Nat /\ seen \in Nat /\ shown \in Nat

(* Nothing empty is handed over. *)
HandsSomething ==
    /\ reader \in {"checking", "pending", "counting", "handing"} => answers.size # 0
    /\ test = "sending" => typing # 0

Numbered == \A k \in 1..Len(handed) : handed[k].id = k /\ handed[k].size # 0

(* The channel holds the newest requests, in order. *)
QueueIsNewest ==
    /\ Len(queue) <= Len(handed)
    /\ \A k \in 1..Len(queue) : queue[k] = handed[Taken + k]

(* While no write has failed, all that was taken is sent, to its last unit. *)
SentIsTaken ==
    ~failed => IF Sent = <<>> THEN Taken = 0
               ELSE Taken \in 1..Len(handed) /\ Sent[Len(Sent)] = LastUnit(Taken)

(* After a failure the writer takes nothing more. *)
FailedIsLast ==
    /\ failed => bytes = <<>> /\ writer \notin {"receiving", "coalescing"}
    /\ writer \in {"breaking", "done"} => failed

OrderInv ==
    /\ OrderTypes /\ HandsSomething /\ Numbered /\ QueueIsNewest
    /\ Chained(Sent) /\ \A k \in 1..Len(Sent) : Sent[k].request \in 1..Len(handed)
    /\ SentIsTaken /\ FailedIsLast

orderVars == <<delivered, bytes, handed, queue, answers, reads, typing, seen, shown, reader, test,
               writer, failed>>

(* A request's units follow what was sent to the end of the one before. *)
LEMMA ChainedUnits ==
    ASSUME NEW s \in Seq(Unit), Chained(s), handed \in Seq(Request), Numbered,
           NEW n \in Nat, n + 1 \in 1..Len(handed),
           s = <<>> => n = 0,
           s # <<>> => n \in 1..Len(handed) /\ s[Len(s)] = LastUnit(n),
           \A k \in 1..Len(s) : s[k].request \in 1..Len(handed)
    PROVE  LET t == s \o Units(handed[n + 1])
           IN  /\ t \in Seq(Unit) /\ t # <<>> /\ Chained(t)
               /\ t[Len(t)] = LastUnit(n + 1)
               /\ \A k \in 1..Len(t) : t[k].request \in 1..Len(handed)
<1> DEFINE u == Units(handed[n + 1])
           t == s \o u
<1>1. handed[n + 1] \in Request /\ handed[n + 1].id = n + 1 /\ handed[n + 1].size \in Nat \ {0}
    <2>1. handed[n + 1] \in Request
        OBVIOUS
    <2> QED
        BY <2>1 DEF Numbered, Request
<1>2. u \in Seq(Unit) /\ Len(u) = handed[n + 1].size
      /\ \A k \in 1..Len(u) : u[k] = [request |-> n + 1, unit |-> k]
    <2>1. u \in Seq(Unit)
        BY <1>1, UnitsType
    <2>2. u = [k \in 1..handed[n + 1].size |-> [request |-> n + 1, unit |-> k]]
        BY <1>1 DEF Units
    <2>3. Len(u) = handed[n + 1].size
        BY <1>1, <2>2
    <2> QED
        BY <1>1, <2>1, <2>2, <2>3
<1> HIDE DEF u
<1>3. /\ t \in Seq(Unit) /\ Len(t) = Len(s) + Len(u)
      /\ \A k \in 1..(Len(s) + Len(u)) : t[k] = IF k <= Len(s) THEN s[k] ELSE u[k - Len(s)]
    BY <1>2, ConcatProperties
<1> HIDE DEF t
<1>4. Len(s) \in Nat /\ Len(u) \in Nat \ {0}
    BY <1>1, <1>2
<1>5. \A k \in 1..Len(s) : t[k] = s[k]
    BY <1>3, <1>4
<1>6. \A k \in (Len(s) + 1)..Len(t) : t[k] = [request |-> n + 1, unit |-> k - Len(s)]
    <2> TAKE k \in (Len(s) + 1)..Len(t)
    <2>1. k - Len(s) \in 1..Len(u) /\ ~(k <= Len(s)) /\ k \in 1..(Len(s) + Len(u))
        BY <1>3, <1>4
    <2> QED
        BY <1>2, <1>3, <2>1
<1>7. t[Len(t)] = LastUnit(n + 1)
    <2>1. Len(t) \in (Len(s) + 1)..Len(t) /\ Len(t) - Len(s) = handed[n + 1].size
        BY <1>2, <1>3, <1>4
    <2> QED
        BY <1>6, <2>1 DEF LastUnit
<1>8. \A k \in 1..Len(t) : t[k].request \in 1..Len(handed)
    <2> TAKE k \in 1..Len(t)
    <2>1. CASE k \in 1..Len(s)
        BY <1>5, <2>1
    <2>2. CASE k \in (Len(s) + 1)..Len(t)
        <3>1. t[k] = [request |-> n + 1, unit |-> k - Len(s)]
            BY <1>6, <2>2
        <3> QED
            BY <3>1
    <2> QED
        BY <1>3, <1>4, <2>1, <2>2
<1>9. t # <<>> /\ t[1] = [request |-> 1, unit |-> 1]
    <2>1. t # <<>>
        BY <1>3, <1>4
    <2>2. CASE s = <<>>
        BY <1>3, <1>6, <1>4, <2>2
    <2>3. CASE s # <<>>
        <3>1. 1 \in 1..Len(s)
            BY <1>4, <2>3
        <3>2. s[1] = [request |-> 1, unit |-> 1]
            BY <2>3 DEF Chained
        <3>3. t[1] = s[1]
            BY <1>5, <3>1
        <3> QED
            BY <2>1, <3>2, <3>3
    <2> QED
        BY <2>1, <2>2, <2>3
<1>10. \A k \in 1..(Len(t) - 1) : Follows(t[k], t[k + 1])
    <2> TAKE k \in 1..(Len(t) - 1)
    <2>1. CASE k \in 1..(Len(s) - 1)
        <3>1. k \in 1..Len(s) /\ k + 1 \in 1..Len(s)
            BY <1>4, <2>1
        <3>2. t[k] = s[k] /\ t[k + 1] = s[k + 1]
            BY <1>5, <3>1
        <3> QED
            BY <2>1, <3>2 DEF Chained
    <2>2. CASE k = Len(s)
        <3>1. s # <<>> /\ t[k] = LastUnit(n) /\ n \in 1..Len(handed)
            BY <1>5, <1>4, <2>2
        <3>2. k + 1 \in (Len(s) + 1)..Len(t) /\ (k + 1) - Len(s) = 1
            BY <1>3, <1>4, <2>2
        <3>3. t[k + 1] = [request |-> n + 1, unit |-> 1]
            BY <1>6, <3>2
        <3> QED
            BY <3>1, <3>3 DEF Follows, LastUnit
    <2>3. CASE k \in (Len(s) + 1)..Len(t)
        <3>1. t[k] = [request |-> n + 1, unit |-> k - Len(s)]
            BY <1>6, <2>3
        <3>2. t[k + 1] = [request |-> n + 1, unit |-> (k + 1) - Len(s)]
            BY <1>3, <1>6, <1>4, <2>3
        <3> QED
            BY <1>3, <1>4, <2>3, <3>1, <3>2 DEF Follows
    <2> QED
        BY <1>3, <1>4, <2>1, <2>2, <2>3
<1> QED
    BY <1>3, <1>7, <1>8, <1>9, <1>10 DEF Chained, t, u

(* Moving the head of one sequence to the end of another changes nothing of
   the two together. *)
LEMMA MoveUnit ==
    ASSUME NEW d \in Seq(Unit), NEW b \in Seq(Unit), b # <<>>
    PROVE  /\ Append(d, Head(b)) \in Seq(Unit) /\ Tail(b) \in Seq(Unit)
           /\ Append(d, Head(b)) \o Tail(b) = d \o b
<1>1. Head(b) \in Unit /\ Tail(b) \in Seq(Unit) /\ <<Head(b)>> \in Seq(Unit)
    BY HeadTailProperties
<1>2. Append(d, Head(b)) \in Seq(Unit) /\ Append(d, Head(b)) = d \o <<Head(b)>>
    BY <1>1, AppendProperties, AppendIsConcat
<1>3. <<Head(b)>> \o Tail(b) = b
    OBVIOUS
<1>4. (d \o <<Head(b)>>) \o Tail(b) = d \o (<<Head(b)>> \o Tail(b))
    BY <1>1, ConcatAssociative
<1> QED
    BY <1>1, <1>2, <1>3, <1>4

(* It holds at the start. *)
LEMMA OrderInit == Init => OrderInv
<1> SUFFICES ASSUME Init PROVE OrderInv
    OBVIOUS
<1>1. Sent = <<>> /\ Taken = 0 /\ Len(Sent) = 0
    BY DEF Init, Sent, Taken
<1>2. OrderTypes /\ HandsSomething
    BY DEF Init, OrderTypes, HandsSomething, Nothing
<1>3. Numbered /\ QueueIsNewest /\ FailedIsLast
    BY DEF Init, Numbered, QueueIsNewest, FailedIsLast
<1>4. SentIsTaken
    BY <1>1 DEF SentIsTaken
<1>5. Chained(Sent) /\ \A k \in 1..Len(Sent) : Sent[k].request \in 1..Len(handed)
    BY <1>1 DEF Chained
<1> QED
    BY <1>2, <1>3, <1>4, <1>5 DEF OrderInv

(* A step keeps it that moves neither requests nor bytes. *)
LEMMA OrderKept ==
    ASSUME OrderInv, UNCHANGED <<delivered, bytes, handed, queue>>,
           OrderTypes', HandsSomething', FailedIsLast', failed' = failed
    PROVE  OrderInv'
<1>1. Sent' = Sent /\ Taken' = Taken
    BY DEF Sent, Taken
<1>2. Numbered' /\ QueueIsNewest'
    BY <1>1 DEF OrderInv, Numbered, QueueIsNewest
<1>3. Chained(Sent)' /\ (\A k \in 1..Len(Sent) : Sent[k].request \in 1..Len(handed))'
    BY <1>1 DEF OrderInv, Chained, Follows
<1>4. SentIsTaken'
    BY <1>1 DEF OrderInv, SentIsTaken, LastUnit
<1> QED
    BY <1>2, <1>3, <1>4 DEF OrderInv

(* Handing over keeps it: what is sent is of requests before the new one. *)
LEMMA OrderHandOver ==
    ASSUME OrderInv, NEW request \in Request, request.id = Len(handed) + 1, request.size # 0,
           HandOver(request), UNCHANGED <<delivered, bytes, writer, failed>>,
           writer # "done",
           OrderTypes', HandsSomething'
    PROVE  OrderInv'
<1> USE DEF OrderInv
<1>1. /\ handed \in Seq(Request) /\ queue \in Seq(Request)
      /\ handed' \in Seq(Request) /\ Len(handed') = Len(handed) + 1 /\ Len(handed) \in Nat
      /\ queue' \in Seq(Request) /\ Len(queue') = Len(queue) + 1 /\ Len(queue) \in Nat
      /\ (\A k \in 1..Len(handed) : handed'[k] = handed[k])
      /\ handed'[Len(handed) + 1] = request
      /\ (\A k \in 1..Len(queue) : queue'[k] = queue[k])
      /\ queue'[Len(queue) + 1] = request
    BY AppendProperties DEF HandOver, OrderTypes
<1>2. Sent' = Sent /\ Taken' = Taken
    BY <1>1 DEF Sent, Taken
<1>3. Numbered'
    BY <1>1 DEF Numbered
<1>4. QueueIsNewest'
    <2> SUFFICES ASSUME NEW k \in 1..Len(queue')
                 PROVE  queue'[k] = handed'[Taken' + k]
        BY <1>1 DEF QueueIsNewest
    <2>1. CASE k = Len(queue) + 1
        BY <1>1, <1>2, <2>1 DEF Taken
    <2>2. CASE k \in 1..Len(queue)
        <3>1. Taken + k \in 1..Len(handed) /\ queue[k] = handed[Taken + k]
            BY <1>1, <2>2 DEF QueueIsNewest, Taken
        <3> QED
            BY <1>1, <1>2, <2>2, <3>1
    <2> QED
        BY <1>1, <2>1, <2>2
<1>5. (\A k \in 1..Len(Sent) : Sent[k].request \in 1..Len(handed))'
    BY <1>1, <1>2
<1>6. Sent \in Seq(Unit) /\ Len(Sent) \in Nat
    BY ConcatProperties DEF Sent, OrderTypes
<1>7. Chained(Sent)'
    <2> SUFFICES ASSUME NEW k \in 1..(Len(Sent) - 1)
                 PROVE  Follows(Sent[k], Sent[k + 1])'
        BY <1>2 DEF Chained
    <2>1. k \in 1..Len(Sent)
        BY <1>6
    <2>2. handed'[Sent[k].request] = handed[Sent[k].request]
        BY <1>1, <2>1
    <2>3. Follows(Sent[k], Sent[k + 1])
        BY DEF Chained
    <2> QED
        BY <1>2, <2>2, <2>3 DEF Follows
<1>8. SentIsTaken'
    BY <1>1, <1>2 DEF SentIsTaken, LastUnit
<1>9. FailedIsLast'
    BY DEF FailedIsLast
<1> QED
    BY <1>3, <1>4, <1>5, <1>7, <1>8, <1>9

(* The writer takes the oldest request that it has not taken yet, and adds
   its bytes at the end of what is sent. *)
LEMMA TakesNext ==
    ASSUME OrderInv, queue # <<>>, Take(Head(queue)), UNCHANGED <<delivered, handed>>
    PROVE  /\ Taken \in Nat /\ Taken + 1 \in 1..Len(handed) /\ Taken' = Taken + 1
           /\ Head(queue) = handed[Taken + 1]
           /\ Sent \in Seq(Unit) /\ Units(handed[Taken + 1]) \in Seq(Unit)
           /\ Sent' = Sent \o Units(handed[Taken + 1]) /\ bytes' \in Seq(Unit)
<1> USE DEF OrderInv
<1>1. /\ handed \in Seq(Request) /\ queue \in Seq(Request)
      /\ delivered \in Seq(Unit) /\ bytes \in Seq(Unit)
      /\ queue' \in Seq(Request) /\ Len(queue') = Len(queue) - 1
      /\ Len(queue) \in Nat \ {0} /\ Len(handed) \in Nat
      /\ \A k \in 1..Len(queue') : queue'[k] = queue[k + 1]
    BY HeadTailProperties DEF Take, OrderTypes
<1>2. Taken \in Nat /\ Taken + 1 \in 1..Len(handed) /\ Taken' = Taken + 1
    BY <1>1 DEF QueueIsNewest, Taken
<1>3. Head(queue) = handed[Taken + 1]
    BY <1>1 DEF QueueIsNewest
<1>4. Sent \in Seq(Unit)
    BY <1>1, ConcatProperties DEF Sent
<1>5. Units(handed[Taken + 1]) \in Seq(Unit)
    BY <1>1, <1>2, UnitsType
<1>6. Sent' = Sent \o Units(handed[Taken + 1]) /\ bytes' \in Seq(Unit)
    <2>1. bytes' = bytes \o Units(handed[Taken + 1])
        BY <1>3 DEF Take
    <2>2. Sent' = delivered \o (bytes \o Units(handed[Taken + 1]))
        BY <2>1 DEF Sent
    <2>3. (delivered \o bytes) \o Units(handed[Taken + 1])
          = delivered \o (bytes \o Units(handed[Taken + 1]))
        <3> DEFINE u == Units(handed[Taken + 1])
        <3>1. u \in Seq(Unit) /\ delivered \in Seq(Unit) /\ bytes \in Seq(Unit)
            BY <1>1, <1>5
        <3> HIDE DEF u, OrderInv
        <3>2. (delivered \o bytes) \o u = delivered \o (bytes \o u)
            BY <3>1, ConcatAssociative
        <3> QED
            BY <3>2 DEF u
    <2>4. Sent' = Sent \o Units(handed[Taken + 1])
        BY <2>2, <2>3 DEF Sent
    <2> QED
        BY <1>1, <1>5, <2>1, <2>4, ConcatProperties
<1> QED
    BY <1>2, <1>3, <1>4, <1>5, <1>6

(* Taking the head of the channel keeps it. *)
LEMMA OrderTake ==
    ASSUME OrderInv, queue # <<>>, writer \in {"receiving", "coalescing"},
           Take(Head(queue)), writer' = "coalescing",
           UNCHANGED <<delivered, handed, failed, answers, reads, typing, seen, shown, reader,
                       test>>
    PROVE  OrderInv'
<1> USE DEF OrderInv
<1>1. /\ handed \in Seq(Request) /\ queue \in Seq(Request)
      /\ queue' \in Seq(Request) /\ Len(queue') = Len(queue) - 1
      /\ Len(queue) \in Nat \ {0} /\ Len(handed) \in Nat
      /\ \A k \in 1..Len(queue') : queue'[k] = queue[k + 1]
    BY HeadTailProperties DEF Take, OrderTypes
<1>2. ~failed /\ ~failed'
    BY DEF FailedIsLast
<1>3. /\ Taken \in Nat /\ Taken + 1 \in 1..Len(handed) /\ Taken' = Taken + 1
      /\ Sent \in Seq(Unit) /\ Sent' = Sent \o Units(handed[Taken + 1])
      /\ bytes' \in Seq(Unit)
    BY TakesNext
<1>4. /\ Sent' # <<>> /\ Chained(Sent') /\ Sent'[Len(Sent')] = LastUnit(Taken + 1)
      /\ \A k \in 1..Len(Sent') : Sent'[k].request \in 1..Len(handed)
    <2>1. Chained(Sent) /\ handed \in Seq(Request) /\ Numbered
          /\ \A k \in 1..Len(Sent) : Sent[k].request \in 1..Len(handed)
        BY <1>1
    <2>2. /\ Sent = <<>> => Taken = 0
          /\ Sent # <<>> => Taken \in 1..Len(handed) /\ Sent[Len(Sent)] = LastUnit(Taken)
        BY <1>2 DEF SentIsTaken
    <2> HIDE DEF OrderInv
    <2> QED
        BY <1>3, <2>1, <2>2, ChainedUnits
<1>5. Chained(Sent)' /\ (\A k \in 1..Len(Sent) : Sent[k].request \in 1..Len(handed))'
    BY <1>4 DEF Chained, Follows
<1>6. SentIsTaken'
    BY <1>3, <1>4 DEF SentIsTaken, LastUnit
<1>7. QueueIsNewest'
    <2> SUFFICES ASSUME NEW k \in 1..Len(queue')
                 PROVE  queue'[k] = handed[Taken + 1 + k]
        BY <1>1, <1>3 DEF QueueIsNewest
    <2>1. k \in Nat \ {0} /\ k <= Len(queue) - 1
        BY <1>1
    <2>2. k + 1 \in 1..Len(queue)
        BY <1>1, <2>1
    <2>3. Taken + (k + 1) = Taken + 1 + k
        BY <1>3, <2>1
    <2>4. queue[k + 1] = handed[Taken + (k + 1)]
        BY <2>2 DEF QueueIsNewest
    <2> QED
        BY <1>1, <2>3, <2>4
<1>8. OrderTypes' /\ HandsSomething' /\ Numbered'
    BY <1>1, <1>3 DEF OrderTypes, HandsSomething, Numbered
<1>9. FailedIsLast'
    BY <1>2 DEF FailedIsLast
<1> QED
    BY <1>5, <1>6, <1>7, <1>8, <1>9

(* Writing a byte keeps it: what is sent is the same. *)
LEMMA OrderWriteByte == OrderInv /\ WriteByte => OrderInv'
<1> SUFFICES ASSUME OrderInv, WriteByte PROVE OrderInv'
    OBVIOUS
<1>1. delivered \in Seq(Unit) /\ bytes \in Seq(Unit) /\ bytes # <<>>
    BY DEF OrderInv, OrderTypes, WriteByte
<1>2. delivered' \in Seq(Unit) /\ bytes' \in Seq(Unit) /\ Sent' = Sent
    BY <1>1, MoveUnit DEF WriteByte, Sent
<1>3. /\ UNCHANGED <<handed, queue, writer, failed, answers, reads, typing, seen, shown, reader,
                     test>>
      /\ ~failed
    BY <1>1 DEF WriteByte, readerVars, testVars, sharedVars, OrderInv, FailedIsLast
<1>4. Taken' = Taken
    BY <1>3 DEF Taken
<1>5. OrderTypes' /\ HandsSomething' /\ Numbered' /\ FailedIsLast'
    BY <1>2, <1>3 DEF OrderInv, OrderTypes, HandsSomething, Numbered, FailedIsLast
<1>6. QueueIsNewest'
    BY <1>3, <1>4 DEF OrderInv, QueueIsNewest
<1>7. Chained(Sent)' /\ (\A k \in 1..Len(Sent) : Sent[k].request \in 1..Len(handed))'
    BY <1>2, <1>3 DEF OrderInv, Chained, Follows
<1>8. SentIsTaken'
    BY <1>2, <1>3, <1>4 DEF OrderInv, SentIsTaken, LastUnit
<1> QED
    BY <1>5, <1>6, <1>7, <1>8 DEF OrderInv

(* What is delivered is the front of what is sent. *)
LEMMA DeliveredIsFront ==
    ASSUME OrderInv
    PROVE  /\ Len(delivered) \in Nat /\ Len(bytes) \in Nat
           /\ Len(Sent) = Len(delivered) + Len(bytes)
           /\ \A k \in 1..Len(delivered) : k \in 1..Len(Sent) /\ Sent[k] = delivered[k]
<1>1. delivered \in Seq(Unit) /\ bytes \in Seq(Unit)
    BY DEF OrderInv, OrderTypes
<1>2. Len(delivered) \in Nat /\ Len(bytes) \in Nat
    BY <1>1
<1>3. /\ Len(Sent) = Len(delivered) + Len(bytes)
      /\ \A k \in 1..(Len(delivered) + Len(bytes)) :
            Sent[k] = IF k <= Len(delivered) THEN delivered[k] ELSE bytes[k - Len(delivered)]
    BY <1>1, ConcatProperties DEF Sent
<1> QED
    BY <1>2, <1>3

(* So it is in order too. *)
LEMMA DeliveredIsChained ==
    ASSUME OrderInv
    PROVE  /\ Chained(delivered)
           /\ \A k \in 1..Len(delivered) : delivered[k].request \in 1..Len(handed)
<1>1. /\ Len(delivered) \in Nat /\ Len(Sent) \in Nat /\ Len(delivered) <= Len(Sent)
      /\ \A k \in 1..Len(delivered) : k \in 1..Len(Sent) /\ Sent[k] = delivered[k]
    BY DeliveredIsFront
<1>2. delivered # <<>> => delivered[1] = [request |-> 1, unit |-> 1]
    <2> SUFFICES ASSUME delivered # <<>>
                 PROVE  delivered[1] = [request |-> 1, unit |-> 1]
        OBVIOUS
    <2>1. 1 \in 1..Len(delivered)
        BY <1>1 DEF OrderInv, OrderTypes
    <2>2. Sent # <<>> /\ Sent[1] = delivered[1]
        BY <1>1, <2>1
    <2> QED
        BY <2>2 DEF OrderInv, Chained
<1>3. \A k \in 1..(Len(delivered) - 1) : Follows(delivered[k], delivered[k + 1])
    <2> TAKE k \in 1..(Len(delivered) - 1)
    <2>1. k \in 1..Len(delivered) /\ k + 1 \in 1..Len(delivered) /\ k \in 1..(Len(Sent) - 1)
        BY <1>1
    <2>2. Follows(Sent[k], Sent[k + 1])
        BY <2>1 DEF OrderInv, Chained
    <2> QED
        BY <1>1, <2>1, <2>2
<1>4. \A k \in 1..Len(delivered) : delivered[k].request \in 1..Len(handed)
    <2> TAKE k \in 1..Len(delivered)
    <2>1. k \in 1..Len(Sent) /\ Sent[k] = delivered[k]
        BY <1>1
    <2>2. Sent[k].request \in 1..Len(handed)
        BY <2>1 DEF OrderInv
    <2> QED
        BY <2>1, <2>2
<1> QED
    BY <1>2, <1>3, <1>4 DEF Chained

(* A failed write keeps it: the rest of the batch is dropped at the end of
   what is sent. *)
LEMMA OrderWriteFails == OrderInv /\ WriteFails => OrderInv'
<1> SUFFICES ASSUME OrderInv, WriteFails PROVE OrderInv'
    OBVIOUS
<1>1. /\ UNCHANGED <<delivered, handed, queue, writer, answers, reads, typing, seen, shown, reader,
                     test>>
      /\ bytes' = <<>> /\ failed' = TRUE /\ writer = "writing"
    BY DEF WriteFails, childVars, readerVars, testVars, sharedVars
<1>2. delivered \in Seq(Unit) /\ Sent' = delivered
    BY <1>1, ConcatEmptySeq DEF OrderInv, OrderTypes, Sent
<1>3. Chained(delivered) /\ \A k \in 1..Len(delivered) : delivered[k].request \in 1..Len(handed)
    BY DeliveredIsChained
<1>4. Chained(Sent)' /\ (\A k \in 1..Len(Sent) : Sent[k].request \in 1..Len(handed))'
    BY <1>1, <1>2, <1>3 DEF Chained, Follows
<1>5. OrderTypes' /\ HandsSomething' /\ Numbered' /\ FailedIsLast' /\ SentIsTaken'
    BY <1>1 DEF OrderInv, OrderTypes, HandsSomething, Numbered, FailedIsLast, SentIsTaken
<1>6. QueueIsNewest'
    BY <1>1 DEF OrderInv, QueueIsNewest, Taken
<1> QED
    BY <1>4, <1>5, <1>6 DEF OrderInv

(* Dropping the channel keeps it: what it held is never sent. *)
LEMMA OrderDropReceiver == OrderInv /\ DropReceiver => OrderInv'
<1> SUFFICES ASSUME OrderInv, DropReceiver PROVE OrderInv'
    OBVIOUS
<1>1. /\ UNCHANGED <<delivered, bytes, handed, failed, answers, reads, typing, seen, shown, reader,
                     test>>
      /\ queue' = <<>> /\ writer' = "done" /\ failed
    BY DEF DropReceiver, childVars, readerVars, OrderInv, FailedIsLast
<1>2. Sent' = Sent
    BY <1>1 DEF Sent
<1>3. Chained(Sent)' /\ (\A k \in 1..Len(Sent) : Sent[k].request \in 1..Len(handed))'
    BY <1>1, <1>2 DEF OrderInv, Chained, Follows
<1>4. OrderTypes' /\ HandsSomething' /\ Numbered' /\ FailedIsLast' /\ SentIsTaken'
    BY <1>1 DEF OrderInv, OrderTypes, HandsSomething, Numbered, FailedIsLast, SentIsTaken
<1>5. QueueIsNewest'
    BY <1>1 DEF OrderInv, OrderTypes, QueueIsNewest
<1> QED
    BY <1>3, <1>4, <1>5 DEF OrderInv

(* The child's steps, and those of the two other threads that hand nothing
   over, keep it. *)
LEMMA OrderOthers ==
    OrderInv /\ (Child \/ CheckCeiling \/ CountPending \/ CountBytes \/ HandOverFails
                \/ UncountBytes \/ Show \/ ReadEnd \/ SendToClosed \/ TakeAck \/ Expire
                \/ LookWhetherBusy \/ GiveUp \/ (\E batch \in Batches : Feed(batch))
                \/ (\E size \in InputSizes : Send(size))) => OrderInv'
<1> SUFFICES ASSUME OrderInv,
                    \/ Child \/ CheckCeiling \/ CountPending \/ CountBytes \/ HandOverFails
                    \/ UncountBytes \/ Show \/ ReadEnd \/ SendToClosed \/ TakeAck \/ Expire
                    \/ LookWhetherBusy \/ GiveUp \/ (\E batch \in Batches : Feed(batch))
                    \/ (\E size \in InputSizes : Send(size))
             PROVE  OrderInv'
    OBVIOUS
<1>1. OrderTypes /\ HandsSomething /\ FailedIsLast
    BY DEF OrderInv
<1>2. CASE Child
    <2>1. UNCHANGED orderVars
        BY <1>2 DEF Child, AppReads, AppStopsReading, AppCloses, orderVars, readerVars,
                    writerVars, testVars, sharedVars
    <2>2. OrderTypes' /\ HandsSomething' /\ FailedIsLast'
        BY <1>1, <2>1 DEF orderVars, OrderTypes, HandsSomething, FailedIsLast
    <2> QED
        BY <2>1, <2>2, OrderKept DEF orderVars
<1>3. CASE CheckCeiling \/ CountPending \/ CountBytes \/ HandOverFails \/ UncountBytes
           \/ ReadEnd
    <2>1. /\ UNCHANGED <<delivered, bytes, handed, queue, answers, reads, typing, seen, shown,
                         test, writer, failed>>
          /\ reader' \in {"pending", "counting", "handing"}
             => reader \in {"checking", "pending", "counting"}
          /\ reader' # "checking"
        BY <1>3 DEF CheckCeiling, CountPending, CountBytes, HandOverFails, UncountBytes, ReadEnd,
                    childVars, writerVars, testVars, sharedVars
    <2>2. OrderTypes' /\ HandsSomething' /\ FailedIsLast'
        BY <1>1, <2>1 DEF OrderTypes, HandsSomething, FailedIsLast
    <2> QED
        BY <2>1, <2>2, OrderKept
<1>4. CASE Show
    <2>1. /\ UNCHANGED <<delivered, bytes, handed, queue, reads, typing, seen, test, writer, failed>>
          /\ shown' = reads /\ answers' = Nothing /\ reader' = "reading"
        BY <1>4 DEF Show, childVars, writerVars, testVars, sharedVars
    <2>2. OrderTypes' /\ HandsSomething' /\ FailedIsLast'
        BY <1>1, <2>1 DEF OrderTypes, HandsSomething, FailedIsLast, Nothing
    <2> QED
        BY <2>1, <2>2, OrderKept
<1>5. ASSUME NEW batch \in Batches, Feed(batch)
      PROVE  OrderInv'
    <2>1. /\ UNCHANGED <<delivered, bytes, handed, queue, typing, seen, shown, test, writer, failed>>
          /\ reads' = reads + 1 /\ answers' = batch
          /\ reader' = IF batch.count = 0 THEN "showing" ELSE "checking"
        BY <1>5 DEF Feed, childVars, writerVars, testVars, sharedVars
    <2>2. batch \in [count : Nat, size : Nat] /\ (batch.count # 0 => batch.size # 0)
        BY QueueAssumption
    <2>3. OrderTypes' /\ HandsSomething' /\ FailedIsLast'
        BY <1>1, <2>1, <2>2 DEF OrderTypes, HandsSomething, FailedIsLast
    <2> QED
        BY <2>1, <2>3, OrderKept
<1>6. ASSUME NEW size \in InputSizes, Send(size)
      PROVE  OrderInv'
    <2>1. /\ UNCHANGED <<delivered, bytes, handed, queue, answers, reads, shown, reader, writer,
                         failed>>
          /\ typing' = size /\ seen' = shown /\ test' = "sending"
        BY <1>6 DEF Send, OthersUnchanged, childVars, readerVars, writerVars, sharedVars
    <2>2. size \in Nat \ {0}
        BY QueueAssumption
    <2>3. OrderTypes' /\ HandsSomething' /\ FailedIsLast'
        BY <1>1, <2>1, <2>2 DEF OrderTypes, HandsSomething, FailedIsLast
    <2> QED
        BY <2>1, <2>3, OrderKept
<1>7. CASE SendToClosed \/ TakeAck \/ GiveUp
    <2>1. /\ UNCHANGED <<delivered, bytes, handed, queue, answers, reads, shown, reader, writer,
                         failed>>
          /\ typing' = 0 /\ seen' = 0 /\ test' = "idle"
        BY <1>7 DEF SendToClosed, TakeAck, GiveUp, EndSend, OthersUnchanged, childVars,
                    readerVars, writerVars, sharedVars
    <2>2. OrderTypes' /\ HandsSomething' /\ FailedIsLast'
        BY <1>1, <2>1 DEF OrderTypes, HandsSomething, FailedIsLast
    <2> QED
        BY <2>1, <2>2, OrderKept
<1>8. CASE Expire \/ LookWhetherBusy
    <2>1. /\ UNCHANGED <<delivered, bytes, handed, queue, answers, reads, shown, reader, writer,
                         failed, typing, seen>>
          /\ test' # "sending"
        BY <1>8 DEF Expire, LookWhetherBusy, OthersUnchanged, childVars, readerVars, writerVars,
                    sharedVars
    <2>2. OrderTypes' /\ HandsSomething' /\ FailedIsLast'
        BY <1>1, <2>1 DEF OrderTypes, HandsSomething, FailedIsLast
    <2> QED
        BY <2>1, <2>2, OrderKept
<1> QED
    BY <1>2, <1>3, <1>4, <1>5, <1>6, <1>7, <1>8

(* The writer's other steps keep it. *)
LEMMA OrderWriter ==
    OrderInv /\ (StartWrite \/ FinishWrite \/ UncountReplies \/ LoadBytes \/ SubtractBytes
                \/ Acknowledge) => OrderInv'
<1> SUFFICES ASSUME OrderInv,
                    \/ StartWrite \/ FinishWrite \/ UncountReplies \/ LoadBytes
                    \/ SubtractBytes \/ Acknowledge
             PROVE  OrderInv'
    OBVIOUS
<1>1. OrderTypes /\ HandsSomething /\ FailedIsLast
    BY DEF OrderInv
<1>2. UNCHANGED <<delivered, bytes, handed, queue, answers, reads, typing, seen, shown, reader, test,
                  failed>>
    BY DEF StartWrite, FinishWrite, UncountReplies, LoadBytes, SubtractBytes, Acknowledge,
           childVars, readerVars, testVars, sharedVars
<1>3. /\ failed => writer' \notin {"receiving", "coalescing"}
      /\ writer' \in {"breaking", "done"} => failed
    BY <1>1 DEF StartWrite, FinishWrite, UncountReplies, LoadBytes, SubtractBytes, Acknowledge,
                FailedIsLast
<1>4. OrderTypes' /\ HandsSomething' /\ FailedIsLast'
    BY <1>1, <1>2, <1>3 DEF OrderTypes, HandsSomething, FailedIsLast
<1> QED
    BY <1>2, <1>4, OrderKept

(* Every step keeps it. *)
LEMMA OrderStep == OrderInv /\ [Next]_vars => OrderInv'
<1> SUFFICES ASSUME OrderInv, [Next]_vars PROVE OrderInv'
    OBVIOUS
<1>1. OrderTypes /\ HandsSomething /\ FailedIsLast
    BY DEF OrderInv
<1>2. CASE UNCHANGED vars
    <2>1. UNCHANGED orderVars
        BY <1>2 DEF vars, childVars, readerVars, writerVars, testVars, sharedVars, orderVars
    <2>2. OrderTypes' /\ HandsSomething' /\ FailedIsLast'
        BY <1>1, <2>1 DEF orderVars, OrderTypes, HandsSomething, FailedIsLast
    <2> QED
        BY <2>1, <2>2, OrderKept DEF orderVars
<1>3. CASE HandOverReplies
    <2> DEFINE request == ReplyRequest
    <2>1. request \in Request /\ request.id = Len(handed) + 1 /\ request.size # 0
        BY <1>1, <1>3 DEF ReplyRequest, Request, HandOverReplies, OrderTypes, HandsSomething
    <2>2. HandOver(request) /\ writer # "done"
        BY <1>3 DEF HandOverReplies
    <2>3. UNCHANGED <<delivered, bytes, writer, failed, answers, reads, typing, seen, shown, test>>
          /\ reader' = "showing"
        BY <1>3 DEF HandOverReplies, childVars, writerVars, testVars
    <2> HIDE DEF request
    <2>4. queue' \in Seq(Request) /\ handed' \in Seq(Request)
        BY <1>1, <2>1, <2>2 DEF HandOver, OrderTypes
    <2>5. OrderTypes' /\ HandsSomething'
        BY <1>1, <2>3, <2>4 DEF OrderTypes, HandsSomething
    <2> QED
        BY <2>1, <2>2, <2>3, <2>5, OrderHandOver
<1>4. CASE HandOverInput
    <2> DEFINE request == [id |-> Len(handed) + 1, size |-> typing, replies |-> 0,
                           input |-> TRUE, since |-> seen]
    <2>1. request \in Request /\ request.id = Len(handed) + 1 /\ request.size # 0
        BY <1>1, <1>4 DEF Request, HandOverInput, OrderTypes, HandsSomething
    <2>2. HandOver(request) /\ writer # "done"
        BY <1>4 DEF HandOverInput
    <2>3. UNCHANGED <<delivered, bytes, writer, failed, answers, reads, typing, seen, shown, reader>>
          /\ test' = "waiting"
        BY <1>4 DEF HandOverInput, OthersUnchanged, childVars, readerVars, writerVars
    <2> HIDE DEF request
    <2>4. queue' \in Seq(Request) /\ handed' \in Seq(Request)
        BY <1>1, <2>1, <2>2 DEF HandOver, OrderTypes
    <2>5. OrderTypes' /\ HandsSomething'
        BY <1>1, <2>3, <2>4 DEF OrderTypes, HandsSomething
    <2> QED
        BY <2>1, <2>2, <2>3, <2>5, OrderHandOver
<1>5. CASE Receive \/ Coalesce
    <2>1. /\ queue # <<>> /\ writer \in {"receiving", "coalescing"}
          /\ Take(Head(queue)) /\ writer' = "coalescing"
          /\ UNCHANGED <<delivered, handed, failed, answers, reads, typing, seen, shown, reader,
                         test>>
        BY <1>5 DEF Receive, Coalesce, childVars, readerVars, testVars
    <2> QED
        BY <2>1, OrderTake
<1> QED
    BY <1>2, <1>3, <1>4, <1>5, OrderOthers, OrderWriter, OrderWriteByte, OrderWriteFails,
       OrderDropReceiver DEF Next, Answer, Write, Wait

(* Whatever the batches, the sizes and the moments at which a send gives up,
   the child is given every request in the order it was handed over, whole,
   up to the first write that fails. *)
THEOREM RequestsGoInOrder == Spec => []WrittenInOrder
<1>1. OrderInv => WrittenInOrder
    BY DeliveredIsChained DEF Chained, WrittenInOrder
<1> QED
    BY <1>1, OrderInit, OrderStep, PTL DEF Spec

-----------------------------------------------------------------------------
(***************************************************************************)
(* What an acknowledgement says.                                           *)
(***************************************************************************)

(* The last byte of request n is in s. *)
EndsIn(n, s) == \E k \in 1..Len(s) : s[k] = LastUnit(n)

WriteIsOver == writer \in {"uncounting", "loading", "subtracting", "acking", "breaking", "done"}

(* Whoever waits for the batch in hand has its bytes in that batch, or on
   the other side, unless a write failed; an ok that waits to be taken is
   about the request its sender waits for. *)
AckInv ==
    /\ acks \subseteq 1..Len(handed)
    /\ ~failed => \A id \in acks : EndsIn(id, Sent)
    /\ WriteIsOver => bytes = <<>>
    /\ test \in {"idle", "sending"} => mine = 0 /\ ack = "none"
    /\ ack = "ok" => mine \in 1..Len(handed) /\ EndsIn(mine, delivered)

ackVars == <<handed, delivered, bytes, acks, failed, writer, test, ack, mine>>

(* It holds at the start. *)
LEMMA AckInit == Init => AckInv
BY DEF Init, AckInv, WriteIsOver

(* A step that touches none of its variables keeps it. *)
LEMMA AckUnchanged ==
    ASSUME AckInv, UNCHANGED ackVars
    PROVE  AckInv'
BY DEF AckInv, ackVars, Sent, EndsIn, LastUnit, WriteIsOver

(* Handing over keeps it: nobody has acknowledged the new request. *)
LEMMA AckHandOver ==
    ASSUME OrderInv, AckInv, NEW request \in Request, HandOver(request),
           UNCHANGED <<delivered, bytes, acks, failed, writer, ack>>,
           \/ UNCHANGED <<test, mine>>
           \/ ack = "none" /\ test' = "waiting"
    PROVE  AckInv'
<1>1. /\ Len(handed) \in Nat /\ Len(handed') = Len(handed) + 1
      /\ \A k \in 1..Len(handed) : handed'[k] = handed[k]
    BY AppendProperties DEF HandOver, OrderInv, OrderTypes
<1>2. Sent' = Sent
    BY DEF Sent
<1>3. ASSUME NEW n \in 1..Len(handed)
      PROVE  /\ EndsIn(n, Sent) => EndsIn(n, Sent)'
             /\ EndsIn(n, delivered) => EndsIn(n, delivered)'
    BY <1>1, <1>2 DEF EndsIn, LastUnit
<1>4. acks' \subseteq 1..Len(handed')
    BY <1>1 DEF AckInv
<1>5. (~failed => \A id \in acks : EndsIn(id, Sent))'
    BY <1>3 DEF AckInv
<1>6. (WriteIsOver => bytes = <<>>)'
    BY DEF AckInv, WriteIsOver
<1>7. (test \in {"idle", "sending"} => mine = 0 /\ ack = "none")'
    BY DEF AckInv
<1>8. ASSUME ack' = "ok"
      PROVE  mine' \in 1..Len(handed') /\ EndsIn(mine, delivered)'
    <2>1. mine' = mine /\ mine \in 1..Len(handed) /\ EndsIn(mine, delivered)
        BY <1>8 DEF AckInv
    <2>2. EndsIn(mine, delivered)'
        BY <1>1, <2>1 DEF EndsIn, LastUnit
    <2> QED
        BY <1>1, <2>1, <2>2
<1> QED
    BY <1>4, <1>5, <1>6, <1>7, <1>8 DEF AckInv

(* Taking keeps it: the request's bytes come with its acknowledgement. *)
LEMMA AckTake ==
    ASSUME OrderInv, AckInv, queue # <<>>, writer \in {"receiving", "coalescing"},
           Take(Head(queue)), writer' = "coalescing",
           UNCHANGED <<delivered, handed, failed, test, ack, mine>>,
           OrderInv'
    PROVE  AckInv'
<1>1. /\ Taken \in Nat /\ Taken + 1 \in 1..Len(handed) /\ Taken' = Taken + 1
      /\ Head(queue) = handed[Taken + 1]
      /\ Sent \in Seq(Unit) /\ Units(handed[Taken + 1]) \in Seq(Unit)
      /\ Sent' = Sent \o Units(handed[Taken + 1])
    BY TakesNext
<1>2. Head(queue).id = Taken + 1
    BY <1>1 DEF OrderInv, Numbered
<1>3. acks' \subseteq acks \cup {Taken + 1}
    BY <1>2 DEF Take
<1>4. /\ Len(Sent) \in Nat /\ Len(Sent') \in Nat /\ Len(Sent) <= Len(Sent')
      /\ \A k \in 1..Len(Sent) : Sent'[k] = Sent[k]
    <2> DEFINE u == Units(handed[Taken + 1])
    <2>1. u \in Seq(Unit) /\ Sent' = Sent \o u
        BY <1>1
    <2> HIDE DEF u
    <2>2. /\ Len(Sent') = Len(Sent) + Len(u) /\ Len(Sent) \in Nat /\ Len(u) \in Nat
          /\ \A k \in 1..(Len(Sent) + Len(u)) :
                Sent'[k] = IF k <= Len(Sent) THEN Sent[k] ELSE u[k - Len(Sent)]
        BY <1>1, <2>1, ConcatProperties
    <2> QED
        BY <2>2
<1>5. ASSUME NEW n, EndsIn(n, Sent)
      PROVE  EndsIn(n, Sent)'
    BY <1>4, <1>5 DEF EndsIn, LastUnit
<1>6. ~failed /\ ~failed'
    BY DEF OrderInv, FailedIsLast
<1>7. EndsIn(Taken, Sent)'
    <2>1. Sent' # <<>> /\ (Sent[Len(Sent)] = LastUnit(Taken))'
        BY <1>1, <1>6 DEF OrderInv, SentIsTaken, LastUnit
    <2>2. Sent' \in Seq(Unit)
        BY ConcatProperties DEF OrderInv, OrderTypes, Sent
    <2>3. Len(Sent') \in 1..Len(Sent')
        BY <2>1, <2>2
    <2> QED
        BY <2>1, <2>3 DEF EndsIn, LastUnit
<1>8. acks' \subseteq 1..Len(handed')
    BY <1>1, <1>3 DEF AckInv
<1>9. (\A id \in acks : EndsIn(id, Sent))'
    <2> SUFFICES ASSUME NEW id \in acks'
                 PROVE  EndsIn(id, Sent)'
        OBVIOUS
    <2>1. CASE id = Taken + 1
        BY <1>1, <1>7, <2>1 DEF EndsIn, LastUnit
    <2>2. CASE id \in acks
        BY <1>5, <1>6, <2>2 DEF AckInv
    <2> QED
        BY <1>3, <2>1, <2>2
<1>10. (WriteIsOver => bytes = <<>>)'
    BY DEF WriteIsOver
<1>11. (ack = "ok" => mine \in 1..Len(handed) /\ EndsIn(mine, delivered))'
    BY DEF AckInv, EndsIn, LastUnit
<1> QED
    BY <1>8, <1>9, <1>10, <1>11 DEF AckInv

(* Writing a byte keeps it. *)
LEMMA AckWriteByte == OrderInv /\ AckInv /\ WriteByte => AckInv'
<1> SUFFICES ASSUME OrderInv, AckInv, WriteByte PROVE AckInv'
    OBVIOUS
<1>1. delivered \in Seq(Unit) /\ bytes \in Seq(Unit) /\ bytes # <<>>
    BY DEF OrderInv, OrderTypes, WriteByte
<1>2. Sent' = Sent
    BY <1>1, MoveUnit DEF WriteByte, Sent
<1>3. UNCHANGED <<handed, acks, failed, writer, test, ack, mine>> /\ writer = "writing"
    BY DEF WriteByte, testVars, sharedVars
<1>4. Head(bytes) \in Unit
    BY <1>1, HeadTailProperties
<1>5. /\ Len(delivered) \in Nat /\ Len(delivered') = Len(delivered) + 1
      /\ \A k \in 1..Len(delivered) : delivered'[k] = delivered[k]
    BY <1>1, <1>4, AppendProperties DEF WriteByte
<1>6. (ack = "ok" => mine \in 1..Len(handed) /\ EndsIn(mine, delivered))'
    BY <1>3, <1>5 DEF AckInv, EndsIn, LastUnit
<1>7. (~failed => \A id \in acks : EndsIn(id, Sent))'
    BY <1>2, <1>3 DEF AckInv, EndsIn, LastUnit
<1> QED
    BY <1>3, <1>6, <1>7 DEF AckInv, WriteIsOver

(* The writer's other steps keep it: an ok is given with nothing left to
   write and no write failed. *)
LEMMA AckWriter ==
    OrderInv /\ AckInv
    /\ (StartWrite \/ WriteFails \/ FinishWrite \/ UncountReplies \/ LoadBytes \/ SubtractBytes
        \/ Acknowledge \/ DropReceiver) => AckInv'
<1> SUFFICES ASSUME OrderInv, AckInv,
                    \/ StartWrite \/ WriteFails \/ FinishWrite \/ UncountReplies \/ LoadBytes
                    \/ SubtractBytes \/ Acknowledge \/ DropReceiver
             PROVE  AckInv'
    OBVIOUS
<1>1. CASE StartWrite \/ FinishWrite \/ UncountReplies \/ LoadBytes \/ SubtractBytes
    <2>1. UNCHANGED <<handed, delivered, bytes, acks, failed, test, ack, mine>>
        BY <1>1 DEF StartWrite, FinishWrite, UncountReplies, LoadBytes, SubtractBytes, childVars,
                    readerVars, testVars, sharedVars
    <2>2. WriteIsOver' => bytes = <<>>
        BY <1>1 DEF StartWrite, FinishWrite, UncountReplies, LoadBytes, SubtractBytes, AckInv,
                    WriteIsOver
    <2> QED
        BY <2>1, <2>2 DEF AckInv, Sent, EndsIn, LastUnit
<1>2. CASE WriteFails
    <2>1. UNCHANGED <<handed, delivered, acks, test, ack, mine>> /\ bytes' = <<>> /\ failed'
        BY <1>2 DEF WriteFails, childVars, readerVars, testVars, sharedVars
    <2> QED
        BY <2>1 DEF AckInv, EndsIn, LastUnit
<1>3. CASE Acknowledge
    <2>1. UNCHANGED <<handed, delivered, bytes, failed, test, mine>> /\ acks' = {}
          /\ ack' = IF mine \in acks THEN IF failed THEN "error" ELSE "ok" ELSE ack
        BY <1>3 DEF Acknowledge, childVars, sharedVars
    <2>2. bytes = <<>>
        BY <1>3 DEF Acknowledge, AckInv, WriteIsOver
    <2>3. Sent = delivered
        BY <2>2, ConcatEmptySeq DEF Sent, OrderInv, OrderTypes
    <2>4. (ack = "ok" => mine \in 1..Len(handed) /\ EndsIn(mine, delivered))'
        <3>1. CASE mine \in acks
            BY <2>1, <2>3, <3>1 DEF AckInv, EndsIn, LastUnit
        <3>2. CASE mine \notin acks
            BY <2>1, <3>2 DEF AckInv, EndsIn, LastUnit
        <3> QED
            BY <3>1, <3>2
    <2>5. (test \in {"idle", "sending"} => mine = 0 /\ ack = "none")'
        <3>1. 0 \notin acks
            BY DEF AckInv
        <3> QED
            BY <2>1, <3>1 DEF AckInv
    <2> QED
        BY <2>1, <2>2, <2>4, <2>5 DEF AckInv
<1>4. CASE DropReceiver
    <2>1. UNCHANGED <<handed, delivered, bytes, acks, failed, test, mine>>
          /\ ack' = (IF \E k \in 1..Len(queue) : queue[k].id = mine THEN "gone" ELSE ack)
          /\ writer = "breaking"
        BY <1>4 DEF DropReceiver, childVars
    <2>2. \A k \in 1..Len(queue) : queue[k].id # 0
        <3> TAKE k \in 1..Len(queue)
        <3>1. queue[k] \in Request
            BY DEF OrderInv, OrderTypes
        <3> QED
            BY <3>1 DEF Request
    <2>3. (test \in {"idle", "sending"} => mine = 0 /\ ack = "none")'
        BY <2>1, <2>2 DEF AckInv
    <2>4. (ack = "ok" => mine \in 1..Len(handed) /\ EndsIn(mine, delivered))'
        BY <2>1 DEF AckInv, EndsIn, LastUnit
    <2> QED
        BY <2>1, <2>3, <2>4 DEF AckInv, Sent, EndsIn, LastUnit, WriteIsOver
<1> QED
    BY <1>1, <1>2, <1>3, <1>4

(* The steps of the child, of the reader and of the test thread that hand
   nothing over keep it. *)
LEMMA AckOthers ==
    AckInv /\ (Child \/ CheckCeiling \/ CountPending \/ CountBytes \/ HandOverFails
              \/ UncountBytes \/ Show \/ ReadEnd \/ SendToClosed \/ TakeAck \/ Expire
              \/ LookWhetherBusy \/ GiveUp \/ (\E batch \in Batches : Feed(batch))
              \/ (\E size \in InputSizes : Send(size))) => AckInv'
<1>1. ASSUME AckInv,
             \/ Child \/ CheckCeiling \/ CountPending \/ CountBytes \/ HandOverFails
             \/ UncountBytes \/ Show \/ ReadEnd \/ (\E batch \in Batches : Feed(batch))
      PROVE  AckInv'
    <2>1. UNCHANGED ackVars
        BY <1>1 DEF Child, AppReads, AppStopsReading, AppCloses, CheckCeiling, CountPending,
                    CountBytes, HandOverFails, UncountBytes, Show, ReadEnd, Feed, ackVars,
                    childVars, writerVars, testVars, sharedVars, readerVars
    <2> QED
        BY <1>1, <2>1, AckUnchanged
<1>2. ASSUME AckInv,
             \/ SendToClosed \/ TakeAck \/ GiveUp \/ (\E size \in InputSizes : Send(size))
      PROVE  AckInv'
    <2>1. UNCHANGED <<handed, delivered, bytes, acks, failed, writer>> /\ mine' = 0 /\ ack' = "none"
        BY <1>2 DEF SendToClosed, TakeAck, GiveUp, Send, EndSend, OthersUnchanged, childVars,
                    readerVars, writerVars, sharedVars
    <2> QED
        BY <1>2, <2>1 DEF AckInv, Sent, EndsIn, LastUnit, WriteIsOver
<1>3. ASSUME AckInv, Expire \/ LookWhetherBusy
      PROVE  AckInv'
    <2>1. UNCHANGED <<handed, delivered, bytes, acks, failed, writer, mine, ack>>
          /\ test' \notin {"idle", "sending"}
        BY <1>3 DEF Expire, LookWhetherBusy, OthersUnchanged, childVars, readerVars, writerVars,
                    sharedVars
    <2> QED
        BY <1>3, <2>1 DEF AckInv, Sent, EndsIn, LastUnit, WriteIsOver
<1> QED
    BY <1>1, <1>2, <1>3

(* Every step keeps it, next to the order of what is sent. *)
LEMMA AckStep == OrderInv /\ OrderInv' /\ AckInv /\ [Next]_vars => AckInv'
<1> SUFFICES ASSUME OrderInv, OrderInv', AckInv, [Next]_vars PROVE AckInv'
    OBVIOUS
<1>1. CASE UNCHANGED vars
    <2>1. UNCHANGED ackVars
        BY <1>1 DEF vars, childVars, readerVars, writerVars, testVars, sharedVars, ackVars
    <2> QED
        BY <2>1, AckUnchanged
<1>2. CASE HandOverReplies
    <2>1. ReplyRequest \in Request
        <3>1. /\ Len(handed) + 1 \in Nat \ {0} /\ reads \in Nat
              /\ answers.size \in Nat /\ answers.count \in Nat
            <4>1. OrderTypes
                BY DEF OrderInv
            <4> QED
                BY <4>1 DEF OrderTypes
        <3> QED
            BY <3>1 DEF ReplyRequest, Request
    <2>2. HandOver(ReplyRequest)
          /\ UNCHANGED <<delivered, bytes, acks, failed, writer, ack, test, mine>>
        BY <1>2 DEF HandOverReplies, childVars, writerVars, testVars
    <2> QED
        BY <2>1, <2>2, AckHandOver
<1>3. CASE HandOverInput
    <2> DEFINE request == [id |-> Len(handed) + 1, size |-> typing, replies |-> 0,
                           input |-> TRUE, since |-> seen]
    <2>1. request \in Request
        <3>1. Len(handed) + 1 \in Nat \ {0} /\ typing \in Nat /\ seen \in Nat
            <4>1. OrderTypes
                BY DEF OrderInv
            <4> QED
                BY <4>1 DEF OrderTypes
        <3> QED
            BY <3>1 DEF Request
    <2>2. HandOver(request) /\ UNCHANGED <<delivered, bytes, acks, failed, writer, ack>>
          /\ ack = "none" /\ test' = "waiting"
        BY <1>3 DEF HandOverInput, OthersUnchanged, childVars, readerVars, writerVars, AckInv
    <2> HIDE DEF request
    <2> QED
        BY <2>1, <2>2, AckHandOver
<1>4. CASE Receive \/ Coalesce
    <2>1. /\ queue # <<>> /\ writer \in {"receiving", "coalescing"}
          /\ Take(Head(queue)) /\ writer' = "coalescing"
          /\ UNCHANGED <<delivered, handed, failed, test, ack, mine>>
        BY <1>4 DEF Receive, Coalesce, childVars, readerVars, testVars
    <2> QED
        BY <2>1, AckTake
<1> QED
    BY <1>1, <1>2, <1>3, <1>4, AckOthers, AckWriter, AckWriteByte DEF Next, Answer, Write, Wait

(* No send reports success for bytes that are still in the queue, in the
   writer's hands or lost with a failed write. *)
THEOREM OkIsNeverEarly == Spec => OkMeansWritten
<1>1. AckInv /\ [Next]_vars
      => [(outcome' = "ok" /\ outcome # "ok") =>
            \E k \in 1..Len(delivered) :
                delivered[k] = [request |-> mine, unit |-> handed[mine].size]]_vars
    <2> SUFFICES ASSUME AckInv, Next, outcome' = "ok", outcome # "ok"
                 PROVE  \E k \in 1..Len(delivered) :
                            delivered[k] = [request |-> mine, unit |-> handed[mine].size]
        BY DEF vars, testVars
    <2>1. TakeAck /\ ack = "ok"
        BY DEF Next, Child, AppReads, AppStopsReading, AppCloses, Answer, CheckCeiling,
               CountPending, CountBytes, HandOverReplies, HandOverFails, UncountBytes, Show,
               ReadEnd, Feed, Write, Receive, Coalesce, StartWrite, WriteByte, WriteFails,
               FinishWrite, UncountReplies, LoadBytes, SubtractBytes, Acknowledge, DropReceiver,
               Wait, HandOverInput, SendToClosed, TakeAck, Expire, LookWhetherBusy, GiveUp, Send,
               EndSend, testVars
    <2> QED
        BY <2>1 DEF AckInv, EndsIn, LastUnit
<1>2. OrderInv /\ AckInv /\ [Next]_vars => OrderInv' /\ AckInv'
    BY OrderStep, AckStep
<1>3. Init => OrderInv /\ AckInv
    BY OrderInit, AckInit
<1> QED
    BY <1>1, <1>2, <1>3, PTL DEF Spec, OkMeansWritten

-----------------------------------------------------------------------------
(***************************************************************************)
(* The sums over requests: RepliesIn and SizeOf are folds, and all that is *)
(* needed of them is what a request put at the back adds and what the one  *)
(* taken from the front takes away.                                        *)
(***************************************************************************)

ReplyWeights(requests) == [k \in 1..Len(requests) |-> requests[k].replies]

SizeIf(request, input) == IF request.input = input THEN request.size ELSE 0

SizeWeights(requests, input) == [k \in 1..Len(requests) |-> SizeIf(requests[k], input)]

(* RepliesIn adds up its weights. *)
LEMMA RepliesAdd ==
    ASSUME NEW q \in Seq(Request)
    PROVE  Adds(ReplyWeights(q), Len(q), RepliesIn(q))
<1> DEFINE n == Len(q)
           c == ReplyWeights(q)
           Is(f) == f = [s \in SUBSET DOMAIN q |->
                           IF s = {} THEN 0 ELSE f[s \ {Max(s)}] + q[Max(s)].replies]
           it == CHOOSE f : Is(f)
<1>1. n \in Nat /\ DOMAIN q = 1..n
    OBVIOUS
<1>2. \A k \in 1..n : c[k] = q[k].replies /\ c[k] \in Nat
    <2>1. \A k \in 1..n : q[k] \in Request
        OBVIOUS
    <2>2. \A k \in 1..n : q[k].replies \in Nat
        BY <2>1 DEF Request
    <2>3. \A k \in 1..n : c[k] = q[k].replies
        BY DEF ReplyWeights
    <2> QED
        BY <2>2, <2>3
<1>3. RepliesIn(q) = it[DOMAIN q]
    BY Zenon DEF RepliesIn, FoldLeft, MapThenFoldSet
<1> HIDE DEF c, n
<1>4. ASSUME NEW f PROVE Is(f) <=> Iterates(f, c, n)
    <2>1. ASSUME NEW s \in SUBSET (1..n), s # {}
          PROVE  q[Max(s)].replies = c[Max(s)]
        BY <1>1, <1>2, <2>1, UpToMax
    <2>2. [s \in SUBSET (1..n) |-> IF s = {} THEN 0 ELSE f[s \ {Max(s)}] + q[Max(s)].replies]
            = [s \in SUBSET (1..n) |-> IF s = {} THEN 0 ELSE f[s \ {Max(s)}] + c[Max(s)]]
        BY <2>1
    <2> QED
        BY <1>1, <2>2, Zenon DEF Iterates
<1>5. \E f : Is(f)
    BY <1>1, <1>4, IteratesExists
<1> HIDE DEF Is
<1>6. Is(it)
    BY <1>5, Zenon
<1> HIDE DEF it
<1>7. Iterates(it, c, n)
    BY <1>4, <1>6
<1>8. Adds(c, n, it[1..n])
    BY <1>1, <1>2, <1>7, IteratesAdds
<1> QED
    BY <1>1, <1>3, <1>8 DEF c, n

(* So does SizeOf. *)
LEMMA SizeAdds ==
    ASSUME NEW q \in Seq(Request), NEW input \in BOOLEAN
    PROVE  Adds(SizeWeights(q, input), Len(q), SizeOf(q, input))
<1> DEFINE n == Len(q)
           c == SizeWeights(q, input)
           Is(f) == f = [s \in SUBSET DOMAIN q |->
                           IF s = {} THEN 0
                           ELSE f[s \ {Max(s)}]
                                + (IF q[Max(s)].input = input THEN q[Max(s)].size ELSE 0)]
           it == CHOOSE f : Is(f)
<1>1. n \in Nat /\ DOMAIN q = 1..n
    OBVIOUS
<1>2. \A k \in 1..n : c[k] = SizeIf(q[k], input) /\ c[k] \in Nat
    <2>1. \A k \in 1..n : q[k] \in Request
        OBVIOUS
    <2>2. \A k \in 1..n : SizeIf(q[k], input) \in Nat
        BY <2>1 DEF SizeIf, Request
    <2>3. \A k \in 1..n : c[k] = SizeIf(q[k], input)
        BY DEF SizeWeights
    <2> QED
        BY <2>2, <2>3
<1>3. SizeOf(q, input) = it[DOMAIN q]
    BY Zenon DEF SizeOf, FoldLeft, MapThenFoldSet
<1> HIDE DEF c, n
<1>4. ASSUME NEW f PROVE Is(f) <=> Iterates(f, c, n)
    <2>1. ASSUME NEW s \in SUBSET (1..n), s # {}
          PROVE  (IF q[Max(s)].input = input THEN q[Max(s)].size ELSE 0) = c[Max(s)]
        BY <1>1, <1>2, <2>1, UpToMax DEF SizeIf
    <2>2. [s \in SUBSET (1..n) |->
              IF s = {} THEN 0
              ELSE f[s \ {Max(s)}] + (IF q[Max(s)].input = input THEN q[Max(s)].size ELSE 0)]
            = [s \in SUBSET (1..n) |-> IF s = {} THEN 0 ELSE f[s \ {Max(s)}] + c[Max(s)]]
        BY <2>1
    <2> QED
        BY <1>1, <2>2, Zenon DEF Iterates
<1>5. \E f : Is(f)
    BY <1>1, <1>4, IteratesExists
<1> HIDE DEF Is
<1>6. Is(it)
    BY <1>5, Zenon
<1> HIDE DEF it
<1>7. Iterates(it, c, n)
    BY <1>4, <1>6
<1>8. Adds(c, n, it[1..n])
    BY <1>1, <1>2, <1>7, IteratesAdds
<1> QED
    BY <1>1, <1>3, <1>8 DEF c, n

(* What the two sums do as requests come and go. *)
LEMMA SumsNumber ==
    ASSUME NEW q \in Seq(Request), NEW input \in BOOLEAN
    PROVE  /\ RepliesIn(q) \in Nat /\ (q = <<>> => RepliesIn(q) = 0)
           /\ SizeOf(q, input) \in Nat /\ (q = <<>> => SizeOf(q, input) = 0)
<1>1. Len(q) \in Nat /\ (q = <<>> => Len(q) = 0)
    OBVIOUS
<1> QED
    BY <1>1, RepliesAdd, SizeAdds, AddsNumber

(* A request put at the back adds its own. *)
LEMMA SumsAppend ==
    ASSUME NEW q \in Seq(Request), NEW request \in Request, NEW input \in BOOLEAN
    PROVE  /\ RepliesIn(Append(q, request)) = RepliesIn(q) + request.replies
           /\ SizeOf(Append(q, request), input) = SizeOf(q, input) + SizeIf(request, input)
<1> DEFINE r == Append(q, request)
           m == Len(q)
           n == Len(r)
<1>1. /\ r \in Seq(Request) /\ m \in Nat /\ n \in Nat /\ n = m + 1
      /\ \A k \in 1..m : r[k] = q[k] /\ k \in 1..n
      /\ r[n] = request /\ n \in 1..n
    BY AppendProperties
<1> HIDE DEF r
<1>2. /\ Continues(ReplyWeights(q), ReplyWeights(r), 0, m)
      /\ Continues(SizeWeights(q, input), SizeWeights(r, input), 0, m)
    BY <1>1 DEF Continues, ReplyWeights, SizeWeights
<1>3. ReplyWeights(r)[n] = request.replies /\ SizeWeights(r, input)[n] = SizeIf(request, input)
    BY <1>1 DEF ReplyWeights, SizeWeights
<1>4. /\ Adds(ReplyWeights(q), m, RepliesIn(q)) /\ Adds(ReplyWeights(r), n, RepliesIn(r))
      /\ Adds(SizeWeights(q, input), m, SizeOf(q, input))
      /\ Adds(SizeWeights(r, input), n, SizeOf(r, input))
    BY <1>1, RepliesAdd, SizeAdds
<1> HIDE DEF m, n
<1>5. RepliesIn(r) = RepliesIn(q) + ReplyWeights(r)[n]
    BY <1>1, <1>2, <1>4, AddsLast
<1>6. SizeOf(r, input) = SizeOf(q, input) + SizeWeights(r, input)[n]
    <2>1. m \in Nat /\ n \in Nat /\ n = m + 1
        BY <1>1
    <2> HIDE DEF m, n
    <2> QED
        BY <2>1, <1>2, <1>4, AddsLast
<1> QED
    BY <1>3, <1>5, <1>6 DEF r

(* The one taken from the front takes its own away. *)
LEMMA SumsTail ==
    ASSUME NEW q \in Seq(Request), q # <<>>, NEW input \in BOOLEAN
    PROVE  /\ RepliesIn(q) = Head(q).replies + RepliesIn(Tail(q))
           /\ SizeOf(q, input) = SizeIf(Head(q), input) + SizeOf(Tail(q), input)
<1> DEFINE r == Tail(q)
           m == Len(r)
           n == Len(q)
<1>1. /\ r \in Seq(Request) /\ m \in Nat /\ n \in Nat /\ n = m + 1
      /\ \A k \in 1..m : r[k] = q[1 + k] /\ 1 + k \in 1..n
      /\ Head(q) = q[1] /\ 1 \in 1..n
    BY HeadTailProperties
<1> HIDE DEF r
<1>2. /\ Continues(ReplyWeights(r), ReplyWeights(q), 1, m)
      /\ Continues(SizeWeights(r, input), SizeWeights(q, input), 1, m)
    BY <1>1 DEF Continues, ReplyWeights, SizeWeights
<1>3. ReplyWeights(q)[1] = Head(q).replies /\ SizeWeights(q, input)[1] = SizeIf(Head(q), input)
    BY <1>1 DEF ReplyWeights, SizeWeights
<1>4. /\ Adds(ReplyWeights(q), n, RepliesIn(q)) /\ Adds(ReplyWeights(r), m, RepliesIn(r))
      /\ Adds(SizeWeights(q, input), n, SizeOf(q, input))
      /\ Adds(SizeWeights(r, input), m, SizeOf(r, input))
    BY <1>1, RepliesAdd, SizeAdds
<1> HIDE DEF m, n
<1>5. RepliesIn(q) = ReplyWeights(q)[1] + RepliesIn(r)
    BY <1>1, <1>2, <1>4, AddsFirst
<1>6. SizeOf(q, input) = SizeWeights(q, input)[1] + SizeOf(r, input)
    <2> DEFINE c == SizeWeights(q, input)
               d == SizeWeights(r, input)
               total == SizeOf(q, input)
               rest == SizeOf(r, input)
    <2>1. Adds(c, n, total) /\ Adds(d, m, rest) /\ Continues(d, c, 1, m)
        BY <1>2, <1>4
    <2>2. m \in Nat /\ n \in Nat /\ n = m + 1
        BY <1>1
    <2> HIDE DEF c, d, total, rest
    <2>3. total = c[1] + rest
        BY <2>1, <2>2, AddsFirst
    <2> QED
        BY <2>3 DEF c, d, total, rest
<1> QED
    BY <1>3, <1>5, <1>6 DEF r

-----------------------------------------------------------------------------
(***************************************************************************)
(* The pending count.                                                      *)
(***************************************************************************)

(* The replies the reader has counted and not handed over. *)
Counted == IF reader \in {"counting", "handing"} THEN answers.count ELSE 0

(* PendingIsExact, with the types of what it adds up. *)
PendingInv ==
    /\ pending \in Int /\ replies \in Nat
    /\ pending >= RepliesIn(queue) + replies + Counted
    /\ writer # "done" => pending = RepliesIn(queue) + replies + Counted

(* It holds at the start. *)
LEMMA PendingInit == Init => PendingInv
<1>1. <<>> \in Seq(Request)
    OBVIOUS
<1>2. RepliesIn(<<>>) = 0
    BY <1>1, SumsNumber
<1> QED
    BY <1>2 DEF Init, PendingInv, Counted

(* A step keeps it that moves no reply and brings no writer back. *)
LEMMA PendingKept ==
    ASSUME PendingInv, UNCHANGED <<pending, replies, queue>>, Counted' = Counted,
           writer' # "done" => writer # "done"
    PROVE  PendingInv'
BY DEF PendingInv

(* The steps of the reader keep it: what it counts it hands over, unless no
   one is left to hand it to. *)
LEMMA PendingReader ==
    ASSUME BytesInv, PendingInv, Answer
    PROVE  PendingInv'
<1> USE DEF childVars, writerVars, testVars, sharedVars
<1>0. /\ pending \in Int /\ replies \in Nat /\ answers.count \in Nat
      /\ queue \in Seq(Request) /\ RepliesIn(queue) \in Nat
    BY SumsNumber DEF BytesInv, BytesTypes, PendingInv
<1>1. CASE CheckCeiling \/ CountBytes \/ UncountBytes \/ Show \/ ReadEnd
    <2>1. UNCHANGED <<pending, replies, queue, writer>>
        BY <1>1 DEF CheckCeiling, CountBytes, UncountBytes, Show, ReadEnd
    <2>2. Counted' = Counted
        BY <1>1 DEF CheckCeiling, CountBytes, UncountBytes, Show, ReadEnd, Counted
    <2> QED
        BY <2>1, <2>2, PendingKept
<1>2. CASE CountPending
    <2>1. /\ UNCHANGED <<replies, queue, writer>> /\ pending' = pending + answers.count
          /\ Counted = 0 /\ Counted' = answers.count
        BY <1>2 DEF CountPending, Counted
    <2> QED
        BY <1>0, <2>1 DEF PendingInv
<1>3. CASE HandOverReplies
    <2>1. ReplyRequest \in Request /\ ReplyRequest.replies = answers.count
        BY DEF BytesInv, BytesTypes, ReplyRequest, Request
    <2>2. /\ UNCHANGED <<replies, writer, pending>> /\ queue' = Append(queue, ReplyRequest)
          /\ Counted = answers.count /\ Counted' = 0
        BY <1>3 DEF HandOverReplies, HandOver, Counted
    <2>3. RepliesIn(queue') = RepliesIn(queue) + answers.count
        BY <1>0, <2>1, <2>2, SumsAppend
    <2> QED
        BY <1>0, <2>2, <2>3 DEF PendingInv
<1>4. CASE HandOverFails
    <2>1. /\ UNCHANGED <<replies, queue, writer>> /\ pending' = pending - answers.count
          /\ writer = "done" /\ Counted = answers.count /\ Counted' = 0
        BY <1>4 DEF HandOverFails, Counted
    <2> QED
        BY <1>0, <2>1 DEF PendingInv
<1> QED
    BY <1>1, <1>2, <1>3, <1>4 DEF Answer

(* The steps of the writer keep it: a reply it takes it still answers for,
   and its end only loses some. *)
LEMMA PendingWriter ==
    ASSUME BytesInv, PendingInv, Write
    PROVE  PendingInv'
<1> USE DEF childVars, readerVars, testVars, sharedVars
<1>0. /\ pending \in Int /\ replies \in Nat /\ queue \in Seq(Request)
      /\ RepliesIn(queue) \in Nat /\ Counted \in Nat
    BY SumsNumber DEF BytesInv, BytesTypes, PendingInv, Counted
<1>1. CASE \/ StartWrite \/ WriteByte \/ WriteFails \/ FinishWrite \/ LoadBytes
           \/ SubtractBytes \/ Acknowledge
    <2>1. UNCHANGED <<pending, replies, queue, reader, answers>> /\ writer # "done"
        BY <1>1 DEF StartWrite, WriteByte, WriteFails, FinishWrite, LoadBytes, SubtractBytes,
                    Acknowledge
    <2> QED
        BY <2>1, PendingKept DEF Counted
<1>2. CASE Receive \/ Coalesce
    <2>1. /\ UNCHANGED <<pending, reader, answers>> /\ writer # "done" /\ queue # <<>>
          /\ queue' = Tail(queue) /\ replies' = replies + Head(queue).replies
        BY <1>2 DEF Receive, Coalesce, Take
    <2>2. RepliesIn(queue) = Head(queue).replies + RepliesIn(Tail(queue))
        BY <1>0, <2>1, SumsTail
    <2>3. Head(queue).replies \in Nat /\ RepliesIn(Tail(queue)) \in Nat
        <3>1. Head(queue) \in Request /\ Tail(queue) \in Seq(Request)
            BY <1>0, <2>1
        <3> QED
            BY <3>1, SumsNumber DEF Request
    <2>4. Counted' = Counted
        BY <2>1 DEF Counted
    <2>5. /\ replies' \in Nat /\ RepliesIn(queue') = RepliesIn(Tail(queue))
          /\ RepliesIn(queue') + replies' = RepliesIn(queue) + replies
        <3> DEFINE first == Head(queue).replies
                   rest == RepliesIn(Tail(queue))
                   all == RepliesIn(queue)
        <3>1. all = first + rest /\ first \in Nat /\ rest \in Nat /\ replies \in Nat
            BY <1>0, <2>2, <2>3
        <3>2. replies' = replies + first /\ RepliesIn(queue') = rest
            BY <2>1
        <3> HIDE DEF first, rest, all
        <3>3. replies' \in Nat /\ rest + replies' = all + replies
            BY <3>1, <3>2
        <3> QED
            BY <3>2, <3>3 DEF rest, all
    <2>6. RepliesIn(queue') + replies' + Counted' = RepliesIn(queue) + replies + Counted
        BY <2>4, <2>5
    <2> QED
        BY <1>0, <2>1, <2>5, <2>6 DEF PendingInv
<1>3. CASE UncountReplies
    <2>1. /\ UNCHANGED <<queue, reader, answers>> /\ writer # "done"
          /\ pending' = pending - replies /\ replies' = 0
        BY <1>3 DEF UncountReplies
    <2>2. Counted' = Counted
        BY <2>1 DEF Counted
    <2> QED
        BY <1>0, <2>1, <2>2 DEF PendingInv
<1>4. CASE DropReceiver
    <2>1. /\ UNCHANGED <<pending, replies, reader, answers>> /\ writer' = "done" /\ queue' = <<>>
        BY <1>4 DEF DropReceiver
    <2>2. RepliesIn(queue') = 0
        <3>1. <<>> \in Seq(Request)
            OBVIOUS
        <3> QED
            BY <2>1, <3>1, SumsNumber
    <2>3. Counted' = Counted
        BY <2>1 DEF Counted
    <2>4. pending >= 0 + replies + Counted
        <3>1. pending >= RepliesIn(queue) + replies + Counted
            BY DEF PendingInv
        <3> QED
            BY <1>0, <3>1
    <2>5. pending' >= RepliesIn(queue') + replies' + Counted'
        BY <2>1, <2>2, <2>3, <2>4
    <2> QED
        BY <1>0, <2>1, <2>5 DEF PendingInv
<1> QED
    BY <1>1, <1>2, <1>3, <1>4 DEF Write

(* Every step keeps it. *)
LEMMA PendingStep == BytesInv /\ PendingInv /\ [Next]_vars => PendingInv'
<1> SUFFICES ASSUME BytesInv, PendingInv, [Next]_vars PROVE PendingInv'
    OBVIOUS
<1> USE DEF childVars, readerVars, writerVars, testVars, sharedVars, OthersUnchanged
<1>1. CASE Answer \/ Write
    BY <1>1, PendingReader, PendingWriter
<1>2. CASE \/ Child \/ SendToClosed \/ TakeAck \/ Expire \/ LookWhetherBusy \/ GiveUp
           \/ (\E size \in InputSizes : Send(size)) \/ UNCHANGED vars
    <2>1. UNCHANGED <<pending, replies, queue, reader, answers, writer>>
        BY <1>2 DEF Child, AppReads, AppStopsReading, AppCloses, SendToClosed, TakeAck, Expire,
                    LookWhetherBusy, GiveUp, Send, vars
    <2> QED
        BY <2>1, PendingKept DEF Counted
<1>3. CASE \E batch \in Batches : Feed(batch)
    <2>1. UNCHANGED <<pending, replies, queue, writer>> /\ Counted' = Counted
        BY <1>3 DEF Feed, Counted
    <2> QED
        BY <2>1, PendingKept
<1>4. CASE HandOverInput
    <2> DEFINE request == [id |-> Len(handed) + 1, size |-> typing, replies |-> 0,
                           input |-> TRUE, since |-> seen]
    <2>1. request \in Request /\ request.replies = 0
        BY DEF BytesInv, BytesTypes, Request
    <2>2. /\ UNCHANGED <<pending, replies, reader, answers, writer>>
          /\ queue' = Append(queue, request) /\ queue \in Seq(Request)
        BY <1>4 DEF HandOverInput, HandOver, BytesInv, BytesTypes
    <2> HIDE DEF request
    <2>3. RepliesIn(queue') = RepliesIn(queue) + 0 /\ RepliesIn(queue) \in Nat
        BY <2>1, <2>2, SumsAppend, SumsNumber
    <2>4. Counted' = Counted /\ RepliesIn(queue') = RepliesIn(queue)
        BY <2>2, <2>3 DEF Counted
    <2> QED
        BY <2>2, <2>4 DEF PendingInv
<1> QED
    BY <1>1, <1>2, <1>3, <1>4 DEF Next, Wait

(* However the threads interleave, a reply that is on its way is counted,
   and while the writer lives nothing else is. *)
THEOREM PendingCorrect == Spec => []PendingIsExact
<1>1. PendingInv => PendingIsExact
    BY DEF PendingInv, PendingIsExact, Counted
<1>2. BytesInv /\ PendingInv /\ [Next]_vars => BytesInv' /\ PendingInv'
    BY BytesStep, PendingStep
<1> QED
    BY <1>1, <1>2, BytesInit, PendingInit, PTL DEF Spec

-----------------------------------------------------------------------------
(***************************************************************************)
(* The bytes held in memory.                                               *)
(***************************************************************************)

(* How far the typed bytes the writer has taken outnumber what is queued:
   those it takes out of the account were never put in. *)
Ahead == SizeOf(handed, TRUE) - SizeOf(queue, TRUE) - SizeOf(queue, FALSE)

(* What the writer will take out of the account for the batch in hand. *)
Batch == (IF writer = "coalescing" THEN Len(bytes) ELSE 0) + queued + subtract

(* What the reader has put into it and not handed over. *)
Joining == IF reader \in {"handing", "uncounting"} THEN answers.size ELSE 0

(* The account covers what is queued and in hand, but for typed bytes, and
   the reader lets it grow to the ceiling only. *)
RoomInv ==
    /\ bytes # <<>> => writer \in {"coalescing", "writing"}
    /\ writer = "writing" => Len(bytes) <= queued
    /\ queuedBytes + Ahead >= Batch + Joining
    /\ queuedBytes <= Ceiling
    /\ reader \in {"pending", "counting"} => queuedBytes + answers.size <= Ceiling

(* What it adds up are numbers. *)
LEMMA RoomTypes ==
    ASSUME BytesInv
    PROVE  /\ queuedBytes \in Int /\ queued \in Nat /\ subtract \in Nat
           /\ Len(bytes) \in Nat /\ answers.size \in Nat /\ Ceiling \in Nat
           /\ Ahead \in Int /\ Batch \in Nat /\ Joining \in Nat
<1>1. /\ queuedBytes \in Int /\ queued \in Nat /\ subtract \in Nat
      /\ bytes \in Seq(Unit) /\ answers.size \in Nat
      /\ queue \in Seq(Request) /\ handed \in Seq(Request)
    BY DEF BytesInv, BytesTypes
<1>2. Ahead \in Int
    <2>1. SizeOf(handed, TRUE) \in Nat /\ SizeOf(queue, TRUE) \in Nat /\ SizeOf(queue, FALSE) \in Nat
        BY <1>1, SumsNumber
    <2> DEFINE typed == SizeOf(handed, TRUE)
               p == SizeOf(queue, TRUE)
               q == SizeOf(queue, FALSE)
    <2>2. Ahead = typed - p - q
        BY DEF Ahead
    <2> HIDE DEF typed, p, q
    <2>3. typed \in Nat /\ p \in Nat /\ q \in Nat
        BY <2>1 DEF typed, p, q
    <2> QED
        BY <2>2, <2>3
<1>3. Batch \in Nat /\ Joining \in Nat /\ Len(bytes) \in Nat
    BY <1>1 DEF Batch, Joining
<1> QED
    BY <1>1, <1>2, <1>3, QueueAssumption

(* It holds at the start. *)
LEMMA RoomInit == Init => RoomInv
<1> SUFFICES ASSUME Init PROVE RoomInv
    OBVIOUS
<1>1. <<>> \in Seq(Request)
    OBVIOUS
<1>2. SizeOf(<<>>, TRUE) = 0 /\ SizeOf(<<>>, FALSE) = 0
    BY <1>1, SumsNumber
<1>3. handed = <<>> /\ queue = <<>>
    BY DEF Init
<1>4. Ahead = 0
    <2>1. Ahead = SizeOf(<<>>, TRUE) - SizeOf(<<>>, TRUE) - SizeOf(<<>>, FALSE)
        BY <1>3 DEF Ahead
    <2>2. Ahead = 0 - 0 - 0
        BY <1>2, <2>1
    <2> QED
        BY <2>2
<1>5. Batch = 0 /\ Joining = 0
    BY DEF Init, Batch, Joining
<1> QED
    BY <1>4, <1>5, QueueAssumption DEF Init, RoomInv

(* A step keeps it that leaves the account and the bytes alone. *)
LEMMA RoomKept ==
    ASSUME RoomInv, UNCHANGED <<queuedBytes, queue, handed, bytes, queued, subtract, writer>>,
           Joining' = Joining,
           reader' \in {"pending", "counting"}
              => reader \in {"pending", "counting"} /\ answers' = answers
    PROVE  RoomInv'
<1>1. Ahead' = Ahead /\ Batch' = Batch
    BY DEF Ahead, Batch
<1> QED
    BY <1>1 DEF RoomInv

(* The steps of the reader keep it: it puts into the account what it hands
   over, and only as much as it found room for. *)
LEMMA RoomReader ==
    ASSUME BytesInv, RoomInv, Answer
    PROVE  RoomInv'
<1> USE DEF childVars, writerVars, testVars, sharedVars
<1>0. /\ queuedBytes \in Int /\ Ahead \in Int /\ Batch \in Nat /\ Joining \in Nat
      /\ answers.size \in Nat /\ Ceiling \in Nat
    BY RoomTypes
<1>1. CASE CountPending \/ HandOverFails \/ Show \/ ReadEnd
    <2>1. /\ UNCHANGED <<queuedBytes, queue, handed, bytes, queued, subtract, writer>>
          /\ Joining' = Joining
          /\ reader' \in {"pending", "counting"}
             => reader \in {"pending", "counting"} /\ answers' = answers
        BY <1>1 DEF CountPending, HandOverFails, Show, ReadEnd, Joining
    <2> QED
        BY <2>1, RoomKept
<1>2. CASE CheckCeiling
    <2>1. /\ UNCHANGED <<queuedBytes, queue, handed, bytes, queued, subtract, writer, answers>>
          /\ Joining' = Joining
          /\ reader' \in {"pending", "counting"} => queuedBytes + answers.size <= Ceiling
        BY <1>0, <1>2 DEF CheckCeiling, Joining
    <2>2. Ahead' = Ahead /\ Batch' = Batch
        BY <2>1 DEF Ahead, Batch
    <2> QED
        BY <2>1, <2>2 DEF RoomInv
<1>3. CASE CountBytes
    <2>1. /\ UNCHANGED <<queue, handed, bytes, queued, subtract, writer, answers>>
          /\ reader = "counting" /\ reader' = "handing"
          /\ queuedBytes' = queuedBytes + answers.size
        BY <1>3 DEF CountBytes
    <2>2. Joining = 0 /\ Joining' = answers.size /\ Ahead' = Ahead /\ Batch' = Batch
        BY <2>1 DEF Joining, Ahead, Batch
    <2>3. queuedBytes + Ahead >= Batch + Joining /\ queuedBytes + answers.size <= Ceiling
        BY <2>1 DEF RoomInv
    <2>4. queuedBytes' + Ahead' >= Batch' + Joining' /\ queuedBytes' <= Ceiling
        BY <1>0, <2>1, <2>2, <2>3
    <2> QED
        BY <2>1, <2>4 DEF RoomInv
<1>4. CASE HandOverReplies
    <2>1. /\ UNCHANGED <<queuedBytes, bytes, queued, subtract, writer, answers>>
          /\ reader = "handing" /\ reader' = "showing"
          /\ queue' = Append(queue, ReplyRequest) /\ handed' = Append(handed, ReplyRequest)
        BY <1>4 DEF HandOverReplies, HandOver
    <2>2. /\ ReplyRequest \in Request /\ SizeIf(ReplyRequest, TRUE) = 0
          /\ SizeIf(ReplyRequest, FALSE) = answers.size
          /\ queue \in Seq(Request) /\ handed \in Seq(Request)
        BY DEF BytesInv, BytesTypes, ReplyRequest, Request, SizeIf
    <2>3. Ahead' = Ahead - answers.size
        <3>1. /\ SizeOf(handed', TRUE) = SizeOf(handed, TRUE) + 0
              /\ SizeOf(queue', TRUE) = SizeOf(queue, TRUE) + 0
              /\ SizeOf(queue', FALSE) = SizeOf(queue, FALSE) + answers.size
            BY <2>1, <2>2, SumsAppend
        <3>2. SizeOf(handed, TRUE) \in Nat /\ SizeOf(queue, TRUE) \in Nat /\ SizeOf(queue, FALSE) \in Nat
            BY <2>2, SumsNumber
        <3> DEFINE typed == SizeOf(handed, TRUE)
                   p == SizeOf(queue, TRUE)
                   q == SizeOf(queue, FALSE)
        <3>3. Ahead = typed - p - q
            BY DEF Ahead
        <3>4. Ahead' = SizeOf(handed', TRUE) - SizeOf(queue', TRUE) - SizeOf(queue', FALSE)
            BY DEF Ahead
        <3>5. Ahead' = (typed + 0) - (p + 0) - (q + answers.size)
            BY <3>1, <3>4
        <3>6. typed \in Nat /\ p \in Nat /\ q \in Nat
            BY <3>2
        <3> HIDE DEF typed, p, q
        <3> QED
            BY <1>0, <3>3, <3>5, <3>6
    <2>4. Joining = answers.size /\ Joining' = 0 /\ Batch' = Batch
        BY <2>1 DEF Joining, Batch
    <2>5. queuedBytes + Ahead >= Batch + Joining
        BY DEF RoomInv
    <2>6. queuedBytes' + Ahead' >= Batch' + Joining'
        <3> DEFINE n == answers.size
                   a == Ahead
                   b == Batch
        <3>1. n \in Nat /\ a \in Int /\ b \in Nat /\ queuedBytes \in Int /\ queuedBytes + a >= b + n
            BY <1>0, <2>4, <2>5
        <3>2. queuedBytes' = queuedBytes /\ Ahead' = a - n /\ Batch' = b /\ Joining' = 0
            BY <2>1, <2>3, <2>4
        <3> HIDE DEF n, a, b
        <3>3. queuedBytes + (a - n) >= b + 0
            BY <3>1
        <3> QED
            BY <3>2, <3>3
    <2> QED
        BY <2>1, <2>6 DEF RoomInv
<1>5. CASE UncountBytes
    <2>1. /\ UNCHANGED <<queue, handed, bytes, queued, subtract, writer, answers>>
          /\ reader = "uncounting" /\ reader' = "showing"
          /\ queuedBytes' = queuedBytes - answers.size
        BY <1>5 DEF UncountBytes
    <2>2. Joining = answers.size /\ Joining' = 0 /\ Ahead' = Ahead /\ Batch' = Batch
        BY <2>1 DEF Joining, Ahead, Batch
    <2>3. queuedBytes + Ahead >= Batch + Joining /\ queuedBytes <= Ceiling
        BY DEF RoomInv
    <2>4. queuedBytes' + Ahead' >= Batch' + Joining' /\ queuedBytes' <= Ceiling
        BY <1>0, <2>1, <2>2, <2>3
    <2> QED
        BY <2>1, <2>4 DEF RoomInv
<1> QED
    BY <1>1, <1>2, <1>3, <1>4, <1>5 DEF Answer

(* Taking a request keeps it: its bytes leave the queue, and the writer will
   take as many out of the account. *)
LEMMA RoomTake ==
    ASSUME BytesInv, RoomInv, queue # <<>>, Take(Head(queue)), writer' = "coalescing",
           writer \in {"receiving", "coalescing"},
           UNCHANGED <<queuedBytes, handed, queued, subtract, reader, answers>>
    PROVE  RoomInv'
<1> DEFINE request == Head(queue)
<1>0. /\ queuedBytes \in Int /\ Ahead \in Int /\ Batch \in Nat /\ Joining \in Nat
      /\ queued \in Nat /\ subtract \in Nat /\ bytes \in Seq(Unit)
      /\ queue \in Seq(Request) /\ handed \in Seq(Request)
    BY RoomTypes DEF BytesInv, BytesTypes
<1>1. request \in Request /\ Tail(queue) \in Seq(Request) /\ request.size \in Nat
    <2>1. Head(queue) \in Request /\ Tail(queue) \in Seq(Request)
        BY <1>0
    <2> QED
        BY <2>1 DEF Request
<1>2. SizeIf(request, TRUE) + SizeIf(request, FALSE) = request.size
    <2>1. request.input \in BOOLEAN
        BY <1>1 DEF Request
    <2> QED
        BY <1>1, <2>1 DEF SizeIf
<1>3. /\ SizeOf(queue, TRUE) = SizeIf(request, TRUE) + SizeOf(Tail(queue), TRUE)
      /\ SizeOf(queue, FALSE) = SizeIf(request, FALSE) + SizeOf(Tail(queue), FALSE)
    BY <1>0, SumsTail
<1>4. /\ SizeOf(Tail(queue), TRUE) \in Nat /\ SizeOf(Tail(queue), FALSE) \in Nat
      /\ SizeOf(handed, TRUE) \in Nat
      /\ SizeIf(request, TRUE) \in Nat /\ SizeIf(request, FALSE) \in Nat
    BY <1>0, <1>1, SumsNumber DEF SizeIf
<1>5. queue' = Tail(queue) /\ bytes' = bytes \o Units(request)
    BY DEF Take
<1>6. Units(request) \in Seq(Unit) /\ Len(Units(request)) = request.size
    BY <1>1, UnitsType DEF Units
<1> HIDE DEF request
<1>7. Ahead' = Ahead + request.size
    <2> DEFINE typed == SizeOf(handed, TRUE)
               a == SizeIf(request, TRUE)
               b == SizeIf(request, FALSE)
               p == SizeOf(Tail(queue), TRUE)
               q == SizeOf(Tail(queue), FALSE)
    <2>1. Ahead = typed - (a + p) - (b + q)
        BY <1>3 DEF Ahead
    <2>2. Ahead' = typed - p - q
        BY <1>5 DEF Ahead
    <2>3. typed \in Nat /\ a \in Nat /\ b \in Nat /\ p \in Nat /\ q \in Nat /\ a + b = request.size
        BY <1>2, <1>4
    <2> HIDE DEF typed, a, b, p, q
    <2> QED
        BY <2>1, <2>2, <2>3
<1>8. Len(bytes') = Len(bytes) + request.size
    BY <1>0, <1>5, <1>6
<1>9. Batch' = Batch + request.size
    <2>1. Batch = Len(bytes) + queued + subtract
        <3>1. CASE writer = "coalescing"
            BY <3>1 DEF Batch
        <3>2. CASE writer = "receiving"
            <4>1. Len(bytes) = 0
                BY <3>2 DEF RoomInv
            <4> QED
                BY <3>2, <4>1 DEF Batch
        <3> QED
            BY <3>1, <3>2
    <2>2. Batch' = Len(bytes') + queued + subtract
        BY DEF Batch
    <2> DEFINE l == Len(bytes)
               n == request.size
    <2>3. l \in Nat /\ n \in Nat /\ Len(bytes') = l + n /\ queued \in Nat /\ subtract \in Nat
        BY <1>0, <1>1, <1>8
    <2> HIDE DEF l, n
    <2>4. Batch = l + queued + subtract /\ Batch' = (l + n) + queued + subtract
        BY <2>1, <2>2, <2>3 DEF l
    <2>5. (l + n) + queued + subtract = (l + queued + subtract) + n
        BY <2>3
    <2> QED
        BY <2>4, <2>5 DEF n
<1>10. Joining' = Joining
    BY DEF Joining
<1>11. queuedBytes + Ahead >= Batch + Joining
    BY DEF RoomInv
<1>12. queuedBytes' + Ahead' >= Batch' + Joining'
    <2> DEFINE n == request.size
               a == Ahead
               b == Batch
               j == Joining
    <2>1. n \in Nat /\ a \in Int /\ b \in Nat /\ j \in Nat /\ queuedBytes \in Int /\ queuedBytes + a >= b + j
        BY <1>0, <1>1, <1>11
    <2>2. queuedBytes' = queuedBytes /\ Ahead' = a + n /\ Batch' = b + n /\ Joining' = j
        BY <1>7, <1>9, <1>10
    <2> HIDE DEF n, a, b, j
    <2>3. queuedBytes + (a + n) >= (b + n) + j
        BY <2>1
    <2> QED
        BY <2>2, <2>3
<1> QED
    BY <1>12 DEF RoomInv

(* The steps of the writer keep it: of what it takes out of the account it
   takes no more than it owes. *)
LEMMA RoomWriter ==
    ASSUME BytesInv, RoomInv, Write
    PROVE  RoomInv'
<1> USE DEF childVars, readerVars, testVars, sharedVars
<1>0. /\ queuedBytes \in Int /\ Ahead \in Int /\ Batch \in Nat /\ Joining \in Nat
      /\ queued \in Nat /\ subtract \in Nat /\ Len(bytes) \in Nat /\ bytes \in Seq(Unit)
      /\ Ceiling \in Nat
    BY RoomTypes DEF BytesInv, BytesTypes
<1>00. queuedBytes + Ahead >= Batch + Joining /\ queuedBytes <= Ceiling
    BY DEF RoomInv
<1>1. CASE Receive \/ Coalesce
    <2>1. /\ queue # <<>> /\ Take(Head(queue)) /\ writer' = "coalescing"
          /\ writer \in {"receiving", "coalescing"}
          /\ UNCHANGED <<queuedBytes, handed, queued, subtract, reader, answers>>
        BY <1>1 DEF Receive, Coalesce
    <2> QED
        BY <2>1, RoomTake
<1>2. CASE StartWrite
    <2>1. /\ UNCHANGED <<queuedBytes, queue, handed, bytes, subtract, reader, answers>>
          /\ writer = "coalescing" /\ writer' = "writing" /\ queued' = Len(bytes)
        BY <1>2 DEF StartWrite
    <2>2. Ahead' = Ahead /\ Joining' = Joining
        BY <2>1 DEF Ahead, Joining
    <2>3. Batch = Len(bytes) + queued + subtract /\ Batch' = 0 + Len(bytes) + subtract
        BY <2>1 DEF Batch
    <2>4. queuedBytes' + Ahead' >= Batch' + Joining'
        BY <1>0, <1>00, <2>1, <2>2, <2>3
    <2>5. Len(bytes') <= queued'
        BY <1>0, <2>1
    <2> QED
        BY <2>1, <2>4, <2>5 DEF RoomInv
<1>3. CASE WriteByte \/ WriteFails
    <2>1. /\ UNCHANGED <<queuedBytes, queue, handed, queued, subtract, reader, answers, writer>>
          /\ writer = "writing"
        BY <1>3 DEF WriteByte, WriteFails
    <2>2. Ahead' = Ahead /\ Joining' = Joining /\ Batch' = Batch
        BY <2>1 DEF Ahead, Joining, Batch
    <2>3. Len(bytes') <= Len(bytes)
        <3>1. CASE WriteByte
            BY <1>0, <3>1 DEF WriteByte
        <3>2. CASE WriteFails
            BY <1>0, <3>2 DEF WriteFails
        <3> QED
            BY <1>3, <3>1, <3>2
    <2>4. bytes' \in Seq(Unit)
        <3>1. CASE WriteByte
            BY <1>0, <3>1 DEF WriteByte
        <3>2. CASE WriteFails
            BY <3>2 DEF WriteFails
        <3> QED
            BY <1>3, <3>1, <3>2
    <2>5. Len(bytes') <= queued
        <3>1. Len(bytes) <= queued /\ Len(bytes') \in Nat
            BY <2>1, <2>4 DEF RoomInv
        <3> QED
            BY <1>0, <2>3, <3>1
    <2> QED
        BY <2>1, <2>2, <2>5 DEF RoomInv
<1>4. CASE FinishWrite \/ UncountReplies \/ Acknowledge
    <2>1. /\ UNCHANGED <<queuedBytes, queue, handed, bytes, queued, subtract, reader, answers>>
          /\ writer \notin {"coalescing"} /\ writer' \notin {"coalescing", "writing"}
        BY <1>4 DEF FinishWrite, UncountReplies, Acknowledge
    <2>2. bytes = <<>>
        BY <1>4 DEF FinishWrite, UncountReplies, Acknowledge, RoomInv
    <2>3. Ahead' = Ahead /\ Joining' = Joining /\ Batch' = Batch
        BY <2>1 DEF Ahead, Joining, Batch
    <2> QED
        BY <2>1, <2>2, <2>3 DEF RoomInv
<1>5. CASE LoadBytes
    <2>1. /\ UNCHANGED <<queuedBytes, queue, handed, bytes, reader, answers>>
          /\ writer = "loading" /\ writer' = "subtracting" /\ queued' = 0
          /\ subtract' = IF queued < queuedBytes THEN queued ELSE queuedBytes
        BY <1>5 DEF LoadBytes
    <2>2. subtract' <= queued /\ subtract' \in Int
        BY <1>0, <2>1
    <2>3. Ahead' = Ahead /\ Joining' = Joining
        BY <2>1 DEF Ahead, Joining
    <2>4. Batch = 0 + queued + subtract /\ Batch' = 0 + 0 + subtract'
        BY <2>1 DEF Batch
    <2>5. queuedBytes' + Ahead' >= Batch' + Joining'
        BY <1>0, <1>00, <2>1, <2>2, <2>3, <2>4
    <2> QED
        BY <2>1, <2>5 DEF RoomInv
<1>6. CASE SubtractBytes
    <2>1. /\ UNCHANGED <<queue, handed, bytes, queued, reader, answers>>
          /\ writer = "subtracting" /\ writer' = "acking" /\ subtract' = 0
          /\ queuedBytes' = queuedBytes - subtract
        BY <1>6 DEF SubtractBytes
    <2>2. Ahead' = Ahead /\ Joining' = Joining
        BY <2>1 DEF Ahead, Joining
    <2>3. Batch = 0 + queued + subtract /\ Batch' = 0 + queued + 0
        BY <2>1 DEF Batch
    <2>4. queuedBytes' + Ahead' >= Batch' + Joining' /\ queuedBytes' <= queuedBytes
          /\ queuedBytes' <= Ceiling
        BY <1>0, <1>00, <2>1, <2>2, <2>3
    <2>5. reader' \in {"pending", "counting"} => queuedBytes' + answers'.size <= Ceiling
        <3>1. answers.size \in Nat
            BY RoomTypes
        <3>2. SUFFICES ASSUME reader \in {"pending", "counting"}
                       PROVE  queuedBytes' + answers.size <= Ceiling
            BY <2>1
        <3>3. queuedBytes + answers.size <= Ceiling
            BY <3>2 DEF RoomInv
        <3> QED
            BY <1>0, <2>1, <3>1, <3>3
    <2> QED
        BY <2>1, <2>4, <2>5 DEF RoomInv
<1>7. CASE DropReceiver
    <2>1. /\ UNCHANGED <<queuedBytes, handed, bytes, queued, subtract, reader, answers>>
          /\ writer = "breaking" /\ writer' = "done" /\ queue' = <<>>
        BY <1>7 DEF DropReceiver
    <2>2. Joining' = Joining /\ Batch' = Batch
        BY <2>1 DEF Joining, Batch
    <2>3. Ahead' \in Int /\ Ahead' >= Ahead
        <3> DEFINE typed == SizeOf(handed, TRUE)
                   p == SizeOf(queue, TRUE)
                   q == SizeOf(queue, FALSE)
        <3>1. queue \in Seq(Request) /\ handed \in Seq(Request) /\ <<>> \in Seq(Request)
            BY DEF BytesInv, BytesTypes
        <3>2. typed \in Nat /\ p \in Nat /\ q \in Nat
            BY <3>1, SumsNumber
        <3>3. SizeOf(<<>>, TRUE) = 0 /\ SizeOf(<<>>, FALSE) = 0
            BY <3>1, SumsNumber
        <3>4. Ahead = typed - p - q
            BY DEF Ahead
        <3>5. Ahead' = typed - SizeOf(<<>>, TRUE) - SizeOf(<<>>, FALSE)
            BY <2>1 DEF Ahead
        <3>6. Ahead' = typed - 0 - 0
            BY <3>3, <3>5
        <3> HIDE DEF typed, p, q
        <3> QED
            BY <3>2, <3>4, <3>6
    <2>4. queuedBytes' + Ahead' >= Batch' + Joining'
        <3> DEFINE after == Ahead'
        <3>1. after \in Int /\ after >= Ahead
            BY <2>3
        <3> HIDE DEF after
        <3>2. queuedBytes + after >= Batch + Joining
            BY <1>0, <1>00, <3>1
        <3> QED
            BY <2>1, <2>2, <3>2 DEF after
    <2> QED
        BY <2>1, <2>4 DEF RoomInv
<1> QED
    BY <1>1, <1>2, <1>3, <1>4, <1>5, <1>6, <1>7 DEF Write

(* Handing over what is typed keeps it: neither the account nor the queue of
   replies knows of it. *)
LEMMA RoomInput ==
    ASSUME BytesInv, RoomInv, HandOverInput
    PROVE  RoomInv'
<1> DEFINE request == [id |-> Len(handed) + 1, size |-> typing, replies |-> 0,
                       input |-> TRUE, since |-> seen]
<1>1. /\ request \in Request /\ SizeIf(request, TRUE) = typing /\ SizeIf(request, FALSE) = 0
      /\ queue \in Seq(Request) /\ handed \in Seq(Request) /\ typing \in Nat
    BY DEF BytesInv, BytesTypes, Request, SizeIf
<1>2. /\ queue' = Append(queue, request) /\ handed' = Append(handed, request)
      /\ UNCHANGED <<queuedBytes, bytes, queued, subtract, writer, reader, answers>>
    BY DEF HandOverInput, HandOver, OthersUnchanged, readerVars, writerVars
<1> HIDE DEF request
<1>3. /\ SizeOf(handed', TRUE) = SizeOf(handed, TRUE) + typing
      /\ SizeOf(queue', TRUE) = SizeOf(queue, TRUE) + typing
      /\ SizeOf(queue', FALSE) = SizeOf(queue, FALSE) + 0
    BY <1>1, <1>2, SumsAppend
<1>4. Ahead' = Ahead
    <2> DEFINE typed == SizeOf(handed, TRUE)
               p == SizeOf(queue, TRUE)
               q == SizeOf(queue, FALSE)
    <2>1. typed \in Nat /\ p \in Nat /\ q \in Nat
        BY <1>1, SumsNumber
    <2>2. Ahead = typed - p - q
        BY DEF Ahead
    <2>3. Ahead' = SizeOf(handed', TRUE) - SizeOf(queue', TRUE) - SizeOf(queue', FALSE)
        BY DEF Ahead
    <2>4. Ahead' = (typed + typing) - (p + typing) - (q + 0)
        BY <1>3, <2>3
    <2> HIDE DEF typed, p, q
    <2> QED
        BY <1>1, <2>1, <2>2, <2>4
<1>5. Batch' = Batch /\ Joining' = Joining
    BY <1>2 DEF Batch, Joining
<1> QED
    BY <1>2, <1>4, <1>5 DEF RoomInv

(* Every step keeps it. *)
LEMMA RoomStep == BytesInv /\ RoomInv /\ [Next]_vars => RoomInv'
<1> SUFFICES ASSUME BytesInv, RoomInv, [Next]_vars PROVE RoomInv'
    OBVIOUS
<1> USE DEF childVars, readerVars, writerVars, testVars, sharedVars, OthersUnchanged
<1>1. CASE Answer \/ Write \/ HandOverInput
    BY <1>1, RoomReader, RoomWriter, RoomInput
<1>2. CASE \/ Child \/ SendToClosed \/ TakeAck \/ Expire \/ LookWhetherBusy \/ GiveUp
           \/ (\E size \in InputSizes : Send(size)) \/ UNCHANGED vars
    <2>1. UNCHANGED <<queuedBytes, queue, handed, bytes, queued, subtract, writer, reader, answers>>
        BY <1>2 DEF Child, AppReads, AppStopsReading, AppCloses, SendToClosed, TakeAck, Expire,
                    LookWhetherBusy, GiveUp, Send, vars
    <2> QED
        BY <2>1, RoomKept DEF Joining
<1>3. CASE \E batch \in Batches : Feed(batch)
    <2>1. /\ UNCHANGED <<queuedBytes, queue, handed, bytes, queued, subtract, writer>>
          /\ Joining' = Joining /\ reader' \notin {"pending", "counting"}
        BY <1>3 DEF Feed, Joining
    <2> QED
        BY <2>1, RoomKept
<1> QED
    BY <1>1, <1>2, <1>3 DEF Next, Wait

(* Some of a sequence's entries are no more than all of them. *)
LEMMA SomeOfThem ==
    ASSUME NEW n \in Nat, NEW S \in SUBSET (1..n)
    PROVE  Cardinality(S) \in Nat /\ Cardinality(S) <= n
<1>1. IsFiniteSet(1..n) /\ Cardinality(1..n) = n
    BY FS_Interval
<1>2. IsFiniteSet(S) /\ Cardinality(S) <= Cardinality(1..n)
    BY <1>1, FS_Subset
<1> QED
    BY <1>1, <1>2, FS_CardinalityType

(* The reply bytes in memory stay within the ceiling but for the typed bytes
   the writer has taken, for any batches and any interleaving of the three
   steps of the account. *)
THEOREM ReplyBytesCorrect == Spec => []ReplyBytesNearCeiling
<1>1. BytesInv /\ RoomInv => ReplyBytesNearCeiling
    <2> SUFFICES ASSUME BytesInv, RoomInv PROVE ReplyBytesNearCeiling
        OBVIOUS
    <2> DEFINE typed == SizeOf(handed, TRUE)
               p == SizeOf(queue, TRUE)
               q == SizeOf(queue, FALSE)
               r == Cardinality({k \in 1..Len(bytes) : IsReply(bytes[k])})
    <2>1. /\ queuedBytes \in Int /\ queued \in Nat /\ subtract \in Nat
          /\ Len(bytes) \in Nat /\ Ceiling \in Nat
          /\ Ahead \in Int /\ Batch \in Nat /\ Joining \in Nat
        BY RoomTypes
    <2>2. typed \in Nat /\ p \in Nat /\ q \in Nat
        BY SumsNumber DEF BytesInv, BytesTypes
    <2>3. r \in Nat /\ r <= Len(bytes)
        BY <2>1, SomeOfThem
    <2>4. Len(bytes) <= Batch
        <3>1. CASE writer = "coalescing"
            BY <2>1, <3>1 DEF Batch
        <3>2. CASE writer = "writing"
            BY <2>1, <3>2 DEF Batch, RoomInv
        <3>3. CASE writer \notin {"coalescing", "writing"}
            <4>1. Len(bytes) = 0
                BY <3>3 DEF RoomInv
            <4> QED
                BY <2>1, <4>1
        <3> QED
            BY <3>1, <3>2, <3>3
    <2>5. Ahead = typed - p - q
        BY DEF Ahead
    <2>6. queuedBytes + Ahead >= Batch + Joining /\ queuedBytes <= Ceiling
        BY DEF RoomInv
    <2>7. ReplyBytesNearCeiling <=> q + r <= Ceiling + typed - p
        BY DEF ReplyBytesNearCeiling, ReplyBytes
    <2> HIDE DEF typed, p, q, r
    <2> QED
        BY <2>1, <2>2, <2>3, <2>4, <2>5, <2>6, <2>7
<1>2. BytesInv /\ RoomInv /\ [Next]_vars => BytesInv' /\ RoomInv'
    BY BytesStep, RoomStep
<1> QED
    BY <1>1, <1>2, BytesInit, RoomInit, PTL DEF Spec

=============================================================================
