------------------------------ MODULE WriteQueue ------------------------------
(***************************************************************************)
(* Everything one terminal writes to its child: the reader thread hands    *)
(* over the replies to a read's queries while it holds the state lock      *)
(* (queue_replies), the test thread hands over what it types and waits,    *)
(* bounded, for an acknowledgement (write_within_deadline), and the writer *)
(* thread takes all that is queued and writes it with one write(2).        *)
(*                                                                         *)
(* The two atomic counters (replies_pending, queued_bytes) and the flag    *)
(* writer_busy are shared without a lock, so every access to them is a     *)
(* step of its own.  A byte is a unit that knows the request it is of.     *)
(***************************************************************************)
EXTENDS Integers, Sequences, FiniteSets, SequencesExt

CONSTANTS
    Ceiling,       (* REPLY_QUEUE_BYTES *)
    Capacity,      (* bytes the child's input queue holds *)
    Batches,       (* the answers a read may call for: records of count, size *)
    InputSizes,    (* the lengths of what the test types *)
    MaxReads,      (* bound: reads *)
    MaxInputs      (* bound: calls of send *)

ASSUME QueueAssumption ==
    /\ Ceiling \in Nat /\ Capacity \in Nat \ {0}
    /\ Batches \subseteq [count : Nat, size : Nat]
    /\ \A b \in Batches : b.count = 0 <=> b.size = 0
    /\ InputSizes \subseteq Nat \ {0}
    /\ MaxReads \in Nat /\ MaxInputs \in Nat

VARIABLES
    (* The child *)
    appReads,      (* it still reads its input *)
    closed,        (* no process holds the slave side any more *)
    unread,        (* bytes in its input queue *)
    delivered,     (* history: every byte that went into the PTY, in order *)
    (* The reader thread *)
    reader, answers, reads,
    shown,         (* the last read whose screen the test can see *)
    eof, dropped,  (* replies_dropped *)
    (* Shared *)
    queue,         (* the channel *)
    pending,       (* replies_pending *)
    queuedBytes,   (* queued_bytes; below zero where it wraps in the code *)
    busy,          (* writer_busy *)
    handed,        (* history: every request handed over, in order *)
    (* The writer thread *)
    writer, bytes, acks, replies, queued, failed, subtract,
    (* The test thread *)
    test, typing, seen, mine, ack, outcome, inputs

childVars == <<appReads, closed, unread, delivered>>
readerVars == <<reader, answers, reads, shown, eof, dropped>>
writerVars == <<writer, bytes, acks, replies, queued, failed, subtract>>
testVars == <<test, typing, seen, mine, ack, outcome, inputs>>
sharedVars == <<queue, pending, queuedBytes, busy, handed>>
vars == <<childVars, readerVars, writerVars, testVars, sharedVars>>

Nothing == [count |-> 0, size |-> 0]

Request == [id : Nat \ {0}, size : Nat, replies : Nat, input : BOOLEAN, since : Nat]

Unit == [request : Nat \ {0}, unit : Nat \ {0}]

(* The bytes of a request. *)
Units(request) == [u \in 1..request.size |-> [request |-> request.id, unit |-> u]]

Init ==
    /\ appReads = TRUE /\ closed = FALSE /\ unread = 0 /\ delivered = <<>>
    /\ reader = "reading" /\ answers = Nothing /\ reads = 0 /\ shown = 0
    /\ eof = FALSE /\ dropped = 0
    /\ queue = <<>> /\ pending = 0 /\ queuedBytes = 0 /\ busy = FALSE /\ handed = <<>>
    /\ writer = "receiving" /\ bytes = <<>> /\ acks = {} /\ replies = 0 /\ queued = 0
    /\ failed = FALSE /\ subtract = 0
    /\ test = "idle" /\ typing = 0 /\ seen = 0 /\ mine = 0 /\ ack = "none" /\ outcome = "none"
    /\ inputs = 0

-----------------------------------------------------------------------------
(***************************************************************************)
(* The child (outside the library).                                        *)
(***************************************************************************)

AppReads ==
    /\ appReads /\ ~closed /\ unread > 0
    /\ unread' = 0
    /\ UNCHANGED <<appReads, closed, delivered, readerVars, writerVars, testVars, sharedVars>>

AppStopsReading ==
    /\ appReads /\ ~closed
    /\ appReads' = FALSE
    /\ UNCHANGED <<closed, unread, delivered, readerVars, writerVars, testVars, sharedVars>>

AppCloses ==
    /\ ~closed
    /\ closed' = TRUE
    /\ UNCHANGED <<appReads, unread, delivered, readerVars, writerVars, testVars, sharedVars>>

-----------------------------------------------------------------------------
(***************************************************************************)
(* The reader thread. From Feed to Show it holds the state lock, which     *)
(* nothing else here waits for: a screen the test looks at is one shown.   *)
(***************************************************************************)

(* Slip: the lock is released before the replies are handed over. *)
FeedShowing(batch) ==
    /\ reader = "reading" /\ ~(closed /\ failed) /\ reads < MaxReads
    /\ reads' = reads + 1
    /\ shown' = reads + 1
    /\ answers' = batch
    /\ reader' = IF batch.count = 0 THEN "showing" ELSE "checking"
    /\ UNCHANGED <<eof, dropped, childVars, writerVars, testVars, sharedVars>>

(* A chunk is fed, and its queries are answered. Where writes fail once the
   slave is closed, no output is left to read either. *)
Feed(batch) ==
    /\ reader = "reading" /\ ~(closed /\ failed) /\ reads < MaxReads
    /\ reads' = reads + 1
    /\ answers' = batch
    /\ reader' = IF batch.count = 0 THEN "showing" ELSE "checking"
    /\ UNCHANGED <<shown, eof, dropped, childVars, writerVars, testVars, sharedVars>>

(* Slip: what is about to be queued is not counted in. *)
CheckCeilingLate ==
    /\ reader = "checking"
    /\ IF queuedBytes > Ceiling
       THEN dropped' = dropped + answers.count /\ reader' = "showing"
       ELSE reader' = "pending" /\ UNCHANGED dropped
    /\ UNCHANGED <<answers, reads, shown, eof, childVars, writerVars, testVars, sharedVars>>

(* The only refusal is the memory bound. *)
CheckCeiling ==
    /\ reader = "checking"
    /\ IF queuedBytes + answers.size > Ceiling
       THEN dropped' = dropped + answers.count /\ reader' = "showing"
       ELSE reader' = "pending" /\ UNCHANGED dropped
    /\ UNCHANGED <<answers, reads, shown, eof, childVars, writerVars, testVars, sharedVars>>

CountPending ==
    /\ reader = "pending"
    /\ pending' = pending + answers.count
    /\ reader' = "counting"
    /\ UNCHANGED <<answers, reads, shown, eof, dropped, childVars, writerVars, testVars,
                   queue, queuedBytes, busy, handed>>

CountBytes ==
    /\ reader = "counting"
    /\ queuedBytes' = queuedBytes + answers.size
    /\ reader' = "handing"
    /\ UNCHANGED <<answers, reads, shown, eof, dropped, childVars, writerVars, testVars,
                   queue, pending, busy, handed>>

(* Into the unbounded channel: at the back. *)
HandOver(request) ==
    /\ queue' = Append(queue, request)
    /\ handed' = Append(handed, request)

ReplyRequest ==
    [id |-> Len(handed) + 1, size |-> answers.size, replies |-> answers.count, input |-> FALSE,
     since |-> reads]

(* Slip: the hand-off waits for the writer to take it, as with a channel of no
   capacity. *)
HandOverRepliesWaiting ==
    /\ reader = "handing" /\ writer = "receiving" /\ queue = <<>>
    /\ HandOver(ReplyRequest)
    /\ reader' = "showing"
    /\ UNCHANGED <<answers, reads, shown, eof, dropped, childVars, writerVars, testVars,
                   pending, queuedBytes, busy>>

HandOverReplies ==
    /\ reader = "handing" /\ writer # "done"
    /\ HandOver(ReplyRequest)
    /\ reader' = "showing"
    /\ UNCHANGED <<answers, reads, shown, eof, dropped, childVars, writerVars, testVars,
                   pending, queuedBytes, busy>>

(* The channel has no receiver any more: the counters are taken back. *)
HandOverFails ==
    /\ reader = "handing" /\ writer = "done"
    /\ pending' = pending - answers.count
    /\ reader' = "uncounting"
    /\ UNCHANGED <<answers, reads, shown, eof, dropped, childVars, writerVars, testVars,
                   queue, queuedBytes, busy, handed>>

UncountBytes ==
    /\ reader = "uncounting"
    /\ queuedBytes' = queuedBytes - answers.size
    /\ reader' = "showing"
    /\ UNCHANGED <<answers, reads, shown, eof, dropped, childVars, writerVars, testVars,
                   queue, pending, busy, handed>>

(* The state lock is released and the waiters are woken. *)
Show ==
    /\ reader = "showing"
    /\ shown' = reads
    /\ answers' = Nothing
    /\ reader' = "reading"
    /\ UNCHANGED <<reads, eof, dropped, childVars, writerVars, testVars, sharedVars>>

ReadEnd ==
    /\ reader = "reading" /\ closed
    /\ reader' = "done" /\ eof' = TRUE
    /\ UNCHANGED <<answers, reads, shown, dropped, childVars, writerVars, testVars, sharedVars>>

-----------------------------------------------------------------------------
(***************************************************************************)
(* The writer thread.                                                      *)
(***************************************************************************)

Take(request) ==
    /\ queue' = Tail(queue)
    /\ bytes' = bytes \o Units(request)
    /\ acks' = IF request.input THEN acks \cup {request.id} ELSE acks
    /\ replies' = replies + request.replies

Receive ==
    /\ writer = "receiving" /\ queue # <<>>
    /\ Take(Head(queue))
    /\ writer' = "coalescing"
    /\ UNCHANGED <<queued, failed, subtract, pending, queuedBytes, busy, handed, childVars,
                   readerVars, testVars>>

(* Slip: replies overtake what was typed. *)
CoalesceAhead ==
    /\ writer = "coalescing" /\ queue # <<>>
    /\ LET request == Head(queue)
       IN  /\ queue' = Tail(queue)
           /\ bytes' = IF request.input THEN bytes \o Units(request) ELSE Units(request) \o bytes
           /\ acks' = IF request.input THEN acks \cup {request.id} ELSE acks
           /\ replies' = replies + request.replies
    /\ UNCHANGED <<writer, queued, failed, subtract, pending, queuedBytes, busy, handed,
                   childVars, readerVars, testVars>>

Coalesce ==
    /\ writer = "coalescing" /\ queue # <<>>
    /\ Take(Head(queue))
    /\ UNCHANGED <<writer, queued, failed, subtract, pending, queuedBytes, busy, handed,
                   childVars, readerVars, testVars>>

StartWrite ==
    /\ writer = "coalescing" /\ queue = <<>>
    /\ queued' = Len(bytes)
    /\ busy' = TRUE
    /\ writer' = "writing"
    /\ UNCHANGED <<bytes, acks, replies, failed, subtract, queue, pending, queuedBytes, handed,
                   childVars, readerVars, testVars>>

(* write(2) moves what the input queue has room for, and sleeps when it has
   none. With the slave closed it may still succeed (Linux). *)
WriteByte ==
    /\ writer = "writing" /\ bytes # <<>> /\ unread < Capacity
    /\ unread' = unread + 1
    /\ delivered' = Append(delivered, Head(bytes))
    /\ bytes' = Tail(bytes)
    /\ UNCHANGED <<appReads, closed, writer, acks, replies, queued, failed, subtract,
                   readerVars, testVars, sharedVars>>

(* EIO, with the slave closed: the rest of the batch is lost. *)
WriteFails ==
    /\ writer = "writing" /\ bytes # <<>> /\ closed
    /\ bytes' = <<>>
    /\ failed' = TRUE
    /\ UNCHANGED <<writer, acks, replies, queued, subtract, childVars, readerVars, testVars,
                   sharedVars>>

FinishWrite ==
    /\ writer = "writing" /\ bytes = <<>>
    /\ busy' = FALSE
    /\ writer' = "uncounting"
    /\ UNCHANGED <<bytes, acks, replies, queued, failed, subtract, queue, pending, queuedBytes,
                   handed, childVars, readerVars, testVars>>

(* Slip: the replies of the batch stay counted. *)
UncountRepliesOne ==
    /\ writer = "uncounting"
    /\ pending' = IF replies > 0 THEN pending - 1 ELSE pending
    /\ replies' = 0
    /\ writer' = "loading"
    /\ UNCHANGED <<bytes, acks, queued, failed, subtract, queue, queuedBytes, busy, handed,
                   childVars, readerVars, testVars>>

UncountReplies ==
    /\ writer = "uncounting"
    /\ pending' = pending - replies
    /\ replies' = 0
    /\ writer' = "loading"
    /\ UNCHANGED <<bytes, acks, queued, failed, subtract, queue, queuedBytes, busy, handed,
                   childVars, readerVars, testVars>>

(* Slip: no min, although typed bytes were never added. *)
LoadBytesUnbounded ==
    /\ writer = "loading"
    /\ subtract' = queued
    /\ queued' = 0
    /\ writer' = "subtracting"
    /\ UNCHANGED <<bytes, acks, replies, failed, childVars, readerVars, testVars,
                   sharedVars>>

(* queued.min(drained.load()): what is typed was never added. *)
LoadBytes ==
    /\ writer = "loading"
    /\ subtract' = IF queued < queuedBytes THEN queued ELSE queuedBytes
    /\ queued' = 0
    /\ writer' = "subtracting"
    /\ UNCHANGED <<bytes, acks, replies, failed, childVars, readerVars, testVars,
                   sharedVars>>

SubtractBytes ==
    /\ writer = "subtracting"
    /\ queuedBytes' = queuedBytes - subtract
    /\ subtract' = 0
    /\ writer' = "acking"
    /\ UNCHANGED <<bytes, acks, replies, queued, failed, queue, pending, busy, handed,
                   childVars, readerVars, testVars>>

(* Slip: a failed write is acknowledged like any other. *)
AcknowledgeOk ==
    /\ writer = "acking"
    /\ ack' = IF mine \in acks THEN "ok" ELSE ack
    /\ acks' = {}
    /\ writer' = IF failed THEN "breaking" ELSE "receiving"
    /\ UNCHANGED <<bytes, replies, queued, failed, subtract, childVars, readerVars, sharedVars,
                   test, typing, seen, mine, outcome, inputs>>

(* Slip: a caller that gave up ends the thread. *)
AcknowledgeOrEnd ==
    /\ writer = "acking"
    /\ ack' = IF mine \in acks THEN IF failed THEN "error" ELSE "ok" ELSE ack
    /\ acks' = {}
    /\ writer' = IF failed \/ acks \ {mine} # {} THEN "breaking" ELSE "receiving"
    /\ UNCHANGED <<bytes, replies, queued, failed, subtract, childVars, readerVars, sharedVars,
                   test, typing, seen, mine, outcome, inputs>>

(* Every waiter of the batch learns the one result; a caller that gave up
   has no receiver any more. A failed write ends the thread. *)
Acknowledge ==
    /\ writer = "acking"
    /\ ack' = IF mine \in acks THEN IF failed THEN "error" ELSE "ok" ELSE ack
    /\ acks' = {}
    /\ writer' = IF failed THEN "breaking" ELSE "receiving"
    /\ UNCHANGED <<bytes, replies, queued, failed, subtract, childVars, readerVars, sharedVars,
                   test, typing, seen, mine, outcome, inputs>>

(* The receiver goes, and with it what is queued and its acknowledgements. *)
DropReceiver ==
    /\ writer = "breaking"
    /\ writer' = "done"
    /\ queue' = <<>>
    /\ ack' = IF \E k \in 1..Len(queue) : queue[k].id = mine THEN "gone" ELSE ack
    /\ UNCHANGED <<bytes, acks, replies, queued, failed, subtract, pending, queuedBytes, busy,
                   handed, childVars, readerVars, test, typing, seen, mine, outcome, inputs>>

-----------------------------------------------------------------------------
(***************************************************************************)
(* The test thread: send, down to write_within_deadline.                   *)
(***************************************************************************)

OthersUnchanged == UNCHANGED <<childVars, readerVars, writerVars>>

(* ensure_deliverable lets it through; what it types, it types in answer to
   the screen it has seen. *)
Send(size) ==
    /\ test = "idle" /\ ~eof /\ inputs < MaxInputs
    /\ test' = "sending" /\ typing' = size /\ seen' = shown /\ inputs' = inputs + 1
    /\ outcome' = "none" /\ ack' = "none" /\ mine' = 0
    /\ OthersUnchanged /\ UNCHANGED sharedVars

EndSend(how) ==
    /\ test' = "idle" /\ outcome' = how
    /\ typing' = 0 /\ seen' = 0 /\ mine' = 0 /\ ack' = "none"

HandOverInput ==
    /\ test = "sending" /\ writer # "done"
    /\ HandOver([id |-> Len(handed) + 1, size |-> typing, replies |-> 0, input |-> TRUE,
                 since |-> seen])
    /\ mine' = Len(handed) + 1
    /\ test' = "waiting"
    /\ OthersUnchanged
    /\ UNCHANGED <<typing, seen, ack, outcome, inputs, pending, queuedBytes, busy>>

SendToClosed ==
    /\ test = "sending" /\ writer = "done"
    /\ EndSend("closed")
    /\ OthersUnchanged /\ UNCHANGED <<inputs, sharedVars>>

(* The acknowledgement, or its channel's end, arrives in either wait. *)
TakeAck ==
    /\ test \in {"waiting", "floor"} /\ ack # "none"
    /\ EndSend(IF ack = "gone" THEN "closed" ELSE ack)
    /\ OthersUnchanged /\ UNCHANGED <<inputs, sharedVars>>

(* Slip: no deadline while a write is blocked. *)
ExpireUnlessBusy ==
    /\ test \in {"waiting", "floor"} /\ ack = "none" /\ ~busy
    /\ test' = IF test = "waiting" THEN "looking" ELSE "judging"
    /\ OthersUnchanged /\ UNCHANGED <<typing, seen, mine, ack, outcome, inputs, sharedVars>>

(* The timeout passes, and later the floor. *)
Expire ==
    /\ test \in {"waiting", "floor"} /\ ack = "none"
    /\ test' = IF test = "waiting" THEN "looking" ELSE "judging"
    /\ OthersUnchanged /\ UNCHANGED <<typing, seen, mine, ack, outcome, inputs, sharedVars>>

(* No write blocked: the floor is waited once more. *)
LookWhetherBusy ==
    /\ test = "looking"
    /\ test' = IF busy THEN "judging" ELSE "floor"
    /\ OthersUnchanged /\ UNCHANGED <<typing, seen, mine, ack, outcome, inputs, sharedVars>>

(* The error says which of the two it was; the write is not withdrawn. *)
GiveUp ==
    /\ test = "judging"
    /\ EndSend(IF busy THEN "blocked" ELSE "unacknowledged")
    /\ OthersUnchanged /\ UNCHANGED <<inputs, sharedVars>>

-----------------------------------------------------------------------------

Child == AppReads \/ AppStopsReading \/ AppCloses

Answer ==
    \/ CheckCeiling \/ CountPending \/ CountBytes \/ HandOverReplies \/ HandOverFails
    \/ UncountBytes \/ Show \/ ReadEnd

Write ==
    \/ Receive \/ Coalesce \/ StartWrite \/ WriteByte \/ WriteFails \/ FinishWrite
    \/ UncountReplies \/ LoadBytes \/ SubtractBytes \/ Acknowledge \/ DropReceiver

Wait == HandOverInput \/ SendToClosed \/ TakeAck \/ Expire \/ LookWhetherBusy \/ GiveUp

Next ==
    \/ Child \/ Answer \/ Write \/ Wait
    \/ \E batch \in Batches : Feed(batch)
    \/ \E size \in InputSizes : Send(size)

Spec == Init /\ [][Next]_vars

(* The scheduler runs the three threads; an application that has not
   stopped reading reads. *)
FairSpec ==
    Spec /\ WF_vars(Answer) /\ WF_vars(Write) /\ WF_vars(Wait) /\ WF_vars(AppReads)

-----------------------------------------------------------------------------
(***************************************************************************)
(* Correctness.                                                            *)
(***************************************************************************)

(* b comes right after a: the next byte of the same request, or the first
   of the next request once a's is through. *)
Follows(a, b) ==
    \/ b.request = a.request /\ b.unit = a.unit + 1
    \/ b.request = a.request + 1 /\ b.unit = 1 /\ a.unit = handed[a.request].size

(* What the child is given is what was handed over, in that order, without
   a byte lost between two others or given twice, whoever gave up on it. *)
WrittenInOrder ==
    /\ delivered # <<>> => delivered[1] = [request |-> 1, unit |-> 1]
    /\ \A k \in 1..(Len(delivered) - 1) : Follows(delivered[k], delivered[k + 1])

(* What the test types in answer to a screen comes after the replies to
   every query the application made before it drew that screen. *)
RepliesAheadOfInput ==
    \A j, k \in 1..Len(handed) :
        (j < k /\ handed[j].input /\ ~handed[k].input) => handed[k].since > handed[j].since

(* The replies in the channel and in the writer's hands. *)
RepliesIn(requests) == FoldLeft(LAMBDA n, request : n + request.replies, 0, requests)

(* The pending count is the replies on their way, never one fewer, so that
   an error message does not deny a reply is stuck; and none too many once
   the reader is between two reads and the writer has not died. *)
PendingIsExact ==
    LET onTheWay == RepliesIn(queue) + replies
        about == IF reader \in {"counting", "handing"} THEN answers.count ELSE 0
    IN  /\ pending >= onTheWay + about
        /\ writer # "done" => pending = onTheWay + about

(* The account of queued bytes is checked against the ceiling only while it
   has not wrapped below zero: the writer, which takes typed bytes out of it
   that were never put in, leaves it at zero at the least, and a hand-off
   that fails after that wraps it only when there is nothing more to read. *)
BytesNeverWrap == queuedBytes < 0 => writer = "done" /\ reader # "checking"

(* A send that reports success has had every byte of its own written. *)
OkMeansWritten ==
    [][(outcome' = "ok" /\ outcome # "ok") =>
          \E k \in 1..Len(delivered) :
              delivered[k] = [request |-> mine, unit |-> handed[mine].size]]_vars

IsReply(unit) == ~handed[unit.request].input

SizeOf(requests, input) ==
    FoldLeft(LAMBDA n, request : n + (IF request.input = input THEN request.size ELSE 0),
             0, requests)

(* The reply bytes somewhere between the reader and the PTY. *)
ReplyBytes == SizeOf(queue, FALSE) + Cardinality({k \in 1..Len(bytes) : IsReply(bytes[k])})

(* The reply bytes held in memory stay within the ceiling, but for the typed
   bytes the writer has taken: those are subtracted from the account, and
   never added to it. *)
ReplyBytesNearCeiling == ReplyBytes <= Ceiling + SizeOf(handed, TRUE) - SizeOf(queue, TRUE)

(* What the documentation says: they stay within the ceiling. *)
ReplyBytesWithinCeiling == ~failed => ReplyBytes <= Ceiling

(* Whatever the application does with its input, the reader comes back to
   reading its output: the drain never waits for the writer. *)
DrainNeverStalls == reader \notin {"reading", "done"} ~> reader \in {"reading", "done"}

(* Every send returns, also with the application not reading. *)
SendsEnd == test # "idle" ~> test = "idle"

(* While the application reads, whatever is handed over is written, also
   what a send gave up on. *)
AllWritten == Len(delivered) = SizeOf(handed, TRUE) + SizeOf(handed, FALSE)

QueueIsWritten == ~AllWritten ~> AllWritten \/ ~appReads \/ closed

=============================================================================
