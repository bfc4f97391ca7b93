------------------------------ MODULE Lifecycle ------------------------------
(***************************************************************************)
(* The descriptors of the PTYs of several terminals in one process, from   *)
(* openpty to the last close: TerminalBuilder::spawn with every step of it *)
(* that may fail, Terminal's Drop, and the reader and writer threads, which*)
(* are never joined and close their duplicates of the master when they end.*)
(*                                                                         *)
(* What the process-wide lock is for is the kernel's: the last close of a  *)
(* master puts the device back for the next openpty, and revokes it a      *)
(* moment later, whoever has it by then.  A blocking write on a master     *)
(* sleeps while the input queue is full.                                   *)
(***************************************************************************)
EXTENDS Integers, Sequences, FiniteSets

CONSTANTS
    Terms,         (* the terminals, each spawned and dropped once *)
    Devices,       (* the PTY devices of the system *)
    NoDevice,      (* no such device *)
    Nobody,        (* no thread *)
    Attempts,      (* PTY_OPEN_ATTEMPTS *)
    MaxTyped,      (* bound: writes each terminal's child is sent *)
    Refusals       (* bound: what the kernel may refuse each terminal's teardown *)

ASSUME LifecycleAssumption ==
    /\ IsFiniteSet(Terms) /\ IsFiniteSet(Devices)
    /\ NoDevice \notin Devices
    /\ Nobody \notin Terms \X {"user", "reader", "writer"}
    /\ Attempts \in Nat \ {0} /\ MaxTyped \in [Terms -> Nat]
    /\ Refusals \in [Terms -> SUBSET SUBSET {"fcntl", "slave"}]

VARIABLES
    lock,          (* PTY_LIFECYCLE: the thread that holds it *)
    holds,         (* HOLDS_LIFECYCLE, of each thread *)
    user,          (* where the thread that owns the terminal is *)
    attempt,       (* openpty calls of this spawn that failed *)
    toClose,       (* what it has still to close, in order *)
    reader, writer,(* where the terminal's two threads are *)
    senders,       (* who can still send to the writer thread *)
    typed,         (* requests sent *)
    (* The kernel *)
    device,        (* the device the terminal's descriptors are of *)
    masters,       (* the open descriptors of its master *)
    slaves,        (* who holds the slave side open *)
    free,          (* the devices openpty can hand out *)
    revoking,      (* the device a thread's last close has yet to revoke *)
    hungUp,        (* the terminal's device was revoked under it *)
    room,          (* its input queue has room *)
    nonblock,      (* O_NONBLOCK, on the master's open file description *)
    refused        (* what the kernel refused the terminal's teardown (history) *)

lockVars == <<lock, holds>>
userVars == <<user, attempt, toClose>>
threadVars == <<reader, writer, senders, typed>>
kernelVars == <<device, masters, slaves, free, revoking, hungUp, room, nonblock, refused>>
vars == <<lockVars, userVars, threadVars, kernelVars>>

Threads == Terms \X {"user", "reader", "writer"}

User(t) == <<t, "user">>
Reader(t) == <<t, "reader">>
Writer(t) == <<t, "writer">>

(* The descriptors on a master: its own, the PTY layer's writer in the shared
   cell, and the duplicates of the two threads. *)
Descriptors == {"master", "cell", "reader", "writer"}

Init ==
    /\ lock = Nobody /\ holds = [th \in Threads |-> FALSE]
    /\ user = [t \in Terms |-> "unborn"] /\ attempt = [t \in Terms |-> 0]
    /\ toClose = [t \in Terms |-> <<>>]
    /\ reader = [t \in Terms |-> "none"] /\ writer = [t \in Terms |-> "none"]
    /\ senders = [t \in Terms |-> {}] /\ typed = [t \in Terms |-> 0]
    /\ device = [t \in Terms |-> NoDevice] /\ masters = [t \in Terms |-> {}]
    /\ slaves = [t \in Terms |-> {}] /\ free = Devices
    /\ revoking = [th \in Threads |-> NoDevice]
    /\ hungUp = [t \in Terms |-> FALSE]
    /\ room = [t \in Terms |-> TRUE] /\ nonblock = [t \in Terms |-> FALSE]
    /\ refused = [t \in Terms |-> {}]

-----------------------------------------------------------------------------
(***************************************************************************)
(* The lock and the closes.                                                *)
(***************************************************************************)

(* A guard is had at once by the thread that holds the lock. *)
CanGuard(th) == holds[th] \/ lock = Nobody

(* The guard takes the lock, unless its thread has it. *)
TakeGuard(th) ==
    /\ CanGuard(th)
    /\ lock' = th
    /\ holds' = [holds EXCEPT ![th] = TRUE]

(* The guard that took the lock goes. *)
DropGuard(th) ==
    /\ lock' = Nobody
    /\ holds' = [holds EXCEPT ![th] = FALSE]

(* A thread closes one descriptor of a master. The last one puts the device
   back, and the thread's close is not over before the device is revoked. *)
CloseMaster(th, t, fd) ==
    /\ masters' = [masters EXCEPT ![t] = @ \ {fd}]
    /\ IF masters[t] = {fd}
       THEN /\ free' = free \union {device[t]}
            /\ revoking' = [revoking EXCEPT ![th] = device[t]]
            /\ device' = [device EXCEPT ![t] = NoDevice]
       ELSE UNCHANGED <<free, revoking, device>>

(* The revoke of a last close lands on whoever has the device by now. *)
Revoke(th) ==
    /\ revoking[th] # NoDevice
    /\ hungUp' = [t \in Terms |-> hungUp[t] \/ device[t] = revoking[th]]
    /\ revoking' = [revoking EXCEPT ![th] = NoDevice]
    /\ UNCHANGED <<lockVars, userVars, threadVars, device, masters, slaves, free, room, nonblock, refused>>

Closed(th) == revoking[th] = NoDevice

-----------------------------------------------------------------------------
(***************************************************************************)
(* TerminalBuilder::spawn.                                                 *)
(***************************************************************************)

At(t, from, to) == user[t] = from /\ user' = [user EXCEPT ![t] = to]

Spawn(t) ==
    /\ At(t, "unborn", "opening")
    /\ UNCHANGED <<attempt, toClose, lockVars, threadVars, kernelVars>>

(* An attempt of open_pty that gets a device, with the lock held from here. *)
OpenPty(t) ==
    /\ At(t, "opening", "cloning")
    /\ TakeGuard(User(t))
    /\ \E d \in free : device' = [device EXCEPT ![t] = d] /\ free' = free \ {d}
    /\ masters' = [masters EXCEPT ![t] = {"master"}]
    /\ slaves' = [slaves EXCEPT ![t] = {"parent"}]
    /\ UNCHANGED <<attempt, toClose, threadVars, revoking, hungUp, room, nonblock, refused>>

(* With no device to be had the attempt fails, and the lock is not held until
   the next one: a teardown needs it to put a device back. *)
OpenFails(t) ==
    /\ user[t] = "opening" /\ free = {}
    /\ CanGuard(User(t))
    /\ attempt' = [attempt EXCEPT ![t] = @ + 1]
    /\ user' = [user EXCEPT ![t] = IF attempt[t] + 1 < Attempts THEN "opening" ELSE "failed"]
    /\ UNCHANGED <<toClose, lockVars, threadVars, kernelVars>>

(* The duplicate for the reader thread. *)
CloneReader(t) ==
    /\ At(t, "cloning", "taking")
    /\ masters' = [masters EXCEPT ![t] = @ \union {"reader"}]
    /\ UNCHANGED <<attempt, toClose, lockVars, threadVars,
                   device, slaves, free, revoking, hungUp, room, nonblock, refused>>

(* The PTY layer's writer, in the cell that the reader thread will share. *)
TakeWriter(t) ==
    /\ At(t, "taking", "duplicating")
    /\ masters' = [masters EXCEPT ![t] = @ \union {"cell"}]
    /\ UNCHANGED <<attempt, toClose, lockVars, threadVars,
                   device, slaves, free, revoking, hungUp, room, nonblock, refused>>

DupWriter(t) ==
    /\ At(t, "duplicating", "starting")
    /\ masters' = [masters EXCEPT ![t] = @ \union {"writer"}]
    /\ UNCHANGED <<attempt, toClose, lockVars, threadVars,
                   device, slaves, free, revoking, hungUp, room, nonblock, refused>>

(* No descriptor to duplicate: no writer thread, and replies written inline. *)
DupWriterFails(t) ==
    /\ At(t, "duplicating", "attaching")
    /\ UNCHANGED <<attempt, toClose, lockVars, threadVars, kernelVars>>

StartWriter(t) ==
    /\ At(t, "starting", "attaching")
    /\ writer' = [writer EXCEPT ![t] = "receiving"]
    /\ senders' = [senders EXCEPT ![t] = {"terminal"}]
    /\ UNCHANGED <<attempt, toClose, lockVars, reader, typed, kernelVars>>

StartReader(t) ==
    /\ At(t, "attaching", "forking")
    /\ reader' = [reader EXCEPT ![t] = "reading"]
    /\ senders' = [senders EXCEPT ![t] = IF @ = {} THEN {} ELSE @ \union {"reader"}]
    /\ UNCHANGED <<attempt, toClose, lockVars, writer, typed, kernelVars>>

SpawnChild(t) ==
    /\ At(t, "forking", "spawned")
    /\ slaves' = [slaves EXCEPT ![t] = @ \union {"child"}]
    /\ UNCHANGED <<attempt, toClose, lockVars, threadVars,
                   device, masters, free, revoking, hungUp, room, nonblock, refused>>

(* Opening::spawned: the parent's slave closes, and the lock is released. *)
Spawned(t) ==
    /\ At(t, "spawned", "running")
    /\ slaves' = [slaves EXCEPT ![t] = @ \ {"parent"}]
    /\ DropGuard(User(t))
    /\ UNCHANGED <<attempt, toClose, threadVars,
                   device, masters, free, revoking, hungUp, room, nonblock, refused>>

(* Slip: the cell is left to the reader thread. *)
OpenedByLeavingCell(t) ==
    (CASE user[t] = "cloning" -> <<>>
       [] user[t] = "taking" -> <<"reader">>
       [] user[t] = "starting" -> <<"writer", "reader">>
       [] user[t] = "attaching" -> <<"reader">>
       [] user[t] = "forking" -> <<>>)
    \o <<"slave", "master">>

(* What a spawn that fails here closes: what has no thread yet, then, as
   Opening is dropped, the writer out of the cell, the slave and the master. *)
OpenedBy(t) ==
    (CASE user[t] = "cloning" -> <<>>
       [] user[t] = "taking" -> <<"reader">>
       [] user[t] = "starting" -> <<"writer", "reader", "cell">>
       [] user[t] = "attaching" -> <<"reader", "cell">>
       [] user[t] = "forking" -> <<"cell">>)
    \o <<"slave", "master">>

(* A step of the spawn fails. Its sender goes, and all it opened is closed
   before the lock is released; threads it has started end by themselves. *)
SpawnFails(t) ==
    /\ user[t] \in {"cloning", "taking", "starting", "attaching", "forking"}
    /\ toClose' = [toClose EXCEPT ![t] = OpenedBy(t)]
    /\ user' = [user EXCEPT ![t] = "failing"]
    /\ senders' = [senders EXCEPT ![t] = @ \ {"terminal"}]
    /\ UNCHANGED <<attempt, lockVars, reader, writer, typed, kernelVars>>

-----------------------------------------------------------------------------
(***************************************************************************)
(* What a dropped Opening and a dropped Terminal close, one at a time.     *)
(***************************************************************************)

(* The cell's mutex: the reader thread has it while it writes inline. *)
CellIsFree(t) == reader[t] \notin {"replying", "asleep"}

(* The PTY layer's writer writes an EOT as it is dropped, a blocking write:
   it goes out, or fails at once where the master does not block. *)
EotEnds(t) == room[t] \/ nonblock[t]

CloseNext(t) ==
    /\ user[t] \in {"failing", "closing"} /\ Closed(User(t)) /\ toClose[t] # <<>>
    /\ toClose' = [toClose EXCEPT ![t] = Tail(@)]
    /\ LET fd == Head(toClose[t]) IN
       CASE fd = "slave" ->
              /\ slaves' = [slaves EXCEPT ![t] = @ \ {"parent"}]
              /\ UNCHANGED <<device, masters, free, revoking>>
         [] fd = "cell" ->
              /\ CellIsFree(t) /\ EotEnds(t)
              /\ CloseMaster(User(t), t, fd)
              /\ UNCHANGED slaves
         [] fd = "master" ->
              /\ CloseMaster(User(t), t, fd)
              /\ UNCHANGED slaves
         [] fd \in {"reader", "writer"} ->  (* a MasterDup, with a guard of its own *)
              /\ CanGuard(User(t))
              /\ CloseMaster(User(t), t, fd)
              /\ UNCHANGED slaves
    /\ UNCHANGED <<lockVars, user, attempt, threadVars, hungUp, room, nonblock, refused>>

(* The spawn reports its failure, the lock released. *)
FailSpawn(t) ==
    /\ At(t, "failing", "failed") /\ Closed(User(t)) /\ toClose[t] = <<>>
    /\ DropGuard(User(t))
    /\ UNCHANGED <<attempt, toClose, threadVars, kernelVars>>

-----------------------------------------------------------------------------
(***************************************************************************)
(* Terminal's Drop.                                                        *)
(***************************************************************************)

Drop(t) ==
    /\ At(t, "running", "stopping")
    /\ UNCHANGED <<attempt, toClose, lockVars, threadVars, kernelVars>>

(* The child has been stopped, outside the lock; or it is wedged, and the
   grace is over. *)
StopChild(t) ==
    /\ At(t, "stopping", "unblocking")
    /\ \/ slaves' = [slaves EXCEPT ![t] = @ \ {"child"}]
       \/ UNCHANGED slaves
    /\ UNCHANGED <<attempt, toClose, lockVars, threadVars,
                   device, masters, free, revoking, hungUp, room, nonblock, refused>>

(* Whoever sleeps in a write of this terminal is woken. *)
Wake(t) ==
    /\ writer' = [writer EXCEPT ![t] = IF @ = "asleep" THEN "writing" ELSE @]
    /\ reader' = [reader EXCEPT ![t] = IF @ = "asleep" THEN "replying" ELSE @]

(* Slip: no write waits from here on, but who sleeps in one is not woken. *)
UnblockTeardownFlagOnly(t) ==
    /\ At(t, "unblocking", "locking")
    /\ nonblock' = [nonblock EXCEPT ![t] = TRUE]
    /\ UNCHANGED <<attempt, toClose, lockVars, threadVars,
                   device, masters, slaves, free, revoking, hungUp, room, refused>>

(* No write on the master waits from here on, the input nothing will read is
   flushed, and the close of the slave opened for it wakes who sleeps.  The kernel
   may refuse each: fcntl, and the open of the slave or its flush, where what was
   opened wakes a sleeper or does not.  A step that fails is passed over. *)
UnblockTeardown(t) ==
    /\ At(t, "unblocking", "locking")
    /\ \E refusals \in Refusals[t] :
          /\ refused' = [refused EXCEPT ![t] = refusals]
          /\ nonblock' = [nonblock EXCEPT ![t] = "fcntl" \notin refusals]
          /\ room' = [room EXCEPT ![t] = @ \/ "slave" \notin refusals]
          /\ Wake(t) \/ ("slave" \in refusals /\ UNCHANGED <<reader, writer>>)
    /\ UNCHANGED <<attempt, toClose, lockVars, senders, typed,
                   device, masters, slaves, free, revoking, hungUp>>

LockToClose(t) ==
    /\ At(t, "locking", "closing")
    /\ TakeGuard(User(t))
    /\ toClose' = [toClose EXCEPT ![t] = <<"cell", "master">>]
    /\ UNCHANGED <<attempt, threadVars, kernelVars>>

(* The lock is released, and then the fields go, the sender among them. *)
Dropped(t) ==
    /\ At(t, "closing", "dropped") /\ Closed(User(t)) /\ toClose[t] = <<>>
    /\ DropGuard(User(t))
    /\ senders' = [senders EXCEPT ![t] = @ \ {"terminal"}]
    /\ UNCHANGED <<attempt, toClose, reader, writer, typed, kernelVars>>

-----------------------------------------------------------------------------
(***************************************************************************)
(* The reader thread. Queries are answered inline where there is no writer *)
(* thread, with the cell locked.                                           *)
(***************************************************************************)

ReaderAt(t, from, to) == reader[t] = from /\ reader' = [reader EXCEPT ![t] = to]

(* A read that carries a query; the cell may have been emptied by then. *)
ReplyInline(t) ==
    /\ ReaderAt(t, "reading", "replying")
    /\ writer[t] = "none" /\ "cell" \in masters[t] /\ typed[t] < MaxTyped[t]
    /\ slaves[t] \ {"parent"} # {}
    /\ typed' = [typed EXCEPT ![t] = @ + 1]
    /\ UNCHANGED <<writer, senders, lockVars, userVars, kernelVars>>

(* The write goes out, and may have filled the queue, or fails. *)
ReplyWritten(t) ==
    /\ ReaderAt(t, "replying", "reading")
    /\ \/ room[t] /\ \E left \in BOOLEAN : room' = [room EXCEPT ![t] = left]
       \/ ~room[t] /\ nonblock[t] /\ UNCHANGED room
    /\ UNCHANGED <<writer, senders, typed, lockVars, userVars,
                   device, masters, slaves, free, revoking, hungUp, nonblock, refused>>

ReplySleeps(t) ==
    /\ ReaderAt(t, "replying", "asleep")
    /\ ~room[t] /\ ~nonblock[t]
    /\ UNCHANGED <<writer, senders, typed, lockVars, userVars, kernelVars>>

(* Nobody holds the slave any more, or the device was revoked. *)
ReadEnds(t) ==
    /\ ReaderAt(t, "reading", "locking")
    /\ slaves[t] = {} \/ hungUp[t]
    /\ UNCHANGED <<writer, senders, typed, lockVars, userVars, kernelVars>>

(* A read that finds nothing, and may not wait for it: EAGAIN ends the loop.
   A read asleep since before the flag gets here only if it is woken. *)
ReadAgain(t) ==
    /\ ReaderAt(t, "reading", "locking")
    /\ nonblock[t] /\ slaves[t] # {}
    /\ UNCHANGED <<writer, senders, typed, lockVars, userVars, kernelVars>>

(* Slip: the reader's descriptor closes where the thread happens to end. *)
ReaderLocksNot(t) ==
    /\ ReaderAt(t, "locking", "closing")
    /\ UNCHANGED <<lockVars, writer, senders, typed, userVars, kernelVars>>

ReaderLocks(t) ==
    /\ ReaderAt(t, "locking", "closing")
    /\ TakeGuard(Reader(t))
    /\ UNCHANGED <<writer, senders, typed, userVars, kernelVars>>

ReaderCloses(t) ==
    /\ ReaderAt(t, "closing", "closed")
    /\ CloseMaster(Reader(t), t, "reader")
    /\ UNCHANGED <<writer, senders, typed, lockVars, userVars, slaves, hungUp, room, nonblock, refused>>

(* The thread is over, and its sender with it. *)
ReaderEnds(t) ==
    /\ ReaderAt(t, "closed", "ended") /\ Closed(Reader(t))
    /\ DropGuard(Reader(t))
    /\ senders' = [senders EXCEPT ![t] = @ \ {"reader"}]
    /\ UNCHANGED <<writer, typed, userVars, kernelVars>>

-----------------------------------------------------------------------------
(***************************************************************************)
(* The writer thread.                                                      *)
(***************************************************************************)

WriterAt(t, from, to) == writer[t] = from /\ writer' = [writer EXCEPT ![t] = to]

(* The test types, or the reader thread hands over replies. *)
Receive(t) ==
    /\ WriterAt(t, "receiving", "writing")
    /\ typed[t] < MaxTyped[t]
    /\ \/ user[t] = "running"
       \/ reader[t] = "reading" /\ slaves[t] \ {"parent"} # {}
    /\ typed' = [typed EXCEPT ![t] = @ + 1]
    /\ UNCHANGED <<reader, senders, lockVars, userVars, kernelVars>>

(* Part of the batch goes out and fills the queue, or all of it goes out. *)
Write(t) ==
    /\ writer[t] = "writing" /\ room[t]
    /\ \/ /\ writer' = [writer EXCEPT ![t] = "receiving"]
          /\ \E left \in BOOLEAN : room' = [room EXCEPT ![t] = left]
       \/ room' = [room EXCEPT ![t] = FALSE] /\ UNCHANGED writer
    /\ UNCHANGED <<reader, senders, typed, lockVars, userVars,
                   device, masters, slaves, free, revoking, hungUp, nonblock, refused>>

WriteSleeps(t) ==
    /\ WriterAt(t, "writing", "asleep")
    /\ ~room[t] /\ ~nonblock[t]
    /\ UNCHANGED <<reader, senders, typed, lockVars, userVars, kernelVars>>

(* A write that would have to wait and may not, or of a terminal that is
   gone, fails, and the thread ends. *)
WriteFails(t) ==
    /\ WriterAt(t, "writing", "locking")
    /\ (~room[t] /\ nonblock[t]) \/ slaves[t] = {} \/ hungUp[t]
    /\ UNCHANGED <<reader, senders, typed, lockVars, userVars, kernelVars>>

(* Nobody is left to send. *)
ReceiveEnds(t) ==
    /\ WriterAt(t, "receiving", "locking")
    /\ senders[t] = {}
    /\ UNCHANGED <<reader, senders, typed, lockVars, userVars, kernelVars>>

WriterLocks(t) ==
    /\ WriterAt(t, "locking", "closing")
    /\ TakeGuard(Writer(t))
    /\ UNCHANGED <<reader, senders, typed, userVars, kernelVars>>

WriterCloses(t) ==
    /\ WriterAt(t, "closing", "closed")
    /\ CloseMaster(Writer(t), t, "writer")
    /\ UNCHANGED <<reader, senders, typed, lockVars, userVars, slaves, hungUp, room, nonblock, refused>>

WriterEnds(t) ==
    /\ WriterAt(t, "closed", "ended") /\ Closed(Writer(t))
    /\ DropGuard(Writer(t))
    /\ UNCHANGED <<reader, senders, typed, userVars, kernelVars>>

-----------------------------------------------------------------------------
(***************************************************************************)
(* The child and its descendants (outside the library).                    *)
(***************************************************************************)

ChildForks(t) ==
    /\ "child" \in slaves[t] /\ user[t] = "running"
    /\ slaves' = [slaves EXCEPT ![t] = @ \union {"grandchild"}]
    /\ UNCHANGED <<lockVars, userVars, threadVars,
                   device, masters, free, revoking, hungUp, room, nonblock, refused>>

Exits(t, process) ==
    /\ process \in slaves[t]
    /\ slaves' = [slaves EXCEPT ![t] = @ \ {process}]
    /\ UNCHANGED <<lockVars, userVars, threadVars,
                   device, masters, free, revoking, hungUp, room, nonblock, refused>>

(* Input is read, which makes room for a write that waits for it. *)
AppReads(t) ==
    /\ slaves[t] \ {"parent"} # {} /\ ~room[t]
    /\ room' = [room EXCEPT ![t] = TRUE]
    /\ Wake(t)
    /\ UNCHANGED <<lockVars, userVars, senders, typed,
                   device, masters, slaves, free, revoking, hungUp, nonblock, refused>>

-----------------------------------------------------------------------------
UserStep(t) ==
    \/ OpenPty(t) \/ OpenFails(t) \/ CloneReader(t) \/ TakeWriter(t)
    \/ DupWriter(t) \/ DupWriterFails(t) \/ StartWriter(t) \/ StartReader(t)
    \/ SpawnChild(t) \/ Spawned(t) \/ SpawnFails(t) \/ CloseNext(t) \/ FailSpawn(t)
    \/ StopChild(t) \/ UnblockTeardown(t) \/ LockToClose(t) \/ Dropped(t)
    \/ Revoke(User(t))

ReaderStep(t) ==
    \/ ReplyWritten(t) \/ ReplySleeps(t) \/ ReadEnds(t)
    \/ ReaderLocks(t) \/ ReaderCloses(t) \/ Revoke(Reader(t)) \/ ReaderEnds(t)

WriterStep(t) ==
    \/ Write(t) \/ WriteSleeps(t) \/ WriteFails(t) \/ ReceiveEnds(t)
    \/ WriterLocks(t) \/ WriterCloses(t) \/ Revoke(Writer(t)) \/ WriterEnds(t)

Next ==
    \E t \in Terms :
         \/ Spawn(t) \/ UserStep(t) \/ Drop(t)
         \/ ReplyInline(t) \/ ReadAgain(t) \/ ReaderStep(t)
         \/ Receive(t) \/ WriterStep(t)
         \/ ChildForks(t) \/ Exits(t, "child") \/ Exits(t, "grandchild") \/ AppReads(t)

(* Threads are scheduled, and a call of the kernel that can end ends. Nothing
   is asked of the application, nor that a terminal is spawned or dropped. *)
Fairness ==
    \A t \in Terms : WF_vars(UserStep(t)) /\ WF_vars(ReaderStep(t)) /\ WF_vars(WriterStep(t))

Spec == Init /\ [][Next]_vars /\ Fairness

-----------------------------------------------------------------------------
(***************************************************************************)
(* Properties.                                                             *)
(***************************************************************************)

(* No terminal is hung up by the close of another one's master: whichever
   thread closes last, no device is opened between the moment it is put back
   and the moment it is revoked (PTY_LIFECYCLE, MasterDup, Opening). *)
NobodyIsRevoked == \A t \in Terms : ~hungUp[t]

(* A teardown that the kernel refused what it needs: fcntl, so that a write of
   this terminal may wait; or the slave, where the reader thread writes the
   replies and sleeps with the cell locked.  Nothing was written to a terminal
   that was not typed at, and so nothing waits. *)
Hindered(t) ==
    typed[t] > 0 /\ ("fcntl" \in refused[t] \/ ("slave" \in refused[t] /\ writer[t] = "none"))

(* Every spawn returns, also one that fails half way and closes what it opened
   while it holds the lock, and one that finds no device, whatever other
   terminals' teardowns and applications do (pty_lifecycle_guard).  Every drop
   returns, also with the input queue full, a writer thread asleep in its write,
   a child that could not be stopped, or a reader thread asleep in an inline reply
   with the cell locked (unblock_teardown).  This needs, of all teardowns, that
   fcntl is not refused, and that the slave is not where replies are inline: the
   teardown that is hindered may wait under the lock, and everyone with it.  With a
   writer thread, a slave that cannot be opened makes nobody wait. *)
CallsEnd ==
    \A t \in Terms :
        /\ user[t] = "opening" ~> user[t] \in {"running", "failed"} \/ \E u \in Terms : Hindered(u)
        /\ user[t] = "stopping" ~> user[t] = "dropped" \/ \E u \in Terms : Hindered(u)

Released(t) == masters[t] = {} /\ reader[t] \in {"none", "ended"} /\ writer[t] \in {"none", "ended"}

(* A write that nothing woke, and the duplicate that its thread keeps. *)
LeftAsleep(t) ==
    "slave" \in refused[t] /\ writer[t] = "asleep" /\ masters[t] = {"writer"} /\ reader[t] = "ended"

(* Once a terminal is gone and nothing holds its slave side for good, every
   descriptor of its master is closed and its threads are over: neither a
   failed spawn nor a drop leaks a device.  Where a teardown could not open the
   slave, a writer thread asleep by then keeps its duplicate, and nothing else
   is left (unblock_teardown); where one is hindered, anything may be. *)
EverythingIsReleased ==
    \A t \in Terms :
        <>[](user[t] \in {"failed", "dropped"} /\ slaves[t] = {}) /\ [](\A u \in Terms : ~Hindered(u))
            => <>[](Released(t) \/ LeftAsleep(t))
=============================================================================
