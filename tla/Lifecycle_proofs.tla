--------------------------- MODULE Lifecycle_proofs ---------------------------
(***************************************************************************)
(* No terminal is revoked by the close of another one's master, for any    *)
(* number of terminals, devices and attempts, and whatever is typed.       *)
(***************************************************************************)
EXTENDS Lifecycle, SequenceTheorems, TLAPS

-----------------------------------------------------------------------------
(***************************************************************************)
(* The invariant.                                                          *)
(***************************************************************************)

UserPlaces == {
    "unborn", "opening", "cloning", "taking", "duplicating", "starting", "attaching", "forking", "spawned",
    "running", "failing", "failed", "stopping", "unblocking", "locking", "closing", "dropped"}
ReaderPlaces == {"none", "reading", "replying", "asleep", "locking", "closing", "closed", "ended"}
WriterPlaces == {"none", "receiving", "writing", "asleep", "locking", "closing", "closed", "ended"}

ToClose == {"slave", "master", "cell", "reader", "writer"}

(* That the devices handed out are devices is not needed: what is closed or
   opened under NoDevice revokes nothing. *)
Types ==
    /\ lock \in Threads \union {Nobody}
    /\ holds \in [Threads -> BOOLEAN]
    /\ user \in [Terms -> UserPlaces] /\ reader \in [Terms -> ReaderPlaces] /\ writer \in [Terms -> WriterPlaces]
    /\ toClose \in [Terms -> Seq(ToClose)]
    /\ device \in [Terms -> Devices \union {NoDevice}]
    /\ free \subseteq Devices \union {NoDevice}
    /\ revoking \in [Threads -> Devices \union {NoDevice}]
    /\ hungUp \in [Terms -> BOOLEAN]

(* Where a terminal's thread has the lock. *)
UserHolds(t) ==
    user[t] \in {"cloning", "taking", "duplicating", "starting", "attaching", "forking", "spawned",
                 "failing", "closing"}
ReaderHolds(t) == reader[t] \in {"closing", "closed"}
WriterHolds(t) == writer[t] \in {"closing", "closed"}

(* The mark of each thread says who has the lock, and whoever is inside has it. *)
LockInv ==
    /\ \A th \in Threads : holds[th] <=> lock = th
    /\ \A t \in Terms : /\ UserHolds(t) => lock = User(t)
                        /\ ReaderHolds(t) => lock = Reader(t)
                        /\ WriterHolds(t) => lock = Writer(t)

(* A device is free or of one terminal. *)
DeviceInv ==
    \A t \in Terms : device[t] # NoDevice =>
        /\ device[t] \notin free
        /\ \A u \in Terms : u # t => device[u] # device[t]

(* A close that has yet to revoke is inside the lock, at a place that no
   thread leaves or opens a device from before it has, and its device is
   nobody's. *)
RevokeInv ==
    /\ \A th \in Threads : revoking[th] # NoDevice =>
         /\ lock = th
         /\ \A t \in Terms : device[t] # revoking[th]
    /\ \A t \in Terms :
         /\ revoking[User(t)] # NoDevice => user[t] \in {"failing", "closing"}
         /\ revoking[Reader(t)] # NoDevice => reader[t] = "closed"
         /\ revoking[Writer(t)] # NoDevice => writer[t] = "closed"

Inv == Types /\ LockInv /\ DeviceInv /\ RevokeInv /\ NobodyIsRevoked

(* A terminal has three threads, none of which is nobody. *)
LEMMA ThreadsOf ==
    \A t \in Terms : /\ {User(t), Reader(t), Writer(t)} \subseteq Threads
                     /\ Nobody \notin {User(t), Reader(t), Writer(t)}
BY LifecycleAssumption DEF Threads, User, Reader, Writer

(* A thread is of one terminal, and one of its three. *)
LEMMA ThreadsDiffer ==
    \A t, u \in Terms : /\ User(t) # Reader(u) /\ User(t) # Writer(u) /\ Reader(t) # Writer(u)
                        /\ t # u => User(t) # User(u) /\ Reader(t) # Reader(u) /\ Writer(t) # Writer(u)
BY DEF User, Reader, Writer

(* The invariant holds at the start. *)
LEMMA InvInit == Init => Inv
<1> SUFFICES ASSUME Init PROVE Inv
    OBVIOUS
<1>1. Types
  <2>1. <<>> \in Seq(ToClose)
      OBVIOUS
  <2>2. toClose \in [Terms -> Seq(ToClose)]
      BY <2>1 DEF Init
  <2> QED
      BY <2>2 DEF Init, Types, UserPlaces, ReaderPlaces, WriterPlaces
<1>2. LockInv
    BY LifecycleAssumption DEF Init, LockInv, Threads, UserHolds, ReaderHolds, WriterHolds
<1>3. DeviceInv /\ NobodyIsRevoked
    BY DEF Init, DeviceInv, NobodyIsRevoked
<1>4. RevokeInv
    BY ThreadsOf DEF Init, RevokeInv
<1> QED
    BY <1>1, <1>2, <1>3, <1>4 DEF Inv

-----------------------------------------------------------------------------
(***************************************************************************)
(* The kinds of step.                                                      *)
(***************************************************************************)

deviceVars == <<device, free, revoking, hungUp>>

(* Where each thread is, told by what the invariant says of the place. *)
SamePlaces ==
    \A t \in Terms : /\ UserHolds(t)' = UserHolds(t)
                     /\ ReaderHolds(t)' = ReaderHolds(t)
                     /\ WriterHolds(t)' = WriterHolds(t)
                     /\ user[t] \in {"failing", "closing"} => user'[t] \in {"failing", "closing"}
                     /\ reader[t] = "closed" => reader'[t] = "closed"
                     /\ writer[t] = "closed" => writer'[t] = "closed"

PlaceTypes ==
    /\ user \in [Terms -> UserPlaces] /\ reader \in [Terms -> ReaderPlaces] /\ writer \in [Terms -> WriterPlaces]
    /\ toClose \in [Terms -> Seq(ToClose)]

(* A step that neither enters nor leaves the lock, and leaves the devices. *)
LEMMA Elsewhere ==
    ASSUME Inv, UNCHANGED <<lockVars, deviceVars>>, PlaceTypes', SamePlaces
    PROVE  Inv'
BY DEF Inv, Types, LockInv, DeviceInv, RevokeInv, NobodyIsRevoked, lockVars, deviceVars, PlaceTypes, SamePlaces

(* A thread enters the lock, or has it, and leaves the devices. *)
LEMMA Enters ==
    ASSUME Inv, NEW th \in Threads, TakeGuard(th), UNCHANGED deviceVars, PlaceTypes',
           \A t \in Terms : /\ UserHolds(t)' => UserHolds(t) \/ th = User(t)
                            /\ ReaderHolds(t)' => ReaderHolds(t) \/ th = Reader(t)
                            /\ WriterHolds(t)' => WriterHolds(t) \/ th = Writer(t)
                            /\ user[t] \in {"failing", "closing"} => user'[t] \in {"failing", "closing"}
                            /\ reader[t] = "closed" => reader'[t] = "closed"
                            /\ writer[t] = "closed" => writer'[t] = "closed"
    PROVE  Inv'
<1>1. Types'
    BY DEF Inv, Types, TakeGuard, deviceVars, PlaceTypes
<1>2. lock = Nobody \/ lock = th
    BY DEF Inv, LockInv, TakeGuard, CanGuard
<1>3. \A x \in Threads : lock = x => lock' = x
    BY <1>2, LifecycleAssumption DEF TakeGuard, Threads
<1>4. LockInv'
  <2>1. \A x \in Threads : holds'[x] <=> lock' = x
      BY <1>2, LifecycleAssumption DEF Inv, Types, LockInv, TakeGuard, Threads
  <2> QED
      BY <2>1, <1>3, ThreadsOf DEF Inv, LockInv, TakeGuard
<1>5. DeviceInv' /\ NobodyIsRevoked'
    BY DEF Inv, DeviceInv, NobodyIsRevoked, deviceVars
<1>6. RevokeInv'
    BY <1>3 DEF Inv, RevokeInv, deviceVars
<1> QED
    BY <1>1, <1>4, <1>5, <1>6 DEF Inv

(* The thread that has the lock leaves it, with nothing left to revoke, and
   leaves the devices. *)
LEMMA Leaves ==
    ASSUME Inv, NEW th \in Threads, lock = th, DropGuard(th), Closed(th), UNCHANGED deviceVars, PlaceTypes',
           \A t \in Terms : /\ UserHolds(t)' => UserHolds(t) /\ th # User(t)
                            /\ ReaderHolds(t)' => ReaderHolds(t) /\ th # Reader(t)
                            /\ WriterHolds(t)' => WriterHolds(t) /\ th # Writer(t)
    PROVE  Inv'
<1>1. Types'
    BY DEF Inv, Types, DropGuard, deviceVars, PlaceTypes
<1>2. LockInv'
  <2>1. \A x \in Threads : holds'[x] <=> lock' = x
      BY LifecycleAssumption DEF Inv, Types, LockInv, DropGuard, Threads
  <2> QED
      BY <2>1 DEF Inv, LockInv
<1>3. DeviceInv' /\ NobodyIsRevoked'
    BY DEF Inv, DeviceInv, NobodyIsRevoked, deviceVars
<1>4. \A x \in Threads : revoking[x] = NoDevice
    BY DEF Inv, RevokeInv, Closed
<1>5. RevokeInv'
    BY <1>4, ThreadsOf DEF RevokeInv, deviceVars
<1> QED
    BY <1>1, <1>2, <1>3, <1>5 DEF Inv

(* The thread that has the lock closes a descriptor, the last one or not. *)
LEMMA Closes ==
    ASSUME Inv, NEW th \in Threads, NEW t \in Terms, NEW fd, lock = th, CloseMaster(th, t, fd),
           UNCHANGED <<lockVars, hungUp>>, PlaceTypes',
           \A u \in Terms : /\ UserHolds(u)' => UserHolds(u)
                            /\ ReaderHolds(u)' => ReaderHolds(u)
                            /\ WriterHolds(u)' => WriterHolds(u)
                            /\ user[u] \in {"failing", "closing"} \/ th = User(u) => user'[u] \in {"failing", "closing"}
                            /\ reader[u] = "closed" \/ th = Reader(u) => reader'[u] = "closed"
                            /\ writer[u] = "closed" \/ th = Writer(u) => writer'[u] = "closed"
    PROVE  Inv'
<1>1. Types'
  <2>1. /\ lock' \in Threads \union {Nobody} /\ holds' \in [Threads -> BOOLEAN]
        /\ hungUp' \in [Terms -> BOOLEAN]
      BY DEF Inv, Types, lockVars
  <2>2. device[t] \in Devices \union {NoDevice}
      BY DEF Inv, Types
  <2>3. /\ device' \in [Terms -> Devices \union {NoDevice}]
        /\ free' \subseteq Devices \union {NoDevice}
        /\ revoking' \in [Threads -> Devices \union {NoDevice}]
    <3>1. CASE UNCHANGED <<free, revoking, device>>
        BY <3>1 DEF Inv, Types
    <3>2. CASE /\ free' = free \union {device[t]}
               /\ revoking' = [revoking EXCEPT ![th] = device[t]]
               /\ device' = [device EXCEPT ![t] = NoDevice]
        BY <2>2, <3>2 DEF Inv, Types
    <3> QED
        BY <3>1, <3>2 DEF CloseMaster
  <2> QED
      BY <2>1, <2>3 DEF Types, PlaceTypes
<1>2. LockInv' /\ NobodyIsRevoked'
    BY DEF Inv, LockInv, NobodyIsRevoked, lockVars
<1>3. CASE UNCHANGED <<free, revoking, device>>
    BY <1>1, <1>2, <1>3 DEF Inv, DeviceInv, RevokeInv, lockVars
<1>4. CASE /\ free' = free \union {device[t]}
           /\ revoking' = [revoking EXCEPT ![th] = device[t]]
           /\ device' = [device EXCEPT ![t] = NoDevice]
  <2>1. \A u \in Terms : device'[u] = IF u = t THEN NoDevice ELSE device[u]
      BY <1>4 DEF Inv, Types
  <2>2. \A x \in Threads : revoking'[x] = IF x = th THEN device[t] ELSE revoking[x]
      BY <1>4 DEF Inv, Types
  <2>3. DeviceInv'
      BY <1>4, <2>1 DEF Inv, DeviceInv
  <2>4. ASSUME NEW x \in Threads, revoking'[x] # NoDevice
        PROVE  lock' = x /\ \A u \in Terms : device'[u] # revoking'[x]
    <3>1. CASE x = th
        BY <3>1, <2>1, <2>2, <2>4 DEF Inv, DeviceInv, lockVars
    <3>2. CASE x # th
        BY <3>2, <2>2, <2>4 DEF Inv, RevokeInv
    <3> QED
        BY <3>1, <3>2
  <2>5. RevokeInv'
      BY <2>2, <2>4, ThreadsOf DEF Inv, RevokeInv
  <2> QED
      BY <1>1, <1>2, <2>3, <2>5 DEF Inv
<1> QED
    BY <1>3, <1>4 DEF CloseMaster

(* The revoke finds the device with nobody. *)
LEMMA Revokes ==
    ASSUME Inv, NEW th \in Threads, Revoke(th)
    PROVE  Inv'
<1>1. \A t \in Terms : hungUp'[t] = FALSE
    BY DEF Inv, Types, RevokeInv, NobodyIsRevoked, Revoke
<1>2. Types'
    BY DEF Inv, Types, Revoke, lockVars, userVars, threadVars
<1>3. \A x \in Threads : revoking'[x] = IF x = th THEN NoDevice ELSE revoking[x]
    BY DEF Inv, Types, Revoke
<1>4. LockInv' /\ DeviceInv'
    BY DEF Inv, LockInv, DeviceInv, Revoke, lockVars, userVars, threadVars, UserHolds, ReaderHolds, WriterHolds
<1>5. RevokeInv'
    BY <1>3, ThreadsOf DEF Inv, RevokeInv, Revoke, lockVars, userVars, threadVars
<1> QED
    BY <1>1, <1>2, <1>4, <1>5 DEF Inv, NobodyIsRevoked

-----------------------------------------------------------------------------
(***************************************************************************)
(* The steps.                                                              *)
(***************************************************************************)

(* The steps of spawn that keep the lock as it is. *)
LEMMA SpawnKeeps ==
    ASSUME Inv, NEW t \in Terms,
           \/ Spawn(t) \/ OpenFails(t) \/ CloneReader(t) \/ TakeWriter(t) \/ DupWriter(t) \/ DupWriterFails(t)
           \/ StartWriter(t) \/ StartReader(t) \/ SpawnChild(t)
    PROVE  Inv'
<1>0. UserHolds(t) => ~ReaderHolds(t) /\ ~WriterHolds(t)
    BY ThreadsDiffer DEF Inv, LockInv
<1>1. CASE Spawn(t)
  <2>1. PlaceTypes'
      BY <1>1 DEF Inv, Types, PlaceTypes, UserPlaces, ReaderPlaces, WriterPlaces, Spawn, lockVars, userVars, threadVars, At
  <2>2. SamePlaces
      BY <1>1, <1>0 DEF Inv, Types, SamePlaces, Spawn, UserHolds, ReaderHolds, WriterHolds, userVars, threadVars, At
  <2> QED
      BY <1>1, <2>1, <2>2, Elsewhere DEF Spawn, lockVars, deviceVars, kernelVars
<1>2. CASE OpenFails(t)
  <2>1. PlaceTypes'
      BY <1>2 DEF Inv, Types, PlaceTypes, UserPlaces, ReaderPlaces, WriterPlaces, OpenFails, lockVars, userVars, threadVars
  <2>2. SamePlaces
      BY <1>2, <1>0 DEF Inv, Types, SamePlaces, OpenFails, UserHolds, ReaderHolds, WriterHolds, userVars, threadVars
  <2> QED
      BY <1>2, <2>1, <2>2, Elsewhere DEF OpenFails, lockVars, deviceVars, kernelVars
<1>3. CASE CloneReader(t)
  <2>1. PlaceTypes'
      BY <1>3 DEF Inv, Types, PlaceTypes, UserPlaces, ReaderPlaces, WriterPlaces, CloneReader, lockVars, userVars, threadVars, At
  <2>2. SamePlaces
      BY <1>3, <1>0 DEF Inv, Types, SamePlaces, CloneReader, UserHolds, ReaderHolds, WriterHolds, userVars, threadVars, At
  <2> QED
      BY <1>3, <2>1, <2>2, Elsewhere DEF CloneReader, lockVars, deviceVars, kernelVars
<1>4. CASE TakeWriter(t)
  <2>1. PlaceTypes'
      BY <1>4 DEF Inv, Types, PlaceTypes, UserPlaces, ReaderPlaces, WriterPlaces, TakeWriter, lockVars, userVars, threadVars, At
  <2>2. SamePlaces
      BY <1>4, <1>0 DEF Inv, Types, SamePlaces, TakeWriter, UserHolds, ReaderHolds, WriterHolds, userVars, threadVars, At
  <2> QED
      BY <1>4, <2>1, <2>2, Elsewhere DEF TakeWriter, lockVars, deviceVars, kernelVars
<1>5. CASE DupWriter(t)
  <2>1. PlaceTypes'
      BY <1>5 DEF Inv, Types, PlaceTypes, UserPlaces, ReaderPlaces, WriterPlaces, DupWriter, lockVars, userVars, threadVars, At
  <2>2. SamePlaces
      BY <1>5, <1>0 DEF Inv, Types, SamePlaces, DupWriter, UserHolds, ReaderHolds, WriterHolds, userVars, threadVars, At
  <2> QED
      BY <1>5, <2>1, <2>2, Elsewhere DEF DupWriter, lockVars, deviceVars, kernelVars
<1>6. CASE DupWriterFails(t)
  <2>1. PlaceTypes'
      BY <1>6 DEF Inv, Types, PlaceTypes, UserPlaces, ReaderPlaces, WriterPlaces, DupWriterFails, lockVars, userVars, threadVars, At
  <2>2. SamePlaces
      BY <1>6, <1>0 DEF Inv, Types, SamePlaces, DupWriterFails, UserHolds, ReaderHolds, WriterHolds, userVars, threadVars, At
  <2> QED
      BY <1>6, <2>1, <2>2, Elsewhere DEF DupWriterFails, lockVars, deviceVars, kernelVars
<1>7. CASE StartWriter(t)
  <2>1. PlaceTypes'
      BY <1>7 DEF Inv, Types, PlaceTypes, UserPlaces, ReaderPlaces, WriterPlaces, StartWriter, lockVars, userVars, threadVars, At
  <2>2. SamePlaces
      BY <1>7, <1>0 DEF Inv, Types, SamePlaces, StartWriter, UserHolds, ReaderHolds, WriterHolds, userVars, threadVars, At
  <2> QED
      BY <1>7, <2>1, <2>2, Elsewhere DEF StartWriter, lockVars, deviceVars, kernelVars
<1>8. CASE StartReader(t)
  <2>1. PlaceTypes'
      BY <1>8 DEF Inv, Types, PlaceTypes, UserPlaces, ReaderPlaces, WriterPlaces, StartReader, lockVars, userVars, threadVars, At
  <2>2. SamePlaces
      BY <1>8, <1>0 DEF Inv, Types, SamePlaces, StartReader, UserHolds, ReaderHolds, WriterHolds, userVars, threadVars, At
  <2> QED
      BY <1>8, <2>1, <2>2, Elsewhere DEF StartReader, lockVars, deviceVars, kernelVars
<1>9. CASE SpawnChild(t)
  <2>1. PlaceTypes'
      BY <1>9 DEF Inv, Types, PlaceTypes, UserPlaces, ReaderPlaces, WriterPlaces, SpawnChild, lockVars, userVars, threadVars, At
  <2>2. SamePlaces
      BY <1>9, <1>0 DEF Inv, Types, SamePlaces, SpawnChild, UserHolds, ReaderHolds, WriterHolds, userVars, threadVars, At
  <2> QED
      BY <1>9, <2>1, <2>2, Elsewhere DEF SpawnChild, lockVars, deviceVars, kernelVars
<1> QED
    BY <1>1, <1>2, <1>3, <1>4, <1>5, <1>6, <1>7, <1>8, <1>9
(* A drop, up to where it waits for the lock. *)
LEMMA DropKeeps ==
    ASSUME Inv, NEW t \in Terms,
           \/ Drop(t) \/ StopChild(t) \/ UnblockTeardown(t)
    PROVE  Inv'
<1>1. CASE Drop(t)
  <2>1. PlaceTypes'
      BY <1>1 DEF Inv, Types, PlaceTypes, UserPlaces, ReaderPlaces, WriterPlaces, Drop, userVars, threadVars, At
  <2>2. SamePlaces
      BY <1>1 DEF Inv, Types, SamePlaces, Drop, UserHolds, ReaderHolds, WriterHolds, userVars, threadVars, At
  <2> QED
      BY <1>1, <2>1, <2>2, Elsewhere DEF Drop, lockVars, deviceVars, kernelVars
<1>2. CASE StopChild(t)
  <2>1. PlaceTypes'
      BY <1>2 DEF Inv, Types, PlaceTypes, UserPlaces, ReaderPlaces, WriterPlaces, StopChild, userVars, threadVars, At
  <2>2. SamePlaces
      BY <1>2 DEF Inv, Types, SamePlaces, StopChild, UserHolds, ReaderHolds, WriterHolds, userVars, threadVars, At
  <2> QED
      BY <1>2, <2>1, <2>2, Elsewhere DEF StopChild, lockVars, deviceVars, kernelVars
<1>3. CASE UnblockTeardown(t)
  <2>1. PlaceTypes'
      BY <1>3 DEF Inv, Types, PlaceTypes, UserPlaces, ReaderPlaces, WriterPlaces, UnblockTeardown, userVars, threadVars, At, Wake
  <2>2. SamePlaces
      BY <1>3 DEF Inv, Types, SamePlaces, UnblockTeardown, UserHolds, ReaderHolds, WriterHolds, userVars, threadVars, At, Wake
  <2> QED
      BY <1>3, <2>1, <2>2, Elsewhere DEF UnblockTeardown, lockVars, deviceVars, kernelVars
<1> QED
    BY <1>1, <1>2, <1>3

(* The two threads, while they serve their terminal. *)
LEMMA ThreadKeeps ==
    ASSUME Inv, NEW t \in Terms,
           \/ ReplyInline(t) \/ ReplyWritten(t) \/ ReplySleeps(t) \/ ReadEnds(t) \/ ReadAgain(t)
           \/ Receive(t) \/ Write(t) \/ WriteSleeps(t) \/ WriteFails(t) \/ ReceiveEnds(t)
    PROVE  Inv'
<1>1. CASE ReplyInline(t)
  <2>1. PlaceTypes'
      BY <1>1 DEF Inv, Types, PlaceTypes, UserPlaces, ReaderPlaces, WriterPlaces, ReplyInline, userVars, threadVars, ReaderAt
  <2>2. SamePlaces
      BY <1>1 DEF Inv, Types, SamePlaces, ReplyInline, UserHolds, ReaderHolds, WriterHolds, userVars, threadVars, ReaderAt
  <2> QED
      BY <1>1, <2>1, <2>2, Elsewhere DEF ReplyInline, lockVars, deviceVars, kernelVars
<1>2. CASE ReplyWritten(t)
  <2>1. PlaceTypes'
      BY <1>2 DEF Inv, Types, PlaceTypes, UserPlaces, ReaderPlaces, WriterPlaces, ReplyWritten, userVars, threadVars, ReaderAt
  <2>2. SamePlaces
      BY <1>2 DEF Inv, Types, SamePlaces, ReplyWritten, UserHolds, ReaderHolds, WriterHolds, userVars, threadVars, ReaderAt
  <2> QED
      BY <1>2, <2>1, <2>2, Elsewhere DEF ReplyWritten, lockVars, deviceVars, kernelVars
<1>3. CASE ReplySleeps(t)
  <2>1. PlaceTypes'
      BY <1>3 DEF Inv, Types, PlaceTypes, UserPlaces, ReaderPlaces, WriterPlaces, ReplySleeps, userVars, threadVars, ReaderAt
  <2>2. SamePlaces
      BY <1>3 DEF Inv, Types, SamePlaces, ReplySleeps, UserHolds, ReaderHolds, WriterHolds, userVars, threadVars, ReaderAt
  <2> QED
      BY <1>3, <2>1, <2>2, Elsewhere DEF ReplySleeps, lockVars, deviceVars, kernelVars
<1>4. CASE ReadEnds(t)
  <2>1. PlaceTypes'
      BY <1>4 DEF Inv, Types, PlaceTypes, UserPlaces, ReaderPlaces, WriterPlaces, ReadEnds, userVars, threadVars, ReaderAt
  <2>2. SamePlaces
      BY <1>4 DEF Inv, Types, SamePlaces, ReadEnds, UserHolds, ReaderHolds, WriterHolds, userVars, threadVars, ReaderAt
  <2> QED
      BY <1>4, <2>1, <2>2, Elsewhere DEF ReadEnds, lockVars, deviceVars, kernelVars
<1>5. CASE ReadAgain(t)
  <2>1. PlaceTypes'
      BY <1>5 DEF Inv, Types, PlaceTypes, UserPlaces, ReaderPlaces, WriterPlaces, ReadAgain, userVars, threadVars, ReaderAt
  <2>2. SamePlaces
      BY <1>5 DEF Inv, Types, SamePlaces, ReadAgain, UserHolds, ReaderHolds, WriterHolds, userVars, threadVars, ReaderAt
  <2> QED
      BY <1>5, <2>1, <2>2, Elsewhere DEF ReadAgain, lockVars, deviceVars, kernelVars
<1>6. CASE Receive(t)
  <2>1. PlaceTypes'
      BY <1>6 DEF Inv, Types, PlaceTypes, UserPlaces, ReaderPlaces, WriterPlaces, Receive, userVars, threadVars, WriterAt
  <2>2. SamePlaces
      BY <1>6 DEF Inv, Types, SamePlaces, Receive, UserHolds, ReaderHolds, WriterHolds, userVars, threadVars, WriterAt
  <2> QED
      BY <1>6, <2>1, <2>2, Elsewhere DEF Receive, lockVars, deviceVars, kernelVars
<1>7. CASE Write(t)
  <2>1. PlaceTypes'
      BY <1>7 DEF Inv, Types, PlaceTypes, UserPlaces, ReaderPlaces, WriterPlaces, Write, userVars, threadVars
  <2>2. SamePlaces
      BY <1>7 DEF Inv, Types, SamePlaces, Write, UserHolds, ReaderHolds, WriterHolds, userVars, threadVars
  <2> QED
      BY <1>7, <2>1, <2>2, Elsewhere DEF Write, lockVars, deviceVars, kernelVars
<1>8. CASE WriteSleeps(t)
  <2>1. PlaceTypes'
      BY <1>8 DEF Inv, Types, PlaceTypes, UserPlaces, ReaderPlaces, WriterPlaces, WriteSleeps, userVars, threadVars, WriterAt
  <2>2. SamePlaces
      BY <1>8 DEF Inv, Types, SamePlaces, WriteSleeps, UserHolds, ReaderHolds, WriterHolds, userVars, threadVars, WriterAt
  <2> QED
      BY <1>8, <2>1, <2>2, Elsewhere DEF WriteSleeps, lockVars, deviceVars, kernelVars
<1>9. CASE WriteFails(t)
  <2>1. PlaceTypes'
      BY <1>9 DEF Inv, Types, PlaceTypes, UserPlaces, ReaderPlaces, WriterPlaces, WriteFails, userVars, threadVars, WriterAt
  <2>2. SamePlaces
      BY <1>9 DEF Inv, Types, SamePlaces, WriteFails, UserHolds, ReaderHolds, WriterHolds, userVars, threadVars, WriterAt
  <2> QED
      BY <1>9, <2>1, <2>2, Elsewhere DEF WriteFails, lockVars, deviceVars, kernelVars
<1>10. CASE ReceiveEnds(t)
  <2>1. PlaceTypes'
      BY <1>10 DEF Inv, Types, PlaceTypes, UserPlaces, ReaderPlaces, WriterPlaces, ReceiveEnds, userVars, threadVars, WriterAt
  <2>2. SamePlaces
      BY <1>10 DEF Inv, Types, SamePlaces, ReceiveEnds, UserHolds, ReaderHolds, WriterHolds, userVars, threadVars, WriterAt
  <2> QED
      BY <1>10, <2>1, <2>2, Elsewhere DEF ReceiveEnds, lockVars, deviceVars, kernelVars
<1> QED
    BY <1>1, <1>2, <1>3, <1>4, <1>5, <1>6, <1>7, <1>8, <1>9, <1>10

(* The application. *)
LEMMA ChildKeeps ==
    ASSUME Inv, NEW t \in Terms,
           \/ ChildForks(t) \/ Exits(t, "child") \/ Exits(t, "grandchild") \/ AppReads(t)
    PROVE  Inv'
<1>1. CASE ChildForks(t)
  <2>1. PlaceTypes'
      BY <1>1 DEF Inv, Types, PlaceTypes, UserPlaces, ReaderPlaces, WriterPlaces, ChildForks, userVars, threadVars
  <2>2. SamePlaces
      BY <1>1 DEF Inv, Types, SamePlaces, ChildForks, UserHolds, ReaderHolds, WriterHolds, userVars, threadVars
  <2> QED
      BY <1>1, <2>1, <2>2, Elsewhere DEF ChildForks, lockVars, deviceVars, kernelVars
<1>2. CASE Exits(t, "child")
  <2>1. PlaceTypes'
      BY <1>2 DEF Inv, Types, PlaceTypes, UserPlaces, ReaderPlaces, WriterPlaces, Exits, userVars, threadVars
  <2>2. SamePlaces
      BY <1>2 DEF Inv, Types, SamePlaces, Exits, UserHolds, ReaderHolds, WriterHolds, userVars, threadVars
  <2> QED
      BY <1>2, <2>1, <2>2, Elsewhere DEF Exits, lockVars, deviceVars, kernelVars
<1>3. CASE Exits(t, "grandchild")
  <2>1. PlaceTypes'
      BY <1>3 DEF Inv, Types, PlaceTypes, UserPlaces, ReaderPlaces, WriterPlaces, Exits, userVars, threadVars
  <2>2. SamePlaces
      BY <1>3 DEF Inv, Types, SamePlaces, Exits, UserHolds, ReaderHolds, WriterHolds, userVars, threadVars
  <2> QED
      BY <1>3, <2>1, <2>2, Elsewhere DEF Exits, lockVars, deviceVars, kernelVars
<1>4. CASE AppReads(t)
  <2>1. PlaceTypes'
      BY <1>4 DEF Inv, Types, PlaceTypes, UserPlaces, ReaderPlaces, WriterPlaces, AppReads, userVars, threadVars, Wake
  <2>2. SamePlaces
      BY <1>4 DEF Inv, Types, SamePlaces, AppReads, UserHolds, ReaderHolds, WriterHolds, userVars, threadVars, Wake
  <2> QED
      BY <1>4, <2>1, <2>2, Elsewhere DEF AppReads, lockVars, deviceVars, kernelVars
<1> QED
    BY <1>1, <1>2, <1>3, <1>4

(* A spawn that fails part way keeps the lock, and knows what to close. *)
LEMMA SpawnFailsKeeps ==
    ASSUME Inv, NEW t \in Terms, SpawnFails(t)
    PROVE  Inv'
<1>1. OpenedBy(t) \in Seq(ToClose)
  <2>1. <<"slave", "master">> \in Seq(ToClose)
      BY DEF ToClose
  <2>2. /\ <<>> \in Seq(ToClose) /\ <<"reader">> \in Seq(ToClose)
        /\ <<"writer", "reader", "cell">> \in Seq(ToClose)
        /\ <<"reader", "cell">> \in Seq(ToClose) /\ <<"cell">> \in Seq(ToClose)
      BY DEF ToClose
  <2>3. \A first \in Seq(ToClose) : first \o <<"slave", "master">> \in Seq(ToClose)
      BY <2>1, ConcatProperties
  <2> QED
      BY <2>2, <2>3 DEF SpawnFails, OpenedBy
<1>2. PlaceTypes'
    BY <1>1 DEF Inv, Types, PlaceTypes, UserPlaces, ReaderPlaces, WriterPlaces, SpawnFails
<1>3. SamePlaces
    BY DEF Inv, Types, SamePlaces, SpawnFails, UserHolds, ReaderHolds, WriterHolds
<1> QED
    BY <1>2, <1>3, Elsewhere DEF SpawnFails, lockVars, deviceVars, kernelVars

(* A thread waits for the lock and has it. *)
LEMMA LocksKeep ==
    ASSUME Inv, NEW t \in Terms,
           \/ ReaderLocks(t) \/ WriterLocks(t) \/ LockToClose(t)
    PROVE  Inv'
<1>1. CASE ReaderLocks(t)
  <2>1. PlaceTypes'
      BY <1>1 DEF Inv, Types, PlaceTypes, UserPlaces, ReaderPlaces, WriterPlaces, ReaderLocks, userVars, threadVars, ReaderAt
  <2>2. Reader(t) \in Threads
      BY ThreadsOf
  <2> QED
      BY <1>1, <2>1, <2>2, Enters
      DEF Inv, Types, ReaderLocks, UserHolds, ReaderHolds, WriterHolds, deviceVars, userVars, threadVars, kernelVars, ReaderAt
<1>2. CASE WriterLocks(t)
  <2>1. PlaceTypes'
      BY <1>2 DEF Inv, Types, PlaceTypes, UserPlaces, ReaderPlaces, WriterPlaces, WriterLocks, userVars, threadVars, WriterAt
  <2>2. Writer(t) \in Threads
      BY ThreadsOf
  <2> QED
      BY <1>2, <2>1, <2>2, Enters
      DEF Inv, Types, WriterLocks, UserHolds, ReaderHolds, WriterHolds, deviceVars, userVars, threadVars, kernelVars, WriterAt
<1>3. CASE LockToClose(t)
  <2>0. <<"cell", "master">> \in Seq(ToClose)
      BY DEF ToClose
  <2>1. PlaceTypes'
      BY <2>0, <1>3 DEF Inv, Types, PlaceTypes, UserPlaces, ReaderPlaces, WriterPlaces, LockToClose, userVars, threadVars, At
  <2>2. User(t) \in Threads
      BY ThreadsOf
  <2> QED
      BY <1>3, <2>1, <2>2, Enters
      DEF Inv, Types, LockToClose, UserHolds, ReaderHolds, WriterHolds, deviceVars, userVars, threadVars, kernelVars, At
<1> QED
    BY <1>1, <1>2, <1>3

(* The thread inside lets the lock go. *)
LEMMA UnlocksKeep ==
    ASSUME Inv, NEW t \in Terms,
           \/ Spawned(t) \/ FailSpawn(t) \/ Dropped(t) \/ ReaderEnds(t) \/ WriterEnds(t)
    PROVE  Inv'
<1>1. CASE Spawned(t)
  <2>1. PlaceTypes'
      BY <1>1 DEF Inv, Types, PlaceTypes, UserPlaces, ReaderPlaces, WriterPlaces, Spawned, userVars, threadVars, At
  <2>2. User(t) \in Threads /\ lock = User(t) /\ Closed(User(t))
      BY <1>1, ThreadsOf DEF Inv, LockInv, RevokeInv, Spawned, UserHolds, ReaderHolds, WriterHolds, Closed, At
  <2>3. \A u \in Terms : /\ UserHolds(u) => lock = User(u)
                         /\ ReaderHolds(u) => lock = Reader(u)
                         /\ WriterHolds(u) => lock = Writer(u)
      BY DEF Inv, LockInv
  <2>4. \A u \in Terms : /\ UserHolds(u)' => UserHolds(u) /\ User(t) # User(u)
                         /\ ReaderHolds(u)' => ReaderHolds(u) /\ User(t) # Reader(u)
                         /\ WriterHolds(u)' => WriterHolds(u) /\ User(t) # Writer(u)
      BY <1>1, <2>2, <2>3, ThreadsDiffer
      DEF Inv, Types, Spawned, UserHolds, ReaderHolds, WriterHolds, userVars, threadVars, At
  <2>5. DropGuard(User(t)) /\ UNCHANGED deviceVars
      BY <1>1 DEF Spawned, deviceVars, kernelVars
  <2> QED
      BY <2>1, <2>2, <2>4, <2>5, Leaves
<1>2. CASE FailSpawn(t)
  <2>1. PlaceTypes'
      BY <1>2 DEF Inv, Types, PlaceTypes, UserPlaces, ReaderPlaces, WriterPlaces, FailSpawn, userVars, threadVars, At
  <2>2. User(t) \in Threads /\ lock = User(t) /\ Closed(User(t))
      BY <1>2, ThreadsOf DEF Inv, LockInv, RevokeInv, FailSpawn, UserHolds, ReaderHolds, WriterHolds, Closed, At
  <2>3. \A u \in Terms : /\ UserHolds(u) => lock = User(u)
                         /\ ReaderHolds(u) => lock = Reader(u)
                         /\ WriterHolds(u) => lock = Writer(u)
      BY DEF Inv, LockInv
  <2>4. \A u \in Terms : /\ UserHolds(u)' => UserHolds(u) /\ User(t) # User(u)
                         /\ ReaderHolds(u)' => ReaderHolds(u) /\ User(t) # Reader(u)
                         /\ WriterHolds(u)' => WriterHolds(u) /\ User(t) # Writer(u)
      BY <1>2, <2>2, <2>3, ThreadsDiffer
      DEF Inv, Types, FailSpawn, UserHolds, ReaderHolds, WriterHolds, userVars, threadVars, At
  <2>5. DropGuard(User(t)) /\ UNCHANGED deviceVars
      BY <1>2 DEF FailSpawn, deviceVars, kernelVars
  <2> QED
      BY <2>1, <2>2, <2>4, <2>5, Leaves
<1>3. CASE Dropped(t)
  <2>1. PlaceTypes'
      BY <1>3 DEF Inv, Types, PlaceTypes, UserPlaces, ReaderPlaces, WriterPlaces, Dropped, userVars, threadVars, At
  <2>2. User(t) \in Threads /\ lock = User(t) /\ Closed(User(t))
      BY <1>3, ThreadsOf DEF Inv, LockInv, RevokeInv, Dropped, UserHolds, ReaderHolds, WriterHolds, Closed, At
  <2>3. \A u \in Terms : /\ UserHolds(u) => lock = User(u)
                         /\ ReaderHolds(u) => lock = Reader(u)
                         /\ WriterHolds(u) => lock = Writer(u)
      BY DEF Inv, LockInv
  <2>4. \A u \in Terms : /\ UserHolds(u)' => UserHolds(u) /\ User(t) # User(u)
                         /\ ReaderHolds(u)' => ReaderHolds(u) /\ User(t) # Reader(u)
                         /\ WriterHolds(u)' => WriterHolds(u) /\ User(t) # Writer(u)
      BY <1>3, <2>2, <2>3, ThreadsDiffer
      DEF Inv, Types, Dropped, UserHolds, ReaderHolds, WriterHolds, userVars, threadVars, At
  <2>5. DropGuard(User(t)) /\ UNCHANGED deviceVars
      BY <1>3 DEF Dropped, deviceVars, kernelVars
  <2> QED
      BY <2>1, <2>2, <2>4, <2>5, Leaves
<1>4. CASE ReaderEnds(t)
  <2>1. PlaceTypes'
      BY <1>4 DEF Inv, Types, PlaceTypes, UserPlaces, ReaderPlaces, WriterPlaces, ReaderEnds, userVars, threadVars, ReaderAt
  <2>2. Reader(t) \in Threads /\ lock = Reader(t) /\ Closed(Reader(t))
      BY <1>4, ThreadsOf DEF Inv, LockInv, RevokeInv, ReaderEnds, UserHolds, ReaderHolds, WriterHolds, Closed, ReaderAt
  <2>3. \A u \in Terms : /\ UserHolds(u) => lock = User(u)
                         /\ ReaderHolds(u) => lock = Reader(u)
                         /\ WriterHolds(u) => lock = Writer(u)
      BY DEF Inv, LockInv
  <2>4. \A u \in Terms : /\ UserHolds(u)' => UserHolds(u) /\ Reader(t) # User(u)
                         /\ ReaderHolds(u)' => ReaderHolds(u) /\ Reader(t) # Reader(u)
                         /\ WriterHolds(u)' => WriterHolds(u) /\ Reader(t) # Writer(u)
      BY <1>4, <2>2, <2>3, ThreadsDiffer
      DEF Inv, Types, ReaderEnds, UserHolds, ReaderHolds, WriterHolds, userVars, threadVars, ReaderAt
  <2>5. DropGuard(Reader(t)) /\ UNCHANGED deviceVars
      BY <1>4 DEF ReaderEnds, deviceVars, kernelVars
  <2> QED
      BY <2>1, <2>2, <2>4, <2>5, Leaves
<1>5. CASE WriterEnds(t)
  <2>1. PlaceTypes'
      BY <1>5 DEF Inv, Types, PlaceTypes, UserPlaces, ReaderPlaces, WriterPlaces, WriterEnds, userVars, threadVars, WriterAt
  <2>2. Writer(t) \in Threads /\ lock = Writer(t) /\ Closed(Writer(t))
      BY <1>5, ThreadsOf DEF Inv, LockInv, RevokeInv, WriterEnds, UserHolds, ReaderHolds, WriterHolds, Closed, WriterAt
  <2>3. \A u \in Terms : /\ UserHolds(u) => lock = User(u)
                         /\ ReaderHolds(u) => lock = Reader(u)
                         /\ WriterHolds(u) => lock = Writer(u)
      BY DEF Inv, LockInv
  <2>4. \A u \in Terms : /\ UserHolds(u)' => UserHolds(u) /\ Writer(t) # User(u)
                         /\ ReaderHolds(u)' => ReaderHolds(u) /\ Writer(t) # Reader(u)
                         /\ WriterHolds(u)' => WriterHolds(u) /\ Writer(t) # Writer(u)
      BY <1>5, <2>2, <2>3, ThreadsDiffer
      DEF Inv, Types, WriterEnds, UserHolds, ReaderHolds, WriterHolds, userVars, threadVars, WriterAt
  <2>5. DropGuard(Writer(t)) /\ UNCHANGED deviceVars
      BY <1>5 DEF WriterEnds, deviceVars, kernelVars
  <2> QED
      BY <2>1, <2>2, <2>4, <2>5, Leaves
<1> QED
    BY <1>1, <1>2, <1>3, <1>4, <1>5
(* The closes under the lock: of the two threads, and of a dropped Opening or
   Terminal, each of whose descriptors is a master's or the slave. *)
LEMMA ClosesKeep ==
    ASSUME Inv, NEW t \in Terms,
           \/ ReaderCloses(t) \/ WriterCloses(t) \/ CloseNext(t)
    PROVE  Inv'
<1>1. CASE ReaderCloses(t)
  <2>1. PlaceTypes' /\ UNCHANGED <<lockVars, hungUp>> /\ CloseMaster(Reader(t), t, "reader")
      BY <1>1 DEF Inv, Types, PlaceTypes, UserPlaces, ReaderPlaces, WriterPlaces, ReaderCloses, ReaderAt, userVars
  <2>2. Reader(t) \in Threads /\ lock = Reader(t)
      BY <1>1, ThreadsOf DEF Inv, LockInv, ReaderCloses, ReaderAt, UserHolds, ReaderHolds, WriterHolds
  <2>3. \A u \in Terms : /\ UserHolds(u)' = UserHolds(u)
                         /\ ReaderHolds(u)' = ReaderHolds(u)
                         /\ WriterHolds(u)' = WriterHolds(u)
                         /\ user'[u] = user[u] /\ Reader(t) # User(u)
                         /\ reader[u] = "closed" \/ Reader(t) = Reader(u) => reader'[u] = "closed"
                         /\ writer[u] = "closed" \/ Reader(t) = Writer(u) => writer'[u] = "closed"
      BY <1>1, ThreadsDiffer DEF Inv, Types, ReaderCloses, ReaderAt, UserHolds, ReaderHolds, WriterHolds, userVars
  <2> QED
      BY <2>1, <2>2, <2>3, Closes
<1>2. CASE WriterCloses(t)
  <2>1. PlaceTypes' /\ UNCHANGED <<lockVars, hungUp>> /\ CloseMaster(Writer(t), t, "writer")
      BY <1>2 DEF Inv, Types, PlaceTypes, UserPlaces, ReaderPlaces, WriterPlaces, WriterCloses, WriterAt, userVars
  <2>2. Writer(t) \in Threads /\ lock = Writer(t)
      BY <1>2, ThreadsOf DEF Inv, LockInv, WriterCloses, WriterAt, UserHolds, ReaderHolds, WriterHolds
  <2>3. \A u \in Terms : /\ UserHolds(u)' = UserHolds(u)
                         /\ ReaderHolds(u)' = ReaderHolds(u)
                         /\ WriterHolds(u)' = WriterHolds(u)
                         /\ user'[u] = user[u] /\ Writer(t) # User(u)
                         /\ reader[u] = "closed" \/ Writer(t) = Reader(u) => reader'[u] = "closed"
                         /\ writer[u] = "closed" \/ Writer(t) = Writer(u) => writer'[u] = "closed"
      BY <1>2, ThreadsDiffer DEF Inv, Types, WriterCloses, WriterAt, UserHolds, ReaderHolds, WriterHolds, userVars
  <2> QED
      BY <2>1, <2>2, <2>3, Closes
<1>3. CASE CloseNext(t)
  <2>1. toClose'[t] \in Seq(ToClose) /\ Head(toClose[t]) \in ToClose
      BY <1>3 DEF Inv, Types, CloseNext
  <2>2. PlaceTypes' /\ UNCHANGED <<lockVars, hungUp, user, reader, writer>>
      BY <1>3, <2>1 DEF Inv, Types, PlaceTypes, CloseNext, threadVars
  <2>3. User(t) \in Threads /\ lock = User(t) /\ user[t] \in {"failing", "closing"}
      BY <1>3, ThreadsOf DEF Inv, LockInv, CloseNext, UserHolds
  <2>4. CASE Head(toClose[t]) = "slave"
    <3>1. UNCHANGED deviceVars
        BY <1>3, <2>4 DEF CloseNext, deviceVars
    <3> QED
        BY <2>2, <3>1, Elsewhere DEF SamePlaces, UserHolds, ReaderHolds, WriterHolds
  <2>5. CASE Head(toClose[t]) # "slave"
    <3>1. CloseMaster(User(t), t, Head(toClose[t]))
        BY <1>3, <2>1, <2>5 DEF CloseNext, ToClose
    <3>2. \A u \in Terms : /\ UserHolds(u)' = UserHolds(u)
                           /\ ReaderHolds(u)' = ReaderHolds(u)
                           /\ WriterHolds(u)' = WriterHolds(u)
                           /\ user[u] \in {"failing", "closing"} \/ User(t) = User(u)
                                 => user'[u] \in {"failing", "closing"}
                           /\ reader'[u] = reader[u] /\ User(t) # Reader(u)
                           /\ writer'[u] = writer[u] /\ User(t) # Writer(u)
        BY <2>2, <2>3, ThreadsDiffer DEF UserHolds, ReaderHolds, WriterHolds
    <3> QED
        BY <2>2, <2>3, <3>1, <3>2, Closes
  <2> QED
      BY <2>4, <2>5
<1> QED
    BY <1>1, <1>2, <1>3

(* A device is handed out under the lock, where nothing is left to revoke. *)
LEMMA OpenKeeps ==
    ASSUME Inv, NEW t \in Terms, OpenPty(t)
    PROVE  Inv'
<1>1. User(t) \in Threads /\ TakeGuard(User(t)) /\ user[t] = "opening"
    BY ThreadsOf DEF OpenPty, At
<1>2. lock = Nobody \/ lock = User(t)
    BY <1>1 DEF Inv, LockInv, TakeGuard, CanGuard
<1>3. \A th \in Threads : revoking[th] = NoDevice
    BY <1>1, <1>2, LifecycleAssumption DEF Inv, RevokeInv, Threads
<1>4. PICK d \in free : device' = [device EXCEPT ![t] = d] /\ free' = free \ {d}
    BY DEF OpenPty
<1>5. Types'
    BY <1>1, <1>4 DEF Inv, Types, UserPlaces, ReaderPlaces, WriterPlaces, OpenPty, At, TakeGuard, threadVars
<1>6. \A u \in Terms : device'[u] = IF u = t THEN d ELSE device[u]
    BY <1>4 DEF Inv, Types
<1>7. LockInv'
  <2>1. \A u \in Terms : /\ UserHolds(u)' => UserHolds(u) \/ u = t
                         /\ ReaderHolds(u)' => ReaderHolds(u)
                         /\ WriterHolds(u)' => WriterHolds(u)
      BY DEF Inv, Types, OpenPty, At, UserHolds, ReaderHolds, WriterHolds, threadVars
  <2>2. \A th \in Threads : holds'[th] <=> lock' = th
      BY <1>1, <1>2, LifecycleAssumption DEF Inv, Types, LockInv, TakeGuard, Threads
  <2>3. \A th \in Threads : lock = th => lock' = th
      BY <1>1, <1>2, LifecycleAssumption DEF TakeGuard, Threads
  <2>4. lock' = User(t)
      BY <1>1 DEF TakeGuard
  <2> QED
      BY <2>1, <2>2, <2>3, <2>4, ThreadsOf DEF Inv, LockInv
<1>8. DeviceInv'
    BY <1>4, <1>6 DEF Inv, DeviceInv
<1>9. RevokeInv'
    BY <1>3, ThreadsOf DEF RevokeInv, OpenPty
<1>10. NobodyIsRevoked'
    BY DEF Inv, NobodyIsRevoked, OpenPty
<1> QED
    BY <1>5, <1>7, <1>8, <1>9, <1>10 DEF Inv

-----------------------------------------------------------------------------
(* Every step keeps the invariant. *)
LEMMA InvNext == Inv /\ [Next]_vars => Inv'
<1> SUFFICES ASSUME Inv, [Next]_vars PROVE Inv'
    OBVIOUS
<1>1. CASE UNCHANGED vars
  <2>1. PlaceTypes' /\ SamePlaces
      BY <1>1 DEF Inv, Types, PlaceTypes, SamePlaces, UserHolds, ReaderHolds, WriterHolds, vars, userVars, threadVars
  <2> QED
      BY <1>1, <2>1, Elsewhere DEF vars, lockVars, kernelVars, deviceVars
<1>2. ASSUME NEW t \in Terms, Spawn(t) \/ UserStep(t) \/ Drop(t)
      PROVE  Inv'
    BY <1>2, ThreadsOf, SpawnKeeps, SpawnFailsKeeps, OpenKeeps, UnlocksKeep, LocksKeep, ClosesKeep, DropKeeps, Revokes
    DEF UserStep
<1>3. ASSUME NEW t \in Terms, ReplyInline(t) \/ ReadAgain(t) \/ ReaderStep(t)
      PROVE  Inv'
    BY <1>3, ThreadsOf, ThreadKeeps, LocksKeep, ClosesKeep, UnlocksKeep, Revokes DEF ReaderStep
<1>4. ASSUME NEW t \in Terms, Receive(t) \/ WriterStep(t)
      PROVE  Inv'
    BY <1>4, ThreadsOf, ThreadKeeps, LocksKeep, ClosesKeep, UnlocksKeep, Revokes DEF WriterStep
<1>5. ASSUME NEW t \in Terms, ChildForks(t) \/ Exits(t, "child") \/ Exits(t, "grandchild") \/ AppReads(t)
      PROVE  Inv'
    BY <1>5, ChildKeeps
<1> QED
    BY <1>1, <1>2, <1>3, <1>4, <1>5 DEF Next

(* No terminal is hung up by the last close of another one's master: the
   process-wide lock, had by whoever closes until the device is revoked, keeps
   a device from being handed out in between (PTY_LIFECYCLE, MasterDup,
   Opening). *)
THEOREM NeverRevoked == Spec => []NobodyIsRevoked
<1>1. Inv => NobodyIsRevoked
    BY DEF Inv
<1> QED
    BY <1>1, InvInit, InvNext, PTL DEF Spec
===============================================================================
