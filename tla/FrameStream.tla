----------------------------- MODULE FrameStream -----------------------------
(***************************************************************************)
(* What wait_frame promises, with no reader, no ring and no lock in it:    *)
(* the application completes frames, the test takes some of them, always   *)
(* forward, each at most once, and a change of the grid's size puts every  *)
(* frame completed so far out of reach.                                    *)
(***************************************************************************)
EXTENDS Naturals, Sequences

VARIABLES
    log,       (* the completed frames, in order, each with its era *)
    era,       (* how many times the size changed *)
    floor,     (* the frames up to this one are out of reach *)
    taken      (* what the test was handed, in order *)

vars == <<log, era, floor, taken>>

Init == log = <<>> /\ era = 0 /\ floor = 0 /\ taken = <<>>

(* One more frame, of the present era, showing anything. *)
Complete ==
    /\ Len(log') = Len(log) + 1
    /\ \A i \in 1..Len(log) : log'[i] = log[i]
    /\ log'[Len(log')].era = era
    /\ UNCHANGED <<era, floor, taken>>

Take(i) ==
    /\ i > floor
    /\ log[i].era = era
    /\ taken' = Append(taken, [index |-> i, painting |-> log[i].painting])
    /\ floor' = i
    /\ UNCHANGED <<log, era>>

ChangeSize ==
    /\ era' = era + 1
    /\ floor' = Len(log)
    /\ UNCHANGED <<log, taken>>

Next ==
    \/ Complete
    \/ \E i \in 1..Len(log) : Take(i)
    \/ ChangeSize

Spec == Init /\ [][Next]_vars

=============================================================================
