------------------------------- MODULE MCWaits -------------------------------
(***************************************************************************)
(* Small instances of Waits: one wait on a screen that is painted twice or *)
(* three times, queries that are left unanswered, and sequences of calls   *)
(* on a child that may be reaped by anyone.                                *)
(***************************************************************************)
EXTENDS Waits

Base == [calls |-> <<>>, reads |-> 0, openings |-> {{}}, asks |-> FALSE, time |-> 5,
         others |-> FALSE, kernelReaps |-> FALSE, exitCloses |-> FALSE]

Painting(call, n, left) ==
    [Base EXCEPT !.calls = <<call>>, !.reads = n, !.openings = {{}, left}]

Asking == [Base EXCEPT !.calls = <<"until">>, !.reads = 4, !.asks = TRUE, !.time = 2]

Process(cs) == [Base EXCEPT !.calls = cs]

Pseudoconsole(cs) == [Base EXCEPT !.calls = cs, !.exitCloses = TRUE, !.time = 7]

MCScenarios ==
    {Painting("until", 2, {"update"}), Painting("quiet", 2, {"sequence"}),
     Painting("stable", 2, {"character"}), Painting("snapshot", 2, {"update"}),
     Painting("stable", 3, {}),
     Asking,
     [Process(<<"exit", "signal", "exit", "drop">>) EXCEPT !.others = TRUE],
     [Process(<<"signal", "exit", "drop">>) EXCEPT !.kernelReaps = TRUE],
     Pseudoconsole(<<"until", "until">>), Pseudoconsole(<<"exit", "quiet">>)}
=============================================================================
