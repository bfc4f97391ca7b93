----------------------------- MODULE MCLifecycle -----------------------------
(***************************************************************************)
(* Two terminals that compete for one device, each spawned and dropped     *)
(* once: one is written to twice, so that its input queue may be full when *)
(* the second write comes, and its teardown may be refused one of the two  *)
(* things it asks; the other is not written to, and is refused nothing.    *)
(***************************************************************************)
EXTENDS Lifecycle

CONSTANT Typing    (* the terminal that is written to *)

MCMaxTyped == [t \in Terms |-> IF t = Typing THEN 2 ELSE 0]
MCRefusals == [t \in Terms |-> IF t = Typing THEN {{}, {"fcntl"}, {"slave"}} ELSE {{}}]
=============================================================================
