----------------------------- MODULE MCWriteQueue -----------------------------
(***************************************************************************)
(* Small instances of WriteQueue: reads with no answers, or with two, and  *)
(* an input queue that any batch fills.                                    *)
(***************************************************************************)
EXTENDS WriteQueue

MCBatches == {[count |-> 0, size |-> 0], [count |-> 2, size |-> 2]}

MCOneBatch == {[count |-> 2, size |-> 2]}
=============================================================================
