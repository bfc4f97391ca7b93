------------------------------- MODULE TabStops -------------------------------
(***************************************************************************)
(* Where the tab stops are: a width and the columns below it, counted from *)
(* 0, that have a stop.                                                    *)
(***************************************************************************)
EXTENDS Integers, FiniteSets

CONSTANT TabInterval    (* TAB_INTERVAL *)

ASSUME TabsAssumption == TabInterval \in Nat \ {0}

LOCAL Least(a, b) == IF a < b THEN a ELSE b

DefaultStop(col) == col % TabInterval = 0

PowerOnTabs(cols) == [cols |-> cols, stops |-> {c \in 0 .. cols - 1 : DefaultStop(c)}]

LastColumn(tabs) == IF tabs.cols = 0 THEN 0 ELSE tabs.cols - 1

(* Columns the grid did not have before get the power-on layout; the stops
   inside the old width stay. *)
SetCols(tabs, cols) ==
    [cols |-> cols,
     stops |-> (tabs.stops \intersect (0 .. cols - 1))
                 \union {c \in tabs.cols .. cols - 1 : DefaultStop(c)}]

ResetTabs(tabs) == PowerOnTabs(tabs.cols)

(* A column the grid does not have is no stop. *)
SetStop(tabs, col) == [tabs EXCEPT !.stops = @ \union ({col} \intersect (0 .. tabs.cols - 1))]
ClearStop(tabs, col) == [tabs EXCEPT !.stops = @ \ {col}]
ClearStops(tabs) == [tabs EXCEPT !.stops = {}]

(* As many steps as asked for, one per column at the most: each to the nearest
   stop on that side, or to the edge, where the stops run out. *)
TabForward(tabs, col, count) ==
    LET last == LastColumn(tabs)
        Nearest(at) == LET right == {c \in tabs.stops : c > at} IN
            IF right = {} THEN last ELSE CHOOSE c \in right : \A d \in right : c <= d
        steps == Least(count, tabs.cols)
        at[n \in 0 .. steps] == IF n = 0 THEN Least(col, last) ELSE Nearest(at[n - 1]) IN
    at[steps]

TabBack(tabs, col, count) ==
    LET Nearest(at) == LET left == {c \in tabs.stops : c < at} IN
            IF left = {} THEN 0 ELSE CHOOSE c \in left : \A d \in left : d <= c
        steps == Least(count, tabs.cols)
        at[n \in 0 .. steps] == IF n = 0 THEN Least(col, LastColumn(tabs)) ELSE Nearest(at[n - 1]) IN
    at[steps]

(* SeqTracker::tab_op: the stops after an operation at a column, and where the
   cursor moves to, if it does. *)
TabOp(tabs, op, col) ==
    CASE op.kind = "Set" -> [tabs |-> SetStop(tabs, col), to |-> {}]
      [] op.kind = "ClearAtCursor" -> [tabs |-> ClearStop(tabs, col), to |-> {}]
      [] op.kind = "ClearAll" -> [tabs |-> ClearStops(tabs), to |-> {}]
      [] op.kind = "Forward" -> [tabs |-> tabs, to |-> {TabForward(tabs, col, op.count)}]
      [] op.kind = "Back" -> [tabs |-> tabs, to |-> {TabBack(tabs, col, op.count)}]
===============================================================================
