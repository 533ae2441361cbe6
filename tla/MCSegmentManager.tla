---- MODULE MCSegmentManager ----
(* SegmentManager for TLC: who runs where, and how much. *)
EXTENDS SegmentManager, TLC

CONSTANTS p1, p2, t1, t2, t3

\* t1 and t3 are threads of p1, t2 is one of p2.
Placement == [t \in App |-> IF t = t2 THEN p2 ELSE p1]

Calls3 == [t \in App |-> 3]
Calls5 == [t \in App |-> 5]

\* The peer attaches before it calls anything else.
Calls12 == [t \in App |-> IF t = t2 THEN 2 ELSE 1]

====
