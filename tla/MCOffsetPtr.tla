---- MODULE MCOffsetPtr ----
(***************************************************************************)
(* OffsetPtr for TLC: addresses of 5 bits, cells of 2 bytes, two processes *)
(* that map two sub-segments in opposite orders. The first bytes of a      *)
(* sub-segment are its manager's; pointers may lead to a cell itself, as in*)
(* an empty intrusive list, and to the two bytes of an object behind it.   *)
(***************************************************************************)
EXTENDS OffsetPtr, TLC

CONSTANTS p1, p2

At(area, p, n) == [area |-> area, proc |-> p, at |-> n]

MCSize == <<6, 6>>
MCBase == (p1 :> <<20, 8>>) @@ (p2 :> <<2, 26>>)
MCAnonBase == (p1 :> 2) @@ (p2 :> 14)
MCStackBase == (p1 :> 28) @@ (p2 :> 22)

MCCell == {At("shm", None, 2), At("shm", None, 8), At("anon", p1, 2),
           At("stack", p1, 0), At("stack", p2, 0)}
MCPlace == {At("shm", None, n) : n \in {4, 5, 8}}
             \cup {At("anon", p1, 4)} \cup {At("stack", p1, 2)}

====
