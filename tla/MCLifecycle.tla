---- MODULE MCLifecycle ----
(* Lifecycle for TLC: which process uses which constructor. *)
EXTENDS Lifecycle, TLC

CONSTANTS p1, p2, p3

TwoCreators ==
  (p1 :> {"create_only"}) @@ (p2 :> {"open_or_create"})
    @@ (p3 :> {"open_only"})
CreateAndOpen == (p1 :> {"create_only"}) @@ (p2 :> {"open_only"})
Either == [p \in {p1, p2} |-> {"open_or_create"}]
BothCreate == [p \in {p1, p2} |-> {"create_only"}]

====
