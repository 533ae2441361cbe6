---- MODULE HintService ----
(***************************************************************************)
(* What prefetch_worker promises to the managers of one process, without   *)
(* its queue, its thread and its locks: a hint is remembered until it is   *)
(* served or its manager starts to close, one manager is served at a time, *)
(* and a manager goes away only when nothing of it is left in the service. *)
(***************************************************************************)
CONSTANTS Managers,   \* the segmented_segment_manager objects of the process
          None        \* no manager

VARIABLES open,       \* managers that may give hints
          closing,    \* managers whose destructor has withdrawn their hints
          pending,    \* managers with a hint that is not served yet
          serving     \* the manager being grown, or None

vars == <<open, closing, pending, serving>>

Init ==
  /\ open = {}
  /\ closing = {}
  /\ pending = {}
  /\ serving = None

\* register_manager
Open(m) ==
  /\ m \notin open \cup closing
  /\ open' = open \cup {m}
  /\ UNCHANGED <<closing, pending, serving>>

\* hint_growth
Hint(m) ==
  /\ m \in open
  /\ pending' = pending \cup {m}
  /\ UNCHANGED <<open, closing, serving>>

\* The service picks a hint; a second hint of the same manager may stay.
Serve(m) ==
  /\ serving = None
  /\ m \in pending
  /\ pending' \in {pending, pending \ {m}}
  /\ serving' = m
  /\ UNCHANGED <<open, closing>>

Finish ==
  /\ serving # None
  /\ serving' = None
  /\ UNCHANGED <<open, closing, pending>>

\* unregister_manager begins: the manager's hints are withdrawn.
Withdraw(m) ==
  /\ m \in open
  /\ open' = open \ {m}
  /\ closing' = closing \cup {m}
  /\ pending' = pending \ {m}
  /\ UNCHANGED serving

\* The manager's memory goes away: nothing may refer to it any more.
Retire(m) ==
  /\ m \in closing
  /\ m \notin pending
  /\ serving # m
  /\ closing' = closing \ {m}
  /\ UNCHANGED <<open, pending, serving>>

Next ==
  \/ \E m \in Managers :
       Open(m) \/ Hint(m) \/ Serve(m) \/ Withdraw(m) \/ Retire(m)
  \/ Finish

Spec == Init /\ [][Next]_vars

====
