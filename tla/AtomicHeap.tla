---- MODULE AtomicHeap ----
(***************************************************************************)
(* What the spinlock of a sub-segment's heap promises to its callers: every *)
(* allocate and deallocate takes effect in one step between its call and   *)
(* its return, whatever the other threads and processes do; calls do not   *)
(* block each other for ever; only the death of a caller may end the       *)
(* service (the lock is not robust), and then it ends as a whole: no later *)
(* call takes effect on what the dead one left.                            *)
(***************************************************************************)
CONSTANTS
  Thread,   \* threads of the attached processes
  Block,    \* the blocks of the heap
  Nobody    \* no thread

VARIABLES
  owner,    \* owner[b]: the thread the heap gave block b to, or Nobody
  call,     \* call[t]: the call of t, [op, try, blk]
  halted,   \* the heap serves nobody any more
  dead      \* threads whose process was killed

vars == <<owner, call, halted, dead>>

NoCall(op) == [op |-> op, try |-> FALSE, blk |-> Nobody]

Init ==
  /\ owner = [b \in Block |-> Nobody]
  /\ call = [t \in Thread |-> NoCall("none")]
  /\ halted = FALSE
  /\ dead = {}

Invoke(t, op, try, b) ==
  /\ t \notin dead
  /\ call[t].op = "none"
  /\ IF op = "deallocate" THEN b \in Block /\ owner[b] = t ELSE b = Nobody
  /\ call' = [call EXCEPT ![t] = [op |-> op, try |-> try, blk |-> b]]
  /\ UNCHANGED <<owner, halted, dead>>

\* The call takes effect; allocate returns nullptr if nothing is free.
Serve(t) ==
  /\ t \notin dead
  /\ ~halted
  /\ \/ /\ call[t].op = "allocate"
        /\ \/ \E b \in Block : /\ owner[b] = Nobody
                               /\ owner' = [owner EXCEPT ![b] = t]
           \/ /\ \A b \in Block : owner[b] # Nobody
              /\ UNCHANGED owner
     \/ /\ call[t].op = "deallocate"
        /\ owner' = [owner EXCEPT ![call[t].blk] = Nobody]
  /\ call' = [call EXCEPT ![t] = NoCall("served")]
  /\ UNCHANGED <<halted, dead>>

\* A call that only tries is refused if somebody else is in one.
Busy(t) ==
  /\ t \notin dead
  /\ call[t].try
  /\ \E u \in Thread \ {t} : call[u].op # "none"
  /\ call' = [call EXCEPT ![t] = NoCall("none")]
  /\ UNCHANGED <<owner, halted, dead>>

Return(t) ==
  /\ t \notin dead
  /\ call[t].op = "served"
  /\ call' = [call EXCEPT ![t] = NoCall("none")]
  /\ UNCHANGED <<owner, halted, dead>>

\* A thread that dies in a call may take the heap with it.
Die(t) ==
  /\ t \notin dead
  /\ dead' = dead \cup {t}
  /\ halted' \in {halted, halted \/ call[t].op # "none"}
  /\ UNCHANGED <<owner, call>>

Next ==
  \E t \in Thread :
    \/ \E op \in {"allocate", "deallocate"}, try \in BOOLEAN,
          b \in Block \cup {Nobody} : Invoke(t, op, try, b)
    \/ Serve(t) \/ Busy(t) \/ Return(t) \/ Die(t)

Spec == Init /\ [][Next]_vars

\* While a call waits and the heap serves, some call is served, though no
\* particular one need be; and a call that was served returns.
Fairness ==
  /\ WF_vars(\E t \in Thread : Serve(t))
  /\ \A t \in Thread : WF_vars(Return(t))

====
