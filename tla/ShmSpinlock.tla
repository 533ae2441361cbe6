---- MODULE ShmSpinlock ----
(***************************************************************************)
(* detail::shm_spinlock, the lock that shm_spin_mutex_family gives to every *)
(* Boost heap in shared memory, with the heap calls it guards. A thread    *)
(* stands for any thread of any attached process; any of them may be       *)
(* killed at any point (a process that is killed loses all its threads:    *)
(* several Kill steps in a row).                                           *)
(*                                                                         *)
(* The guarded heap is external: a call changes it in two writes, so that  *)
(* what another thread could see between them is part of the model. The    *)
(* acquire and release orders of the atomics make the writes of a critical *)
(* section visible to the next one, so memory is sequentially consistent.  *)
(***************************************************************************)
EXTENDS FiniteSets

CONSTANTS
  Thread,   \* threads of the attached processes
  Block,    \* the blocks of one heap
  MayDie,   \* threads whose process may be killed
  Nobody    \* no thread, no block

ASSUME ThreadAssumption ==
  /\ MayDie \subseteq Thread
  /\ Nobody \notin Thread /\ Nobody \notin Block

VARIABLES
  flag,     \* flag_
  free,     \* the heap's tree of free blocks
  used,     \* blocks marked as allocated
  owner,    \* owner[b]: the thread b was returned to, or Nobody
  pc,       \* per thread: program point
  call,     \* per thread: its call, [op, try, blk]
  dead      \* threads whose process was killed

vars == <<flag, free, used, owner, pc, call, dead>>

NoCall == [op |-> "none", try |-> FALSE, blk |-> Nobody]

Init ==
  /\ flag = FALSE
  /\ free = Block
  /\ used = {}
  /\ owner = [b \in Block |-> Nobody]
  /\ pc = [t \in Thread |-> "idle"]
  /\ call = [t \in Thread |-> NoCall]
  /\ dead = {}

At(t, at) == t \notin dead /\ pc[t] = at
Goto(t, to) == pc' = [pc EXCEPT ![t] = to]
Return(t) == Goto(t, "idle") /\ call' = [call EXCEPT ![t] = NoCall]

\* allocate or deallocate of the heap: lock() is next, or try_lock().
Allocate(t, try) ==
  /\ At(t, "idle")
  /\ call' = [call EXCEPT ![t] = [op |-> "allocate", try |-> try, blk |-> Nobody]]
  /\ Goto(t, "exchange")
  /\ UNCHANGED <<flag, free, used, owner, dead>>

Deallocate(t, try, b) ==
  /\ At(t, "idle")
  /\ owner[b] = t
  /\ call' = [call EXCEPT ![t] = [op |-> "deallocate", try |-> try, blk |-> b]]
  /\ Goto(t, "exchange")
  /\ UNCHANGED <<flag, free, used, owner, dead>>

\* A refused try_lock() that clears the flag it set.
Exchange_ClearOnBusy(t) ==
  /\ At(t, "exchange")
  /\ flag' = (flag => ~call[t].try)
  /\ IF ~flag THEN Goto(t, "first") /\ UNCHANGED call
     ELSE IF call[t].try THEN Return(t)
     ELSE Goto(t, "spin") /\ UNCHANGED call
  /\ UNCHANGED <<free, used, owner, dead>>

\* A load in place of the exchange.
Exchange_Load(t) ==
  /\ At(t, "exchange")
  /\ IF ~flag THEN Goto(t, "first") /\ UNCHANGED call
     ELSE IF call[t].try THEN Return(t)
     ELSE Goto(t, "spin") /\ UNCHANGED call
  /\ UNCHANGED <<flag, free, used, owner, dead>>

\* flag_.exchange(true), in lock() and in try_lock(): the lock is taken if
\* it was clear, else lock() spins and try_lock() returns false.
Exchange(t) ==
  /\ At(t, "exchange")
  /\ flag' = TRUE
  /\ IF ~flag THEN Goto(t, "first") /\ UNCHANGED call
     ELSE IF call[t].try THEN Return(t)
     ELSE Goto(t, "spin") /\ UNCHANGED call
  /\ UNCHANGED <<free, used, owner, dead>>

\* Entering once the load has seen the flag clear, without the exchange.
Spin_Enter(t) ==
  /\ At(t, "spin")
  /\ Goto(t, IF flag THEN "spin" ELSE "first")
  /\ UNCHANGED <<flag, free, used, owner, call, dead>>

\* The inner loop: flag_.load() until it is clear, then exchange again.
Spin(t) ==
  /\ At(t, "spin")
  /\ Goto(t, IF flag THEN "spin" ELSE "exchange")
  /\ UNCHANGED <<flag, free, used, owner, call, dead>>

\* The first write of the guarded call: a block leaves the tree of free
\* blocks, or is marked as no longer allocated. allocate may find none.
First(t) ==
  /\ At(t, "first")
  /\ \/ /\ call[t].op = "allocate"
        /\ \E b \in free :
             /\ free' = free \ {b}
             /\ call' = [call EXCEPT ![t].blk = b]
        /\ Goto(t, "second")
        /\ UNCHANGED used
     \/ /\ call[t].op = "allocate" /\ free = {}
        /\ Goto(t, "unlock")
        /\ UNCHANGED <<free, used, call>>
     \/ /\ call[t].op = "deallocate"
        /\ used' = used \ {call[t].blk}
        /\ Goto(t, "second")
        /\ UNCHANGED <<free, call>>
  /\ UNCHANGED <<flag, owner, dead>>

\* The second write, and with it the block changes hands.
Second(t) ==
  LET b == call[t].blk
  IN /\ At(t, "second")
     /\ \/ /\ call[t].op = "allocate"
           /\ used' = used \cup {b}
           /\ owner' = [owner EXCEPT ![b] = t]
           /\ UNCHANGED free
        \/ /\ call[t].op = "deallocate"
           /\ free' = free \cup {b}
           /\ owner' = [owner EXCEPT ![b] = Nobody]
           /\ UNCHANGED used
     /\ Goto(t, "unlock")
     /\ UNCHANGED <<flag, call, dead>>

\* An exception path that leaves without unlock().
Unlock_Never(t) ==
  /\ At(t, "unlock")
  /\ Return(t)
  /\ UNCHANGED <<flag, free, used, owner, dead>>

\* unlock(): flag_.store(false).
Unlock(t) ==
  /\ At(t, "unlock")
  /\ flag' = FALSE
  /\ Return(t)
  /\ UNCHANGED <<free, used, owner, dead>>

\* The process is killed, in the middle of whatever it does.
Kill(t) ==
  /\ t \in MayDie \ dead
  /\ dead' = dead \cup {t}
  /\ UNCHANGED <<flag, free, used, owner, pc, call>>

\* A call in progress.
Step(t) == Exchange(t) \/ Spin(t) \/ First(t) \/ Second(t) \/ Unlock(t)

Next ==
  \E t \in Thread :
    \/ \E try \in BOOLEAN : \/ Allocate(t, try)
                            \/ \E b \in Block : Deallocate(t, try, b)
    \/ Step(t)
    \/ Kill(t)

SafeSpec == Init /\ [][Next]_vars

\* Every thread that can run is run by the scheduler. Nothing orders the
\* threads that spin, so no fairness is assumed among them.
Spec == SafeSpec /\ \A t \in Thread : WF_vars(Step(t))

----------------------------------------------------------------------------
(* Properties.                                                             *)

\* Every variable has its type.
TypeOK ==
  /\ flag \in BOOLEAN
  /\ free \subseteq Block /\ used \subseteq Block
  /\ owner \in [Block -> Thread \cup {Nobody}]
  /\ pc \in [Thread -> {"idle", "exchange", "spin", "first", "second", "unlock"}]
  /\ call \in [Thread -> [op : {"none", "allocate", "deallocate"},
                          try : BOOLEAN, blk : Block \cup {Nobody}]]
  /\ dead \subseteq Thread

\* The threads between a successful exchange and unlock, dead ones too.
Holder == {t \in Thread : pc[t] \in {"first", "second", "unlock"}}

\* One thread at a time is inside the heap, and flag_ is set exactly while
\* one is: no try_lock or late exchange sets or clears it for another, and
\* a set flag without a holder alive means that a holder was killed.
MutualExclusion ==
  /\ \A t, u \in Holder : t = u
  /\ flag <=> Holder # {}

\* Whoever gets the lock finds the heap whole: every block is free or
\* allocated, not both, and allocated to one thread. A heap that a killed
\* holder left half-changed has lost one block at most, and stays locked.
HeapWhole ==
  /\ \A b \in free : owner[b] = Nobody /\ b \notin used
  /\ \A b \in Block \ (free \cup used) :
       \E t \in Holder : pc[t] = "second" /\ call[t].blk = b
  /\ \A b \in used : owner[b] # Nobody
  /\ ~flag => /\ free \cup used = Block
              /\ \A b \in Block : owner[b] # Nobody => b \in used

\* A lock left set by a killed process.
Orphaned == Holder \cap dead # {}

\* A call as its caller sees it: it takes effect at the second write (or
\* when no block was found).
Called(t) ==
  IF pc[t] = "unlock" THEN [op |-> "served", try |-> FALSE, blk |-> Nobody]
  ELSE IF call[t].op = "allocate"
       THEN [op |-> "allocate", try |-> call[t].try, blk |-> Nobody]
  ELSE call[t]

\* The lock makes the heap atomic, for all callers and until one is killed
\* inside: ShmSpinlock implements AtomicHeap.
A == INSTANCE AtomicHeap WITH call <- [t \in Thread |-> Called(t)],
                              halted <- Orphaned
Implements == A!Spec

\* Nobody waits for ever but behind a process that was killed with the lock
\* held: while calls spin in lock(), one of them after the other gets in,
\* though a particular one may be passed over; and who got in returns.
SomeoneServed == A!Fairness

====
