---- MODULE ShmSpinlockProofs ----
(***************************************************************************)
(* Proofs about the spinlock of a heap, for any number of threads and      *)
(* blocks: mutual exclusion, the heap found whole by whoever enters it, and *)
(* that the locked heap implements AtomicHeap (its safety part).           *)
(***************************************************************************)
EXTENDS ShmSpinlock, TLAPS

\* What the program point of t's call says of its block.
Shape(t) ==
  /\ pc[t] = "idle" => call[t] = NoCall
  /\ pc[t] # "idle" => call[t].op \in {"allocate", "deallocate"}
  /\ pc[t] \in {"exchange", "spin", "first"} =>
       IF call[t].op = "allocate" THEN call[t].blk = Nobody
       ELSE call[t].blk \in Block /\ owner[call[t].blk] = t
  /\ pc[t] = "second" =>
       /\ call[t].blk \in Block
       /\ call[t].blk \notin free \cup used
       /\ owner[call[t].blk] = IF call[t].op = "allocate" THEN Nobody ELSE t

CallShape == \A t \in Thread : Shape(t)

\* The part of HeapWhole that every step preserves by itself.
Blocks ==
  /\ \A b \in free : owner[b] = Nobody /\ b \notin used
  /\ \A b \in Block \ (free \cup used) :
       \E t \in Thread : pc[t] = "second" /\ call[t].blk = b
  /\ \A b \in used : owner[b] # Nobody

IInv == TypeOK /\ MutualExclusion /\ CallShape /\ Blocks

----------------------------------------------------------------------------

\* Initially the lock is clear and every block free.
LEMMA InitInv == Init => IInv
<1> SUFFICES ASSUME Init PROVE IInv
  OBVIOUS
<1>1. TypeOK
  BY DEF Init, TypeOK, NoCall
<1>2. Holder = {}
  BY DEF Init, Holder
<1>3. MutualExclusion
  BY <1>2 DEF Init, MutualExclusion
<1>4. CallShape /\ Blocks
  BY DEF Init, CallShape, Shape, Blocks
<1> QED  BY <1>1, <1>3, <1>4 DEF IInv

\* Steps that change neither flag nor heap nor who is inside.
LEMMA OutsideInv ==
  ASSUME IInv, NEW t \in Thread,
         \/ \E try \in BOOLEAN : Allocate(t, try)
         \/ \E try \in BOOLEAN, b \in Block : Deallocate(t, try, b)
         \/ Spin(t) \/ Kill(t)
  PROVE  IInv'
<1>1. CASE \E try \in BOOLEAN : Allocate(t, try)
  <2> PICK try \in BOOLEAN : Allocate(t, try)  BY <1>1
  <2>1. TypeOK'
    BY DEF IInv, TypeOK, Allocate, At, Goto
  <2>2. Holder' = Holder
    BY DEF IInv, TypeOK, Allocate, At, Goto, Holder
  <2>3. MutualExclusion'
    BY <2>2 DEF IInv, MutualExclusion, Allocate
  <2>4. CallShape'
    BY DEF IInv, TypeOK, CallShape, Shape, Allocate, At, Goto
  <2>5. Blocks'
    BY DEF IInv, TypeOK, Blocks, Allocate, At, Goto
  <2> QED  BY <2>1, <2>3, <2>4, <2>5 DEF IInv
<1>2. CASE \E try \in BOOLEAN, b \in Block : Deallocate(t, try, b)
  <2> PICK try \in BOOLEAN, b \in Block : Deallocate(t, try, b)  BY <1>2
  <2>1. TypeOK'
    BY DEF IInv, TypeOK, Deallocate, At, Goto
  <2>2. Holder' = Holder
    BY DEF IInv, TypeOK, Deallocate, At, Goto, Holder
  <2>3. MutualExclusion'
    BY <2>2 DEF IInv, MutualExclusion, Deallocate
  <2>4. CallShape'
    BY DEF IInv, TypeOK, CallShape, Shape, Deallocate, At, Goto
  <2>5. Blocks'
    BY DEF IInv, TypeOK, Blocks, Deallocate, At, Goto
  <2> QED  BY <2>1, <2>3, <2>4, <2>5 DEF IInv
<1>3. CASE Spin(t)
  <2>1. TypeOK'
    BY <1>3 DEF IInv, TypeOK, Spin, At, Goto
  <2>2. Holder' = Holder
    BY <1>3 DEF IInv, TypeOK, Spin, At, Goto, Holder
  <2>3. MutualExclusion'
    BY <1>3, <2>2 DEF IInv, MutualExclusion, Spin
  <2>4. CallShape'
    BY <1>3 DEF IInv, TypeOK, CallShape, Shape, Spin, At, Goto
  <2>5. Blocks'
    BY <1>3 DEF IInv, TypeOK, Blocks, Spin, At, Goto
  <2> QED  BY <2>1, <2>3, <2>4, <2>5 DEF IInv
<1>4. CASE Kill(t)
  <2>1. TypeOK'
    BY <1>4, ThreadAssumption DEF IInv, TypeOK, Kill
  <2>2. MutualExclusion'
    BY <1>4 DEF IInv, MutualExclusion, Holder, Kill
  <2>3. CallShape' /\ Blocks'
    BY <1>4 DEF IInv, CallShape, Shape, Blocks, Kill
  <2> QED  BY <2>1, <2>2, <2>3 DEF IInv
<1> QED  BY <1>1, <1>2, <1>3, <1>4

\* The exchange as one of three steps.
LEMMA ExchangeCases ==
  ASSUME NEW t \in Thread, Exchange(t)
  PROVE  \/ ~flag /\ Goto(t, "first") /\ UNCHANGED call
         \/ flag /\ call[t].try /\ Return(t)
         \/ flag /\ Goto(t, "spin") /\ UNCHANGED call
  BY DEF Exchange

\* The exchange: a clear flag lets one thread in; a set one nobody.
LEMMA ExchangeInv ==
  ASSUME IInv, NEW t \in Thread, Exchange(t)
  PROVE  IInv'
<1>0. /\ t \notin dead /\ pc[t] = "exchange"
      /\ flag' = TRUE /\ UNCHANGED <<free, used, owner, dead>>
  BY DEF Exchange, At
<1>1. CASE ~flag /\ Goto(t, "first") /\ UNCHANGED call
  <2>1. TypeOK'
    BY <1>0, <1>1 DEF IInv, TypeOK, Goto
  <2>2. Holder = {}  BY <1>1 DEF IInv, MutualExclusion
  <2>3. Holder' = {t}
    BY <1>0, <1>1, <2>2 DEF IInv, TypeOK, Goto, Holder
  <2>4. MutualExclusion'
    BY <1>0, <2>3 DEF MutualExclusion
  <2>5. CallShape' /\ Blocks'
    BY <1>0, <1>1 DEF IInv, TypeOK, CallShape, Shape, Blocks, Goto
  <2> QED  BY <2>1, <2>4, <2>5 DEF IInv
<1>2. CASE flag /\ call[t].try /\ Return(t)
  <2>1. TypeOK'
    BY <1>0, <1>2 DEF IInv, TypeOK, Goto, Return, NoCall
  <2>2. Holder' = Holder
    BY <1>0, <1>2 DEF IInv, TypeOK, Goto, Return, Holder
  <2>3. MutualExclusion'
    BY <1>0, <1>2, <2>2 DEF IInv, MutualExclusion
  <2>4. CallShape' /\ Blocks'
    BY <1>0, <1>2 DEF IInv, TypeOK, CallShape, Shape, Blocks, Goto, Return
  <2> QED  BY <2>1, <2>3, <2>4 DEF IInv
<1>3. CASE flag /\ Goto(t, "spin") /\ UNCHANGED call
  <2>1. TypeOK'
    BY <1>0, <1>3 DEF IInv, TypeOK, Goto
  <2>2. Holder' = Holder
    BY <1>0, <1>3 DEF IInv, TypeOK, Goto, Holder
  <2>3. MutualExclusion'
    BY <1>0, <1>3, <2>2 DEF IInv, MutualExclusion
  <2>4. CallShape' /\ Blocks'
    BY <1>0, <1>3 DEF IInv, TypeOK, CallShape, Shape, Blocks, Goto
  <2> QED  BY <2>1, <2>3, <2>4 DEF IInv
<1> QED  BY <1>1, <1>2, <1>3, ExchangeCases

\* The first write: by the one thread inside, so no other is at its second.
LEMMA FirstInv ==
  ASSUME IInv, NEW t \in Thread, First(t)
  PROVE  IInv'
<1>1. TypeOK'
  BY DEF IInv, TypeOK, First, At, Goto
<1>2. Holder' = Holder
  BY DEF IInv, TypeOK, First, At, Goto, Holder
<1>3. MutualExclusion'
  BY <1>2 DEF IInv, MutualExclusion, First
<1>4. \A u \in Thread : pc[u] = "second" => u = t
  BY DEF IInv, MutualExclusion, Holder, First, At
<1>5. free \cup used = Block
  BY <1>4 DEF IInv, TypeOK, Blocks, First, At
<1>6. Shape(t)'
  <2>0. Shape(t) /\ pc[t] = "first" /\ owner' = owner
    BY DEF IInv, CallShape, First, At
  <2>1. CASE call[t].op = "allocate" /\ free # {}
    <3> PICK b \in free : /\ free' = free \ {b} /\ used' = used
                          /\ call' = [call EXCEPT ![t].blk = b]
                          /\ Goto(t, "second")
      BY <2>1 DEF First
    <3> QED  BY <2>0, <2>1 DEF IInv, TypeOK, Blocks, Shape, Goto
  <2>2. CASE call[t].op = "allocate" /\ free = {}
    BY <2>0, <2>2 DEF IInv, TypeOK, Shape, First, Goto
  <2>3. CASE call[t].op = "deallocate"
    BY <2>0, <2>3, ThreadAssumption DEF IInv, TypeOK, Blocks, Shape, First, Goto
  <2> QED  BY <2>0, <2>1, <2>2, <2>3 DEF Shape
<1>7. ASSUME NEW u \in Thread, u # t  PROVE Shape(u)'
  <2>1. pc'[u] = pc[u] /\ call'[u] = call[u] /\ owner' = owner /\ pc[u] # "second"
    BY <1>4, <1>7 DEF IInv, TypeOK, First, At, Goto
  <2>2. Shape(u)  BY DEF IInv, CallShape
  <2> QED  BY <2>1, <2>2 DEF Shape
<1>8. CallShape'
  BY <1>6, <1>7 DEF CallShape
<1>9. Blocks'
  BY <1>4, <1>5 DEF IInv, TypeOK, Blocks, CallShape, Shape, First, At, Goto
<1> QED  BY <1>1, <1>3, <1>8, <1>9 DEF IInv

\* The second write: the block that was in between is nobody else's.
LEMMA SecondInv ==
  ASSUME IInv, NEW t \in Thread, Second(t)
  PROVE  IInv'
<1> DEFINE b == call[t].blk
<1>0. /\ Shape(t) /\ pc[t] = "second" /\ Goto(t, "unlock")
      /\ UNCHANGED <<flag, call, dead>>
      /\ b \in Block /\ b \notin free \cup used
  BY DEF IInv, CallShape, Shape, Second, At
<1>1. TypeOK'
  BY <1>0 DEF IInv, TypeOK, Second, Goto
<1>2. Holder' = Holder
  BY <1>0 DEF IInv, TypeOK, Goto, Holder
<1>3. MutualExclusion'
  BY <1>0, <1>2 DEF IInv, MutualExclusion
<1>4. \A u \in Thread : pc[u] = "second" => u = t
  BY <1>0 DEF IInv, MutualExclusion, Holder
<1>5. ASSUME NEW u \in Thread, u # t, pc[u] \in {"exchange", "spin", "first"},
             call[u].op # "allocate"
      PROVE  call[u].blk # b /\ owner'[call[u].blk] = u
  <2>1. Shape(u)  BY DEF IInv, CallShape
  <2>2. owner[b] \in {Nobody, t}
    BY <1>0 DEF Shape
  <2>3. call[u].blk # b
    BY <1>5, <2>1, <2>2, ThreadAssumption DEF Shape
  <2> QED  BY <1>5, <2>1, <2>3 DEF IInv, TypeOK, Shape, Second
<1>6. CallShape'
  <2> SUFFICES ASSUME NEW u \in Thread PROVE Shape(u)'
    BY DEF CallShape
  <2>1. Shape(u)  BY DEF IInv, CallShape
  <2>2. CASE u = t
    BY <1>0, <2>1, <2>2 DEF IInv, TypeOK, Shape, Goto
  <2>3. CASE u # t
    <3>1. pc'[u] = pc[u] /\ call'[u] = call[u] /\ pc[u] # "second"
      BY <1>0, <1>4, <2>3 DEF IInv, TypeOK, Goto
    <3> QED  BY <1>5, <2>1, <2>3, <3>1 DEF Shape
  <2> QED  BY <2>2, <2>3
<1>7. Blocks'
  BY <1>0, <1>4, ThreadAssumption DEF IInv, TypeOK, Blocks, Second
<1> QED  BY <1>1, <1>3, <1>6, <1>7 DEF IInv

\* unlock: the only thread inside leaves, and no block is in between.
LEMMA UnlockInv ==
  ASSUME IInv, NEW t \in Thread, Unlock(t)
  PROVE  IInv'
<1>1. TypeOK'
  BY DEF IInv, TypeOK, Unlock, At, Goto, Return, NoCall
<1>2. Holder' = {}
  BY DEF IInv, TypeOK, MutualExclusion, Unlock, At, Goto, Return, Holder
<1>3. MutualExclusion'
  BY <1>2 DEF MutualExclusion, Unlock
<1>4. CallShape'
  BY DEF IInv, TypeOK, CallShape, Shape, Unlock, At, Goto, Return
<1>5. Blocks'
  BY DEF IInv, TypeOK, Blocks, Unlock, At, Goto, Return
<1> QED  BY <1>1, <1>3, <1>4, <1>5 DEF IInv

LEMMA NextInv == IInv /\ [Next]_vars => IInv'
<1> SUFFICES ASSUME IInv, [Next]_vars PROVE IInv'
  OBVIOUS
<1>1. CASE UNCHANGED vars
  <2>1. TypeOK' /\ Blocks'
    BY <1>1 DEF vars, IInv, TypeOK, Blocks
  <2>2. MutualExclusion' /\ CallShape'
    BY <1>1 DEF vars, IInv, MutualExclusion, Holder, CallShape, Shape
  <2> QED  BY <2>1, <2>2 DEF IInv
<1>2. ASSUME NEW t \in Thread,
             \/ \E try \in BOOLEAN : \/ Allocate(t, try)
                                     \/ \E b \in Block : Deallocate(t, try, b)
             \/ Step(t)
             \/ Kill(t)
      PROVE  IInv'
  BY <1>2, OutsideInv, ExchangeInv, FirstInv, SecondInv, UnlockInv DEF Step
<1> QED  BY <1>1, <1>2 DEF Next

----------------------------------------------------------------------------

LEMMA Inductive == SafeSpec => []IInv
  BY InitInv, NextInv, PTL DEF SafeSpec

\* At most one thread is between exchange and unlock, whichever of lock()
\* and try_lock() it used, and flag_ is set exactly while there is one: the
\* code of shm_spinlock, for any number of threads, of which any may die.
THEOREM OneInside == Spec => []MutualExclusion
<1>1. IInv => MutualExclusion  BY DEF IInv
<1> QED  BY <1>1, Inductive, PTL DEF Spec

\* Whoever enters the heap finds every block free or allocated to one
\* thread; what a killed thread left in between stays behind the lock.
THEOREM HeapIsWhole == Spec => []HeapWhole
<1>1. ASSUME IInv  PROVE HeapWhole
  <2>1. \A t \in Thread : pc[t] = "second" => t \in Holder
    BY DEF Holder
  <2>2. \A b \in Block \ (free \cup used) :
          \E t \in Holder : pc[t] = "second" /\ call[t].blk = b
    BY <1>1, <2>1 DEF IInv, Blocks
  <2>3. ASSUME ~flag  PROVE free \cup used = Block
    <3>1. Holder = {}  BY <1>1, <2>3 DEF IInv, MutualExclusion
    <3> QED  BY <1>1, <2>2, <3>1 DEF IInv, TypeOK
  <2>4. ASSUME ~flag, NEW b \in Block, owner[b] # Nobody  PROVE b \in used
    BY <1>1, <2>3, <2>4 DEF IInv, Blocks
  <2> QED  BY <1>1, <2>2, <2>3, <2>4 DEF IInv, Blocks, HeapWhole
<1> QED  BY <1>1, Inductive, PTL DEF Spec

----------------------------------------------------------------------------
(* The locked heap implements AtomicHeap.                                  *)

AbsCall == [t \in Thread |-> Called(t)]

LEMMA AbsCallIs ==
  ASSUME NEW t \in Thread, NEW c,
         \A u \in Thread : Called(u)' = IF u = t THEN c ELSE Called(u)
  PROVE  AbsCall' = [AbsCall EXCEPT ![t] = c]
  BY DEF AbsCall

\* A step of t that leaves the locals of the others alone.
LEMMA OthersKeep ==
  ASSUME TypeOK, NEW t \in Thread, NEW u \in Thread, u # t,
         Exchange(t) \/ Spin(t) \/ First(t) \/ Second(t) \/ Unlock(t)
         \/ (\E try \in BOOLEAN : Allocate(t, try))
         \/ (\E try \in BOOLEAN, b \in Block : Deallocate(t, try, b))
  PROVE  Called(u)' = Called(u) /\ pc'[u] = pc[u]
<1>1. pc'[u] = pc[u] /\ call'[u] = call[u]
  <2>1. CASE Exchange(t)
    BY <2>1, ExchangeCases DEF TypeOK, Goto, Return
  <2>2. CASE ~Exchange(t)
    BY <2>2 DEF TypeOK, Spin, First, Second, Unlock, Allocate, Deallocate,
       Goto, Return
  <2> QED  BY <2>1, <2>2
<1> QED  BY <1>1 DEF Called

\* Only the thread inside decides whether the lock is orphaned.
LEMMA HolderAlone ==
  ASSUME IInv, NEW t \in Thread, t \notin dead,
         pc[t] \in {"first", "second", "unlock"}
  PROVE  Holder = {t} /\ ~Orphaned
  BY DEF IInv, MutualExclusion, Holder, Orphaned

\* Calls begin in the same step in both.
LEMMA InvokeRefines ==
  ASSUME IInv, NEW t \in Thread, NEW try \in BOOLEAN,
         Allocate(t, try) \/ \E b \in Block : Deallocate(t, try, b)
  PROVE  A!Next
<1>1. Holder' = Holder /\ dead' = dead /\ owner' = owner
  BY DEF IInv, TypeOK, Allocate, Deallocate, At, Goto, Holder
<1>2. Orphaned' = Orphaned  BY <1>1 DEF Orphaned
<1>3. t \notin dead /\ Called(t).op = "none"
  BY DEF IInv, CallShape, Shape, NoCall, Called, Allocate, Deallocate, At
<1>4. \A u \in Thread : u # t => Called(u)' = Called(u)
  BY OthersKeep DEF IInv
<1>5. CASE Allocate(t, try)
  <2> DEFINE c == [op |-> "allocate", try |-> try, blk |-> Nobody]
  <2>1. Called(t)' = c
    BY <1>5 DEF IInv, TypeOK, Allocate, Goto, Called
  <2>2. AbsCall' = [AbsCall EXCEPT ![t] = c]
    BY <1>4, <2>1, AbsCallIs
  <2>3. A!Invoke(t, "allocate", try, Nobody)
    BY <1>1, <1>2, <1>3, <2>2 DEF A!Invoke, AbsCall
  <2> QED  BY <2>3 DEF A!Next
<1>6. CASE \E b \in Block : Deallocate(t, try, b)
  <2> PICK b \in Block : Deallocate(t, try, b)  BY <1>6
  <2> DEFINE c == [op |-> "deallocate", try |-> try, blk |-> b]
  <2>1. Called(t)' = c
    BY DEF IInv, TypeOK, Deallocate, Goto, Called
  <2>2. AbsCall' = [AbsCall EXCEPT ![t] = c]
    BY <1>4, <2>1, AbsCallIs
  <2>3. A!Invoke(t, "deallocate", try, b)
    BY <1>1, <1>2, <1>3, <2>2 DEF A!Invoke, AbsCall, Deallocate
  <2> QED  BY <2>3 DEF A!Next
<1> QED  BY <1>5, <1>6

\* Taking the lock, or waiting for it, is invisible; a refusal is Busy.
LEMMA LockRefines ==
  ASSUME IInv, NEW t \in Thread, Exchange(t) \/ Spin(t)
  PROVE  A!Next \/ UNCHANGED A!vars
<1>1. owner' = owner /\ dead' = dead /\ t \notin dead
      /\ pc[t] \in {"exchange", "spin"}
  BY DEF Exchange, Spin, At
<1>2. \A u \in Thread : u # t => Called(u)' = Called(u) /\ pc'[u] = pc[u]
  BY OthersKeep DEF IInv
<1>3. Orphaned' = Orphaned
  BY <1>1, <1>2 DEF Orphaned, Holder
<1>4. CASE call' = call /\ pc'[t] # "unlock"
  <2>1. Called(t)' = Called(t)
    BY <1>1, <1>4 DEF Called
  <2>2. AbsCall' = AbsCall
    BY <1>2, <2>1 DEF AbsCall
  <2> QED  BY <1>1, <1>3, <2>2 DEF A!vars, AbsCall
<1>5. CASE flag /\ call[t].try /\ Return(t)
  <2>1. PICK u \in Thread : u \in Holder
    BY <1>5 DEF IInv, MutualExclusion, Holder
  <2>2. u # t /\ Called(u).op # "none"
    BY <1>1, <2>1 DEF IInv, CallShape, Shape, Holder, Called
  <2>3. Called(t).try
    BY <1>1, <1>5 DEF IInv, CallShape, Shape, Called
  <2>4. Called(t)' = A!NoCall("none")
    BY <1>5 DEF IInv, TypeOK, Return, Goto, NoCall, Called, A!NoCall
  <2>5. AbsCall' = [AbsCall EXCEPT ![t] = A!NoCall("none")]
    BY <1>2, <2>4, AbsCallIs
  <2>6. A!Busy(t)
    BY <1>1, <1>3, <2>2, <2>3, <2>5 DEF A!Busy, AbsCall
  <2> QED  BY <2>6 DEF A!Next
<1>6. CASE Spin(t)
  BY <1>4, <1>6 DEF IInv, TypeOK, Spin, Goto
<1>7. CASE Exchange(t)
  BY <1>4, <1>5, <1>7, ExchangeCases DEF IInv, TypeOK, Goto
<1> QED  BY <1>6, <1>7

\* Inside, the call takes effect at the step that leads to unlock.
LEMMA InsideRefines ==
  ASSUME IInv, NEW t \in Thread, First(t) \/ Second(t) \/ Unlock(t)
  PROVE  A!Next \/ UNCHANGED A!vars
<1>1. dead' = dead /\ t \notin dead /\ pc[t] \in {"first", "second", "unlock"}
  BY DEF First, Second, Unlock, At
<1>2. \A u \in Thread : u # t => Called(u)' = Called(u) /\ pc'[u] = pc[u]
  BY OthersKeep DEF IInv
<1>3. Holder = {t} /\ ~Orphaned
  BY <1>1, HolderAlone
<1>4. Orphaned' = Orphaned
  BY <1>1, <1>2, <1>3 DEF Orphaned, Holder
<1>5. Shape(t)  BY DEF IInv, CallShape
<1>6. CASE First(t) /\ pc'[t] = "second"
  <2>1. owner' = owner /\ call'[t].op = call[t].op /\ call'[t].try = call[t].try
        /\ (call[t].op # "allocate" => call'[t] = call[t])
    BY <1>6 DEF IInv, TypeOK, First, Goto
  <2>2. Called(t)' = Called(t)
    BY <1>5, <1>6, <2>1 DEF Called, Shape, First, At
  <2>3. AbsCall' = AbsCall
    BY <1>2, <2>2 DEF AbsCall
  <2> QED  BY <1>1, <1>3, <1>4, <2>1, <2>3 DEF A!vars, AbsCall
<1>7. CASE (First(t) \/ Second(t)) /\ pc'[t] = "unlock"
  <2>1. Called(t)' = A!NoCall("served")
    BY <1>7 DEF Called, A!NoCall
  <2>2. AbsCall' = [AbsCall EXCEPT ![t] = A!NoCall("served")]
    BY <1>2, <2>1, AbsCallIs
  <2>3. Called(t).op = call[t].op
        /\ (call[t].op = "deallocate" => Called(t).blk = call[t].blk)
    BY <1>7 DEF Called, First, Second, At
  <2>4. CASE First(t)
    <3>1. call[t].op = "allocate" /\ free = {} /\ owner' = owner
      BY <1>7, <2>4 DEF IInv, TypeOK, First, Goto
    <3>2. \A b \in Block : owner[b] # Nobody
      <4>1. \A u \in Thread : pc[u] # "second"
        BY <1>3, <2>4 DEF Holder, First, At
      <4> QED  BY <3>1, <4>1 DEF IInv, Blocks
    <3>3. A!Serve(t)
      BY <1>1, <1>3, <1>4, <2>2, <2>3, <3>1, <3>2 DEF A!Serve, AbsCall
    <3> QED  BY <3>3 DEF A!Next
  <2>5. CASE Second(t)
    <3>1. pc[t] = "second"  BY <2>5 DEF Second, At
    <3>2. CASE call[t].op = "allocate"
      <4>1. /\ call[t].blk \in Block /\ owner[call[t].blk] = Nobody
            /\ owner' = [owner EXCEPT ![call[t].blk] = t]
        BY <1>5, <2>5, <3>1, <3>2 DEF Shape, Second
      <4>2. A!Serve(t)
        BY <1>1, <1>3, <1>4, <2>2, <2>3, <3>2, <4>1 DEF A!Serve, AbsCall
      <4> QED  BY <4>2 DEF A!Next
    <3>3. CASE call[t].op = "deallocate"
      <4>1. owner' = [owner EXCEPT ![call[t].blk] = Nobody]
        BY <2>5, <3>3 DEF Second
      <4>2. A!Serve(t)
        BY <1>1, <1>3, <1>4, <2>2, <2>3, <3>3, <4>1 DEF A!Serve, AbsCall
      <4> QED  BY <4>2 DEF A!Next
    <3> QED  BY <1>5, <3>1, <3>2, <3>3 DEF Shape
  <2> QED  BY <1>7, <2>4, <2>5
<1>8. CASE Unlock(t)
  <2>1. Called(t).op = "served" /\ owner' = owner
    BY <1>8 DEF Unlock, At, Called
  <2>2. Called(t)' = A!NoCall("none")
    BY <1>8 DEF IInv, TypeOK, Unlock, Return, Goto, NoCall, Called, A!NoCall
  <2>3. AbsCall' = [AbsCall EXCEPT ![t] = A!NoCall("none")]
    BY <1>2, <2>2, AbsCallIs
  <2>4. A!Return(t)
    BY <1>1, <1>3, <1>4, <2>1, <2>3 DEF A!Return, AbsCall
  <2> QED  BY <2>4 DEF A!Next
<1>9. First(t) => pc'[t] \in {"second", "unlock"}
  BY DEF IInv, TypeOK, First, Goto
<1>10. Second(t) => pc'[t] = "unlock"
  BY DEF IInv, TypeOK, Second, Goto
<1> QED  BY <1>6, <1>7, <1>8, <1>9, <1>10

\* A killed thread takes the heap with it if it was inside.
LEMMA KillRefines ==
  ASSUME IInv, NEW t \in Thread, Kill(t)
  PROVE  A!Next
<1>1. /\ t \notin dead /\ dead' = dead \cup {t} /\ owner' = owner
      /\ pc' = pc /\ call' = call
  BY DEF Kill
<1>2. AbsCall' = AbsCall
  BY <1>1 DEF AbsCall, Called
<1>3. Holder' = Holder  BY <1>1 DEF Holder
<1>4. CASE t \in Holder
  <2>1. Orphaned'  BY <1>1, <1>3, <1>4 DEF Orphaned
  <2>2. Called(t).op # "none"
    BY <1>4 DEF IInv, CallShape, Shape, Holder, Called
  <2>3. A!Die(t)
    BY <1>1, <1>2, <2>1, <2>2 DEF A!Die, AbsCall
  <2> QED  BY <2>3 DEF A!Next
<1>5. CASE t \notin Holder
  <2>1. Orphaned' = Orphaned  BY <1>1, <1>3, <1>5 DEF Orphaned
  <2>2. A!Die(t)
    BY <1>1, <1>2, <2>1 DEF A!Die, AbsCall
  <2> QED  BY <2>2 DEF A!Next
<1> QED  BY <1>4, <1>5

\* Every behaviour of the spinlock and the heap it guards is one of
\* AtomicHeap: the lock makes heap calls atomic, also for those that outlive
\* a killed process. (That waiting calls are served is checked by TLC.)
THEOREM Refinement == Spec => Implements
<1>1. Init => A!Init
  <2>1. ASSUME Init  PROVE AbsCall = [t \in Thread |-> A!NoCall("none")]
    BY <2>1 DEF Init, AbsCall, Called, NoCall, A!NoCall
  <2>2. ASSUME Init  PROVE ~Orphaned /\ owner = [b \in Block |-> Nobody] /\ dead = {}
    BY <2>2 DEF Init, Orphaned, Holder
  <2> QED  BY <2>1, <2>2 DEF A!Init, AbsCall
<1>2. ASSUME IInv, [Next]_vars  PROVE [A!Next]_A!vars
  <2>1. CASE UNCHANGED vars
    BY <2>1 DEF vars, A!vars, Called, Orphaned, Holder
  <2>2. ASSUME NEW t \in Thread,
               \/ \E try \in BOOLEAN : \/ Allocate(t, try)
                                       \/ \E b \in Block : Deallocate(t, try, b)
               \/ Step(t)
               \/ Kill(t)
        PROVE  A!Next \/ UNCHANGED A!vars
    <3>1. CASE \E try \in BOOLEAN, b \in Block : Deallocate(t, try, b)
      BY <3>1, InvokeRefines, <1>2
    <3>2. CASE \E try \in BOOLEAN : Allocate(t, try)
      BY <3>2, InvokeRefines, <1>2
    <3>3. CASE Step(t)
      BY <1>2, <3>3, LockRefines, InsideRefines DEF Step
    <3>4. CASE Kill(t)
      BY <1>2, <3>4, KillRefines
    <3> QED  BY <2>2, <3>1, <3>2, <3>3, <3>4
  <2> QED  BY <1>2, <2>1, <2>2 DEF Next
<1> QED  BY <1>1, <1>2, Inductive, PTL DEF Spec, SafeSpec, A!Spec, Implements

====
