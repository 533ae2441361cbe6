---- MODULE PrefetchWorkerProofs ----
(***************************************************************************)
(* Proofs about PrefetchWorker for every set of managers and every bound   *)
(* on the queue. IInv is the inductive invariant: the type invariant, the  *)
(* count behind active_managers_, what mtx_ protects, the life of the      *)
(* thread, and who may still be referred to by the queue or the worker.    *)
(***************************************************************************)
EXTENDS PrefetchWorker, FiniteSetTheorems, TLAPS

USE DEF ownerVars, jobVars

\* Owners that may still be grown: the spin of unregister_manager not left.
BeforeSpinEnd == {"idle", "push", "sync", "notify", "spin"}

\* Owners that may still have a hint in the queue.
BeforeDrain == {"idle", "push", "sync", "notify"}

\* The managers active_managers_ counts.
Counted == {m \in Managers :
              pc[m] \in {"idle", "push", "sync", "notify", "spin", "lock"}}

\* active_managers_ is the number of managers between register_manager and
\* the decrement in unregister_manager.
ActiveCount == active = Cardinality(Counted)

MtxPC == {"stop", "wake", "join"}

\* working_on_ and mgr_to_grow agree and are set exactly during a growth.
Publishing ==
  /\ mgr_to_grow = working_on
  /\ (wpc \in GrowPC) <=> (mgr_to_grow # None)

\* mtx_ is held by at most one owner across the join, and none is counted.
MtxInv ==
  /\ \A m, n \in Managers : pc[m] \in MtxPC /\ pc[n] \in MtxPC => m = n
  /\ MtxHeld => active = 0

\* The thread ends only on stop_, and stop_ is set only when none is left.
StopInv ==
  /\ wpc \in {"checkQ", "exited"} => stop
  /\ (exitpc = "run" /\ stop) => active = 0
  /\ exitpc = "run" => ((wpc = "off") <=> (active = 0 /\ ~MtxHeld))

IInv ==
  /\ TypeOK
  /\ ActiveCount
  /\ Publishing
  /\ NoGrowAfterUnregister
  /\ NoDanglingHint
  /\ MtxInv
  /\ StopInv

----------------------------------------------------------------------------
(* The queue as the set of its elements.                                   *)

\* push: the manager joins the set.
LEMMA ElemsAppend ==
  ASSUME NEW s \in Seq(Managers), NEW m \in Managers
  PROVE  /\ Append(s, m) \in Seq(Managers)
         /\ Elems(Append(s, m)) = Elems(s) \cup {m}
  BY DEF Elems

\* front and pop: the head was in the set, and only the head may leave it.
LEMMA ElemsTail ==
  ASSUME NEW s \in Seq(Managers), s # <<>>
  PROVE  /\ Head(s) \in Managers
         /\ Tail(s) \in Seq(Managers)
         /\ Head(s) \in Elems(s)
         /\ Elems(s) = Elems(Tail(s)) \cup {Head(s)}
<1>1. /\ Head(s) \in Managers
      /\ Tail(s) \in Seq(Managers)
      /\ Len(s) \in Nat /\ Len(s) >= 1
      /\ Head(s) = s[1]
      /\ Len(Tail(s)) = Len(s) - 1
      /\ \A i \in 1..Len(Tail(s)) : Tail(s)[i] = s[i + 1]
  OBVIOUS
<1>2. Head(s) \in Elems(s)
  BY <1>1 DEF Elems
<1>3. Elems(Tail(s)) \subseteq Elems(s)
  BY <1>1 DEF Elems
<1>4. ASSUME NEW i \in 1..Len(s)
      PROVE  s[i] \in Elems(Tail(s)) \cup {Head(s)}
  <2>1. CASE i = 1
    BY <1>1, <2>1
  <2>2. CASE i # 1
    <3>1. i - 1 \in 1..Len(Tail(s)) /\ Tail(s)[i - 1] = s[(i - 1) + 1]
      BY <1>1, <2>2
    <3>2. s[i] = Tail(s)[i - 1]
      BY <3>1
    <3> QED BY <3>1, <3>2 DEF Elems
  <2> QED BY <2>1, <2>2
<1> QED BY <1>1, <1>2, <1>3, <1>4 DEF Elems

----------------------------------------------------------------------------
(* The count of registered managers.                                       *)

\* The counted managers are finitely many, so active is a natural number.
LEMMA CountedFinite ==
  IsFiniteSet(Counted) /\ Cardinality(Counted) \in Nat
  BY ManagersAssumption, FS_Subset, FS_CardinalityType DEF Counted

\* register_manager counts one more manager.
LEMMA CountRegister ==
  ASSUME TypeOK, ActiveCount, NEW m \in Managers, Register(m)
  PROVE  ActiveCount'
<1>1. Counted' = Counted \cup {m} /\ m \notin Counted
  BY DEF TypeOK, Register, Go, Counted
<1>2. Cardinality(Counted') = Cardinality(Counted) + 1
  BY <1>1, CountedFinite, FS_AddElement
<1> QED BY <1>2 DEF ActiveCount, Register

\* The decrement of unregister_manager uncounts one, and there was one.
LEMMA CountUnregister ==
  ASSUME TypeOK, ActiveCount, NEW m \in Managers, DtorLock(m)
  PROVE  ActiveCount' /\ active >= 1
<1>1. Counted' = Counted \ {m} /\ m \in Counted
  BY DEF TypeOK, DtorLock, Go, Counted
<1>2. Cardinality(Counted') = Cardinality(Counted) - 1
  BY <1>1, CountedFinite, FS_RemoveElement
<1>3. Cardinality(Counted') \in Nat
  BY <1>1, CountedFinite, FS_RemoveElement, FS_CardinalityType
<1> QED BY <1>2, <1>3, CountedFinite DEF ActiveCount, DtorLock

\* A manager that is counted keeps active_managers_ positive.
LEMMA CountedPositive ==
  ASSUME ActiveCount, NEW m \in Counted
  PROVE  active >= 1
<1>1. Cardinality(Counted) # 0
  BY CountedFinite, FS_EmptySet
<1> QED BY <1>1, CountedFinite DEF ActiveCount

----------------------------------------------------------------------------
(* IInv holds initially and every action preserves it.                     *)

LEMMA InitIInv == Init => IInv
<1> SUFFICES ASSUME Init PROVE IInv
  OBVIOUS
<1>1. Counted = {}
  BY DEF Init, Counted
<1>2. ActiveCount
  BY <1>1, FS_EmptySet DEF Init, ActiveCount
<1>3. TypeOK
  <2>1. stop \in BOOLEAN /\ has_work \in BOOLEAN
    BY Zenon DEF Init
  <2> QED BY <2>1 DEF Init, TypeOK, OwnerPC, WorkerPC, ExitPC
<1>4. NoDanglingHint /\ NoGrowAfterUnregister
  BY ManagersAssumption DEF Init, NoDanglingHint, NoGrowAfterUnregister, Elems
<1>5. Publishing /\ MtxInv /\ StopInv
  BY DEF Init, Publishing, MtxInv, StopInv, GrowPC, MtxPC, MtxHeld
<1> QED BY <1>2, <1>3, <1>4, <1>5 DEF IInv

LEMMA RegisterIInv ==
  ASSUME IInv, NEW m \in Managers, Register(m)
  PROVE  IInv'
<1> USE DEF IInv, Register, Go
<1>1. TypeOK'
  <2>1. stop' \in BOOLEAN
    BY Zenon DEF TypeOK
  <2> QED BY <2>1 DEF TypeOK, OwnerPC, WorkerPC
<1>2. ActiveCount'
  BY CountRegister
<1>3. Publishing'
  BY DEF Publishing, StopInv, GrowPC
<1>4. NoGrowAfterUnregister' /\ NoDanglingHint'
  BY DEF TypeOK, NoGrowAfterUnregister, NoDanglingHint, Elems
<1>5. ~MtxHeld'
  BY DEF TypeOK, MtxHeld
<1>6. MtxInv'
  BY <1>5 DEF MtxInv, MtxHeld, MtxPC
<1>7. StopInv'
  BY <1>5 DEF TypeOK, StopInv
<1> QED BY <1>1, <1>2, <1>3, <1>4, <1>6, <1>7

\* The steps of an owner between register and the decrement, in and around
\* hint_growth and up to the end of the spin, leave the count alone.
LEMMA HintIInv ==
  ASSUME IInv, NEW m \in Managers,
         HintLock(m) \/ HintPush(m) \/ HintSync(m) \/ HintNotify(m)
  PROVE  IInv'
<1> USE DEF IInv, HintLock, HintPush, HintSync, HintNotify, Go
<1>1. pc[m] \in {"idle", "push", "sync", "notify"} /\ pc' = [pc EXCEPT ![m] = pc'[m]]
      /\ pc'[m] \in {"idle", "push", "sync", "notify"}
  BY DEF TypeOK
<1>2. /\ queue' \in Seq(Managers)
      /\ Elems(queue') \subseteq Elems(queue) \cup {m}
  BY ElemsAppend DEF TypeOK
<1>3. TypeOK'
  BY <1>2 DEF TypeOK, OwnerPC, WorkerPC
<1>4. Counted' = Counted
  BY <1>1 DEF TypeOK, Counted
<1>5. ActiveCount'
  BY <1>4 DEF ActiveCount
<1>6. MtxHeld' = MtxHeld
  BY <1>1 DEF TypeOK, MtxHeld
<1>7. Publishing' /\ MtxInv' /\ StopInv'
  BY <1>1, <1>6 DEF TypeOK, Publishing, MtxInv, StopInv, GrowPC, MtxPC
<1>8. NoGrowAfterUnregister'
  BY <1>1 DEF TypeOK, NoGrowAfterUnregister
<1>9. NoDanglingHint'
  <2>1. Elems(queue) \subseteq Managers
    BY DEF TypeOK, Elems
  <2> QED BY <1>1, <1>2, <2>1 DEF TypeOK, NoDanglingHint
<1> QED BY <1>3, <1>5, <1>7, <1>8, <1>9

LEMMA DrainIInv ==
  ASSUME IInv, NEW m \in Managers, DtorDrain(m)
  PROVE  IInv' /\ Elems(queue') = Elems(queue) \ {m}
<1> DEFINE keep == {i \in 1..Len(queue) : queue[i] # m}
           n == Cardinality(keep)
<1>1. n \in Nat
  <2>1. IsFiniteSet(1..Len(queue)) 
    BY FS_Interval DEF IInv, TypeOK
  <2> QED BY <2>1, FS_Subset, FS_CardinalityType
<1>2. PICK f \in [1..n -> keep] :
        /\ \A k \in keep : \E j \in 1..n : f[j] = k
        /\ queue' = [j \in 1..n |-> queue[f[j]]]
  BY DEF DtorDrain
<1> HIDE DEF n
<1>3. queue' \in Seq(Managers) /\ Elems(queue') = Elems(queue) \ {m}
  <2>1. queue \in Seq(Managers)
    BY DEF IInv, TypeOK
  <2>2. \A j \in 1..n : /\ f[j] \in 1..Len(queue)
                         /\ queue[f[j]] # m
                         /\ queue[f[j]] \in Managers
    BY <1>1, <2>1
  <2>3. queue' \in [1..n -> Managers]
    BY <1>2, <2>2
  <2>4. queue' \in Seq(Managers) /\ Len(queue') = n
    BY <1>1, <2>3
  <2>5. Elems(queue') \subseteq Elems(queue) \ {m}
    <3>1. \A j \in 1..n : queue'[j] = queue[f[j]]
      BY <1>2
    <3>. QED  BY <2>2, <2>4, <3>1 DEF Elems
  <2>6. ASSUME NEW i \in 1..Len(queue), queue[i] # m
        PROVE  queue[i] \in Elems(queue')
    <3>1. PICK j \in 1..n : f[j] = i
      BY <1>2, <2>6
    <3>2. queue'[j] = queue[i]
      BY <1>2, <3>1
    <3> QED BY <2>4, <3>2 DEF Elems
  <2>7. Elems(queue) \ {m} \subseteq Elems(queue')
    BY <2>6 DEF Elems
  <2> QED BY <2>4, <2>5, <2>7
<1>4. /\ pc[m] = "idle" /\ pc' = [pc EXCEPT ![m] = "spin"]
      /\ UNCHANGED <<list_mtx, active, stop, working_on, wpc, has_work, exitpc,
                     mgr_to_grow>>
  BY DEF DtorDrain, Go
<1> USE DEF IInv
<1>5. TypeOK'
  BY <1>3, <1>4 DEF TypeOK, OwnerPC
<1>6. Counted' = Counted
  BY <1>4 DEF TypeOK, Counted
<1>7. MtxHeld' = MtxHeld
  BY <1>4 DEF TypeOK, MtxHeld
<1>8. ActiveCount' /\ Publishing' /\ MtxInv' /\ StopInv'
  BY <1>4, <1>6, <1>7 DEF TypeOK, ActiveCount, Publishing, MtxInv, StopInv, MtxPC
<1>9. NoGrowAfterUnregister' /\ NoDanglingHint'
  BY <1>3, <1>4 DEF TypeOK, NoGrowAfterUnregister, NoDanglingHint
<1> QED BY <1>3, <1>5, <1>8, <1>9

LEMMA SpinIInv ==
  ASSUME IInv, NEW m \in Managers, DtorSpin(m)
  PROVE  IInv'
<1> USE DEF IInv, DtorSpin, Go
<1>1. TypeOK'
  BY DEF TypeOK, OwnerPC
<1>2. Counted' = Counted
  BY DEF TypeOK, Counted
<1>3. MtxHeld' = MtxHeld
  BY DEF TypeOK, MtxHeld
<1>4. ActiveCount' /\ Publishing' /\ MtxInv' /\ StopInv'
  BY <1>2, <1>3 DEF TypeOK, ActiveCount, Publishing, MtxInv, StopInv, MtxPC
<1>5. NoGrowAfterUnregister' /\ NoDanglingHint'
  BY DEF TypeOK, Publishing, NoGrowAfterUnregister, NoDanglingHint, Elems
<1> QED BY <1>1, <1>4, <1>5

LEMMA UnregisterIInv ==
  ASSUME IInv, NEW m \in Managers, DtorLock(m)
  PROVE  IInv'
<1> USE DEF IInv, DtorLock, Go
<1>1. ActiveCount' /\ active >= 1
  BY CountUnregister
<1>2. TypeOK'
  BY <1>1 DEF TypeOK, OwnerPC
<1>3. MtxHeld' <=> active = 1
  BY DEF TypeOK, MtxHeld
<1>4. MtxInv'
  <2>1. \A i \in Managers : pc'[i] \in MtxPC => i = m
    BY DEF TypeOK, MtxHeld, MtxPC
  <2> QED BY <1>3, <2>1 DEF TypeOK, MtxInv
<1>5. Publishing'
  BY DEF Publishing
<1>6. StopInv'
  BY <1>1, <1>3 DEF TypeOK, StopInv
<1>7. NoGrowAfterUnregister' /\ NoDanglingHint'
  BY DEF TypeOK, NoGrowAfterUnregister, NoDanglingHint, Elems
<1> QED BY <1>1, <1>2, <1>4, <1>5, <1>6, <1>7

LEMMA LeaveIInv ==
  ASSUME IInv, NEW m \in Managers,
         DtorStop(m) \/ DtorWake(m) \/ DtorJoin(m) \/ DtorDestroy(m)
  PROVE  IInv'
<1> USE DEF IInv, DtorStop, DtorWake, DtorJoin, DtorDestroy, Go, WGo
<1>1. TypeOK'
  BY DEF TypeOK, OwnerPC, WorkerPC
<1>2. Counted' = Counted
  BY DEF TypeOK, Counted
<1>3. ActiveCount'
  BY <1>2 DEF ActiveCount
<1>4. Publishing'
  BY DEF Publishing, GrowPC
<1>5. NoGrowAfterUnregister' /\ NoDanglingHint'
  BY DEF TypeOK, NoGrowAfterUnregister, NoDanglingHint, Elems
<1>6. MtxInv'
  BY DEF TypeOK, MtxInv, MtxHeld, MtxPC
<1>7. StopInv'
  <2>1. CASE DtorStop(m) \/ DtorWake(m)
    BY <2>1 DEF TypeOK, StopInv, MtxInv, MtxHeld
  <2>2. CASE DtorJoin(m)
    <3>1. ~MtxHeld' /\ active' = 0
      BY <2>2 DEF TypeOK, MtxInv, MtxHeld, MtxPC
    <3> QED BY <2>2, <3>1 DEF StopInv
  <2>3. CASE DtorDestroy(m)
    BY <2>3 DEF TypeOK, StopInv, MtxHeld
  <2> QED BY <2>1, <2>2, <2>3
<1> QED BY <1>1, <1>3, <1>4, <1>5, <1>6, <1>7

LEMMA PopIInv ==
  ASSUME IInv, WPop
  PROVE  IInv'
<1> USE DEF IInv, WPop, WGo
<1>1. /\ Head(queue) \in Managers
      /\ queue' \in Seq(Managers)
      /\ Head(queue) \in Elems(queue)
      /\ Elems(queue') \subseteq Elems(queue)
  BY ElemsTail DEF TypeOK
<1>2. TypeOK'
  BY <1>1 DEF TypeOK, WorkerPC, GrowPC
<1>3. Counted' = Counted /\ MtxHeld' = MtxHeld
  BY DEF Counted, MtxHeld
<1>4. ActiveCount' /\ MtxInv' /\ StopInv'
  BY <1>3 DEF ActiveCount, MtxInv, StopInv
<1>5. Publishing'
  BY <1>1, ManagersAssumption DEF Publishing, GrowPC
<1>6. NoGrowAfterUnregister' /\ NoDanglingHint'
  BY <1>1 DEF NoGrowAfterUnregister, NoDanglingHint
<1> QED BY <1>2, <1>4, <1>5, <1>6

\* Every other step of the worker: the queue and the owners are untouched.
LEMMA WorkerIInv ==
  ASSUME IInv, (Worker /\ ~WPop) \/ WSpurious
  PROVE  IInv'
<1> USE DEF IInv
<1>1. UNCHANGED <<pc, active, stop, queue, exitpc>>
  BY DEF Worker, WIdle, WGrow, WGrowLock, WInspect, WMap, WAddLock, WAdd,
         WClear, WSleepLock, WPred, WPredStop, WBlock, WSpurious, WRelock,
         WCheck, WCheckQ
<1>2. Counted' = Counted /\ MtxHeld' = MtxHeld
  BY <1>1 DEF Counted, MtxHeld
<1>3. ActiveCount' /\ MtxInv' /\ NoDanglingHint'
  BY <1>1, <1>2 DEF ActiveCount, MtxInv, NoDanglingHint
<1>4. TypeOK' /\ Publishing' /\ NoGrowAfterUnregister'
  <2> USE DEF TypeOK, Publishing, NoGrowAfterUnregister, WGo, WorkerPC, GrowPC,
              SleepPC
  <2>1. CASE WIdle \/ WSleepLock \/ WPredStop \/ WBlock \/ WSpurious
             \/ WRelock \/ WCheck \/ WCheckQ
    BY <2>1 DEF WIdle, WSleepLock, WPredStop, WBlock, WSpurious, WRelock,
                WCheck, WCheckQ
  <2>2. CASE WPred
    <3>1. has_work' \in BOOLEAN
      BY <2>2, Zenon DEF WPred
    <3> QED BY <2>2, <3>1 DEF WPred
  <2>3. CASE WGrow \/ WGrowLock \/ WInspect \/ WMap \/ WAddLock \/ WAdd
    BY <2>3 DEF WGrow, WGrowLock, WInspect, WMap, WAddLock, WAdd
  <2>4. CASE WClear
    BY <2>4, ManagersAssumption DEF WClear
  <2> QED BY <2>1, <2>2, <2>3, <2>4 DEF Worker
<1>5. StopInv'
  <2>1. wpc # "off" /\ wpc' # "off" /\ (wpc' \in {"checkQ", "exited"} => stop)
    BY DEF TypeOK, StopInv, Worker, WGo, WIdle, WGrow, WGrowLock, WInspect, WMap,
           WAddLock, WAdd, WClear, WSleepLock, WPred, WPredStop, WBlock,
           WSpurious, WRelock, WCheck, WCheckQ
  <2> QED BY <1>1, <1>2, <2>1 DEF StopInv
<1> QED BY <1>3, <1>4, <1>5

LEMMA ExitIInv ==
  ASSUME IInv, Exit
  PROVE  IInv'
<1> USE DEF IInv, Exit, ExitBegin, ExitStop, ExitSync, ExitNotify, ExitJoin,
            Exited, WGo, vars
<1>1. TypeOK'
  <2>1. stop' \in BOOLEAN
    BY Zenon DEF TypeOK
  <2> QED BY <2>1 DEF TypeOK, WorkerPC, ExitPC
<1>2. Counted' = Counted /\ MtxHeld' = MtxHeld
  BY DEF Counted, MtxHeld
<1>3. ActiveCount' /\ MtxInv' /\ NoDanglingHint' /\ NoGrowAfterUnregister'
  BY <1>2 DEF ActiveCount, MtxInv, NoDanglingHint, NoGrowAfterUnregister, Elems
<1>4. Publishing'
  BY DEF Publishing, GrowPC
<1>5. StopInv'
  BY <1>2 DEF TypeOK, StopInv, ExitPC
<1> QED BY <1>1, <1>3, <1>4, <1>5

LEMMA NextIInv == IInv /\ [Next]_vars => IInv'
<1> SUFFICES ASSUME IInv, [Next]_vars PROVE IInv'
  OBVIOUS
<1>1. ASSUME NEW m \in Managers, Owner(m) PROVE IInv'
  BY <1>1, RegisterIInv, HintIInv, DrainIInv, SpinIInv, UnregisterIInv,
     LeaveIInv DEF Owner
<1>2. CASE Worker \/ WSpurious
  BY <1>2, PopIInv, WorkerIInv
<1>3. CASE Exit
  BY <1>3, ExitIInv
<1>4. CASE UNCHANGED vars
  BY <1>4 DEF vars, IInv, TypeOK, ActiveCount, Counted, Publishing,
     NoGrowAfterUnregister, NoDanglingHint, Elems, MtxInv, MtxHeld, StopInv
<1> QED BY <1>1, <1>2, <1>3, <1>4 DEF Next

\* The strengthening is an invariant of the prefetch worker.
THEOREM Inductive == Spec => []IInv
<1>1. Init => IInv
  BY InitIInv
<1>2. IInv /\ [Next]_vars => IInv'
  BY NextIInv
<1> QED BY <1>1, <1>2, PTL DEF Spec

----------------------------------------------------------------------------
(* The theorems.                                                           *)

\* Type correctness; active_managers_ never goes below zero.
THEOREM TypeCorrect == Spec => []TypeOK
<1>1. IInv => TypeOK
  BY DEF IInv
<1> QED BY <1>1, Inductive, PTL

\* The worker never grows a manager whose unregister_manager has passed its
\* wait on working_on_: no growth touches a manager being destroyed.
THEOREM NoUseAfterUnregister == Spec => []NoGrowAfterUnregister
<1>1. IInv => NoGrowAfterUnregister
  BY DEF IInv
<1> QED BY <1>1, Inductive, PTL

\* No hint of a drained manager is ever left in, or put back into, queue_.
THEOREM QueueIsClean == Spec => []NoDanglingHint
<1>1. IInv => NoDanglingHint
  BY DEF IInv
<1> QED BY <1>1, Inductive, PTL

\* thread_ is assigned only when not joinable, and runs while it is needed.
THEOREM ThreadIsSound == Spec => []ThreadLifetime
<1>1. IInv => ThreadLifetime
  BY DEF IInv, ThreadLifetime, StopInv, TypeOK
<1> QED BY <1>1, Inductive, PTL

----------------------------------------------------------------------------
(* The worker implements HintService.                                      *)

LEMMA ServiceInit == Init => Service!Init
  BY DEF Init, Service!Init, Open, Closing, Elems

\* The steps of one owner, as steps of the service.
LEMMA ServiceOwner ==
  ASSUME IInv, NEW m \in Managers, Owner(m)
  PROVE  [Service!Next]_(Service!vars)
<1> USE DEF IInv, Go, Open, Closing
<1>1. CASE Register(m)
  <2>1. Service!Open(m)
    BY <1>1 DEF TypeOK, Register, Service!Open
  <2> QED BY <2>1 DEF Service!Next
<1>2. CASE HintPush(m)
  <2>1. CASE queue' = queue
    <3>1. UNCHANGED <<Open, Closing, Elems(queue), working_on>>
      BY <1>2, <2>1 DEF TypeOK, HintPush, IsBack
    <3> QED BY <3>1 DEF Service!vars
  <2>2. CASE queue' # queue
    <3>1. Elems(queue') = Elems(queue) \cup {m}
      BY <1>2, <2>2, ElemsAppend DEF TypeOK, HintPush
    <3>2. Service!Hint(m)
      BY <1>2, <2>2, <3>1 DEF TypeOK, HintPush, Service!Hint
    <3> QED BY <3>2 DEF Service!Next
  <2> QED BY <2>1, <2>2
<1>3. CASE DtorDrain(m)
  <2>1. Elems(queue') = Elems(queue) \ {m}
    BY <1>3, DrainIInv
  <2>2. Service!Withdraw(m)
    BY <1>3, <2>1 DEF TypeOK, DtorDrain, Service!Withdraw
  <2> QED BY <2>2 DEF Service!Next
<1>4. CASE DtorDestroy(m)
  <2>1. Service!Retire(m)
    BY <1>4 DEF TypeOK, DtorDestroy, Publishing, NoGrowAfterUnregister,
                NoDanglingHint, Service!Retire
  <2> QED BY <2>1 DEF Service!Next
<1>5. CASE HintLock(m) \/ HintSync(m) \/ HintNotify(m) \/ DtorSpin(m)
           \/ DtorLock(m) \/ DtorStop(m) \/ DtorWake(m) \/ DtorJoin(m)
  <2>1. UNCHANGED <<Open, Closing, queue, working_on>>
    BY <1>5 DEF TypeOK, HintLock, HintSync, HintNotify, DtorSpin, DtorLock,
                DtorStop, DtorWake, DtorJoin
  <2> QED BY <2>1 DEF Service!vars, Elems
<1> QED BY <1>1, <1>2, <1>3, <1>4, <1>5 DEF Owner

\* The steps of the worker, as steps of the service.
LEMMA ServiceWorker ==
  ASSUME IInv, Worker \/ WSpurious
  PROVE  [Service!Next]_(Service!vars)
<1> USE DEF IInv, WGo, Open, Closing
<1>1. CASE WPop
  <2>1. /\ Head(queue) \in Managers
        /\ Head(queue) \in Elems(queue)
        /\ Elems(queue) = Elems(queue') \cup {Head(queue)}
    BY <1>1, ElemsTail DEF TypeOK, WPop
  <2>2. Elems(queue') \in {Elems(queue), Elems(queue) \ {Head(queue)}}
    BY <2>1
  <2>3. working_on = None
    BY <1>1 DEF WPop, Publishing, GrowPC
  <2>4. Service!Serve(Head(queue))
    BY <1>1, <2>1, <2>2, <2>3 DEF WPop, Service!Serve
  <2> QED BY <2>1, <2>4 DEF Service!Next
<1>2. CASE WClear
  <2>1. Service!Finish
    BY <1>2 DEF WClear, Publishing, GrowPC, Service!Finish
  <2> QED BY <2>1 DEF Service!Next
<1>3. CASE (Worker /\ ~WPop /\ ~WClear) \/ WSpurious
  <2>1. UNCHANGED <<pc, queue, working_on>>
    BY <1>3 DEF Worker, WIdle, WGrow, WGrowLock, WInspect, WMap, WAddLock, WAdd,
                WSleepLock, WPred, WPredStop, WBlock, WSpurious, WRelock, WCheck,
                WCheckQ
  <2> QED BY <2>1 DEF Service!vars, Elems
<1> QED BY <1>1, <1>2, <1>3

LEMMA ServiceNext == IInv /\ [Next]_vars => [Service!Next]_(Service!vars)
<1> SUFFICES ASSUME IInv, [Next]_vars PROVE [Service!Next]_(Service!vars)
  OBVIOUS
<1>1. CASE \E m \in Managers : Owner(m)
  BY <1>1, ServiceOwner
<1>2. CASE Worker \/ WSpurious
  BY <1>2, ServiceWorker
<1>3. CASE Exit \/ UNCHANGED vars
  <2>1. UNCHANGED <<pc, queue, working_on>>
    BY <1>3 DEF Exit, ExitBegin, ExitStop, ExitSync, ExitNotify, ExitJoin,
                Exited, vars
  <2> QED BY <2>1 DEF Service!vars, Open, Closing, Elems
<1> QED BY <1>1, <1>2, <1>3 DEF Next

\* prefetch_worker implements the hint service.
THEOREM Refinement == Spec => Implements
<1>1. Init => Service!Init
  BY ServiceInit
<1>2. IInv /\ [Next]_vars => [Service!Next]_(Service!vars)
  BY ServiceNext
<1> QED BY <1>1, <1>2, Inductive, PTL DEF Spec, Implements, Service!Spec

====
