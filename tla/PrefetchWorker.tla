---- MODULE PrefetchWorker ----
(***************************************************************************)
(* The background growth service of one process: prefetch_worker, its      *)
(* thread, and the managers that register with it, hint to it and leave    *)
(* it. One owner thread acts per manager (list_mtx_ serialises the threads *)
(* that hint for the same manager). A critical section of queue_lock_ is   *)
(* one step; sleep_mtx_ and mtx_ are held exactly at the program points    *)
(* SleepHeld and MtxHeld name.                                             *)
(***************************************************************************)
EXTENDS Naturals, Sequences, FiniteSets

CONSTANTS Managers,   \* the segmented_segment_manager objects of the process
          None,       \* nullptr
          MaxQueue    \* bound: no hint is started when queue_ could exceed it

ASSUME ManagersAssumption == IsFiniteSet(Managers) /\ None \notin Managers
ASSUME MaxQueueAssumption == MaxQueue \in Nat \ {0}

VARIABLES
  pc,          \* pc[m]: where the owner of manager m is
  list_mtx,    \* list_mtx[m]: who holds the manager's list_mtx_
  active,      \* active_managers_
  stop,        \* stop_
  queue,       \* queue_
  working_on,  \* working_on_
  mgr_to_grow, \* the worker's local: the manager it grows, or None
  wpc,         \* where the worker thread is; "off": thread_ is not joinable
  has_work,    \* the worker's local has_work
  exitpc       \* where ~prefetch_worker is, at process exit

vars == <<pc, list_mtx, active, stop, queue, working_on, mgr_to_grow,
          wpc, has_work, exitpc>>

ownerVars == <<pc, active, stop, exitpc>>
jobVars == <<working_on, mgr_to_grow, has_work>>

OwnerPC == {"none", "idle",                          \* no object / alive
            "push", "sync", "notify",                \* hint_growth
            "spin", "lock", "stop", "wake", "join",  \* unregister_manager
            "destroy"}                               \* rest of the destructor
GrowPC == {"grow", "lock1", "inspect", "map", "lock2", "adding", "clear"}
SleepPC == {"pred", "predStop", "block", "check", "checkQ"}
WorkerPC == {"off", "top", "sleep", "waiting", "relock", "exited"}
            \cup GrowPC \cup SleepPC
ExitPC == {"run", "stop", "sync", "notify", "join", "done"}

\* The managers in a sequence of managers.
Elems(s) == {s[i] : i \in 1..Len(s)}

\* sleep_mtx_ kept while the worker grows a manager.
SleepHeld_WhileGrowing == wpc \in SleepPC \cup GrowPC

\* The worker holds sleep_mtx_.
SleepHeld == wpc \in SleepPC

\* An unregister_manager that stops the thread holds mtx_.
MtxHeld == \E m \in Managers : pc[m] \in {"stop", "wake", "join"}

Go(m, from, to) == pc[m] = from /\ pc' = [pc EXCEPT ![m] = to]
WGo(from, to) == wpc = from /\ wpc' = to

Init ==
  /\ pc = [m \in Managers |-> "none"]
  /\ list_mtx = [m \in Managers |-> "free"]
  /\ active = 0
  /\ stop = FALSE
  /\ queue = <<>>
  /\ working_on = None
  /\ mgr_to_grow = None
  /\ wpc = "off"
  /\ has_work = FALSE
  /\ exitpc = "run"

----------------------------------------------------------------------------
(* register_manager, called last in every constructor.                     *)

Register(m) ==
  /\ exitpc = "run"
  /\ ~MtxHeld
  /\ Go(m, "none", "idle")
  /\ active' = active + 1
  /\ IF active = 0 THEN stop' = FALSE /\ wpc' = "top"
                   ELSE UNCHANGED <<stop, wpc>>
  /\ UNCHANGED <<list_mtx, queue, jobVars, exitpc>>

----------------------------------------------------------------------------
(* hint_growth, called by try_allocate_locked with list_mtx_ held.         *)

HintLock(m) ==
  /\ exitpc = "run"
  /\ Len(queue) + Cardinality({n \in Managers : pc[n] = "push"}) < MaxQueue
  /\ list_mtx[m] = "free"
  /\ Go(m, "idle", "push")
  /\ list_mtx' = [list_mtx EXCEPT ![m] = "owner"]
  /\ UNCHANGED <<active, stop, queue, wpc, jobVars, exitpc>>

IsBack(m) == queue # <<>> /\ queue[Len(queue)] = m

\* A hint equal to the last one queued is dropped; the caller then returns.
HintPush(m) ==
  /\ \/ /\ IsBack(m)
        /\ Go(m, "push", "idle")
        /\ list_mtx' = [list_mtx EXCEPT ![m] = "free"]
        /\ UNCHANGED queue
     \/ /\ ~IsBack(m)
        /\ Go(m, "push", "sync")
        /\ queue' = Append(queue, m)
        /\ UNCHANGED list_mtx
  /\ UNCHANGED <<active, stop, wpc, jobVars, exitpc>>

\* Notifying without passing through sleep_mtx_ first.
HintSync_NoMutex(m) ==
  /\ Go(m, "sync", "notify")
  /\ UNCHANGED <<list_mtx, active, stop, queue, wpc, jobVars, exitpc>>

\* sleep_mtx_ is taken and released: no wait is between test and sleep.
HintSync(m) ==
  /\ ~SleepHeld
  /\ Go(m, "sync", "notify")
  /\ UNCHANGED <<list_mtx, active, stop, queue, wpc, jobVars, exitpc>>

\* cv_.notify_one() wakes the worker if it waits; the caller drops list_mtx_.
HintNotify(m) ==
  /\ Go(m, "notify", "idle")
  /\ list_mtx' = [list_mtx EXCEPT ![m] = "free"]
  /\ wpc' = IF wpc = "waiting" THEN "relock" ELSE wpc
  /\ UNCHANGED <<active, stop, queue, jobVars, exitpc>>

----------------------------------------------------------------------------
(* ~segmented_segment_manager: unregister_manager, then the segments.      *)

\* Leaving the hints of m in the queue.
DtorDrain_Keep(m) ==
  /\ exitpc = "run"
  /\ Go(m, "idle", "spin")
  /\ UNCHANGED <<list_mtx, active, stop, queue, wpc, jobVars, exitpc>>

\* queue_ keeps its other entries, in their order: f lists their positions.
DtorDrain(m) ==
  LET keep == {i \in 1..Len(queue) : queue[i] # m}
      n == Cardinality(keep)
  IN /\ exitpc = "run"
     /\ Go(m, "idle", "spin")
     /\ \E f \in [1..n -> keep] :
          /\ \A i, j \in 1..n : i < j => f[i] < f[j]
          /\ \A k \in keep : \E j \in 1..n : f[j] = k
          /\ queue' = [j \in 1..n |-> queue[f[j]]]
     /\ UNCHANGED <<list_mtx, active, stop, wpc, jobVars, exitpc>>

\* Not waiting for a growth of m that the worker is running.
DtorSpin_NoWait(m) ==
  /\ Go(m, "spin", "lock")
  /\ UNCHANGED <<list_mtx, active, stop, queue, wpc, jobVars, exitpc>>

DtorSpin(m) ==
  /\ working_on # m
  /\ Go(m, "spin", "lock")
  /\ UNCHANGED <<list_mtx, active, stop, queue, wpc, jobVars, exitpc>>

\* Stopping the thread without holding mtx_ to the end of the join.
DtorLock_NoMutex(m) ==
  /\ ~MtxHeld
  /\ active' = active - 1
  /\ Go(m, "lock", "destroy")
  /\ UNCHANGED <<list_mtx, stop, queue, wpc, jobVars, exitpc>>

DtorLock(m) ==
  /\ ~MtxHeld
  /\ active' = active - 1
  /\ Go(m, "lock", IF active = 1 THEN "stop" ELSE "destroy")
  /\ UNCHANGED <<list_mtx, stop, queue, wpc, jobVars, exitpc>>

DtorStop(m) ==
  /\ Go(m, "stop", "wake")
  /\ stop' = TRUE
  /\ UNCHANGED <<list_mtx, active, queue, wpc, jobVars, exitpc>>

\* cv_.notify_one(), with sleep_mtx_ never taken.
DtorWake(m) ==
  /\ Go(m, "wake", "join")
  /\ wpc' = IF wpc = "waiting" THEN "relock" ELSE wpc
  /\ UNCHANGED <<list_mtx, active, stop, queue, jobVars, exitpc>>

DtorJoin(m) ==
  /\ Go(m, "join", "destroy")
  /\ WGo("exited", "off")
  /\ UNCHANGED <<list_mtx, active, stop, queue, jobVars, exitpc>>

\* The segments are unregistered and unmapped under list_mtx_.
DtorDestroy(m) ==
  /\ list_mtx[m] = "free"
  /\ Go(m, "destroy", "none")
  /\ UNCHANGED <<list_mtx, active, stop, queue, wpc, jobVars, exitpc>>

----------------------------------------------------------------------------
(* worker_loop.                                                            *)

\* Publishing working_on_ only after queue_lock_ is released, in grow.
WPop_LatePublish ==
  /\ WGo("top", "grow")
  /\ queue # <<>>
  /\ mgr_to_grow' = Head(queue)
  /\ queue' = Tail(queue)
  /\ UNCHANGED <<ownerVars, list_mtx, working_on, has_work>>

WPop ==
  /\ WGo("top", "grow")
  /\ queue # <<>>
  /\ mgr_to_grow' = Head(queue)
  /\ working_on' = mgr_to_grow'
  /\ queue' = Tail(queue)
  /\ UNCHANGED <<ownerVars, list_mtx, has_work>>

WIdle ==
  /\ WGo("top", "sleep")
  /\ queue = <<>>
  /\ UNCHANGED <<ownerVars, list_mtx, queue, jobVars>>

(* grow_background on mgr_to_grow: its locks and its early returns. The     *)
(* sizes it compares belong to the SegmentManager module, so each test may *)
(* go either way here.                                                     *)

\* try_to_lock on grow_mtx_: it fails while a thread of the manager grows.
WGrow ==
  /\ WGo("grow", "clear") \/ WGo("grow", "lock1")
  /\ UNCHANGED <<ownerVars, list_mtx, queue, jobVars>>

WGrowLock ==
  /\ WGo("lock1", "inspect")
  /\ list_mtx[mgr_to_grow] = "free"
  /\ list_mtx' = [list_mtx EXCEPT ![mgr_to_grow] = "worker"]
  /\ UNCHANGED <<ownerVars, queue, jobVars>>

\* The free space suffices (to "clear"), or the new size is computed.
WInspect ==
  /\ WGo("inspect", "clear") \/ WGo("inspect", "map")
  /\ list_mtx' = [list_mtx EXCEPT ![mgr_to_grow] = "free"]
  /\ UNCHANGED <<ownerVars, queue, jobVars>>

\* create_anon or shm_grow: on failure grow_background returns.
WMap ==
  /\ WGo("map", "clear") \/ WGo("map", "lock2")
  /\ UNCHANGED <<ownerVars, list_mtx, queue, jobVars>>

WAddLock ==
  /\ WGo("lock2", "adding")
  /\ list_mtx[mgr_to_grow] = "free"
  /\ list_mtx' = [list_mtx EXCEPT ![mgr_to_grow] = "worker"]
  /\ UNCHANGED <<ownerVars, queue, jobVars>>

WAdd ==
  /\ WGo("adding", "clear")
  /\ list_mtx' = [list_mtx EXCEPT ![mgr_to_grow] = "free"]
  /\ UNCHANGED <<ownerVars, queue, jobVars>>

\* Returning to the loop's head with working_on_ still set.
WClear_NoReset ==
  /\ WGo("clear", "top")
  /\ mgr_to_grow' = None
  /\ UNCHANGED <<ownerVars, list_mtx, queue, working_on, has_work>>

WClear ==
  /\ WGo("clear", "top")
  /\ working_on' = None
  /\ mgr_to_grow' = None
  /\ UNCHANGED <<ownerVars, list_mtx, queue, has_work>>

\* slk(sleep_mtx_), then cv_.wait evaluates its predicate.
WSleepLock ==
  /\ WGo("sleep", "pred")
  /\ UNCHANGED <<ownerVars, list_mtx, queue, jobVars>>

WPred ==
  /\ WGo("pred", "predStop")
  /\ has_work' = (queue # <<>>)
  /\ UNCHANGED <<ownerVars, list_mtx, queue, working_on, mgr_to_grow>>

WPredStop ==
  /\ WGo("predStop", IF stop \/ has_work THEN "check" ELSE "block")
  /\ UNCHANGED <<ownerVars, list_mtx, queue, jobVars>>

\* The wait releases sleep_mtx_ and sleeps in one step.
WBlock ==
  /\ WGo("block", "waiting")
  /\ UNCHANGED <<ownerVars, list_mtx, queue, jobVars>>

\* A spurious wake-up, which the standard allows and nothing promises.
WSpurious ==
  /\ WGo("waiting", "relock")
  /\ UNCHANGED <<ownerVars, list_mtx, queue, jobVars>>

WRelock ==
  /\ WGo("relock", "pred")
  /\ UNCHANGED <<ownerVars, list_mtx, queue, jobVars>>

WCheck ==
  /\ WGo("check", IF stop THEN "checkQ" ELSE "top")
  /\ UNCHANGED <<ownerVars, list_mtx, queue, jobVars>>

WCheckQ ==
  /\ WGo("checkQ", IF queue = <<>> THEN "exited" ELSE "top")
  /\ UNCHANGED <<ownerVars, list_mtx, queue, jobVars>>

----------------------------------------------------------------------------
(* ~prefetch_worker, at process exit: no other call is under way, and any  *)
(* manager still registered was leaked.                                    *)

ExitBegin ==
  /\ exitpc = "run"
  /\ \A m \in Managers : pc[m] \in {"none", "idle"}
  /\ exitpc' = IF wpc = "off" THEN "done" ELSE "stop"
  /\ UNCHANGED <<pc, list_mtx, active, stop, queue, wpc, jobVars>>

ExitStop ==
  /\ exitpc = "stop"
  /\ exitpc' = "sync"
  /\ stop' = TRUE
  /\ UNCHANGED <<pc, list_mtx, active, queue, wpc, jobVars>>

\* Notifying without passing through sleep_mtx_ first.
ExitSync_NoMutex ==
  /\ exitpc = "sync"
  /\ exitpc' = "notify"
  /\ UNCHANGED <<pc, list_mtx, active, stop, queue, wpc, jobVars>>

ExitSync ==
  /\ exitpc = "sync"
  /\ ~SleepHeld
  /\ exitpc' = "notify"
  /\ UNCHANGED <<pc, list_mtx, active, stop, queue, wpc, jobVars>>

ExitNotify ==
  /\ exitpc = "notify"
  /\ exitpc' = "join"
  /\ wpc' = IF wpc = "waiting" THEN "relock" ELSE wpc
  /\ UNCHANGED <<pc, list_mtx, active, stop, queue, jobVars>>

ExitJoin ==
  /\ exitpc = "join"
  /\ WGo("exited", "off")
  /\ exitpc' = "done"
  /\ UNCHANGED <<pc, list_mtx, active, stop, queue, jobVars>>

\* The process is gone.
Exited == exitpc = "done" /\ UNCHANGED vars

----------------------------------------------------------------------------

Owner(m) ==
  \/ Register(m)
  \/ HintLock(m) \/ HintPush(m) \/ HintSync(m) \/ HintNotify(m)
  \/ DtorDrain(m) \/ DtorSpin(m) \/ DtorLock(m) \/ DtorStop(m)
  \/ DtorWake(m) \/ DtorJoin(m) \/ DtorDestroy(m)

Worker ==
  \/ WPop \/ WIdle \/ WGrow \/ WGrowLock \/ WInspect \/ WMap \/ WAddLock
  \/ WAdd \/ WClear \/ WSleepLock \/ WPred \/ WPredStop \/ WBlock \/ WRelock
  \/ WCheck \/ WCheckQ

Exit ==
  ExitBegin \/ ExitStop \/ ExitSync \/ ExitNotify \/ ExitJoin \/ Exited

Next == (\E m \in Managers : Owner(m)) \/ Worker \/ WSpurious \/ Exit

Spec == Init /\ [][Next]_vars

(* A thread that can run does run: a call in progress goes on, the worker  *)
(* goes on, and a mutex that becomes free again and again is obtained.     *)
(* Nothing obliges a program to register, to hint, to destroy or to exit,  *)
(* nor the condition variable to wake up spuriously.                       *)
Fairness ==
  /\ WF_vars(Worker)
  /\ SF_vars(WGrowLock)
  /\ SF_vars(WAddLock)
  /\ \A m \in Managers :
       /\ WF_vars(HintPush(m) \/ HintNotify(m))
       /\ SF_vars(HintSync(m))
       /\ WF_vars(DtorSpin(m) \/ DtorStop(m) \/ DtorWake(m) \/ DtorJoin(m))
       /\ SF_vars(DtorLock(m))
       /\ WF_vars(DtorDestroy(m))
  /\ WF_vars(ExitStop \/ ExitNotify \/ ExitJoin)
  /\ SF_vars(ExitSync)

FairSpec == Spec /\ Fairness

----------------------------------------------------------------------------
(* Properties.                                                             *)

\* Every variable has its type; locals hold what their program points imply.
TypeOK ==
  /\ pc \in [Managers -> OwnerPC]
  /\ list_mtx \in [Managers -> {"free", "owner", "worker"}]
  /\ active \in Nat
  /\ stop \in BOOLEAN
  /\ queue \in Seq(Managers)
  /\ working_on \in Managers \cup {None}
  /\ mgr_to_grow \in Managers \cup {None}
  /\ wpc \in WorkerPC
  /\ has_work \in BOOLEAN
  /\ exitpc \in ExitPC

\* The worker never runs grow_background on a manager that has left
\* unregister_manager's wait, so never on one being or already destroyed:
\* what the drain under queue_lock_ and the spin on working_on_ are for.
NoGrowAfterUnregister ==
  \A m \in Managers :
    mgr_to_grow = m => pc[m] \in {"idle", "push", "sync", "notify", "spin"}

\* queue_ holds no pointer to a manager whose destructor has drained it.
NoDanglingHint ==
  \A m \in Elems(queue) : pc[m] \in {"idle", "push", "sync", "notify"}

\* register_manager assigns thread_ only when it is not joinable (assigning
\* to a joinable std::thread terminates), and the thread runs as long as a
\* registered manager may hint to it.
ThreadLifetime ==
  /\ (active = 0 /\ ~MtxHeld /\ exitpc = "run") => wpc = "off"
  /\ (active > 0 /\ exitpc = "run") => wpc \notin {"off", "exited"}

\* A manager with a queued hint is grown by the worker, or has its hints
\* withdrawn by its destructor: hint_growth loses no wake-up.
HintTaken ==
  \A m \in Managers :
    m \in Elems(queue) ~> (working_on = m \/ m \notin Elems(queue))

\* The wait of unregister_manager for a running growth ends.
SpinEnds == \A m \in Managers : pc[m] = "spin" ~> pc[m] # "spin"

\* hint_growth returns, so an allocation never hangs in its hint.
HintReturns == \A m \in Managers : pc[m] = "push" ~> pc[m] = "idle"

\* ~prefetch_worker returns: it passes through sleep_mtx_ before notifying.
ExitReturns == exitpc = "stop" ~> exitpc = "done"

\* The destructor of a manager returns, which every test that ends assumes.
DtorReturns == \A m \in Managers : pc[m] = "spin" ~> pc[m] = "none"

----------------------------------------------------------------------------
(* The abstract service this implements.                                   *)

Open == {m \in Managers : pc[m] \in {"idle", "push", "sync", "notify"}}
Closing == {m \in Managers :
              pc[m] \in {"spin", "lock", "stop", "wake", "join", "destroy"}}

Service == INSTANCE HintService
             WITH open <- Open, closing <- Closing,
                  pending <- Elems(queue), serving <- working_on

\* prefetch_worker implements the hint service: in particular no manager is
\* retired while a hint of it is queued or its growth is running.
Implements == Service!Spec

\* Hints do not pile up: a manager that is queued is not queued again before
\* the worker has taken it (hint_growth compares with the last one only).
QueuedOnce ==
  \A i, j \in 1..Len(queue) : queue[i] = queue[j] => i = j

====
