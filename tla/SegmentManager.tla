---- MODULE SegmentManager ----
(***************************************************************************)
(* Allocation and growth: the segmented_segment_manager objects that the   *)
(* processes attached to one shared-memory file keep, each with its own    *)
(* segment list and its own grow_mtx_ and list_mtx_, over the state they   *)
(* share: the file, the segment table in sub-segment 0 and the heap that   *)
(* Boost keeps inside every sub-segment. The memory may also be anonymous; *)
(* then one process owns it. A process may be killed at any point.         *)
(*                                                                         *)
(* Sizes count abstract units. A heap is the set of its allocated blocks;  *)
(* every call into it is one step (ShmSpinlock and AtomicHeap say why, and *)
(* what a process killed inside one leaves). The prefetch worker is its    *)
(* service, specified in HintService: a hint is remembered and the worker  *)
(* of the process serves it later.                                         *)
(***************************************************************************)
EXTENDS Integers, Sequences, FiniteSets, FiniteSetsExt

CONSTANTS
  Proc,             \* processes; the worker thread of p is named p too
  App,              \* application threads
  AppProc,          \* AppProc[t]: the process of thread t
  Creator,          \* the process that created the memory
  Allocators,       \* application threads that may allocate and grow
  Kinds,            \* what the memory may be: "anon" or "linked", a named file
  MayKill,          \* processes that may be killed
  MayClose,         \* processes that may destroy their manager
  kMinSegmentSize,  \* smallest sub-segment
  InitialSize,      \* the initial_size argument of the creator
  PageSize,         \* detail::page_size()
  Header,           \* what the manager (and the table) take of a sub-segment
  Sizes,            \* requested sizes
  Word,             \* 2^w for the w-bit size_t
  SizeofT, Counts,  \* segmented_allocator<T>: sizeof(T), requested counts
  kMaxSubSegments,  \* entries of the segment table
  Limit,            \* bound: the operating system refuses a larger memory
  MapMayFail,       \* whether mapping a chunk may fail for want of resources
  MaxCalls,         \* bound: calls of each application thread
  None              \* no thread

kGrowMultiplier == 2

ASSUME ThreadAssumption ==
  /\ IsFiniteSet(Proc) /\ IsFiniteSet(App) /\ Proc \cap App = {}
  /\ AppProc \in [App -> Proc] /\ Creator \in Proc /\ Allocators \subseteq App
  /\ None \notin Proc \cup App
ASSUME SizeAssumption ==
  /\ {kMinSegmentSize, InitialSize, PageSize, Limit, SizeofT} \subseteq Nat \ {0}
  /\ Header \in Nat /\ Header < kMinSegmentSize /\ MaxCalls \in [App -> Nat]
  /\ Sizes \subseteq Nat \ {0} /\ Counts \subseteq Nat \ {0}
  /\ MapMayFail \in BOOLEAN
  /\ Kinds \subseteq {"anon", "linked"}
  /\ MayKill \subseteq Proc /\ MayClose \subseteq Proc

\* The least size of a memory of n sub-segments, each of which is at least
\* twice as large as the one before.
Doubled(n) ==
  LET size[i \in 0..n] == IF i = 0 THEN 0 ELSE 2 * size[i - 1] + kMinSegmentSize
  IN  size[n]

\* No memory is as large as sub-segments that double kMaxSubSegments times;
\* the one that was created is not too large.
ASSUME LimitAssumption ==
  /\ Word \in Nat /\ kMaxSubSegments \in Nat
  /\ Limit < Word /\ InitialSize <= Limit /\ kMinSegmentSize <= Limit
  /\ Limit < Doubled(kMaxSubSegments + 1)

VARIABLES
  segs,      \* segs[p]: segments_, as [off, size] (file offset and size)
  list_mtx,  \* list_mtx[p]: the thread that holds list_mtx_, or None
  grow_mtx,  \* grow_mtx[p]: the thread that holds grow_mtx_, or None
  hinted,    \* hinted[p]: a growth hint is pending
  alive,     \* alive[p]: the process has not been terminated
  attached,  \* attached[p]: its manager is constructed
  name,      \* "anon", or whether the name of the file is "linked"
  fileSize,  \* size of the shared-memory object
  tbl,       \* segment table: count, entries, and the thread holding mtx
  heap,      \* heap[o]: the heap at file offset o, [size, blocks, ended]
  live,      \* blocks the program holds, [off, at, len, ask]
  pc, loc,   \* per thread: program point and locals
  calls,     \* calls[t]: calls thread t may still make
  outcome    \* outcome[t]: how the last call of t ended

shared == <<fileSize, tbl, heap, live>>
world == <<alive, attached, name>>
vars == <<segs, list_mtx, grow_mtx, hinted, world, shared, pc, loc, calls,
          outcome>>

Thread == App \cup Proc
P(t) == IF t \in Proc THEN t ELSE AppProc[t]

\* The locals of a call: what the caller asked for, the requested bytes,
\* whether grow has run, the loop index (or the count read from the table),
\* the growth, and the block.
NoBlock == [off |-> 0, at |-> 0, len |-> 0, ask |-> 0]
NoLoc == [ask |-> 0, bytes |-> 0, op |-> "none", grown |-> FALSE, i |-> 0,
          cur |-> 0, chunk |-> 0, blk |-> NoBlock]

----------------------------------------------------------------------------
(* Sizes.                                                                  *)

max(a, b) == IF a >= b THEN a ELSE b
align_up(n, a) == (((n + a - 1) % Word) \div a) * a

\* get_size_unlocked: the mapped bytes of a segment list.
Mapped(s) ==
  LET sum[i \in 0..Len(s)] == IF i = 0 THEN 0 ELSE sum[i - 1] + s[i].size
  IN  sum[Len(s)]

\* The sub-segment of list s that contains file offset o.
Contains(s, o) == \E i \in 1..Len(s) : s[i].off <= o /\ o < s[i].off + s[i].size

\* A heap's get_free_memory.
Free(h) == h.size - Header - MapThenSumSet(LAMBDA b : b.len, h.blocks)

\* What a heap takes for a request of n bytes; a request of none gets the
\* smallest block.
Units(n) == max(n, 1)

\* Where n units fit in a heap: at the start of a hole that is large enough.
Fits(h, n) ==
  {at \in {Header} \cup {b.at + b.len : b \in h.blocks} :
     /\ at + n <= h.size
     /\ \A b \in h.blocks : b.at + b.len <= at \/ at + n <= b.at}

Last(s) == s[Len(s)]

\* get_free_memory_unlocked.
TotalFree(s) == MapThenSumSet(LAMBDA i : Free(heap[s[i].off]), 1..Len(s))

\* Every heap that list s refers to is still there.
Intact(s) ==
  \A i \in 1..Len(s) : s[i].off \in DOMAIN heap

\* The last sub-segment is more than half used: what asks for a prefetch.
AlmostFull(s) == Free(heap[Last(s).off]) < Last(s).size \div 2

Anon == name = "anon"

\* mmap opens the file by its name and takes only offsets that are multiples
\* of the page size and sizes that exist.
CanMap(off, size) ==
  Anon \/ (name = "linked" /\ off % PageSize = 0 /\ size <= Limit)

\* open_shm_chunk returns nullptr: one of these, or any when it may.
MapFails(off, size) == ~Anon /\ (MapMayFail \/ ~CanMap(off, size))

----------------------------------------------------------------------------

Init ==
  LET size == max(InitialSize, kMinSegmentSize)
      seg0 == [off |-> 0, size |-> size]
  IN /\ segs = [p \in Proc |-> IF p = Creator THEN <<seg0>> ELSE <<>>]
     /\ list_mtx = [p \in Proc |-> None]
     /\ grow_mtx = [p \in Proc |-> None]
     /\ hinted = [p \in Proc |-> FALSE]
     /\ alive = [p \in Proc |-> TRUE]
     /\ attached = [p \in Proc |-> p = Creator]
     /\ name \in Kinds
     /\ fileSize = size
     /\ tbl = [count |-> 1, entries |-> <<seg0>>, mtx |-> None]
     /\ heap = [o \in {0} |-> [size |-> size, blocks |-> {}, ended |-> FALSE]]
     /\ live = {}
     /\ pc = [t \in Thread |-> "idle"]
     /\ loc = [t \in Thread |-> NoLoc]
     /\ calls = MaxCalls
     /\ outcome = [t \in App |-> "none"]

\* A thread of a running process is at program point `at`.
At(t, at) == alive[P(t)] /\ pc[t] = at
Goto(t, to) == pc' = [pc EXCEPT ![t] = to]
Set(t, r) == loc' = [loc EXCEPT ![t] = r]

\* An application thread starts a call with locals r at program point `to`.
Call(t, to, r) ==
  /\ At(t, "idle")
  /\ calls[t] > 0
  /\ calls' = [calls EXCEPT ![t] = @ - 1]
  /\ Goto(t, to)
  /\ Set(t, r)
  /\ outcome' = [outcome EXCEPT ![t] = "none"]

\* The call ends; the worker, which has no caller, has no outcome.
Return(t, how) ==
  /\ Goto(t, "idle")
  /\ Set(t, NoLoc)
  /\ outcome' = IF t \in App THEN [outcome EXCEPT ![t] = how] ELSE outcome

Acquire(t) ==
  /\ list_mtx[P(t)] = None
  /\ list_mtx' = [list_mtx EXCEPT ![P(t)] = t]
Release(t) == list_mtx' = [list_mtx EXCEPT ![P(t)] = None]

\* A critical section of list_mtx_ that is one step.
Briefly(t) == list_mtx[P(t)] = None /\ UNCHANGED list_mtx

EndGrow(t) == grow_mtx' = [grow_mtx EXCEPT ![P(t)] = None]

\* The process dies: an exception leaves a noexcept function, or a thread
\* touches memory that another process truncated away.
Die(t) ==
  /\ alive' = [alive EXCEPT ![P(t)] = FALSE]
  /\ UNCHANGED <<segs, list_mtx, grow_mtx, hinted, attached, name, shared, pc, loc,
                 calls, outcome>>

----------------------------------------------------------------------------
(* The constructor of a second process: open_all_segments.                 *)

Attach(t) ==
  /\ ~attached[P(t)]
  /\ segs[P(t)] = <<>>
  /\ name = "linked"
  /\ Call(t, "attach", [NoLoc EXCEPT !.i = tbl.count])
  /\ segs' = [segs EXCEPT ![P(t)] = <<[off |-> 0, size |-> tbl.entries[1].size]>>]
  /\ UNCHANGED <<list_mtx, grow_mtx, hinted, world, shared>>

\* Mapping the entry of the last mapped sub-segment once more.
AddEntry_OffByOne(t) ==
  LET p == P(t)
      e == tbl.entries[Len(segs[p])]
  IN /\ Len(segs[p]) < loc[t].i
     /\ CanMap(e.off, e.size)
     /\ segs' = [segs EXCEPT ![p] = Append(@, e)]

\* add_segment_shm for the table entry after the mapped ones; its heap is
\* used as found. A mapping that fails throws.
AddEntry(t) ==
  LET p == P(t)
      e == tbl.entries[Len(segs[p]) + 1]
  IN /\ Len(segs[p]) < loc[t].i
     /\ CanMap(e.off, e.size)
     /\ segs' = [segs EXCEPT ![p] = Append(@, e)]

AttachAdd(t) ==
  /\ At(t, "attach")
  /\ AddEntry(t)
  /\ UNCHANGED <<list_mtx, grow_mtx, hinted, world, shared, pc, loc,
                 calls, outcome>>

AttachFail(t) ==
  /\ At(t, "attach")
  /\ Len(segs[P(t)]) < loc[t].i
  /\ LET e == tbl.entries[Len(segs[P(t)]) + 1] IN MapFails(e.off, e.size)
  /\ segs' = [segs EXCEPT ![P(t)] = <<>>]
  /\ Return(t, "map_failed")
  /\ UNCHANGED <<list_mtx, grow_mtx, hinted, world, shared, calls>>

AttachEnd(t) ==
  /\ At(t, "attach")
  /\ Len(segs[P(t)]) >= loc[t].i
  /\ attached' = [attached EXCEPT ![P(t)] = TRUE]
  /\ Return(t, "ok")
  /\ UNCHANGED <<segs, list_mtx, grow_mtx, hinted, alive, name, shared, calls>>

----------------------------------------------------------------------------
(* allocate: try_allocate_locked, grow, try_allocate_locked again.         *)

Request(t, ask, bytes) ==
  /\ attached[P(t)]
  /\ Acquire(t)
  /\ Call(t, "scan", [NoLoc EXCEPT !.ask = ask, !.bytes = bytes, !.op = "alloc",
                                  !.i = 1])
  /\ UNCHANGED <<segs, grow_mtx, hinted, world, shared>>

Allocate(t, n) == Request(t, n, n)

\* segmented_allocator<T>::allocate: n * sizeof(T), as a size_t; no count is
\* refused.
AllocateN(t, n) == Request(t, n * SizeofT, (n * SizeofT) % Word)

\* One smgr->allocate(bytes, nothrow) of the loop.
Scan(t) ==
  LET r == loc[t]
      o == segs[P(t)][r.i].off
      n == Units(r.bytes)
      fits == Fits(heap[o], n)
  IN /\ At(t, "scan")
     /\ r.i <= Len(segs[P(t)])
     /\ o \in DOMAIN heap
     /\ \/ \E at \in fits :
             /\ heap' = [heap EXCEPT ![o].blocks =
                           @ \cup {[at |-> at, len |-> n]}]
             /\ live' = live \cup {[off |-> o, at |-> at, len |-> n, ask |-> r.ask]}
             /\ Goto(t, "hint")
             /\ UNCHANGED loc
        \/ /\ fits = {}
           /\ Set(t, [r EXCEPT !.i = @ + 1])
           /\ UNCHANGED <<heap, live, pc>>
     /\ UNCHANGED <<segs, list_mtx, grow_mtx, hinted, world, fileSize,
                    tbl, calls, outcome>>

\* Calling grow with list_mtx_ still held.
ScanEnd_KeepLock(t) ==
  /\ At(t, "scan")
  /\ loc[t].i > Len(segs[P(t)])
  /\ IF loc[t].grown
     THEN Return(t, "no_space") /\ Release(t)
     ELSE Goto(t, "growLock") /\ UNCHANGED <<loc, outcome, list_mtx>>
  /\ UNCHANGED <<segs, grow_mtx, hinted, world, shared, calls>>

\* Every sub-segment refused: grow, unless that was done already.
ScanEnd(t) ==
  /\ At(t, "scan")
  /\ loc[t].i > Len(segs[P(t)])
  /\ Release(t)
  /\ IF loc[t].grown
     THEN Return(t, "no_space")
     ELSE Goto(t, "growLock") /\ UNCHANGED <<loc, outcome>>
  /\ UNCHANGED <<segs, grow_mtx, hinted, world, shared, calls>>

\* The hint of a successful allocation, then list_mtx_ is released.
Hint(t) ==
  LET p == P(t)
  IN /\ At(t, "hint")
     /\ Last(segs[p]).off \in DOMAIN heap
     /\ hinted' = [hinted EXCEPT ![p] = @ \/ AlmostFull(segs[p])]
     /\ Release(t)
     /\ Return(t, "ok")
     /\ UNCHANGED <<segs, grow_mtx, world, shared, calls>>

Rescan(t) ==
  /\ At(t, "rescan")
  /\ Acquire(t)
  /\ Goto(t, "scan")
  /\ Set(t, [loc[t] EXCEPT !.i = 1, !.grown = TRUE])
  /\ UNCHANGED <<segs, grow_mtx, hinted, world, shared, calls, outcome>>

----------------------------------------------------------------------------
(* grow(min_bytes), from allocate or called by the program.                *)

Grow(t, n) ==
  /\ attached[P(t)]
  /\ Call(t, "growLock", [NoLoc EXCEPT !.bytes = n, !.op = "grow"])
  /\ UNCHANGED <<segs, list_mtx, grow_mtx, hinted, world, shared>>

MinBytes(t) ==
  IF loc[t].op = "grow" THEN loc[t].bytes
  ELSE (loc[t].bytes + kMinSegmentSize) % Word

\* Where the thread goes when grow has returned.
AfterGrow(t) ==
  IF loc[t].op = "alloc" THEN Goto(t, "rescan") /\ UNCHANGED <<loc, outcome>>
                         ELSE Return(t, "ok")

\* Growing without grow_mtx_.
GrowLock_NoMutex(t) ==
  /\ At(t, "growLock")
  /\ Goto(t, "growCheck")
  /\ UNCHANGED <<segs, list_mtx, grow_mtx, hinted, world, shared, loc,
                 calls, outcome>>

GrowLock(t) ==
  /\ At(t, "growLock")
  /\ grow_mtx[P(t)] = None
  /\ grow_mtx' = [grow_mtx EXCEPT ![P(t)] = t]
  /\ Goto(t, "growCheck")
  /\ UNCHANGED <<segs, list_mtx, hinted, world, shared, loc, calls,
                 outcome>>

\* A chunk just as large as needed.
Plan_NoDouble(t, n) ==
  Set(t, [loc[t] EXCEPT !.chunk = align_up(n, PageSize),
                        !.cur = Mapped(segs[P(t)])])

\* The size of the new sub-segment and its file offset, for at least n.
Plan(t, n) ==
  LET s == segs[P(t)]
  IN Set(t, [loc[t] EXCEPT
       !.chunk = align_up(max(n, Last(s).size * kGrowMultiplier), PageSize),
       !.cur = Mapped(s)])

GrowCheck(t) ==
  /\ At(t, "growCheck")
  /\ Briefly(t)
  /\ Intact(segs[P(t)])
  /\ IF TotalFree(segs[P(t)]) >= MinBytes(t)
     THEN EndGrow(t) /\ AfterGrow(t)
     ELSE /\ Plan(t, MinBytes(t))
          /\ Goto(t, "growFile")
          /\ UNCHANGED <<grow_mtx, outcome>>
  /\ UNCHANGED <<segs, hinted, world, shared, calls>>

\* Growing the file to the size of the new chunk, not by it.
GrowFile_NoBase(t) ==
  LET new == loc[t].chunk
  IN /\ At(t, "growFile")
     /\ fileSize' = new
     /\ heap' = [o \in {x \in DOMAIN heap : x + heap[x].size <= new} |-> heap[o]]
     /\ Goto(t, "growAdd")
     /\ UNCHANGED <<segs, list_mtx, grow_mtx, hinted, world, tbl, live,
                    loc, calls, outcome>>

\* shm_grow sets the size of the named file, which cuts off what lies beyond
\* it (create_anon reserves the new chunk). Beyond Limit the system refuses.
GrowFile(t) ==
  LET sum == loc[t].cur + loc[t].chunk
      new == IF Anon THEN sum ELSE sum % Word
  IN /\ At(t, "growFile")
     /\ IF new > Limit \/ name = "unlinked"
        THEN /\ EndGrow(t)
             /\ Return(t, "os_refused")
             /\ UNCHANGED <<fileSize, heap>>
        ELSE /\ fileSize' = new
             /\ heap' = [o \in {x \in DOMAIN heap : x + heap[x].size <= new} |->
                           heap[o]]
             /\ Goto(t, "growAdd")
             /\ UNCHANGED <<grow_mtx, loc, outcome>>
     /\ UNCHANGED <<segs, list_mtx, hinted, world, tbl, live, calls>>

\* The heaps after a new one is constructed over [off, off + size).
Construct(off, size) ==
  [o \in {x \in DOMAIN heap : x + heap[x].size <= off \/ off + size <= x}
         \cup {off} |->
     IF o = off THEN [size |-> size, blocks |-> {}, ended |-> FALSE]
     ELSE heap[o]]

\* Releasing list_mtx_ before update_segment_table.
Add_EarlyUnlock(t) ==
  LET r == loc[t]
  IN /\ segs' = [segs EXCEPT ![P(t)] = Append(@, [off |-> r.cur, size |-> r.chunk])]
     /\ heap' = Construct(r.cur, r.chunk)
     /\ Goto(t, "tblEntry")
     /\ UNCHANGED <<list_mtx, grow_mtx, loc, outcome>>

\* add_segment_shm (add_segment_anon_preallocated): map, list, construct.
\* list_mtx_ stays held for update_segment_table.
Add(t) ==
  LET r == loc[t]
  IN /\ segs' = [segs EXCEPT ![P(t)] = Append(@, [off |-> r.cur, size |-> r.chunk])]
     /\ heap' = Construct(r.cur, r.chunk)
     /\ IF Anon
        THEN /\ AfterGrow(t)
             /\ EndGrow(t)
             /\ Briefly(t)
        ELSE /\ Acquire(t)
             /\ Goto(t, "tblEntry")
             /\ UNCHANGED <<loc, outcome, grow_mtx>>

GrowAdd(t) ==
  /\ t \in App
  /\ At(t, "growAdd")
  /\ list_mtx[P(t)] = None
  /\ CanMap(loc[t].cur, loc[t].chunk)
  /\ loc[t].cur + loc[t].chunk <= fileSize
  /\ Add(t)
  /\ UNCHANGED <<hinted, world, fileSize, tbl, live, calls>>

\* The chunk cannot be mapped: runtime_error leaves grow.
GrowAddFail(t) ==
  /\ t \in App
  /\ At(t, "growAdd")
  /\ Briefly(t)
  /\ MapFails(loc[t].cur, loc[t].chunk)
  /\ EndGrow(t)
  /\ Return(t, "map_failed")
  /\ UNCHANGED <<segs, hinted, world, shared, calls>>

\* update_segment_table, under the table's own mutex: entry, then count.
TblEntry(t) ==
  LET n == Len(segs[P(t)])
  IN /\ At(t, "tblEntry")
     /\ tbl.mtx = None
     /\ tbl' = [tbl EXCEPT !.mtx = t,
                  !.entries = [i \in 1..max(n, Len(@)) |->
                     IF i = n THEN segs[P(t)][n]
                     ELSE IF i <= Len(@) THEN @[i] ELSE [off |-> 0, size |-> 0]]]
     /\ Goto(t, "tblCount")
     /\ UNCHANGED <<segs, list_mtx, grow_mtx, hinted, world, fileSize,
                    heap, live, loc, calls, outcome>>

\* Leaving the count for the next growth to publish.
TblCount_OffByOne(t) ==
  /\ At(t, "tblCount")
  /\ tbl' = [tbl EXCEPT !.mtx = None, !.count = Len(segs[P(t)]) - 1]
  /\ Release(t)
  /\ EndGrow(t)
  /\ AfterGrow(t)
  /\ UNCHANGED <<segs, hinted, world, fileSize, heap, live, calls>>

TblCount(t) ==
  /\ At(t, "tblCount")
  /\ tbl' = [tbl EXCEPT !.mtx = None, !.count = Len(segs[P(t)])]
  /\ Release(t)
  /\ EndGrow(t)
  /\ AfterGrow(t)
  /\ UNCHANGED <<segs, hinted, world, fileSize, heap, live, calls>>

----------------------------------------------------------------------------
(* grow_background, by the worker thread p of process p.                   *)

\* Growing although try_to_lock on grow_mtx_ failed.
BgTake_NoLock(p) ==
  /\ At(p, "idle")
  /\ hinted[p]
  /\ hinted' = [hinted EXCEPT ![p] = FALSE]
  /\ Goto(p, "bgCheck")
  /\ UNCHANGED <<segs, list_mtx, grow_mtx, world, shared, loc, calls,
                 outcome>>

BgTake(p) ==
  /\ At(p, "idle")
  /\ hinted[p]
  /\ hinted' = [hinted EXCEPT ![p] = FALSE]
  /\ IF grow_mtx[p] = None
     THEN grow_mtx' = [grow_mtx EXCEPT ![p] = p] /\ Goto(p, "bgCheck")
     ELSE UNCHANGED <<grow_mtx, pc>>
  /\ UNCHANGED <<segs, list_mtx, world, shared, loc, calls, outcome>>

BgCheck(p) ==
  /\ At(p, "bgCheck")
  /\ Briefly(p)
  /\ Last(segs[p]).off \in DOMAIN heap
  /\ IF AlmostFull(segs[p])
     THEN /\ Plan(p, kMinSegmentSize)
          /\ Goto(p, "growFile")
          /\ UNCHANGED <<grow_mtx, outcome>>
     ELSE EndGrow(p) /\ Return(p, "ok")
  /\ UNCHANGED <<segs, hinted, world, shared, calls>>

\* The list is checked again: another growth may have been discovered.
BgAdd(p) ==
  LET fresh == Anon \/ loc[p].cur = Mapped(segs[p])
  IN /\ At(p, "growAdd")
     /\ list_mtx[p] = None
     /\ fresh => /\ CanMap(loc[p].cur, loc[p].chunk)
                 /\ loc[p].cur + loc[p].chunk <= fileSize
     /\ IF fresh THEN Add(p)
                 ELSE /\ EndGrow(p)
                      /\ Return(p, "ok")
                      /\ UNCHANGED <<segs, list_mtx, heap>>
     /\ UNCHANGED <<hinted, world, fileSize, tbl, live, calls>>

\* The exception of a failed mapping leaves the noexcept grow_background.
BgAddFail(p) ==
  /\ At(p, "growAdd")
  /\ list_mtx[p] = None
  /\ loc[p].cur = Mapped(segs[p])
  /\ MapFails(loc[p].cur, loc[p].chunk)
  /\ Die(p)

----------------------------------------------------------------------------
(* deallocate, and segmented_offset_ptr::get with lazy discovery.          *)

\* The registry and smgr_for find the block's sub-segment in this process.
Deallocate(t, b) ==
  /\ attached[P(t)]
  /\ Contains(segs[P(t)], b.off + b.at)
  /\ Briefly(t)
  /\ Call(t, "free", [NoLoc EXCEPT !.blk = b])
  /\ live' = live \ {b}
  /\ UNCHANGED <<segs, grow_mtx, hinted, world, fileSize, tbl, heap>>

\* smgr->deallocate, after list_mtx_ is released.
FreeBlock(t) ==
  LET b == loc[t].blk
  IN /\ At(t, "free")
     /\ b.off \in DOMAIN heap
     /\ heap' = [heap EXCEPT ![b.off].blocks = @ \ {[at |-> b.at, len |-> b.len]}]
     /\ Return(t, "ok")
     /\ UNCHANGED <<segs, list_mtx, grow_mtx, hinted, world, fileSize,
                    tbl, live, calls>>

\* get() on a pointer to block b: find_segment_by_file_offset fails, and
\* discover_growth_fn is called next. (Found at once, get changes nothing.)
Get(t, b) ==
  /\ attached[P(t)]
  /\ Briefly(t)
  /\ ~Contains(segs[P(t)], b.off + b.at)
  /\ Call(t, "disc", [NoLoc EXCEPT !.blk = b])
  /\ UNCHANGED <<segs, grow_mtx, hinted, world, shared>>

\* lazy_discover_growth: mapped meanwhile, or the published count is read.
Discover(t) ==
  /\ At(t, "disc")
  /\ IF loc[t].blk.off + loc[t].blk.at < Mapped(segs[P(t)])
     THEN Briefly(t) /\ Goto(t, "find") /\ UNCHANGED loc
     ELSE /\ Acquire(t)
          /\ Goto(t, "discAdd")
          /\ Set(t, [loc[t] EXCEPT !.i = tbl.count])
  /\ UNCHANGED <<segs, grow_mtx, hinted, world, shared, calls, outcome>>

DiscoverAdd(t) ==
  /\ At(t, "discAdd")
  /\ AddEntry(t)
  /\ UNCHANGED <<list_mtx, grow_mtx, hinted, world, shared, pc, loc,
                 calls, outcome>>

\* The exception of a failed mapping leaves the noexcept get().
DiscoverFail(t) ==
  /\ At(t, "discAdd")
  /\ Len(segs[P(t)]) < loc[t].i
  /\ LET e == tbl.entries[Len(segs[P(t)]) + 1] IN MapFails(e.off, e.size)
  /\ Die(t)

DiscoverEnd(t) ==
  /\ At(t, "discAdd")
  /\ Len(segs[P(t)]) >= loc[t].i
  /\ Release(t)
  /\ IF loc[t].blk.off + loc[t].blk.at < Mapped(segs[P(t)])
     THEN Goto(t, "find") /\ UNCHANGED <<loc, outcome>>
     ELSE Return(t, "null")
  /\ UNCHANGED <<segs, grow_mtx, hinted, world, shared, calls>>

Find(t) ==
  /\ At(t, "find")
  /\ Briefly(t)
  /\ Return(t, IF Contains(segs[P(t)], loc[t].blk.off + loc[t].blk.at)
               THEN "ok" ELSE "null")
  /\ UNCHANGED <<segs, grow_mtx, hinted, world, shared, calls>>

----------------------------------------------------------------------------
(* ~segmented_segment_manager, and the end of a process.                   *)

\* No other thread of the process is in a call; unregister_manager drops the
\* hint and waits for the worker. The destructor of every mapped heap runs:
\* it frees nothing, but the object is over.
Close(t) ==
  LET p == P(t)
  IN /\ p \in MayClose
     /\ attached[p]
     /\ \A u \in Thread : P(u) = p => pc[u] = "idle"
     /\ Call(t, "close", NoLoc)
     /\ hinted' = [hinted EXCEPT ![p] = FALSE]
     /\ attached' = [attached EXCEPT ![p] = FALSE]
     /\ heap' = [o \in DOMAIN heap |->
          [heap[o] EXCEPT !.ended =
             @ \/ \E i \in 1..Len(segs[p]) : segs[p][i].off = o]]
     /\ UNCHANGED <<segs, list_mtx, grow_mtx, alive, name, fileSize, tbl, live>>

\* ~sub_segment: unmap, which ends anonymous memory; the creator's
\* sub-segment 0 takes the name of the file with it.
CloseEnd(t) ==
  /\ At(t, "close")
  /\ segs' = [segs EXCEPT ![P(t)] = <<>>]
  /\ name' = IF P(t) = Creator /\ ~Anon THEN "unlinked" ELSE name
  /\ heap' = IF Anon THEN [o \in {} |-> 0] ELSE heap
  /\ live' = IF Anon THEN {} ELSE live
  /\ Return(t, "ok")
  /\ UNCHANGED <<list_mtx, grow_mtx, hinted, alive, attached, fileSize, tbl,
                 calls>>

\* SIGKILL: what the process held in shared memory stays as it is.
Kill(p) ==
  /\ p \in MayKill
  /\ alive[p]
  /\ Die(p)

----------------------------------------------------------------------------

\* A thread is about to touch a heap that another process has truncated
\* away, or to construct one beyond the end of the file.
Faulting(t) ==
  LET p == P(t)
      r == loc[t]
      lastGone == Last(segs[p]).off \notin DOMAIN heap
  IN \/ At(t, "scan") /\ r.i <= Len(segs[p]) /\ segs[p][r.i].off \notin DOMAIN heap
     \/ At(t, "hint") /\ lastGone
     \/ At(t, "growCheck") /\ list_mtx[p] = None /\ ~Intact(segs[p])
     \/ At(t, "bgCheck") /\ list_mtx[p] = None /\ lastGone
     \/ At(t, "free") /\ r.blk.off \notin DOMAIN heap
     \/ /\ At(t, "growAdd") /\ list_mtx[p] = None /\ CanMap(r.cur, r.chunk)
        /\ r.cur + r.chunk > fileSize
        /\ t \in Proc => r.cur = Mapped(segs[p])

\* SIGBUS.
Fault(t) == Faulting(t) /\ Die(t)

Start(t) ==
  \/ Attach(t)
  \/ /\ t \in Allocators
     /\ \/ \E n \in Sizes : Allocate(t, n) \/ Grow(t, n)
        \/ \E n \in Counts : AllocateN(t, n)
  \/ \E b \in live : Deallocate(t, b) \/ Get(t, b)
  \/ Close(t)

\* A call in progress.
Step(t) ==
  \/ AttachAdd(t) \/ AttachFail(t) \/ AttachEnd(t)
  \/ Scan(t) \/ ScanEnd(t) \/ Hint(t) \/ Rescan(t)
  \/ GrowLock(t) \/ GrowCheck(t) \/ GrowFile(t) \/ GrowAdd(t) \/ GrowAddFail(t)
  \/ TblEntry(t) \/ TblCount(t)
  \/ FreeBlock(t)
  \/ Discover(t) \/ DiscoverAdd(t) \/ DiscoverFail(t) \/ DiscoverEnd(t) \/ Find(t)
  \/ CloseEnd(t)
  \/ Fault(t)

Background(p) ==
  \/ BgTake(p) \/ BgCheck(p) \/ GrowFile(p) \/ BgAdd(p) \/ BgAddFail(p)
  \/ TblEntry(p) \/ TblCount(p) \/ Fault(p)

\* The table's mutex is held by a process that is gone: it is not robust,
\* and nobody will release it.
TableOrphaned == tbl.mtx # None /\ ~alive[P(tbl.mtx)]

\* Every thread has made its calls, its process is gone, or those that are
\* left may wait for a dead process.
Done ==
  /\ TableOrphaned \/ \A t \in Thread : alive[P(t)] => pc[t] = "idle"
  /\ UNCHANGED vars

Next ==
  \/ \E t \in App : Start(t) \/ Step(t)
  \/ \E p \in Proc : Background(p) \/ Kill(p)
  \/ Done

Spec == Init /\ [][Next]_vars

\* A thread in a call, and the worker, run whenever they can; calls are
\* finitely many, so a mutex is in the end free for whoever waits for it.
Fairness ==
  /\ \A t \in App : WF_vars(Step(t))
  /\ \A p \in Proc : WF_vars(Background(p))

FairSpec == Spec /\ Fairness

----------------------------------------------------------------------------
(* Properties.                                                             *)

PCs == {"idle", "attach", "scan", "hint", "rescan", "growLock", "growCheck",
        "growFile", "growAdd", "tblEntry", "tblCount", "bgCheck", "free", "disc",
        "discAdd", "find", "close"}
Outcomes == {"none", "ok", "no_space", "os_refused", "map_failed", "null"}
Segment == [off : Nat, size : Nat]
Block == [off : Nat, at : Nat, len : Nat, ask : Nat]

\* Every variable has its type; in particular a heap's free memory, which
\* the code keeps in a size_t, does not go below zero.
TypeOK ==
  /\ segs \in [Proc -> Seq(Segment)]
  /\ list_mtx \in [Proc -> Thread \cup {None}]
  /\ grow_mtx \in [Proc -> Thread \cup {None}]
  /\ hinted \in [Proc -> BOOLEAN]
  /\ alive \in [Proc -> BOOLEAN]
  /\ attached \in [Proc -> BOOLEAN]
  /\ name \in {"anon", "linked", "unlinked"}
  /\ fileSize \in Nat
  /\ tbl.count \in Nat /\ tbl.entries \in Seq(Segment)
  /\ tbl.mtx \in Thread \cup {None}
  /\ \A o \in DOMAIN heap : o \in Nat /\ Free(heap[o]) \in Nat
  /\ \A b \in live : b \in Block
  /\ pc \in [Thread -> PCs]
  /\ \A t \in Thread :
       /\ {loc[t].bytes, loc[t].i, loc[t].cur, loc[t].chunk} \subseteq Nat
       /\ loc[t].blk \in Block
  /\ \A t \in App : calls[t] \in 0..MaxCalls[t]
  /\ outcome \in [App -> Outcomes]

\* A block the program holds lies in the file, in a heap that knows it, and
\* overlaps no other: no allocate, deallocate, growth or death of any thread or
\* process takes memory away from its owner or gives it out twice.
LiveBlocksSafe ==
  /\ \A b \in live :
       /\ b.off \in DOMAIN heap
       /\ [at |-> b.at, len |-> b.len] \in heap[b.off].blocks
       /\ b.off + b.at + b.len <= fileSize
  /\ \A b, c \in live :
       b # c => \/ b.off + b.at + b.len <= c.off + c.at
                \/ c.off + c.at + c.len <= b.off + b.at

\* A block is as large as what was asked for: n elements of T fit into what
\* segmented_allocator<T>::allocate(n) gives.
BlocksAsAsked == \A b \in live : b.len >= b.ask

\* Each process maps the file from its start without gap or overlap, no
\* further than its end, and any two processes agree on what both map: what
\* lets a pointer encoded in one process be resolved in another.
OneLayout ==
  \A p \in Proc :
    /\ Mapped(segs[p]) <= fileSize
    /\ \A i \in 1..Len(segs[p]) :
         /\ segs[p][i].off = IF i = 1 THEN 0
                             ELSE segs[p][i - 1].off + segs[p][i - 1].size
         /\ \A q \in Proc : i <= Len(segs[q]) => segs[q][i] = segs[p][i]

\* What the table's count publishes is complete: the entry describes a heap
\* that is constructed; and every block handed to the program, which it may
\* pass to other processes, lies in a published sub-segment.
PublishedBeforeUse ==
  LET published == {tbl.entries[i] : i \in 1..tbl.count}
  IN /\ \A e \in published : e.off \in DOMAIN heap /\ heap[e.off].size = e.size
     /\ \A b \in live : \E e \in published : e.off = b.off

\* get() never yields null for a block that was handed out, even when its
\* sub-segment was added by another process after this one attached.
GetResolves == \A t \in App : outcome[t] # "null"

\* What a thread touches is there: no allocation, growth or deallocation
\* reaches beyond the file, also after a growth that could not be mapped.
NoFault == \A t \in Thread : ~Faulting(t)

\* A mapping that fails during lazy discovery makes get() return nullptr and
\* not end the process: "We'll return nullptr for safety".
GetSurvives == \A t \in App : pc[t] = "discAdd" => alive[P(t)]

\* shm_grow never makes the file shorter: "Grow an existing named SHM object".
FileNeverShrinks == [][fileSize' >= fileSize]_vars

\* Growth leaves existing heaps alone: none is constructed over or cut off,
\* and a block leaves its heap only by deallocate.
HeapsSurviveGrowth ==
  [][\A o \in DOMAIN heap :
       /\ o \in DOMAIN heap'
       /\ heap'[o].size = heap[o].size
       /\ \A b \in heap[o].blocks \ heap'[o].blocks :
            \E t \in App : /\ pc[t] = "free"
                           /\ loc[t].blk.off = o
                           /\ loc[t].blk.at = b.at /\ loc[t].blk.len = b.len
    ]_vars

\* An allocation is refused only when the system refuses more memory: the
\* manager "grows if no sub-segment has sufficient free space".
AllocFailsOnlyIfRefused == \A t \in App : outcome[t] # "no_space"

\* The manager "grows automatically": what shm_grow obtained can be mapped.
GrowthIsMapped == \A t \in App : outcome[t] # "map_failed"

\* Every call returns, unless its process dies or another died in
\* update_segment_table: no lock order or lost release among list_mtx_,
\* grow_mtx_ and the table's mutex blocks a thread, and no other place in
\* the code is one where a death blocks the others.
AllReturn ==
  \A t \in App : pc[t] # "idle" ~>
    (pc[t] = "idle" \/ ~alive[P(t)] \/ TableOrphaned)

\* Each growth at least doubles the last sub-segment, so the table has an
\* entry for every sub-segment the system can give: update_segment_table
\* never meets its "Too many sub-segments", by which time it would have
\* listed a sub-segment that it cannot publish.
TableSuffices == \A p \in Proc : Len(segs[p]) <= kMaxSubSegments

\* Nobody uses a heap after its destructor has run. (Any process that closes
\* runs it: see the README.)
HeapsOutliveUsers ==
  \A t \in Thread :
    LET p == P(t)
        used == CASE At(t, "scan") /\ loc[t].i <= Len(segs[p]) ->
                       {segs[p][loc[t].i].off}
                  [] At(t, "free") -> {loc[t].blk.off}
                  [] OTHER -> {}
    IN \A o \in used \cap DOMAIN heap : ~heap[o].ended

====
