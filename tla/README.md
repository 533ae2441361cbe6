# Verification of Memnon

Memnon (`src/include/segmented_interprocess/`) is a header-only C++17 library:
a managed memory that grows by adding *sub-segments*, each with a Boost
rbtree heap inside, in a named shared-memory file or in anonymous memory, with
an offset pointer that several processes can follow at different mapping
addresses. This directory holds TLA+ models of it, the TLC runs that check them
on small instances, and TLAPS proofs of the most important properties for every
instance.

    tlc -workers 2 -config SegmentManagerShared.cfg MCSegmentManager
    tlapm PrefetchWorkerProofs.tla

`PROJECT.json` lists the components, every run with its properties, for each
property a mutation of the model that violates it, the source lines of every
definition, the hazards and the findings.

In what follows SSM is `segmented_segment_manager.hpp`, SOP is
`segmented_offset_ptr.hpp`, SMM is `segmented_managed_memory.hpp`, and the other
headers are called by their names.

## 1. The system

| Component | Source | State | Operations |
|---|---|---|---|
| prefetch worker | `prefetch_worker.hpp`, SSM 660-740 | one thread per process, `queue_`, `working_on_`, `active_managers_`, `stop_`, `mtx_`, `sleep_mtx_`, `cv_` | `register_manager`, `unregister_manager`, `hint_growth`, `worker_loop`, `~prefetch_worker` |
| segment manager | SSM, `sub_segment.hpp` | per process: `segments_`, `list_mtx_`, `grow_mtx_`; shared: the file, the segment table, the heaps | `allocate`, `deallocate`, `grow`, `grow_background`, `lazy_discover_growth`, `open_all_segments`, the destructor |
| page trie | `ncrit_trie.hpp` | nodes with atomic slots | `insert_leaf`, `clear_leaf`, `traverse_leaf`, `destroy_subtree` |
| registry and lookup cache | `segment_registry.hpp`, `ncrit_trie.hpp` | page to `sub_segment*`, and an LRU cache per thread | `register_segment`, `unregister_segment`, `find` |
| creation, opening, removal | SSM constructors, `detail/platform.hpp`, SMM | the name, the file's size, the table's magic, count and entry 0 | `create_only`, `open_only`, `open_or_create`, destructors, `shm_remove` |
| offset pointer | SOP | `m_offset` of each pointer | `get`, `set`, constructors, casts, assignments, arithmetic, comparisons |
| named objects | SSM 210-300, SMM 135-150 | an index of names per sub-segment | `construct`, `find`, `destroy`, `find_or_construct` |
| managed memory facade | SMM | none of its own | forwards |
| allocator adaptor | `segmented_allocator.hpp` | none | `allocate(n)`, `deallocate`, `max_size` |
| shared-memory spinlock | `shm_spinlock.hpp` | one word per heap | `lock`, `try_lock`, `unlock` |
| platform layers | `detail/platform.hpp` | the operating system's | POSIX and Windows calls |
| inner heap | Boost (external) | blocks and names of one sub-segment | allocation, index |

How they interact. `allocate` scans the sub-segments under `list_mtx_`, and if
the last one is almost full calls `hint_growth` with the mutex held; the worker
later calls `grow_background`, which takes `grow_mtx_` and then `list_mtx_`
twice. When no sub-segment fits, `allocate` releases `list_mtx_`, calls `grow`
and scans again. Growth enlarges the file, maps the chunk, registers its pages
in the trie, constructs a heap in it, appends it to `segments_` and publishes it
in the table of sub-segment 0. Another process finds out when a pointer leads
beyond what it has mapped: `get` calls `lazy_discover_growth`. `get` and `set`
resolve addresses with `find`, that is, with the thread's cache and then the
trie. `construct`, `find` and `destroy` hold `list_mtx_` while they go through
the sub-segments, and run the object's constructor or destructor under it.

Hard to get right, and hard to test:

* three process-local mutexes, one in shared memory, an atomic queue lock and a
  condition variable, taken in several orders;
* values computed from `segments_` and used after its mutex is released;
* readers of the segment table that take no lock;
* caches validated by one word, and addresses that are given out again;
* system calls that fail half-way, in constructors, in `noexcept` functions and
  on the worker thread;
* processes that start together on one name, or are killed on the way.

What makes each component correct, in a line:

* worker: no manager is used after it is unregistered, every hint is served,
  every call returns;
* segment manager: live blocks are disjoint and stay inside mapped, published
  memory; the layout is one for all processes; the memory never shrinks and no
  growth touches what is there; every call returns;
* trie: it behaves as a map from pages to values, and no node is lost, shared
  or used after deletion;
* registry: `find` returns the owner of the address;
* creation: whoever is attached has a finished heap, reaches all of it, and
  shares it with the others of the name; nothing is left behind;
* spinlock: one thread is inside the heap and finds it whole, somebody who
  waits is served, and a death inside lets nobody in any more;
* offset pointer: every process resolves it to the place that was meant, and
  compares it as the others do;
* named objects: one object per name, found by everyone.

The `hazards` of `PROJECT.json` are these points at their lines, each with the
properties that would catch it.

## 2. The modules

| Module | Models | Uses |
|---|---|---|
| `HintService` | what a manager is promised by the worker (abstract) | |
| `PrefetchWorker` | the worker | implements `HintService` |
| `PrefetchWorkerProofs` | theorems | `PrefetchWorker` |
| `SegmentManager` | allocation, growth, discovery by several processes | the worker as `HintService`, the heaps as `AtomicHeap` describes them |
| `SegmentManagerProofs` | theorems | `SegmentManager` |
| `AtomicHeap` | a heap whose calls take effect in one step (abstract) | |
| `ShmSpinlock` | the spinlock around the calls of one heap, with deaths | implements `AtomicHeap` |
| `ShmSpinlockProofs` | theorems | `ShmSpinlock` |
| `PageMap` | a map from pages to values, with calls that overlap (abstract) | |
| `NcritTrie` | the trie, node by node | implements `PageMap` |
| `NcritTrieProofs` | theorems | `NcritTrie` |
| `SegmentRegistry` | registration page by page, `find`, caches | the trie as `PageMap` describes it, insertions without effect included |
| `SegmentRegistryProofs` | theorems | `SegmentRegistry` |
| `Lifecycle` | constructors, destructors and removal on one name, on POSIX and on Windows | |
| `LifecycleProofs` | theorems | `Lifecycle` |
| `OffsetPtr` | encoding and resolution of pointers | the registry as a lookup of ranges |
| `OffsetPtrProofs` | theorems | `OffsetPtr` |
| `NamedObjects` | the named-object operations | `allocate` and growth in outline |
| `NamedObjectsProofs` | theorems | `NamedObjects` |
| `MC*` | values of the constants that a `.cfg` cannot write, and symmetry | |

Conventions. `pc` holds program points; an action is named after the statement
or call it stands for and is one atomic access to shared state, or one critical
section when nothing in it can be seen from outside. A definition whose name
ends in `_Something` right before one without the suffix is a plausible bug in that definition;
the project uses it only to show that a property can fail. Bounds are
constants or are named `Max...` and `Limit`.

### 2.1 PrefetchWorker

`pc[m]` is the thread that owns manager `m` (a manager's methods are called by
its program; its destructor runs alone), `wpc` the worker, `exitpc` the
destructor of the static `prefetch_worker` at process exit. `queue`,
`working_on`, `active` and `stop` are the members of those names.
`HintLock..HintNotify` are the body of `hint_growth`, called with the manager's
`list_mtx_` held; `DtorDrain..DtorDestroy` are `unregister_manager`, statement
by statement; `WPop..WClear` and `WSleepLock..WCheckQ` are `worker_loop`, the
wait split into predicate, blocking and waking so that a notification can fall
between them; `WGrow..WAdd` are the lock operations of `grow_background`, in
which it needs the manager alive. `mtx_` and `sleep_mtx_` have no variables:
`MtxHeld` and `SleepHeld` say from the program points that they are held.
`queue_lock_` sections are single steps. Bound: `MaxQueue`.

### 2.2 SegmentManager

A process has its `segs` (file offset and size of each sub-segment), its two
mutexes and a pending hint; processes share `fileSize`, the table `tbl`, the
heaps (by file offset) and the blocks `live` that the program holds. `name` says
whether the memory is anonymous, a file with a name, or a file whose name is
gone. A thread is an application thread or the worker of its process.

* `Allocate` (the manager's call) and `AllocateN` (that of
  `segmented_allocator<T>`: `n * sizeof(T)` modulo `Word`, for any `n`: nothing
  compares it with `max_size`) start `Scan, ScanEnd, Hint, Rescan`, which are `allocate`;
* `Grow` is the program's own call; `GrowLock, GrowCheck, GrowFile, GrowAdd,
  GrowAddFail, TblEntry, TblCount` are `grow` down to `update_segment_table`,
  and `BgTake, BgCheck, BgAdd, BgAddFail` `grow_background` for what differs;
* `Deallocate, FreeBlock` are `deallocate`; `Get, Discover, DiscoverAdd,
  DiscoverFail, DiscoverEnd, Find` are `get` with `lazy_discover_growth`;
* `Attach...` is `open_all_segments` after sub-segment 0;
* `Close, CloseEnd` are `~segmented_segment_manager`: the destructor of every
  mapped heap (which marks it `ended`), then unmapping, with which the creator
  takes the name of the file away;
* `Kill` is SIGKILL at any point, `Fault` an access to memory that the file no
  longer backs (SIGBUS). What a dead process held in shared memory stays: the
  table's mutex is not robust, and `TableOrphaned` says that it was left locked.
  The heaps' own lock is in `ShmSpinlock`.

The constructor of a heap replaces whatever was at that offset. Sizes count
abstract units, `Header` of which each sub-segment loses, and sums that the code
computes in `size_t` are modulo `Word`. Boost's heap is external: a request fits if
there is a hole large enough, and the block is taken at the start of a hole, which
hole is left open; a request of 0 takes the smallest block (`Units`). Bounds: `Limit` (the system refuses a larger memory:
`ftruncate` or `mmap` fails) and `MaxCalls`. `LimitAssumption` says that memory ends
before `kMaxSubSegments` doublings, as 64 bits do in the code; that the table
is then never full is the invariant `TableSuffices`.

### 2.3 NcritTrie, SegmentRegistry

`NcritTrie` has one action per atomic access of a walk: `Descend` loads a child,
`Missing` finds none, `Alloc` or `Oom` obtain a node, `CasWin` and `CasLose` are
the two ends of the compare-exchange, and `StoreLeaf`, `ClearLeaf`, `LoadLeaf`
the last slot. `destroy_subtree` frees what it reaches when no call is in
progress. Acquire and release order what the code publishes, so the accesses
interleave. The low bit that marks a leaf is not modelled: the level says it.

`SegmentRegistry` takes from `PageMap` that a page operation is one step, and that an
insertion may have no effect: `insert_leaf` returns silently when a node of the path
cannot be allocated (`ncrit_trie.hpp:393`), and `register_segment` goes on. `nodes` are
the leaf nodes that exist (only for another one can memory be lacking), and `missed`, a
history variable, the pages it happened to. `Map, InsertLeaf, Registered` map and
register a sub-segment page by page,
`Unregister, ClearLeaf, Unmap` take it away, `FindHit, FindStale, FindMiss,
Walk, Expand, Use` are `find`: the cache first, then the trie, then
`expand_cache_bounds_top`, then the caller uses the answer. A program resolves
addresses only of memory that stays registered meanwhile. `ReusePtr` lets a
new `sub_segment` have the address of a deleted one. `OpenFails` is
`open_all_segments` throwing after the registration of sub-segment 0: the object
is deleted, its pages stay in the trie, and the model calls it *lost*. Pages are
the unit of addresses, as sub-segments are page-aligned.

### 2.4 Lifecycle

`os` is the platform of the build. `Start` enters a constructor. `shm_create` is
`Unlink, Excl, Exists, Trunc, Mmap, CreateFails` on POSIX and `CreateAlways,
CreateRefused, SetEnd, Mmap, ViewFails` on Windows; `Heap, Magic, Count, Entry` are
the construction of the heap and `init_segment_table`, one store each; `Open,
OpenFails, Check, BadMagic, ReadSize, Reopen, Rest` are `open_all_segments`, which
maps `kMinSegmentSize` first and then opens the name again for the full size;
`Close` and `Destroy` the destructors, `Remove` is `shm_remove`; `Throw` is what each
constructor does on an exception, which for `open_or_create` is to create. `Crash`
is SIGKILL at any point. A file lives as long as it is mapped, with or without a
name. Sizes of all creators are the same. `checked` is a history variable: the
file whose magic number a process has read or written.

The systems are external and modelled by what their interfaces say. POSIX: a
mapping may reach beyond the end of the file and faults there (`Fault`). Windows:
`CREATE_ALWAYS` empties an existing file and is refused while a view of it is
mapped; a view must lie in the file when it is made, so an empty file cannot be
mapped; `DeleteFile` may be refused while the file is open or mapped.

### 2.5 OffsetPtr

A pointer lives in a *cell* (in shared memory, in anonymous memory, on a stack)
and is meant for a *place*; `target` is a history variable with what was meant.
`find`, `find_segment_by_file_offset`, `get`, `encode`, `refused` and
`inc_offset` translate the functions of the header, with addresses and
`m_offset` modulo `Word`; `equal`, `less` and `minus` the comparisons and the
difference. `Get` is a dereference, which may discover growth; `ConstructFrom`
and `ConstructCopy` are the constructors, `Cast` the pointer casts, `Assign`,
`AssignNull`, `Copy`, `Advance`, `PostAdvance` and `Plus` the operators, and `Grow`
adds the next sub-segment. `get` and `set` are single steps: a pointer has one
writer at a time, as any other object. One process grows the memory.

Three assumptions say where things are. `OffsetPtrAssumption` gives the types;
`MappingAssumption` says that the file and every mapping fit the word and that what
one process maps does not overlap, which is what `mmap` gives; `LocationAssumption`
that a pointer or a place lies in its area, that no place is in the first two bytes
of a sub-segment, which are the heap's own (Boost's header, and the table in
sub-segment 0), and that no pointer leads to the second byte of the pointer object
itself. The last two are what the value 1 of `kNull` rests on (SOP:132-136): an
encoding equal to 1 would mean just such a place.

### 2.6 NamedObjects

A thread makes calls from `Uses[t]`. `BeginScan` takes `list_mtx_`, `FindHit,
FindNext, FindMiss`, `DestroyHit...`, `TryHit, TryNext, TryMiss` are the loops
over `segments_`, one heap call a step; `GrowLock, GrowSkip, GrowNeeded, GrowAdd,
GrowRefused` the growth between the two attempts of `construct`, `BackHit,
BackMiss` the second attempt. Space is counted in objects: `Capacity[i]` of
sub-segment `i`, and `Padding` for the 1024 bytes that `construct` adds to
its request. `Allocates`
and `Frees` are the names whose constructor or destructor uses the memory; a
thread that locks a `std::mutex` it holds never goes on.

Two history variables serve the properties: `there[t]`, whether an object of the name
has been there since `t`'s call, and `misused`, the names used in one of the two ways
in which the code lets a second object come about: `construct` called for a name that
exists or is being made (`Call`), and a `find_or_construct` whose search ends in vain while another
thread is making the name (`FindMiss`).

### 2.7 ShmSpinlock

A thread of any attached process calls a heap under `shm_spinlock`: `Exchange` is
`flag_.exchange(true)` of `lock` and of `try_lock`, `Spin` one load of the inner loop,
`Unlock` the store. The guarded call is external and changes the heap in two
writes, `First` and `Second`, so that a half-changed heap is a state others could
meet. `Kill` ends a thread anywhere, and what it held stays held. `AtomicHeap`
says what callers get of it, and that is what `SegmentManager` builds on: one
step per heap call. `detail::spinlock`, which guards the worker's queue
(`prefetch_worker.hpp:32`), is the same protocol.

## 3. Runs

Passing runs first; for each, what the instance contains and why it is enough.

* `worker` (PrefetchWorker.cfg, 8 400 states): two managers, a queue of three.
  Two managers are what the interesting races need: the last one leaving while
  another registers, hints of both in the queue, the worker growing one while
  the other is destroyed. The safety part is proved for any number. The queue
  never needs a third entry for two managers to get ahead of each other.
* `shared_growth` (SegmentManagerShared.cfg, 646 000): one process
  allocates and grows (with its worker), by the unit and by elements of two units
  (counts 1, 31, 32 and 33 of a `Word` of 64: the largest product, one that wraps to 0,
  and one that wraps to 2; both are granted, as small blocks), a second one attaches at any time, resolves and frees; three calls each, any
  mapping may fail, both may close, and the first may be killed. `Limit` 14 admits two
  growths of doubled size (2, 4, 8) and a refusal, so that sub-segments are found by
  attaching, by discovery, and two at once, and the three table entries are all used.
* `peers_return` (SegmentManagerPeers.cfg, 60 000): three threads, on anonymous
  memory, or as two processes that both grow shared memory, with failing mappings and
  one process that may be killed. Requests and `Limit` 7 are such that one process
  grows to 7 and the other, with the older list, to 6, which cuts off memory that the
  first then touches. Memory is not safe there (see section 5), but every call
  returns, its process dies, or it waits for the table's mutex behind a process that
  was killed with it.
* `heap_lock` (ShmSpinlock.cfg, 49 000): three threads, two blocks, `lock` and `try_lock`,
  two threads that may be killed. Three threads are needed for one to be passed
  over while two others alternate; two blocks for a heap that is neither empty nor
  full. The safety part is proved for any number.
* `trie` (NcritTrie.cfg, 208 000): two threads, three pages of which two share a leaf and
  the third parts from them at the root, fan-out 2 and 3 levels (the code: 4
  levels of 512), two values, five nodes besides the root, so that an insertion
  never waits for a node, while `Oom` may deny it one at any time.
* `registry` (SegmentRegistry.cfg, 1 565 000): two threads, three objects, three pages,
  of which two share a leaf node (`kFanOut` 2, the code: 512), any of whose nodes may be
  denied, sub-segments of one or two pages, caches of two entries (the code: 16): enough
  for an entry to be shifted out, moved to the front, evicted from either place,
  and for ranges that overlap removed ones in part.
* `lifecycle` (Lifecycle.cfg, 1 750 000, two minutes): a process that creates, one that
  opens or creates, and an opener that may also remove the name, two constructor calls
  each, on both platforms, with failures and kills at every step. Sub-segment 0 has
  twice the size that openers map first. Proved for any number of processes.
* `offset_ptr` (OffsetPtr.cfg, 11 600): addresses of 5 bits, two sub-segments of 6
  bytes that the two processes map in opposite order, anonymous memory and
  stacks beside them, five pointers, five places; all differences wrap somewhere.
* `named` (NamedObjects.cfg, 192 000): two threads of one process, three calls each, that
  make the same two names (one of them with `construct`, the rest with
  `find_or_construct`) and a third one, and destroy and look for each other's objects;
  room for one object in sub-segment 1 and two in sub-segment 2, then the system
  refuses. Both ways of misusing a name happen, so do a `find_or_construct` that finds
  the other's object, one that makes it anew after a destruction, and growth in between.

Type invariants are not among the properties of the runs: those of the modules with
proofs are parts of what is proved, the others were checked on the same instances.

Three runs end in a violation, which is their purpose; each is a finding:

* `worker_join` (`DtorReturns`): `unregister_manager` sets `stop_` and notifies
  without passing through `sleep_mtx_` (SSM:690). Between the worker's predicate and its
  wait nobody hears it, and `join` hangs with `mtx_` held. `hint_growth` and
  `~prefetch_worker` take the mutex, and `HintTaken` and `ExitReturns` hold.
* `peers_overlay` (`HeapsSurviveGrowth`): growth of several processes is not serialised:
  the offset comes from the process's own list, and only
  `update_segment_table` takes the shared mutex. `sub_segment.hpp:84` says
  that it serialises `grow()`.
* `registry_stale` (`LookupFinds`): a stale cache entry that covers a mapped
  address makes `find` return nullptr once; the comment at
  `ncrit_trie.hpp:290` says that it must fall back to the traversal. What does
  hold is `MissEvicts`: each such miss removes the entry. This run denies no node
  (`OomMayHappen` is FALSE), so that the cache alone is to blame.

`CHECK_DEADLOCK FALSE` stands in the models that may really end: the trie after
its destruction, the registry when no unused object is left, processes that have
made their constructor calls or were killed, threads that have made their calls.
PrefetchWorker and SegmentManager have explicit final steps and check deadlock, as
does ShmSpinlock, whose spinning threads always have a step.

### Fairness

* PrefetchWorker (`FairSpec`): weak fairness for the worker thread and for every
  call in progress: threads run. Strong fairness for acquiring a contended
  mutex (`WGrowLock`, `WAddLock`, `HintSync`, `DtorLock`, `ExitSync`): a mutex that is free
  again and again is obtained at last, which the systems' mutexes
  provide in practice and without which nothing about termination could be said. No fairness for starting
  a call, a growth hint, a destruction or exit, nor for spurious wake-ups.
* SegmentManager and NamedObjects: weak fairness of each thread inside a call.
  As the calls are finitely many (`MaxCalls`), a waiting thread finds the mutex
  free for good in the end; strong fairness is not needed.
* ShmSpinlock: weak fairness of each thread inside a call. Nothing orders those who
  spin, so what holds is `SomeoneServed`, the fairness of `AtomicHeap`: a call gets in as long as
  no holder was killed, though not a particular one, which may lose every race.
* The others state safety only and have no fairness.

## 4. Proofs

**PrefetchWorkerProofs**, for every finite set of managers and every
`MaxQueue > 0` (`ManagersAssumption`, `MaxQueueAssumption`). The inductive
invariant `IInv` adds to `TypeOK`:

* `ActiveCount`: `active_managers_` is the number of managers between
  registration and decrement; without it the decrement could leave the
  naturals, and "none left" would not mean that no manager needs the thread;
* `Publishing`: `working_on_` and the worker's local agree and are set exactly
  during a growth; it turns the wait of `unregister_manager` into a fact about
  the worker's position;
* `MtxInv`: at most one owner is between lock and join, and none is counted then;
* `StopInv`: the thread ends only on `stop_`, which is set only when no manager is left, and
  is not joinable exactly when none is registered or joining.

`NoGrowAfterUnregister` and `NoDanglingHint` are parts of `IInv`;
`ThreadLifetime` follows from it. Each action is a lemma. The theorems are
`TypeCorrect`, `NoUseAfterUnregister`, `QueueIsClean`, `ThreadIsSound`, and
`Refinement`: the worker implements `HintService`, mapping the managers to open
and closing ones by their program points, `pending` to the elements of the
queue and `serving` to `working_on_`. The refinement needs the invariant for
one thing above all: what `HintService` calls retiring a manager must find it neither pending nor served.

**SegmentRegistryProofs**, for any threads, pages, objects, sub-segment sizes and any cache size
(`RegistryAssumption`), assuming `~ReusePtr`. `IInv` adds to `TypeOK`:

* `Disjoint`, `InPages`: mapped sub-segments do not overlap (what `mmap` gives);
* `Workers`, `Apart`, `Inserted`, `Cleared`: where the page loops are, that two
  loops never work on one object, and what they have done so far;
* `NoDanglingPage`, `LivePagesMapped`: the trie. A registered page leads to its
  sub-segment, or nowhere if it is in `missed`;
* `Entries`: a cached range lies within its sub_segment *as it was*, even when
  stale; with `NoDanglingPage` it makes one slot vouch for many pages. This is
  where reuse of an address breaks the argument;
* `Finding`, `Found`: the sub-segment of an address being resolved stays, and what a
  lookup holds owns the address.

Each action is a lemma here too. The steps of `find` share two frames: `LooksKeeps`
(they touch neither the trie nor a sub_segment) and `CachesKept` (one cache changes and
stays sound, which `InsertSound`, `ToFrontSound`, `EvictSound` and `ExpandedSound` show
of each operation of `tls_cache_t`).

The theorems: `FindIsSound` (`LookupSound`), `OneSlotVouches` (`TrustedRanges`),
`SlotsAreRight` (`NoDanglingPage`), `PagesAreRight` (`LivePagesMapped`), and
`AskingAgainHelps` (`MissEvicts`): a miss in spite of a registered address takes an entry
out of the thread's cache, unless the page is in `missed`: the slot of such a page stays empty,
and `find` misses it for good. It rests on `EvictDrops`: one entry fewer is in use
when `tls_cache_t` has evicted one.

**ShmSpinlockProofs**, for any threads and blocks (`ThreadAssumption`). `IInv` adds to
`TypeOK`:

* `MutualExclusion`: the flag is set exactly while somebody, dead or alive, is
  inside; alone it would not survive `Unlock`, which clears the flag for all;
* `CallShape`: which block a call is about at each program point, and whose it is;
  it shows that the two writes concern a block that is nobody else's;
* `Blocks`: every block is free, used, or the one between the two writes.

The theorems: `OneInside` (`MutualExclusion`), `HeapIsWhole` (`HeapWhole`) and
`Refinement` (`Implements`): the second write is the step of `AtomicHeap`, spinning and
the first write are stutters, and `halted` is a lock whose holder is dead.

**LifecycleProofs**, for any finite set of processes, any sizes with
`kMinSegmentSize <= InitialSize` and either platform (`LifecycleAssumption`). `IInv` adds to
the types:

* `Places`: who has a file, a view, a checked file, ownership, by program point;
* `Sizes`: a file is empty or has its one size, creators past `ftruncate` and attached
  processes have a file of full size, and on Windows a view lies in its file. That
  the second opening may lead to another file is why this speaks of all files;
* `Heaps`: a magic number means a heap, in every file at every time;
* `Built`: a creator on POSIX that has not built yet is alone in its file. This is where
  O_EXCL counts: between the two steps others may unlink the name;
* `Kept`: a name on POSIX has somebody who will unlink it, or who was killed.

The 27 actions are grouped by what they do to the invariant (a process gives up
what it has, gives up the name, stores into its file, creates one, only looks), and
each part of `IInv` is one lemma over these groups. The theorems: `HeapFinished`
(`HeapBeforeUse`), `MappingReaches` (`MappingInFile`), `OneCreator` (`BuiltOnce`), `NoNameLeft`
(`NothingLeft`).

**NcritTrieProofs**, for any threads, pages, nodes, values, fan-out and number of levels
(`TrieAssumption`, `PagesAssumption`). The first part speaks of slots and nodes with no
step in sight: `Path`, the way to a page, and `ReachedAt`, what a descent through all slots
comes to, are recursive functions, and what they yield is shown by induction on the depth
(`PathIn`, `PathKeeps`, `PathInj`, `PathGrows`, `ReachedAll`). The inductive invariant
`IInv` says that there are levels of the nodes such that the allocated ones form a tree (`Tree`),
every one but the root hangs in exactly one slot or is the fresh node of one thread
(`OneParent`, `HasParent`, `FreshOK`), and every walk stands on the way to its page (`OnPath`),
so that slots filled by others never put it off its way. The levels are a witness and no
variable: an allocation gives the new node its level.

The theorems: `TypeCorrect`, `WalksAreSafe` (`NoUseAfterDelete`), `NodesAreOwnedOnce`
(`OwnedOnce`), `DestructorFreesAll` (`DestroyFreesAll`), `LeafSlotsAreStable`
(`LeafSlotsStay`), and `TrieImplementsMap` (`Implements`): the store to, the clearing and the
load of a leaf slot are the steps of `PageMap`; linking a new node, whose slots are empty,
changes no page's value.

**NamedObjectsProofs**, for any threads, names, sub-segments and capacities
(`NamedObjectsAssumption`). `BInv` has the types, that no sub-segment is overfilled, and
who holds `list_mtx_`. Two invariants extend it: `FInv` (an object that was there when
a search began is ahead of it) and `UInv` (what a thread has searched for in vain, and is
now to make, is in no index). Both theorems, `FindIsComplete` (`FindMissesNone`) and
`NamesAreUnique` (`UniqueNames`), assume `SingleProcess`: with a process that has not mapped
what another one added, find does miss objects (NamedObjectsAcross in section 5). What the
threads call is not restricted. `UniqueNames` says that only the names in `misused` can have
two objects, and its proof adds to `UInv` that whoever makes such a name (`Making`) makes it
alone (`Solo`): it begins alone, and whoever joins it misuses the name. That the excepted
uses do make a second object is NamedObjectsTwice in section 5.

**OffsetPtrProofs**, for any word size, processes, sub-segments, mappings, pointers and
places that `MappingAssumption` and `LocationAssumption` allow. `IInv` says that every pointer
holds `Encoding` of the place it is meant for (the distance in the file, from the
anonymous sub-segment, or from the pointer), 1 exactly if null, and that the place is in
a sub-segment that is published and, for a pointer of one process, mapped by it. The lemmas
come in three layers: sums and differences modulo `Word`; the layout (`FileStart` grows,
which is an induction over the sub-segments, so that `find` and
`find_segment_by_file_offset` yield the one sub-segment); and `get`, `set` and the
arithmetic on one pointer. `NeverNull` is where the null value is told from every encoding.
The theorems: `PointersResolve` (`Resolves`), `SharedStaysShared` (`SharedPointsToShared`),
`PointersCompareAlike` (`ComparesAlike`).

**SegmentManagerProofs**, for any processes, threads, sizes and bounds that the assumptions of
the module allow, with mappings that fail, processes that are killed, and managers that are
closed and attached again. The theorems assume `Moderate`: the memory is a named file
(`Kinds`), the threads that allocate belong to one process (`OneGrower`), and no request makes
the size of the file wrap (`NothingHuge`). The last two are not for convenience: with two
growing processes, or a huge request, the code does not hold to the properties (the run
`peers_overlay`; SegmentManagerHuge in section 5). TLC has checked the parts of the invariant
below on the instance of `shared_growth`, for which `Moderate` is true.

The inductive invariant is `IInv == \E L : Inv(L)`. `L`, the layout, is the sequence of all
sub-segments in the file; it is a witness and no variable. The parts of `Inv(L)`:

* `Types`;
* `Layout`: `L` is contiguous and inside the file, its heaps are constructed, and every list and
  the table are first parts of it. Only the growing process may know more than the table
  publishes;
* `Progress`: the layout is longer than what is published only while a thread is in
  `update_segment_table`. This is what makes the growing process compute the next offset from
  a complete list;
* `Managers` and `Alone`: a constructed manager has sub-segment 0, and a constructor or
  destructor runs alone in its process;
* `Placed`: where a thread can be, and the locks it holds there;
* `Aware`: what a call knows. A planned growth starts at the end of the layout, and the block
  that is looked for lies in what the list has, or in the count that was read;
* `Blocks`: heaps are packed, blocks in use are known to their heap and are distinct, and a
  block that is being freed is nobody else's.

`OthersKept` shows, once for all steps, that a step of one thread leaves what the others know
true; a step is then quiet (`QuietStep`: no list, table or heap changes), loud (`LoudStep`) or
changes the blocks of one heap (`BlockStep`), and there is one lemma per action. The theorems:
`LayoutIsOne` (`OneLayout`), `TablePublishes` (`PublishedBeforeUse`), `BlocksAreSafe`
(`LiveBlocksSafe`), `GetFinds` (`GetResolves`), `NothingIsBeyond` (`NoFault`), `HeapsSurvive`
(`HeapsSurviveGrowth`, an action property): growth neither cuts off a heap nor constructs one
over it; and `TableIsEnough` (`TableSuffices`). The last has an invariant of its own on top of
`IInv`: `Doubles`, that each sub-segment, and each that is being added, is at least as large
as all before it together and `kMinSegmentSize`. It follows that `n` of them take `Doubled(n)`,
the recursive sum of `LimitAssumption`.

Induction. The library's induction theorems have an operator parameter, which the
installed provers cannot instantiate. Where a recursive function had to be reasoned about
(`Path`, `ReachedAt`, `FileStart`, `Mapped`, `Doubled`) the modules prove `NatInduct`, induction
for a *set* of numbers, from the well-foundedness of `<`, first show that a function with the
equations exists, and go on from the equations.

Only model-checked: liveness (fairness and ENABLED are beyond the prover), and of
SegmentManager `TypeOK`, in which a heap's free memory is a sum over its blocks (a fold,
hence induction over data), and what the runs show of an anonymous memory (`Kinds` with
`"anon"`).

## 5. Further counterexamples

These configurations are kept beside the runs. Each checks one property that a
comment or a document of the repository states, or that a user of the library may
expect, and TLC finds it violated.

| Configuration | Property | What happens |
|---|---|---|
| SegmentManagerNoSpace | `AllocFailsOnlyIfRefused` | another thread takes the space one has grown; `allocate` throws though more could be had (SSM:155, 168) |
| SegmentManagerUnaligned | `GrowthIsMapped` | an initial size that is no multiple of the page size: no growth can be mapped (SSM:126) |
| SegmentManagerClosed | `GetSurvives` | the creator closes and unlinks the name; a process still attached cannot map later growth, and the exception leaves the `noexcept` `get` (`sub_segment.hpp:191`, SOP:274) |
| SegmentManagerEnded | `HeapsOutliveUsers` | an opener that closes runs the destructor of heaps that others use (SSM:141) |
| SegmentManagerHuge | `FileNeverShrinks` | a huge request makes the new file size wrap (SSM:331) |
| SegmentManagerCount | `BlocksAsAsked` | `allocate(n)` of the allocator does not refuse an `n` above `max_size`: the product wraps, and the caller gets a block smaller than `n` elements (`segmented_allocator.hpp:129`) |
| SegmentManagerFragmented | `AllocFailsOnlyIfRefused` | `grow` returns early as the free memory of all sub-segments together suffices, and no single one can hold the block (SSM:317) |
| PrefetchWorkerQueue | `QueuedOnce` | only the last hint is compared, so two managers that alternate fill the queue (SSM:698) |
| SegmentRegistryAba | `LookupSound` | with `ReusePtr`: a new object at a deleted one's address inherits its cached range (`src/README.md:19` rules out ABA) |
| LifecycleMagic | `WholeSegmentZero` | an opener between the stores of magic and entry 0 keeps a mapping of `kMinSegmentSize` (SSM:516) |
| LifecycleEither | `OneMemory` | two processes that `open_or_create` together each have a file of their own (SMM:110) |
| LifecycleFault | `OpenSurvives` | an opener maps the file before it has a size and is killed by SIGBUS (`platform.hpp:345`) |
| LifecycleReopen | `HeapAlways` | the name leads to another file at the second opening, whose heap nobody has built (SSM:574) |
| LifecycleWindows | `OneBuilder` | `CREATE_ALWAYS` empties the file of a creator that has not mapped it yet, and both build (`platform.hpp:191`) |
| OffsetPtrDoc | `DocumentedEncoding` | shared pointers hold the distance of file offsets, not the one the header describes (SOP:26, 449) |
| OffsetPtrOrder | `OrderShared` | processes order pointers into different sub-segments differently (SOP:389) |
| OffsetPtrRefused | `RefusalThrows` | `set` throws inside a `noexcept` assignment (SOP:215) |
| NamedObjectsTwice | `OneObject` | `construct` with a taken name makes a second object in the next sub-segment (SSM:214, 224: "Returns nullptr if a named object with this name already exists") |
| NamedObjectsRace | `AllGetOne` | `find_or_construct` gives nullptr to the loser of a race (SMM:138) |
| NamedObjectsNested | `CallsReturn` | an object's constructor that allocates, or destructor that frees, relocks `list_mtx_` (`src/README.md:28` speaks of recursive mutexes) |
| NamedObjectsAcross | `FindMissesNone` | `find` does not discover growth of other processes (`src/README.md:31`) |

Besides, `OpenFails` in SegmentRegistry leaves the pages of a deleted
`sub_segment` in the trie (SSM:566); `LookupSound` and `NoDanglingPage` have to
except it. `register_segment` ("Register all pages", `segment_registry.hpp:59`) leaves pages
unknown for which no node can be allocated, and reports nothing (`ncrit_trie.hpp:393`);
`LivePagesMapped` and `MissEvicts` have to except them. On Windows `shm_create` leaves the
file when it fails, and the creator's `DeleteFile` may be refused; `NothingLeft` speaks
of POSIX.

## 6. What is not modelled, and the plan

Left out, with the reason:

* Boost's heap and index are external: one step per call, as `AtomicHeap` allows;
  a heap is its blocks, or its names. `SegmentManager` kills a process between two
  heap calls; what a death inside one leaves is in `ShmSpinlock`, where that
  heap serves no more calls.
* Memory orders: acquire and release are taken to order what they publish,
  accesses interleave. The spinlock, the queue and the trie use them so.
* Paths: how a name becomes a file name. The page size is a constant.
* Growth on Windows, where `shm_grow` has nothing to do (the file is sparse and has its
  full size from the start).
* Queries that read a size or a count, the traits specialisations of the offset
  pointer, and `construct` and `destroy` of the allocator, which run code of the
  element type.
* `Lifecycle` covers sub-segment 0; `OffsetPtr` and `NamedObjects` let one
  process grow the memory, since with several the memory itself is not sound.

Order of the work. Done: every component above, with its runs, and proofs for all modules.
Next: the theorems of SegmentManager for an anonymous memory.
