---- MODULE SegmentRegistry ----
(***************************************************************************)
(* segment_registry: which sub_segment owns an address. The trie maps      *)
(* pages to sub_segment pointers (NcritTrie shows that each access to a    *)
(* page is atomic); every thread keeps a short list of address ranges it   *)
(* has resolved, and trusts a range as long as the leaf slot through which *)
(* it found it still holds the same pointer. A node of the trie that cannot *)
(* be allocated leaves the page it was for unmapped, and nobody is told.    *)
(*                                                                         *)
(* Addresses are page numbers. A sub_segment is known by its pointer; the  *)
(* heap may give a new sub_segment the address of a deleted one when       *)
(* ReusePtr holds, and mmap gives a new one any range that is not mapped.  *)
(***************************************************************************)
EXTENDS Integers, FiniteSets

CONSTANTS
  Threads,
  Pages,          \* the pages of the process, consecutive numbers
  Ptr,            \* addresses of sub_segment objects
  MaxSize,        \* bound: pages of a sub-segment
  kSize,          \* entries of a thread's cache
  kFanOut,        \* pages of a leaf node
  OomMayHappen,   \* whether a node of the trie may fail to be allocated
  ReusePtr,       \* whether the heap reuses the address of a sub_segment
  Null            \* no sub_segment

ASSUME RegistryAssumption ==
  /\ Pages \subseteq Nat /\ kSize \in Nat \ {0} /\ MaxSize \in Nat \ {0}
  /\ kFanOut \in Nat \ {0} /\ OomMayHappen \in BOOLEAN
  /\ ReusePtr \in BOOLEAN /\ Null \notin Ptr

VARIABLES
  page,    \* page[pg]: the leaf slot of page pg
  nodes,   \* the leaf nodes that exist; they stay for ever
  missed,  \* history: pages for which the last insert_leaf had no node
  state,   \* state[s]: "none", "entering", "live", "leaving", "gone" or "lost"
  base,    \* base[s]: base_addr()
  size,    \* size[s]: size
  cache,   \* cache[t]: the entries of the tls_cache_t of t
  pc,      \* pc[t]: program point
  seg,     \* seg[t]: the argument of register/unregister, the result of find
  at       \* at[t]: the next page of a range, or the page looked up

objVars == <<state, base, size>>
trieVars == <<page, nodes, missed>>
vars == <<trieVars, objVars, cache, pc, seg, at>>

Extent(s) == base[s]..(base[s] + size[s] - 1)
Mapped(s) == state[s] \in {"entering", "live", "leaving"}

\* Deleted by an opening that failed, with its pages still in the trie.
Lost(s) == state[s] = "lost"

\* The sub_segment that owns a page, if any: the answer find should give.
Owner(pg) ==
  IF \E s \in Ptr : Mapped(s) /\ pg \in Extent(s)
  THEN CHOOSE s \in Ptr : Mapped(s) /\ pg \in Extent(s) ELSE Null

\* A thread is resolving an address in a range, or using what it resolved.
InUse(range) == \E t \in Threads : pc[t] \in {"walk", "expand", "done"} /\ at[t] \in range

----------------------------------------------------------------------------
(* The thread-local cache.                                                 *)

Entry(b, e, s, leaf) == [base |-> b, end |-> e, seg |-> s, leaf |-> leaf]
NoEntry == Entry(0, 0, Null, 0)
NoCache == [i \in 1..kSize |-> NoEntry]

Covers(e, pg) == pg >= e.base /\ pg < e.end

\* Entry i of cache c is the first that covers pg.
First(c, pg, i) == Covers(c[i], pg) /\ \A j \in 1..(i - 1) : ~Covers(c[j], pg)

\* tls_cache_t::insert: all entries move down and the last one drops out.
Insert(c, e) == [j \in 1..kSize |-> IF j = 1 THEN e ELSE c[j - 1]]

ToFront(c, i) ==
  [j \in 1..kSize |-> IF j = 1 THEN c[i] ELSE IF j <= i THEN c[j - 1] ELSE c[j]]

Evict(c, i) ==
  [j \in 1..kSize |-> IF j < i THEN c[j] ELSE IF j < kSize THEN c[j + 1] ELSE NoEntry]

\* expand_cache_bounds_top
Expanded(c, s) ==
  IF c[1].seg = s
  THEN [c EXCEPT ![1] = Entry(base[s], base[s] + size[s], s, @.leaf)]
  ELSE c

Init ==
  /\ page = [pg \in Pages |-> Null]
  /\ nodes = {}
  /\ missed = {}
  /\ state = [s \in Ptr |-> "none"]
  /\ base = [s \in Ptr |-> 0]
  /\ size = [s \in Ptr |-> 0]
  /\ cache = [t \in Threads |-> NoCache]
  /\ pc = [t \in Threads |-> "idle"]
  /\ seg = [t \in Threads |-> Null]
  /\ at = [t \in Threads |-> 0]

----------------------------------------------------------------------------
(* A sub-segment is mapped and registered, page by page.                   *)

\* mmap and make_unique<sub_segment>, then register_segment. The stack or
\* heap page a thread is looking up is not given to mmap meanwhile.
Map(t, s, b, n) ==
  /\ pc[t] = "idle"
  /\ state[s] = "none"
  /\ LET range == b..(b + n - 1)
     IN  /\ range \subseteq Pages
         /\ \A q \in Ptr : Mapped(q) => range \cap Extent(q) = {}
         /\ ~InUse(range)
  /\ state' = [state EXCEPT ![s] = "entering"]
  /\ base' = [base EXCEPT ![s] = b]
  /\ size' = [size EXCEPT ![s] = n]
  /\ pc' = [pc EXCEPT ![t] = "insert"]
  /\ seg' = [seg EXCEPT ![t] = s]
  /\ at' = [at EXCEPT ![t] = b]
  /\ UNCHANGED <<trieVars, cache>>

\* The leaf node that holds the slot of a page.
Node(pg) == pg \div kFanOut

\* The loop of insert_range. insert_leaf returns without a word when the path
\* to the slot lacks a node and none can be allocated, and the loop goes on.
InsertLeaf(t) ==
  /\ pc[t] = "insert" /\ at[t] \in Extent(seg[t])
  /\ \/ /\ page' = [page EXCEPT ![at[t]] = seg[t]]
        /\ nodes' = nodes \cup {Node(at[t])}
        /\ missed' = missed \ {at[t]}
     \/ /\ OomMayHappen /\ Node(at[t]) \notin nodes
        /\ missed' = missed \cup {at[t]}
        /\ UNCHANGED <<page, nodes>>
  /\ at' = [at EXCEPT ![t] = @ + 1]
  /\ UNCHANGED <<objVars, cache, pc, seg>>

\* The thread-local rest of register_segment: the cache is invalidated,
\* lookup finds the first page (a traversal, the cache being empty) and
\* expand_cache_bounds_top widens the entry, if there is one. The sub-segment
\* can be used.
Registered(t) ==
  /\ pc[t] = "insert" /\ at[t] \notin Extent(seg[t])
  /\ LET s == seg[t]
         b == base[s]
         warm == IF page[b] = Null THEN NoCache
                 ELSE Insert(NoCache, Entry(b, b + 1, page[b], b))
     IN  /\ cache' = [cache EXCEPT ![t] = Expanded(warm, s)]
         /\ state' = [state EXCEPT ![s] = "live"]
  /\ pc' = [pc EXCEPT ![t] = "idle"]
  /\ seg' = [seg EXCEPT ![t] = Null]
  /\ at' = [at EXCEPT ![t] = 0]
  /\ UNCHANGED <<trieVars, base, size>>

----------------------------------------------------------------------------
(* A sub-segment is unregistered, page by page, and unmapped.              *)

\* The manager is destroyed when no thread uses its memory any more.
Unregister(t, s) ==
  /\ pc[t] = "idle"
  /\ state[s] = "live" /\ ~InUse(Extent(s))
  /\ state' = [state EXCEPT ![s] = "leaving"]
  /\ pc' = [pc EXCEPT ![t] = "clear"]
  /\ seg' = [seg EXCEPT ![t] = s]
  /\ at' = [at EXCEPT ![t] = base[s]]
  /\ UNCHANGED <<trieVars, base, size, cache>>

\* Mutant: the loop of remove_range stops one page early.
ClearLeaf_OffByOne(t) ==
  /\ pc[t] = "clear" /\ at[t] \in Extent(seg[t])
  /\ page' = IF at[t] + 1 \in Extent(seg[t])
             THEN [page EXCEPT ![at[t]] = Null] ELSE page
  /\ at' = [at EXCEPT ![t] = @ + 1]
  /\ UNCHANGED <<nodes, missed, objVars, cache, pc, seg>>

\* Mutant: the loop of remove_range goes one page too far.
ClearLeaf_TooFar(t) ==
  /\ pc[t] = "clear" /\ at[t] \in Extent(seg[t])
  /\ page' = [pg \in Pages |-> IF pg \in {at[t], at[t] + 1} THEN Null ELSE page[pg]]
  /\ at' = [at EXCEPT ![t] = @ + 1]
  /\ UNCHANGED <<nodes, missed, objVars, cache, pc, seg>>

\* The loop of remove_range; clear_leaf has nothing to do if there is no node.
ClearLeaf(t) ==
  /\ pc[t] = "clear" /\ at[t] \in Extent(seg[t])
  /\ page' = [page EXCEPT ![at[t]] = Null]
  /\ at' = [at EXCEPT ![t] = @ + 1]
  /\ UNCHANGED <<nodes, missed, objVars, cache, pc, seg>>

\* The sub_segment object is deleted.
Deleted(s, as) == state' = [state EXCEPT ![s] = IF ReusePtr THEN "none" ELSE as]

\* The own cache is invalidated, and ~sub_segment unmaps the memory.
Unmap(t) ==
  /\ pc[t] = "clear" /\ at[t] \notin Extent(seg[t])
  /\ cache' = [cache EXCEPT ![t] = NoCache]
  /\ Deleted(seg[t], "gone")
  /\ pc' = [pc EXCEPT ![t] = "idle"]
  /\ seg' = [seg EXCEPT ![t] = Null]
  /\ at' = [at EXCEPT ![t] = 0]
  /\ UNCHANGED <<trieVars, base, size>>

\* open_all_segments throws after sub-segment 0 is registered (the magic is
\* wrong, or a later chunk cannot be mapped): seg0, or the segments_ of a
\* manager whose constructor has not finished, is deleted as it stands.
OpenFails(t, s) ==
  /\ pc[t] = "idle" /\ state[s] = "live" /\ ~InUse(Extent(s))
  /\ Deleted(s, "lost")
  /\ UNCHANGED <<trieVars, base, size, cache, pc, seg, at>>

----------------------------------------------------------------------------
(* find                                                                    *)

\* Mutant: a cached range is trusted without reading its leaf slot.
Fresh_Always(e) == TRUE

\* The leaf slot of a cache entry still holds its tag.
Fresh(e) == page[e.leaf] = e.seg

\* A program resolves addresses of sub-segments it uses and of unmanaged
\* memory (a stack); the cache is scanned, and the leaf slot of the first
\* entry that covers the address is read.
FindHit(t, pg) ==
  /\ pc[t] = "idle"
  /\ Owner(pg) # Null => state[Owner(pg)] = "live"
  /\ \E i \in 1..kSize :
         /\ First(cache[t], pg, i) /\ Fresh(cache[t][i])
         /\ cache' = [cache EXCEPT ![t] = ToFront(@, i)]
         /\ seg' = [seg EXCEPT ![t] = cache[t][i].seg]
  /\ pc' = [pc EXCEPT ![t] = "expand"]
  /\ at' = [at EXCEPT ![t] = pg]
  /\ UNCHANGED <<trieVars, objVars>>

\* Mutant: a stale entry is reported but not evicted.
FindStale_Keep(t, pg) ==
  /\ pc[t] = "idle"
  /\ Owner(pg) # Null => state[Owner(pg)] = "live"
  /\ \E i \in 1..kSize : First(cache[t], pg, i) /\ ~Fresh(cache[t][i])
  /\ pc' = [pc EXCEPT ![t] = "done"]
  /\ at' = [at EXCEPT ![t] = pg]
  /\ UNCHANGED <<trieVars, objVars, seg, cache>>

\* A stale entry is evicted, and the lookup returns nullptr.
FindStale(t, pg) ==
  /\ pc[t] = "idle"
  /\ Owner(pg) # Null => state[Owner(pg)] = "live"
  /\ \E i \in 1..kSize :
         /\ First(cache[t], pg, i) /\ ~Fresh(cache[t][i])
         /\ cache' = [cache EXCEPT ![t] = Evict(@, i)]
  /\ pc' = [pc EXCEPT ![t] = "done"]
  /\ at' = [at EXCEPT ![t] = pg]
  /\ UNCHANGED <<trieVars, objVars, seg>>

FindMiss(t, pg) ==
  /\ pc[t] = "idle"
  /\ Owner(pg) # Null => state[Owner(pg)] = "live"
  /\ \A i \in 1..kSize : ~Covers(cache[t][i], pg)
  /\ pc' = [pc EXCEPT ![t] = "walk"]
  /\ at' = [at EXCEPT ![t] = pg]
  /\ UNCHANGED <<trieVars, objVars, seg, cache>>

\* The traversal; a page that is found enters the cache.
Walk(t) ==
  /\ pc[t] = "walk"
  /\ LET pg == at[t]
         v  == page[pg]
     IN  IF v = Null
         THEN /\ pc' = [pc EXCEPT ![t] = "done"]
              /\ UNCHANGED <<cache, seg>>
         ELSE /\ pc' = [pc EXCEPT ![t] = "expand"]
              /\ cache' = [cache EXCEPT ![t] = Insert(@, Entry(pg, pg + 1, v, pg))]
              /\ seg' = [seg EXCEPT ![t] = v]
  /\ UNCHANGED <<trieVars, objVars, at>>

\* find widens the entry to the bounds it reads from the sub_segment.
Expand(t) ==
  /\ pc[t] = "expand"
  /\ cache' = [cache EXCEPT ![t] = Expanded(@, seg[t])]
  /\ pc' = [pc EXCEPT ![t] = "done"]
  /\ UNCHANGED <<trieVars, objVars, seg, at>>

\* The caller is through with the answer.
Use(t) ==
  /\ pc[t] = "done"
  /\ pc' = [pc EXCEPT ![t] = "idle"]
  /\ seg' = [seg EXCEPT ![t] = Null]
  /\ at' = [at EXCEPT ![t] = 0]
  /\ UNCHANGED <<trieVars, objVars, cache>>

Next ==
  \E t \in Threads :
    \/ \E s \in Ptr, b \in Pages, n \in 1..MaxSize : Map(t, s, b, n)
    \/ InsertLeaf(t) \/ Registered(t)
    \/ \E s \in Ptr : Unregister(t, s) \/ OpenFails(t, s)
    \/ ClearLeaf(t) \/ Unmap(t)
    \/ \E pg \in Pages : FindHit(t, pg) \/ FindStale(t, pg) \/ FindMiss(t, pg)
    \/ Walk(t) \/ Expand(t) \/ Use(t)

Spec == Init /\ [][Next]_vars

----------------------------------------------------------------------------
(* Properties.                                                             *)

CacheEntry == [base : Nat, end : Nat, seg : Ptr, leaf : Pages]

\* Every variable has its type; in particular a tls_cache_t always holds kSize
\* entries, whatever insert, hit and eviction shift.
TypeOK ==
  /\ page \in [Pages -> Ptr \cup {Null}]
  /\ nodes \subseteq {Node(pg) : pg \in Pages} /\ missed \subseteq Pages
  /\ state \in [Ptr -> {"none", "entering", "live", "leaving", "gone", "lost"}]
  /\ base \in [Ptr -> Nat] /\ size \in [Ptr -> 0..MaxSize]
  /\ cache \in [Threads -> [1..kSize -> CacheEntry \cup {NoEntry}]]
  /\ pc \in [Threads -> {"idle", "insert", "clear", "walk", "expand", "done"}]
  /\ seg \in [Threads -> Ptr \cup {Null}]
  /\ at \in [Threads -> Nat]

\* find never names a wrong sub_segment: it returns the owner of the address
\* or nullptr, whatever other threads have registered and removed since the
\* range entered this thread's cache. Only a failed opening makes it go wrong.
LookupSound ==
  \A t \in Threads :
    pc[t] = "done" /\ seg[t] # Null => seg[t] = Owner(at[t]) \/ Lost(seg[t])

\* No leaf slot holds a pointer to a sub_segment that was unregistered, and
\* none outside the pages of the sub_segment it names.
NoDanglingPage ==
  \A pg \in Pages : page[pg] # Null =>
    (Mapped(page[pg]) \/ Lost(page[pg])) /\ pg \in Extent(page[pg])

\* Every page of a registered sub-segment leads to it, but for those insert_leaf
\* found no memory for, which lead nowhere: whatever is registered and removed
\* next to it, and whatever a failed opening left there before.
LivePagesMapped ==
  \A s \in Ptr : state[s] = "live" =>
    \A pg \in Extent(s) : page[pg] = IF pg \in missed THEN Null ELSE s

\* A range that a thread would trust lies within the sub_segment it names:
\* the one leaf slot read by lookup_impl vouches for the whole range.
TrustedRanges ==
  \A t \in Threads : \A i \in 1..kSize :
    LET e == cache[t][i]
    IN  e # NoEntry /\ Fresh(e) => /\ Mapped(e.seg) \/ Lost(e.seg)
                                   /\ (e.base..(e.end - 1)) \subseteq Extent(e.seg)

\* How many entries of a cache are in use.
Used(c) == Cardinality({i \in 1..kSize : c[i] # NoEntry})

\* Asking again helps: a find that returns nullptr for an owned address has
\* removed an entry from its thread's cache, so that kSize + 1 attempts at
\* most reach the trie; unless insert_leaf found no memory for the page.
MissEvicts ==
  [][\A t \in Threads :
       pc[t] # "done" /\ pc'[t] = "done" /\ (seg[t] = Null /\ Owner(at[t]) # Null)'
         => at'[t] \in missed \/ Used(cache'[t]) < Used(cache[t])]_vars

\* find returns the owner of every address of a registered sub-segment
\* (README: the cache is invalidated passively when a segment is removed).
LookupFinds ==
  \A t \in Threads : pc[t] = "done" /\ Owner(at[t]) # Null => seg[t] # Null

====
