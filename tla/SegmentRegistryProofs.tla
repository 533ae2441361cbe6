---- MODULE SegmentRegistryProofs ----
(***************************************************************************)
(* Soundness of find for any number of threads, pages and sub-segments,   *)
(* and any cache size, provided that a sub_segment is never given the      *)
(* address of a deleted one. Any node of the trie may be missing for want  *)
(* of memory.                                                              *)
(***************************************************************************)
EXTENDS SegmentRegistry, FiniteSetTheorems, TLAPS

----------------------------------------------------------------------------
(* The inductive invariant.                                                *)

\* mmap never gives out a range twice.
Disjoint ==
  \A p, q \in Ptr : Mapped(p) /\ Mapped(q) /\ p # q
                      => \A pg \in Extent(p) : pg \notin Extent(q)

InPages ==
  \A s \in Ptr : Mapped(s) => size[s] > 0 /\ \A pg \in Extent(s) : pg \in Pages

Working(t) == pc[t] \in {"insert", "clear"}

\* A thread in register_segment or unregister_segment has a sub_segment of
\* its own, and is at a page of it or just behind.
Workers ==
  \A t \in Threads :
    /\ Working(t) => /\ seg[t] \in Ptr
                     /\ at[t] \in base[seg[t]]..(base[seg[t]] + size[seg[t]])
    /\ pc[t] = "insert" => state[seg[t]] = "entering"
    /\ pc[t] = "clear" => state[seg[t]] = "leaving"

Apart ==
  \A t, u \in Threads : Working(t) /\ Working(u) /\ t # u => seg[t] # seg[u]

\* What the loop of insert_range has done so far, and that of remove_range.
Inserted ==
  \A t \in Threads : pc[t] = "insert" =>
    \A pg \in Extent(seg[t]) :
      pg < at[t] => page[pg] = IF pg \in missed THEN Null ELSE seg[t]

Cleared ==
  \A t \in Threads : pc[t] = "clear" =>
    \A pg \in Extent(seg[t]) : pg < at[t] => page[pg] # seg[t]

\* A slot that holds something is in a node; what insert_leaf gave up is empty.
Nodes ==
  /\ \A pg \in Pages : page[pg] # Null => Node(pg) \in nodes
  /\ \A pg \in missed : page[pg] = Null

\* A cached range, stale or not, lies within its sub_segment as it was.
Entries ==
  \A t \in Threads, i \in 1..kSize :
    cache[t][i] # NoEntry =>
      /\ state[cache[t][i].seg] # "none"
      /\ \A pg \in Nat : Covers(cache[t][i], pg) => pg \in Extent(cache[t][i].seg)

\* The sub-segment of an address being resolved stays registered.
Finding ==
  \A t \in Threads : pc[t] \in {"walk", "expand", "done"} =>
    /\ at[t] \in Pages
    /\ \A s \in Ptr : Mapped(s) /\ at[t] \in Extent(s) => state[s] = "live"

Found ==
  \A t \in Threads :
    /\ pc[t] \in {"idle", "walk"} => seg[t] = Null
    /\ pc[t] = "expand" => seg[t] \in Ptr
    /\ pc[t] \in {"expand", "done"} /\ seg[t] # Null =>
         (Mapped(seg[t]) \/ Lost(seg[t])) /\ at[t] \in Extent(seg[t])

IInv ==
  /\ TypeOK
  /\ Disjoint
  /\ InPages
  /\ Workers
  /\ Apart
  /\ Inserted
  /\ Cleared
  /\ NoDanglingPage
  /\ LivePagesMapped
  /\ Nodes
  /\ Entries
  /\ Finding
  /\ Found

----------------------------------------------------------------------------
(* Owners, and the cache.                                                  *)

USE RegistryAssumption
USE DEF objVars, trieVars, Extent, Mapped, Lost, IInv, Working

\* The owner of a page is the one sub_segment whose range holds it.
LEMMA OwnerIs ==
  ASSUME Disjoint, NEW s \in Ptr, Mapped(s), NEW pg \in Extent(s)
  PROVE  Owner(pg) = s
<1>. DEFINE P(q) == Mapped(q) /\ pg \in Extent(q)
<1>1. \A q \in Ptr : P(q) => q = s
  BY DEF Disjoint
<1>2. P(s)
  OBVIOUS
<1>3. (CHOOSE q \in Ptr : P(q)) = s
  BY <1>1, <1>2
<1>. QED  BY <1>2, <1>3 DEF Owner

\* An entry that is empty, or names a created sub_segment and lies within it.
Sound(e) ==
  e = NoEntry \/ /\ e \in CacheEntry /\ state[e.seg] # "none"
                 /\ \A pg \in Nat : Covers(e, pg) => pg \in Extent(e.seg)

SoundCache(c) == c \in [1..kSize -> CacheEntry \cup {NoEntry}]
                   /\ \A i \in 1..kSize : Sound(c[i])

\* Entries says that every cache is sound.
LEMMA SoundCaches ==
  ASSUME TypeOK, Entries, NEW t \in Threads
  PROVE  SoundCache(cache[t])
BY DEF TypeOK, Entries, SoundCache, Sound

\* The same for a cache that has been invalidated.
LEMMA EmptySound == SoundCache(NoCache)
BY DEF SoundCache, Sound, NoCache

\* tls_cache_t::insert keeps a cache sound.
LEMMA InsertSound ==
  ASSUME NEW c, SoundCache(c), NEW e, Sound(e)
  PROVE  SoundCache(Insert(c, e))
<1>1. \A j \in 1..kSize : j # 1 => j - 1 \in 1..kSize
  OBVIOUS
<1>2. e \in CacheEntry \cup {NoEntry}
  BY DEF Sound
<1>. QED  BY <1>1, <1>2 DEF SoundCache, Insert

\* So does moving an entry to the front.
LEMMA ToFrontSound ==
  ASSUME NEW c, SoundCache(c), NEW i \in 1..kSize
  PROVE  SoundCache(ToFront(c, i))
<1>1. \A j \in 1..kSize : j # 1 => j - 1 \in 1..kSize
  OBVIOUS
<1>. QED  BY <1>1 DEF SoundCache, ToFront

\* So does expand_cache_bounds_top.
LEMMA ExpandedSound ==
  ASSUME TypeOK, NEW c, SoundCache(c), NEW s \in Ptr, state[s] # "none"
  PROVE  SoundCache(Expanded(c, s))
<1>1. CASE c[1].seg # s
  BY <1>1 DEF Expanded
<1>2. CASE c[1].seg = s
  <2>. DEFINE e == Entry(base[s], base[s] + size[s], s, c[1].leaf)
  <2>1. c[1] \in CacheEntry
    BY <1>2 DEF SoundCache, Sound, NoEntry, Entry
  <2>2. e \in CacheEntry
    BY <2>1 DEF CacheEntry, Entry, TypeOK
  <2>3. \A pg \in Nat : Covers(e, pg) => pg \in Extent(s)
    BY DEF Covers, Entry, TypeOK
  <2>4. e.seg = s
    BY DEF Entry
  <2>5. Sound(e)
    BY <2>2, <2>3, <2>4 DEF Sound
  <2>6. Expanded(c, s) = [c EXCEPT ![1] = e]
    BY <1>2 DEF Expanded, SoundCache
  <2>. HIDE DEF e
  <2>. QED  BY <2>2, <2>5, <2>6 DEF SoundCache
<1>. QED  BY <1>1, <1>2

\* So does the eviction of a stale entry.
LEMMA EvictSound ==
  ASSUME NEW c, SoundCache(c), NEW i \in 1..kSize
  PROVE  SoundCache(Evict(c, i))
<1>1. \A j \in 1..kSize : j < kSize => j + 1 \in 1..kSize
  OBVIOUS
<1>2. Sound(NoEntry)
  BY DEF Sound
<1>. QED  BY <1>1, <1>2 DEF SoundCache, Evict

----------------------------------------------------------------------------
(* Frames: what a step of find leaves alone.                               *)

\* A thread in find changes no page and no sub_segment, and is in neither
\* register_segment nor unregister_segment before or after its step.
Looks(t) ==
  /\ UNCHANGED <<trieVars, objVars>>
  /\ ~Working(t) /\ ~Working(t)'
  /\ \A u \in Threads \ {t} : pc'[u] = pc[u] /\ seg'[u] = seg[u] /\ at'[u] = at[u]

\* Such a step keeps what is said of the trie and of the sub_segments.
LEMMA LooksKeeps ==
  ASSUME IInv, NEW t \in Threads, Looks(t)
  PROVE  /\ Disjoint' /\ InPages' /\ Workers' /\ Apart' /\ Inserted' /\ Cleared'
         /\ NoDanglingPage' /\ LivePagesMapped' /\ Nodes'
<1>0. /\ page' = page /\ missed' = missed /\ nodes' = nodes
      /\ state' = state /\ base' = base /\ size' = size
      /\ \A u \in Threads : Working(u)' =>
           Working(u) /\ pc'[u] = pc[u] /\ seg'[u] = seg[u] /\ at'[u] = at[u]
  BY DEF Looks
<1>1. Disjoint' /\ InPages'
  BY <1>0 DEF Disjoint, InPages
<1>2. Workers'
  BY <1>0 DEF Workers
<1>3. Apart'
  BY <1>0 DEF Apart
<1>4. Inserted'
  BY <1>0 DEF Inserted
<1>5. Cleared'
  BY <1>0 DEF Cleared
<1>6. NoDanglingPage' /\ LivePagesMapped' /\ Nodes'
  BY <1>0 DEF NoDanglingPage, LivePagesMapped, Nodes, Node
<1>. QED  BY <1>1, <1>2, <1>3, <1>4, <1>5, <1>6

\* A step that leaves one thread's cache sound, and all others alone.
LEMMA CachesKept ==
  ASSUME IInv, NEW t \in Threads, UNCHANGED objVars, NEW c, SoundCache(c),
         cache' = [cache EXCEPT ![t] = c]
  PROVE  /\ cache' \in [Threads -> [1..kSize -> CacheEntry \cup {NoEntry}]]
         /\ Entries'
<1>1. cache' \in [Threads -> [1..kSize -> CacheEntry \cup {NoEntry}]]
  BY DEF SoundCache, TypeOK
<1>2. \A u \in Threads : SoundCache(cache'[u])
  BY SoundCaches DEF TypeOK
<1>3. \A u \in Threads, i \in 1..kSize : Sound(cache'[u][i])
  BY <1>2 DEF SoundCache
<1>4. state' = state /\ base' = base /\ size' = size
  OBVIOUS
<1>5. Entries'
  BY <1>3, <1>4 DEF Sound, Entries
<1>. QED  BY <1>1, <1>5

----------------------------------------------------------------------------
(* Each action keeps the invariant.                                        *)

\* A new sub-segment gets unused pages, and no page leads to it yet.
LEMMA MapKeeps ==
  ASSUME IInv, NEW t \in Threads, NEW s \in Ptr, NEW b \in Pages,
         NEW n \in 1..MaxSize, Map(t, s, b, n)
  PROVE  IInv'
<1>1. TypeOK'
  BY DEF Map, TypeOK
<1>2. Disjoint'
  <2>. SUFFICES ASSUME NEW p \in Ptr, NEW q \in Ptr, Mapped(p)', Mapped(q)', p # q,
                       NEW pg \in Extent(p)', pg \in Extent(q)'
                PROVE  FALSE
    BY DEF Disjoint
  <2>1. \A r \in Ptr : r # s => Extent(r)' = Extent(r) /\ (Mapped(r)' => Mapped(r))
    BY DEF Map, TypeOK
  <2>2. Extent(s)' = b..(b + n - 1)
    BY DEF Map, TypeOK
  <2>3. \A r \in Ptr : Mapped(r) => (b..(b + n - 1)) \cap Extent(r) = {}
    BY DEF Map
  <2>4. CASE p = s  BY <2>1, <2>2, <2>3, <2>4
  <2>5. CASE q = s  BY <2>1, <2>2, <2>3, <2>5
  <2>6. CASE p # s /\ q # s  BY <2>1, <2>6 DEF Disjoint
  <2>. QED  BY <2>4, <2>5, <2>6
<1>3. InPages'
  BY DEF Map, TypeOK, InPages
<1>4. Workers'
  BY DEF Map, TypeOK, Workers
<1>5. Apart'
  BY DEF Map, TypeOK, Apart, Workers
<1>6. Inserted'
  BY DEF Map, TypeOK, Inserted, Workers
<1>7. Cleared'
  <2>1. \A u \in Threads : pc'[u] = "clear" =>
          /\ u # t /\ pc[u] = "clear" /\ seg'[u] = seg[u] /\ at'[u] = at[u]
          /\ seg[u] \in Ptr \ {s}
    BY DEF Map, TypeOK, Workers
  <2>2. page' = page /\ \A p \in Ptr \ {s} : base'[p] = base[p] /\ size'[p] = size[p]
    BY DEF Map, TypeOK
  <2>. QED  BY <2>1, <2>2 DEF Cleared
<1>8. NoDanglingPage'
  <2>1. \A pg \in Pages : page[pg] # Null => page[pg] \in Ptr /\ page[pg] # s
    BY DEF Map, TypeOK, NoDanglingPage
  <2>. QED  BY <2>1 DEF Map, TypeOK, NoDanglingPage
<1>9. LivePagesMapped'
  BY DEF Map, TypeOK, LivePagesMapped, Workers
<1>10. Entries'
  <2>1. \A u \in Threads, i \in 1..kSize :
          cache[u][i] # NoEntry => cache[u][i].seg \in Ptr \ {s}
    BY DEF Map, TypeOK, CacheEntry, Entries
  <2>2. /\ cache' = cache
        /\ \A p \in Ptr \ {s} :
             state'[p] = state[p] /\ base'[p] = base[p] /\ size'[p] = size[p]
    BY DEF Map, TypeOK
  <2>. QED  BY <2>1, <2>2 DEF Entries
<1>11. Finding'
  BY DEF Map, InUse, TypeOK, Finding, Workers
<1>12. Found'
  BY DEF Map, InUse, TypeOK, Found, Workers
<1>13. Nodes'
  BY DEF Map, TypeOK, Nodes, Node
<1>. QED  BY <1>1, <1>2, <1>3, <1>4, <1>5, <1>6, <1>7, <1>8, <1>9, <1>10, <1>11,
     <1>12, <1>13

\* One more page leads to the sub-segment being registered.
LEMMA InsertLeafKeeps ==
  ASSUME IInv, NEW t \in Threads, InsertLeaf(t)
  PROVE  IInv'
<1>1. TypeOK'
  <2>1. at[t] \in Pages /\ at[t] \in Nat /\ seg[t] \in Ptr
    BY DEF InPages, InsertLeaf, TypeOK, Workers
  <2>2. /\ page' \in [Pages -> Ptr \cup {Null}]
        /\ nodes' \subseteq {Node(pg) : pg \in Pages} /\ missed' \subseteq Pages
    BY <2>1 DEF InsertLeaf, TypeOK
  <2>3. at' \in [Threads -> Nat] /\ UNCHANGED <<state, base, size, cache, pc, seg>>
    BY <2>1 DEF InsertLeaf, TypeOK
  <2>. QED  BY <2>2, <2>3 DEF TypeOK
<1>2. Disjoint'
  BY DEF InsertLeaf, TypeOK, Disjoint, Workers
<1>3. InPages'
  BY DEF InsertLeaf, TypeOK, InPages
<1>4. Workers'
  BY DEF InsertLeaf, TypeOK, Workers
<1>5. Apart'
  BY DEF InsertLeaf, TypeOK, Apart, Workers
<1>6. Inserted'
  <2>. SUFFICES ASSUME NEW u \in Threads, pc[u] = "insert",
                       NEW pg \in Extent(seg[u]), pg < at'[u]
                PROVE  page'[pg] = IF pg \in missed' THEN Null ELSE seg[u]
    BY DEF InsertLeaf, Inserted
  <2>1. seg[t] \in Ptr /\ seg[u] \in Ptr /\ Mapped(seg[t]) /\ Mapped(seg[u])
    BY DEF InsertLeaf, Workers
  <2>2. pg \in Pages /\ at[t] \in Nat /\ pg \in Int
    BY <2>1 DEF InPages, TypeOK
  <2>3. CASE u = t
    <3>1. at'[t] = at[t] + 1 /\ at[t] \in Pages
      BY <2>1 DEF InsertLeaf, InPages, TypeOK
    <3>2. CASE pg = at[t]
      <4>1. page[pg] = Null \/ Node(pg) \in nodes
        BY <2>2 DEF Nodes
      <4>. QED  BY <2>2, <2>3, <3>1, <3>2, <4>1 DEF InsertLeaf, TypeOK
    <3>3. CASE pg # at[t]
      <4>1. pg < at[t]
        BY <2>2, <2>3, <3>1, <3>3
      <4>2. page'[pg] = page[pg] /\ (pg \in missed' <=> pg \in missed)
        BY <2>2, <3>3 DEF InsertLeaf, TypeOK
      <4>. QED  BY <2>3, <4>1, <4>2 DEF InsertLeaf, Inserted
    <3>. QED  BY <3>2, <3>3
  <2>4. CASE u # t
    <3>1. seg[u] # seg[t]  BY <2>4 DEF Apart, InsertLeaf
    <3>2. pg # at[t]       BY <2>1, <3>1 DEF Disjoint, InsertLeaf
    <3>3. page'[pg] = page[pg] /\ (pg \in missed' <=> pg \in missed) /\ at'[u] = at[u]
      BY <2>2, <2>4, <3>2 DEF InsertLeaf, TypeOK
    <3>. QED  BY <3>3 DEF Inserted
  <2>. QED  BY <2>3, <2>4
<1>7. Cleared'
  <2>. SUFFICES ASSUME NEW u \in Threads, pc[u] = "clear",
                       NEW pg \in Extent(seg[u]), pg < at'[u]
                PROVE  page'[pg] # seg[u]
    BY DEF InsertLeaf, Cleared
  <2>1. u # t /\ at'[u] = at[u]
    BY DEF InsertLeaf, TypeOK
  <2>2. page[pg] # seg[u]
    BY <2>1 DEF Cleared
  <2>3. seg[t] # seg[u]
    BY <2>1 DEF InsertLeaf, Apart
  <2>4. pg \in Pages
    BY DEF Workers, InPages
  <2>. QED  BY <2>2, <2>3, <2>4 DEF InsertLeaf, TypeOK
<1>8. NoDanglingPage'
  BY DEF InPages, InsertLeaf, TypeOK, NoDanglingPage, Workers
<1>9. LivePagesMapped'
  <2>1. seg[t] \in Ptr /\ state[seg[t]] = "entering" /\ at[t] \in Extent(seg[t])
    BY DEF InsertLeaf, Workers
  <2>2. \A s \in Ptr : state[s] = "live" => at[t] \notin Extent(s)
    BY <2>1 DEF Disjoint
  <2>3. \A pg \in Pages \ {at[t]} : page'[pg] = page[pg] /\ (pg \in missed' <=> pg \in missed)
    BY DEF InsertLeaf, TypeOK
  <2>4. UNCHANGED objVars
    BY DEF InsertLeaf
  <2>. QED  BY <2>2, <2>3, <2>4 DEF LivePagesMapped, InPages
<1>10. Entries'
  BY DEF InsertLeaf, TypeOK, Entries, Workers
<1>11. Finding'
  BY DEF InsertLeaf, TypeOK, Finding, Workers
<1>12. Found'
  BY DEF InsertLeaf, TypeOK, Found, Workers
<1>13. Nodes'
  <2>1. seg[t] \in Ptr /\ at[t] \in Pages
    BY DEF InsertLeaf, Workers, InPages
  <2>. QED  BY <2>1 DEF InsertLeaf, TypeOK, Nodes
<1>. QED  BY <1>1, <1>2, <1>3, <1>4, <1>5, <1>6, <1>7, <1>8, <1>9, <1>10, <1>11,
     <1>12, <1>13

\* The loop is done: all pages lead to the sub-segment, and the pre-warmed
\* entry lies within it.
LEMMA RegisteredKeeps ==
  ASSUME IInv, NEW t \in Threads, Registered(t)
  PROVE  IInv'
<1>0. /\ seg[t] \in Ptr /\ state[seg[t]] = "entering"
      /\ SoundCache(cache'[t])
      /\ cache' = [cache EXCEPT ![t] = cache'[t]]
  <2>. DEFINE s == seg[t]
              e == Entry(base[s], base[s] + 1, s, base[s])
              warm == IF page[base[s]] = Null THEN NoCache ELSE Insert(NoCache, e)
  <2>1. s \in Ptr /\ state[s] = "entering"
    BY DEF Registered, Workers
  <2>2. size[s] > 0 /\ base[s] \in Pages
    <3>1. size[s] > 0 /\ size[s] \in Nat /\ base[s] \in Nat
      BY <2>1 DEF InPages, TypeOK
    <3>2. base[s] \in Extent(s)
      BY <3>1
    <3>. QED  BY <2>1, <3>1, <3>2 DEF InPages
  <2>3. e \in CacheEntry /\ e.seg = s
    BY <2>1, <2>2 DEF Entry, CacheEntry, TypeOK
  <2>4. \A pg \in Nat : Covers(e, pg) => pg \in Extent(s)
    BY <2>1, <2>2 DEF Covers, Entry, TypeOK
  <2>5. Sound(e)
    BY <2>1, <2>3, <2>4 DEF Sound
  <2>6. page[base[s]] \in {Null, s}
    <3>1. base[s] \in Extent(s) /\ base[s] < at[t]
      BY <2>1, <2>2 DEF Registered, Workers, TypeOK
    <3>. QED  BY <3>1 DEF Registered, Inserted
  <2>7. cache' = [cache EXCEPT ![t] = Expanded(warm, s)]
    BY <2>6 DEF Registered
  <2>. HIDE DEF e
  <2>8. SoundCache(Expanded(warm, s))
    BY <2>1, <2>5, EmptySound, InsertSound, ExpandedSound
  <2>. QED  BY <2>1, <2>7, <2>8 DEF TypeOK
<1>1. TypeOK'
  BY <1>0 DEF Registered, SoundCache, TypeOK
<1>2. Disjoint' /\ InPages'
  <2>1. /\ base' = base /\ size' = size
        /\ \A p \in Ptr : Mapped(p)' => Mapped(p)
    BY DEF Registered, TypeOK, Workers
  <2>. QED  BY <2>1 DEF Disjoint, InPages
<1>4. Workers'
  BY DEF Apart, Registered, TypeOK, Workers
<1>5. Apart'
  BY DEF Registered, TypeOK, Apart, Workers
<1>6. Inserted'
  BY DEF Apart, Registered, TypeOK, Inserted, Workers
<1>7. Cleared'
  BY DEF Registered, TypeOK, Cleared, Workers
<1>8. NoDanglingPage'
  BY DEF Registered, TypeOK, NoDanglingPage, Workers
<1>9. LivePagesMapped'
  <2>1. /\ UNCHANGED <<page, missed, base, size>>
        /\ \A s \in Ptr : state'[s] = "live" => state[s] = "live" \/ s = seg[t]
    BY DEF Registered, TypeOK
  <2>2. \A pg \in Extent(seg[t]) : pg < at[t]
    BY <1>0 DEF Registered, Workers, TypeOK
  <2>3. pc[t] = "insert"
    BY DEF Registered
  <2>. QED  BY <2>1, <2>2, <2>3 DEF LivePagesMapped, Inserted
<1>10. Entries'
  <2>1. \A u \in Threads : SoundCache(cache[u])
    BY SoundCaches
  <2>2. \A u \in Threads, i \in 1..kSize : Sound(cache'[u][i])
    BY <1>0, <2>1 DEF SoundCache, TypeOK
  <2>3. /\ base' = base /\ size' = size
        /\ \A s \in Ptr : state[s] # "none" => state'[s] # "none"
    BY <1>0 DEF Registered, TypeOK
  <2>4. \A e \in CacheEntry : e.seg \in Ptr
    BY DEF CacheEntry
  <2>. QED  BY <2>2, <2>3, <2>4 DEF Sound, Entries
<1>11. Finding'
  BY DEF Registered, TypeOK, Finding, Workers
<1>12. Found'
  BY DEF Registered, TypeOK, Found, Workers
<1>13. Nodes'
  BY DEF Registered, TypeOK, Nodes, Node
<1>. QED  BY <1>1, <1>2, <1>4, <1>5, <1>6, <1>7, <1>8, <1>9, <1>10, <1>11,
     <1>12, <1>13

\* No address of the sub-segment is being resolved when it is removed.
LEMMA UnregisterKeeps ==
  ASSUME IInv, NEW t \in Threads, NEW s \in Ptr, Unregister(t, s)
  PROVE  IInv'
<1>1. TypeOK'
  BY DEF Unregister, TypeOK
<1>2. Disjoint' /\ InPages'
  <2>1. /\ base' = base /\ size' = size
        /\ \A p \in Ptr : Mapped(p)' => Mapped(p)
    BY DEF Unregister, TypeOK
  <2>. QED  BY <2>1 DEF Disjoint, InPages
<1>4. Workers'
  BY DEF Unregister, TypeOK, Workers
<1>5. Apart'
  BY DEF Unregister, TypeOK, Apart, Workers
<1>6. Inserted'
  BY DEF Unregister, TypeOK, Inserted, Workers
<1>7. Cleared'
  BY DEF Unregister, TypeOK, Cleared, Workers
<1>8. NoDanglingPage'
  BY DEF Unregister, TypeOK, NoDanglingPage, Workers
<1>9. LivePagesMapped'
  BY DEF Unregister, TypeOK, LivePagesMapped, Workers
<1>10. Entries'
  <2>1. UNCHANGED <<cache, base, size>>
    BY DEF Unregister
  <2>2. \A q \in Ptr : state'[q] = "none" => state[q] = "none"
    BY DEF Unregister, TypeOK
  <2>3. \A u \in Threads, i \in 1..kSize : cache[u][i] # NoEntry => cache[u][i].seg \in Ptr
    BY DEF TypeOK, CacheEntry
  <2>. QED  BY <2>1, <2>2, <2>3 DEF Entries
<1>11. Finding'
  BY DEF Unregister, InUse, TypeOK, Finding, Workers
<1>12. Found'
  BY DEF Unregister, InUse, TypeOK, Found, Workers
<1>13. Nodes'
  BY DEF Unregister, TypeOK, Nodes, Node
<1>. QED  BY <1>1, <1>2, <1>4, <1>5, <1>6, <1>7, <1>8, <1>9, <1>10, <1>11,
     <1>12, <1>13

\* One page less leads to the sub-segment being unregistered.
LEMMA ClearLeafKeeps ==
  ASSUME IInv, NEW t \in Threads, ClearLeaf(t)
  PROVE  IInv'
<1>1. TypeOK'
  BY DEF InPages, ClearLeaf, TypeOK, Workers
<1>2. Disjoint'
  BY DEF ClearLeaf, TypeOK, Disjoint, Workers
<1>3. InPages'
  BY DEF ClearLeaf, TypeOK, InPages
<1>4. Workers'
  BY DEF ClearLeaf, TypeOK, Workers
<1>5. Apart'
  BY DEF ClearLeaf, TypeOK, Apart, Workers
<1>6. Inserted'
  <2>. SUFFICES ASSUME NEW u \in Threads, pc[u] = "insert",
                       NEW pg \in Extent(seg[u]), pg < at'[u]
                PROVE  page'[pg] = IF pg \in missed' THEN Null ELSE seg[u]
    BY DEF ClearLeaf, Inserted
  <2>1. u # t /\ at'[u] = at[u]
    BY DEF ClearLeaf, TypeOK
  <2>2. page[pg] = IF pg \in missed THEN Null ELSE seg[u]
    BY <2>1 DEF Inserted
  <2>3. seg[t] \in Ptr /\ seg[u] \in Ptr /\ Mapped(seg[t]) /\ Mapped(seg[u])
    BY DEF ClearLeaf, Workers
  <2>4. seg[t] # seg[u]
    BY <2>1 DEF ClearLeaf, Apart
  <2>5. pg # at[t]
    BY <2>3, <2>4 DEF ClearLeaf, Disjoint
  <2>6. pg \in Pages
    BY <2>3 DEF InPages
  <2>. QED  BY <2>2, <2>5, <2>6 DEF ClearLeaf, TypeOK
<1>7. Cleared'
  <2>. SUFFICES ASSUME NEW u \in Threads, pc[u] = "clear",
                       NEW pg \in Extent(seg[u]), pg < at'[u]
                PROVE  page'[pg] # seg[u]
    BY DEF ClearLeaf, Cleared
  <2>1. seg[t] \in Ptr /\ seg[u] \in Ptr /\ Mapped(seg[t]) /\ Mapped(seg[u])
    BY DEF ClearLeaf, Workers
  <2>2. pg \in Pages /\ at[t] \in Nat /\ pg \in Int
    BY <2>1 DEF InPages, TypeOK
  <2>3. CASE u = t
    BY <2>1, <2>2, <2>3 DEF ClearLeaf, Cleared, TypeOK
  <2>4. CASE u # t
    <3>1. seg[u] # seg[t]  BY <2>4 DEF Apart, ClearLeaf
    <3>2. pg # at[t]       BY <2>1, <3>1 DEF Disjoint, ClearLeaf
    <3>. QED  BY <2>2, <2>4, <3>2 DEF ClearLeaf, Cleared, TypeOK
  <2>. QED  BY <2>3, <2>4
<1>8. NoDanglingPage'
  BY DEF InPages, ClearLeaf, TypeOK, NoDanglingPage, Workers
<1>9. LivePagesMapped'
  <2>1. seg[t] \in Ptr /\ state[seg[t]] = "leaving" /\ at[t] \in Extent(seg[t])
    BY DEF ClearLeaf, Workers
  <2>2. \A s \in Ptr : state[s] = "live" => at[t] \notin Extent(s)
    BY <2>1 DEF Disjoint
  <2>. QED  BY <2>2 DEF ClearLeaf, TypeOK, LivePagesMapped
<1>10. Entries'
  BY DEF ClearLeaf, TypeOK, Entries, Workers
<1>11. Finding'
  BY DEF ClearLeaf, TypeOK, Finding, Workers
<1>12. Found'
  BY DEF ClearLeaf, TypeOK, Found, Workers
<1>13. Nodes'
  BY DEF ClearLeaf, TypeOK, Nodes, Node
<1>. QED  BY <1>1, <1>2, <1>3, <1>4, <1>5, <1>6, <1>7, <1>8, <1>9, <1>10, <1>11,
     <1>12, <1>13

\* No page leads to the sub-segment that is deleted.
LEMMA UnmapKeeps ==
  ASSUME IInv, NEW t \in Threads, ~ReusePtr, Unmap(t)
  PROVE  IInv'
<1>1. TypeOK'
  BY DEF Unmap, Deleted, NoCache, TypeOK, CacheEntry, NoEntry, Entry, Workers
<1>2. Disjoint' /\ InPages'
  <2>1. /\ base' = base /\ size' = size
        /\ \A p \in Ptr : Mapped(p)' => Mapped(p)
    BY DEF Unmap, Deleted, TypeOK, Workers
  <2>. QED  BY <2>1 DEF Disjoint, InPages
<1>4. Workers'
  BY DEF Apart, Unmap, Deleted, TypeOK, Workers
<1>5. Apart'
  BY DEF Unmap, Deleted, TypeOK, Apart, Workers
<1>6. Inserted'
  BY DEF Unmap, Deleted, TypeOK, Inserted, Workers
<1>7. Cleared'
  BY DEF Unmap, Deleted, TypeOK, Cleared, Workers
<1>8. NoDanglingPage'
  BY DEF Cleared, InPages, Unmap, Deleted, TypeOK, NoDanglingPage, Workers
<1>9. LivePagesMapped'
  BY DEF Unmap, Deleted, TypeOK, LivePagesMapped, Workers
<1>10. Entries'
  BY DEF Unmap, Deleted, NoCache, TypeOK, Entries, Covers, NoEntry, Entry,
       CacheEntry, Workers
<1>11. Finding'
  BY DEF Unmap, Deleted, TypeOK, Finding, Workers
<1>12. Found'
  BY DEF Finding, Unmap, Deleted, TypeOK, Found, Workers
<1>13. Nodes'
  BY DEF Unmap, TypeOK, Nodes, Node
<1>. QED  BY <1>1, <1>2, <1>4, <1>5, <1>6, <1>7, <1>8, <1>9, <1>10, <1>11,
     <1>12, <1>13

\* The slot read vouches for the range, hence for the address.
LEMMA FindHitKeeps ==
  ASSUME IInv, NEW t \in Threads, NEW pg \in Pages, FindHit(t, pg)
  PROVE  IInv'
<1>0. PICK i \in 1..kSize :
        /\ Covers(cache[t][i], pg)
        /\ page[cache[t][i].leaf] = cache[t][i].seg
        /\ cache' = [cache EXCEPT ![t] = ToFront(cache[t], i)]
        /\ seg' = [seg EXCEPT ![t] = cache[t][i].seg]
  BY DEF FindHit, First, Fresh
<1>1. Looks(t)
  BY <1>0 DEF FindHit, Looks, TypeOK
<1>2. /\ cache' \in [Threads -> [1..kSize -> CacheEntry \cup {NoEntry}]]
      /\ Entries'
  <2>1. UNCHANGED objVars
    BY DEF FindHit
  <2>2. SoundCache(ToFront(cache[t], i))
    BY SoundCaches, ToFrontSound
  <2>. QED  BY <1>0, <2>1, <2>2, CachesKept
<1>3. cache[t][i] \in CacheEntry /\ pg \in Extent(cache[t][i].seg)
  <2>1. cache[t][i] # NoEntry
    BY <1>0 DEF Covers, NoEntry, Entry
  <2>2. cache[t][i] \in CacheEntry \cup {NoEntry}
    BY DEF TypeOK
  <2>3. pg \in Extent(cache[t][i].seg)
    BY <1>0, <2>1 DEF Entries
  <2>. QED  BY <2>1, <2>2, <2>3
<1>4. cache[t][i].leaf \in Pages /\ cache[t][i].seg \in Ptr
  BY <1>3 DEF CacheEntry
<1>5. TypeOK'
  BY <1>0, <1>2, <1>4 DEF FindHit, TypeOK
<1>6. Finding'
  BY OwnerIs DEF FindHit, TypeOK, Finding, Disjoint
<1>7. Found'
  <2>1. Mapped(cache[t][i].seg) \/ Lost(cache[t][i].seg)
    BY <1>0, <1>4 DEF NoDanglingPage
  <2>. QED  BY <1>0, <1>3, <1>4, <2>1 DEF FindHit, Found, TypeOK
<1>. QED  BY <1>1, <1>2, <1>5, <1>6, <1>7, LooksKeeps

\* Eviction only removes entries.
LEMMA FindStaleKeeps ==
  ASSUME IInv, NEW t \in Threads, NEW pg \in Pages, FindStale(t, pg)
  PROVE  IInv'
<1>1. Looks(t)
  BY DEF FindStale, Looks, TypeOK
<1>2. /\ cache' \in [Threads -> [1..kSize -> CacheEntry \cup {NoEntry}]]
      /\ Entries'
  <2>1. UNCHANGED objVars
    BY DEF FindStale
  <2>2. PICK i \in 1..kSize : cache' = [cache EXCEPT ![t] = Evict(cache[t], i)]
    BY DEF FindStale
  <2>3. SoundCache(Evict(cache[t], i))
    BY SoundCaches, EvictSound
  <2>. QED  BY <2>1, <2>2, <2>3, CachesKept
<1>3. TypeOK'
  BY <1>2 DEF FindStale, TypeOK
<1>4. Finding'
  BY OwnerIs DEF FindStale, TypeOK, Finding, Disjoint
<1>5. Found'
  BY DEF FindStale, TypeOK, Found
<1>. QED  BY <1>1, <1>2, <1>3, <1>4, <1>5, LooksKeeps

\* A miss changes nothing but the program point.
LEMMA FindMissKeeps ==
  ASSUME IInv, NEW t \in Threads, NEW pg \in Pages, FindMiss(t, pg)
  PROVE  IInv'
<1>1. Looks(t)
  BY DEF FindMiss, Looks, TypeOK
<1>2. TypeOK'
  BY DEF FindMiss, TypeOK
<1>3. Entries'
  BY DEF FindMiss, Entries
<1>4. Finding'
  BY OwnerIs DEF FindMiss, TypeOK, Finding, Disjoint
<1>5. Found'
  BY DEF FindMiss, TypeOK, Found
<1>. QED  BY <1>1, <1>2, <1>3, <1>4, <1>5, LooksKeeps

\* The page found leads to its sub-segment, and so does the new entry.
LEMMA WalkKeeps ==
  ASSUME IInv, NEW t \in Threads, Walk(t)
  PROVE  IInv'
<1>. DEFINE pg == at[t]
            v  == page[pg]
            e  == Entry(pg, pg + 1, v, pg)
<1>1. pg \in Pages
  BY DEF Walk, Finding, TypeOK
<1>2. Looks(t)
  BY DEF Walk, Looks, TypeOK
<1>3. Finding'
  BY DEF Walk, TypeOK, Finding
<1>4. CASE v = Null
  <2>1. TypeOK'
    BY <1>4 DEF Walk, TypeOK
  <2>2. Entries'
    BY <1>4 DEF Walk, Entries
  <2>3. Found'
    BY <1>4 DEF Walk, Found, TypeOK
  <2>. QED  BY <1>2, <1>3, <2>1, <2>2, <2>3, LooksKeeps
<1>5. CASE v # Null
  <2>1. v \in Ptr /\ (Mapped(v) \/ Lost(v)) /\ pg \in Extent(v)
    BY <1>1, <1>5 DEF NoDanglingPage, TypeOK
  <2>2. /\ cache' = [cache EXCEPT ![t] = Insert(cache[t], e)]
        /\ pc' = [pc EXCEPT ![t] = "expand"]
        /\ seg' = [seg EXCEPT ![t] = v]
        /\ UNCHANGED <<page, objVars, at>>
    BY <1>5 DEF Walk
  <2>3. Sound(e)
    <3>1. e \in CacheEntry /\ e.seg = v
      BY <1>1, <2>1 DEF Entry, CacheEntry, TypeOK
    <3>2. \A q \in Nat : Covers(e, q) => q \in Extent(v)
      BY <1>1, <2>1 DEF Covers, Entry, TypeOK
    <3>. QED  BY <2>1, <3>1, <3>2 DEF Sound
  <2>. HIDE DEF e
  <2>4. SoundCache(Insert(cache[t], e))
    BY <2>3, SoundCaches, InsertSound
  <2>5. /\ cache' \in [Threads -> [1..kSize -> CacheEntry \cup {NoEntry}]]
        /\ Entries'
    BY <2>2, <2>4, CachesKept
  <2>6. TypeOK'
    <3>1. UNCHANGED <<page, nodes, missed, state, base, size, at>>
      BY DEF Walk
    <3>2. pc' \in [Threads -> {"idle", "insert", "clear", "walk", "expand", "done"}]
          /\ seg' \in [Threads -> Ptr \cup {Null}]
      BY <2>1, <2>2 DEF TypeOK
    <3>. QED  BY <2>5, <3>1, <3>2 DEF TypeOK
  <2>7. Found'
    BY <2>1, <2>2 DEF Found, TypeOK
  <2>. QED  BY <1>2, <1>3, <2>5, <2>6, <2>7, LooksKeeps
<1>. QED  BY <1>4, <1>5

\* The widened entry is the range of the sub-segment it names.
LEMMA ExpandKeeps ==
  ASSUME IInv, NEW t \in Threads, Expand(t)
  PROVE  IInv'
<1>1. Looks(t)
  BY DEF Expand, Looks, TypeOK
<1>2. /\ cache' \in [Threads -> [1..kSize -> CacheEntry \cup {NoEntry}]]
      /\ Entries'
  <2>1. seg[t] \in Ptr /\ state[seg[t]] # "none"
    BY DEF Found, Expand, TypeOK
  <2>2. SoundCache(Expanded(cache[t], seg[t]))
    BY <2>1, SoundCaches, ExpandedSound
  <2>3. UNCHANGED objVars /\ cache' = [cache EXCEPT ![t] = Expanded(cache[t], seg[t])]
    BY DEF Expand
  <2>. QED  BY <2>2, <2>3, CachesKept
<1>3. TypeOK'
  BY <1>2 DEF Expand, TypeOK
<1>4. Finding'
  BY DEF Expand, TypeOK, Finding
<1>5. Found'
  BY DEF Expand, TypeOK, Found
<1>. QED  BY <1>1, <1>2, <1>3, <1>4, <1>5, LooksKeeps

\* The answer is dropped.
LEMMA UseKeeps ==
  ASSUME IInv, NEW t \in Threads, Use(t)
  PROVE  IInv'
<1>1. Looks(t)
  BY DEF Use, Looks, TypeOK
<1>2. TypeOK'
  BY DEF Use, TypeOK
<1>3. Entries'
  BY DEF Use, Entries
<1>4. Finding'
  BY DEF Use, TypeOK, Finding
<1>5. Found'
  BY DEF Use, TypeOK, Found
<1>. QED  BY <1>1, <1>2, <1>3, <1>4, <1>5, LooksKeeps

\* A sub_segment is deleted with its pages still in the trie: what is said of
\* registered sub-segments is not touched.
LEMMA OpenFailsKeeps ==
  ASSUME ~ReusePtr, IInv, NEW t \in Threads, NEW s \in Ptr, OpenFails(t, s)
  PROVE  IInv'
<1>0. /\ page' = page /\ nodes' = nodes /\ missed' = missed
      /\ base' = base /\ size' = size /\ cache' = cache
      /\ pc' = pc /\ seg' = seg /\ at' = at
      /\ state[s] = "live" /\ state' = [state EXCEPT ![s] = "lost"]
      /\ state'[s] = "lost" /\ \A p \in Ptr \ {s} : state'[p] = state[p]
  BY DEF OpenFails, Deleted, TypeOK
<1>1. TypeOK'
  BY <1>0 DEF TypeOK
<1>2. Disjoint'
  BY <1>0 DEF Disjoint
<1>3. InPages'
  BY <1>0 DEF InPages
<1>4. Workers'
  BY <1>0 DEF Workers
<1>5. Apart' /\ Inserted' /\ Cleared'
  BY <1>0 DEF Apart, Inserted, Cleared
<1>6. NoDanglingPage'
  BY <1>0 DEF TypeOK, NoDanglingPage
<1>7. LivePagesMapped'
  BY <1>0 DEF LivePagesMapped
<1>8. Entries'
  <2>1. \A u \in Threads, i \in 1..kSize : cache[u][i] # NoEntry => cache[u][i].seg \in Ptr
    BY DEF TypeOK, CacheEntry
  <2>. QED  BY <1>0, <2>1 DEF Entries
<1>9. Finding'
  BY <1>0 DEF Finding
<1>10. Found'
  BY <1>0 DEF TypeOK, Found
<1>11. Nodes'
  BY <1>0 DEF Nodes, Node
<1>. QED  BY <1>1, <1>2, <1>3, <1>4, <1>5, <1>6, <1>7, <1>8, <1>9, <1>10, <1>11

----------------------------------------------------------------------------
(* The theorems.                                                           *)

\* The registry starts empty.
LEMMA InitInv == Init => IInv
<1>. SUFFICES ASSUME Init PROVE IInv
  OBVIOUS
<1>1. TypeOK
  BY DEF Init, TypeOK, NoCache
<1>2. Disjoint /\ InPages /\ LivePagesMapped
  BY DEF Init, Disjoint, InPages, LivePagesMapped
<1>3. Workers /\ Apart /\ Inserted /\ Cleared /\ Finding /\ Found
  BY DEF Init, Workers, Apart, Inserted, Cleared, Finding, Found
<1>4. NoDanglingPage /\ Nodes /\ Entries
  BY DEF Init, NoDanglingPage, Nodes, Entries, NoCache
<1>. QED  BY <1>1, <1>2, <1>3, <1>4

\* Every step keeps the invariant, unless addresses of objects are reused.
LEMMA NextInv ==
  ASSUME ~ReusePtr, IInv, [Next]_vars
  PROVE  IInv'
<1>1. CASE UNCHANGED vars
  BY <1>1 DEF vars, TypeOK, Disjoint, InPages, Workers, Apart, Inserted, Cleared,
       NoDanglingPage, LivePagesMapped, Nodes, Entries, Finding, Found
<1>2. ASSUME NEW t \in Threads, NEW s \in Ptr, NEW b \in Pages, NEW n \in
         1..MaxSize,
             Map(t, s, b, n)
      PROVE  IInv'
  BY <1>2, MapKeeps
<1>3. ASSUME NEW t \in Threads, NEW s \in Ptr, Unregister(t, s) \/ OpenFails(t, s)
      PROVE  IInv'
  BY <1>3, UnregisterKeeps, OpenFailsKeeps
<1>4. ASSUME NEW t \in Threads, NEW pg \in Pages,
             FindHit(t, pg) \/ FindStale(t, pg) \/ FindMiss(t, pg)
      PROVE  IInv'
  BY <1>4, FindHitKeeps, FindStaleKeeps, FindMissKeeps
<1>5. ASSUME NEW t \in Threads,
             \/ InsertLeaf(t) \/ Registered(t) \/ ClearLeaf(t) \/ Unmap(t)
             \/ Walk(t) \/ Expand(t) \/ Use(t)
      PROVE  IInv'
  BY <1>5, InsertLeafKeeps, RegisteredKeeps, ClearLeafKeeps, UnmapKeeps,
       WalkKeeps, ExpandKeeps, UseKeeps
<1>. QED  BY <1>1, <1>2, <1>3, <1>4, <1>5 DEF Next

\* The invariant gives the two facts about the cache.
LEMMA InvImplies == IInv => LookupSound /\ TrustedRanges
<1>. SUFFICES ASSUME IInv PROVE LookupSound /\ TrustedRanges
  OBVIOUS
<1>1. LookupSound
  <2>. SUFFICES ASSUME NEW t \in Threads, pc[t] = "done", seg[t] # Null
                PROVE  seg[t] = Owner(at[t]) \/ Lost(seg[t])
    BY DEF LookupSound
  <2>1. /\ seg[t] \in Ptr /\ at[t] \in Extent(seg[t])
        /\ Mapped(seg[t]) \/ Lost(seg[t])
    BY DEF Found, TypeOK
  <2>. QED  BY <2>1, OwnerIs
<1>2. TrustedRanges
  <2>. SUFFICES ASSUME NEW t \in Threads, NEW i \in 1..kSize,
                       cache[t][i] # NoEntry, Fresh(cache[t][i])
                PROVE  /\ Mapped(cache[t][i].seg) \/ Lost(cache[t][i].seg)
                       /\ (cache[t][i].base..(cache[t][i].end - 1))
                            \subseteq Extent(cache[t][i].seg)
    BY DEF TrustedRanges
  <2>. DEFINE e == cache[t][i]
  <2>1. e \in CacheEntry
    BY DEF TypeOK
  <2>2. /\ e.base \in Nat /\ e.end \in Nat /\ e.seg \in Ptr /\ e.leaf \in Pages
    BY <2>1 DEF CacheEntry
  <2>3. Mapped(e.seg) \/ Lost(e.seg)
    BY <2>2 DEF Fresh, NoDanglingPage
  <2>4. \A pg \in Nat : Covers(e, pg) => pg \in Extent(e.seg)
    BY DEF Entries
  <2>5. \A pg \in e.base..(e.end - 1) : pg \in Nat /\ Covers(e, pg)
    BY <2>2 DEF Covers
  <2>. QED  BY <2>3, <2>4, <2>5
<1>. QED  BY <1>1, <1>2

\* find returns the owner of the address or nullptr, or what a failed opening
\* left behind, for any number of threads and any interleaving of openings,
\* removals and lookups, if no sub_segment gets the address of a deleted one.
THEOREM FindIsSound ==
  ASSUME ~ReusePtr
  PROVE  Spec => []LookupSound
<1>1. Init => IInv  BY InitInv
<1>2. IInv /\ [Next]_vars => IInv'  BY NextInv
<1>3. IInv => LookupSound  BY InvImplies
<1>. QED  BY <1>1, <1>2, <1>3, PTL DEF Spec

\* The one leaf slot that lookup_impl reads vouches for the whole range.
THEOREM OneSlotVouches ==
  ASSUME ~ReusePtr
  PROVE  Spec => []TrustedRanges
<1>1. Init => IInv  BY InitInv
<1>2. IInv /\ [Next]_vars => IInv'  BY NextInv
<1>3. IInv => TrustedRanges  BY InvImplies
<1>. QED  BY <1>1, <1>2, <1>3, PTL DEF Spec

\* No leaf slot points to an unregistered sub_segment, or lies outside the
\* pages of the one it names.
THEOREM SlotsAreRight ==
  ASSUME ~ReusePtr
  PROVE  Spec => []NoDanglingPage
<1>1. Init => IInv  BY InitInv
<1>2. IInv /\ [Next]_vars => IInv'  BY NextInv
<1>3. IInv => NoDanglingPage  OBVIOUS
<1>. QED  BY <1>1, <1>2, <1>3, PTL DEF Spec

\* Every page of a registered sub_segment leads to it, or nowhere if insert_leaf
\* found no memory for a node on the way.
THEOREM PagesAreRight ==
  ASSUME ~ReusePtr
  PROVE  Spec => []LivePagesMapped
<1>1. Init => IInv  BY InitInv
<1>2. IInv /\ [Next]_vars => IInv'  BY NextInv
<1>3. IInv => LivePagesMapped  OBVIOUS
<1>. QED  BY <1>1, <1>2, <1>3, PTL DEF Spec

\* Evicting an entry that is in use leaves one less.
LEMMA EvictDrops ==
  ASSUME NEW c, NEW i \in 1..kSize, c[i] # NoEntry
  PROVE  Used(Evict(c, i)) < Used(c)
<1>. DEFINE S == {j \in 1..kSize : Evict(c, i)[j] # NoEntry}
            T == {j \in 1..kSize : c[j] # NoEntry}
            f == [j \in S |-> IF j < i THEN j ELSE j + 1]
<1>1. IsFiniteSet(1..kSize)
  BY FS_Interval
<1>2. IsFiniteSet(T) /\ Cardinality(T) \in Nat
  BY <1>1, FS_Subset, FS_CardinalityType
<1>3. ASSUME NEW j \in S PROVE f[j] \in T \ {i}
  <2>1. Evict(c, i)[j] = IF j < i THEN c[j] ELSE IF j < kSize THEN c[j + 1] ELSE NoEntry
    BY DEF Evict
  <2>2. CASE j < i
    BY <2>1, <2>2
  <2>3. CASE ~(j < i)
    <3>1. j < kSize /\ c[j + 1] # NoEntry
      BY <2>1, <2>3
    <3>. QED  BY <2>3, <3>1
  <2>. QED  BY <2>2, <2>3
<1>4. \A j, k \in S : f[j] = f[k] => j = k
  OBVIOUS
<1>. HIDE DEF S, T
<1>5. f \in [S -> T \ {i}]
  BY <1>3
<1>6. f \in Injection(S, T \ {i})
  BY <1>4, <1>5 DEF Injection, IsInjective
<1>. HIDE DEF f
<1>7. /\ IsFiniteSet(T \ {i})
      /\ Cardinality(T \ {i}) = IF i \in T THEN Cardinality(T) - 1 ELSE Cardinality(T)
  BY <1>2, FS_RemoveElement
<1>8. i \in T
  BY DEF T
<1>9. IsFiniteSet(S) /\ Cardinality(S) <= Cardinality(T \ {i})
  BY <1>6, <1>7, FS_Injection
<1>10. Cardinality(S) \in Nat
  BY <1>9, FS_CardinalityType
<1>11. Cardinality(S) < Cardinality(T)
  BY <1>2, <1>7, <1>8, <1>9, <1>10
<1>. QED  BY <1>11 DEF Used, S, T

\* A find that returns nullptr for an owned address has evicted an entry, unless
\* insert_leaf gave the page up.
LEMMA StepEvicts ==
  ASSUME IInv, [Next]_vars, NEW t \in Threads, pc[t] # "done", pc'[t] = "done",
         seg'[t] = Null, Owner(at[t])' # Null, at'[t] \notin missed
  PROVE  Used(cache'[t]) < Used(cache[t])
<1>1. CASE UNCHANGED vars
  BY <1>1 DEF vars
<1>2. ASSUME NEW u \in Threads, NEW s \in Ptr, NEW b \in Pages, NEW n \in 1..MaxSize,
             Map(u, s, b, n)
      PROVE  FALSE
  BY <1>2 DEF Map, TypeOK
<1>3. ASSUME NEW u \in Threads, NEW s \in Ptr, Unregister(u, s) \/ OpenFails(u, s)
      PROVE  FALSE
  BY <1>3 DEF Unregister, OpenFails, TypeOK
<1>4. ASSUME NEW u \in Threads, NEW pg \in Pages, FindHit(u, pg) \/ FindMiss(u, pg)
      PROVE  FALSE
  BY <1>4 DEF FindHit, FindMiss, TypeOK
<1>5. ASSUME NEW u \in Threads, NEW pg \in Pages, FindStale(u, pg)
      PROVE  Used(cache'[t]) < Used(cache[t])
  <2>1. u = t
    BY <1>5 DEF FindStale, TypeOK
  <2>2. PICK i \in 1..kSize : /\ Covers(cache[t][i], pg)
                              /\ cache' = [cache EXCEPT ![t] = Evict(cache[t], i)]
    BY <1>5, <2>1 DEF FindStale, First
  <2>3. cache[t][i] # NoEntry
    BY <2>2 DEF Covers, NoEntry, Entry
  <2>4. cache'[t] = Evict(cache[t], i)
    BY <2>2 DEF TypeOK
  <2>. QED  BY <2>3, <2>4, EvictDrops
<1>6. ASSUME NEW u \in Threads,
             InsertLeaf(u) \/ Registered(u) \/ ClearLeaf(u) \/ Unmap(u) \/ Use(u)
      PROVE  FALSE
  BY <1>6 DEF InsertLeaf, Registered, ClearLeaf, Unmap, Use, TypeOK
<1>7. ASSUME NEW u \in Threads, Walk(u)
      PROVE  FALSE
  <2>1. u = t /\ pc[t] = "walk" /\ page[at[t]] = Null
        /\ UNCHANGED <<state, base, size, at>>
    BY <1>7 DEF Walk, TypeOK
  <2>2. PICK s \in Ptr : Mapped(s) /\ at[t] \in Extent(s)
    BY <2>1 DEF Owner
  <2>3. state[s] = "live"
    BY <2>1, <2>2 DEF Finding
  <2>4. at[t] \notin missed
    BY <2>1
  <2>5. page[at[t]] = s
    BY <2>2, <2>3, <2>4 DEF LivePagesMapped
  <2>. QED  BY <2>1, <2>5
<1>8. ASSUME NEW u \in Threads, Expand(u)
      PROVE  FALSE
  BY <1>8 DEF Expand, Found, TypeOK
<1>. QED  BY <1>1, <1>2, <1>3, <1>4, <1>5, <1>6, <1>7, <1>8 DEF Next

\* Asking again helps: each find that returns nullptr for an owned address has
\* removed an entry from its thread's cache, whatever the other threads do,
\* unless insert_leaf found no memory for the page of that address.
THEOREM AskingAgainHelps ==
  ASSUME ~ReusePtr
  PROVE  Spec => MissEvicts
<1>1. Init => IInv  BY InitInv
<1>2. IInv /\ [Next]_vars => IInv'  BY NextInv
<1>3. IInv /\ [Next]_vars =>
        [\A t \in Threads :
           pc[t] # "done" /\ pc'[t] = "done" /\ (seg[t] = Null /\ Owner(at[t]) # Null)'
             => at'[t] \in missed \/ Used(cache'[t]) < Used(cache[t])]_vars
  BY StepEvicts
<1>. QED  BY <1>1, <1>2, <1>3, PTL DEF Spec, MissEvicts

====
