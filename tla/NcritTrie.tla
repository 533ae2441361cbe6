---- MODULE NcritTrie ----
(***************************************************************************)
(* ncrit_trie: a radix trie of fixed depth whose nodes are arrays of       *)
(* atomic slots. A slot of an inner node holds a child or nothing, a slot  *)
(* of a leaf node a value or nothing. Threads insert, clear and look up    *)
(* single pages without locks; every load, store and compare-exchange of a *)
(* slot is one step. The acquire/release orders the code uses make what    *)
(* was written before a slot visible to whoever reads the slot, so steps   *)
(* are interleaved and every load reads the latest store.                  *)
(***************************************************************************)
EXTENDS Integers, FiniteSets

CONSTANTS
  Threads,
  Pages,          \* page numbers in use
  Values,         \* sub_segment pointers
  Node,           \* node addresses the allocator can return, and root_
  Root,           \* root_
  kFanOut,        \* slots per node
  Levels,         \* depth of the trie
  OomMayHappen,   \* whether new (std::nothrow) may return nullptr
  Null            \* an empty slot, no node, no value

\* The index of page pg at the given depth, depth 0 being the root.
level_idx(pg, depth) == (pg \div (kFanOut ^ ((Levels - 1) - depth))) % kFanOut

Depth == 0..(Levels - 1)
Slot == 0..(kFanOut - 1)

Request == [op : {"insert"}, pg : Pages, val : Values]
             \cup [op : {"clear", "lookup"}, pg : Pages, val : {Null}]

ASSUME TrieAssumption ==
  /\ Levels \in Nat \ {0} /\ kFanOut \in Nat \ {0}
  /\ Root \in Node /\ Null \notin Node \cup Values /\ Node \cap Values = {}
  /\ Null \notin Request
  /\ OomMayHappen \in BOOLEAN

\* The page numbers fit the trie: no two of them take the same path.
ASSUME PagesAssumption ==
  /\ \A pg \in Pages, d \in Depth : level_idx(pg, d) \in Slot
  /\ \A p, q \in Pages :
       (\A d \in Depth : level_idx(p, d) = level_idx(q, d)) => p = q

VARIABLES
  ch,      \* ch[n][i]: slot i of node n
  heap,    \* nodes that are allocated
  call,    \* call[t]: the operation t is executing, or Null
  ret,     \* ret[t]: what the last lookup of t returned
  pc,      \* pc[t]: "idle", "walk" or "cas"
  cur,     \* cur[t]: the node t has reached
  depth,   \* depth[t]: its depth
  fresh    \* fresh[t]: the node t has allocated and not yet linked, or Null

walkVars == <<cur, depth, fresh>>
vars == <<ch, heap, call, ret, pc, walkVars>>

\* The constructor of node_t.
Empty == [i \in Slot |-> Null]

\* The constructor of the trie.
Init ==
  /\ ch = [n \in Node |-> Empty]
  /\ heap = {Root}
  /\ call = [t \in Threads |-> Null]
  /\ ret = [t \in Threads |-> Null]
  /\ pc = [t \in Threads |-> "idle"]
  /\ cur = [t \in Threads |-> Root]
  /\ depth = [t \in Threads |-> 0]
  /\ fresh = [t \in Threads |-> Null]

----------------------------------------------------------------------------
(* The walk that insert_leaf, clear_leaf and lookup_page_with_slot share.  *)

Op(t) == call[t].op
Idx(t) == level_idx(call[t].pg, depth[t])
Child(t) == ch[cur[t]][Idx(t)]
AtLeaf(t) == pc[t] = "walk" /\ depth[t] = Levels - 1

Inner(t) == pc[t] = "walk" /\ depth[t] < Levels - 1

\* The trie is the member of a function-local static: it is there until exit.
Call(t) ==
  /\ pc[t] = "idle" /\ Root \in heap
  /\ \E r \in Request : call' = [call EXCEPT ![t] = r]
  /\ pc' = [pc EXCEPT ![t] = "walk"]
  /\ UNCHANGED <<ch, heap, ret, walkVars>>

\* The locals go out of scope; the next walk starts at the root again.
Return(t) ==
  /\ pc' = [pc EXCEPT ![t] = "idle"]
  /\ call' = [call EXCEPT ![t] = Null]
  /\ cur' = [cur EXCEPT ![t] = Root]
  /\ depth' = [depth EXCEPT ![t] = 0]

\* Go on at child n, one level down.
GoTo(t, n) ==
  /\ pc' = [pc EXCEPT ![t] = "walk"]
  /\ cur' = [cur EXCEPT ![t] = n]
  /\ depth' = [depth EXCEPT ![t] = @ + 1]

Descend(t) ==
  /\ Inner(t) /\ Child(t) # Null
  /\ GoTo(t, Child(t))
  /\ UNCHANGED <<ch, heap, call, ret, fresh>>

\* clear_leaf and lookup return at a missing child.
Missing(t) ==
  /\ Inner(t) /\ Child(t) = Null /\ Op(t) # "insert"
  /\ ret' = IF Op(t) = "lookup" THEN [ret EXCEPT ![t] = Null] ELSE ret
  /\ Return(t)
  /\ UNCHANGED <<ch, heap, fresh>>

----------------------------------------------------------------------------
(* insert_leaf: a missing child is allocated and linked.                   *)

Alloc(t) ==
  /\ Inner(t) /\ Child(t) = Null /\ Op(t) = "insert"
  /\ \E n \in Node \ heap :
       /\ heap' = heap \cup {n}
       /\ ch' = [ch EXCEPT ![n] = Empty]
       /\ fresh' = [fresh EXCEPT ![t] = n]
  /\ pc' = [pc EXCEPT ![t] = "cas"]
  /\ UNCHANGED <<call, ret, cur, depth>>

Oom(t) ==
  /\ Inner(t) /\ Child(t) = Null /\ Op(t) = "insert" /\ OomMayHappen
  /\ Return(t)
  /\ UNCHANGED <<ch, heap, ret, fresh>>

\* Mutant: a plain store instead of the compare-exchange.
CasWin_Store(t) ==
  /\ pc[t] = "cas"
  /\ ch' = [ch EXCEPT ![cur[t]][Idx(t)] = fresh[t]]
  /\ GoTo(t, fresh[t])
  /\ fresh' = [fresh EXCEPT ![t] = Null]
  /\ UNCHANGED <<heap, call, ret>>

CasWin(t) ==
  /\ pc[t] = "cas" /\ Child(t) = Null
  /\ ch' = [ch EXCEPT ![cur[t]][Idx(t)] = fresh[t]]
  /\ GoTo(t, fresh[t])
  /\ fresh' = [fresh EXCEPT ![t] = Null]
  /\ UNCHANGED <<heap, call, ret>>

\* Mutant: the loser forgets to delete its node.
CasLose_Leak(t) ==
  /\ pc[t] = "cas" /\ Child(t) # Null
  /\ GoTo(t, Child(t))
  /\ fresh' = [fresh EXCEPT ![t] = Null]
  /\ UNCHANGED <<ch, heap, call, ret>>

\* Mutant: the loser deletes the winner's node.
CasLose_DeleteWinner(t) ==
  /\ pc[t] = "cas" /\ Child(t) # Null
  /\ heap' = heap \ {Child(t)}
  /\ ch' = [ch EXCEPT ![cur[t]][Idx(t)] = fresh[t]]
  /\ GoTo(t, fresh[t])
  /\ fresh' = [fresh EXCEPT ![t] = Null]
  /\ UNCHANGED <<call, ret>>

CasLose(t) ==
  /\ pc[t] = "cas" /\ Child(t) # Null
  /\ heap' = heap \ {fresh[t]}
  /\ GoTo(t, Child(t))
  /\ fresh' = [fresh EXCEPT ![t] = Null]
  /\ UNCHANGED <<ch, call, ret>>

----------------------------------------------------------------------------
(* The leaf.                                                               *)

StoreLeaf(t) ==
  /\ AtLeaf(t) /\ Op(t) = "insert"
  /\ ch' = [ch EXCEPT ![cur[t]][Idx(t)] = call[t].val]
  /\ Return(t)
  /\ UNCHANGED <<heap, ret, fresh>>

ClearLeaf(t) ==
  /\ AtLeaf(t) /\ Op(t) = "clear"
  /\ ch' = [ch EXCEPT ![cur[t]][Idx(t)] = Null]
  /\ Return(t)
  /\ UNCHANGED <<heap, ret, fresh>>

LoadLeaf(t) ==
  /\ AtLeaf(t) /\ Op(t) = "lookup"
  /\ ret' = [ret EXCEPT ![t] = Child(t)]
  /\ Return(t)
  /\ UNCHANGED <<ch, heap, fresh>>

----------------------------------------------------------------------------
(* The destructor, at process exit.                                        *)

\* ReachedAt(c)[d]: the nodes at depth d, for slots c, that a descent from the
\* root through all slots comes to.
ReachedAt(c) ==
  LET at[d \in Depth] ==
        IF d = 0 THEN {Root}
        ELSE {c[n][i] : n \in at[d - 1], i \in Slot} \ {Null}
  IN  at

\* Mutant: the leaf nodes are not visited.
Visited_NoLeaves == UNION {ReachedAt(ch)[d] : d \in Depth \ {Levels - 1}}

\* The nodes destroy_subtree visits.
Visited == UNION {ReachedAt(ch)[d] : d \in Depth}

destroy_subtree ==
  /\ Root \in heap /\ \A t \in Threads : pc[t] = "idle"
  /\ heap' = heap \ Visited
  /\ UNCHANGED <<ch, call, ret, pc, walkVars>>

Step(t) ==
  \/ Call(t) \/ Descend(t) \/ Missing(t) \/ Alloc(t) \/ Oom(t)
  \/ CasWin(t) \/ CasLose(t) \/ StoreLeaf(t) \/ ClearLeaf(t) \/ LoadLeaf(t)

Next == (\E t \in Threads : Step(t)) \/ destroy_subtree

Spec == Init /\ [][Next]_vars

----------------------------------------------------------------------------
(* Properties.                                                             *)

\* Every variable has its type: a walk (insert_leaf, clear_leaf, lookup) stays
\* on nodes and within the levels of the trie.
TypeOK ==
  /\ ch \in [Node -> [Slot -> Node \cup Values \cup {Null}]]
  /\ heap \subseteq Node
  /\ call \in [Threads -> Request \cup {Null}]
  /\ ret \in [Threads -> Values \cup {Null}]
  /\ pc \in [Threads -> {"idle", "walk", "cas"}]
  /\ cur \in [Threads -> Node]
  /\ depth \in [Threads -> Depth]
  /\ fresh \in [Threads -> Node \cup {Null}]

\* Path(c, pg)[d]: the node at depth d on the way to page pg through slots c,
\* or Null where the way ends before.
Path(c, pg) ==
  LET w[d \in Depth] ==
        IF d = 0 THEN Root
        ELSE IF w[d - 1] = Null THEN Null
        ELSE c[w[d - 1]][level_idx(pg, d - 1)]
  IN  w

\* The leaf node of a page, or Null.
LeafOf(pg) == Path(ch, pg)[Levels - 1]

\* The map the trie stands for.
map == [pg \in Pages |->
          IF LeafOf(pg) = Null THEN Null
          ELSE ch[LeafOf(pg)][level_idx(pg, Levels - 1)]]

Abstract == INSTANCE PageMap

\* Concurrent insertions, removals and lookups behave as if each took effect
\* on a plain map at one moment (insert_leaf, clear_leaf,
\* lookup_page_with_slot): no insertion is lost to a racing one.
Implements == Abstract!Spec

\* A thread never stands on, and a slot it can reach never names, a deleted
\* node: a node is deleted only by the loser of a race that never linked it.
NoUseAfterDelete ==
  /\ \A t \in Threads : pc[t] # "idle" => cur[t] \in heap
  /\ Root \in heap => Visited \subseteq heap

\* Every node is owned once: it hangs in one slot or is the fresh node of one
\* thread, so that destroy_subtree deletes each node, and none twice.
OwnedOnce ==
  LET links(n) == {p \in heap \X Slot : ch[p[1]][p[2]] = n}
      news(n) == {t \in Threads : fresh[t] = n}
  IN  \A n \in heap \ {Root} : Cardinality(links(n)) + Cardinality(news(n)) = 1

\* Nothing is left when the trie is destroyed.
DestroyFreesAll == Root \notin heap => heap = {}

\* The leaf slot of a page never moves once it exists: the per-thread cache
\* keeps its address and reads it later (tls_entry::leaf).
LeafSlotsStay ==
  [][\A pg \in Pages : LeafOf(pg) # Null => LeafOf(pg)' = LeafOf(pg)]_vars

====
