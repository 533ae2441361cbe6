---- MODULE NcritTrieProofs ----
(***************************************************************************)
(* Proofs about the page trie, for any number of threads, pages, nodes,    *)
(* levels and slots per node: no walk meets a deleted node, every node is  *)
(* owned once, the destructor frees them all, a leaf slot never moves, and *)
(* the trie implements a map from pages to values.                         *)
(*                                                                         *)
(* The first part is about slots c of nodes H that form a tree, with no    *)
(* step in sight: what a way through them (Path) and a descent through all *)
(* of them (ReachedAt) come to, and what a change of one slot does to a    *)
(* way. These facts go by induction on the depth.                          *)
(***************************************************************************)
EXTENDS NcritTrie, FiniteSetTheorems, WellFoundedInduction, TLAPS

----------------------------------------------------------------------------
(* Induction.                                                              *)

\* Induction over the natural numbers, for a set.
LEMMA NatInduct ==
  ASSUME NEW S, 0 \in S, \A n \in Nat : n \in S => n + 1 \in S
  PROVE  Nat \subseteq S
<1>1. SUFFICES ASSUME Nat \ S # {} PROVE FALSE
  OBVIOUS
<1> DEFINE R == OpToRel(<, Nat)
<1>2. IsWellFoundedOn(R, Nat)
  BY NatLessThanWellFounded
<1> HIDE DEF R
<1>3. PICK x \in Nat \ S : \A y \in Nat \ S : <<y, x>> \notin R
  BY <1>1, <1>2, WFMin
<1>4. \A y \in Nat : y < x => <<y, x>> \in R
  BY DEF R, OpToRel
<1>5. x # 0 /\ x - 1 \in Nat /\ x - 1 < x
  OBVIOUS
<1>6. x - 1 \in S
  BY <1>3, <1>4, <1>5
<1> QED
  BY <1>5, <1>6

\* Induction over the levels of the trie, for a set.
LEMMA DepthInduct ==
  ASSUME NEW S, 0 \in S, \A d \in Depth : d \in S /\ d + 1 \in Depth => d + 1 \in S
  PROVE  \A d \in Depth : d \in S
<1> DEFINE T == {n \in Nat : n \in Depth => n \in S}
<1>1. 0 \in T
  OBVIOUS
<1>2. \A n \in Nat : n \in T => n + 1 \in T
  BY TrieAssumption DEF Depth
<1> HIDE DEF T
<1>3. Nat \subseteq T
  BY <1>1, <1>2, NatInduct
<1> QED
  BY <1>3, TrieAssumption DEF T, Depth

----------------------------------------------------------------------------
(* The two recursive functions are what their definitions say.             *)

\* The way to a page, level by level.
WayTo(c, pg, w) ==
  w = [d \in Depth |->
         IF d = 0 THEN Root
         ELSE IF w[d - 1] = Null THEN Null
         ELSE c[w[d - 1]][level_idx(pg, d - 1)]]

\* There is a way to every page that satisfies the equations of Path.
LEMMA WayExists == ASSUME NEW c, NEW pg PROVE \E w : WayTo(c, pg, w)
<1> DEFINE Upto(n, w) ==
      w = [d \in 0..n |->
             IF d = 0 THEN Root
             ELSE IF w[d - 1] = Null THEN Null
             ELSE c[w[d - 1]][level_idx(pg, d - 1)]]
           S == {n \in Nat : \E w : Upto(n, w)}
<1>1. 0 \in S
  <2>1. Upto(0, [d \in 0..0 |-> Root])
    OBVIOUS
  <2> QED
    BY <2>1
<1>2. \A n \in Nat : n \in S => n + 1 \in S
  <2>1. SUFFICES ASSUME NEW n \in Nat, NEW w, Upto(n, w)
                 PROVE  \E v : Upto(n + 1, v)
    OBVIOUS
  <2> DEFINE last == IF w[n] = Null THEN Null ELSE c[w[n]][level_idx(pg, n)]
             v == [d \in 0..(n + 1) |-> IF d = n + 1 THEN last ELSE w[d]]
             e(d) == IF d = 0 THEN Root
                     ELSE IF v[d - 1] = Null THEN Null
                     ELSE c[v[d - 1]][level_idx(pg, d - 1)]
  <2>2. ASSUME NEW d \in 0..(n + 1) PROVE v[d] = e(d)
    <3>1. CASE d = n + 1
      BY <3>1
    <3>2. CASE d # n + 1
      <4>1. w[d] = IF d = 0 THEN Root
                   ELSE IF w[d - 1] = Null THEN Null
                   ELSE c[w[d - 1]][level_idx(pg, d - 1)]
        BY <2>1, <3>2
      <4>2. d # 0 => v[d - 1] = w[d - 1]
        BY <3>2
      <4> QED
        BY <3>2, <4>1, <4>2
    <3> QED
      BY <3>1, <3>2
  <2> HIDE DEF last
  <2>3. v = [d \in 0..(n + 1) |-> e(d)]
    BY <2>2
  <2> QED
    BY <2>3
<1> HIDE DEF Upto, S
<1>3. Levels - 1 \in S
  BY <1>1, <1>2, NatInduct, TrieAssumption
<1> QED
  BY <1>3 DEF S, Upto, WayTo, Depth

\* The equations of Path.
LEMMA PathDef ==
  ASSUME NEW c, NEW pg
  PROVE  /\ Path(c, pg)[0] = Root
         /\ \A d \in Depth : d + 1 \in Depth =>
              Path(c, pg)[d + 1] =
                IF Path(c, pg)[d] = Null THEN Null
                ELSE c[Path(c, pg)[d]][level_idx(pg, d)]
<1>1. Path(c, pg) = CHOOSE w : WayTo(c, pg, w)
  BY DEF Path, WayTo
<1>2. WayTo(c, pg, Path(c, pg))
  BY <1>1, WayExists
<1>3. 0 \in Depth /\ \A d \in Depth : d + 1 \in Depth => (d + 1) - 1 = d /\ d + 1 # 0
  BY TrieAssumption DEF Depth
<1> HIDE DEF Path
<1> DEFINE w == Path(c, pg)
<1>4. \A d \in Depth : w[d] = IF d = 0 THEN Root
                              ELSE IF w[d - 1] = Null THEN Null
                              ELSE c[w[d - 1]][level_idx(pg, d - 1)]
  BY <1>2 DEF WayTo
<1> HIDE DEF w
<1>5. w[0] = Root /\ \A d \in Depth : d + 1 \in Depth =>
        w[d + 1] = IF w[d] = Null THEN Null ELSE c[w[d]][level_idx(pg, d)]
  BY <1>3, <1>4
<1> QED
  BY <1>5 DEF w

\* What hangs in the slots of a set of nodes.
Below(c, s) == {c[n][i] : n \in s, i \in Slot} \ {Null}

\* The nodes a descent comes to, level by level.
LevelsOf(c, at) ==
  at = [d \in Depth |-> IF d = 0 THEN {Root} ELSE Below(c, at[d - 1])]

\* There are levels that satisfy the equations of ReachedAt.
LEMMA LevelsExist == ASSUME NEW c PROVE \E at : LevelsOf(c, at)
<1> DEFINE Upto(n, w) ==
             w = [d \in 0..n |-> IF d = 0 THEN {Root} ELSE Below(c, w[d - 1])]
           S == {n \in Nat : \E w : Upto(n, w)}
<1>1. 0 \in S
  <2> DEFINE v == [d \in 0..0 |-> {Root}]
  <2>1. \A d \in 0..0 : v[d] = IF d = 0 THEN {Root} ELSE Below(c, v[d - 1])
    OBVIOUS
  <2>2. Upto(0, v)
    BY <2>1
  <2> HIDE DEF Upto, v
  <2> QED
    BY <2>2
<1>2. ASSUME NEW n \in Nat, n \in S PROVE n + 1 \in S
  <2> HIDE DEF Upto
  <2>1. PICK w : Upto(n, w)
    BY <1>2
  <2> DEFINE v == [d \in 0..(n + 1) |-> IF d = n + 1 THEN Below(c, w[n]) ELSE w[d]]
             e(d) == IF d = 0 THEN {Root} ELSE Below(c, v[d - 1])
  <2>2. ASSUME NEW d \in 0..(n + 1) PROVE v[d] = e(d)
    <3>1. CASE d = n + 1
      BY <3>1
    <3>2. CASE d # n + 1
      <4> d \in 0..n
        BY <3>2
      <4>1. w[d] = IF d = 0 THEN {Root} ELSE Below(c, w[d - 1])
        BY <2>1, Zenon DEF Upto
      <4>2. d # 0 => v[d - 1] = w[d - 1]
        BY <3>2
      <4> QED
        BY <3>2, <4>1, <4>2
    <3> QED
      BY <3>1, <3>2
  <2>3. v = [d \in 0..(n + 1) |-> e(d)]
    BY <2>2
  <2> HIDE DEF v
  <2>4. Upto(n + 1, v)
    BY <2>3 DEF Upto
  <2> QED
    BY <2>4
<1> HIDE DEF S
<1>3. Levels - 1 \in S
  BY <1>1, <1>2, NatInduct, TrieAssumption
<1>4. PICK w : Upto(Levels - 1, w)
  BY <1>3 DEF S
<1> QED
  BY <1>4 DEF LevelsOf, Depth

\* The equations of ReachedAt.
LEMMA ReachedDef ==
  ASSUME NEW c
  PROVE  /\ ReachedAt(c)[0] = {Root}
         /\ \A d \in Depth : d + 1 \in Depth =>
              ReachedAt(c)[d + 1] = Below(c, ReachedAt(c)[d])
<1>1. ReachedAt(c) = CHOOSE at : LevelsOf(c, at)
  BY DEF ReachedAt, LevelsOf, Below
<1>2. LevelsOf(c, ReachedAt(c))
  BY <1>1, LevelsExist
<1>3. 0 \in Depth /\ \A d \in Depth : d + 1 \in Depth => (d + 1) - 1 = d /\ d + 1 # 0
  BY TrieAssumption DEF Depth
<1> DEFINE at == ReachedAt(c)
<1>4. \A d \in Depth : at[d] = IF d = 0 THEN {Root} ELSE Below(c, at[d - 1])
  BY <1>2 DEF LevelsOf
<1> HIDE DEF at
<1>5. at[0] = {Root} /\ \A d \in Depth : d + 1 \in Depth => at[d + 1] = Below(c, at[d])
  BY <1>3, <1>4
<1> QED
  BY <1>5 DEF at

----------------------------------------------------------------------------
(* Trees.                                                                  *)

\* The slots c of the nodes H form a trie below Root: lev gives each node its
\* depth, inner slots lead one level down within H, leaf slots hold values.
Tree(c, H, lev) ==
  /\ c \in [Node -> [Slot -> Node \cup Values \cup {Null}]]
  /\ H \subseteq Node
  /\ lev \in [Node -> Depth]
  /\ Root \in H /\ lev[Root] = 0
  /\ \A n \in H, i \in Slot :
       /\ lev[n] < Levels - 1 /\ c[n][i] # Null =>
            c[n][i] \in H /\ lev[c[n][i]] = lev[n] + 1
       /\ lev[n] = Levels - 1 => c[n][i] \in Values \cup {Null}

\* No node of H hangs in two slots.
OneParent(c, H) ==
  \A m, n \in H, i, j \in Slot :
    c[m][i] = c[n][j] /\ c[m][i] \in Node => m = n /\ i = j

\* Every node of H but the root and those of F hangs in a slot.
HasParent(c, H, F) ==
  \A n \in H \ ({Root} \cup F) : \E m \in H, i \in Slot : c[m][i] = n

\* From c to c2 the inner slots of H that are in use stay as they are.
KeepsLinks(c, c2, H, lev) ==
  \A n \in H, i \in Slot :
    lev[n] < Levels - 1 /\ c[n][i] # Null => c2[n][i] = c[n][i]

\* From c to c2 all inner slots of H stay as they are.
KeepsInner(c, c2, H, lev) ==
  \A n \in H, i \in Slot : lev[n] < Levels - 1 => c2[n][i] = c[n][i]

\* From c to c2 slot i of n is written, with v, and no other.
OneWritten(c, c2, n, i, v) ==
  \A m \in Node, j \in Slot : c2[m][j] = IF m = n /\ j = i THEN v ELSE c[m][j]

\* A slot that names a node is one of an inner node, and never names the root.
LEMMA NodeSlots ==
  ASSUME NEW c, NEW H, NEW lev, Tree(c, H, lev)
  PROVE  \A n \in H, i \in Slot : c[n][i] \in Node =>
           /\ lev[n] < Levels - 1 /\ c[n][i] \in H \ {Root}
           /\ lev[c[n][i]] = lev[n] + 1
<1>1. SUFFICES ASSUME NEW n \in H, NEW i \in Slot, c[n][i] \in Node
               PROVE  /\ lev[n] < Levels - 1 /\ c[n][i] \in H \ {Root}
                      /\ lev[c[n][i]] = lev[n] + 1
  OBVIOUS
<1>2. lev[n] \in Depth /\ c[n][i] # Null /\ c[n][i] \notin Values
  BY <1>1, TrieAssumption DEF Tree
<1>3. lev[n] # Levels - 1
  BY <1>1, <1>2 DEF Tree
<1>4. lev[n] < Levels - 1
  BY <1>2, <1>3, TrieAssumption DEF Depth
<1>5. c[n][i] \in H /\ lev[c[n][i]] = lev[n] + 1
  BY <1>2, <1>4 DEF Tree
<1>6. lev[Root] = 0 /\ lev[n] + 1 # 0
  BY <1>2, TrieAssumption DEF Tree, Depth
<1> QED
  BY <1>4, <1>5, <1>6

\* A way stays on the nodes of the tree, one level down at each step.
LEMMA PathIn ==
  ASSUME NEW c, NEW H, NEW lev, Tree(c, H, lev), NEW pg \in Pages
  PROVE  \A d \in Depth : Path(c, pg)[d] # Null =>
           Path(c, pg)[d] \in H /\ lev[Path(c, pg)[d]] = d
<1> DEFINE w == Path(c, pg)
           S == {d \in Depth : w[d] # Null => w[d] \in H /\ lev[w[d]] = d}
<1> HIDE DEF w
<1>1. 0 \in S
  BY PathDef, TrieAssumption DEF w, Tree, Depth
<1>2. ASSUME NEW d \in Depth, d \in S, d + 1 \in Depth PROVE d + 1 \in S
  <2>1. SUFFICES ASSUME w[d + 1] # Null
                 PROVE  w[d + 1] \in H /\ lev[w[d + 1]] = d + 1
    BY <1>2
  <2>2. w[d + 1] = IF w[d] = Null THEN Null ELSE c[w[d]][level_idx(pg, d)]
    BY <1>2, PathDef DEF w
  <2>3. w[d] \in H /\ lev[w[d]] = d /\ w[d + 1] = c[w[d]][level_idx(pg, d)]
    BY <1>2, <2>1, <2>2
  <2>4. d < Levels - 1 /\ level_idx(pg, d) \in Slot
    BY <1>2, TrieAssumption, PagesAssumption DEF Depth
  <2> QED
    BY <2>1, <2>3, <2>4 DEF Tree
<1> HIDE DEF S
<1>3. \A d \in Depth : d \in S
  BY <1>1, <1>2, DepthInduct
<1> QED
  BY <1>3 DEF S, w

\* A way that has ended stays ended.
LEMMA PathEnds ==
  ASSUME NEW c, NEW pg, NEW e \in Depth, Path(c, pg)[e] = Null
  PROVE  \A d \in Depth : d >= e => Path(c, pg)[d] = Null
<1> DEFINE w == Path(c, pg)
           S == {d \in Depth : d >= e => w[d] = Null}
<1> HIDE DEF w
<1>1. 0 \in S
  BY TrieAssumption DEF w, Depth
<1>2. ASSUME NEW d \in Depth, d \in S, d + 1 \in Depth PROVE d + 1 \in S
  <2>1. CASE d >= e
    BY <1>2, <2>1, PathDef DEF w
  <2>2. CASE ~(d >= e)
    <3>1. d + 1 >= e => d + 1 = e
      BY <2>2, TrieAssumption DEF Depth
    <3> QED
      BY <1>2, <3>1 DEF w
  <2> QED
    BY <2>1, <2>2
<1> HIDE DEF S
<1>3. \A d \in Depth : d \in S
  BY <1>1, <1>2, DepthInduct
<1> QED
  BY <1>3 DEF S, w

\* A node on a way is the root or hangs in a slot.
LEMMA PathLinked ==
  ASSUME NEW c, NEW H, NEW lev, Tree(c, H, lev), NEW pg \in Pages,
         NEW d \in Depth, Path(c, pg)[d] # Null
  PROVE  Path(c, pg)[d] = Root \/ \E m \in H, i \in Slot : c[m][i] = Path(c, pg)[d]
<1>1. CASE d = 0
  BY <1>1, PathDef
<1>2. CASE d # 0
  <2>1. d - 1 \in Depth /\ (d - 1) + 1 = d
    BY <1>2, TrieAssumption DEF Depth
  <2>2. /\ Path(c, pg)[d - 1] # Null
        /\ Path(c, pg)[d] = c[Path(c, pg)[d - 1]][level_idx(pg, d - 1)]
    BY <2>1, PathDef
  <2>3. Path(c, pg)[d - 1] \in H /\ level_idx(pg, d - 1) \in Slot
    BY <2>1, <2>2, PathIn, PagesAssumption
  <2> QED
    BY <2>2, <2>3
<1> QED
  BY <1>1, <1>2

\* A change of slots that keeps every inner slot that is in use keeps the
\* nodes of every way.
LEMMA PathKeeps ==
  ASSUME NEW c, NEW H, NEW lev, Tree(c, H, lev), NEW c2, NEW pg \in Pages,
         KeepsLinks(c, c2, H, lev)
  PROVE  \A d \in Depth : Path(c, pg)[d] # Null => Path(c2, pg)[d] = Path(c, pg)[d]
<1> DEFINE w == Path(c, pg)
           w2 == Path(c2, pg)
           S == {d \in Depth : w[d] # Null => w2[d] = w[d]}
<1> HIDE DEF w, w2
<1>1. 0 \in S
  BY PathDef, TrieAssumption DEF w, w2, Depth
<1>2. ASSUME NEW d \in Depth, d \in S, d + 1 \in Depth PROVE d + 1 \in S
  <2>1. SUFFICES ASSUME w[d + 1] # Null PROVE w2[d + 1] = w[d + 1]
    BY <1>2
  <2>2. /\ w[d + 1] = IF w[d] = Null THEN Null ELSE c[w[d]][level_idx(pg, d)]
        /\ w2[d + 1] = IF w2[d] = Null THEN Null ELSE c2[w2[d]][level_idx(pg, d)]
    BY <1>2, PathDef DEF w, w2
  <2>3. w[d] \in H /\ lev[w[d]] = d /\ w2[d] = w[d]
    BY <1>2, <2>1, <2>2, PathIn DEF w
  <2>4. d < Levels - 1 /\ level_idx(pg, d) \in Slot
    BY <1>2, TrieAssumption, PagesAssumption DEF Depth
  <2> QED
    BY <2>1, <2>2, <2>3, <2>4 DEF KeepsLinks
<1> HIDE DEF S
<1>3. \A d \in Depth : d \in S
  BY <1>1, <1>2, DepthInduct
<1> QED
  BY <1>3 DEF S, w, w2

\* A change of slots that leaves the inner slots alone leaves every way alone.
LEMMA PathSame ==
  ASSUME NEW c, NEW H, NEW lev, Tree(c, H, lev), NEW c2, NEW pg \in Pages,
         KeepsInner(c, c2, H, lev)
  PROVE  \A d \in Depth : Path(c2, pg)[d] = Path(c, pg)[d]
<1> DEFINE w == Path(c, pg)
           w2 == Path(c2, pg)
           S == {d \in Depth : w2[d] = w[d]}
<1> HIDE DEF w, w2
<1>1. 0 \in S
  BY PathDef, TrieAssumption DEF w, w2, Depth
<1>2. ASSUME NEW d \in Depth, d \in S, d + 1 \in Depth PROVE d + 1 \in S
  <2>1. /\ w[d + 1] = IF w[d] = Null THEN Null ELSE c[w[d]][level_idx(pg, d)]
        /\ w2[d + 1] = IF w2[d] = Null THEN Null ELSE c2[w2[d]][level_idx(pg, d)]
    BY <1>2, PathDef DEF w, w2
  <2>2. w[d] # Null => w[d] \in H /\ lev[w[d]] = d
    BY PathIn DEF w
  <2>3. d < Levels - 1 /\ level_idx(pg, d) \in Slot
    BY <1>2, TrieAssumption, PagesAssumption DEF Depth
  <2> QED
    BY <1>2, <2>1, <2>2, <2>3 DEF KeepsInner
<1> HIDE DEF S
<1>3. \A d \in Depth : d \in S
  BY <1>1, <1>2, DepthInduct
<1> QED
  BY <1>3 DEF S, w, w2

\* Ways that share a node share every slot before it.
LEMMA PathInj ==
  ASSUME NEW c, NEW H, NEW lev, Tree(c, H, lev), OneParent(c, H),
         NEW p \in Pages, NEW q \in Pages
  PROVE  \A d \in Depth : Path(c, p)[d] = Path(c, q)[d] /\ Path(c, p)[d] # Null =>
           \A e \in Depth : e < d => level_idx(p, e) = level_idx(q, e)
<1> DEFINE v == Path(c, p)
           w == Path(c, q)
           S == {d \in Depth : v[d] = w[d] /\ v[d] # Null =>
                   \A e \in Depth : e < d => level_idx(p, e) = level_idx(q, e)}
<1> HIDE DEF v, w
<1>1. 0 \in S
  BY TrieAssumption DEF Depth
<1>2. ASSUME NEW d \in Depth, d \in S, d + 1 \in Depth PROVE d + 1 \in S
  <2>1. SUFFICES ASSUME v[d + 1] = w[d + 1], v[d + 1] # Null,
                        NEW e \in Depth, e < d + 1
                 PROVE  level_idx(p, e) = level_idx(q, e)
    BY <1>2
  <2>2. /\ v[d + 1] = IF v[d] = Null THEN Null ELSE c[v[d]][level_idx(p, d)]
        /\ w[d + 1] = IF w[d] = Null THEN Null ELSE c[w[d]][level_idx(q, d)]
    BY <1>2, PathDef DEF v, w
  <2>3. v[d] # Null /\ w[d] # Null
    BY <2>1, <2>2
  <2>4. v[d] \in H /\ w[d] \in H
    BY <2>3, PathIn DEF v, w
  <2>5. v[d + 1] \in Node
    BY <1>2, <2>1, PathIn DEF v, Tree
  <2>6. level_idx(p, d) \in Slot /\ level_idx(q, d) \in Slot
    BY PagesAssumption
  <2>7. v[d] = w[d] /\ level_idx(p, d) = level_idx(q, d)
    <3>1. c[v[d]][level_idx(p, d)] = c[w[d]][level_idx(q, d)]
      BY <2>1, <2>2, <2>3
    <3>2. c[v[d]][level_idx(p, d)] \in Node
      BY <2>2, <2>3, <2>5
    <3> QED
      BY <2>4, <2>6, <3>1, <3>2, Zenon DEF OneParent
  <2>8. e = d \/ e < d
    BY <2>1, TrieAssumption DEF Depth
  <2> QED
    BY <1>2, <2>3, <2>7, <2>8
<1> HIDE DEF S
<1>3. \A d \in Depth : d \in S
  BY <1>1, <1>2, DepthInduct
<1> QED
  BY <1>3 DEF S, v, w

\* Linking an empty node into an empty slot only makes ways longer, and only
\* by that node.
LEMMA PathGrows ==
  ASSUME NEW c, NEW H, NEW lev, Tree(c, H, lev), NEW pg \in Pages,
         NEW n \in H, NEW i \in Slot, c[n][i] = Null,
         NEW f \in Node, f # n, c[f] = Empty,
         NEW c2, OneWritten(c, c2, n, i, f)
  PROVE  \A d \in Depth :
           \/ Path(c2, pg)[d] = Path(c, pg)[d]
           \/ Path(c, pg)[d] = Null /\ Path(c2, pg)[d] = f
<1> DEFINE w == Path(c, pg)
           w2 == Path(c2, pg)
           S == {d \in Depth : w2[d] = w[d] \/ (w[d] = Null /\ w2[d] = f)}
<1>1. /\ \A m \in Node, j \in Slot : c2[m][j] = IF m = n /\ j = i THEN f ELSE c[m][j]
      /\ n \in Node /\ f # Null
  BY TrieAssumption DEF Tree, OneWritten
<1> HIDE DEF w, w2
<1>2. 0 \in S
  BY PathDef, TrieAssumption DEF w, w2, Depth
<1>3. ASSUME NEW d \in Depth, d \in S, d + 1 \in Depth PROVE d + 1 \in S
  <2>1. /\ w[d + 1] = IF w[d] = Null THEN Null ELSE c[w[d]][level_idx(pg, d)]
        /\ w2[d + 1] = IF w2[d] = Null THEN Null ELSE c2[w2[d]][level_idx(pg, d)]
    BY <1>3, PathDef DEF w, w2
  <2>2. level_idx(pg, d) \in Slot
    BY PagesAssumption
  <2>3. CASE w[d] = Null
    <3>1. c2[f][level_idx(pg, d)] = Null
      <4>1. c2[f][level_idx(pg, d)] = c[f][level_idx(pg, d)]
        BY <1>1, <2>2
      <4> QED
        BY <2>2, <4>1 DEF Empty
    <3> QED
      BY <1>3, <2>1, <2>3, <3>1
  <2>4. CASE w[d] # Null
    <3>1. w2[d] = w[d] /\ w[d] \in Node
      BY <1>3, <2>4, PathIn DEF w, Tree
    <3>2. c2[w[d]][level_idx(pg, d)] =
            IF w[d] = n /\ level_idx(pg, d) = i THEN f ELSE c[w[d]][level_idx(pg, d)]
      BY <1>1, <2>2, <3>1
    <3>3. w[d + 1] = c[w[d]][level_idx(pg, d)] /\ w2[d + 1] = c2[w[d]][level_idx(pg, d)]
      BY <2>1, <2>4, <3>1
    <3> QED
      BY <1>3, <3>2, <3>3
  <2> QED
    BY <2>3, <2>4
<1> HIDE DEF S
<1>4. \A d \in Depth : d \in S
  BY <1>2, <1>3, DepthInduct
<1> QED
  BY <1>4 DEF S, w, w2

\* A descent through all slots comes to nodes of the tree only, level by level.
LEMMA ReachedIn ==
  ASSUME NEW c, NEW H, NEW lev, Tree(c, H, lev)
  PROVE  \A d \in Depth : ReachedAt(c)[d] \subseteq {n \in H : lev[n] = d}
<1> DEFINE at == ReachedAt(c)
           S == {d \in Depth : at[d] \subseteq {n \in H : lev[n] = d}}
<1> HIDE DEF at
<1>1. 0 \in S
  <2>1. at[0] = {Root} /\ 0 \in Depth
    BY ReachedDef, TrieAssumption DEF at, Depth
  <2> QED
    BY <2>1 DEF Tree
<1>2. ASSUME NEW d \in Depth, d \in S, d + 1 \in Depth PROVE d + 1 \in S
  <2>1. SUFFICES ASSUME NEW m \in at[d + 1] PROVE m \in H /\ lev[m] = d + 1
    BY <1>2
  <2>2. m \in Below(c, at[d])
    BY <1>2, ReachedDef DEF at
  <2>3. PICK n \in at[d], i \in Slot : m = c[n][i] /\ m # Null
    BY <2>2 DEF Below
  <2>4. n \in H /\ lev[n] = d /\ d < Levels - 1
    BY <1>2, TrieAssumption DEF Depth
  <2> QED
    BY <2>3, <2>4 DEF Tree
<1> HIDE DEF S
<1>3. \A d \in Depth : d \in S
  BY <1>1, <1>2, DepthInduct
<1> QED
  BY <1>3 DEF S, at

\* It comes to all of them when each hangs in a slot.
LEMMA ReachedAll ==
  ASSUME NEW c, NEW H, NEW lev, Tree(c, H, lev), HasParent(c, H, {})
  PROVE  \A d \in Depth : {n \in H : lev[n] = d} \subseteq ReachedAt(c)[d]
<1> DEFINE at == ReachedAt(c)
           S == {d \in Depth : {n \in H : lev[n] = d} \subseteq at[d]}
<1> HIDE DEF at
<1>1. ASSUME NEW n \in H, n # Root
      PROVE  \E m \in H, i \in Slot : c[m][i] = n /\ n # Null /\ lev[n] = lev[m] + 1
  <2>1. n \in Node /\ n # Null
    BY TrieAssumption DEF Tree
  <2>2. PICK m \in H, i \in Slot : c[m][i] = n
    BY <1>1 DEF HasParent
  <2> QED
    BY <2>1, <2>2, NodeSlots
<1>2. 0 \in S
  <2>1. 0 \in Depth /\ Root \in at[0]
    BY ReachedDef, TrieAssumption DEF at, Depth
  <2>2. ASSUME NEW m \in H PROVE lev[m] + 1 # 0
    BY TrieAssumption DEF Depth, Tree
  <2> QED
    BY <1>1, <2>1, <2>2
<1>3. ASSUME NEW d \in Depth, d \in S, d + 1 \in Depth PROVE d + 1 \in S
  <2>1. SUFFICES ASSUME NEW n \in H, lev[n] = d + 1 PROVE n \in at[d + 1]
    BY <1>3
  <2>2. n # Root
    BY <2>1, TrieAssumption DEF Tree, Depth
  <2>3. PICK m \in H, i \in Slot : c[m][i] = n /\ n # Null /\ lev[n] = lev[m] + 1
    BY <1>1, <2>2
  <2>4. lev[m] = d
    <3>1. lev[m] \in Int /\ d \in Int
      BY TrieAssumption DEF Tree, Depth
    <3> QED
      BY <2>1, <2>3, <3>1
  <2>5. n \in Below(c, at[d])
    BY <1>3, <2>3, <2>4 DEF Below
  <2> QED
    BY <1>3, <2>5, ReachedDef DEF at
<1> HIDE DEF S
<1>4. \A d \in Depth : d \in S
  BY <1>2, <1>3, DepthInduct
<1> QED
  BY <1>4 DEF S, at

----------------------------------------------------------------------------
(* What the four changes a walk can make to the slots do to a tree.        *)

\* The slots after a change of one of them.
LEMMA Written ==
  ASSUME NEW c \in [Node -> [Slot -> Node \cup Values \cup {Null}]],
         NEW n \in Node, NEW i \in Slot, NEW v \in Node \cup Values \cup {Null}
  PROVE  LET c2 == [c EXCEPT ![n][i] = v]
         IN  /\ c2 \in [Node -> [Slot -> Node \cup Values \cup {Null}]]
             /\ \A m \in Node, j \in Slot :
                  c2[m][j] = IF m = n /\ j = i THEN v ELSE c[m][j]
             /\ \A m \in Node : m # n => c2[m] = c[m]
  OBVIOUS

\* A leaf slot is written.
LEMMA TreeLeaf ==
  ASSUME NEW c, NEW H, NEW lev, NEW F,
         Tree(c, H, lev), OneParent(c, H), HasParent(c, H, F),
         NEW n \in H, lev[n] = Levels - 1, NEW i \in Slot, NEW v \in Values \cup {Null}
  PROVE  LET c2 == [c EXCEPT ![n][i] = v]
         IN  Tree(c2, H, lev) /\ OneParent(c2, H) /\ HasParent(c2, H, F)
<1> DEFINE c2 == [c EXCEPT ![n][i] = v]
<1>1. /\ c2 \in [Node -> [Slot -> Node \cup Values \cup {Null}]]
      /\ \A m \in Node, j \in Slot : c2[m][j] = IF m = n /\ j = i THEN v ELSE c[m][j]
  BY Written DEF Tree
<1> HIDE DEF c2
<1>2. Tree(c2, H, lev)
  <2>1. ASSUME NEW m \in H, NEW j \in Slot
        PROVE  /\ lev[m] < Levels - 1 => c2[m][j] = c[m][j]
               /\ m = n /\ j = i => c2[m][j] \in Values \cup {Null}
               /\ ~(m = n /\ j = i) => c2[m][j] = c[m][j]
    BY <1>1, TrieAssumption DEF Tree, Depth
  <2> QED
    BY <1>1, <2>1 DEF Tree
<1>3. ASSUME NEW m \in H, NEW j \in Slot, c2[m][j] \in Node
      PROVE  c2[m][j] = c[m][j]
  BY <1>1, <1>3, TrieAssumption DEF Tree
<1>4. OneParent(c2, H)
  BY <1>3 DEF OneParent
<1>5. ASSUME NEW m \in H, NEW j \in Slot, c[m][j] \in Node
      PROVE  c2[m][j] = c[m][j]
  <2>1. lev[m] # Levels - 1
    BY <1>5, TrieAssumption DEF Tree
  <2> QED
    BY <1>1, <2>1 DEF Tree
<1>6. HasParent(c2, H, F)
  <2>1. SUFFICES ASSUME NEW x \in H \ ({Root} \cup F)
                 PROVE  \E m \in H, j \in Slot : c2[m][j] = x
    BY DEF HasParent
  <2>2. PICK m \in H, j \in Slot : c[m][j] = x
    BY DEF HasParent
  <2> QED
    BY <1>5, <2>2 DEF Tree
<1> QED
  BY <1>2, <1>4, <1>6 DEF c2

\* An empty node is allocated.
LEMMA TreeNew ==
  ASSUME NEW c, NEW H, NEW lev, NEW F, NEW G,
         Tree(c, H, lev), OneParent(c, H), HasParent(c, H, F),
         NEW n \in Node \ H, NEW e \in Depth, n \in G, \A x \in H : x \in F => x \in G
  PROVE  LET c2 == [c EXCEPT ![n] = Empty]
             lev2 == [lev EXCEPT ![n] = e]
         IN  /\ Tree(c2, H \cup {n}, lev2) /\ OneParent(c2, H \cup {n})
             /\ HasParent(c2, H \cup {n}, G)
<1> DEFINE c2 == [c EXCEPT ![n] = Empty]
           lev2 == [lev EXCEPT ![n] = e]
           I == H \cup {n}
<1>1. /\ c2 \in [Node -> [Slot -> Node \cup Values \cup {Null}]]
      /\ \A m \in H : c2[m] = c[m]
      /\ \A i \in Slot : c2[n][i] = Null
  BY DEF Tree, Empty
<1>2. /\ lev2 \in [Node -> Depth]
      /\ \A m \in H : lev2[m] = lev[m]
  BY DEF Tree
<1>3. I \subseteq Node /\ Root \in I /\ Root \in H /\ lev[Root] = 0
  BY DEF Tree
<1> HIDE DEF c2, lev2
<1>4. Tree(c2, I, lev2)
  <2>1. ASSUME NEW m \in I, NEW i \in Slot
        PROVE  /\ lev2[m] < Levels - 1 /\ c2[m][i] # Null =>
                    c2[m][i] \in I /\ lev2[c2[m][i]] = lev2[m] + 1
               /\ lev2[m] = Levels - 1 => c2[m][i] \in Values \cup {Null}
    <3>1. CASE m = n
      BY <1>1, <3>1
    <3>2. CASE m \in H
      BY <1>1, <1>2, <3>2 DEF Tree
    <3> QED
      BY <3>1, <3>2
  <2> HIDE DEF I
  <2> QED
    BY <1>1, <1>2, <1>3, <2>1 DEF Tree
<1>5. ASSUME NEW m \in I, NEW i \in Slot, c2[m][i] \in Node
      PROVE  m \in H /\ c2[m][i] = c[m][i]
  BY <1>1, <1>5, TrieAssumption
<1>6. OneParent(c2, I)
  <2> HIDE DEF I
  <2> QED
    BY <1>5 DEF OneParent
<1>7. HasParent(c2, I, G)
  <2>1. SUFFICES ASSUME NEW x \in I \ ({Root} \cup G)
                 PROVE  \E m \in I, j \in Slot : c2[m][j] = x
    BY DEF HasParent
  <2>2. x \in H \ ({Root} \cup F)
    OBVIOUS
  <2>3. PICK m \in H, j \in Slot : c[m][j] = x
    BY <2>2 DEF HasParent
  <2> QED
    BY <1>1, <2>3
<1> QED
  BY <1>4, <1>6, <1>7 DEF c2, lev2

\* An empty node that hangs nowhere is linked into an empty slot.
LEMMA TreeLink ==
  ASSUME NEW c, NEW H, NEW lev, NEW F, NEW G,
         Tree(c, H, lev), OneParent(c, H), HasParent(c, H, F),
         NEW n \in H, lev[n] < Levels - 1, NEW i \in Slot, c[n][i] = Null,
         NEW f \in H \ {Root}, lev[f] = lev[n] + 1,
         \A m \in H, j \in Slot : c[m][j] # f,
         \A x \in H : x \in F /\ x # f => x \in G
  PROVE  LET c2 == [c EXCEPT ![n][i] = f]
         IN  Tree(c2, H, lev) /\ OneParent(c2, H) /\ HasParent(c2, H, G)
<1> DEFINE c2 == [c EXCEPT ![n][i] = f]
<1>1. /\ c2 \in [Node -> [Slot -> Node \cup Values \cup {Null}]]
      /\ \A m \in Node, j \in Slot : c2[m][j] = IF m = n /\ j = i THEN f ELSE c[m][j]
  BY Written DEF Tree
<1> HIDE DEF c2
<1>2. ASSUME NEW m \in H, NEW j \in Slot
      PROVE  \/ m = n /\ j = i /\ c2[m][j] = f
             \/ (m # n \/ j # i) /\ c2[m][j] = c[m][j]
  BY <1>1 DEF Tree
<1>3. Tree(c2, H, lev)
  <2>1. ASSUME NEW m \in H, NEW j \in Slot
        PROVE  /\ lev[m] < Levels - 1 /\ c2[m][j] # Null =>
                    c2[m][j] \in H /\ lev[c2[m][j]] = lev[m] + 1
               /\ lev[m] = Levels - 1 => c2[m][j] \in Values \cup {Null}
    <3>1. CASE m = n /\ j = i /\ c2[m][j] = f
      BY <3>1, TrieAssumption DEF Tree, Depth
    <3>2. CASE c2[m][j] = c[m][j]
      BY <3>2 DEF Tree
    <3> QED
      BY <1>2, <3>1, <3>2
  <2> QED
    BY <1>1, <2>1 DEF Tree
<1>4. OneParent(c2, H)
  <2>1. SUFFICES ASSUME NEW m \in H, NEW k \in H, NEW j \in Slot, NEW l \in Slot,
                        c2[m][j] = c2[k][l], c2[m][j] \in Node
                 PROVE  m = k /\ j = l
    BY DEF OneParent
  <2>2. CASE c2[m][j] = f
    <3>1. m = n /\ j = i
      BY <1>2, <2>2
    <3>2. c2[k][l] = f
      BY <2>1, <2>2
    <3>3. k = n /\ l = i
      BY <1>2, <3>2
    <3> QED
      BY <3>1, <3>3
  <2>3. CASE c2[m][j] # f
    <3>1. c2[m][j] = c[m][j] /\ c2[k][l] = c[k][l]
      BY <1>2, <2>1, <2>3
    <3>2. c[m][j] = c[k][l] /\ c[m][j] \in Node
      BY <2>1, <3>1
    <3> QED
      BY <3>2, Zenon DEF OneParent
  <2> QED
    BY <2>2, <2>3
<1>5. HasParent(c2, H, G)
  <2>1. SUFFICES ASSUME NEW x \in H \ ({Root} \cup G)
                 PROVE  \E m \in H, j \in Slot : c2[m][j] = x
    BY DEF HasParent
  <2>2. CASE x = f
    BY <1>1, <2>2 DEF Tree
  <2>3. CASE x # f
    <3>1. PICK m \in H, j \in Slot : c[m][j] = x
      BY <2>3 DEF HasParent
    <3>2. x # Null
      BY TrieAssumption DEF Tree
    <3> QED
      BY <1>2, <3>1, <3>2
  <2> QED
    BY <2>2, <2>3
<1> QED
  BY <1>3, <1>4, <1>5 DEF c2

\* An empty node that hangs nowhere is deleted.
LEMMA TreeDrop ==
  ASSUME NEW c, NEW H, NEW lev, NEW F, NEW G,
         Tree(c, H, lev), OneParent(c, H), HasParent(c, H, F),
         NEW f \in H \ {Root}, c[f] = Empty,
         \A m \in H, j \in Slot : c[m][j] # f,
         \A x \in H : x \in F /\ x # f => x \in G
  PROVE  Tree(c, H \ {f}, lev) /\ OneParent(c, H \ {f}) /\ HasParent(c, H \ {f}, G)
<1>1. Tree(c, H \ {f}, lev)
  BY DEF Tree
<1>2. OneParent(c, H \ {f})
  BY DEF OneParent
<1>3. HasParent(c, H \ {f}, G)
  <2>1. SUFFICES ASSUME NEW x \in (H \ {f}) \ ({Root} \cup G)
                 PROVE  \E m \in H \ {f}, j \in Slot : c[m][j] = x
    BY DEF HasParent
  <2>2. PICK m \in H, j \in Slot : c[m][j] = x
    BY DEF HasParent
  <2>3. x # Null /\ \A k \in Slot : c[f][k] = Null
    BY TrieAssumption DEF Tree, Empty
  <2> QED
    BY <2>2, <2>3
<1> QED
  BY <1>1, <1>2, <1>3

----------------------------------------------------------------------------
(* The inductive invariant.                                                *)

\* What the program point of t says of its call and its locals.
Shape(t) ==
  /\ pc[t] = "idle" => call[t] = Null /\ cur[t] = Root /\ depth[t] = 0
  /\ pc[t] # "idle" => call[t] \in Request
  /\ pc[t] = "cas" <=> fresh[t] # Null
  /\ pc[t] = "cas" => depth[t] < Levels - 1 /\ call[t].op = "insert"

\* The node t has allocated is empty, hangs nowhere, and is for the level
\* below t's node.
FreshOK(t, lev) ==
  fresh[t] # Null =>
    /\ fresh[t] \in heap \ {Root} /\ ch[fresh[t]] = Empty
    /\ \A m \in heap, i \in Slot : ch[m][i] # fresh[t]
    /\ lev[fresh[t]] = depth[t] + 1

\* t stands on the way to its page.
OnPath(t) == pc[t] # "idle" => Path(ch, call[t].pg)[depth[t]] = cur[t]

\* The nodes that are allocated form a trie, lev giving their levels: each
\* hangs in one slot or is the fresh node of one thread.
Grown(lev) ==
  /\ Tree(ch, heap, lev)
  /\ OneParent(ch, heap)
  /\ HasParent(ch, heap, {fresh[t] : t \in Threads})
  /\ \A t \in Threads : FreshOK(t, lev) /\ OnPath(t)
  /\ \A t, u \in Threads : fresh[t] = fresh[u] /\ fresh[t] # Null => t = u

\* Until the destructor has run there is such a trie; then there is nothing.
Standing ==
  IF Root \in heap THEN \E lev \in [Node -> Depth] : Grown(lev)
  ELSE heap = {} /\ \A t \in Threads : pc[t] = "idle"

IInv == TypeOK /\ (\A t \in Threads : Shape(t)) /\ Standing

\* The fields of a request.
LEMMA RequestFields ==
  \A r \in Request :
    /\ r # Null /\ r.pg \in Pages /\ r.op \in {"insert", "clear", "lookup"}
    /\ r.op = "insert" => r.val \in Values
<1>1. Null \notin Request
  BY TrieAssumption
<1>2. \A r \in Request :
        /\ r.pg \in Pages /\ r.op \in {"insert", "clear", "lookup"}
        /\ r.op = "insert" => r.val \in Values
  BY DEF Request
<1> QED
  BY <1>1, <1>2

\* While some thread is in a call, or the root is there, the trie is.
LEMMA HasLevels ==
  ASSUME IInv, Root \in heap \/ \E t \in Threads : pc[t] # "idle"
  PROVE  Root \in heap /\ \E lev \in [Node -> Depth] : Grown(lev)
  BY DEF IInv, Standing

\* A thread in a call is on a node of the trie, at the level it counts, and
\* its slot leads one level down, or holds a value at a leaf.
LEMMA Here ==
  ASSUME IInv, NEW lev \in [Node -> Depth], Grown(lev),
         NEW t \in Threads, pc[t] # "idle"
  PROVE  /\ call[t] \in Request /\ call[t].pg \in Pages
         /\ depth[t] \in Depth /\ Idx(t) \in Slot
         /\ cur[t] \in heap /\ lev[cur[t]] = depth[t]
         /\ Path(ch, call[t].pg)[depth[t]] = cur[t]
         /\ depth[t] < Levels - 1 /\ Child(t) # Null =>
              Child(t) \in heap /\ lev[Child(t)] = depth[t] + 1
         /\ depth[t] = Levels - 1 => Child(t) \in Values \cup {Null}
<1>1. call[t] \in Request /\ depth[t] \in Depth /\ cur[t] \in Node
  BY DEF IInv, TypeOK, Shape
<1>2. call[t].pg \in Pages
  BY <1>1, RequestFields
<1>3. Idx(t) \in Slot
  BY <1>1, <1>2, PagesAssumption DEF Idx
<1>4. Tree(ch, heap, lev) /\ Path(ch, call[t].pg)[depth[t]] = cur[t]
  BY DEF Grown, OnPath
<1>5. cur[t] # Null
  BY <1>1, TrieAssumption
<1>6. cur[t] \in heap /\ lev[cur[t]] = depth[t]
  BY <1>1, <1>2, <1>4, <1>5, PathIn
<1> QED
  BY <1>1, <1>2, <1>3, <1>4, <1>6 DEF Tree, Child

\* A step of t that leaves nodes, slots and fresh nodes alone.
LEMMA WalkStep ==
  ASSUME IInv, Root \in heap, NEW t \in Threads, TypeOK',
         UNCHANGED <<ch, heap, fresh>>, fresh[t] = Null,
         \A u \in Threads \ {t} : /\ pc'[u] = pc[u] /\ call'[u] = call[u]
                                  /\ cur'[u] = cur[u] /\ depth'[u] = depth[u],
         Shape(t)', OnPath(t)'
  PROVE  IInv'
<1>1. ASSUME NEW u \in Threads PROVE Shape(u)'
  BY DEF IInv, Shape
<1>2. PICK lev \in [Node -> Depth] : Grown(lev)
  BY HasLevels
<1>3. ASSUME NEW u \in Threads PROVE FreshOK(u, lev)' /\ OnPath(u)'
  BY <1>2 DEF Grown, FreshOK, OnPath
<1>4. Grown(lev)'
  BY <1>2, <1>3 DEF Grown
<1> QED
  BY <1>1, <1>4 DEF IInv, Standing

\* The caller's locals after a return.
LEMMA AfterReturn ==
  ASSUME IInv, NEW t \in Threads, pc[t] = "walk", Return(t),
         ret' \in [Threads -> Values \cup {Null}], UNCHANGED fresh
  PROVE  /\ fresh[t] = Null /\ Shape(t)' /\ OnPath(t)'
         /\ call' \in [Threads -> Request \cup {Null}]
         /\ pc' \in [Threads -> {"idle", "walk", "cas"}]
         /\ cur' \in [Threads -> Node] /\ depth' \in [Threads -> Depth]
         /\ \A u \in Threads \ {t} : /\ pc'[u] = pc[u] /\ call'[u] = call[u]
                                     /\ cur'[u] = cur[u] /\ depth'[u] = depth[u]
<1>1. 0 \in Depth /\ Root \in Node
  BY TrieAssumption DEF Depth
<1>2. fresh[t] = Null
  BY DEF IInv, Shape
<1>3. /\ call' \in [Threads -> Request \cup {Null}]
      /\ pc' \in [Threads -> {"idle", "walk", "cas"}]
      /\ cur' \in [Threads -> Node] /\ depth' \in [Threads -> Depth]
  BY <1>1 DEF IInv, TypeOK, Return
<1>4. pc'[t] = "idle" /\ call'[t] = Null /\ cur'[t] = Root /\ depth'[t] = 0
  BY DEF IInv, TypeOK, Return
<1>5. \A u \in Threads \ {t} : /\ pc'[u] = pc[u] /\ call'[u] = call[u]
                               /\ cur'[u] = cur[u] /\ depth'[u] = depth[u]
  BY DEF IInv, TypeOK, Return
<1> QED
  BY <1>2, <1>3, <1>4, <1>5 DEF Shape, OnPath

\* A call begins.
LEMMA CallKeeps == ASSUME IInv, NEW t \in Threads, Call(t) PROVE IInv'
<1>1. PICK r \in Request : call' = [call EXCEPT ![t] = r]
  BY DEF Call
<1>2. TypeOK'
  BY <1>1 DEF IInv, TypeOK, Call, walkVars
<1>3. Shape(t)'
  <2>1. r # Null
    BY TrieAssumption
  <2> QED
    BY <1>1, <2>1 DEF IInv, TypeOK, Shape, Call, walkVars
<1>4. OnPath(t)'
  <2>1. depth'[t] = 0 /\ cur'[t] = Root
    BY DEF IInv, Shape, Call, walkVars
  <2> QED
    BY <2>1, PathDef DEF OnPath
<1>5. fresh[t] = Null
  BY DEF IInv, Shape, Call
<1> QED
  BY <1>1, <1>2, <1>3, <1>4, <1>5, WalkStep DEF IInv, TypeOK, Call, walkVars

\* clear_leaf and lookup return at a missing child.
LEMMA MissingKeeps == ASSUME IInv, NEW t \in Threads, Missing(t) PROVE IInv'
<1>1. Root \in heap
  BY HasLevels DEF Missing, Inner
<1>2. ret' \in [Threads -> Values \cup {Null}]
  BY DEF IInv, TypeOK, Missing
<1>3. pc[t] = "walk" /\ Return(t) /\ UNCHANGED <<ch, heap, fresh>>
  BY DEF Missing, Inner
<1>4. TypeOK'
  BY <1>2, <1>3, AfterReturn DEF IInv, TypeOK
<1> QED
  BY <1>1, <1>2, <1>3, <1>4, AfterReturn, WalkStep

\* insert_leaf gives up for want of memory.
LEMMA OomKeeps == ASSUME IInv, NEW t \in Threads, Oom(t) PROVE IInv'
<1>1. Root \in heap
  BY HasLevels DEF Oom, Inner
<1>2. ret' \in [Threads -> Values \cup {Null}]
  BY DEF IInv, TypeOK, Oom
<1>3. pc[t] = "walk" /\ Return(t) /\ UNCHANGED <<ch, heap, fresh>>
  BY DEF Oom, Inner
<1>4. TypeOK'
  BY <1>2, <1>3, AfterReturn DEF IInv, TypeOK
<1> QED
  BY <1>1, <1>2, <1>3, <1>4, AfterReturn, WalkStep

\* lookup_page_with_slot reads the leaf slot.
LEMMA LoadLeafKeeps == ASSUME IInv, NEW t \in Threads, LoadLeaf(t) PROVE IInv'
<1>1. Root \in heap
  BY HasLevels DEF LoadLeaf, AtLeaf
<1>2. ret' \in [Threads -> Values \cup {Null}]
  <2>1. PICK lev \in [Node -> Depth] : Grown(lev)
    BY <1>1, HasLevels
  <2>2. Child(t) \in Values \cup {Null}
    BY <2>1, Here DEF LoadLeaf, AtLeaf
  <2> QED
    BY <2>2 DEF IInv, TypeOK, LoadLeaf
<1>3. pc[t] = "walk" /\ Return(t) /\ UNCHANGED <<ch, heap, fresh>>
  BY DEF LoadLeaf, AtLeaf
<1>4. TypeOK'
  BY <1>2, <1>3, AfterReturn DEF IInv, TypeOK
<1> QED
  BY <1>1, <1>2, <1>3, <1>4, AfterReturn, WalkStep

\* A thread that has gone to a child of its node is on the way to its page.
LEMMA AfterGoTo ==
  ASSUME IInv, NEW lev \in [Node -> Depth], Grown(lev),
         NEW t \in Threads, pc[t] # "idle", depth[t] < Levels - 1,
         NEW n \in Node, GoTo(t, n), UNCHANGED <<call, ret>>,
         fresh' = [fresh EXCEPT ![t] = Null],
         Path(ch', call[t].pg)[depth[t]] = cur[t], ch'[cur[t]][Idx(t)] = n
  PROVE  /\ Shape(t)' /\ OnPath(t)'
         /\ pc' \in [Threads -> {"idle", "walk", "cas"}]
         /\ cur' \in [Threads -> Node] /\ depth' \in [Threads -> Depth]
         /\ \A u \in Threads \ {t} : /\ pc'[u] = pc[u] /\ call'[u] = call[u]
                                     /\ cur'[u] = cur[u] /\ depth'[u] = depth[u]
<1>1. depth[t] \in Depth /\ depth[t] + 1 \in Depth
  BY Here, TrieAssumption DEF Depth
<1>2. /\ pc' \in [Threads -> {"idle", "walk", "cas"}]
      /\ cur' \in [Threads -> Node] /\ depth' \in [Threads -> Depth]
  BY <1>1 DEF IInv, TypeOK, GoTo
<1>3. /\ pc'[t] = "walk" /\ cur'[t] = n /\ depth'[t] = depth[t] + 1
      /\ fresh'[t] = Null /\ call'[t] = call[t]
  BY DEF IInv, TypeOK, GoTo
<1>4. \A u \in Threads \ {t} : /\ pc'[u] = pc[u] /\ call'[u] = call[u]
                               /\ cur'[u] = cur[u] /\ depth'[u] = depth[u]
  BY DEF IInv, TypeOK, GoTo
<1>5. Shape(t)'
  BY <1>3, Here DEF Shape
<1>6. Path(ch', call[t].pg)[depth[t] + 1] = n
  <2>1. cur[t] # Null
    BY TrieAssumption DEF IInv, TypeOK
  <2>2. Path(ch', call[t].pg)[depth[t] + 1] =
          IF Path(ch', call[t].pg)[depth[t]] = Null THEN Null
          ELSE ch'[Path(ch', call[t].pg)[depth[t]]][level_idx(call[t].pg, depth[t])]
    BY <1>1, PathDef
  <2> QED
    BY <2>1, <2>2 DEF Idx
<1>7. OnPath(t)'
  BY <1>3, <1>6 DEF OnPath
<1> QED
  BY <1>2, <1>4, <1>5, <1>7

\* Following a link (Descend).
LEMMA DescendKeeps == ASSUME IInv, NEW t \in Threads, Descend(t) PROVE IInv'
<1>1. Root \in heap /\ pc[t] = "walk" /\ depth[t] < Levels - 1 /\ Child(t) # Null
  BY HasLevels DEF Descend, Inner
<1>2. PICK lev \in [Node -> Depth] : Grown(lev)
  BY <1>1, HasLevels
<1>3. Child(t) \in Node
  BY <1>1, <1>2, Here DEF Grown, Tree
<1>4. fresh[t] = Null /\ fresh' = [fresh EXCEPT ![t] = Null]
  BY <1>1 DEF IInv, TypeOK, Shape, Descend
<1>5. GoTo(t, Child(t)) /\ UNCHANGED <<ch, heap, call, ret, fresh>>
  BY DEF Descend
<1>6. Path(ch', call[t].pg)[depth[t]] = cur[t] /\ ch'[cur[t]][Idx(t)] = Child(t)
  BY <1>1, <1>2, <1>5, Here DEF Child
<1>7. /\ Shape(t)' /\ OnPath(t)'
      /\ pc' \in [Threads -> {"idle", "walk", "cas"}]
      /\ cur' \in [Threads -> Node] /\ depth' \in [Threads -> Depth]
      /\ \A u \in Threads \ {t} : /\ pc'[u] = pc[u] /\ call'[u] = call[u]
                                  /\ cur'[u] = cur[u] /\ depth'[u] = depth[u]
  BY <1>1, <1>2, <1>3, <1>4, <1>5, <1>6, AfterGoTo
<1>8. TypeOK'
  BY <1>5, <1>7 DEF IInv, TypeOK
<1> QED
  BY <1>1, <1>4, <1>5, <1>7, <1>8, WalkStep

\* Storing into a leaf slot: the trie keeps its form and its ways.
LEMMA LeafWriteKeeps ==
  ASSUME IInv, NEW t \in Threads, AtLeaf(t), NEW v \in Values \cup {Null},
         ch' = [ch EXCEPT ![cur[t]][Idx(t)] = v],
         Return(t), UNCHANGED <<heap, ret, fresh>>
  PROVE  IInv'
<1>1. Root \in heap /\ pc[t] = "walk" /\ depth[t] = Levels - 1
  BY HasLevels DEF AtLeaf
<1>2. PICK lev \in [Node -> Depth] : Grown(lev)
  BY <1>1, HasLevels
<1>3. /\ cur[t] \in heap /\ lev[cur[t]] = Levels - 1 /\ Idx(t) \in Slot
      /\ Tree(ch, heap, lev) /\ heap \subseteq Node
  BY <1>1, <1>2, Here DEF Grown, Tree
<1>4. ret' \in [Threads -> Values \cup {Null}]
  BY DEF IInv, TypeOK
<1>5. /\ Tree(ch', heap', lev) /\ OneParent(ch', heap')
      /\ HasParent(ch', heap', {fresh'[u] : u \in Threads})
  <2> DEFINE F == {fresh[u] : u \in Threads}
  <2> HIDE DEF F
  <2>1. OneParent(ch, heap) /\ HasParent(ch, heap, F)
    BY <1>2 DEF Grown, F
  <2>2. Tree(ch', heap, lev) /\ OneParent(ch', heap) /\ HasParent(ch', heap, F)
    BY <1>3, <2>1, TreeLeaf
  <2> QED
    BY <2>2 DEF F
<1>6. /\ fresh[t] = Null /\ Shape(t)' /\ OnPath(t)'
      /\ call' \in [Threads -> Request \cup {Null}]
      /\ pc' \in [Threads -> {"idle", "walk", "cas"}]
      /\ cur' \in [Threads -> Node] /\ depth' \in [Threads -> Depth]
      /\ \A u \in Threads \ {t} : /\ pc'[u] = pc[u] /\ call'[u] = call[u]
                                  /\ cur'[u] = cur[u] /\ depth'[u] = depth[u]
  BY <1>1, <1>4, AfterReturn
<1>7. TypeOK'
  BY <1>4, <1>5, <1>6 DEF IInv, TypeOK, Tree
<1>8. ASSUME NEW u \in Threads PROVE Shape(u)'
  BY <1>6 DEF IInv, Shape
<1>9. /\ \A m \in Node, j \in Slot :
           ch'[m][j] = IF m = cur[t] /\ j = Idx(t) THEN v ELSE ch[m][j]
      /\ \A m \in Node : m # cur[t] => ch'[m] = ch[m]
  BY <1>3, Written DEF Tree
<1>10. ASSUME NEW u \in Threads PROVE FreshOK(u, lev)'
  <2>1. SUFFICES ASSUME fresh[u] # Null PROVE FreshOK(u, lev)'
    BY DEF FreshOK
  <2>2. u # t /\ depth'[u] = depth[u]
    BY <1>6, <2>1
  <2>3. /\ fresh[u] \in heap \ {Root} /\ ch[fresh[u]] = Empty
        /\ \A m \in heap, i \in Slot : ch[m][i] # fresh[u]
        /\ lev[fresh[u]] = depth[u] + 1
    BY <1>2, <2>1 DEF Grown, FreshOK
  <2>4. fresh[u] # cur[t]
    <3>1. pc[u] = "cas"
      BY <2>1 DEF IInv, Shape
    <3> DEFINE w == Path(ch, call[t].pg)[depth[t]]
    <3>2. w = cur[t] /\ depth[t] \in Depth /\ call[t].pg \in Pages
      BY <1>1, <1>2, Here
    <3>3. w # Null
      BY <1>3, <3>2, TrieAssumption
    <3> HIDE DEF w
    <3>4. w = Root \/ \E m \in heap, i \in Slot : ch[m][i] = w
      BY <1>3, <3>2, <3>3, PathLinked DEF w
    <3> QED
      BY <2>3, <3>2, <3>4
  <2>5. ch'[fresh[u]] = Empty
    BY <1>3, <1>9, <2>3, <2>4
  <2>6. \A m \in heap, i \in Slot : ch'[m][i] # fresh[u]
    BY <1>3, <1>9, <2>3, TrieAssumption
  <2> QED
    BY <2>2, <2>3, <2>5, <2>6 DEF FreshOK
<1>11. ASSUME NEW u \in Threads PROVE OnPath(u)'
  <2>1. CASE u = t
    BY <1>6, <2>1
  <2>2. CASE u # t
    <3>1. SUFFICES ASSUME pc[u] # "idle"
                   PROVE  Path(ch', call[u].pg)[depth[u]] = cur[u]
      BY <1>6, <2>2 DEF OnPath
    <3>2. /\ call[u].pg \in Pages /\ depth[u] \in Depth
          /\ Path(ch, call[u].pg)[depth[u]] = cur[u]
      BY <1>2, <3>1, Here
    <3>3. KeepsInner(ch, ch', heap, lev)
      BY <1>3, <1>9, TrieAssumption DEF KeepsInner
    <3>4. \A d \in Depth : Path(ch', call[u].pg)[d] = Path(ch, call[u].pg)[d]
      BY <1>3, <3>2, <3>3, PathSame
    <3> QED
      BY <3>2, <3>4
  <2> QED
    BY <2>1, <2>2
<1>12. Grown(lev)'
  BY <1>2, <1>5, <1>10, <1>11 DEF Grown
<1> QED
  BY <1>1, <1>7, <1>8, <1>12 DEF IInv, Standing

\* The store that ends insert_leaf.
LEMMA StoreLeafKeeps == ASSUME IInv, NEW t \in Threads, StoreLeaf(t) PROVE IInv'
<1>1. call[t] \in Request
  BY DEF IInv, Shape, StoreLeaf, AtLeaf
<1>2. call[t].val \in Values
  BY <1>1, RequestFields DEF StoreLeaf, Op
<1> QED
  BY <1>2, LeafWriteKeeps DEF StoreLeaf

\* The store of clear_leaf.
LEMMA ClearLeafKeeps == ASSUME IInv, NEW t \in Threads, ClearLeaf(t) PROVE IInv'
  BY LeafWriteKeeps DEF ClearLeaf

\* The node a thread has allocated is not on any thread's way.
LEMMA FreshApart ==
  ASSUME IInv, NEW lev \in [Node -> Depth], Grown(lev),
         NEW t \in Threads, fresh[t] # Null, NEW u \in Threads, pc[u] # "idle"
  PROVE  cur[u] # fresh[t]
<1> DEFINE w == Path(ch, call[u].pg)[depth[u]]
<1>1. w = cur[u] /\ depth[u] \in Depth /\ call[u].pg \in Pages /\ cur[u] \in heap
  BY Here
<1>2. w # Null
  BY <1>1, TrieAssumption DEF IInv, TypeOK
<1> HIDE DEF w
<1>3. w = Root \/ \E m \in heap, i \in Slot : ch[m][i] = w
  BY <1>1, <1>2, PathLinked DEF w, Grown
<1> QED
  BY <1>1, <1>3 DEF Grown, FreshOK

\* Allocating a node (insert_leaf).
LEMMA AllocKeeps == ASSUME IInv, NEW t \in Threads, Alloc(t) PROVE IInv'
<1>1. /\ Root \in heap /\ pc[t] = "walk" /\ depth[t] < Levels - 1
      /\ Op(t) = "insert" /\ UNCHANGED <<call, ret, cur, depth>>
      /\ pc' = [pc EXCEPT ![t] = "cas"]
  BY HasLevels DEF Alloc, Inner
<1>2. PICK lev \in [Node -> Depth] : Grown(lev)
  BY <1>1, HasLevels
<1>3. PICK n \in Node \ heap :
        /\ heap' = heap \cup {n}
        /\ ch' = [ch EXCEPT ![n] = Empty]
        /\ fresh' = [fresh EXCEPT ![t] = n]
  BY DEF Alloc
<1>4. /\ Tree(ch, heap, lev) /\ OneParent(ch, heap) /\ heap \subseteq Node
      /\ depth[t] \in Depth /\ depth[t] + 1 \in Depth /\ fresh[t] = Null /\ n # Null
  <2>1. depth[t] \in Depth /\ fresh[t] = Null
    BY <1>1 DEF IInv, TypeOK, Shape
  <2> QED
    BY <1>1, <1>2, <2>1, TrieAssumption DEF Grown, Tree, Depth
<1>5. PICK lev2 : lev2 = [lev EXCEPT ![n] = depth[t] + 1]
  OBVIOUS
<1>6. /\ Tree(ch', heap', lev2) /\ OneParent(ch', heap')
      /\ HasParent(ch', heap', {fresh'[u] : u \in Threads})
  <2> DEFINE F == {fresh[u] : u \in Threads}
             G == {fresh'[u] : u \in Threads}
  <2>1. HasParent(ch, heap, F)
    BY <1>2 DEF Grown
  <2>2. n \in G
    BY <1>3 DEF IInv, TypeOK
  <2>3. ASSUME NEW x \in heap, x \in F PROVE x \in G
    <3>1. PICK u \in Threads : x = fresh[u]
      BY <2>3
    <3>2. x # Null
      BY <1>4, TrieAssumption
    <3>3. fresh'[u] = x
      BY <1>3, <1>4, <3>1, <3>2 DEF IInv, TypeOK
    <3> QED
      BY <3>3
  <2> HIDE DEF F, G
  <2>4. HasParent([ch EXCEPT ![n] = Empty], heap \cup {n}, G)
    BY <1>3, <1>4, <2>1, <2>2, <2>3, TreeNew
  <2>5. /\ Tree([ch EXCEPT ![n] = Empty], heap \cup {n}, lev2)
        /\ OneParent([ch EXCEPT ![n] = Empty], heap \cup {n})
    BY <1>5, <1>3, <1>4, <2>1, <2>2, <2>3, TreeNew
  <2> QED
    BY <1>3, <2>4, <2>5 DEF G
<1>7. /\ \A m \in heap : ch'[m] = ch[m] /\ lev2[m] = lev[m]
      /\ ch'[n] = Empty /\ lev2[n] = depth[t] + 1 /\ lev2 \in [Node -> Depth]
  BY <1>5, <1>2, <1>3, <1>4 DEF Tree
<1>8. TypeOK'
  BY <1>1, <1>3, <1>6 DEF IInv, TypeOK, Tree
<1>9. ASSUME NEW u \in Threads PROVE Shape(u)'
  BY <1>1, <1>3, <1>4 DEF IInv, TypeOK, Shape, Op
<1>10. ASSUME NEW u \in Threads PROVE fresh'[u] = IF u = t THEN n ELSE fresh[u]
  BY <1>3 DEF IInv, TypeOK
<1>11. \A m \in heap, i \in Slot : ch[m][i] # n
  <2>1. SUFFICES ASSUME NEW m \in heap, NEW i \in Slot, ch[m][i] = n PROVE FALSE
    OBVIOUS
  <2>2. n \in heap
    BY <1>4, <2>1, NodeSlots
  <2> QED
    BY <2>2
<1>12. \A i \in Slot : Empty[i] = Null
  BY DEF Empty
<1>13. ASSUME NEW u \in Threads PROVE FreshOK(u, lev2)'
  <2>1. CASE u = t
    <3>1. fresh'[u] = n /\ depth'[u] = depth[t] /\ n # Root
      BY <1>1, <1>10, <2>1
    <3>2. \A m \in heap', i \in Slot : ch'[m][i] # n
      BY <1>3, <1>4, <1>7, <1>11, <1>12
    <3> QED
      BY <1>3, <1>7, <3>1, <3>2 DEF FreshOK
  <2>2. CASE u # t
    <3>1. SUFFICES ASSUME fresh[u] # Null PROVE FreshOK(u, lev2)'
      BY <1>10, <2>2 DEF FreshOK
    <3>2. fresh'[u] = fresh[u] /\ depth'[u] = depth[u]
      BY <1>1, <1>10, <2>2
    <3>3. /\ fresh[u] \in heap \ {Root} /\ ch[fresh[u]] = Empty
          /\ \A m \in heap, i \in Slot : ch[m][i] # fresh[u]
          /\ lev[fresh[u]] = depth[u] + 1
      BY <1>2, <3>1 DEF Grown, FreshOK
    <3>4. \A m \in heap', i \in Slot : ch'[m][i] # fresh[u]
      BY <1>3, <1>7, <1>12, <3>1, <3>3
    <3> QED
      BY <1>3, <1>7, <3>2, <3>3, <3>4 DEF FreshOK
  <2> QED
    BY <2>1, <2>2
<1>14. ASSUME NEW u \in Threads PROVE OnPath(u)'
  <2>1. SUFFICES ASSUME pc'[u] # "idle"
                 PROVE  Path(ch', call[u].pg)[depth[u]] = cur[u]
    BY <1>1 DEF OnPath
  <2>2. pc[u] # "idle"
    BY <1>1, <2>1 DEF IInv, TypeOK
  <2>3. /\ call[u].pg \in Pages /\ depth[u] \in Depth
        /\ Path(ch, call[u].pg)[depth[u]] = cur[u]
    BY <1>2, <2>2, Here
  <2>4. KeepsInner(ch, ch', heap, lev)
    BY <1>7 DEF KeepsInner
  <2>5. \A d \in Depth : Path(ch', call[u].pg)[d] = Path(ch, call[u].pg)[d]
    BY <1>4, <2>3, <2>4, PathSame
  <2> QED
    BY <2>3, <2>5
<1>15. ASSUME NEW u \in Threads, NEW x \in Threads, fresh'[u] = fresh'[x], fresh'[u] # Null
       PROVE  u = x
  <2>1. ASSUME NEW y \in Threads, fresh[y] # Null PROVE fresh[y] # n
    BY <1>2, <2>1 DEF Grown, FreshOK
  <2> QED
    BY <1>2, <1>4, <1>10, <1>15, <2>1 DEF Grown
<1>16. Grown(lev2)'
  BY <1>6, <1>13, <1>14, <1>15 DEF Grown
<1> QED
  BY <1>1, <1>3, <1>7, <1>8, <1>9, <1>16 DEF IInv, Standing

\* What a thread about to link its node knows.
LEMMA AtCas ==
  ASSUME IInv, NEW lev \in [Node -> Depth], Grown(lev), NEW t \in Threads, pc[t] = "cas"
  PROVE  /\ Root \in heap /\ depth[t] < Levels - 1 /\ call[t].op = "insert"
         /\ fresh[t] \in heap \ {Root} /\ fresh[t] \in Node /\ fresh[t] # Null
         /\ ch[fresh[t]] = Empty /\ lev[fresh[t]] = depth[t] + 1
         /\ \A m \in heap, i \in Slot : ch[m][i] # fresh[t]
<1>1. fresh[t] # Null /\ depth[t] < Levels - 1 /\ call[t].op = "insert"
  BY DEF IInv, Shape
<1>2. Root \in heap /\ heap \subseteq Node
  BY DEF Grown, Tree
<1> QED
  BY <1>1, <1>2 DEF Grown, FreshOK

\* A node that is no longer fresh, seen by the other threads: the fresh nodes
\* but t's stay what they are.
LEMMA Unfresh ==
  ASSUME IInv, NEW lev \in [Node -> Depth], Grown(lev), NEW t \in Threads, pc[t] = "cas",
         fresh' = [fresh EXCEPT ![t] = Null]
  PROVE  /\ fresh' \in [Threads -> Node \cup {Null}]
         /\ \A u \in Threads : fresh'[u] = IF u = t THEN Null ELSE fresh[u]
         /\ \A x \in heap : x \in {fresh[u] : u \in Threads} /\ x # fresh[t] =>
              x \in {fresh'[u] : u \in Threads}
         /\ \A u, x \in Threads : fresh'[u] = fresh'[x] /\ fresh'[u] # Null => u = x
<1>1. /\ fresh' \in [Threads -> Node \cup {Null}]
      /\ \A u \in Threads : fresh'[u] = IF u = t THEN Null ELSE fresh[u]
  BY DEF IInv, TypeOK
<1>2. ASSUME NEW x \in heap, x \in {fresh[u] : u \in Threads}, x # fresh[t]
      PROVE  x \in {fresh'[u] : u \in Threads}
  <2>1. PICK u \in Threads : x = fresh[u]
    BY <1>2
  <2>2. fresh'[u] = x
    BY <1>1, <1>2, <2>1
  <2> QED
    BY <2>2
<1>3. ASSUME NEW u \in Threads, NEW x \in Threads, fresh'[u] = fresh'[x], fresh'[u] # Null
      PROVE  u = x
  BY <1>1, <1>3 DEF Grown
<1> QED
  BY <1>1, <1>2, <1>3

\* The compare-exchange that links the node.
LEMMA CasWinKeeps == ASSUME IInv, NEW t \in Threads, CasWin(t) PROVE IInv'
<1>1. /\ pc[t] = "cas" /\ Child(t) = Null
      /\ ch' = [ch EXCEPT ![cur[t]][Idx(t)] = fresh[t]]
      /\ GoTo(t, fresh[t]) /\ fresh' = [fresh EXCEPT ![t] = Null]
      /\ UNCHANGED <<heap, call, ret>>
  BY DEF CasWin
<1>2. PICK lev \in [Node -> Depth] : Grown(lev)
  BY <1>1, HasLevels
<1>3. /\ Root \in heap /\ depth[t] < Levels - 1 /\ call[t].op = "insert"
      /\ fresh[t] \in heap \ {Root} /\ fresh[t] \in Node /\ fresh[t] # Null
      /\ ch[fresh[t]] = Empty /\ lev[fresh[t]] = depth[t] + 1
      /\ \A m \in heap, i \in Slot : ch[m][i] # fresh[t]
  BY <1>1, <1>2, AtCas
<1>4. /\ cur[t] \in heap /\ lev[cur[t]] = depth[t] /\ Idx(t) \in Slot /\ depth[t] \in Depth
      /\ call[t].pg \in Pages /\ Path(ch, call[t].pg)[depth[t]] = cur[t]
  BY <1>1, <1>2, Here
<1>5. /\ Tree(ch, heap, lev) /\ OneParent(ch, heap)
      /\ HasParent(ch, heap, {fresh[u] : u \in Threads}) /\ heap \subseteq Node
      /\ ch \in [Node -> [Slot -> Node \cup Values \cup {Null}]]
  BY <1>2 DEF Grown, Tree
<1>6. /\ fresh' \in [Threads -> Node \cup {Null}]
      /\ \A u \in Threads : fresh'[u] = IF u = t THEN Null ELSE fresh[u]
      /\ \A x \in heap : x \in {fresh[u] : u \in Threads} /\ x # fresh[t] =>
           x \in {fresh'[u] : u \in Threads}
      /\ \A u, x \in Threads : fresh'[u] = fresh'[x] /\ fresh'[u] # Null => u = x
  BY <1>1, <1>2, Unfresh
<1>7. /\ Tree(ch', heap', lev) /\ OneParent(ch', heap')
      /\ HasParent(ch', heap', {fresh'[u] : u \in Threads})
  <2> DEFINE F == {fresh[u] : u \in Threads}
             G == {fresh'[u] : u \in Threads}
             f == fresh[t]
             n == cur[t]
             i == Idx(t)
  <2>1. HasParent(ch, heap, F) /\ \A x \in heap : x \in F /\ x # f => x \in G
    BY <1>5, <1>6
  <2>2. /\ n \in heap /\ lev[n] < Levels - 1 /\ i \in Slot /\ ch[n][i] = Null
        /\ f \in heap \ {Root} /\ lev[f] = lev[n] + 1
        /\ \A m \in heap, j \in Slot : ch[m][j] # f
        /\ ch' = [ch EXCEPT ![n][i] = f] /\ heap' = heap
    BY <1>1, <1>3, <1>4 DEF Child
  <2> HIDE DEF F, G, f, n, i
  <2>3. /\ Tree([ch EXCEPT ![n][i] = f], heap, lev)
        /\ OneParent([ch EXCEPT ![n][i] = f], heap)
        /\ HasParent([ch EXCEPT ![n][i] = f], heap, G)
    BY <1>5, <2>1, <2>2, TreeLink
  <2> QED
    BY <2>2, <2>3 DEF G
<1>8. /\ \A m \in Node, j \in Slot :
           ch'[m][j] = IF m = cur[t] /\ j = Idx(t) THEN fresh[t] ELSE ch[m][j]
      /\ \A m \in Node : m # cur[t] => ch'[m] = ch[m]
  BY <1>1, <1>3, <1>4, <1>5, Written
<1>9. ASSUME NEW pg \in Pages, NEW d \in Depth, Path(ch, pg)[d] # Null
      PROVE  Path(ch', pg)[d] = Path(ch, pg)[d]
  <2>1. KeepsLinks(ch, ch', heap, lev)
    BY <1>1, <1>5, <1>8 DEF KeepsLinks, Child
  <2> QED
    BY <1>5, <1>9, <2>1, PathKeeps
<1>10. ASSUME NEW u \in Threads, pc[u] # "idle"
       PROVE  Path(ch', call[u].pg)[depth[u]] = cur[u]
  <2>1. /\ Path(ch, call[u].pg)[depth[u]] = cur[u] /\ cur[u] \in heap
        /\ call[u].pg \in Pages /\ depth[u] \in Depth
    BY <1>2, <1>10, Here
  <2>2. cur[u] # Null
    BY <1>5, <2>1, TrieAssumption
  <2> QED
    BY <1>9, <2>1, <2>2
<1>11. /\ Shape(t)' /\ OnPath(t)'
       /\ pc' \in [Threads -> {"idle", "walk", "cas"}]
       /\ cur' \in [Threads -> Node] /\ depth' \in [Threads -> Depth]
       /\ \A u \in Threads \ {t} : /\ pc'[u] = pc[u] /\ call'[u] = call[u]
                                   /\ cur'[u] = cur[u] /\ depth'[u] = depth[u]
  <2>1. Path(ch', call[t].pg)[depth[t]] = cur[t]
    BY <1>1, <1>10
  <2>2. ch'[cur[t]][Idx(t)] = fresh[t]
    BY <1>4, <1>5, <1>8
  <2> QED
    BY <1>1, <1>2, <1>3, <2>1, <2>2, AfterGoTo
<1>12. TypeOK'
  BY <1>1, <1>6, <1>7, <1>11 DEF IInv, TypeOK, Tree
<1>13. ASSUME NEW u \in Threads PROVE Shape(u)'
  BY <1>6, <1>11 DEF IInv, Shape
<1>14. ASSUME NEW u \in Threads PROVE OnPath(u)'
  BY <1>10, <1>11 DEF OnPath
<1>15. ASSUME NEW u \in Threads PROVE FreshOK(u, lev)'
  <2>1. SUFFICES ASSUME fresh'[u] # Null PROVE FreshOK(u, lev)'
    BY DEF FreshOK
  <2>2. u # t /\ depth'[u] = depth[u] /\ fresh'[u] = fresh[u] /\ fresh[u] # Null
    BY <1>6, <1>11, <2>1
  <2>3. /\ fresh[u] \in heap \ {Root} /\ ch[fresh[u]] = Empty
        /\ \A m \in heap, i \in Slot : ch[m][i] # fresh[u]
        /\ lev[fresh[u]] = depth[u] + 1
    BY <1>2, <2>2 DEF Grown, FreshOK
  <2>4. cur[t] # fresh[u] /\ fresh[t] # fresh[u]
    BY <1>1, <1>2, <2>2, FreshApart DEF Grown
  <2>5. ch'[fresh[u]] = Empty
    BY <1>5, <1>8, <2>3, <2>4
  <2>6. \A m \in heap, i \in Slot : ch'[m][i] # fresh[u]
    BY <1>5, <1>8, <2>3, <2>4
  <2> QED
    BY <1>1, <2>2, <2>3, <2>5, <2>6 DEF FreshOK
<1>16. Grown(lev)'
  BY <1>6, <1>7, <1>14, <1>15 DEF Grown
<1> QED
  BY <1>1, <1>3, <1>12, <1>13, <1>16 DEF IInv, Standing

\* The compare-exchange that fails: the node is deleted again.
LEMMA CasLoseKeeps == ASSUME IInv, NEW t \in Threads, CasLose(t) PROVE IInv'
<1>1. /\ pc[t] = "cas" /\ Child(t) # Null
      /\ heap' = heap \ {fresh[t]} /\ GoTo(t, Child(t))
      /\ fresh' = [fresh EXCEPT ![t] = Null] /\ UNCHANGED <<ch, call, ret>>
  BY DEF CasLose
<1>2. PICK lev \in [Node -> Depth] : Grown(lev)
  BY <1>1, HasLevels
<1>3. /\ Root \in heap /\ depth[t] < Levels - 1 /\ call[t].op = "insert"
      /\ fresh[t] \in heap \ {Root} /\ fresh[t] \in Node /\ fresh[t] # Null
      /\ ch[fresh[t]] = Empty /\ lev[fresh[t]] = depth[t] + 1
      /\ \A m \in heap, i \in Slot : ch[m][i] # fresh[t]
  BY <1>1, <1>2, AtCas
<1>4. /\ Tree(ch, heap, lev) /\ OneParent(ch, heap)
      /\ HasParent(ch, heap, {fresh[u] : u \in Threads}) /\ heap \subseteq Node
  BY <1>2 DEF Grown, Tree
<1>5. /\ fresh' \in [Threads -> Node \cup {Null}]
      /\ \A u \in Threads : fresh'[u] = IF u = t THEN Null ELSE fresh[u]
      /\ \A x \in heap : x \in {fresh[u] : u \in Threads} /\ x # fresh[t] =>
           x \in {fresh'[u] : u \in Threads}
      /\ \A u, x \in Threads : fresh'[u] = fresh'[x] /\ fresh'[u] # Null => u = x
  BY <1>1, <1>2, Unfresh
<1>6. /\ Tree(ch', heap', lev) /\ OneParent(ch', heap')
      /\ HasParent(ch', heap', {fresh'[u] : u \in Threads})
  <2> DEFINE F == {fresh[u] : u \in Threads}
             G == {fresh'[u] : u \in Threads}
             f == fresh[t]
  <2>1. /\ HasParent(ch, heap, F) /\ \A x \in heap : x \in F /\ x # f => x \in G
        /\ f \in heap \ {Root} /\ ch[f] = Empty
        /\ \A m \in heap, j \in Slot : ch[m][j] # f
        /\ ch' = ch /\ heap' = heap \ {f}
    BY <1>1, <1>3, <1>4, <1>5
  <2> HIDE DEF F, G, f
  <2>2. Tree(ch, heap \ {f}, lev) /\ OneParent(ch, heap \ {f}) /\ HasParent(ch, heap \ {f}, G)
    BY <1>4, <2>1, TreeDrop
  <2> QED
    BY <2>1, <2>2 DEF G
<1>7. /\ Shape(t)' /\ OnPath(t)'
      /\ pc' \in [Threads -> {"idle", "walk", "cas"}]
      /\ cur' \in [Threads -> Node] /\ depth' \in [Threads -> Depth]
      /\ \A u \in Threads \ {t} : /\ pc'[u] = pc[u] /\ call'[u] = call[u]
                                  /\ cur'[u] = cur[u] /\ depth'[u] = depth[u]
  <2>1. Path(ch', call[t].pg)[depth[t]] = cur[t] /\ Child(t) \in Node
    BY <1>1, <1>2, <1>3, <1>4, Here
  <2>2. ch'[cur[t]][Idx(t)] = Child(t)
    BY <1>1 DEF Child
  <2> QED
    BY <1>1, <1>2, <1>3, <2>1, <2>2, AfterGoTo
<1>8. TypeOK'
  BY <1>1, <1>5, <1>6, <1>7 DEF IInv, TypeOK, Tree
<1>9. ASSUME NEW u \in Threads PROVE Shape(u)'
  BY <1>5, <1>7 DEF IInv, Shape
<1>10. ASSUME NEW u \in Threads PROVE OnPath(u)'
  BY <1>1, <1>2, <1>7 DEF OnPath, Grown
<1>11. ASSUME NEW u \in Threads PROVE FreshOK(u, lev)'
  <2>1. SUFFICES ASSUME fresh'[u] # Null PROVE FreshOK(u, lev)'
    BY DEF FreshOK
  <2>2. u # t /\ depth'[u] = depth[u] /\ fresh'[u] = fresh[u] /\ fresh[u] # Null
    BY <1>5, <1>7, <2>1
  <2>3. fresh[t] # fresh[u]
    BY <1>2, <2>2 DEF Grown
  <2> QED
    BY <1>1, <1>2, <2>2, <2>3 DEF Grown, FreshOK
<1>12. Grown(lev)'
  BY <1>5, <1>6, <1>10, <1>11 DEF Grown
<1>13. Root \in heap'
  BY <1>1, <1>3
<1> QED
  BY <1>8, <1>9, <1>12, <1>13 DEF IInv, Standing

\* destroy_subtree visits the nodes that are allocated, and when nobody is in
\* a call it visits them all.
LEMMA VisitedIs ==
  ASSUME IInv, Root \in heap
  PROVE  /\ Visited \subseteq heap
         /\ (\A t \in Threads : pc[t] = "idle") => heap \subseteq Visited
<1>1. PICK lev \in [Node -> Depth] : Grown(lev)
  BY HasLevels
<1>2. Tree(ch, heap, lev) /\ HasParent(ch, heap, {fresh[t] : t \in Threads})
  BY <1>1 DEF Grown
<1>3. Visited \subseteq heap
  BY <1>2, ReachedIn DEF Visited
<1>4. ASSUME \A t \in Threads : pc[t] = "idle" PROVE heap \subseteq Visited
  <2>1. \A t \in Threads : fresh[t] = Null
    BY <1>4 DEF IInv, Shape
  <2>2. ASSUME NEW x \in heap PROVE x \notin {fresh[t] : t \in Threads}
    BY <1>2, <2>1, TrieAssumption DEF Tree
  <2>3. HasParent(ch, heap, {})
    BY <1>2, <2>2 DEF HasParent
  <2>4. ASSUME NEW n \in heap PROVE lev[n] \in Depth /\ n \in ReachedAt(ch)[lev[n]]
    BY <1>2, <2>3, ReachedAll DEF Tree
  <2> QED
    BY <2>4 DEF Visited
<1> QED
  BY <1>3, <1>4

\* The destructor.
LEMMA DestroyKeeps == ASSUME IInv, destroy_subtree PROVE IInv'
<1>1. /\ Root \in heap /\ \A t \in Threads : pc[t] = "idle"
      /\ heap' = heap \ Visited /\ UNCHANGED <<ch, call, ret, pc, cur, depth, fresh>>
  BY DEF destroy_subtree, walkVars
<1>2. heap' = {}
  BY <1>1, VisitedIs
<1>3. TypeOK'
  BY <1>1, <1>2 DEF IInv, TypeOK
<1>4. \A t \in Threads : Shape(t)'
  BY <1>1 DEF IInv, Shape
<1> QED
  BY <1>1, <1>2, <1>3, <1>4 DEF IInv, Standing

\* The constructor.
LEMMA InitIInv == ASSUME Init PROVE IInv
<1>1. \A n \in Node, i \in Slot : ch[n][i] = Null
  BY DEF Init, Empty
<1>2. 0 \in Depth /\ Root \in Node
  BY TrieAssumption DEF Depth
<1>3. TypeOK
  BY <1>2 DEF Init, TypeOK, Empty
<1>4. \A t \in Threads : Shape(t)
  BY DEF Init, Shape
<1> DEFINE lev == [n \in Node |-> 0]
<1>5. lev \in [Node -> Depth] /\ lev[Root] = 0
  BY <1>2
<1> HIDE DEF lev
<1>6. Tree(ch, heap, lev)
  BY <1>1, <1>2, <1>3, <1>5 DEF Tree, TypeOK, Init
<1>7. OneParent(ch, heap)
  BY <1>1, <1>2, TrieAssumption DEF OneParent, Init
<1>8. HasParent(ch, heap, {fresh[t] : t \in Threads})
  BY DEF HasParent, Init
<1>9. \A t \in Threads : FreshOK(t, lev) /\ OnPath(t) /\ fresh[t] = Null
  BY DEF Init, FreshOK, OnPath
<1>10. Grown(lev)
  BY <1>6, <1>7, <1>8, <1>9 DEF Grown
<1>11. Root \in heap
  BY DEF Init
<1> QED
  BY <1>3, <1>4, <1>5, <1>10, <1>11 DEF IInv, Standing

\* Every step keeps the invariant.
LEMMA NextIInv == ASSUME IInv, [Next]_vars PROVE IInv'
<1>1. ASSUME NEW t \in Threads, Step(t) PROVE IInv'
  BY <1>1, CallKeeps, DescendKeeps, MissingKeeps, AllocKeeps, OomKeeps,
     CasWinKeeps, CasLoseKeeps, StoreLeafKeeps, ClearLeafKeeps, LoadLeafKeeps DEF Step
<1>2. CASE destroy_subtree
  BY <1>2, DestroyKeeps
<1>3. CASE UNCHANGED vars
  <2>1. UNCHANGED <<ch, heap, call, ret, pc, cur, depth, fresh>>
    BY <1>3 DEF vars, walkVars
  <2>2. TypeOK' /\ \A t \in Threads : Shape(t)'
    BY <2>1 DEF IInv, TypeOK, Shape
  <2>3. ASSUME NEW lev \in [Node -> Depth], Grown(lev) PROVE Grown(lev)'
    BY <2>1, <2>3 DEF Grown, FreshOK, OnPath
  <2>4. Standing'
    BY <2>1, <2>3 DEF IInv, Standing
  <2> QED
    BY <2>2, <2>4 DEF IInv
<1> QED
  BY <1>1, <1>2, <1>3 DEF Next

\* The invariant holds in every state of every run.
LEMMA TrieInvariant == Spec => []IInv
  BY InitIInv, NextIInv, PTL DEF Spec

----------------------------------------------------------------------------
(* The properties of the trie.                                             *)

\* Every variable keeps its type, a walk of insert_leaf, clear_leaf or lookup
\* within the levels of the trie.
THEOREM TypeCorrect == Spec => []TypeOK
<1>1. IInv => TypeOK
  BY DEF IInv
<1> QED
  BY <1>1, TrieInvariant, PTL

\* No walk stands on, and no slot that can be reached names, a node that the
\* loser of a race in insert_leaf has deleted.
THEOREM WalksAreSafe == Spec => []NoUseAfterDelete
<1>1. ASSUME IInv PROVE NoUseAfterDelete
  <2>1. ASSUME NEW t \in Threads, pc[t] # "idle" PROVE cur[t] \in heap
    <3>1. PICK lev \in [Node -> Depth] : Grown(lev)
      BY <1>1, <2>1, HasLevels
    <3> QED
      BY <1>1, <2>1, <3>1, Here
  <2>2. Root \in heap => Visited \subseteq heap
    BY <1>1, VisitedIs
  <2> QED
    BY <2>1, <2>2 DEF NoUseAfterDelete
<1> QED
  BY <1>1, TrieInvariant, PTL

\* Every node but the root hangs in exactly one slot or is the fresh node of
\* exactly one thread, so that destroy_subtree deletes none twice.
THEOREM NodesAreOwnedOnce == Spec => []OwnedOnce
<1>1. ASSUME IInv PROVE OwnedOnce
  <2> DEFINE links(n) == {p \in heap \X Slot : ch[p[1]][p[2]] = n}
             news(n) == {t \in Threads : fresh[t] = n}
  <2>1. ASSUME NEW n \in heap \ {Root}
        PROVE  Cardinality(links(n)) + Cardinality(news(n)) = 1
    <3>1. Root \in heap
      BY <1>1 DEF IInv, Standing
    <3>2. PICK lev \in [Node -> Depth] : Grown(lev)
      BY <1>1, <3>1, HasLevels
    <3>3. n \in Node /\ n # Null
      BY <3>2, TrieAssumption DEF Grown, Tree
    <3>4. CASE n \in {fresh[t] : t \in Threads}
      <4>1. PICK t \in Threads : fresh[t] = n
        BY <3>4
      <4>2. news(n) = {t}
        BY <3>2, <3>3, <4>1 DEF Grown
      <4>3. links(n) = {}
        BY <3>2, <3>3, <4>1 DEF Grown, FreshOK
      <4>4. Cardinality({t}) = 1 /\ Cardinality({}) = 0
        BY FS_Singleton, FS_EmptySet, Zenon
      <4>5. Cardinality(news(n)) = 1 /\ Cardinality(links(n)) = 0
        BY <4>2, <4>3, <4>4, Zenon
      <4> HIDE DEF links, news
      <4> QED
        BY <4>5
    <3>5. CASE n \notin {fresh[t] : t \in Threads}
      <4>1. PICK m \in heap, i \in Slot : ch[m][i] = n
        BY <3>2, <3>5 DEF Grown, HasParent
      <4>2. ASSUME NEW p \in heap \X Slot, ch[p[1]][p[2]] = n PROVE p = <<m, i>>
        <5>1. p[1] \in heap /\ p[2] \in Slot /\ p = <<p[1], p[2]>>
          OBVIOUS
        <5>2. p[1] = m /\ p[2] = i
          BY <3>2, <3>3, <4>1, <4>2, <5>1 DEF Grown, OneParent
        <5> QED
          BY <5>1, <5>2
      <4>3. links(n) = {<<m, i>>}
        BY <4>1, <4>2
      <4>4. news(n) = {}
        BY <3>5
      <4>5. Cardinality({<<m, i>>}) = 1 /\ Cardinality({}) = 0
        BY FS_Singleton, FS_EmptySet, Zenon
      <4>6. Cardinality(links(n)) = 1 /\ Cardinality(news(n)) = 0
        BY <4>3, <4>4, <4>5, Zenon
      <4> HIDE DEF links, news
      <4> QED
        BY <4>6
    <3> QED
      BY <3>4, <3>5
  <2> QED
    BY <2>1 DEF OwnedOnce
<1> QED
  BY <1>1, TrieInvariant, PTL

\* Nothing is left allocated once the trie has been destroyed.
THEOREM DestructorFreesAll == Spec => []DestroyFreesAll
<1>1. ASSUME IInv PROVE DestroyFreesAll
  BY <1>1 DEF IInv, Standing, DestroyFreesAll
<1> QED
  BY <1>1, TrieInvariant, PTL

----------------------------------------------------------------------------
(* What the steps do to the ways, and to the map the trie stands for.      *)

\* Writing a leaf slot leaves the inner slots alone.
LEMMA LeafWriteInner ==
  ASSUME IInv, NEW lev \in [Node -> Depth], Grown(lev), NEW t \in Threads, AtLeaf(t),
         NEW v \in Values \cup {Null}, ch' = [ch EXCEPT ![cur[t]][Idx(t)] = v]
  PROVE  /\ KeepsInner(ch, ch', heap, lev)
         /\ \A m \in heap, j \in Slot :
              ch'[m][j] = IF m = cur[t] /\ j = Idx(t) THEN v ELSE ch[m][j]
<1>1. pc[t] # "idle" /\ depth[t] = Levels - 1
  BY DEF AtLeaf
<1>2. cur[t] \in heap /\ lev[cur[t]] = Levels - 1 /\ Idx(t) \in Slot
  BY <1>1, Here
<1>3. heap \subseteq Node /\ ch \in [Node -> [Slot -> Node \cup Values \cup {Null}]]
  BY DEF Grown, Tree
<1>4. \A m \in Node, j \in Slot :
        ch'[m][j] = IF m = cur[t] /\ j = Idx(t) THEN v ELSE ch[m][j]
  BY <1>2, <1>3, Written
<1> QED
  BY <1>2, <1>3, <1>4, TrieAssumption DEF KeepsInner

\* Allocating a node leaves the slots of all others alone.
LEMMA AllocInner ==
  ASSUME IInv, NEW lev \in [Node -> Depth], Grown(lev), NEW t \in Threads, Alloc(t)
  PROVE  KeepsInner(ch, ch', heap, lev) /\ \A m \in heap : ch'[m] = ch[m]
<1>1. PICK n \in Node \ heap : ch' = [ch EXCEPT ![n] = Empty]
  BY DEF Alloc
<1>2. \A m \in heap : ch'[m] = ch[m]
  BY <1>1 DEF Grown, Tree
<1> QED
  BY <1>2 DEF KeepsInner

\* Linking a node leaves the slots in use alone.
LEMMA CasWinLinks ==
  ASSUME IInv, NEW lev \in [Node -> Depth], Grown(lev), NEW t \in Threads, CasWin(t)
  PROVE  /\ KeepsLinks(ch, ch', heap, lev)
         /\ \A m \in Node, j \in Slot :
              ch'[m][j] = IF m = cur[t] /\ j = Idx(t) THEN fresh[t] ELSE ch[m][j]
<1>1. pc[t] = "cas" /\ ch[cur[t]][Idx(t)] = Null /\ ch' = [ch EXCEPT ![cur[t]][Idx(t)] = fresh[t]]
  BY DEF CasWin, Child
<1>2. cur[t] \in heap /\ Idx(t) \in Slot /\ fresh[t] \in Node
  BY <1>1, Here, AtCas
<1>3. heap \subseteq Node /\ ch \in [Node -> [Slot -> Node \cup Values \cup {Null}]]
  BY DEF Grown, Tree
<1>4. \A m \in Node, j \in Slot :
        ch'[m][j] = IF m = cur[t] /\ j = Idx(t) THEN fresh[t] ELSE ch[m][j]
  BY <1>1, <1>2, <1>3, Written
<1> QED
  BY <1>1, <1>3, <1>4 DEF KeepsLinks

\* The steps that write slots, and what they write.
LEMMA Writers ==
  ASSUME NEW t \in Threads, IInv, Step(t)
  PROVE  \/ UNCHANGED ch
         \/ Alloc(t)
         \/ CasWin(t)
         \/ AtLeaf(t) /\ \E v \in Values \cup {Null} : ch' = [ch EXCEPT ![cur[t]][Idx(t)] = v]
<1>1. CASE StoreLeaf(t)
  <2>1. call[t] \in Request
    BY <1>1 DEF IInv, Shape, StoreLeaf, AtLeaf
  <2>2. call[t].val \in Values
    BY <1>1, <2>1, RequestFields DEF StoreLeaf, Op
  <2> QED
    BY <1>1, <2>2 DEF StoreLeaf
<1>2. CASE ClearLeaf(t)
  BY <1>2 DEF ClearLeaf
<1> QED
  BY <1>1, <1>2 DEF Step, Call, Descend, Missing, Oom, CasLose, LoadLeaf

\* The leaf slot of a page never moves once it exists, so that the address
\* tls_entry::leaf keeps stays the slot of its page.
THEOREM LeafSlotsAreStable == Spec => LeafSlotsStay
<1>1. ASSUME IInv, [Next]_vars, NEW pg \in Pages, LeafOf(pg) # Null
      PROVE  LeafOf(pg)' = LeafOf(pg)
  <2>1. Levels - 1 \in Depth
    BY TrieAssumption DEF Depth
  <2>2. SUFFICES ASSUME ch' # ch PROVE LeafOf(pg)' = LeafOf(pg)
    BY DEF LeafOf
  <2>3. PICK t \in Threads : Step(t)
    BY <1>1, <2>2 DEF Next, destroy_subtree, vars
  <2>4. pc[t] # "idle"
    BY <1>1, <2>2, <2>3, Writers DEF Alloc, CasWin, AtLeaf, Inner
  <2>5. PICK lev \in [Node -> Depth] : Grown(lev)
    BY <1>1, <2>4, HasLevels
  <2>6. KeepsLinks(ch, ch', heap, lev)
    <3>1. CASE Alloc(t)
      BY <1>1, <2>5, <3>1, AllocInner DEF KeepsInner, KeepsLinks
    <3>2. CASE CasWin(t)
      BY <1>1, <2>5, <3>2, CasWinLinks
    <3>3. CASE AtLeaf(t) /\ \E v \in Values \cup {Null} : ch' = [ch EXCEPT ![cur[t]][Idx(t)] = v]
      <4>1. KeepsInner(ch, ch', heap, lev)
        BY <1>1, <2>5, <3>3, LeafWriteInner
      <4> QED
        BY <4>1 DEF KeepsInner, KeepsLinks
    <3> QED
      BY <1>1, <2>2, <2>3, <3>1, <3>2, <3>3, Writers
  <2>7. Tree(ch, heap, lev) /\ Path(ch, pg)[Levels - 1] # Null
    BY <1>1, <2>5 DEF Grown, LeafOf
  <2>8. Path(ch', pg)[Levels - 1] = Path(ch, pg)[Levels - 1]
    BY <2>1, <2>6, <2>7, PathKeeps
  <2> QED
    BY <2>8 DEF LeafOf
<1>2. IInv /\ [Next]_vars =>
        [\A pg \in Pages : LeafOf(pg) # Null => LeafOf(pg)' = LeafOf(pg)]_vars
  BY <1>1
<1> QED
  BY <1>2, TrieInvariant, PTL DEF Spec, LeafSlotsStay

\* The value the slots c give a page.
ValueAt(c, pg) ==
  IF Path(c, pg)[Levels - 1] = Null THEN Null
  ELSE c[Path(c, pg)[Levels - 1]][level_idx(pg, Levels - 1)]

\* Allocating a node changes the value of no page.
LEMMA AllocSameMap ==
  ASSUME IInv, NEW t \in Threads, Alloc(t), NEW pg \in Pages
  PROVE  ValueAt(ch', pg) = ValueAt(ch, pg)
<1>1. PICK lev \in [Node -> Depth] : Grown(lev)
  BY HasLevels DEF Alloc, Inner
<1>2. Tree(ch, heap, lev) /\ Levels - 1 \in Depth
  BY <1>1, TrieAssumption DEF Grown, Depth
<1>3. Path(ch', pg)[Levels - 1] = Path(ch, pg)[Levels - 1]
  BY <1>1, <1>2, AllocInner, PathSame
<1>4. Path(ch, pg)[Levels - 1] # Null => Path(ch, pg)[Levels - 1] \in heap
  BY <1>2, PathIn
<1> QED
  BY <1>1, <1>3, <1>4, AllocInner DEF ValueAt

\* Linking an empty node changes the value of no page.
LEMMA CasWinSameMap ==
  ASSUME IInv, NEW t \in Threads, CasWin(t), NEW pg \in Pages
  PROVE  ValueAt(ch', pg) = ValueAt(ch, pg)
<1>1. /\ pc[t] = "cas" /\ ch[cur[t]][Idx(t)] = Null
      /\ ch' = [ch EXCEPT ![cur[t]][Idx(t)] = fresh[t]]
  BY DEF CasWin, Child
<1>2. PICK lev \in [Node -> Depth] : Grown(lev)
  BY <1>1, HasLevels
<1>3. /\ Tree(ch, heap, lev) /\ Levels - 1 \in Depth /\ heap \subseteq Node
      /\ level_idx(pg, Levels - 1) \in Slot
  BY <1>2, TrieAssumption, PagesAssumption DEF Grown, Depth, Tree
<1>4. /\ cur[t] \in heap /\ Idx(t) \in Slot /\ fresh[t] \in Node /\ ch[fresh[t]] = Empty
      /\ fresh[t] # Null /\ lev[cur[t]] = depth[t] /\ depth[t] < Levels - 1
  BY <1>1, <1>2, Here, AtCas
<1>5. fresh[t] # cur[t]
  BY <1>1, <1>2, <1>4, FreshApart
<1> DEFINE v == Path(ch, pg)[Levels - 1]
           w == Path(ch', pg)[Levels - 1]
           i == level_idx(pg, Levels - 1)
<1>6. w = v \/ (v = Null /\ w = fresh[t])
  <2> DEFINE n == cur[t]
             j == Idx(t)
             f == fresh[t]
  <2>1. /\ n \in heap /\ j \in Slot /\ ch[n][j] = Null /\ f \in Node /\ f # n
        /\ ch[f] = Empty /\ OneWritten(ch, ch', n, j, f)
    BY <1>1, <1>2, <1>4, <1>5, CasWinLinks DEF OneWritten
  <2> HIDE DEF n, j, f
  <2>2. \A d \in Depth :
          \/ Path(ch', pg)[d] = Path(ch, pg)[d]
          \/ Path(ch, pg)[d] = Null /\ Path(ch', pg)[d] = f
    BY <1>3, <2>1, PathGrows
  <2> QED
    BY <1>3, <2>2 DEF f
<1>7. v # Null => v \in heap /\ lev[v] = Levels - 1
  BY <1>3, PathIn
<1>8. \A m \in Node, k \in Slot :
        ch'[m][k] = IF m = cur[t] /\ k = Idx(t) THEN fresh[t] ELSE ch[m][k]
  BY <1>2, CasWinLinks
<1> HIDE DEF v, w, i
<1>9. i \in Slot
  BY <1>3 DEF i
<1>10. CASE w = v
  <2>1. v # Null => ch'[v][i] = ch[v][i]
    <3>1. SUFFICES ASSUME v # Null PROVE ch'[v][i] = ch[v][i]
      OBVIOUS
    <3>2. v # cur[t]
      BY <1>4, <1>7, <3>1, TrieAssumption
    <3> QED
      BY <1>3, <1>7, <1>8, <1>9, <3>1, <3>2
  <2> QED
    BY <1>10, <2>1 DEF ValueAt, v, w, i
<1>11. CASE v = Null /\ w = fresh[t]
  <2>1. ch'[w][i] = ch[fresh[t]][i]
    BY <1>4, <1>5, <1>8, <1>9, <1>11
  <2>2. ch[fresh[t]][i] = Null
    BY <1>4, <1>9 DEF Empty
  <2> QED
    BY <1>11, <2>1, <2>2 DEF ValueAt, v, w, i
<1> QED
  BY <1>6, <1>10, <1>11

\* Writing a leaf slot changes the value of the page of the call, and of no
\* other.
LEMMA LeafWriteMap ==
  ASSUME IInv, NEW t \in Threads, AtLeaf(t), NEW v \in Values \cup {Null},
         ch' = [ch EXCEPT ![cur[t]][Idx(t)] = v], NEW pg \in Pages
  PROVE  ValueAt(ch', pg) = IF pg = call[t].pg THEN v ELSE ValueAt(ch, pg)
<1>1. pc[t] # "idle" /\ depth[t] = Levels - 1
  BY DEF AtLeaf
<1>2. PICK lev \in [Node -> Depth] : Grown(lev)
  BY <1>1, HasLevels
<1>3. /\ Tree(ch, heap, lev) /\ OneParent(ch, heap) /\ Levels - 1 \in Depth
      /\ level_idx(pg, Levels - 1) \in Slot
  BY <1>2, TrieAssumption, PagesAssumption DEF Grown, Depth
<1>4. /\ cur[t] \in heap /\ call[t].pg \in Pages /\ Idx(t) \in Slot
      /\ Path(ch, call[t].pg)[Levels - 1] = cur[t]
  BY <1>1, <1>2, Here
<1>5. cur[t] # Null
  BY <1>4, TrieAssumption DEF IInv, TypeOK
<1>6. /\ KeepsInner(ch, ch', heap, lev)
      /\ \A m \in heap, j \in Slot :
           ch'[m][j] = IF m = cur[t] /\ j = Idx(t) THEN v ELSE ch[m][j]
  BY <1>2, LeafWriteInner
<1>7. \A p \in Pages : Path(ch', p)[Levels - 1] = Path(ch, p)[Levels - 1]
  BY <1>3, <1>6, PathSame
<1>8. Idx(t) = level_idx(call[t].pg, Levels - 1)
  BY <1>1 DEF Idx
<1>9. CASE pg = call[t].pg
  <2>1. Path(ch', pg)[Levels - 1] = cur[t] /\ level_idx(pg, Levels - 1) = Idx(t)
    BY <1>4, <1>7, <1>8, <1>9
  <2>2. ch'[cur[t]][Idx(t)] = v
    BY <1>4, <1>6
  <2> QED
    BY <1>5, <1>9, <2>1, <2>2 DEF ValueAt
<1>10. CASE pg # call[t].pg
  <2> DEFINE w == Path(ch, pg)[Levels - 1]
             i == level_idx(pg, Levels - 1)
             q == call[t].pg
  <2>1. w # Null => w \in heap
    BY <1>3, PathIn
  <2>2. ~(w = cur[t] /\ i = Idx(t))
    <3>1. SUFFICES ASSUME w = cur[t], i = Idx(t) PROVE FALSE
      OBVIOUS
    <3>2. \A e \in Depth : e < Levels - 1 => level_idx(pg, e) = level_idx(q, e)
      BY <1>3, <1>4, <1>5, <3>1, PathInj
    <3>3. level_idx(pg, Levels - 1) = level_idx(q, Levels - 1)
      BY <1>8, <3>1
    <3>4. \A e \in Depth : e < Levels - 1 \/ e = Levels - 1
      BY TrieAssumption DEF Depth
    <3>5. \A e \in Depth : level_idx(pg, e) = level_idx(q, e)
      BY <3>2, <3>3, <3>4
    <3> QED
      BY <1>4, <1>10, <3>5, PagesAssumption
  <2> HIDE DEF w, i
  <2>3. w # Null => ch'[w][i] = ch[w][i]
    BY <1>3, <1>6, <2>1, <2>2 DEF i
  <2> QED
    BY <1>7, <1>10, <2>3 DEF ValueAt, w, i
<1> QED
  BY <1>9, <1>10

\* The map in terms of ValueAt, before and after a step.
LEMMA MapIs ==
  /\ map = [pg \in Pages |-> ValueAt(ch, pg)]
  /\ map' = [pg \in Pages |-> ValueAt(ch', pg)]
  BY DEF map, ValueAt, LeafOf

\* Where the walk of a call ends at a missing child its page has no value.
LEMMA MissingIsNull ==
  ASSUME IInv, NEW t \in Threads, Missing(t)
  PROVE  ValueAt(ch, call[t].pg) = Null
<1>1. pc[t] # "idle" /\ depth[t] < Levels - 1 /\ Child(t) = Null
  BY DEF Missing, Inner
<1>2. PICK lev \in [Node -> Depth] : Grown(lev)
  BY <1>1, HasLevels
<1>3. depth[t] \in Depth /\ Path(ch, call[t].pg)[depth[t]] = cur[t]
  BY <1>1, <1>2, Here
<1>4. /\ depth[t] + 1 \in Depth /\ Levels - 1 \in Depth /\ Levels - 1 >= depth[t] + 1
  BY <1>1, <1>3, TrieAssumption DEF Depth
<1>5. Path(ch, call[t].pg)[depth[t] + 1] = Null
  BY <1>1, <1>3, <1>4, PathDef DEF Child, Idx
<1>6. Path(ch, call[t].pg)[Levels - 1] = Null
  BY <1>4, <1>5, PathEnds
<1> QED
  BY <1>6 DEF ValueAt

\* A lookup that reaches its leaf slot reads the value of its page.
LEMMA LoadIsValue ==
  ASSUME IInv, NEW t \in Threads, AtLeaf(t)
  PROVE  ValueAt(ch, call[t].pg) = Child(t)
<1>1. pc[t] # "idle" /\ depth[t] = Levels - 1
  BY DEF AtLeaf
<1>2. PICK lev \in [Node -> Depth] : Grown(lev)
  BY <1>1, HasLevels
<1>3. Path(ch, call[t].pg)[Levels - 1] = cur[t] /\ cur[t] \in heap
  BY <1>1, <1>2, Here
<1>4. cur[t] # Null
  BY TrieAssumption DEF IInv, TypeOK
<1> QED
  BY <1>1, <1>3, <1>4 DEF ValueAt, Child, Idx

\* A step of the trie is a step of the map, or none.
LEMMA StepSimulates ==
  ASSUME IInv, NEW t \in Threads, Step(t)
  PROVE  \/ Abstract!Call(t) \/ Abstract!Insert(t) \/ Abstract!Clear(t) \/ Abstract!Lookup(t)
         \/ UNCHANGED <<map, call, ret>>
<1>1. UNCHANGED ch => UNCHANGED map
  BY MapIs
<1>2. pc[t] # "idle" => /\ call[t] # Null /\ call[t].pg \in Pages
                        /\ call[t].op \in {"insert", "clear", "lookup"}
  BY RequestFields DEF IInv, Shape
<1>3. CASE Call(t)
  <2>1. call[t] = Null
    BY <1>3 DEF IInv, Shape, Call
  <2>2. Abstract!Request = Request
    BY DEF Abstract!Request, Request
  <2>3. UNCHANGED <<map, ret>>
    BY <1>1, <1>3 DEF Call
  <2> QED
    BY <1>3, <2>1, <2>2, <2>3 DEF Call, Abstract!Call
<1>4. CASE Descend(t) \/ CasLose(t)
  BY <1>1, <1>4 DEF Descend, CasLose
<1>5. CASE Alloc(t)
  <2>1. UNCHANGED map
    BY <1>5, AllocSameMap, MapIs
  <2> QED
    BY <1>5, <2>1 DEF Alloc
<1>6. CASE CasWin(t)
  <2>1. UNCHANGED map
    BY <1>6, CasWinSameMap, MapIs
  <2> QED
    BY <1>6, <2>1 DEF CasWin
<1>7. CASE Oom(t)
  <2>1. pc[t] # "idle" /\ Op(t) = "insert" /\ OomMayHappen
    BY <1>7 DEF Oom, Inner
  <2>2. call' = [call EXCEPT ![t] = Null] /\ UNCHANGED <<map, ret>>
    BY <1>1, <1>7 DEF Oom, Return
  <2> QED
    BY <1>2, <2>1, <2>2 DEF Abstract!Insert, Abstract!Finish, Op
<1>8. CASE Missing(t)
  <2>1. pc[t] # "idle" /\ Op(t) # "insert"
    BY <1>8 DEF Missing, Inner
  <2>2. call' = [call EXCEPT ![t] = Null] /\ UNCHANGED map
    BY <1>1, <1>8 DEF Missing, Return
  <2>3. map[call[t].pg] = Null
    BY <1>2, <1>8, <2>1, MissingIsNull, MapIs
  <2>4. CASE Op(t) = "lookup"
    <3>1. ret' = [ret EXCEPT ![t] = map[call[t].pg]]
      BY <1>8, <2>3, <2>4 DEF Missing
    <3> QED
      BY <1>2, <2>1, <2>2, <2>4, <3>1 DEF Abstract!Lookup, Abstract!Finish, Op
  <2>5. CASE Op(t) = "clear"
    <3>1. ret' = ret
      BY <1>8, <2>5 DEF Missing
    <3>2. map' = [map EXCEPT ![call[t].pg] = Null]
      BY <2>2, <2>3 DEF map
    <3> QED
      BY <1>2, <2>1, <2>2, <2>5, <3>1, <3>2 DEF Abstract!Clear, Abstract!Finish, Op
  <2> QED
    BY <1>2, <2>1, <2>4, <2>5 DEF Op
<1>9. CASE LoadLeaf(t)
  <2>1. pc[t] # "idle" /\ Op(t) = "lookup" /\ AtLeaf(t)
    BY <1>9 DEF LoadLeaf, AtLeaf
  <2>2. call' = [call EXCEPT ![t] = Null] /\ UNCHANGED map
    BY <1>1, <1>9 DEF LoadLeaf, Return
  <2>3. map[call[t].pg] = Child(t)
    BY <1>2, <2>1, LoadIsValue, MapIs
  <2>4. ret' = [ret EXCEPT ![t] = map[call[t].pg]]
    BY <1>9, <2>3 DEF LoadLeaf
  <2> QED
    BY <1>2, <2>1, <2>2, <2>4 DEF Abstract!Lookup, Abstract!Finish, Op
<1>10. ASSUME NEW v \in Values \cup {Null}, AtLeaf(t), ch' = [ch EXCEPT ![cur[t]][Idx(t)] = v]
      PROVE  map' = [map EXCEPT ![call[t].pg] = v]
  <2>1. call[t].pg \in Pages
    BY <1>2, <1>10 DEF AtLeaf
  <2>2. \A pg \in Pages : ValueAt(ch', pg) = IF pg = call[t].pg THEN v ELSE ValueAt(ch, pg)
    BY <1>10, LeafWriteMap
  <2> QED
    BY <2>1, <2>2, MapIs
<1>11. CASE StoreLeaf(t)
  <2>1. pc[t] # "idle" /\ Op(t) = "insert"
    BY <1>11 DEF StoreLeaf, AtLeaf
  <2>2. call[t].val \in Values
    BY <2>1, RequestFields DEF IInv, Shape, Op
  <2>3. map' = [map EXCEPT ![call[t].pg] = call[t].val]
    BY <1>10, <1>11, <2>2 DEF StoreLeaf
  <2>4. call' = [call EXCEPT ![t] = Null] /\ UNCHANGED ret
    BY <1>11 DEF StoreLeaf, Return
  <2> QED
    BY <1>2, <2>1, <2>3, <2>4 DEF Abstract!Insert, Abstract!Finish, Op
<1>12. CASE ClearLeaf(t)
  <2>1. pc[t] # "idle" /\ Op(t) = "clear"
    BY <1>12 DEF ClearLeaf, AtLeaf
  <2>2. map' = [map EXCEPT ![call[t].pg] = Null]
    BY <1>10, <1>12 DEF ClearLeaf
  <2>3. call' = [call EXCEPT ![t] = Null] /\ UNCHANGED ret
    BY <1>12 DEF ClearLeaf, Return
  <2> QED
    BY <1>2, <2>1, <2>2, <2>3 DEF Abstract!Clear, Abstract!Finish, Op
<1> QED
  BY <1>3, <1>4, <1>5, <1>6, <1>7, <1>8, <1>9, <1>11, <1>12 DEF Step

\* Concurrent insertions, removals and lookups of single pages (insert_leaf,
\* clear_leaf, lookup_page_with_slot) behave as if each took effect on a plain
\* map from pages to values at one moment: none is lost to a racing one.
THEOREM TrieImplementsMap == Spec => Implements
<1>1. ASSUME Init PROVE Abstract!Init
  <2>1. ASSUME NEW pg \in Pages PROVE ValueAt(ch, pg) = Null
    <3>1. \A n \in Node, i \in Slot : ch[n][i] = Null
      BY <1>1 DEF Init, Empty
    <3>2. Levels - 1 \in Depth /\ level_idx(pg, Levels - 1) \in Slot
      BY TrieAssumption, PagesAssumption DEF Depth
    <3>3. IInv /\ Root \in heap
      BY <1>1, InitIInv DEF Init
    <3>4. PICK lev \in [Node -> Depth] : Grown(lev)
      BY <3>3, HasLevels
    <3>5. Path(ch, pg)[Levels - 1] # Null => Path(ch, pg)[Levels - 1] \in Node
      BY <3>2, <3>4, PathIn DEF Grown, Tree
    <3> QED
      BY <3>1, <3>2, <3>5 DEF ValueAt
  <2>2. map = [pg \in Pages |-> Null]
    BY <2>1, MapIs
  <2> QED
    BY <1>1, <2>2 DEF Init, Abstract!Init
<1>2. ASSUME IInv, [Next]_vars PROVE [Abstract!Next]_<<map, call, ret>>
  <2>1. ASSUME NEW t \in Threads, Step(t) PROVE [Abstract!Next]_<<map, call, ret>>
    BY <1>2, <2>1, StepSimulates DEF Abstract!Next
  <2>2. CASE destroy_subtree \/ UNCHANGED vars
    <3>1. UNCHANGED <<ch, call, ret>>
      BY <2>2 DEF destroy_subtree, vars
    <3>2. UNCHANGED map
      BY <3>1, MapIs
    <3> QED
      BY <3>1, <3>2
  <2> QED
    BY <1>2, <2>1, <2>2 DEF Next
<1> QED
  BY <1>1, <1>2, TrieInvariant, PTL DEF Spec, Implements, Abstract!Spec, Abstract!vars

====
