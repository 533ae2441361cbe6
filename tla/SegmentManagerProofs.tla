---- MODULE SegmentManagerProofs ----
(***************************************************************************)
(* Proofs about allocation and growth of a named memory, for any number of *)
(* processes and threads, any sizes, failing mappings, processes that are  *)
(* killed, close and attach again: as long as the threads that allocate    *)
(* belong to one process and no request makes the size of the file wrap,   *)
(* all processes map one layout, the table publishes finished heaps, blocks*)
(* are neither lost nor given out twice, and get() finds every one.        *)
(*                                                                         *)
(* Without the two conditions the code does not hold to it: see the run    *)
(* peers_overlay and SegmentManagerHuge.                                   *)
(***************************************************************************)
EXTENDS SegmentManager, WellFoundedInduction, TLAPS

\* One process allocates and grows.
OneGrower == \E g \in Proc : \A t \in Allocators : AppProc[t] = g

Grower == CHOOSE g \in Proc : \A t \in Allocators : AppProc[t] = g

\* The bytes that allocations may ask for, and what grow is then called with.
Requests == Sizes \cup {(n * SizeofT) % Word : n \in Counts}

Needs ==
  Sizes \cup {kMinSegmentSize} \cup {(n + kMinSegmentSize) % Word : n \in Requests}

\* No growth for such a request makes the size of the file wrap.
NothingHuge ==
  /\ 3 * Limit + PageSize < Word
  /\ \A n \in Needs : n + Limit + PageSize < Word

\* What the theorems assume: the memory is a named file, and the above.
Moderate == Kinds \subseteq {"linked"} /\ OneGrower /\ NothingHuge

----------------------------------------------------------------------------
(* The inductive invariant. L is the layout: all sub-segments of the file, *)
(* of which every list and the table hold a first part.                    *)

Segments == [off : Nat, size : Nat \ {0}]

End(s) == s[Len(s)].off + s[Len(s)].size

Prefix(s, L) == Len(s) <= Len(L) /\ \A i \in 1..Len(s) : s[i] = L[i]

\* Sub-segments follow each other from the start of the file.
Contiguous(L) ==
  /\ L \in Seq(Segments) /\ Len(L) > 0
  /\ L[1].off = 0
  /\ \A i \in 1..Len(L) : i # 1 => L[i].off = L[i - 1].off + L[i - 1].size

\* Sub-segment k of the layout has the block.
Holds(L, k, b) == L[k].off = b.off /\ b.at < L[k].size

Locals ==
  [ask : Nat, bytes : Nat, op : {"none", "alloc", "grow"}, grown : BOOLEAN, i : Nat,
   cur : Nat, chunk : Nat, blk : Block]

Heap == [size : Nat, blocks : SUBSET [at : Nat, len : Nat \ {0}], ended : BOOLEAN]

Types ==
  /\ segs \in [Proc -> Seq(Segments)]
  /\ list_mtx \in [Proc -> Thread \cup {None}]
  /\ grow_mtx \in [Proc -> Thread \cup {None}]
  /\ DOMAIN hinted = Proc
  /\ attached \in [Proc -> BOOLEAN]
  /\ name \in {"linked", "unlinked"}
  /\ fileSize \in Nat
  /\ tbl \in [count : Nat, entries : Seq(Segments), mtx : Thread \cup {None}]
  /\ \A o \in DOMAIN heap : heap[o] \in Heap
  /\ live \subseteq Block
  /\ pc \in [Thread -> PCs]
  /\ loc \in [Thread -> Locals]
  /\ outcome \in [App -> Outcomes \ {"null"}]

\* The file, the table and the lists.
Layout(L) ==
  /\ Contiguous(L)
  /\ End(L) <= fileSize /\ fileSize <= Limit
  /\ DOMAIN heap = {L[i].off : i \in 1..Len(L)}
  /\ \A i \in 1..Len(L) : heap[L[i].off].size = L[i].size
  /\ \A p \in Proc : Prefix(segs[p], L)
  /\ \A p \in Proc : p # Grower => Len(segs[p]) <= tbl.count
  /\ Prefix(tbl.entries, L)
  /\ tbl.count > 0 /\ tbl.count <= Len(tbl.entries)

\* How far update_segment_table is: the layout is longer than what is
\* published only while a thread is in it.
Updating == {"tblEntry", "tblCount"}

Progress(L) ==
  /\ (\A t \in Thread : pc[t] \notin Updating) =>
       Len(L) = tbl.count /\ Len(tbl.entries) = tbl.count
  /\ \A t \in Thread :
       /\ pc[t] = "tblEntry" => Len(L) = tbl.count + 1 /\ Len(tbl.entries) = tbl.count
       /\ pc[t] = "tblCount" => Len(L) = tbl.count + 1 /\ Len(tbl.entries) = Len(L)
  /\ attached[Grower] => Len(segs[Grower]) = Len(L)

\* Managers that are constructed have sub-segment 0; only the worker of the
\* growing process is given hints.
Managers ==
  \A p \in Proc : /\ attached[p] => Len(segs[p]) > 0
                  /\ hinted[p] => attached[p] /\ p = Grower

\* A constructor or destructor runs alone in its process.
Alone ==
  \A t, u \in Thread :
    t # u /\ P(t) = P(u) /\ pc[t] \in {"attach", "close"} => pc[u] = "idle"

\* Where thread t can be, and the locks it holds there.
Growing == {"growCheck", "bgCheck", "growFile", "growAdd", "tblEntry", "tblCount"}
Listing == {"scan", "hint", "discAdd", "tblEntry", "tblCount"}
Growers == Growing \cup {"scan", "hint", "rescan", "growLock"}

Placed(t) ==
  /\ pc[t] \notin {"idle", "attach", "close"} => attached[P(t)]
  /\ pc[t] \in {"attach", "close"} => ~attached[P(t)] /\ Len(segs[P(t)]) > 0
  /\ pc[t] \in Growers => P(t) = Grower
  /\ pc[t] \in Growing => grow_mtx[P(t)] = t
  /\ pc[t] \in Listing => list_mtx[P(t)] = t
  /\ t \in Proc => pc[t] \in Growing \cup {"idle"} /\ loc[t].op # "alloc"

\* What the call of t knows.
Aware(L, t) ==
  /\ t \in App /\ pc[t] \in Growers => MinBytes(t) \in Needs
  /\ pc[t] \in {"scan", "hint", "rescan"} => loc[t].op = "alloc" /\ t \in App
  /\ pc[t] = "scan" => loc[t].i > 0
  /\ pc[t] \in {"growFile", "growAdd"} =>
       loc[t].cur = End(L) /\ loc[t].chunk > 0 /\ loc[t].cur + loc[t].chunk < Word
  /\ pc[t] = "growAdd" => loc[t].cur + loc[t].chunk = fileSize
  /\ pc[t] \in {"attach", "discAdd"} => loc[t].i <= tbl.count
  /\ pc[t] = "attach" /\ P(t) = Grower => loc[t].i = tbl.count
  /\ pc[t] = "disc" => \E k \in 1..tbl.count : Holds(L, k, loc[t].blk)
  /\ pc[t] = "discAdd" => \E k \in 1..loc[t].i : Holds(L, k, loc[t].blk)
  /\ pc[t] = "find" => \E k \in 1..Len(segs[P(t)]) : Holds(L, k, loc[t].blk)

\* The blocks of a heap lie in it, apart from each other.
Packed(h) ==
  /\ \A x \in h.blocks : x.at + x.len <= h.size
  /\ \A x, y \in h.blocks : x # y => x.at + x.len <= y.at \/ y.at + y.len <= x.at

\* Block b is one of the heap at its offset.
Known(b) == b.off \in DOMAIN heap /\ [at |-> b.at, len |-> b.len] \in heap[b.off].blocks

SameBlock(b, c) == b.off = c.off /\ b.at = c.at /\ b.len = c.len

\* The block that t is freeing is there, and is nobody else's.
Frees(t) ==
  pc[t] = "free" =>
    /\ Known(loc[t].blk)
    /\ \A b \in live : ~SameBlock(b, loc[t].blk)
    /\ \A u \in Thread : pc[u] = "free" /\ u # t => ~SameBlock(loc[u].blk, loc[t].blk)

Blocks(L) ==
  /\ \A o \in DOMAIN heap : Packed(heap[o])
  /\ \A b \in live : Known(b) /\ \E k \in 1..tbl.count : Holds(L, k, b)
  /\ \A b, c \in live : SameBlock(b, c) => b = c
  /\ \A t \in Thread : Frees(t)

Inv(L) ==
  /\ Types
  /\ Layout(L)
  /\ Progress(L)
  /\ Managers
  /\ Alone
  /\ \A t \in Thread : Placed(t) /\ Aware(L, t)
  /\ Blocks(L)

IInv == \E L : Inv(L)

----------------------------------------------------------------------------
(* Layouts.                                                                *)

\* Induction over the natural numbers, for a set.
LEMMA NatInduct ==
  ASSUME NEW S, 0 \in S, \A n \in Nat : n \in S => n + 1 \in S
  PROVE  Nat \subseteq S
<1>1. SUFFICES ASSUME Nat \ S # {} PROVE FALSE
  OBVIOUS
<1> DEFINE R == OpToRel(<, Nat)
<1>2. IsWellFoundedOn(R, Nat)
  BY NatLessThanWellFounded
<1> HIDE DEF R
<1>3. PICK x \in Nat \ S : \A y \in Nat \ S : <<y, x>> \notin R
  BY <1>1, <1>2, WFMin
<1>4. \A y \in Nat : y < x => <<y, x>> \in R
  BY DEF R, OpToRel
<1>5. x # 0 /\ x - 1 \in Nat /\ x - 1 < x
  OBVIOUS
<1>6. x - 1 \in S
  BY <1>3, <1>4, <1>5
<1> QED
  BY <1>5, <1>6

\* The sub-segments of a layout are numbers.
LEMMA LayoutTypes ==
  ASSUME NEW L, Contiguous(L)
  PROVE  /\ Len(L) \in Nat \ {0}
         /\ \A i \in 1..Len(L) : L[i] \in Segments /\ L[i].off \in Nat /\ L[i].size \in Nat \ {0}
         /\ End(L) \in Nat
<1>1. L \in Seq(Segments) /\ Len(L) \in Nat \ {0}
  BY DEF Contiguous
<1>2. \A i \in 1..Len(L) : L[i] \in Segments
  BY <1>1
<1>3. \A x \in Segments : x.off \in Nat /\ x.size \in Nat \ {0}
  BY DEF Segments
<1>4. \A i \in 1..Len(L) : L[i].off \in Nat /\ L[i].size \in Nat \ {0}
  BY <1>2, <1>3
<1>5. Len(L) \in 1..Len(L)
  BY <1>1
<1> QED
  BY <1>1, <1>2, <1>4, <1>5 DEF End

\* Each sub-segment lies behind those before it.
LEMMA Later ==
  ASSUME NEW L, Contiguous(L)
  PROVE  \A i, j \in 1..Len(L) : i < j => L[i].off + L[i].size <= L[j].off
<1> DEFINE Ok(j) == \A i \in 1..Len(L) : i < j => L[i].off + L[i].size <= L[j].off
           T == {n \in Nat : n + 1 \in 1..Len(L) => Ok(n + 1)}
<1>1. Len(L) \in Nat \ {0} /\ \A i \in 1..Len(L) : L[i].off \in Nat /\ L[i].size \in Nat
  BY LayoutTypes
<1>2. 0 \in T
  BY <1>1
<1>3. ASSUME NEW n \in Nat, n \in T PROVE n + 1 \in T
  <2>1. SUFFICES ASSUME n + 2 \in 1..Len(L), NEW i \in 1..Len(L), i < n + 2
                 PROVE  L[i].off + L[i].size <= L[n + 2].off
    OBVIOUS
  <2>2. n + 1 \in 1..Len(L) /\ n + 2 # 1 /\ (n + 2) - 1 = n + 1
    BY <1>1, <2>1
  <2>3. L[n + 2].off = L[n + 1].off + L[n + 1].size
    BY <2>1, <2>2 DEF Contiguous
  <2>4. i = n + 1 \/ (i < n + 1 /\ L[i].off + L[i].size <= L[n + 1].off)
    BY <1>1, <1>3, <2>1, <2>2
  <2> QED
    BY <1>1, <2>1, <2>2, <2>3, <2>4
<1> HIDE DEF T
<1>4. \A n \in Nat : n \in T
  BY <1>2, <1>3, NatInduct
<1>5. ASSUME NEW j \in 1..Len(L) PROVE Ok(j)
  <2>1. j - 1 \in Nat /\ (j - 1) + 1 = j
    BY <1>1
  <2> QED
    BY <1>4, <2>1 DEF T
<1> QED
  BY <1>5

\* No sub-segment reaches beyond the end.
LEMMA Within ==
  ASSUME NEW L, Contiguous(L), NEW i \in 1..Len(L)
  PROVE  L[i].off + L[i].size <= End(L)
<1>1. /\ Len(L) \in 1..Len(L)
      /\ \A j \in 1..Len(L) : L[j].off \in Nat /\ L[j].size \in Nat
  BY LayoutTypes
<1>2. i = Len(L) \/ L[i].off + L[i].size <= L[Len(L)].off
  BY <1>1, Later
<1> DEFINE a == L[i].off + L[i].size
           x == L[Len(L)].off
           z == L[Len(L)].size
<1>3. a \in Nat /\ x \in Nat /\ z \in Nat /\ (a = x + z \/ a <= x)
  BY <1>1, <1>2
<1>4. End(L) = x + z
  BY DEF End
<1> HIDE DEF a, x, z
<1>5. a <= End(L)
  BY <1>3, <1>4
<1> QED
  BY <1>5 DEF a

\* Different sub-segments start at different offsets.
LEMMA OneStart ==
  ASSUME NEW L, Contiguous(L), NEW i \in 1..Len(L), NEW j \in 1..Len(L),
         L[i].off = L[j].off
  PROVE  i = j
<1>1. \A k \in 1..Len(L) : L[k].off \in Nat /\ L[k].size \in Nat \ {0}
  BY LayoutTypes
<1>2. ~(i < j) /\ ~(j < i)
  BY <1>1, Later
<1> QED
  BY <1>2, LayoutTypes

\* A list that is a first part of the layout maps the file up to the end of
\* its last sub-segment.
LEMMA MappedIs ==
  ASSUME NEW L, Contiguous(L), NEW s, s \in Seq(Segments), Prefix(s, L)
  PROVE  /\ Len(s) = 0 => Mapped(s) = 0
         /\ Len(s) > 0 => Mapped(s) = L[Len(s)].off + L[Len(s)].size
<1> DEFINE Sums(f) == f = [i \in 0..Len(s) |-> IF i = 0 THEN 0 ELSE f[i - 1] + s[i].size]
           w == [i \in 0..Len(s) |-> IF i = 0 THEN 0 ELSE L[i].off + L[i].size]
           sum == CHOOSE f : Sums(f)
<1>1. Len(s) \in Nat /\ Len(L) \in Nat \ {0} /\ Len(s) <= Len(L)
  BY LayoutTypes DEF Prefix
<1>2. \A i \in 1..Len(s) : s[i] = L[i] /\ L[i].off \in Nat /\ L[i].size \in Nat
  BY <1>1, LayoutTypes DEF Prefix
<1>3. Mapped(s) = sum[Len(s)]
  BY DEF Mapped
<1>4. ASSUME NEW i \in 0..Len(s)
      PROVE  w[i] = IF i = 0 THEN 0 ELSE w[i - 1] + s[i].size
  <2>1. CASE i = 0
    BY <2>1
  <2>2. CASE i = 1
    <3>1. L[1].off = 0 /\ w[0] = 0 /\ w[1] = L[1].off + L[1].size /\ s[1] = L[1]
      BY <1>1, <1>2, <2>2 DEF Contiguous
    <3> QED
      BY <1>1, <1>2, <2>2, <3>1
  <2>3. CASE i > 1
    <3>1. i \in 1..Len(L) /\ i # 1 /\ i - 1 \in 0..Len(s) /\ i - 1 # 0 /\ i \in 1..Len(s)
      BY <1>1, <2>3
    <3>2. L[i].off = L[i - 1].off + L[i - 1].size
      BY <3>1 DEF Contiguous
    <3>3. w[i - 1] = L[i - 1].off + L[i - 1].size /\ w[i] = L[i].off + L[i].size
      BY <3>1
    <3> QED
      BY <1>2, <2>3, <3>1, <3>2, <3>3
  <2> QED
    BY <1>1, <2>1, <2>2, <2>3
<1>5. Sums(sum)
  <2>1. Sums(w)
    BY <1>4
  <2> QED
    BY <2>1
<1>6. Len(s) > 0 => w[Len(s)] = L[Len(s)].off + L[Len(s)].size
  BY <1>1
<1> HIDE DEF sum, w
<1>7. /\ sum[0] = 0 /\ \A i \in 1..Len(s) : sum[i] = sum[i - 1] + s[i].size
      /\ w[0] = 0 /\ \A i \in 1..Len(s) : w[i] = w[i - 1] + s[i].size
  <2>1. 0 \in 0..Len(s) /\ \A i \in 1..Len(s) : i \in 0..Len(s) /\ i # 0
    BY <1>1
  <2>2. sum[0] = 0 /\ \A i \in 1..Len(s) : sum[i] = sum[i - 1] + s[i].size
    BY <1>5, <2>1
  <2>3. w[0] = 0 /\ \A i \in 1..Len(s) : w[i] = w[i - 1] + s[i].size
    BY <1>4, <2>1
  <2> QED
    BY <2>2, <2>3
<1> DEFINE T == {n \in Nat : n <= Len(s) => sum[n] = w[n]}
<1>8. 0 \in T
  BY <1>7
<1>9. ASSUME NEW n \in Nat, n \in T PROVE n + 1 \in T
  <2>1. SUFFICES ASSUME n + 1 <= Len(s) PROVE sum[n + 1] = w[n + 1]
    OBVIOUS
  <2>2. n + 1 \in 1..Len(s) /\ (n + 1) - 1 = n /\ sum[n] = w[n]
    BY <1>1, <1>9, <2>1
  <2> QED
    BY <1>7, <2>2
<1> HIDE DEF T
<1>10. \A n \in Nat : n \in T
  BY <1>8, <1>9, NatInduct
<1>11. sum[Len(s)] = w[Len(s)]
  BY <1>1, <1>10 DEF T
<1> QED
  BY <1>1, <1>3, <1>6, <1>7, <1>11

\* A block of sub-segment k is in what a list maps exactly if the list has
\* sub-segment k.
LEMMA HeldIn ==
  ASSUME NEW L, Contiguous(L), NEW s, s \in Seq(Segments), Prefix(s, L),
         NEW k \in 1..Len(L), NEW b, b.off \in Nat, b.at \in Nat, Holds(L, k, b)
  PROVE  /\ b.off + b.at < Mapped(s) <=> k <= Len(s)
         /\ k <= Len(s) => Contains(s, b.off + b.at)
<1>1. Len(s) \in Nat /\ Len(L) \in Nat \ {0} /\ Len(s) <= Len(L)
  BY LayoutTypes DEF Prefix
<1>2. \A i \in 1..Len(L) : L[i].off \in Nat /\ L[i].size \in Nat \ {0}
  BY LayoutTypes
<1>3. b.off = L[k].off /\ b.at < L[k].size
  BY DEF Holds
<1>4. CASE k <= Len(s)
  <2>1. Len(s) \in 1..Len(L) /\ k \in 1..Len(s) /\ Mapped(s) = L[Len(s)].off + L[Len(s)].size
    BY <1>1, <1>4, MappedIs
  <2>2. k = Len(s) \/ L[k].off + L[k].size <= L[Len(s)].off
    BY <1>1, <1>4, <2>1, Later
  <2>3. s[k].off = L[k].off /\ s[k].size = L[k].size
    BY <2>1 DEF Prefix
  <2>4. b.off + b.at < Mapped(s)
    <3>1. Len(s) \in 1..Len(L) /\ L[k].off \in Nat /\ L[k].size \in Nat
      BY <1>2, <2>1
    <3>2. L[Len(s)].off \in Nat /\ L[Len(s)].size \in Nat
      BY <1>2, <3>1
    <3>3. L[k].off + L[k].size <= Mapped(s)
      BY <2>1, <2>2, <3>1, <3>2
    <3>4. b.off + b.at < L[k].off + L[k].size
      BY <1>3, <3>1
    <3>5. Mapped(s) \in Nat
      BY <2>1, <3>2
    <3> QED
      BY <1>3, <3>1, <3>3, <3>4, <3>5
  <2>5. Contains(s, b.off + b.at)
    <3>1. s[k].off <= b.off + b.at /\ b.off + b.at < s[k].off + s[k].size
      BY <1>2, <1>3, <2>3
    <3> QED
      BY <2>1, <3>1 DEF Contains
  <2> QED
    BY <1>4, <2>4, <2>5
<1>5. CASE ~(k <= Len(s))
  <2>1. CASE Len(s) = 0
    <3>1. Mapped(s) = 0
      BY <2>1, MappedIs
    <3> QED
      BY <1>5, <3>1
  <2>2. CASE Len(s) > 0
    <3>1. Len(s) \in 1..Len(L) /\ Mapped(s) = L[Len(s)].off + L[Len(s)].size
      BY <1>1, <2>2, MappedIs
    <3>2. L[Len(s)].off + L[Len(s)].size <= L[k].off
      BY <1>1, <1>5, <3>1, Later
    <3> QED
      BY <1>2, <1>3, <1>5, <3>1, <3>2
  <2> QED
    BY <1>1, <2>1, <2>2
<1> QED
  BY <1>4, <1>5

\* M is the layout with one more sub-segment, e, behind it.
GrownBy(L, e, M) == e \in Segments /\ e.off = End(L) /\ M = Append(L, e)

\* It is a layout.
LEMMA Longer ==
  ASSUME NEW L, Contiguous(L), NEW e, NEW M, GrownBy(L, e, M)
  PROVE  /\ Contiguous(M) /\ Prefix(L, M) /\ Len(M) = Len(L) + 1
         /\ M[Len(L) + 1] = e
         /\ \A i \in 1..Len(L) : M[i] = L[i]
         /\ End(M) = End(L) + e.size
<1>1. Len(L) \in Nat \ {0} /\ End(L) \in Nat /\ L \in Seq(Segments)
  BY LayoutTypes DEF Contiguous
<1>2. e \in Segments /\ e.off = End(L)
  BY DEF GrownBy
<1>3. M = Append(L, e)
  BY DEF GrownBy
<1>4. M \in Seq(Segments) /\ Len(M) = Len(L) + 1 /\ M[Len(L) + 1] = e
  BY <1>1, <1>2, <1>3
<1>5. \A i \in 1..Len(L) : M[i] = L[i]
  BY <1>1, <1>2, <1>3
<1>6. M[1].off = 0
  BY <1>1, <1>5 DEF Contiguous
<1>7. ASSUME NEW i \in 1..Len(M), i # 1 PROVE M[i].off = M[i - 1].off + M[i - 1].size
  <2>1. CASE i = Len(L) + 1
    <3>1. Len(L) \in 1..Len(L) /\ i - 1 = Len(L)
      BY <1>1, <2>1
    <3>2. M[i - 1] = L[Len(L)] /\ M[i] = e
      BY <1>4, <1>5, <2>1, <3>1
    <3> QED
      BY <1>2, <3>2 DEF End
  <2>2. CASE i # Len(L) + 1
    <3>1. i \in 1..Len(L) /\ i - 1 \in 1..Len(L)
      BY <1>1, <1>4, <1>7, <2>2
    <3> QED
      BY <1>5, <1>7, <3>1 DEF Contiguous
  <2> QED
    BY <2>1, <2>2
<1> QED
  BY <1>1, <1>2, <1>4, <1>5, <1>6, <1>7 DEF Contiguous, Prefix, End

----------------------------------------------------------------------------
(* Constants and sizes.                                                    *)

\* The sizes are numbers.
LEMMA Numbers ==
  /\ Word \in Nat \ {0} /\ Limit \in Nat \ {0} /\ PageSize \in Nat \ {0}
  /\ kMinSegmentSize \in Nat \ {0} /\ InitialSize \in Nat \ {0}
  /\ SizeofT \in Nat \ {0} /\ Header \in Nat
  /\ Sizes \subseteq Nat \ {0} /\ Counts \subseteq Nat \ {0}
  /\ Limit < Word /\ InitialSize <= Limit /\ kMinSegmentSize <= Limit
<1>1. Word \in Nat /\ Limit < Word /\ InitialSize <= Limit /\ kMinSegmentSize <= Limit
  BY LimitAssumption
<1> QED
  BY <1>1, SizeAssumption

\* Each thread has a process.
LEMMA Threads ==
  /\ \A t \in Thread : P(t) \in Proc
  /\ \A p \in Proc : p \in Thread /\ P(p) = p
  /\ \A t \in App : t \in Thread /\ t \notin Proc /\ P(t) = AppProc[t]
  /\ None \notin Thread /\ None \notin Proc
BY ThreadAssumption DEF Thread, P

\* The threads that allocate are those of the growing process.
LEMMA GrowerIs ==
  ASSUME OneGrower
  PROVE  Grower \in Proc /\ \A t \in Allocators : t \in App /\ P(t) = Grower
<1>1. Grower \in Proc /\ \A t \in Allocators : AppProc[t] = Grower
  BY DEF OneGrower, Grower
<1> QED
  BY <1>1, Threads, ThreadAssumption

\* What is asked for, and what growth is needed for it.
LEMMA Asked ==
  /\ \A n \in Sizes : n \in Requests /\ n \in Needs /\ n \in Nat
  /\ \A n \in Counts : /\ n * SizeofT \in Nat
                       /\ (n * SizeofT) % Word \in Requests
                       /\ (n * SizeofT) % Word \in Nat
  /\ \A n \in Requests : (n + kMinSegmentSize) % Word \in Needs
  /\ kMinSegmentSize \in Needs
  /\ Needs \subseteq Nat
<1>1. ASSUME NEW n \in Counts PROVE n * SizeofT \in Nat /\ (n * SizeofT) % Word \in Nat
  <2> DEFINE b == n * SizeofT
  <2>1. b \in Nat
    BY Numbers
  <2> HIDE DEF b
  <2>2. b % Word \in Nat
    BY <2>1, Numbers
  <2> QED
    BY <2>1, <2>2 DEF b
<1>2. \A n \in Counts : (n * SizeofT) % Word \in Requests
  BY DEF Requests
<1>3. \A n \in Requests : n \in Nat
  BY <1>1, Numbers DEF Requests
<1>4. ASSUME NEW n \in Requests PROVE (n + kMinSegmentSize) % Word \in Nat
  <2>1. n + kMinSegmentSize \in Nat
    BY <1>3, Numbers
  <2> QED
    BY <2>1, Numbers
<1>5. Needs \subseteq Nat
  BY <1>4, Numbers DEF Needs
<1> QED
  BY <1>1, <1>2, <1>5, Numbers DEF Needs, Requests

\* A heap takes something for every request.
LEMMA UnitsAre ==
  ASSUME NEW n \in Nat
  PROVE  Units(n) \in Nat \ {0}
BY DEF Units, max

\* Rounding up to pages.
LEMMA Rounded ==
  ASSUME NEW n \in Nat, n + PageSize < Word
  PROVE  /\ align_up(n, PageSize) \in Nat
         /\ n <= align_up(n, PageSize) /\ align_up(n, PageSize) < n + PageSize
<1> DEFINE m == n + PageSize - 1
           q == m \div PageSize
           r == m % PageSize
<1>1. PageSize \in Nat \ {0} /\ Word \in Nat \ {0} /\ m \in Nat /\ m < Word
  BY Numbers
<1>2. m % Word = m
  <2> HIDE DEF m
  <2> QED
    BY <1>1
<1>3. align_up(n, PageSize) = q * PageSize
  BY <1>2 DEF align_up
<1>4. m = q * PageSize + r /\ q \in Nat /\ r \in 0..(PageSize - 1)
  <2> HIDE DEF m
  <2> QED
    BY <1>1
<1> HIDE DEF q, r
<1>5. q * PageSize \in Nat
  BY <1>1, <1>4
<1> DEFINE z == q * PageSize
<1> HIDE DEF z
<1>6. m = z + r /\ z \in Nat
  BY <1>4, <1>5 DEF z
<1>7. n <= z /\ z < n + PageSize
  BY <1>1, <1>4, <1>6
<1> QED
  BY <1>3, <1>6, <1>7 DEF z

\* The planned chunk fits the word, for a sub-segment of size z that ends at
\* or before e.
LEMMA Planned ==
  ASSUME NothingHuge, NEW n \in Needs, NEW z \in Nat \ {0}, NEW e \in Nat,
         z <= e, e <= Limit
  PROVE  LET chunk == align_up(max(n, z * kGrowMultiplier), PageSize)
         IN  chunk \in Nat /\ chunk > 0 /\ e + chunk < Word
<1> DEFINE m == max(n, z * kGrowMultiplier)
           chunk == align_up(m, PageSize)
<1>1. n \in Nat /\ Limit \in Nat /\ PageSize \in Nat \ {0} /\ Word \in Nat
  BY Asked, Numbers
<1>2. m \in Nat /\ m > 0 /\ (m = n \/ m = 2 * z)
  BY <1>1 DEF max, kGrowMultiplier
<1>3. n + Limit + PageSize < Word /\ 3 * Limit + PageSize < Word
  BY DEF NothingHuge
<1> HIDE DEF m
<1>4. m + Limit + PageSize < Word
  BY <1>1, <1>2, <1>3
<1>5. chunk \in Nat /\ m <= chunk /\ chunk < m + PageSize
  BY <1>1, <1>2, <1>4, Rounded
<1> HIDE DEF chunk
<1>6. chunk > 0 /\ e + chunk < Word
  BY <1>1, <1>2, <1>4, <1>5
<1> QED
  BY <1>5, <1>6 DEF chunk, m

----------------------------------------------------------------------------
(* Steps in general. The layout before is L, the one after M.              *)

\* Thread t takes the mutex of its process, or gives it back.
Lawful(m, m2, t) ==
  \/ m2 = m
  \/ (m[P(t)] = None \/ m[P(t)] = t) /\ \E v : m2 = [m EXCEPT ![P(t)] = v]

\* A step of t: the calls and the locks of the other threads stay.
StepOf(t) ==
  /\ \A u \in Thread \ {t} : pc'[u] = pc[u] /\ loc'[u] = loc[u]
  /\ Lawful(grow_mtx, grow_mtx', t)
  /\ Lawful(list_mtx, list_mtx', t)

\* Others keep their mutex.
LEMMA LockKept ==
  ASSUME NEW m, NEW m2, m \in [Proc -> Thread \cup {None}], NEW t \in Thread,
         Lawful(m, m2, t), NEW u \in Thread \ {t}, m[P(u)] = u
  PROVE  m2[P(u)] = u
<1>1. P(u) \in Proc /\ P(t) \in Proc /\ u # None
  BY Threads
<1> QED
  BY <1>1 DEF Lawful

\* What the step may do to the things that thread u relies on.
Respects(L, M, u) ==
  /\ pc[u] # "idle" => attached'[P(u)] = attached[P(u)]
  /\ pc[u] # "idle" => Len(segs'[P(u)]) >= Len(segs[P(u)])
  /\ pc[u] \in {"growFile", "growAdd"} => End(M) = End(L) /\ fileSize' = fileSize
  /\ pc[u] = "attach" /\ P(u) = Grower => tbl'.count = tbl.count

\* The layout and the table only grow.
Extends(L, M) ==
  /\ \A i \in 1..Len(L) : M[i] = L[i]
  /\ tbl.count <= tbl'.count

\* The other threads can go on with what they know.
LEMMA OthersKept ==
  ASSUME NEW L, NEW M, Inv(L), Types', NEW t \in Thread, StepOf(t), Extends(L, M),
         NEW u \in Thread \ {t}, Respects(L, M, u)
  PROVE  Placed(u)' /\ Aware(M, u)'
<1>1. Placed(u) /\ Aware(L, u) /\ Types /\ Layout(L)
  BY DEF Inv
<1>2. pc'[u] = pc[u] /\ loc'[u] = loc[u] /\ P(u) \in Proc
  BY Threads DEF StepOf
<1>3. grow_mtx[P(u)] = u => grow_mtx'[P(u)] = u
  <2>1. grow_mtx \in [Proc -> Thread \cup {None}] /\ Lawful(grow_mtx, grow_mtx', t)
    BY <1>1 DEF StepOf, Types
  <2> HIDE DEF Lawful
  <2> QED
    BY <2>1, LockKept
<1>4. list_mtx[P(u)] = u => list_mtx'[P(u)] = u
  <2>1. list_mtx \in [Proc -> Thread \cup {None}] /\ Lawful(list_mtx, list_mtx', t)
    BY <1>1 DEF StepOf, Types
  <2> HIDE DEF Lawful
  <2> QED
    BY <2>1, LockKept
<1>5. /\ Len(segs[P(u)]) \in Nat /\ Len(segs'[P(u)]) \in Nat
      /\ tbl.count \in Nat /\ tbl'.count \in Nat /\ loc[u].i \in Nat
      /\ Len(L) \in Nat
  <2>1. segs[P(u)] \in Seq(Segments) /\ segs'[P(u)] \in Seq(Segments)
    BY <1>1, <1>2 DEF Types
  <2>2. tbl.count \in Nat /\ tbl'.count \in Nat
    BY <1>1 DEF Types
  <2>3. loc[u] \in Locals
    BY <1>1 DEF Types
  <2>4. loc[u].i \in Nat
    BY <2>3 DEF Locals
  <2>5. Len(L) \in Nat
    BY <1>1, LayoutTypes DEF Layout
  <2>6. Len(segs[P(u)]) \in Nat /\ Len(segs'[P(u)]) \in Nat
    BY <2>1
  <2> QED
    BY <2>2, <2>4, <2>5, <2>6
<1>6. /\ tbl.count <= Len(L) /\ tbl.count <= tbl'.count
      /\ Len(segs[P(u)]) <= Len(L)
  <2>1. Len(tbl.entries) \in Nat
    BY <1>1 DEF Types
  <2> QED
    BY <1>1, <1>2, <1>5, <2>1 DEF Layout, Prefix, Extends
<1>7. Placed(u)'
  BY <1>1, <1>2, <1>3, <1>4, <1>5 DEF Placed, Respects, Growers, Growing, Listing
<1>8. MinBytes(u)' = MinBytes(u)
  BY <1>2 DEF MinBytes
<1>9. \A k \in 1..Len(L) : Holds(L, k, loc[u].blk) => Holds(M, k, loc[u].blk)
  BY DEF Holds, Extends
<1>10. pc[u] = "disc" => \E k \in 1..tbl'.count : Holds(M, k, loc[u].blk)
  BY <1>1, <1>5, <1>6, <1>9 DEF Aware
<1>11. pc[u] = "discAdd" => \E k \in 1..loc[u].i : Holds(M, k, loc[u].blk)
  BY <1>1, <1>5, <1>6, <1>9 DEF Aware
<1>12. pc[u] = "find" => \E k \in 1..Len(segs'[P(u)]) : Holds(M, k, loc[u].blk)
  BY <1>1, <1>5, <1>6, <1>9 DEF Aware, Respects
<1>13. pc[u] \in {"attach", "discAdd"} => loc[u].i <= tbl'.count
  BY <1>1, <1>5, <1>6 DEF Aware
<1> HIDE DEF Holds, MinBytes
<1>14. Aware(M, u)'
  BY <1>1, <1>2, <1>8, <1>10, <1>11, <1>12, <1>13 DEF Aware, Respects
<1> QED
  BY <1>7, <1>14

\* A step that returns, goes on, or starts a call of a constructed manager
\* meets no constructor and no destructor.
LEMMA AloneKept ==
  ASSUME NEW L, Inv(L), NEW t \in Thread, StepOf(t),
         \/ pc'[t] \in {"idle", pc[t]}
         \/ pc'[t] \notin {"attach", "close"} /\ attached[P(t)]
         \/ \A u \in Thread \ {t} : P(u) = P(t) => pc[u] = "idle"
  PROVE  Alone'
<1> SUFFICES ASSUME NEW v \in Thread, NEW u \in Thread, v # u, P(v) = P(u),
                    pc'[v] \in {"attach", "close"}
             PROVE  pc'[u] = "idle"
  BY DEF Alone
<1>1. Alone /\ Placed(v) /\ Placed(u)
  BY DEF Inv
<1>2. (v # t => pc'[v] = pc[v]) /\ (u # t => pc'[u] = pc[u])
  BY DEF StepOf
<1>3. CASE v = t
  BY <1>1, <1>2, <1>3 DEF Alone
<1>4. CASE u = t
  BY <1>1, <1>2, <1>4 DEF Alone, Placed
<1>5. CASE v # t /\ u # t
  BY <1>1, <1>2, <1>5 DEF Alone
<1> QED
  BY <1>3, <1>4, <1>5

\* A step that leaves the file, the table, the heaps and the lists alone.
Quiet == UNCHANGED <<segs, attached, tbl, heap, live, fileSize>>

\* Such a step keeps the invariant if the thread that takes it can go on.
LEMMA QuietKeeps ==
  ASSUME NEW L, Inv(L), NEW t \in Thread, StepOf(t), Quiet, Types',
         Placed(t)', Aware(L, t)', Alone', Managers',
         pc[t] \notin Updating, pc'[t] \notin Updating, pc'[t] # "free"
  PROVE  Inv(L)'
<1>1. Types /\ Layout(L) /\ Progress(L) /\ Blocks(L)
  BY DEF Inv
<1>2. Layout(L)'
  BY <1>1 DEF Layout, Quiet
<1>3. \A u \in Thread : (pc'[u] \in Updating \/ pc[u] \in Updating) => pc'[u] = pc[u]
  BY DEF StepOf
<1>4. Progress(L)'
  BY <1>1, <1>3 DEF Progress, Quiet, Updating
<1>5. \A u \in Thread : pc'[u] = "free" => pc[u] = "free" /\ loc'[u] = loc[u]
  BY DEF StepOf
<1>6. ASSUME NEW u \in Thread PROVE Frees(u)'
  BY <1>1, <1>5 DEF Blocks, Frees, Known, SameBlock, Quiet
<1>7. Blocks(L)'
  BY <1>1, <1>6 DEF Blocks, Quiet, Known
<1>8. ASSUME NEW u \in Thread PROVE Placed(u)' /\ Aware(L, u)'
  <2>1. Extends(L, L)
    BY <1>1 DEF Extends, Quiet, Types
  <2>2. Respects(L, L, u)
    <3>1. segs[P(u)] \in Seq(Segments)
      BY <1>1, Threads DEF Types
    <3> QED
      BY <3>1 DEF Respects, Quiet
  <2> QED
    BY <2>1, <2>2, OthersKept
<1> QED
  BY <1>2, <1>4, <1>7, <1>8 DEF Inv

\* The mutexes in a step of t.
Locks(t) ==
  /\ Lawful(grow_mtx, grow_mtx', t) /\ grow_mtx' \in [Proc -> Thread \cup {None}]
  /\ Lawful(list_mtx, list_mtx', t) /\ list_mtx' \in [Proc -> Thread \cup {None}]

\* Where t is after a step, its locals, and the outcomes.
Goes(t, x, r) ==
  /\ pc' \in [Thread -> PCs] /\ loc' \in [Thread -> Locals]
  /\ outcome' \in [App -> Outcomes \ {"null"}]
  /\ pc'[t] = x /\ loc'[t] = r
  /\ \A u \in Thread \ {t} : pc'[u] = pc[u] /\ loc'[u] = loc[u]

\* Nothing is known of an idle thread.
LEMMA IdleIs ==
  ASSUME NEW L, NEW t \in Thread, pc'[t] = "idle", loc'[t].op # "alloc"
  PROVE  Placed(t)' /\ Aware(L, t)'
BY DEF Placed, Aware, Growers, Growing, Listing

\* A quiet step of t to program point x with locals r.
LEMMA QuietStep ==
  ASSUME NEW L, Inv(L), NEW t \in Thread, Quiet, name' = name, Locks(t),
         DOMAIN hinted' = Proc, Managers', NEW x, NEW r, Goes(t, x, r),
         x \notin Updating \cup {"attach", "close", "free"}, pc[t] \notin Updating,
         x = "idle" \/ attached[P(t)], Placed(t)', Aware(L, t)'
  PROVE  Inv(L)'
<1>1. StepOf(t)
  BY DEF StepOf, Goes, Locks
<1>2. Types'
  BY DEF Inv, Types, Quiet, Goes, Locks
<1>3. Alone'
  <2>1. pc'[t] = "idle" \/ (pc'[t] \notin {"attach", "close"} /\ attached[P(t)])
    BY DEF Goes
  <2> QED
    BY <1>1, <2>1, AloneKept
<1>4. pc'[t] \notin Updating /\ pc'[t] # "free"
  BY DEF Goes
<1> QED
  BY <1>1, <1>2, <1>3, <1>4, QuietKeeps

\* The locals of no call.
LEMMA NoLocals == NoLoc \in Locals /\ NoLoc.op = "none" /\ NoBlock \in Block
BY DEF NoLoc, NoBlock, Locals, Block

\* A return.
LEMMA Returned ==
  ASSUME Types, NEW t \in Thread, NEW how \in Outcomes \ {"null"}, Return(t, how)
  PROVE  Goes(t, "idle", NoLoc)
<1>1. pc' \in [Thread -> PCs] /\ pc'[t] = "idle" /\ \A u \in Thread \ {t} : pc'[u] = pc[u]
  BY DEF Types, Return, Goto, PCs
<1>2. loc' \in [Thread -> Locals] /\ loc'[t] = NoLoc /\ \A u \in Thread \ {t} : loc'[u] = loc[u]
  BY NoLocals DEF Types, Return, Set
<1>3. outcome' \in [App -> Outcomes \ {"null"}]
  BY DEF Types, Return
<1> QED
  BY <1>1, <1>2, <1>3 DEF Goes

\* The start of a call.
LEMMA Called ==
  ASSUME Types, NEW t \in App, NEW x \in PCs, NEW r \in Locals, Call(t, x, r)
  PROVE  Goes(t, x, r) /\ pc[t] = "idle" /\ t \in Thread
<1>1. t \in Thread
  BY Threads
<1>2. pc' \in [Thread -> PCs] /\ pc'[t] = x /\ \A u \in Thread \ {t} : pc'[u] = pc[u]
  BY <1>1 DEF Types, Call, Goto
<1>3. loc' \in [Thread -> Locals] /\ loc'[t] = r /\ \A u \in Thread \ {t} : loc'[u] = loc[u]
  BY <1>1 DEF Types, Call, Set
<1>4. outcome' \in [App -> Outcomes \ {"null"}]
  BY DEF Types, Call, Outcomes
<1> QED
  BY <1>1, <1>2, <1>3, <1>4 DEF Goes, Call, At

\* A step to another program point, with other locals.
LEMMA Went ==
  ASSUME Types, NEW t \in Thread, NEW x \in PCs, NEW r \in Locals,
         Goto(t, x), Set(t, r), UNCHANGED outcome
  PROVE  Goes(t, x, r)
<1>1. pc' \in [Thread -> PCs] /\ pc'[t] = x /\ \A u \in Thread \ {t} : pc'[u] = pc[u]
  BY DEF Types, Goto
<1>2. loc' \in [Thread -> Locals] /\ loc'[t] = r /\ \A u \in Thread \ {t} : loc'[u] = loc[u]
  BY DEF Types, Set
<1> QED
  BY <1>1, <1>2 DEF Goes, Types

\* A step that only changes the program point.
LEMMA WentOn ==
  ASSUME Types, NEW t \in Thread, NEW x \in PCs, Goto(t, x), UNCHANGED <<loc, outcome>>
  PROVE  Goes(t, x, loc[t]) /\ loc[t] \in Locals
<1>1. pc' \in [Thread -> PCs] /\ pc'[t] = x /\ \A u \in Thread \ {t} : pc'[u] = pc[u]
  BY DEF Types, Goto
<1> QED
  BY <1>1 DEF Goes, Types

\* Taking and giving back mutexes.
LEMMA LocksLawful ==
  ASSUME Types, NEW t \in Thread,
         \/ UNCHANGED list_mtx
         \/ Acquire(t)
         \/ list_mtx[P(t)] = t /\ Release(t),
         \/ UNCHANGED grow_mtx
         \/ grow_mtx[P(t)] = None /\ grow_mtx' = [grow_mtx EXCEPT ![P(t)] = t]
         \/ grow_mtx[P(t)] = t /\ EndGrow(t)
  PROVE  /\ Locks(t)
         /\ Acquire(t) => list_mtx'[P(t)] = t
         /\ grow_mtx' = [grow_mtx EXCEPT ![P(t)] = t] => grow_mtx'[P(t)] = t
<1>1. P(t) \in Proc
  BY Threads
<1>2. Lawful(list_mtx, list_mtx', t) /\ list_mtx' \in [Proc -> Thread \cup {None}]
  BY <1>1 DEF Types, Lawful, Acquire, Release
<1>3. Lawful(grow_mtx, grow_mtx', t) /\ grow_mtx' \in [Proc -> Thread \cup {None}]
  BY <1>1 DEF Types, Lawful, EndGrow
<1> QED
  BY <1>1, <1>2, <1>3 DEF Locks, Types, Acquire

\* The managers when neither lists nor hints change.
LEMMA ManagersKept ==
  ASSUME Managers, UNCHANGED <<segs, attached, hinted>>
  PROVE  Managers'
BY DEF Managers

\* A quiet step that ends the call of t.
LEMMA QuietReturn ==
  ASSUME NEW L, Inv(L), NEW t \in Thread, Quiet, name' = name, Locks(t),
         DOMAIN hinted' = Proc, Managers', NEW how \in Outcomes \ {"null"}, Return(t, how),
         pc[t] \notin Updating
  PROVE  Inv(L)'
<1>1. Goes(t, "idle", NoLoc)
  BY Returned DEF Inv
<1>2. Placed(t)' /\ Aware(L, t)'
  <2>1. pc'[t] = "idle" /\ loc'[t].op # "alloc"
    BY <1>1, NoLocals DEF Goes
  <2> QED
    BY <2>1, IdleIs
<1>3. "idle" \notin Updating \cup {"attach", "close", "free"}
  BY DEF Updating
<1> QED
  BY <1>1, <1>2, <1>3, QuietStep

----------------------------------------------------------------------------
(* The quiet actions.                                                      *)

\* What the invariant says of thread t.
LEMMA Here ==
  ASSUME NEW L, Inv(L), NEW t \in Thread
  PROVE  /\ Types /\ Placed(t) /\ Aware(L, t) /\ Managers /\ Layout(L) /\ DOMAIN hinted = Proc
         /\ P(t) \in Proc
         /\ loc[t] \in Locals /\ loc[t].ask \in Nat /\ loc[t].bytes \in Nat /\ loc[t].i \in Nat
         /\ loc[t].cur \in Nat /\ loc[t].chunk \in Nat /\ loc[t].blk \in Block
         /\ loc[t].op \in {"none", "alloc", "grow"}
         /\ pc[t] \in PCs /\ tbl.count \in Nat
<1>1. loc[t] \in Locals /\ pc[t] \in PCs /\ tbl.count \in Nat /\ DOMAIN hinted = Proc
  BY DEF Inv, Types
<1> QED
  BY <1>1, Threads DEF Inv, Locals

\* An allocation of n bytes starts, a request that grow can be called for.
LEMMA RequestKeeps ==
  ASSUME NEW L, Inv(L), Moderate, NEW t \in Allocators, NEW n \in Requests, n \in Nat,
         NEW ask \in Nat, Request(t, ask, n)
  PROVE  Inv(L)'
<1> DEFINE r == [NoLoc EXCEPT !.ask = ask, !.bytes = n, !.op = "alloc", !.i = 1]
<1>1. t \in App /\ t \in Thread /\ P(t) = Grower
  BY GrowerIs, Threads DEF Moderate
<1>2. r \in Locals /\ r.op = "alloc" /\ r.bytes = n /\ r.i = 1
  BY DEF NoLoc, NoBlock, Locals, Block
<1>3. Call(t, "scan", r) /\ "scan" \in PCs /\ Types /\ attached[P(t)] /\ Acquire(t)
  BY <1>1, Here DEF Request, PCs
<1> HIDE DEF r
<1>4. Goes(t, "scan", r) /\ pc[t] = "idle"
  BY <1>1, <1>2, <1>3, Called
<1>5. Quiet /\ name' = name /\ UNCHANGED <<hinted, grow_mtx>>
  BY DEF Request, Quiet, world, shared
<1>6. Locks(t) /\ list_mtx'[P(t)] = t
  BY <1>1, <1>3, <1>5, LocksLawful
<1>7. Managers' /\ DOMAIN hinted' = Proc
  <2>1. UNCHANGED <<segs, attached, hinted>> /\ Managers /\ DOMAIN hinted = Proc
    BY <1>1, <1>5, Here DEF Quiet
  <2> QED
    BY <2>1, ManagersKept
<1>8. pc'[t] = "scan" /\ loc'[t] = r
  BY <1>4 DEF Goes
<1>9. Placed(t)'
  BY <1>1, <1>3, <1>5, <1>6, <1>8, Threads DEF Placed, Quiet, Growers, Growing, Listing
<1>10. MinBytes(t)' = (n + kMinSegmentSize) % Word
  BY <1>2, <1>8 DEF MinBytes
<1>11. MinBytes(t)' \in Needs
  BY <1>10, Asked
<1>12. Aware(L, t)'
  BY <1>1, <1>2, <1>8, <1>11 DEF Aware
<1>13. "scan" \notin Updating \cup {"attach", "close", "free"} /\ "idle" \notin Updating
  BY DEF Updating
<1> QED
  BY <1>1, <1>3, <1>4, <1>5, <1>6, <1>7, <1>9, <1>12, <1>13, QuietStep

\* allocate, and the allocator adaptor's allocate, whose product may wrap.
LEMMA AllocateKeeps ==
  ASSUME NEW L, Inv(L), Moderate, NEW t \in Allocators,
         (\E n \in Sizes : Allocate(t, n)) \/ (\E n \in Counts : AllocateN(t, n))
  PROVE  Inv(L)'
<1>1. ASSUME NEW n \in Sizes, Allocate(t, n) PROVE Inv(L)'
  BY <1>1, Asked, RequestKeeps DEF Allocate
<1>2. ASSUME NEW n \in Counts, AllocateN(t, n) PROVE Inv(L)'
  <2> DEFINE b == n * SizeofT
  <2>1. Request(t, b, b % Word)
    BY <1>2 DEF AllocateN
  <2>2. b \in Nat /\ b % Word \in Requests /\ b % Word \in Nat
    BY Asked
  <2> HIDE DEF b
  <2> QED
    BY <2>1, <2>2, RequestKeeps
<1> QED
  BY <1>1, <1>2

\* grow, called by the program.
LEMMA GrowKeeps ==
  ASSUME NEW L, Inv(L), Moderate, NEW t \in Allocators, NEW n \in Sizes, Grow(t, n)
  PROVE  Inv(L)'
<1> DEFINE r == [NoLoc EXCEPT !.bytes = n, !.op = "grow"]
<1>1. t \in App /\ t \in Thread /\ P(t) = Grower /\ n \in Nat /\ n \in Needs
  BY GrowerIs, Threads, Asked DEF Moderate
<1>2. r \in Locals /\ r.op = "grow" /\ r.bytes = n
  BY <1>1 DEF NoLoc, NoBlock, Locals, Block
<1>3. Call(t, "growLock", r) /\ "growLock" \in PCs /\ Types /\ attached[P(t)]
  BY <1>1, Here DEF Grow, PCs
<1> HIDE DEF r
<1>4. Goes(t, "growLock", r) /\ pc[t] = "idle"
  BY <1>1, <1>2, <1>3, Called
<1>5. Quiet /\ name' = name /\ UNCHANGED <<hinted, grow_mtx, list_mtx>>
  BY DEF Grow, Quiet, world, shared
<1>6. Locks(t)
  BY <1>1, <1>3, <1>5, LocksLawful
<1>7. Managers' /\ DOMAIN hinted' = Proc
  <2>1. UNCHANGED <<segs, attached, hinted>> /\ Managers /\ DOMAIN hinted = Proc
    BY <1>1, <1>5, Here DEF Quiet
  <2> QED
    BY <2>1, ManagersKept
<1>8. pc'[t] = "growLock" /\ loc'[t] = r
  BY <1>4 DEF Goes
<1>9. Placed(t)'
  BY <1>1, <1>3, <1>5, <1>8, Threads DEF Placed, Quiet, Growers, Growing, Listing
<1>10. MinBytes(t)' \in Needs
  BY <1>1, <1>2, <1>8 DEF MinBytes
<1>11. Aware(L, t)'
  BY <1>1, <1>2, <1>8, <1>10 DEF Aware
<1>12. "growLock" \notin Updating \cup {"attach", "close", "free"} /\ "idle" \notin Updating
  BY DEF Updating
<1> QED
  BY <1>1, <1>3, <1>4, <1>5, <1>6, <1>7, <1>9, <1>11, <1>12, QuietStep

\* Two steps of the scan that find no space.
LEMMA ScanNextKeeps ==
  ASSUME NEW L, Inv(L), NEW t \in App, At(t, "scan"), Set(t, [loc[t] EXCEPT !.i = @ + 1]),
         UNCHANGED <<segs, list_mtx, grow_mtx, hinted, world, shared, pc, outcome>>
  PROVE  Inv(L)'
<1> DEFINE r == [loc[t] EXCEPT !.i = @ + 1]
<1>1. t \in Thread
  BY Threads
<1>2. /\ Types /\ Placed(t) /\ Aware(L, t) /\ Managers /\ DOMAIN hinted = Proc
      /\ loc[t] \in Locals /\ loc[t].i \in Nat /\ pc[t] = "scan"
  BY <1>1, Here DEF At
<1>3. /\ r \in Locals /\ r.op = loc[t].op /\ r.bytes = loc[t].bytes /\ r.ask = loc[t].ask
      /\ r.i > 0
  BY <1>2 DEF Locals
<1> HIDE DEF r
<1>4. Goes(t, "scan", r)
  <2>1. Set(t, r)
    BY DEF r
  <2>2. loc' \in [Thread -> Locals] /\ loc'[t] = r /\ \A u \in Thread \ {t} : loc'[u] = loc[u]
    BY <1>1, <1>2, <1>3, <2>1 DEF Types, Set
  <2> QED
    BY <1>2, <2>2 DEF Goes, Types
<1>5. Quiet /\ name' = name /\ Locks(t)
  BY <1>1, <1>2, LocksLawful DEF Quiet, shared, world
<1>6. Managers' /\ DOMAIN hinted' = Proc
  BY <1>2, ManagersKept DEF world
<1>7. pc'[t] = "scan" /\ loc'[t] = r
  BY <1>4 DEF Goes
<1>8. Placed(t)'
  BY <1>2, <1>3, <1>5, <1>7 DEF Placed, Quiet, Growers, Growing, Listing
<1>9. MinBytes(t)' = MinBytes(t)
  BY <1>3, <1>7 DEF MinBytes
<1>10. Aware(L, t)'
  BY <1>2, <1>3, <1>7, <1>9 DEF Aware, Growers
<1>11. "scan" \notin Updating \cup {"attach", "close", "free"} /\ attached[P(t)]
  BY <1>2 DEF Updating, Placed
<1> QED
  BY <1>1, <1>2, <1>4, <1>5, <1>6, <1>8, <1>10, <1>11, QuietStep

\* No sub-segment has space: list_mtx_ is released, and grow comes next.
LEMMA ScanEndKeeps ==
  ASSUME NEW L, Inv(L), NEW t \in App, ScanEnd(t)
  PROVE  Inv(L)'
<1>1. t \in Thread
  BY Threads
<1>2. /\ Types /\ Placed(t) /\ Aware(L, t) /\ Managers /\ DOMAIN hinted = Proc /\ pc[t] = "scan"
  BY <1>1, Here DEF At, ScanEnd
<1>3. Quiet /\ name' = name /\ UNCHANGED <<hinted, grow_mtx>>
  BY DEF ScanEnd, Quiet, world, shared
<1>4. Locks(t)
  <2>1. list_mtx[P(t)] = t /\ Release(t)
    BY <1>2 DEF ScanEnd, Placed, Listing
  <2> QED
    BY <1>1, <1>2, <1>3, <2>1, LocksLawful
<1>5. Managers' /\ DOMAIN hinted' = Proc
  BY <1>2, <1>3, ManagersKept DEF Quiet
<1>6. pc[t] \notin Updating
  BY <1>2 DEF Updating
<1>7. CASE loc[t].grown
  <2>1. Return(t, "no_space") /\ "no_space" \in Outcomes \ {"null"}
    BY <1>7 DEF ScanEnd, Outcomes
  <2> QED
    BY <1>1, <1>3, <1>4, <1>5, <1>6, <2>1, QuietReturn
<1>8. CASE ~loc[t].grown
  <2>1. Goto(t, "growLock") /\ UNCHANGED <<loc, outcome>> /\ "growLock" \in PCs
    BY <1>8 DEF ScanEnd, PCs
  <2>2. Goes(t, "growLock", loc[t])
    BY <1>1, <1>2, <2>1, WentOn
  <2>3. pc'[t] = "growLock" /\ loc'[t] = loc[t]
    BY <2>2 DEF Goes
  <2>4. Placed(t)'
    BY <1>2, <1>3, <2>3, Threads DEF Placed, Quiet, Growers, Growing, Listing
  <2>5. MinBytes(t)' = MinBytes(t)
    BY <2>3 DEF MinBytes
  <2>6. Aware(L, t)'
    BY <1>2, <2>3, <2>5 DEF Aware, Growers
  <2>7. "growLock" \notin Updating \cup {"attach", "close", "free"} /\ attached[P(t)]
    BY <1>2 DEF Updating, Placed
  <2> QED
    BY <1>1, <1>3, <1>4, <1>5, <1>6, <2>2, <2>4, <2>6, <2>7, QuietStep
<1> QED
  BY <1>7, <1>8

\* The hint that only the worker of the growing process is given.
LEMMA HintKeeps ==
  ASSUME NEW L, Inv(L), NEW t \in App, Hint(t)
  PROVE  Inv(L)'
<1>1. t \in Thread
  BY Threads
<1>2. /\ Types /\ Placed(t) /\ Managers /\ DOMAIN hinted = Proc /\ pc[t] = "hint" /\ P(t) \in Proc
  BY <1>1, Here DEF At, Hint
<1>3. Quiet /\ name' = name /\ UNCHANGED grow_mtx
  BY DEF Hint, Quiet, world, shared
<1>4. Locks(t)
  <2>1. list_mtx[P(t)] = t /\ Release(t)
    BY <1>2 DEF Hint, Placed, Listing
  <2> QED
    BY <1>1, <1>2, <1>3, <2>1, LocksLawful
<1>5. Managers' /\ DOMAIN hinted' = Proc
  <2>1. \A p \in Proc : p # P(t) => hinted'[p] = hinted[p]
    BY <1>2 DEF Hint
  <2>2. DOMAIN hinted' = Proc /\ UNCHANGED <<segs, attached>>
    BY <1>2, <1>3 DEF Hint, Quiet
  <2>3. attached[P(t)] /\ P(t) = Grower
    BY <1>2 DEF Placed, Growers
  <2> QED
    BY <1>2, <2>1, <2>2, <2>3 DEF Managers
<1>6. pc[t] \notin Updating /\ "ok" \in Outcomes \ {"null"} /\ Return(t, "ok")
  BY <1>2 DEF Updating, Hint, Outcomes
<1> QED
  BY <1>1, <1>3, <1>4, <1>5, <1>6, QuietReturn

\* The second scan, after growth.
LEMMA RescanKeeps ==
  ASSUME NEW L, Inv(L), NEW t \in App, Rescan(t)
  PROVE  Inv(L)'
<1> DEFINE r == [loc[t] EXCEPT !.i = 1, !.grown = TRUE]
<1>1. t \in Thread
  BY Threads
<1>2. /\ Types /\ Placed(t) /\ Aware(L, t) /\ Managers /\ DOMAIN hinted = Proc
      /\ pc[t] = "rescan" /\ loc[t] \in Locals
  BY <1>1, Here DEF At, Rescan
<1>3. Quiet /\ name' = name /\ UNCHANGED <<hinted, grow_mtx>>
  BY DEF Rescan, Quiet, world, shared
<1>4. Locks(t) /\ list_mtx'[P(t)] = t
  <2>1. Acquire(t)
    BY DEF Rescan
  <2> QED
    BY <1>1, <1>2, <1>3, <2>1, LocksLawful
<1>5. Managers' /\ DOMAIN hinted' = Proc
  BY <1>2, <1>3, ManagersKept DEF Quiet
<1>6. /\ r \in Locals /\ r.op = loc[t].op /\ r.bytes = loc[t].bytes /\ r.ask = loc[t].ask
      /\ r.i = 1
  BY <1>2 DEF Locals
<1>7. Goto(t, "scan") /\ Set(t, r) /\ UNCHANGED outcome /\ "scan" \in PCs
  BY DEF Rescan, PCs
<1> HIDE DEF r
<1>8. Goes(t, "scan", r)
  BY <1>1, <1>2, <1>6, <1>7, Went
<1>9. pc'[t] = "scan" /\ loc'[t] = r
  BY <1>8 DEF Goes
<1>10. Placed(t)'
  BY <1>2, <1>3, <1>4, <1>9, Threads DEF Placed, Quiet, Growers, Growing, Listing
<1>11. MinBytes(t)' = MinBytes(t)
  BY <1>6, <1>9 DEF MinBytes
<1>12. Aware(L, t)'
  BY <1>2, <1>6, <1>9, <1>11 DEF Aware, Growers
<1>13. "scan" \notin Updating \cup {"attach", "close", "free"} /\ attached[P(t)] /\ pc[t] \notin Updating
  BY <1>2 DEF Updating, Placed
<1> QED
  BY <1>1, <1>3, <1>4, <1>5, <1>8, <1>10, <1>12, <1>13, QuietStep

\* grow takes grow_mtx_.
LEMMA GrowLockKeeps ==
  ASSUME NEW L, Inv(L), NEW t \in App, GrowLock(t)
  PROVE  Inv(L)'
<1>1. t \in Thread
  BY Threads
<1>2. /\ Types /\ Placed(t) /\ Aware(L, t) /\ Managers /\ DOMAIN hinted = Proc
      /\ pc[t] = "growLock"
  BY <1>1, Here DEF At, GrowLock
<1>3. Quiet /\ name' = name /\ UNCHANGED <<hinted, list_mtx>>
  BY DEF GrowLock, Quiet, world, shared
<1>4. Locks(t) /\ grow_mtx'[P(t)] = t
  <2>1. grow_mtx[P(t)] = None /\ grow_mtx' = [grow_mtx EXCEPT ![P(t)] = t]
    BY DEF GrowLock
  <2> QED
    BY <1>1, <1>2, <1>3, <2>1, LocksLawful
<1>5. Managers' /\ DOMAIN hinted' = Proc
  BY <1>2, <1>3, ManagersKept DEF Quiet
<1>6. Goto(t, "growCheck") /\ UNCHANGED <<loc, outcome>> /\ "growCheck" \in PCs
  BY DEF GrowLock, PCs
<1>7. Goes(t, "growCheck", loc[t])
  BY <1>1, <1>2, <1>6, WentOn
<1>8. pc'[t] = "growCheck" /\ loc'[t] = loc[t]
  BY <1>7 DEF Goes
<1>9. Placed(t)'
  BY <1>2, <1>3, <1>4, <1>8, Threads DEF Placed, Quiet, Growers, Growing, Listing
<1>10. MinBytes(t)' = MinBytes(t)
  BY <1>8 DEF MinBytes
<1>11. Aware(L, t)'
  BY <1>2, <1>8, <1>10 DEF Aware, Growers, Growing
<1>12. "growCheck" \notin Updating \cup {"attach", "close", "free"} /\ attached[P(t)] /\ pc[t] \notin Updating
  BY <1>2 DEF Updating, Placed
<1> QED
  BY <1>1, <1>3, <1>4, <1>5, <1>7, <1>9, <1>11, <1>12, QuietStep

\* The list of a growing process is the layout.
LEMMA GrowerMaps ==
  ASSUME NEW L, Inv(L), NEW t \in Thread, pc[t] \in Growers
  PROVE  /\ segs[P(t)] \in Seq(Segments) /\ Len(segs[P(t)]) = Len(L) /\ Len(L) \in Nat \ {0}
         /\ \A i \in 1..Len(L) : segs[P(t)][i] = L[i]
         /\ Mapped(segs[P(t)]) = End(L)
         /\ Last(segs[P(t)]).size \in Nat \ {0} /\ Last(segs[P(t)]).size <= End(L)
         /\ Last(segs[P(t)]).off \in DOMAIN heap
         /\ End(L) \in Nat /\ End(L) <= Limit
<1>1. P(t) = Grower /\ attached[P(t)] /\ P(t) \in Proc
  BY Threads DEF Inv, Placed, Growers, Growing
<1> DEFINE s == segs[P(t)]
<1>2. Contiguous(L) /\ Prefix(s, L) /\ Len(s) = Len(L) /\ s \in Seq(Segments)
  BY <1>1 DEF Inv, Layout, Progress, Types
<1> HIDE DEF s
<1>3. /\ Len(L) \in Nat \ {0} /\ End(L) \in Nat
      /\ \A i \in 1..Len(L) : L[i].off \in Nat /\ L[i].size \in Nat \ {0}
  BY <1>2, LayoutTypes
<1>4. Mapped(s) = End(L) /\ \A i \in 1..Len(L) : s[i] = L[i]
  BY <1>2, <1>3, MappedIs DEF End, Prefix
<1>5. Last(s) = L[Len(L)] /\ Len(L) \in 1..Len(L)
  BY <1>2, <1>3, <1>4 DEF Last
<1>6. Last(s).size \in Nat \ {0} /\ Last(s).size <= End(L)
  BY <1>3, <1>5 DEF End
<1>7. DOMAIN heap = {L[i].off : i \in 1..Len(L)} /\ End(L) <= fileSize /\ fileSize <= Limit
  BY DEF Inv, Layout
<1>8. End(L) <= Limit
  <2>1. fileSize \in Nat /\ Limit \in Nat
    BY Numbers DEF Inv, Types
  <2> QED
    BY <1>3, <1>7, <2>1
<1> QED
  BY <1>2, <1>3, <1>4, <1>5, <1>6, <1>7, <1>8 DEF s

\* The growth has been planned.
LEMMA PlanKeeps ==
  ASSUME NEW L, Inv(L), Moderate, NEW t \in Thread, pc[t] \in {"growCheck", "bgCheck"},
         NEW n \in Needs, Plan(t, n), Goto(t, "growFile"), Quiet, name' = name,
         UNCHANGED <<hinted, list_mtx, grow_mtx, outcome>>
  PROVE  Inv(L)'
<1> DEFINE c == align_up(max(n, Last(segs[P(t)]).size * kGrowMultiplier), PageSize)
           r == [loc[t] EXCEPT !.chunk = c, !.cur = Mapped(segs[P(t)])]
<1>1. /\ Types /\ Placed(t) /\ Aware(L, t) /\ Managers /\ DOMAIN hinted = Proc
      /\ loc[t] \in Locals
  BY Here
<1>2. /\ Mapped(segs[P(t)]) = End(L) /\ End(L) \in Nat /\ End(L) <= Limit
      /\ Last(segs[P(t)]).size \in Nat \ {0} /\ Last(segs[P(t)]).size <= End(L)
  BY GrowerMaps DEF Growers, Growing
<1>3. c \in Nat /\ c > 0 /\ End(L) + c < Word
  BY <1>2, Planned DEF Moderate
<1>4. Set(t, r)
  BY DEF Plan
<1> HIDE DEF c
<1>5. /\ r \in Locals /\ r.op = loc[t].op /\ r.bytes = loc[t].bytes /\ r.ask = loc[t].ask
      /\ r.chunk = c /\ r.cur = End(L)
  BY <1>1, <1>2, <1>3 DEF Locals
<1> HIDE DEF r
<1>6. Locks(t)
  BY <1>1, LocksLawful
<1>7. Managers' /\ DOMAIN hinted' = Proc
  BY <1>1, ManagersKept DEF Quiet
<1>8. Goes(t, "growFile", r)
  <2>1. "growFile" \in PCs
    BY DEF PCs
  <2> QED
    BY <1>1, <1>4, <1>5, <2>1, Went
<1>9. pc'[t] = "growFile" /\ loc'[t] = r
  BY <1>8 DEF Goes
<1>10. Placed(t)'
  BY <1>1, <1>5, <1>9 DEF Placed, Quiet, Growers, Growing, Listing
<1>11. MinBytes(t)' = MinBytes(t)
  BY <1>5, <1>9 DEF MinBytes
<1>12. Aware(L, t)'
  <2>1. t \in App => MinBytes(t)' \in Needs
    BY <1>1, <1>5, <1>11 DEF Aware, Growers, Growing
  <2> QED
    BY <1>3, <1>5, <1>9, <2>1 DEF Aware
<1>13. /\ "growFile" \notin Updating \cup {"attach", "close", "free"}
       /\ attached[P(t)] /\ pc[t] \notin Updating
  BY <1>1 DEF Updating, Placed
<1> QED
  BY <1>6, <1>7, <1>8, <1>10, <1>12, <1>13, QuietStep

\* grow returns without having grown.
LEMMA GrowEndKeeps ==
  ASSUME NEW L, Inv(L), NEW t \in Thread, pc[t] \in Growing \ Updating, EndGrow(t), Quiet,
         name' = name, UNCHANGED <<hinted, list_mtx>>,
         AfterGrow(t) \/ \E how \in Outcomes \ {"null"} : Return(t, how)
  PROVE  Inv(L)'
<1>1. /\ Types /\ Placed(t) /\ Aware(L, t) /\ Managers /\ DOMAIN hinted = Proc
      /\ loc[t] \in Locals
  BY Here
<1>2. Locks(t)
  <2>1. grow_mtx[P(t)] = t
    BY <1>1 DEF Placed
  <2> QED
    BY <1>1, <2>1, LocksLawful
<1>3. Managers' /\ DOMAIN hinted' = Proc
  BY <1>1, ManagersKept DEF Quiet
<1>4. ASSUME NEW how \in Outcomes \ {"null"}, Return(t, how) PROVE Inv(L)'
  BY <1>2, <1>3, <1>4, QuietReturn
<1>5. CASE AfterGrow(t) /\ loc[t].op = "alloc"
  <2>1. Goto(t, "rescan") /\ UNCHANGED <<loc, outcome>> /\ "rescan" \in PCs /\ t \in App
    BY <1>1, <1>5 DEF AfterGrow, PCs, Placed, Thread
  <2>2. Goes(t, "rescan", loc[t])
    BY <1>1, <2>1, WentOn
  <2>3. pc'[t] = "rescan" /\ loc'[t] = loc[t]
    BY <2>2 DEF Goes
  <2>4. attached[P(t)] /\ P(t) = Grower
    BY <1>1 DEF Placed, Growing, Growers
  <2>5. Placed(t)'
    BY <2>1, <2>3, <2>4, Threads DEF Placed, Quiet, Growing, Listing
  <2>6. MinBytes(t)' = MinBytes(t)
    BY <2>3 DEF MinBytes
  <2>7. Aware(L, t)'
    BY <1>1, <1>5, <2>1, <2>3, <2>6 DEF Aware, Growers
  <2>8. "rescan" \notin Updating \cup {"attach", "close", "free"}
    BY DEF Updating
  <2> QED
    BY <1>2, <1>3, <2>2, <2>4, <2>5, <2>7, <2>8, QuietStep
<1>6. CASE AfterGrow(t) /\ loc[t].op # "alloc"
  <2>1. Return(t, "ok") /\ "ok" \in Outcomes \ {"null"}
    BY <1>6 DEF AfterGrow, Outcomes
  <2> QED
    BY <1>4, <2>1
<1> QED
  BY <1>4, <1>5, <1>6

\* grow finds enough free memory, or plans a growth that does not wrap.
LEMMA GrowCheckKeeps ==
  ASSUME NEW L, Inv(L), Moderate, NEW t \in App, GrowCheck(t)
  PROVE  Inv(L)'
<1>1. t \in Thread /\ pc[t] = "growCheck"
  BY Threads DEF GrowCheck, At
<1>2. Quiet /\ name' = name /\ UNCHANGED <<hinted, list_mtx>>
  BY DEF GrowCheck, Quiet, Briefly, world, shared
<1>3. MinBytes(t) \in Needs
  BY <1>1, Here DEF Aware, Growers, Growing
<1>4. \/ EndGrow(t) /\ AfterGrow(t)
      \/ Plan(t, MinBytes(t)) /\ Goto(t, "growFile") /\ UNCHANGED <<grow_mtx, outcome>>
  BY DEF GrowCheck
<1>5. pc[t] \in Growing \ Updating
  BY <1>1 DEF Growing, Updating
<1> QED
  BY <1>1, <1>2, <1>3, <1>4, <1>5, GrowEndKeeps, PlanKeeps

\* The worker takes the hint and, if it is free, grow_mtx_.
LEMMA BgTakeKeeps ==
  ASSUME NEW L, Inv(L), NEW p \in Proc, BgTake(p)
  PROVE  Inv(L)'
<1>1. p \in Thread /\ P(p) = p /\ p \notin App
  BY Threads
<1>2. /\ Types /\ Placed(p) /\ Aware(L, p) /\ Managers /\ DOMAIN hinted = Proc
      /\ pc[p] = "idle" /\ hinted[p] /\ loc[p] \in Locals
  BY <1>1, Here DEF At, BgTake
<1>3. Quiet /\ name' = name /\ UNCHANGED <<list_mtx, loc, outcome>>
  BY DEF BgTake, Quiet, world, shared
<1>4. Managers' /\ DOMAIN hinted' = Proc
  <2>1. hinted' = [hinted EXCEPT ![p] = FALSE]
    BY DEF BgTake
  <2>2. ~hinted'[p] /\ DOMAIN hinted' = Proc /\ \A q \in Proc \ {p} : hinted'[q] = hinted[q]
    BY <1>2, <2>1
  <2> QED
    BY <1>2, <1>3, <2>2 DEF Managers, Quiet
<1>5. attached[p] /\ p = Grower
  BY <1>2 DEF Managers
<1>6. CASE grow_mtx[p] = None
  <2>1. /\ grow_mtx' = [grow_mtx EXCEPT ![P(p)] = p] /\ Goto(p, "bgCheck")
        /\ "bgCheck" \in PCs /\ grow_mtx[P(p)] = None
    BY <1>1, <1>6 DEF BgTake, PCs
  <2>2. Locks(p) /\ grow_mtx'[P(p)] = p
    BY <1>1, <1>2, <1>3, <2>1, LocksLawful
  <2>3. Goes(p, "bgCheck", loc[p])
    BY <1>1, <1>2, <1>3, <2>1, WentOn
  <2>4. pc'[p] = "bgCheck" /\ loc'[p] = loc[p]
    BY <2>3 DEF Goes
  <2>5. Placed(p)'
    BY <1>1, <1>2, <1>3, <1>5, <2>2, <2>4 DEF Placed, Quiet, Growers, Growing, Listing
  <2>6. Aware(L, p)'
    BY <1>1, <2>4 DEF Aware
  <2>7. "bgCheck" \notin Updating \cup {"attach", "close", "free"} /\ pc[p] \notin Updating
    BY <1>2 DEF Updating
  <2> QED
    BY <1>1, <1>3, <1>4, <1>5, <2>2, <2>3, <2>5, <2>6, <2>7, QuietStep
<1>7. CASE grow_mtx[p] # None
  <2>1. UNCHANGED <<grow_mtx, pc>>
    BY <1>7 DEF BgTake
  <2>2. Locks(p)
    BY <1>1, <1>2, <1>3, <2>1, LocksLawful
  <2>3. Goes(p, "idle", loc[p])
    BY <1>2, <1>3, <2>1 DEF Goes, Types
  <2>4. Placed(p)' /\ Aware(L, p)'
    <3>1. pc'[p] = "idle" /\ loc'[p].op # "alloc"
      BY <1>2, <2>3 DEF Goes, Placed
    <3> QED
      BY <1>1, <3>1, IdleIs
  <2>5. "idle" \notin Updating \cup {"attach", "close", "free"} /\ pc[p] \notin Updating
    BY <1>2 DEF Updating
  <2> QED
    BY <1>1, <1>3, <1>4, <2>2, <2>3, <2>4, <2>5, QuietStep
<1> QED
  BY <1>6, <1>7

\* The worker finds no need, or plans a growth.
LEMMA BgCheckKeeps ==
  ASSUME NEW L, Inv(L), Moderate, NEW p \in Proc, BgCheck(p)
  PROVE  Inv(L)'
<1>1. p \in Thread /\ pc[p] = "bgCheck"
  BY Threads DEF BgCheck, At
<1>2. Quiet /\ name' = name /\ UNCHANGED <<hinted, list_mtx>>
  BY DEF BgCheck, Quiet, Briefly, world, shared
<1>3. kMinSegmentSize \in Needs
  BY Asked
<1>4. \/ EndGrow(p) /\ Return(p, "ok")
      \/ Plan(p, kMinSegmentSize) /\ Goto(p, "growFile") /\ UNCHANGED <<grow_mtx, outcome>>
  BY DEF BgCheck
<1>5. pc[p] \in Growing \ Updating /\ "ok" \in Outcomes \ {"null"}
  BY <1>1 DEF Growing, Updating, Outcomes
<1> QED
  BY <1>1, <1>2, <1>3, <1>4, <1>5, GrowEndKeeps, PlanKeeps

\* The new chunk cannot be mapped; the file keeps its size.
LEMMA GrowAddFailKeeps ==
  ASSUME NEW L, Inv(L), NEW t \in App, GrowAddFail(t)
  PROVE  Inv(L)'
<1>1. t \in Thread /\ pc[t] = "growAdd"
  BY Threads DEF GrowAddFail, At
<1>2. Quiet /\ name' = name /\ UNCHANGED <<hinted, list_mtx>>
  BY DEF GrowAddFail, Quiet, Briefly, world, shared
<1>3. EndGrow(t) /\ Return(t, "map_failed") /\ "map_failed" \in Outcomes \ {"null"}
  BY DEF GrowAddFail, Outcomes
<1>4. pc[t] \in Growing \ Updating
  BY <1>1 DEF Growing, Updating
<1> QED
  BY <1>1, <1>2, <1>3, <1>4, GrowEndKeeps

\* get() of a block that was handed out: some published sub-segment has it.
LEMMA GetKeeps ==
  ASSUME NEW L, Inv(L), NEW t \in App, NEW b \in live, Get(t, b)
  PROVE  Inv(L)'
<1> DEFINE r == [NoLoc EXCEPT !.blk = b]
<1>1. t \in Thread
  BY Threads
<1>2. Types /\ Managers /\ DOMAIN hinted = Proc /\ b \in Block /\ attached[P(t)]
  BY <1>1, Here DEF Get, Types
<1>3. r \in Locals /\ r.op = "none" /\ r.blk = b
  BY <1>2 DEF NoLoc, Locals
<1>4. Call(t, "disc", r) /\ "disc" \in PCs
  BY DEF Get, PCs
<1> HIDE DEF r
<1>5. Goes(t, "disc", r) /\ pc[t] = "idle"
  BY <1>2, <1>3, <1>4, Called
<1>6. Quiet /\ name' = name /\ UNCHANGED <<hinted, grow_mtx, list_mtx>>
  BY DEF Get, Quiet, Briefly, world, shared
<1>7. Locks(t)
  BY <1>1, <1>2, <1>6, LocksLawful
<1>8. Managers' /\ DOMAIN hinted' = Proc
  BY <1>2, <1>6, ManagersKept DEF Quiet
<1>9. pc'[t] = "disc" /\ loc'[t] = r
  BY <1>5 DEF Goes
<1>10. Placed(t)'
  BY <1>1, <1>2, <1>6, <1>9, Threads DEF Placed, Quiet, Growers, Growing, Listing
<1>11. \E k \in 1..tbl.count : Holds(L, k, b)
  BY DEF Inv, Blocks
<1>12. Aware(L, t)'
  <2>1. \E k \in 1..tbl'.count : Holds(L, k, r.blk)
    BY <1>3, <1>6, <1>11 DEF Quiet
  <2>2. pc'[t] \notin Growers
    BY <1>9 DEF Growers, Growing
  <2> HIDE DEF Holds
  <2> QED
    BY <1>9, <2>1, <2>2 DEF Aware
<1>13. "disc" \notin Updating \cup {"attach", "close", "free"} /\ pc[t] \notin Updating
  BY <1>5 DEF Updating
<1> QED
  BY <1>1, <1>2, <1>5, <1>6, <1>7, <1>8, <1>10, <1>12, <1>13, QuietStep

\* The list of a process, and whether it has a block.
LEMMA ListHas ==
  ASSUME NEW L, Inv(L), NEW p \in Proc, NEW b \in Block, NEW k \in 1..Len(L), Holds(L, k, b)
  PROVE  /\ b.off + b.at < Mapped(segs[p]) <=> k <= Len(segs[p])
         /\ k <= Len(segs[p]) => Contains(segs[p], b.off + b.at)
         /\ Len(segs[p]) \in Nat
<1>1. Contiguous(L) /\ segs[p] \in Seq(Segments) /\ Prefix(segs[p], L)
  BY DEF Inv, Layout, Types
<1>2. b.off \in Nat /\ b.at \in Nat
  BY DEF Block
<1> QED
  BY <1>1, <1>2, HeldIn

\* What is published is part of the layout.
LEMMA PublishedPart ==
  ASSUME NEW L, Inv(L)
  PROVE  tbl.count \in Nat \ {0} /\ tbl.count <= Len(L) /\ Len(L) \in Nat \ {0}
         /\ Contiguous(L) /\ Len(tbl.entries) \in Nat /\ tbl.count <= Len(tbl.entries)
         /\ tbl.entries \in Seq(Segments)
         /\ \A i \in 1..tbl.count : tbl.entries[i] = L[i] /\ L[i] \in Segments
<1>1. Contiguous(L) /\ Prefix(tbl.entries, L) /\ tbl.count > 0 /\ tbl.count <= Len(tbl.entries)
  BY DEF Inv, Layout
<1>2. tbl.count \in Nat /\ tbl.entries \in Seq(Segments)
  BY DEF Inv, Types
<1>3. Len(tbl.entries) \in Nat /\ Len(L) \in Nat \ {0} /\ Len(tbl.entries) <= Len(L)
  BY <1>1, <1>2, LayoutTypes DEF Prefix
<1>4. ASSUME NEW i \in 1..tbl.count PROVE tbl.entries[i] = L[i] /\ L[i] \in Segments
  <2>1. i \in 1..Len(tbl.entries) /\ i \in 1..Len(L)
    BY <1>1, <1>2, <1>3
  <2> QED
    BY <1>1, <2>1, LayoutTypes DEF Prefix
<1> QED
  BY <1>1, <1>2, <1>3, <1>4

\* lazy_discover_growth: the count that it reads covers the block.
LEMMA DiscoverKeeps ==
  ASSUME NEW L, Inv(L), NEW t \in App, Discover(t)
  PROVE  Inv(L)'
<1> DEFINE b == loc[t].blk
           r == [loc[t] EXCEPT !.i = tbl.count]
<1>1. t \in Thread
  BY Threads
<1>2. /\ Types /\ Placed(t) /\ Aware(L, t) /\ Managers /\ DOMAIN hinted = Proc
      /\ pc[t] = "disc" /\ loc[t] \in Locals /\ b \in Block /\ P(t) \in Proc
  BY <1>1, Here DEF At, Discover
<1>3. /\ Quiet /\ name' = name /\ UNCHANGED <<hinted, grow_mtx, outcome>>
  BY DEF Discover, Quiet, world, shared
<1>4. PICK k \in 1..tbl.count : Holds(L, k, b)
  BY <1>2 DEF Aware
<1>5. Managers' /\ DOMAIN hinted' = Proc
  BY <1>2, <1>3, ManagersKept DEF Quiet
<1>6. attached[P(t)] /\ pc[t] \notin Updating
  BY <1>2 DEF Placed, Updating
<1>7. k \in 1..Len(L) /\ tbl.count \in Nat /\ k \in 1..tbl.count
  BY <1>4, PublishedPart
<1>8. CASE b.off + b.at < Mapped(segs[P(t)])
  <2>1. /\ UNCHANGED <<list_mtx, loc>> /\ Goto(t, "find") /\ "find" \in PCs
    BY <1>8 DEF Discover, Briefly, PCs
  <2>2. Locks(t)
    BY <1>1, <1>2, <1>3, <2>1, LocksLawful
  <2>3. Goes(t, "find", loc[t])
    BY <1>1, <1>2, <1>3, <2>1, WentOn
  <2>4. pc'[t] = "find" /\ loc'[t] = loc[t]
    BY <2>3 DEF Goes
  <2>5. k \in 1..Len(segs[P(t)])
    BY <1>2, <1>4, <1>7, <1>8, ListHas
  <2>6. Placed(t)'
    BY <1>1, <1>3, <1>6, <2>4, Threads DEF Placed, Quiet, Growers, Growing, Listing
  <2>7. Aware(L, t)'
    <3>1. \E j \in 1..Len(segs'[P(t)]) : Holds(L, j, b)
      BY <1>3, <1>4, <2>5 DEF Quiet
    <3>2. pc'[t] \notin Growers
      BY <2>4 DEF Growers, Growing
    <3> HIDE DEF Holds
    <3> QED
      BY <2>4, <3>1, <3>2 DEF Aware
  <2>8. "find" \notin Updating \cup {"attach", "close", "free"}
    BY DEF Updating
  <2> QED
    BY <1>1, <1>3, <1>5, <1>6, <2>2, <2>3, <2>6, <2>7, <2>8, QuietStep
<1>9. CASE ~(b.off + b.at < Mapped(segs[P(t)]))
  <2>1. Acquire(t) /\ Goto(t, "discAdd") /\ Set(t, r) /\ "discAdd" \in PCs
    BY <1>9 DEF Discover, PCs
  <2>2. Locks(t) /\ list_mtx'[P(t)] = t
    BY <1>1, <1>2, <1>3, <2>1, LocksLawful
  <2>3. r \in Locals /\ r.i = tbl.count /\ r.blk = b /\ r.op = loc[t].op
    BY <1>2, <1>7 DEF Locals
  <2> HIDE DEF r
  <2>4. Goes(t, "discAdd", r)
    BY <1>1, <1>2, <1>3, <2>1, <2>3, Went
  <2>5. pc'[t] = "discAdd" /\ loc'[t] = r
    BY <2>4 DEF Goes
  <2>6. Placed(t)'
    BY <1>1, <1>3, <1>6, <2>2, <2>5, Threads DEF Placed, Quiet, Growers, Growing, Listing
  <2>7. Aware(L, t)'
    <3>1. \E j \in 1..r.i : Holds(L, j, r.blk)
      BY <1>4, <2>3
    <3>2. pc'[t] \notin Growers
      BY <2>5 DEF Growers, Growing
    <3>3. r.i <= tbl'.count
      BY <1>3, <1>7, <2>3 DEF Quiet
    <3> HIDE DEF Holds
    <3> QED
      BY <2>5, <3>1, <3>2, <3>3 DEF Aware
  <2>8. "discAdd" \notin Updating \cup {"attach", "close", "free"}
    BY DEF Updating
  <2> QED
    BY <1>1, <1>3, <1>5, <1>6, <2>2, <2>4, <2>6, <2>7, <2>8, QuietStep
<1> QED
  BY <1>8, <1>9

\* All entries up to that count are mapped: the block is found.
LEMMA DiscoverEndKeeps ==
  ASSUME NEW L, Inv(L), NEW t \in App, DiscoverEnd(t)
  PROVE  Inv(L)'
<1> DEFINE b == loc[t].blk
<1>1. t \in Thread
  BY Threads
<1>2. /\ Types /\ Placed(t) /\ Aware(L, t) /\ Managers /\ DOMAIN hinted = Proc
      /\ pc[t] = "discAdd" /\ loc[t] \in Locals /\ b \in Block /\ P(t) \in Proc
      /\ loc[t].i \in Nat
  BY <1>1, Here DEF At, DiscoverEnd
<1>3. /\ Quiet /\ name' = name /\ UNCHANGED <<hinted, grow_mtx>>
  BY DEF DiscoverEnd, Quiet, world, shared
<1>4. PICK k \in 1..loc[t].i : Holds(L, k, b)
  BY <1>2 DEF Aware
<1>5. Managers' /\ DOMAIN hinted' = Proc
  BY <1>2, <1>3, ManagersKept DEF Quiet
<1>6. attached[P(t)] /\ pc[t] \notin Updating
  BY <1>2 DEF Placed, Updating
<1>7. k \in 1..Len(L)
  <2>1. loc[t].i <= tbl.count
    BY <1>2 DEF Aware
  <2> QED
    BY <1>2, <1>4, <2>1, PublishedPart
<1>8. b.off + b.at < Mapped(segs[P(t)]) /\ k \in 1..Len(segs[P(t)])
  <2>1. Len(segs[P(t)]) >= loc[t].i
    BY DEF DiscoverEnd
  <2> QED
    BY <1>2, <1>4, <1>7, <2>1, ListHas
<1>9. Release(t) /\ UNCHANGED <<loc, outcome>> /\ Goto(t, "find") /\ "find" \in PCs
  BY <1>8 DEF DiscoverEnd, PCs
<1>10. Locks(t)
  <2>1. list_mtx[P(t)] = t
    BY <1>2 DEF Placed, Listing
  <2> QED
    BY <1>1, <1>2, <1>3, <1>9, <2>1, LocksLawful
<1>11. Goes(t, "find", loc[t])
  BY <1>1, <1>2, <1>9, WentOn
<1>12. pc'[t] = "find" /\ loc'[t] = loc[t]
  BY <1>11 DEF Goes
<1>13. Placed(t)'
  BY <1>1, <1>3, <1>6, <1>12, Threads DEF Placed, Quiet, Growers, Growing, Listing
<1>14. Aware(L, t)'
  <2>1. \E j \in 1..Len(segs'[P(t)]) : Holds(L, j, b)
    BY <1>3, <1>4, <1>8 DEF Quiet
  <2>2. pc'[t] \notin Growers
    BY <1>12 DEF Growers, Growing
  <2> HIDE DEF Holds
  <2> QED
    BY <1>12, <2>1, <2>2 DEF Aware
<1>15. "find" \notin Updating \cup {"attach", "close", "free"}
  BY DEF Updating
<1> QED
  BY <1>1, <1>3, <1>5, <1>6, <1>10, <1>11, <1>13, <1>14, <1>15, QuietStep

\* The search after discovery finds the sub-segment.
LEMMA FindKeeps ==
  ASSUME NEW L, Inv(L), NEW t \in App, Find(t)
  PROVE  Inv(L)'
<1> DEFINE b == loc[t].blk
<1>1. t \in Thread
  BY Threads
<1>2. /\ Types /\ Placed(t) /\ Aware(L, t) /\ Managers /\ DOMAIN hinted = Proc
      /\ pc[t] = "find" /\ b \in Block /\ P(t) \in Proc
  BY <1>1, Here DEF At, Find
<1>3. /\ Quiet /\ name' = name /\ UNCHANGED <<hinted, grow_mtx, list_mtx>>
  BY DEF Find, Quiet, Briefly, world, shared
<1>4. PICK k \in 1..Len(segs[P(t)]) : Holds(L, k, b)
  BY <1>2 DEF Aware
<1>5. Managers' /\ DOMAIN hinted' = Proc
  BY <1>2, <1>3, ManagersKept DEF Quiet
<1>6. k \in 1..Len(L) /\ k <= Len(segs[P(t)])
  <2>1. Len(segs[P(t)]) \in Nat /\ Len(segs[P(t)]) <= Len(L) /\ Len(L) \in Nat
    BY <1>2, PublishedPart DEF Inv, Layout, Prefix, Types
  <2> QED
    BY <1>4, <2>1
<1>7. Contains(segs[P(t)], b.off + b.at)
  BY <1>2, <1>4, <1>6, ListHas
<1>8. Return(t, "ok") /\ "ok" \in Outcomes \ {"null"}
  BY <1>7 DEF Find, Outcomes
<1>9. Locks(t) /\ pc[t] \notin Updating
  BY <1>1, <1>2, <1>3, LocksLawful DEF Updating
<1> QED
  BY <1>1, <1>3, <1>5, <1>8, <1>9, QuietReturn

----------------------------------------------------------------------------
(* The actions that change the lists.                                      *)

\* A step keeps the invariant if the parts of it that it touches hold.
LEMMA LoudStep ==
  ASSUME NEW L, NEW M, Inv(L), NEW t \in Thread, Types', StepOf(t), Extends(L, M),
         \A u \in Thread \ {t} : Respects(L, M, u),
         Layout(M)', Progress(M)', Managers', Alone', Placed(t)', Aware(M, t)', Blocks(M)'
  PROVE  Inv(M)'
<1>1. \A u \in Thread \ {t} : Placed(u)' /\ Aware(M, u)'
  BY OthersKept
<1> QED
  BY <1>1 DEF Inv

\* The blocks of a heap are the same after the step.
SameHeap(o) == o \in DOMAIN heap' /\ heap'[o].blocks = heap[o].blocks

\* Blocks stay when no heap loses or gains one and nobody starts to free one.
LEMMA BlocksKept ==
  ASSUME NEW L, NEW M, Inv(L), NEW t \in Thread, StepOf(t), Extends(L, M), live' = live,
         Types', pc'[t] # "free", \A o \in DOMAIN heap : SameHeap(o),
         \A o \in DOMAIN heap' : Packed(heap'[o])
  PROVE  Blocks(M)'
<1>1. Blocks(L) /\ tbl.count \in Nat /\ tbl'.count \in Nat /\ tbl.count <= tbl'.count
  BY DEF Inv, Types, Extends
<1>2. \A b : Known(b) => Known(b)'
  BY DEF Known, SameHeap
<1>3. \A u \in Thread : pc'[u] = "free" => pc[u] = "free" /\ loc'[u] = loc[u]
  BY DEF StepOf
<1>4. ASSUME NEW u \in Thread PROVE Frees(u)'
  BY <1>1, <1>2, <1>3 DEF Blocks, Frees, SameBlock
<1>5. ASSUME NEW b \in live PROVE \E k \in 1..tbl'.count : Holds(M, k, b)
  <2>1. PICK k \in 1..tbl.count : Holds(L, k, b)
    BY <1>1 DEF Blocks
  <2>2. k \in 1..Len(L) /\ k \in 1..tbl'.count
    BY <1>1, <2>1, PublishedPart
  <2>3. Holds(M, k, b)
    BY <2>1, <2>2 DEF Holds, Extends
  <2> QED
    BY <2>2, <2>3
<1>6. \A b \in live : Known(b)'
  BY <1>1, <1>2 DEF Blocks
<1>7. \A b, c \in live : SameBlock(b, c) => b = c
  BY <1>1 DEF Blocks
<1> HIDE DEF Known, Holds, Packed
<1> QED
  BY <1>4, <1>5, <1>6, <1>7 DEF Blocks

\* The heaps are all as they should be.
LEMMA AllPacked ==
  ASSUME NEW L, Inv(L) PROVE \A o \in DOMAIN heap : Packed(heap[o])
BY DEF Inv, Blocks

\* The list of process p becomes s.
LEMMA ListChanged ==
  ASSUME NEW L, Inv(L), UNCHANGED <<tbl, fileSize, heap>>, NEW p \in Proc, NEW s,
         segs' = [segs EXCEPT ![p] = s], s \in Seq(Segments), Prefix(s, L),
         p # Grower => Len(s) <= tbl.count
  PROVE  /\ Layout(L)' /\ segs' \in [Proc -> Seq(Segments)] /\ segs'[p] = s
         /\ \A q \in Proc \ {p} : segs'[q] = segs[q]
<1>1. segs \in [Proc -> Seq(Segments)] /\ Layout(L)
  BY DEF Inv, Types
<1>2. segs' \in [Proc -> Seq(Segments)] /\ segs'[p] = s /\ \A q \in Proc \ {p} : segs'[q] = segs[q]
  BY <1>1
<1>3. \A q \in Proc : Prefix(segs'[q], L) /\ (q # Grower => Len(segs'[q]) <= tbl.count)
  <2> HIDE DEF Prefix
  <2> QED
    BY <1>1, <1>2 DEF Layout
<1>4. Layout(L)'
  BY <1>1, <1>3 DEF Layout
<1> QED
  BY <1>2, <1>4

\* No thread is updating the table when another of the growing process holds
\* a mutex that it would need, or when that process has no manager.
LEMMA NotUpdating ==
  ASSUME NEW L, Inv(L), NEW t \in Thread, P(t) = Grower, pc[t] \notin Updating,
         grow_mtx[P(t)] = t \/ list_mtx[P(t)] = t \/ ~attached[P(t)]
  PROVE  \A u \in Thread : pc[u] \notin Updating
<1> SUFFICES ASSUME NEW u \in Thread, pc[u] \in Updating PROVE FALSE
  OBVIOUS
<1>1. Placed(u)
  BY DEF Inv
<1> QED
  BY <1>1 DEF Placed, Updating, Growers, Growing, Listing

\* The constructor of another process maps sub-segment 0 and reads the count.
LEMMA AttachKeeps ==
  ASSUME NEW L, Inv(L), NEW t \in App, Attach(t)
  PROVE  Inv(L)'
<1> DEFINE p == P(t)
           r == [NoLoc EXCEPT !.i = tbl.count]
           e == [off |-> 0, size |-> tbl.entries[1].size]
<1>1. t \in Thread
  BY Threads
<1>2. /\ Types /\ Managers /\ DOMAIN hinted = Proc /\ p \in Proc /\ Layout(L)
      /\ ~attached[p] /\ segs[p] = <<>> /\ tbl.count \in Nat
  BY <1>1, Here DEF Attach
<1>3. r \in Locals /\ r.op = "none" /\ r.i = tbl.count
  BY <1>2, NoLocals DEF NoLoc, Locals
<1>4. Call(t, "attach", r) /\ "attach" \in PCs
  BY DEF Attach, PCs
<1> HIDE DEF r
<1>5. Goes(t, "attach", r) /\ pc[t] = "idle"
  BY <1>2, <1>3, <1>4, Called
<1>6. UNCHANGED <<hinted, grow_mtx, list_mtx, attached, name, tbl, heap, live, fileSize>>
  BY DEF Attach, world, shared
<1>7. Locks(t)
  BY <1>1, <1>2, <1>6, LocksLawful
<1>8. e = L[1] /\ e \in Segments /\ Len(L) > 0 /\ tbl.count > 0 /\ Len(L) \in Nat
  <2>1. tbl.entries[1] = L[1] /\ L[1] \in Segments /\ L[1].off = 0 /\ tbl.count > 0
    BY PublishedPart DEF Contiguous
  <2> QED
    BY <2>1, PublishedPart DEF Segments
<1>9. segs' = [segs EXCEPT ![p] = <<e>>]
  BY DEF Attach
<1> HIDE DEF e
<1>10. <<e>> \in Seq(Segments) /\ Len(<<e>>) = 1 /\ Prefix(<<e>>, L)
  BY <1>8 DEF Prefix
<1>11. /\ Layout(L)' /\ segs' \in [Proc -> Seq(Segments)] /\ segs'[p] = <<e>>
       /\ \A q \in Proc \ {p} : segs'[q] = segs[q]
  <2>1. 1 <= tbl.count
    BY <1>2, <1>8
  <2> QED
    BY <1>2, <1>6, <1>9, <1>10, <2>1, ListChanged
<1>12. StepOf(t) /\ Extends(L, L)
  BY <1>2, <1>5, <1>6, <1>7 DEF StepOf, Goes, Locks, Extends
<1>13. Types'
  BY <1>2, <1>5, <1>6, <1>7, <1>11 DEF Types, Goes, Locks
<1>14. \A u \in Thread \ {t} : P(u) = p => pc[u] = "idle"
  <2> SUFFICES ASSUME NEW u \in Thread \ {t}, P(u) = p PROVE pc[u] = "idle"
    OBVIOUS
  <2>1. Placed(u)
    BY DEF Inv
  <2> QED
    BY <1>2, <2>1 DEF Placed
<1>15. ASSUME NEW u \in Thread \ {t} PROVE Respects(L, L, u)
  <2>1. P(u) \in Proc /\ (pc[u] # "idle" => segs'[P(u)] = segs[P(u)])
    BY <1>11, <1>14, Threads
  <2>2. segs[P(u)] \in Seq(Segments)
    BY <1>2, <2>1 DEF Types
  <2> QED
    BY <1>6, <2>1, <2>2 DEF Respects
<1>16. Progress(L)'
  <2>1. Progress(L) /\ \A u \in Thread : (pc'[u] \in Updating \/ pc[u] \in Updating) => pc'[u] = pc[u]
    BY <1>5 DEF Inv, Goes, Updating
  <2>2. attached[Grower] => segs'[Grower] = segs[Grower]
    BY <1>2, <1>9
  <2> QED
    BY <1>6, <2>1, <2>2 DEF Progress, Updating
<1>17. Managers'
  <2>1. \A q \in Proc : attached[q] => segs'[q] = segs[q]
    BY <1>2, <1>11
  <2> QED
    BY <1>2, <1>6, <2>1 DEF Managers
<1>18. Alone'
  BY <1>1, <1>12, <1>14, AloneKept
<1>19. pc'[t] = "attach" /\ loc'[t] = r
  BY <1>5 DEF Goes
<1>20. Placed(t)'
  BY <1>1, <1>2, <1>6, <1>10, <1>11, <1>19, Threads DEF Placed, Growers, Growing, Listing
<1>21. Aware(L, t)'
  <2>1. pc'[t] \notin Growers
    BY <1>19 DEF Growers, Growing
  <2> QED
    BY <1>2, <1>3, <1>6, <1>19, <2>1 DEF Aware
<1>22. Blocks(L)'
  BY <1>1, <1>6, <1>12, <1>13, <1>19, AllPacked, BlocksKept DEF SameHeap
<1> QED
  BY <1>1, <1>11, <1>12, <1>13, <1>15, <1>16, <1>17, <1>18, <1>20, <1>21, <1>22, LoudStep

\* Mapping the next entry of the table.
LEMMA AddEntryKeeps ==
  ASSUME NEW L, Inv(L), NEW t \in App, AttachAdd(t) \/ DiscoverAdd(t)
  PROVE  Inv(L)'
<1> DEFINE p == P(t)
           n == Len(segs[p])
           e == tbl.entries[n + 1]
           s == Append(segs[p], e)
<1>1. t \in Thread
  BY Threads
<1>2. /\ Types /\ Placed(t) /\ Aware(L, t) /\ Managers /\ p \in Proc /\ Layout(L)
      /\ pc[t] \in {"attach", "discAdd"} /\ loc[t].i \in Nat /\ tbl.count \in Nat
  BY <1>1, Here DEF AttachAdd, DiscoverAdd, At
<1>3. UNCHANGED <<hinted, grow_mtx, list_mtx, attached, name, tbl, heap, live, fileSize, pc,
                  loc, outcome>>
  BY DEF AttachAdd, DiscoverAdd, world, shared
<1>4. segs' = [segs EXCEPT ![p] = s] /\ n < loc[t].i
  BY DEF AttachAdd, DiscoverAdd, AddEntry
<1>5. segs[p] \in Seq(Segments) /\ n \in Nat /\ Prefix(segs[p], L)
  BY <1>2 DEF Types, Layout
<1>6. n + 1 \in 1..tbl.count /\ n + 1 \in 1..Len(L)
  <2>1. loc[t].i <= tbl.count
    BY <1>2 DEF Aware
  <2> QED
    BY <1>2, <1>4, <1>5, <2>1, PublishedPart
<1>7. e = L[n + 1] /\ e \in Segments
  BY <1>6, PublishedPart
<1> HIDE DEF e
<1>8. s \in Seq(Segments) /\ Len(s) = n + 1 /\ s[n + 1] = e /\ \A i \in 1..n : s[i] = segs[p][i]
  BY <1>5, <1>7
<1> HIDE DEF s
<1>9. Prefix(s, L) /\ Len(s) <= tbl.count
  <2>1. Len(s) <= Len(L) /\ Len(s) <= tbl.count
    BY <1>5, <1>6, <1>8
  <2>2. ASSUME NEW i \in 1..Len(s) PROVE s[i] = L[i]
    <3>1. i = n + 1 \/ i \in 1..n
      BY <1>5, <1>8
    <3>2. i \in 1..n => segs[p][i] = L[i]
      BY <1>5 DEF Prefix
    <3> QED
      BY <1>7, <1>8, <3>1, <3>2
  <2> QED
    BY <2>1, <2>2 DEF Prefix
<1>10. /\ Layout(L)' /\ segs' \in [Proc -> Seq(Segments)] /\ segs'[p] = s
       /\ \A q \in Proc \ {p} : segs'[q] = segs[q]
  BY <1>2, <1>3, <1>4, <1>8, <1>9, ListChanged
<1>11. StepOf(t) /\ Extends(L, L)
  BY <1>2, <1>3 DEF StepOf, Lawful, Extends
<1>12. Types'
  BY <1>2, <1>3, <1>10 DEF Types
<1>13. \A q \in Proc : Len(segs'[q]) >= Len(segs[q]) /\ Len(segs[q]) \in Nat /\ Len(segs'[q]) \in Nat
  <2>1. \A q \in Proc : Len(segs[q]) \in Nat /\ Len(segs'[q]) \in Nat
    BY <1>2, <1>10 DEF Types
  <2> QED
    BY <1>5, <1>8, <1>10, <2>1
<1>14. \A u \in Thread : Respects(L, L, u)
  BY <1>3, <1>13, Threads DEF Respects
<1>15. Progress(L)'
  <2>1. CASE p = Grower
    <3>1. ~attached[Grower]
      <4>1. Progress(L) /\ n < Len(L)
        BY <1>5, <1>6, PublishedPart DEF Inv
      <4> QED
        BY <1>5, <2>1, <4>1, PublishedPart DEF Progress
    <3> QED
      BY <1>3, <3>1 DEF Inv, Progress
  <2>2. CASE p # Grower
    <3>1. segs'[Grower] = segs[Grower]
      BY <1>4, <2>2
    <3> QED
      BY <1>3, <3>1 DEF Inv, Progress
  <2> QED
    BY <2>1, <2>2
<1>16. Managers'
  BY <1>2, <1>3, <1>13 DEF Managers
<1>17. Alone' /\ Placed(t)'
  BY <1>2, <1>3, <1>13 DEF Inv, Alone, Placed
<1>18. Aware(L, t)'
  <2>1. MinBytes(t)' = MinBytes(t)
    BY <1>3 DEF MinBytes
  <2>2. pc[t] # "find"
    BY <1>2
  <2> HIDE DEF MinBytes, Holds
  <2> QED
    BY <1>2, <1>3, <2>1, <2>2 DEF Aware
<1>19. Blocks(L)'
  <2>1. pc'[t] # "free"
    BY <1>2, <1>3
  <2> QED
    BY <1>1, <1>3, <1>11, <1>12, <2>1, AllPacked, BlocksKept DEF SameHeap
<1> QED
  BY <1>1, <1>10, <1>11, <1>12, <1>14, <1>15, <1>16, <1>17, <1>18, <1>19, LoudStep

\* A constructor that throws, or a destructor, drops the list.
LEMMA DropKeeps ==
  ASSUME NEW L, Inv(L), NEW t \in App, AttachFail(t) \/ CloseEnd(t)
  PROVE  Inv(L)'
<1> DEFINE p == P(t)
<1>1. t \in Thread
  BY Threads
<1>2. /\ Types /\ Placed(t) /\ Managers /\ p \in Proc /\ Layout(L)
      /\ pc[t] \in {"attach", "close"} /\ tbl.count \in Nat
  BY <1>1, Here DEF AttachFail, CloseEnd, At
<1>3. /\ UNCHANGED <<hinted, grow_mtx, list_mtx, attached, tbl, heap, live, fileSize>>
      /\ name' \in {"linked", "unlinked"}
  <2>1. ~Anon /\ name \in {"linked", "unlinked"}
    BY <1>2 DEF Types, Anon
  <2> QED
    BY <2>1 DEF AttachFail, CloseEnd, world, shared
<1>4. segs' = [segs EXCEPT ![p] = <<>>]
  BY DEF AttachFail, CloseEnd
<1>5. PICK how \in Outcomes \ {"null"} : Return(t, how)
  BY DEF AttachFail, CloseEnd, Outcomes
<1>6. Goes(t, "idle", NoLoc)
  BY <1>1, <1>2, <1>5, Returned
<1>7. <<>> \in Seq(Segments) /\ Len(<<>>) = 0 /\ Prefix(<<>>, L)
  BY PublishedPart DEF Prefix
<1>8. /\ Layout(L)' /\ segs' \in [Proc -> Seq(Segments)]
      /\ \A q \in Proc \ {p} : segs'[q] = segs[q]
  <2>1. Len(<<>>) <= tbl.count
    BY <1>2, <1>7
  <2> QED
    BY <1>2, <1>3, <1>4, <1>7, <2>1, ListChanged
<1>9. StepOf(t) /\ Extends(L, L)
  BY <1>2, <1>3, <1>6 DEF StepOf, Goes, Lawful, Extends
<1>10. Types'
  BY <1>2, <1>3, <1>6, <1>8 DEF Types, Goes
<1>11. \A u \in Thread \ {t} : P(u) = p => pc[u] = "idle"
  BY <1>1, <1>2 DEF Inv, Alone
<1>12. ASSUME NEW u \in Thread \ {t} PROVE Respects(L, L, u)
  <2>1. P(u) \in Proc /\ (pc[u] # "idle" => segs'[P(u)] = segs[P(u)])
    BY <1>8, <1>11, Threads
  <2>2. segs[P(u)] \in Seq(Segments)
    BY <1>2, <2>1 DEF Types
  <2> QED
    BY <1>3, <2>1, <2>2 DEF Respects
<1>13. ~attached[p]
  BY <1>2 DEF Placed
<1>14. Progress(L)'
  <2>1. Progress(L) /\ \A u \in Thread : (pc'[u] \in Updating \/ pc[u] \in Updating) => pc'[u] = pc[u]
    BY <1>2, <1>6 DEF Inv, Goes, Updating
  <2>2. attached[Grower] => segs'[Grower] = segs[Grower]
    BY <1>4, <1>13
  <2> QED
    BY <1>3, <2>1, <2>2 DEF Progress, Updating
<1>15. Managers'
  <2>1. \A q \in Proc : attached[q] => segs'[q] = segs[q]
    BY <1>8, <1>13
  <2> QED
    BY <1>2, <1>3, <2>1 DEF Managers
<1>16. pc'[t] = "idle" /\ loc'[t].op # "alloc"
  BY <1>6, NoLocals DEF Goes
<1>17. Alone' /\ Placed(t)' /\ Aware(L, t)'
  BY <1>1, <1>9, <1>16, AloneKept, IdleIs
<1>18. Blocks(L)'
  BY <1>1, <1>3, <1>9, <1>10, <1>16, AllPacked, BlocksKept DEF SameHeap
<1> QED
  BY <1>1, <1>8, <1>9, <1>10, <1>12, <1>14, <1>15, <1>17, <1>18, LoudStep

\* The constructor of a manager is through; one that will grow has mapped
\* the whole layout.
LEMMA AttachEndKeeps ==
  ASSUME NEW L, Inv(L), Moderate, NEW t \in App, AttachEnd(t)
  PROVE  Inv(L)'
<1> DEFINE p == P(t)
<1>1. t \in Thread
  BY Threads
<1>2. /\ Types /\ Placed(t) /\ Aware(L, t) /\ Managers /\ p \in Proc /\ Layout(L)
      /\ pc[t] = "attach" /\ tbl.count \in Nat /\ loc[t].i \in Nat
  BY <1>1, Here DEF AttachEnd, At
<1>3. UNCHANGED <<segs, hinted, grow_mtx, list_mtx, name, tbl, heap, live, fileSize>>
  BY DEF AttachEnd, shared
<1>4. /\ attached' = [attached EXCEPT ![p] = TRUE] /\ Return(t, "ok")
      /\ Len(segs[p]) >= loc[t].i /\ "ok" \in Outcomes \ {"null"}
  BY DEF AttachEnd, Outcomes
<1>5. Goes(t, "idle", NoLoc)
  BY <1>1, <1>2, <1>4, Returned
<1>6. /\ attached' \in [Proc -> BOOLEAN] /\ attached'[p]
      /\ \A q \in Proc \ {p} : attached'[q] = attached[q]
  BY <1>2, <1>4 DEF Types
<1>7. StepOf(t) /\ Extends(L, L)
  BY <1>2, <1>3, <1>5 DEF StepOf, Goes, Lawful, Extends
<1>8. Types'
  BY <1>2, <1>3, <1>5, <1>6 DEF Types, Goes
<1>9. \A u \in Thread \ {t} : P(u) = p => pc[u] = "idle"
  BY <1>1, <1>2 DEF Inv, Alone
<1>10. ASSUME NEW u \in Thread \ {t} PROVE Respects(L, L, u)
  <2>1. P(u) \in Proc /\ (pc[u] # "idle" => attached'[P(u)] = attached[P(u)])
    BY <1>6, <1>9, Threads
  <2>2. segs[P(u)] \in Seq(Segments)
    BY <1>2, <2>1 DEF Types
  <2> QED
    BY <1>3, <2>1, <2>2 DEF Respects
<1>11. Layout(L)'
  BY <1>2, <1>3 DEF Layout
<1>12. Progress(L)'
  <2>1. Progress(L) /\ \A u \in Thread : (pc'[u] \in Updating \/ pc[u] \in Updating) => pc'[u] = pc[u]
    BY <1>2, <1>5 DEF Inv, Goes, Updating
  <2>2. attached'[Grower] => Len(segs[Grower]) = Len(L)
    <3>1. CASE p = Grower
      <4>1. ~attached[p] /\ pc[t] \notin Updating
        BY <1>2 DEF Placed, Updating
      <4>2. \A u \in Thread : pc[u] \notin Updating
        BY <1>1, <3>1, <4>1, NotUpdating
      <4>3. Len(L) = tbl.count /\ loc[t].i = tbl.count
        BY <1>2, <2>1, <3>1, <4>2 DEF Progress, Aware
      <4>4. Len(segs[p]) \in Nat /\ Len(segs[p]) <= Len(L) /\ Len(L) \in Nat
        BY <1>2, PublishedPart DEF Types, Layout, Prefix
      <4> QED
        BY <1>4, <3>1, <4>3, <4>4
    <3>2. CASE p # Grower
      <4>1. Grower \in Proc
        BY GrowerIs DEF Moderate
      <4> QED
        BY <1>6, <2>1, <3>2, <4>1 DEF Progress
    <3> QED
      BY <3>1, <3>2
  <2> QED
    BY <1>3, <2>1, <2>2 DEF Progress, Updating
<1>13. Managers'
  <2>1. Len(segs[p]) > 0
    BY <1>2 DEF Placed
  <2>2. \A q \in Proc : (attached'[q] => attached[q] \/ q = p) /\ (attached[q] => attached'[q])
    BY <1>6
  <2> QED
    BY <1>2, <1>3, <2>1, <2>2 DEF Managers
<1>14. pc'[t] = "idle" /\ loc'[t].op # "alloc"
  BY <1>5, NoLocals DEF Goes
<1>15. Alone' /\ Placed(t)' /\ Aware(L, t)'
  BY <1>1, <1>7, <1>14, AloneKept, IdleIs
<1>16. Blocks(L)'
  BY <1>1, <1>3, <1>7, <1>8, <1>14, AllPacked, BlocksKept DEF SameHeap
<1> QED
  BY <1>1, <1>7, <1>8, <1>10, <1>11, <1>12, <1>13, <1>15, <1>16, LoudStep

\* A destructor marks the heaps, and leaves their blocks.
LEMMA CloseHeaps ==
  ASSUME Types, NEW t \in App, Close(t)
  PROVE  /\ DOMAIN heap' = DOMAIN heap
         /\ \A o \in DOMAIN heap : /\ heap'[o] \in Heap /\ heap'[o].blocks = heap[o].blocks
                                   /\ heap'[o].size = heap[o].size
<1> DEFINE h(o) == [heap[o] EXCEPT !.ended =
                     @ \/ \E i \in 1..Len(segs[P(t)]) : segs[P(t)][i].off = o]
<1>1. heap' = [o \in DOMAIN heap |-> h(o)]
  BY DEF Close
<1>2. ASSUME NEW o \in DOMAIN heap
      PROVE  h(o) \in Heap /\ h(o).blocks = heap[o].blocks /\ h(o).size = heap[o].size
  <2>1. heap[o] \in Heap
    BY DEF Types
  <2> DEFINE x == \E i \in 1..Len(segs[P(t)]) : segs[P(t)][i].off = o
  <2>2. (heap[o].ended \/ x) \in BOOLEAN
    OBVIOUS
  <2> HIDE DEF x
  <2>3. h(o) = [heap[o] EXCEPT !.ended = @ \/ x]
    BY DEF x
  <2> HIDE DEF h
  <2> QED
    BY <2>1, <2>2, <2>3 DEF Heap
<1> HIDE DEF h
<1> QED
  BY <1>1, <1>2

\* The destructor of a manager starts.
LEMMA CloseKeeps ==
  ASSUME NEW L, Inv(L), Moderate, NEW t \in App, Close(t)
  PROVE  Inv(L)'
<1> DEFINE p == P(t)
<1>1. t \in Thread
  BY Threads
<1>2. /\ Types /\ Managers /\ p \in Proc /\ Layout(L) /\ DOMAIN hinted = Proc
      /\ tbl.count \in Nat /\ attached[p]
  BY <1>1, Here DEF Close
<1>3. /\ UNCHANGED <<segs, grow_mtx, list_mtx, name, tbl, live, fileSize>>
      /\ attached' = [attached EXCEPT ![p] = FALSE] /\ hinted' = [hinted EXCEPT ![p] = FALSE]
      /\ \A u \in Thread : P(u) = p => pc[u] = "idle"
      /\ Call(t, "close", NoLoc) /\ "close" \in PCs
  BY DEF Close, PCs
<1>4. Goes(t, "close", NoLoc) /\ pc[t] = "idle"
  BY <1>2, <1>3, NoLocals, Called
<1>5. /\ attached' \in [Proc -> BOOLEAN] /\ ~attached'[p] /\ DOMAIN hinted' = Proc /\ ~hinted'[p]
      /\ \A q \in Proc \ {p} : attached'[q] = attached[q] /\ hinted'[q] = hinted[q]
  BY <1>2, <1>3 DEF Types
<1>6. /\ DOMAIN heap' = DOMAIN heap
      /\ \A o \in DOMAIN heap : /\ heap'[o] \in Heap /\ heap'[o].blocks = heap[o].blocks
                                /\ heap'[o].size = heap[o].size
  BY <1>2, CloseHeaps
<1>7. StepOf(t) /\ Extends(L, L)
  BY <1>2, <1>3, <1>4 DEF StepOf, Goes, Lawful, Extends
<1>8. Types'
  BY <1>2, <1>3, <1>4, <1>5, <1>6 DEF Types, Goes
<1>9. ASSUME NEW u \in Thread \ {t} PROVE Respects(L, L, u)
  <2>1. P(u) \in Proc /\ (pc[u] # "idle" => attached'[P(u)] = attached[P(u)])
    BY <1>3, <1>5, Threads
  <2>2. segs[P(u)] \in Seq(Segments)
    BY <1>2, <2>1 DEF Types
  <2>3. segs'[P(u)] = segs[P(u)] /\ fileSize' = fileSize /\ tbl'.count = tbl.count
    BY <1>3
  <2> QED
    BY <2>1, <2>2, <2>3 DEF Respects
<1>10. Layout(L)'
  <2>1. \A i \in 1..Len(L) : heap'[L[i].off].size = L[i].size
    BY <1>2, <1>6 DEF Layout
  <2> QED
    BY <1>2, <1>3, <1>6, <2>1 DEF Layout
<1>11. Progress(L)'
  <2>1. Progress(L) /\ \A u \in Thread : (pc'[u] \in Updating \/ pc[u] \in Updating) => pc'[u] = pc[u]
    BY <1>4 DEF Inv, Goes, Updating
  <2>2. Grower \in Proc
    BY GrowerIs DEF Moderate
  <2>3. attached'[Grower] => attached[Grower]
    BY <1>5, <2>2
  <2> QED
    BY <1>3, <2>1, <2>3 DEF Progress, Updating
<1>12. Managers'
  BY <1>2, <1>3, <1>5 DEF Managers
<1>13. Alone'
  BY <1>1, <1>3, <1>7, AloneKept
<1>14. pc'[t] = "close" /\ loc'[t] = NoLoc /\ Len(segs[p]) > 0
  BY <1>2, <1>4 DEF Goes, Managers
<1>15. Placed(t)'
  BY <1>1, <1>3, <1>5, <1>14, Threads DEF Placed, Growers, Growing, Listing
<1>16. Aware(L, t)'
  <2>1. pc'[t] \notin Growers
    BY <1>14 DEF Growers, Growing
  <2> QED
    BY <1>14, <2>1 DEF Aware
<1>17. Blocks(L)'
  <2>1. \A o \in DOMAIN heap : SameHeap(o)
    BY <1>6 DEF SameHeap
  <2>2. \A o \in DOMAIN heap' : Packed(heap'[o])
    BY <1>6, AllPacked DEF Packed
  <2> QED
    BY <1>1, <1>3, <1>7, <1>8, <1>14, <2>1, <2>2, BlocksKept
<1> QED
  BY <1>1, <1>7, <1>8, <1>9, <1>10, <1>11, <1>12, <1>13, <1>15, <1>16, <1>17, LoudStep


----------------------------------------------------------------------------
(* Growth.                                                                 *)

\* Nothing happens to what the invariant is about when a process dies.
LEMMA SameKeeps ==
  ASSUME NEW L, Inv(L),
         UNCHANGED <<segs, list_mtx, grow_mtx, hinted, attached, name, fileSize, tbl, heap, live,
                     pc, loc, outcome>>
  PROVE  Inv(L)'
<1>1. UNCHANGED <<segs, list_mtx, grow_mtx, hinted, attached, name, fileSize, tbl, heap, live,
                  pc, loc, outcome>>
  OBVIOUS
<1>2. Types' /\ Layout(L)' /\ Progress(L)' /\ Managers' /\ Alone'
  <2>1. Types /\ Layout(L) /\ Progress(L) /\ Managers /\ Alone
    BY DEF Inv
  <2>2. Types'
    BY <1>1, <2>1 DEF Types
  <2>3. Layout(L)'
    BY <1>1, <2>1 DEF Layout
  <2>4. Progress(L)'
    BY <1>1, <2>1 DEF Progress
  <2>5. Managers' /\ Alone'
    BY <1>1, <2>1 DEF Managers, Alone
  <2> QED
    BY <2>2, <2>3, <2>4, <2>5
<1>3. ASSUME NEW u \in Thread PROVE Placed(u)' /\ Aware(L, u)' /\ Frees(u)'
  <2>1. Placed(u) /\ Aware(L, u) /\ Frees(u)
    BY DEF Inv, Blocks
  <2>2. MinBytes(u)' = MinBytes(u)
    BY <1>1 DEF MinBytes
  <2>3. \A b : Known(b)' = Known(b)
    BY <1>1 DEF Known
  <2> HIDE DEF MinBytes, Known, SameBlock
  <2>4. Placed(u)' /\ Frees(u)'
    BY <1>1, <2>1, <2>3 DEF Placed, Frees
  <2>5. Aware(L, u)'
    BY <1>1, <2>1, <2>2 DEF Aware
  <2> QED
    BY <2>4, <2>5
<1>4. Blocks(L)'
  BY <1>1, <1>3 DEF Inv, Blocks, Known
<1> QED
  BY <1>2, <1>3, <1>4 DEF Inv

\* One thread grows at a time.
LEMMA OneGrows ==
  ASSUME NEW L, Inv(L), NEW t \in Thread, pc[t] \in Growing, NEW u \in Thread \ {t}
  PROVE  pc[u] \notin Growing
BY DEF Inv, Placed, Growers

\* The grower cannot be starting while one of its threads grows.
LEMMA NobodyAttaches ==
  ASSUME NEW L, Inv(L), NEW t \in Thread, pc[t] \in Growing, NEW u \in Thread, P(u) = Grower
  PROVE  pc[u] \notin {"attach", "close"}
BY DEF Inv, Placed, Growers, Growing

\* The heaps end where the layout ends.
LEMMA HeapsEnd ==
  ASSUME NEW L, Inv(L), NEW o \in DOMAIN heap
  PROVE  /\ o \in Nat /\ heap[o].size \in Nat \ {0} /\ o + heap[o].size <= End(L)
         /\ End(L) \in Nat
<1>1. Layout(L) /\ Contiguous(L)
  BY DEF Inv, Layout
<1>2. PICK i \in 1..Len(L) : o = L[i].off
  BY <1>1 DEF Layout
<1>3. heap[o].size = L[i].size
  BY <1>1, <1>2 DEF Layout
<1>4. L[i].off \in Nat /\ L[i].size \in Nat \ {0} /\ End(L) \in Nat
  BY <1>1, LayoutTypes
<1>5. L[i].off + L[i].size <= End(L)
  BY <1>1, Within
<1> QED
  BY <1>2, <1>3, <1>4, <1>5

\* The size that shm_grow sets does not wrap, and cuts off no heap.
LEMMA FileHeaps ==
  ASSUME NEW L, Inv(L), NEW t \in Thread, pc[t] = "growFile",
         NEW new, new = (loc[t].cur + loc[t].chunk) % Word
  PROVE  /\ new = loc[t].cur + loc[t].chunk
         /\ new \in Nat /\ End(L) <= new
         /\ \A o \in DOMAIN heap : o + heap[o].size <= new
<1>1. Aware(L, t) /\ loc[t].cur \in Nat /\ loc[t].chunk \in Nat
  BY Here
<1>2. loc[t].cur = End(L) /\ loc[t].chunk > 0 /\ loc[t].cur + loc[t].chunk < Word
  BY <1>1 DEF Aware
<1>3. new = loc[t].cur + loc[t].chunk
  <2>1. \A n \in Nat : n < Word => n % Word = n
    BY Numbers
  <2>2. loc[t].cur + loc[t].chunk \in Nat
    BY <1>1
  <2> QED
    BY <1>2, <2>1, <2>2
<1>4. new \in Nat /\ End(L) <= new /\ End(L) \in Nat
  BY <1>1, <1>2, <1>3
<1>5. ASSUME NEW o \in DOMAIN heap PROVE o + heap[o].size <= new
  <2>1. o \in Nat /\ heap[o].size \in Nat /\ o + heap[o].size <= End(L)
    BY HeapsEnd
  <2> QED
    BY <1>4, <2>1
<1> QED
  BY <1>3, <1>4, <1>5

\* shm_grow: what is there stays there.
LEMMA GrowFileKeeps ==
  ASSUME NEW L, Inv(L), NEW t \in Thread, GrowFile(t)
  PROVE  Inv(L)'
<1> DEFINE new == (loc[t].cur + loc[t].chunk) % Word
<1>1. /\ Types /\ Placed(t) /\ Aware(L, t) /\ Managers /\ Layout(L) /\ pc[t] = "growFile"
      /\ loc[t].cur \in Nat /\ loc[t].chunk \in Nat /\ P(t) \in Proc /\ loc[t] \in Locals
  BY Here DEF GrowFile, At
<1>2. ~Anon
  BY <1>1 DEF Types, Anon
<1>3. UNCHANGED <<segs, list_mtx, hinted, attached, name, tbl, live>>
  BY DEF GrowFile, world
<1>4. CASE new > Limit \/ name = "unlinked"
  <2>1. EndGrow(t) /\ Return(t, "os_refused") /\ UNCHANGED <<fileSize, heap>>
    BY <1>2, <1>4 DEF GrowFile
  <2>2. pc[t] \in Growing \ Updating /\ "os_refused" \in Outcomes \ {"null"}
    BY <1>1 DEF Growing, Updating, Outcomes
  <2>3. Quiet
    BY <1>3, <2>1 DEF Quiet
  <2> QED
    BY <1>3, <2>1, <2>2, <2>3, GrowEndKeeps
<1>5. CASE ~(new > Limit \/ name = "unlinked")
  <2>1. /\ fileSize' = new
        /\ heap' = [o \in {x \in DOMAIN heap : x + heap[x].size <= new} |-> heap[o]]
        /\ Goto(t, "growAdd") /\ UNCHANGED <<grow_mtx, loc, outcome>>
    BY <1>2, <1>5 DEF GrowFile
  <2>2. loc[t].cur = End(L) /\ loc[t].chunk > 0 /\ loc[t].cur + loc[t].chunk < Word
    BY <1>1 DEF Aware
  <2>3. Limit \in Nat
    BY Numbers
  <2>4. new = loc[t].cur + loc[t].chunk /\ new \in Nat /\ End(L) <= new
    BY <1>1, FileHeaps
  <2>5. \A o \in DOMAIN heap : o + heap[o].size <= new
    BY <1>1, FileHeaps
  <2> HIDE DEF new
  <2>6. new <= Limit
    BY <1>5, <2>3, <2>4
  <2>7. DOMAIN heap' = DOMAIN heap /\ \A o \in DOMAIN heap : heap'[o] = heap[o]
    BY <2>1, <2>5
  <2>8. Goes(t, "growAdd", loc[t])
    <3>1. "growAdd" \in PCs
      BY DEF PCs
    <3> QED
      BY <1>1, <2>1, <3>1, WentOn
  <2>9. StepOf(t) /\ Extends(L, L)
    BY <1>1, <1>3, <2>1, <2>8 DEF StepOf, Goes, Lawful, Extends, Types
  <2>10. Types'
    BY <1>1, <1>3, <2>1, <2>4, <2>7, <2>8 DEF Types, Goes
  <2>11. ASSUME NEW u \in Thread \ {t} PROVE Respects(L, L, u)
    <3>1. pc[u] \notin {"growFile", "growAdd"}
      BY <1>1, OneGrows DEF Growing
    <3>2. segs[P(u)] \in Seq(Segments)
      BY <1>1, Threads DEF Types
    <3> QED
      BY <1>3, <3>1, <3>2 DEF Respects
  <2>12. Layout(L)'
    BY <1>1, <1>3, <2>1, <2>4, <2>6, <2>7 DEF Layout
  <2>13. Progress(L)'
    <3>1. Progress(L) /\ \A u \in Thread : (pc'[u] \in Updating \/ pc[u] \in Updating) => pc'[u] = pc[u]
      BY <1>1, <2>8 DEF Inv, Goes, Updating
    <3> QED
      BY <1>3, <3>1 DEF Progress, Updating
  <2>14. Managers'
    BY <1>1, <1>3, ManagersKept
  <2>15. pc'[t] = "growAdd" /\ loc'[t] = loc[t] /\ attached[P(t)]
    BY <1>1, <2>8 DEF Goes, Placed
  <2>16. Alone'
    <3>1. pc'[t] \notin {"attach", "close"}
      BY <2>15
    <3> QED
      BY <2>9, <2>15, <3>1, AloneKept
  <2>17. Placed(t)'
    BY <1>1, <1>3, <2>1, <2>15 DEF Placed, Growers, Growing, Listing
  <2>18. MinBytes(t)' = MinBytes(t)
    BY <2>15 DEF MinBytes
  <2>19. Aware(L, t)'
    <3> HIDE DEF MinBytes
    <3>1. t \in App => MinBytes(t)' \in Needs
      BY <1>1, <2>18 DEF Aware, Growers, Growing
    <3> QED
      BY <2>1, <2>2, <2>4, <2>15, <3>1 DEF Aware
  <2>20. Blocks(L)'
    <3>1. \A o \in DOMAIN heap : SameHeap(o)
      BY <2>7 DEF SameHeap
    <3>2. \A o \in DOMAIN heap' : Packed(heap'[o])
      BY <2>7, AllPacked
    <3>3. pc'[t] # "free"
      BY <2>15
    <3> QED
      BY <1>3, <2>9, <2>10, <3>1, <3>2, <3>3, BlocksKept
  <2> QED
    BY <2>9, <2>10, <2>11, <2>12, <2>13, <2>14, <2>16, <2>17, <2>19, <2>20, LoudStep
<1> QED
  BY <1>4, <1>5

\* The heaps after a new one has been constructed at the end of the layout.
LEMMA Constructed ==
  ASSUME NEW L, Inv(L), NEW n \in Nat \ {0}, heap' = Construct(End(L), n)
  PROVE  /\ DOMAIN heap' = DOMAIN heap \cup {End(L)}
         /\ \A o \in DOMAIN heap : heap'[o] = heap[o]
         /\ heap'[End(L)] = [size |-> n, blocks |-> {}, ended |-> FALSE]
<1> DEFINE e == End(L)
           h == [size |-> n, blocks |-> {}, ended |-> FALSE]
           D == {x \in DOMAIN heap : x + heap[x].size <= e \/ e + n <= x}
<1>1. heap' = [o \in D \cup {e} |-> IF o = e THEN h ELSE heap[o]]
  BY DEF Construct
<1>2. \A o \in DOMAIN heap : o + heap[o].size <= e /\ o # e
  <2> SUFFICES ASSUME NEW o \in DOMAIN heap PROVE o + heap[o].size <= e /\ o # e
    OBVIOUS
  <2>1. o \in Nat /\ heap[o].size \in Nat \ {0} /\ o + heap[o].size <= End(L) /\ End(L) \in Nat
    BY HeapsEnd
  <2> QED
    BY <2>1
<1>3. D = DOMAIN heap
  BY <1>2
<1> HIDE DEF D, e, h
<1>4. /\ DOMAIN heap' = DOMAIN heap \cup {e}
      /\ \A o \in DOMAIN heap : heap'[o] = heap[o]
      /\ heap'[e] = h
  BY <1>1, <1>2, <1>3
<1> QED
  BY <1>4 DEF e, h

\* The layout after it.
LEMMA LongerLayout ==
  ASSUME NEW L, Inv(L), NEW n \in Nat \ {0}, heap' = Construct(End(L), n),
         UNCHANGED <<tbl, fileSize>>, End(L) + n <= fileSize, Grower \in Proc,
         NEW e, e = [off |-> End(L), size |-> n], NEW M, GrownBy(L, e, M),
         NEW s, Len(s) = Len(M),
         s \in Seq(Segments), \A i \in 1..Len(M) : s[i] = M[i],
         segs' = [segs EXCEPT ![Grower] = s]
  PROVE  Layout(M)' /\ segs' \in [Proc -> Seq(Segments)] /\ segs'[Grower] = s
         /\ \A q \in Proc \ {Grower} : segs'[q] = segs[q]
<1>1. /\ Layout(L) /\ Contiguous(L) /\ segs \in [Proc -> Seq(Segments)] /\ fileSize \in Nat
      /\ tbl.entries \in Seq(Segments)
  BY DEF Inv, Layout, Types
<1>2. /\ Contiguous(M) /\ Len(M) = Len(L) + 1 /\ Len(L) \in Nat
      /\ M[Len(L) + 1] = e
      /\ \A i \in 1..Len(L) : M[i] = L[i]
      /\ End(M) = End(L) + n /\ End(L) \in Nat
  <2>1. Len(L) \in Nat /\ End(L) \in Nat
    BY <1>1, LayoutTypes
  <2>2. e.size = n
    OBVIOUS
  <2> QED
    BY <1>1, <2>1, <2>2, Longer
<1>3. /\ DOMAIN heap' = DOMAIN heap \cup {End(L)}
      /\ \A o \in DOMAIN heap : heap'[o] = heap[o]
      /\ heap'[End(L)] = [size |-> n, blocks |-> {}, ended |-> FALSE]
  BY Constructed
<1>4. /\ DOMAIN heap = {L[i].off : i \in 1..Len(L)}
      /\ \A i \in 1..Len(L) : heap[L[i].off].size = L[i].size
  BY <1>1 DEF Layout
<1>5. \A i \in 1..Len(M) : i \in 1..Len(L) \/ i = Len(L) + 1
  BY <1>2
<1>6. M[Len(L) + 1].off = End(L) /\ M[Len(L) + 1].size = n /\ Len(L) + 1 \in 1..Len(M)
  BY <1>2
<1>7. 1..Len(L) \subseteq 1..Len(M)
  BY <1>2
<1>8. DOMAIN heap' = {M[i].off : i \in 1..Len(M)}
  <2>1. ASSUME NEW o \in DOMAIN heap' PROVE \E i \in 1..Len(M) : o = M[i].off
    <3>1. CASE o = End(L)
      BY <1>6, <3>1
    <3>2. CASE o \in DOMAIN heap
      <4>1. PICK i \in 1..Len(L) : o = L[i].off
        BY <1>4, <3>2
      <4> QED
        BY <1>2, <1>7, <4>1
    <3> QED
      BY <1>3, <3>1, <3>2
  <2>2. ASSUME NEW i \in 1..Len(M) PROVE M[i].off \in DOMAIN heap'
    BY <1>2, <1>3, <1>4, <1>5, <1>6
  <2> QED
    BY <2>1, <2>2
<1>9. ASSUME NEW i \in 1..Len(M) PROVE heap'[M[i].off].size = M[i].size
  <2>1. CASE i \in 1..Len(L)
    <3>1. M[i] = L[i] /\ L[i].off \in DOMAIN heap /\ heap[L[i].off].size = L[i].size
      BY <1>2, <1>4, <2>1
    <3>2. heap'[L[i].off] = heap[L[i].off]
      BY <1>3, <3>1
    <3> QED
      BY <3>1, <3>2
  <2>2. CASE i = Len(L) + 1
    BY <1>3, <1>6, <2>2
  <2> QED
    BY <1>5, <2>1, <2>2
<1>10. \A x \in Seq(Segments) : Prefix(x, L) => Prefix(x, M)
  <2> SUFFICES ASSUME NEW x \in Seq(Segments), Prefix(x, L) PROVE Prefix(x, M)
    OBVIOUS
  <2>1. Len(x) \in Nat /\ Len(x) <= Len(L) /\ \A i \in 1..Len(x) : x[i] = L[i]
    BY DEF Prefix
  <2>2. Len(x) <= Len(M) /\ \A i \in 1..Len(x) : i \in 1..Len(L)
    BY <1>2, <2>1
  <2> QED
    BY <1>2, <2>1, <2>2 DEF Prefix
<1>11. Prefix(s, M)
  BY <1>2 DEF Prefix
<1>12. /\ segs' \in [Proc -> Seq(Segments)] /\ segs'[Grower] = s
       /\ \A q \in Proc \ {Grower} : segs'[q] = segs[q]
  BY <1>1
<1> HIDE DEF Prefix
<1>13. \A q \in Proc : Prefix(segs'[q], M) /\ (q # Grower => Len(segs'[q]) <= tbl.count)
  BY <1>1, <1>10, <1>11, <1>12 DEF Layout
<1>14. Prefix(tbl.entries, M) /\ tbl.count > 0 /\ tbl.count <= Len(tbl.entries) /\ fileSize <= Limit
  BY <1>1, <1>10 DEF Layout
<1>15. End(M) <= fileSize
  BY <1>2
<1> HIDE DEF Contiguous, End
<1>16. Layout(M)'
  BY <1>2, <1>8, <1>9, <1>13, <1>14, <1>15 DEF Layout
<1> QED
  BY <1>12, <1>16

\* add_segment_shm: the layout becomes longer by the new sub-segment.
LEMMA AddKeeps ==
  ASSUME NEW L, Inv(L), NEW t \in Thread, pc[t] = "growAdd", Add(t),
         UNCHANGED <<hinted, attached, name, fileSize, tbl, live>>
  PROVE  \E M : Inv(M)'
<1> DEFINE n == loc[t].chunk
           e == [off |-> End(L), size |-> n]
           s == Append(segs[P(t)], e)
<1>1. /\ Types /\ Placed(t) /\ Aware(L, t) /\ Managers /\ Layout(L) /\ P(t) \in Proc
      /\ loc[t] \in Locals /\ loc[t].chunk \in Nat
  BY Here
<1>2. P(t) = Grower /\ attached[Grower] /\ grow_mtx[P(t)] = t
  BY <1>1 DEF Placed, Growers, Growing
<1>3. loc[t].cur = End(L) /\ n \in Nat \ {0} /\ End(L) + n = fileSize
  BY <1>1 DEF Aware
<1>4. ~Anon
  BY <1>1 DEF Types, Anon
<1>5. /\ segs' = [segs EXCEPT ![Grower] = s]
      /\ heap' = Construct(End(L), n)
      /\ Acquire(t) /\ Goto(t, "tblEntry") /\ UNCHANGED <<loc, outcome, grow_mtx>>
  BY <1>2, <1>3, <1>4 DEF Add
<1>6. PICK M : M = Append(L, e)
  OBVIOUS
<1>7. Contiguous(L) /\ segs[Grower] \in Seq(Segments) /\ Len(segs[Grower]) = Len(L)
      /\ \A i \in 1..Len(L) : segs[Grower][i] = L[i]
  <2>1. pc[t] \in Growers
    BY DEF Growers, Growing
  <2> QED
    BY <1>1, <1>2, <2>1, GrowerMaps DEF Layout
<1>8. /\ Contiguous(M) /\ Len(M) = Len(L) + 1 /\ Len(L) \in Nat \ {0}
      /\ M[Len(L) + 1] = e /\ e \in Segments /\ GrownBy(L, e, M)
      /\ \A i \in 1..Len(L) : M[i] = L[i]
      /\ End(M) = End(L) + n /\ End(L) \in Nat
  <2>1. Len(L) \in Nat \ {0} /\ End(L) \in Nat
    BY <1>7, LayoutTypes
  <2>2. e \in Segments /\ e.off = End(L) /\ e.size = n
    BY <1>3, <2>1 DEF Segments
  <2> HIDE DEF e
  <2>3. GrownBy(L, e, M)
    BY <1>6, <2>2 DEF GrownBy
  <2> QED
    BY <1>6, <1>7, <2>1, <2>2, <2>3, Longer
<1> HIDE DEF n
<1>9. s \in Seq(Segments) /\ Len(s) = Len(M) /\ \A i \in 1..Len(M) : s[i] = M[i]
  <2> HIDE DEF e
  <2>1. s \in Seq(Segments) /\ Len(s) = Len(L) + 1 /\ s[Len(L) + 1] = e
    BY <1>2, <1>7, <1>8
  <2>2. \A i \in 1..Len(L) : s[i] = segs[Grower][i]
    BY <1>2, <1>7, <1>8
  <2>3. \A i \in 1..Len(M) : i \in 1..Len(L) \/ i = Len(L) + 1
    BY <1>8
  <2> QED
    BY <1>7, <1>8, <2>1, <2>2, <2>3
<1> HIDE DEF s
<1>10. /\ Layout(M)' /\ segs' \in [Proc -> Seq(Segments)] /\ segs'[Grower] = s
       /\ \A q \in Proc \ {Grower} : segs'[q] = segs[q]
  <2>1. End(L) + n <= fileSize /\ Grower \in Proc
    BY <1>1, <1>2, <1>3, <1>8
  <2>2. n \in Nat \ {0} /\ heap' = Construct(End(L), n) /\ segs' = [segs EXCEPT ![Grower] = s]
    BY <1>3, <1>5
  <2>3. e = [off |-> End(L), size |-> n] /\ GrownBy(L, e, M)
    BY <1>8
  <2> HIDE DEF e
  <2> QED
    BY <1>9, <2>1, <2>2, <2>3, LongerLayout
<1> HIDE DEF e
<1>11. /\ DOMAIN heap' = DOMAIN heap \cup {End(L)}
       /\ \A o \in DOMAIN heap : heap'[o] = heap[o]
       /\ heap'[End(L)] = [size |-> n, blocks |-> {}, ended |-> FALSE]
  BY <1>3, <1>5, Constructed
<1>12. Goes(t, "tblEntry", loc[t])
  <2>1. "tblEntry" \in PCs
    BY DEF PCs
  <2> QED
    BY <1>1, <1>5, <2>1, WentOn
<1>13. Locks(t) /\ list_mtx'[P(t)] = t
  BY <1>1, <1>5, LocksLawful
<1>14. StepOf(t) /\ Extends(L, M)
  BY <1>1, <1>8, <1>12, <1>13 DEF StepOf, Goes, Locks, Extends, Types
<1>15. heap'[End(L)] \in Heap /\ Packed(heap'[End(L)])
  BY <1>3, <1>11 DEF Heap, Packed
<1>16. Types'
  <2>1. \A o \in DOMAIN heap' : heap'[o] \in Heap
    BY <1>1, <1>11, <1>15 DEF Types
  <2> QED
    BY <1>1, <1>10, <1>12, <1>13, <2>1 DEF Types, Goes, Locks
<1>17. \A q \in Proc : Len(segs'[q]) >= Len(segs[q]) /\ Len(segs[q]) \in Nat /\ Len(segs'[q]) \in Nat
  <2>1. \A q \in Proc : Len(segs[q]) \in Nat /\ Len(segs'[q]) \in Nat
    BY <1>1, <1>10 DEF Types
  <2> QED
    BY <1>7, <1>8, <1>9, <1>10, <2>1
<1>18. ASSUME NEW u \in Thread \ {t} PROVE Respects(L, M, u)
  <2>1. pc[u] \notin {"growFile", "growAdd"}
    BY OneGrows DEF Growing
  <2>2. P(u) \in Proc
    BY Threads
  <2> QED
    BY <1>17, <2>1, <2>2 DEF Respects
<1>19. \A u \in Thread : pc[u] \notin Updating
  <2>1. pc[t] \notin Updating
    BY DEF Updating
  <2> QED
    BY <1>2, <2>1, NotUpdating
<1>20. Len(L) = tbl.count /\ Len(tbl.entries) = tbl.count
  BY <1>19 DEF Inv, Progress
<1>21. pc'[t] = "tblEntry" /\ loc'[t] = loc[t] /\ \A u \in Thread \ {t} : pc'[u] \notin Updating
  BY <1>12, <1>19 DEF Goes
<1>22. Progress(M)'
  <2>1. \A u \in Thread : u # t => pc'[u] # "tblEntry" /\ pc'[u] # "tblCount"
    BY <1>21 DEF Updating
  <2>2. pc'[t] \in Updating
    BY <1>21 DEF Updating
  <2>3. Len(segs'[Grower]) = Len(M)
    BY <1>9, <1>10
  <2> QED
    BY <1>8, <1>20, <1>21, <2>1, <2>2, <2>3 DEF Progress
<1>23. Managers'
  BY <1>1, <1>17 DEF Managers
<1>24. Alone'
  <2>1. pc'[t] \notin {"attach", "close"} /\ attached[P(t)]
    BY <1>2, <1>21
  <2> QED
    BY <1>14, <2>1, AloneKept
<1>25. Placed(t)'
  BY <1>1, <1>2, <1>5, <1>13, <1>21 DEF Placed, Growers, Growing, Listing
<1>26. MinBytes(t)' = MinBytes(t)
  BY <1>21 DEF MinBytes
<1>27. Aware(M, t)'
  <2> HIDE DEF MinBytes, Holds
  <2>1. t \in App => MinBytes(t)' \in Needs
    BY <1>1, <1>26 DEF Aware, Growers, Growing
  <2> QED
    BY <1>21, <2>1 DEF Aware
<1>28. Blocks(M)'
  <2>1. \A o \in DOMAIN heap : SameHeap(o)
    BY <1>11 DEF SameHeap
  <2>2. \A o \in DOMAIN heap' : Packed(heap'[o])
    BY <1>11, <1>15, AllPacked
  <2>3. pc'[t] # "free"
    BY <1>21
  <2> QED
    BY <1>14, <1>16, <2>1, <2>2, <2>3, BlocksKept
<1>29. Inv(M)'
  BY <1>10, <1>14, <1>16, <1>18, <1>22, <1>23, <1>24, <1>25, <1>27, <1>28, LoudStep
<1> QED
  BY <1>29

\* The thread that grows in the foreground, and the worker, which always
\* finds the list as it left it.
LEMMA GrowAddKeeps ==
  ASSUME NEW L, Inv(L), NEW t \in Thread, GrowAdd(t) \/ (t \in Proc /\ BgAdd(t))
  PROVE  \E M : Inv(M)'
<1>1. pc[t] = "growAdd"
  BY DEF GrowAdd, BgAdd, At
<1>2. UNCHANGED <<hinted, attached, name, fileSize, tbl, live>>
  BY DEF GrowAdd, BgAdd, world
<1>3. loc[t].cur = Mapped(segs[P(t)])
  <2>1. pc[t] \in Growers
    BY <1>1 DEF Growers, Growing
  <2> QED
    BY <1>1, <2>1, GrowerMaps, Here DEF Aware
<1>4. Add(t)
  <2>1. CASE GrowAdd(t)
    BY <2>1 DEF GrowAdd
  <2>2. CASE t \in Proc /\ BgAdd(t)
    BY <1>3, <2>2, Threads DEF BgAdd
  <2> QED
    BY <2>1, <2>2
<1> QED
  BY <1>1, <1>2, <1>4, AddKeeps

\* What update_segment_table finds.
LEMMA Unpublished ==
  ASSUME NEW L, Inv(L), NEW t \in Thread, pc[t] \in Updating
  PROVE  /\ P(t) = Grower /\ attached[Grower] /\ grow_mtx[P(t)] = t /\ list_mtx[P(t)] = t
         /\ segs[P(t)] \in Seq(Segments) /\ Len(segs[P(t)]) = Len(L)
         /\ \A i \in 1..Len(L) : segs[P(t)][i] = L[i]
         /\ Len(L) = tbl.count + 1 /\ tbl.count \in Nat \ {0}
         /\ \A u \in Thread \ {t} : pc[u] \notin Growing
<1>1. pc[t] \in Growing /\ pc[t] \in Growers /\ pc[t] \in Listing
  BY DEF Updating, Growing, Growers, Listing
<1>2. P(t) = Grower /\ grow_mtx[P(t)] = t /\ list_mtx[P(t)] = t /\ attached[P(t)]
  BY <1>1 DEF Inv, Placed, Growing, Updating
<1>3. Len(L) = tbl.count + 1
  BY DEF Inv, Progress, Updating
<1> QED
  BY <1>1, <1>2, <1>3, GrowerMaps, OneGrows, PublishedPart

\* update_segment_table writes the entry of the new sub-segment.
LEMMA TblEntryKeeps ==
  ASSUME NEW L, Inv(L), NEW t \in Thread, TblEntry(t)
  PROVE  Inv(L)'
<1> DEFINE n == Len(segs[P(t)])
           old == tbl.entries
           ent == [i \in 1..max(n, Len(old)) |->
                     IF i = n THEN segs[P(t)][n]
                     ELSE IF i <= Len(old) THEN old[i] ELSE [off |-> 0, size |-> 0]]
<1>1. /\ Types /\ Placed(t) /\ Aware(L, t) /\ Managers /\ Layout(L) /\ pc[t] = "tblEntry"
      /\ loc[t] \in Locals /\ P(t) \in Proc
  BY Here DEF TblEntry, At
<1>2. /\ P(t) = Grower /\ attached[Grower] /\ grow_mtx[P(t)] = t /\ list_mtx[P(t)] = t
      /\ \A i \in 1..Len(L) : segs[P(t)][i] = L[i]
      /\ n = Len(L) /\ Len(L) = tbl.count + 1 /\ tbl.count \in Nat \ {0}
      /\ \A u \in Thread \ {t} : pc[u] \notin Growing
  BY <1>1, Unpublished DEF Updating
<1>3. Len(old) = tbl.count
  BY <1>1 DEF Inv, Progress
<1>4. UNCHANGED <<segs, list_mtx, grow_mtx, hinted, attached, name, fileSize, heap, live, loc,
                  outcome>>
  BY DEF TblEntry, world
<1>5. tbl' = [tbl EXCEPT !.mtx = t, !.entries = ent] /\ Goto(t, "tblCount")
  BY DEF TblEntry
<1>6. ent = [i \in 1..Len(L) |-> L[i]]
  <2>1. max(n, Len(old)) = Len(L)
    BY <1>2, <1>3 DEF max
  <2>2. ASSUME NEW i \in 1..Len(L)
        PROVE  L[i] = IF i = n THEN segs[P(t)][n]
                      ELSE IF i <= Len(old) THEN old[i] ELSE [off |-> 0, size |-> 0]
    <3>1. i = n \/ i \in 1..Len(old)
      BY <1>2, <1>3
    <3>2. i \in 1..Len(old) => i <= Len(old) /\ old[i] = L[i]
      BY <1>1 DEF Layout, Prefix
    <3> QED
      BY <1>2, <3>1, <3>2
  <2> QED
    BY <2>1, <2>2
<1> HIDE DEF ent, n, old
<1>7. ent \in Seq(Segments) /\ Len(ent) = Len(L) /\ \A i \in 1..Len(L) : ent[i] = L[i]
  <2>1. Len(L) \in Nat /\ \A i \in 1..Len(L) : L[i] \in Segments
    BY <1>1, LayoutTypes DEF Layout
  <2> QED
    BY <1>6, <2>1
<1>8. /\ tbl' \in [count : Nat, entries : Seq(Segments), mtx : Thread \cup {None}]
      /\ tbl'.count = tbl.count /\ tbl'.entries = ent
  BY <1>1, <1>5, <1>7 DEF Types
<1>9. Goes(t, "tblCount", loc[t])
  <2>1. "tblCount" \in PCs
    BY DEF PCs
  <2> QED
    BY <1>1, <1>4, <1>5, <2>1, WentOn
<1>10. StepOf(t) /\ Extends(L, L)
  BY <1>2, <1>4, <1>8, <1>9 DEF StepOf, Goes, Lawful, Extends
<1>11. Types'
  BY <1>1, <1>4, <1>8, <1>9 DEF Types, Goes
<1>12. ASSUME NEW u \in Thread \ {t} PROVE Respects(L, L, u)
  <2>1. P(u) \in Proc /\ segs[P(u)] \in Seq(Segments)
    BY <1>1, Threads DEF Types
  <2> QED
    BY <1>4, <1>8, <2>1 DEF Respects
<1>13. Layout(L)'
  <2>1. Prefix(ent, L) /\ tbl.count <= Len(ent) /\ tbl.count > 0
    BY <1>2, <1>7 DEF Prefix
  <2> HIDE DEF Prefix
  <2> QED
    BY <1>1, <1>4, <1>8, <2>1 DEF Layout
<1>14. pc'[t] = "tblCount" /\ loc'[t] = loc[t] /\ \A u \in Thread \ {t} : pc'[u] = pc[u]
  BY <1>9 DEF Goes
<1>15. Progress(L)'
  <2>1. \A u \in Thread : u # t => pc'[u] # "tblEntry" /\ pc'[u] # "tblCount"
    BY <1>2, <1>14 DEF Growing
  <2>2. pc'[t] \in Updating
    BY <1>14 DEF Updating
  <2>3. attached'[Grower] => Len(segs'[Grower]) = Len(L)
    BY <1>2, <1>4 DEF n
  <2> QED
    BY <1>2, <1>7, <1>8, <1>14, <2>1, <2>2, <2>3 DEF Progress
<1>16. Managers'
  BY <1>1, <1>4, ManagersKept
<1>17. Alone'
  <2>1. pc'[t] \notin {"attach", "close"} /\ attached[P(t)]
    BY <1>2, <1>14
  <2> QED
    BY <1>10, <2>1, AloneKept
<1>18. Placed(t)'
  BY <1>1, <1>2, <1>4, <1>14 DEF Placed, Growers, Growing, Listing
<1>19. MinBytes(t)' = MinBytes(t)
  BY <1>14 DEF MinBytes
<1>20. Aware(L, t)'
  <2> HIDE DEF MinBytes, Holds
  <2>1. t \in App => MinBytes(t)' \in Needs
    BY <1>1, <1>19 DEF Aware, Growers, Growing
  <2> QED
    BY <1>14, <2>1 DEF Aware
<1>21. Blocks(L)'
  <2>1. \A o \in DOMAIN heap : SameHeap(o)
    BY <1>4 DEF SameHeap
  <2>2. \A o \in DOMAIN heap' : Packed(heap'[o])
    BY <1>4, AllPacked
  <2>3. pc'[t] # "free"
    BY <1>14
  <2> QED
    BY <1>4, <1>10, <1>11, <2>1, <2>2, <2>3, BlocksKept
<1> QED
  BY <1>10, <1>11, <1>12, <1>13, <1>15, <1>16, <1>17, <1>18, <1>20, <1>21, LoudStep

\* Where a thread goes when grow has returned.
LEMMA WentAfterGrow ==
  ASSUME NEW L, Inv(L), NEW t \in Thread, pc[t] \in Growing, AfterGrow(t)
  PROVE  \/ Goes(t, "idle", NoLoc)
         \/ Goes(t, "rescan", loc[t]) /\ loc[t].op = "alloc" /\ t \in App
<1>1. Types /\ Placed(t)
  BY Here
<1>2. CASE loc[t].op = "alloc"
  <2>1. Goto(t, "rescan") /\ UNCHANGED <<loc, outcome>> /\ "rescan" \in PCs /\ t \in App
    BY <1>1, <1>2 DEF AfterGrow, PCs, Placed, Thread
  <2> QED
    BY <1>1, <1>2, <2>1, WentOn
<1>3. CASE loc[t].op # "alloc"
  <2>1. Return(t, "ok") /\ "ok" \in Outcomes \ {"null"}
    BY <1>3 DEF AfterGrow, Outcomes
  <2> QED
    BY <1>1, <2>1, Returned
<1> QED
  BY <1>2, <1>3

\* update_segment_table publishes the new sub-segment, and grow returns.
LEMMA TblCountKeeps ==
  ASSUME NEW L, Inv(L), NEW t \in Thread, TblCount(t)
  PROVE  Inv(L)'
<1>1. /\ Types /\ Placed(t) /\ Aware(L, t) /\ Managers /\ Layout(L) /\ pc[t] = "tblCount"
      /\ loc[t] \in Locals /\ P(t) \in Proc
  BY Here DEF TblCount, At
<1>2. /\ P(t) = Grower /\ attached[Grower] /\ grow_mtx[P(t)] = t /\ list_mtx[P(t)] = t
      /\ Len(segs[P(t)]) = Len(L) /\ Len(L) = tbl.count + 1 /\ tbl.count \in Nat \ {0}
      /\ \A u \in Thread \ {t} : pc[u] \notin Growing
  BY <1>1, Unpublished DEF Updating
<1>3. Len(tbl.entries) = Len(L)
  BY <1>1 DEF Inv, Progress
<1>4. UNCHANGED <<segs, hinted, attached, name, fileSize, heap, live>>
  BY DEF TblCount, world
<1>5. tbl' = [tbl EXCEPT !.mtx = None, !.count = Len(L)]
  BY <1>2 DEF TblCount
<1>6. Release(t) /\ EndGrow(t) /\ AfterGrow(t)
  BY DEF TblCount
<1>7. Locks(t)
  BY <1>1, <1>2, <1>6, LocksLawful
<1>8. PICK x, r : /\ Goes(t, x, r)
                  /\ \/ x = "idle" /\ r = NoLoc
                     \/ x = "rescan" /\ r = loc[t] /\ loc[t].op = "alloc" /\ t \in App
  <2>1. pc[t] \in Growing
    BY <1>1 DEF Growing
  <2> QED
    BY <1>6, <2>1, WentAfterGrow
<1>9. /\ tbl' \in [count : Nat, entries : Seq(Segments), mtx : Thread \cup {None}]
      /\ tbl'.count = Len(L) /\ tbl'.entries = tbl.entries
  <2>1. Len(L) \in Nat
    BY <1>2
  <2>2. tbl \in [count : Nat, entries : Seq(Segments), mtx : Thread \cup {None}]
    BY <1>1 DEF Types
  <2> QED
    BY <1>5, <2>1, <2>2
<1>10. StepOf(t) /\ Extends(L, L)
  BY <1>2, <1>7, <1>8, <1>9 DEF StepOf, Goes, Locks, Extends
<1>11. Types'
  BY <1>1, <1>4, <1>7, <1>8, <1>9 DEF Types, Goes, Locks
<1>12. ASSUME NEW u \in Thread \ {t} PROVE Respects(L, L, u)
  <2>1. P(u) \in Proc /\ segs[P(u)] \in Seq(Segments)
    BY <1>1, Threads DEF Types
  <2>2. pc[u] = "attach" => P(u) # Grower
    BY <1>1, NobodyAttaches DEF Growing
  <2> QED
    BY <1>4, <2>1, <2>2 DEF Respects
<1>13. Layout(L)'
  <2>1. \A p \in Proc : Prefix(segs[p], L) /\ Len(segs[p]) <= Len(L)
    BY <1>1 DEF Layout, Prefix
  <2>2. Len(L) > 0 /\ Len(L) <= Len(tbl.entries)
    BY <1>2, <1>3
  <2> HIDE DEF Prefix
  <2> QED
    BY <1>1, <1>4, <1>9, <2>1, <2>2 DEF Layout
<1>14. /\ pc'[t] = x /\ loc'[t] = r /\ x \in {"idle", "rescan"}
       /\ \A u \in Thread \ {t} : pc'[u] = pc[u]
  BY <1>8 DEF Goes
<1>15. Progress(L)'
  <2>1. \A u \in Thread : pc'[u] # "tblEntry" /\ pc'[u] # "tblCount"
    BY <1>2, <1>14 DEF Growing
  <2>2. attached'[Grower] => Len(segs'[Grower]) = Len(L)
    BY <1>2, <1>4
  <2> QED
    BY <1>3, <1>9, <2>1, <2>2 DEF Progress
<1>16. Managers'
  BY <1>1, <1>4, ManagersKept
<1>17. Alone'
  <2>1. pc'[t] \notin {"attach", "close"} /\ attached[P(t)]
    BY <1>2, <1>14
  <2> QED
    BY <1>10, <2>1, AloneKept
<1>18. Placed(t)' /\ Aware(L, t)'
  <2>1. CASE x = "idle" /\ r = NoLoc
    <3>1. pc'[t] = "idle" /\ loc'[t].op # "alloc"
      BY <1>14, <2>1, NoLocals
    <3> QED
      BY <3>1, IdleIs
  <2>2. CASE x = "rescan" /\ r = loc[t] /\ loc[t].op = "alloc" /\ t \in App
    <3>1. pc'[t] = "rescan" /\ loc'[t] = loc[t] /\ t \notin Proc
      BY <1>14, <2>2, Threads
    <3>2. Placed(t)'
      BY <1>2, <1>4, <3>1 DEF Placed, Growing, Listing
    <3>3. MinBytes(t)' = MinBytes(t)
      BY <3>1 DEF MinBytes
    <3>4. MinBytes(t) \in Needs
      BY <1>1, <2>2 DEF Aware, Growers, Growing
    <3> HIDE DEF MinBytes
    <3>5. Aware(L, t)'
      BY <2>2, <3>1, <3>3, <3>4 DEF Aware
    <3> QED
      BY <3>2, <3>5
  <2> QED
    BY <1>8, <2>1, <2>2
<1>19. Blocks(L)'
  <2>1. \A o \in DOMAIN heap : SameHeap(o)
    BY <1>4 DEF SameHeap
  <2>2. \A o \in DOMAIN heap' : Packed(heap'[o])
    BY <1>4, AllPacked
  <2>3. pc'[t] # "free"
    BY <1>14
  <2> QED
    BY <1>4, <1>10, <1>11, <2>1, <2>2, <2>3, BlocksKept
<1> QED
  BY <1>10, <1>11, <1>12, <1>13, <1>15, <1>16, <1>17, <1>18, <1>19, LoudStep

----------------------------------------------------------------------------
(* The actions that change the blocks.                                     *)

\* The heap at o gets the blocks B.
LEMMA BlocksBecome ==
  ASSUME Types, NEW o \in DOMAIN heap, NEW B, B \subseteq [at : Nat, len : Nat \ {0}],
         heap' = [heap EXCEPT ![o].blocks = B]
  PROVE  /\ DOMAIN heap' = DOMAIN heap
         /\ heap'[o].blocks = B
         /\ \A y \in DOMAIN heap : heap'[y] \in Heap /\ heap'[y].size = heap[y].size
         /\ \A y \in DOMAIN heap : y # o => heap'[y] = heap[y]
<1> DEFINE h == [heap[o] EXCEPT !.blocks = B]
<1>1. DOMAIN heap' = DOMAIN heap /\ heap'[o] = h /\ \A y \in DOMAIN heap : y # o => heap'[y] = heap[y]
  OBVIOUS
<1>2. \A y \in DOMAIN heap : heap[y] \in Heap
  BY DEF Types
<1>3. h \in Heap /\ h.blocks = B /\ h.size = heap[o].size
  BY <1>2 DEF Heap
<1> HIDE DEF h
<1> QED
  BY <1>1, <1>2, <1>3

\* A step that only concerns blocks keeps the invariant if they are as they
\* should be.
LEMMA BlockStep ==
  ASSUME NEW L, Inv(L), NEW t \in Thread,
         UNCHANGED <<segs, attached, tbl, fileSize, name, hinted>>,
         DOMAIN heap' = DOMAIN heap, live' \subseteq Block,
         \A o \in DOMAIN heap : heap'[o] \in Heap /\ heap'[o].size = heap[o].size,
         Locks(t), NEW x, NEW r, Goes(t, x, r), pc[t] \notin Updating,
         x \notin Updating \cup {"attach", "close"}, x = "idle" \/ attached[P(t)],
         Placed(t)', Aware(L, t)', Blocks(L)'
  PROVE  Inv(L)'
<1>1. Types /\ Managers /\ Layout(L) /\ tbl.count \in Nat
  BY Here
<1>2. StepOf(t) /\ Extends(L, L)
  BY <1>1 DEF StepOf, Goes, Locks, Extends
<1>3. Types'
  BY <1>1 DEF Types, Goes, Locks
<1>4. ASSUME NEW u \in Thread \ {t} PROVE Respects(L, L, u)
  <2>1. P(u) \in Proc /\ segs[P(u)] \in Seq(Segments)
    BY <1>1, Threads DEF Types
  <2> QED
    BY <2>1 DEF Respects
<1>5. Layout(L)'
  <2>1. \A i \in 1..Len(L) : heap'[L[i].off].size = L[i].size
    BY <1>1 DEF Layout
  <2> QED
    BY <1>1, <2>1 DEF Layout
<1>6. Progress(L)'
  <2>1. Progress(L) /\ \A u \in Thread : (pc'[u] \in Updating \/ pc[u] \in Updating) => pc'[u] = pc[u]
    BY DEF Inv, Goes
  <2> QED
    BY <2>1 DEF Progress, Updating
<1>7. Managers'
  BY <1>1, ManagersKept
<1>8. Alone'
  <2>1. pc'[t] = "idle" \/ (pc'[t] \notin {"attach", "close"} /\ attached[P(t)])
    BY DEF Goes
  <2> QED
    BY <1>2, <2>1, AloneKept
<1> QED
  BY <1>2, <1>3, <1>4, <1>5, <1>6, <1>7, <1>8, LoudStep

\* A place that fits is free: no block of the heap is there.
LEMMA FitsApart ==
  ASSUME NEW h \in Heap, Packed(h), NEW n \in Nat \ {0}, NEW at \in Fits(h, n)
  PROVE  /\ at \in Nat /\ at < h.size
         /\ Packed([h EXCEPT !.blocks = @ \cup {[at |-> at, len |-> n]}])
         /\ \A m : [at |-> at, len |-> m] \notin h.blocks
<1> DEFINE x == [at |-> at, len |-> n]
<1>1. /\ h.blocks \subseteq [at : Nat, len : Nat \ {0}] /\ h.size \in Nat
  BY DEF Heap
<1>2. \A y \in h.blocks : y.at \in Nat /\ y.len \in Nat \ {0}
  BY <1>1
<1>3. at \in Nat
  <2>1. Header \in Nat
    BY Numbers
  <2> QED
    BY <1>2, <2>1 DEF Fits
<1>4. /\ at + n <= h.size
      /\ \A y \in h.blocks : y.at + y.len <= at \/ at + n <= y.at
  BY DEF Fits
<1>5. \A m : [at |-> at, len |-> m] \notin h.blocks
  <2> SUFFICES ASSUME NEW m, [at |-> at, len |-> m] \in h.blocks PROVE FALSE
    OBVIOUS
  <2>1. m \in Nat \ {0} /\ (at + m <= at \/ at + n <= at)
    BY <1>2, <1>4
  <2> QED
    BY <1>3, <2>1
<1>6. x.at = at /\ x.len = n
  OBVIOUS
<1> HIDE DEF x
<1> DEFINE g == [h EXCEPT !.blocks = @ \cup {x}]
<1>7. g.blocks = h.blocks \cup {x} /\ g.size = h.size
  BY DEF Heap
<1> HIDE DEF g
<1>8. Packed(g)
  BY <1>4, <1>6, <1>7 DEF Packed
<1>9. at < h.size
  BY <1>1, <1>3, <1>4
<1>10. Packed([h EXCEPT !.blocks = @ \cup {[at |-> at, len |-> n]}])
  BY <1>8 DEF g, x
<1> QED
  BY <1>3, <1>5, <1>9, <1>10

\* What a thread knows that scans sub-segment k.
LEMMA Scanned ==
  ASSUME NEW L, Inv(L), NEW t \in App, pc[t] = "scan", NEW k, k = loc[t].i,
         k <= Len(segs[P(t)])
  PROVE  /\ P(t) = Grower /\ attached[P(t)] /\ list_mtx[P(t)] = t
         /\ loc[t].op = "alloc" /\ MinBytes(t) \in Needs
         /\ Units(loc[t].bytes) \in Nat \ {0}
         /\ k \in 1..tbl.count /\ k \in 1..Len(L)
         /\ segs[P(t)][k].off = L[k].off /\ L[k].off \in Nat
         /\ heap[L[k].off].size = L[k].size
<1>1. t \in Thread
  BY Threads
<1>2. /\ Placed(t) /\ Aware(L, t) /\ Layout(L) /\ loc[t].bytes \in Nat /\ k \in Nat
  BY <1>1, Here
<1>3. P(t) = Grower /\ attached[P(t)] /\ list_mtx[P(t)] = t
  BY <1>2 DEF Placed, Growers, Listing
<1>4. loc[t].op = "alloc" /\ k > 0
  BY <1>2 DEF Aware
<1>5. MinBytes(t) \in Needs
  BY <1>2, <1>4 DEF Aware, Growers
<1>6. /\ Len(segs[P(t)]) = Len(L) /\ Len(L) \in Nat \ {0} /\ Contiguous(L)
      /\ \A i \in 1..Len(L) : segs[P(t)][i] = L[i]
  <2>1. pc[t] \in Growers
    BY DEF Growers
  <2> QED
    BY <1>1, <1>2, <2>1, GrowerMaps DEF Layout
<1>7. k \in 1..Len(L)
  BY <1>2, <1>4, <1>6
<1>8. segs[P(t)][k].off = L[k].off /\ L[k].off \in Nat
  BY <1>6, <1>7, LayoutTypes
<1>9. heap[L[k].off].size = L[k].size
  BY <1>2, <1>7 DEF Layout
<1>10. tbl.count = Len(L)
  <2>1. pc[t] \notin Updating
    BY DEF Updating
  <2>2. \A u \in Thread : pc[u] \notin Updating
    BY <1>1, <1>3, <2>1, NotUpdating
  <2> QED
    BY <2>2 DEF Inv, Progress
<1>11. Units(loc[t].bytes) \in Nat \ {0}
  BY <1>2, UnitsAre
<1> QED
  BY <1>3, <1>4, <1>5, <1>7, <1>8, <1>9, <1>10, <1>11

\* Thread t takes block b, at `at` in the heap at o.
Takes(t, o, at, b) ==
  /\ b = [off |-> o, at |-> at, len |-> Units(loc[t].bytes), ask |-> loc[t].ask]
  /\ heap' = [heap EXCEPT ![o].blocks = @ \cup {[at |-> at, len |-> Units(loc[t].bytes)]}]
  /\ live' = live \cup {b}

\* An allocation takes a place that nobody has.
LEMMA TakeKeeps ==
  ASSUME NEW L, Inv(L), NEW t \in App, At(t, "scan"), loc[t].i <= Len(segs[P(t)]),
         NEW o, o = segs[P(t)][loc[t].i].off, o \in DOMAIN heap,
         NEW at \in Fits(heap[o], Units(loc[t].bytes)),
         NEW b, Takes(t, o, at, b), Goto(t, "hint"),
         UNCHANGED <<segs, list_mtx, grow_mtx, hinted, attached, name, fileSize, tbl, loc,
                     outcome>>
  PROVE  Inv(L)'
<1> DEFINE n == Units(loc[t].bytes)
           k == loc[t].i
           x == [at |-> at, len |-> n]
<1>1. t \in Thread
  BY Threads
<1>2. /\ Types /\ Placed(t) /\ Aware(L, t) /\ Managers /\ Layout(L) /\ pc[t] = "scan"
      /\ loc[t] \in Locals /\ P(t) \in Proc /\ k \in Nat /\ loc[t].ask \in Nat
      /\ tbl.count \in Nat
  BY <1>1, Here DEF At
<1>3. /\ P(t) = Grower /\ attached[P(t)] /\ list_mtx[P(t)] = t
      /\ loc[t].op = "alloc" /\ MinBytes(t) \in Needs
  BY <1>2, Scanned
<1>4. n \in Nat \ {0}
  BY <1>2, Scanned
<1>5. k \in 1..tbl.count /\ k \in 1..Len(L) /\ o = L[k].off /\ o \in Nat
  BY <1>2, Scanned
<1>6. heap[o].size = L[k].size
  BY <1>2, <1>5, Scanned
<1>7. heap[o] \in Heap /\ Packed(heap[o])
  BY <1>2, AllPacked DEF Types
<1>8. /\ at \in Nat /\ at < heap[o].size
      /\ Packed([heap[o] EXCEPT !.blocks = @ \cup {x}])
      /\ \A m : [at |-> at, len |-> m] \notin heap[o].blocks
  BY <1>4, <1>7, FitsApart
<1>9. x \in [at : Nat, len : Nat \ {0}]
  BY <1>4, <1>8
<1>10. b \in Block /\ b.off = o /\ b.at = at /\ b.len = n
  BY <1>2, <1>4, <1>5, <1>8 DEF Block, Takes
<1>11. ASSUME NEW c, Known(c) PROVE ~SameBlock(b, c)
  BY <1>8, <1>10, <1>11 DEF Known, SameBlock
<1> DEFINE B == heap[o].blocks \cup {x}
<1>12. heap' = [heap EXCEPT ![o].blocks = B] /\ B \subseteq [at : Nat, len : Nat \ {0}]
  BY <1>7, <1>9 DEF Heap, Takes
<1> HIDE DEF x, n, k
<1>13. /\ DOMAIN heap' = DOMAIN heap
       /\ heap'[o].blocks = B
       /\ \A y \in DOMAIN heap : heap'[y] \in Heap /\ heap'[y].size = heap[y].size
       /\ \A y \in DOMAIN heap : y # o => heap'[y] = heap[y]
  <2> HIDE DEF B
  <2> QED
    BY <1>2, <1>12, BlocksBecome
<1>14. Goes(t, "hint", loc[t])
  <2>1. "hint" \in PCs
    BY DEF PCs
  <2> QED
    BY <1>1, <1>2, <2>1, WentOn
<1>15. pc'[t] = "hint" /\ loc'[t] = loc[t] /\ \A u \in Thread \ {t} : pc'[u] = pc[u] /\ loc'[u] = loc[u]
  BY <1>14 DEF Goes
<1>16. Locks(t)
  BY <1>1, <1>2, LocksLawful
<1>17. Placed(t)'
  BY <1>2, <1>15 DEF Placed, Growers, Growing, Listing
<1>18. MinBytes(t)' = MinBytes(t)
  BY <1>15 DEF MinBytes
<1>19. Aware(L, t)'
  <2> HIDE DEF MinBytes, Holds
  <2> QED
    BY <1>3, <1>15, <1>18 DEF Aware
<1>20. \A c : Known(c) => Known(c)'
  BY <1>13 DEF Known
<1>21. Known(b)'
  BY <1>10, <1>13 DEF Known, x
<1>22. ASSUME NEW y \in DOMAIN heap' PROVE Packed(heap'[y])
  <2>1. CASE y = o
    <3>1. Packed([heap[o] EXCEPT !.blocks = B])
      BY <1>8
    <3>2. heap'[o] = [heap[o] EXCEPT !.blocks = B]
      BY <1>12
    <3> QED
      BY <2>1, <3>1, <3>2
  <2>2. CASE y # o
    BY <1>13, <2>2, AllPacked
  <2> QED
    BY <2>1, <2>2
<1>23. \A c \in live : Known(c) /\ \E j \in 1..tbl.count : Holds(L, j, c)
  BY DEF Inv, Blocks
<1>24. k \in 1..tbl.count /\ Holds(L, k, b)
  BY <1>5, <1>6, <1>8, <1>10 DEF Holds
<1>25. \A c \in live' : Known(c)' /\ \E j \in 1..tbl'.count : Holds(L, j, c)
  <2> HIDE DEF Known, Holds
  <2> QED
    BY <1>20, <1>21, <1>23, <1>24 DEF Takes
<1>26. ASSUME NEW c \in live', NEW d \in live', SameBlock(c, d) PROVE c = d
  <2>1. c \in live /\ d \in live => c = d
    BY <1>26 DEF Inv, Blocks
  <2>2. \A a \in live : ~SameBlock(b, a) /\ ~SameBlock(a, b)
    BY <1>11, <1>23 DEF SameBlock
  <2>3. (c = b \/ c \in live) /\ (d = b \/ d \in live)
    BY DEF Takes
  <2>4. CASE c = b
    BY <1>26, <2>2, <2>3, <2>4
  <2>5. CASE d = b
    BY <1>26, <2>2, <2>3, <2>5
  <2> QED
    BY <2>1, <2>3, <2>4, <2>5
<1>27. ASSUME NEW u \in Thread PROVE Frees(u)'
  <2>1. SUFFICES ASSUME pc'[u] = "free" PROVE Frees(u)'
    BY DEF Frees
  <2>2. u # t /\ pc[u] = "free" /\ loc'[u] = loc[u]
    BY <1>15, <2>1
  <2>3. /\ Known(loc[u].blk)
        /\ \A c \in live : ~SameBlock(c, loc[u].blk)
        /\ \A v \in Thread : pc[v] = "free" /\ v # u => ~SameBlock(loc[v].blk, loc[u].blk)
    BY <2>2 DEF Inv, Blocks, Frees
  <2>4. \A v \in Thread : pc'[v] = "free" => pc[v] = "free" /\ loc'[v] = loc[v]
    BY <1>15
  <2>5. Known(loc[u].blk)' /\ ~SameBlock(b, loc[u].blk)
    BY <1>11, <1>15, <2>2, <2>3, <1>20
  <2> HIDE DEF Known, SameBlock
  <2> QED
    BY <2>2, <2>3, <2>4, <2>5 DEF Frees, Takes
<1>28. Blocks(L)'
  BY <1>22, <1>25, <1>26, <1>27 DEF Blocks
<1>29. live' \subseteq Block
  BY <1>2, <1>10 DEF Types, Takes
<1>30. /\ "hint" \notin Updating \cup {"attach", "close"} /\ pc[t] \notin Updating
  BY <1>2 DEF Updating
<1> QED
  BY <1>1, <1>3, <1>13, <1>14, <1>16, <1>17, <1>19, <1>28, <1>29, <1>30, BlockStep

\* One attempt of the scan, which takes a place or goes on.
LEMMA ScanKeeps ==
  ASSUME NEW L, Inv(L), NEW t \in App, Scan(t)
  PROVE  Inv(L)'
<1> DEFINE o == segs[P(t)][loc[t].i].off
<1>1. /\ At(t, "scan") /\ loc[t].i <= Len(segs[P(t)]) /\ o \in DOMAIN heap
      /\ UNCHANGED <<segs, list_mtx, grow_mtx, hinted, alive, attached, name, fileSize, tbl,
                     outcome>>
  BY DEF Scan, world
<1>2. CASE \E at \in Fits(heap[o], Units(loc[t].bytes)) :
             /\ heap' = [heap EXCEPT ![o].blocks = @ \cup {[at |-> at, len |-> Units(loc[t].bytes)]}]
             /\ live' = live \cup {[off |-> o, at |-> at, len |-> Units(loc[t].bytes),
                                    ask |-> loc[t].ask]}
             /\ Goto(t, "hint")
             /\ UNCHANGED loc
  <2>1. PICK at \in Fits(heap[o], Units(loc[t].bytes)) :
             /\ heap' = [heap EXCEPT ![o].blocks = @ \cup {[at |-> at, len |-> Units(loc[t].bytes)]}]
             /\ live' = live \cup {[off |-> o, at |-> at, len |-> Units(loc[t].bytes),
                                    ask |-> loc[t].ask]}
             /\ Goto(t, "hint")
             /\ UNCHANGED loc
    BY <1>2
  <2> HIDE DEF o
  <2>2. o = segs[P(t)][loc[t].i].off
    BY DEF o
  <2> DEFINE b == [off |-> o, at |-> at, len |-> Units(loc[t].bytes), ask |-> loc[t].ask]
  <2>3. Takes(t, o, at, b)
    BY <2>1 DEF Takes
  <2> HIDE DEF b
  <2> QED
    BY <1>1, <2>1, <2>2, <2>3, TakeKeeps
<1>3. CASE Set(t, [loc[t] EXCEPT !.i = @ + 1]) /\ UNCHANGED <<heap, live, pc>>
  BY <1>1, <1>3, ScanNextKeeps DEF world, shared
<1>4. \/ \E at \in Fits(heap[o], Units(loc[t].bytes)) :
             /\ heap' = [heap EXCEPT ![o].blocks = @ \cup {[at |-> at, len |-> Units(loc[t].bytes)]}]
             /\ live' = live \cup {[off |-> o, at |-> at, len |-> Units(loc[t].bytes),
                                    ask |-> loc[t].ask]}
             /\ Goto(t, "hint")
             /\ UNCHANGED loc
      \/ Set(t, [loc[t] EXCEPT !.i = @ + 1]) /\ UNCHANGED <<heap, live, pc>>
  BY DEF Scan
<1> QED
  BY <1>2, <1>3, <1>4

\* deallocate: the block is no longer the program's, and still in its heap.
LEMMA DeallocateKeeps ==
  ASSUME NEW L, Inv(L), NEW t \in App, NEW b \in live, Deallocate(t, b)
  PROVE  Inv(L)'
<1> DEFINE r == [NoLoc EXCEPT !.blk = b]
<1>1. t \in Thread
  BY Threads
<1>2. Types /\ Managers /\ DOMAIN hinted = Proc /\ b \in Block /\ attached[P(t)]
  BY <1>1, Here DEF Deallocate, Types
<1>3. r \in Locals /\ r.op = "none" /\ r.blk = b
  BY <1>2 DEF NoLoc, Locals
<1>4. Call(t, "free", r) /\ "free" \in PCs
  BY DEF Deallocate, PCs
<1> HIDE DEF r
<1>5. Goes(t, "free", r) /\ pc[t] = "idle"
  BY <1>2, <1>3, <1>4, Called
<1>6. /\ UNCHANGED <<segs, list_mtx, grow_mtx, hinted, attached, name, fileSize, tbl, heap>>
      /\ live' = live \ {b}
  BY DEF Deallocate, Briefly, world
<1>7. Locks(t)
  BY <1>1, <1>2, <1>6, LocksLawful
<1>8. /\ pc'[t] = "free" /\ loc'[t] = r
      /\ \A u \in Thread \ {t} : pc'[u] = pc[u] /\ loc'[u] = loc[u]
  BY <1>5 DEF Goes
<1>9. Placed(t)'
  BY <1>1, <1>2, <1>6, <1>8, Threads DEF Placed, Growers, Growing, Listing
<1>10. Aware(L, t)'
  <2>1. pc'[t] \notin Growers
    BY <1>8 DEF Growers, Growing
  <2> QED
    BY <1>8, <2>1 DEF Aware
<1>11. /\ \A c \in live : Known(c) /\ \E j \in 1..tbl.count : Holds(L, j, c)
       /\ \A c, d \in live : SameBlock(c, d) => c = d
       /\ \A u \in Thread : Frees(u)
  BY DEF Inv, Blocks
<1>12. \A c : Known(c)' = Known(c)
  BY <1>6 DEF Known
<1>13. \A c, d : SameBlock(c, d) = SameBlock(d, c)
  BY DEF SameBlock
<1> HIDE DEF Known, SameBlock
<1>14. ASSUME NEW u \in Thread, pc'[u] = "free"
       PROVE  /\ Known(loc[u].blk)'
              /\ \A c \in live' : ~SameBlock(c, loc'[u].blk)
              /\ \A v \in Thread : pc'[v] = "free" /\ v # u => ~SameBlock(loc'[v].blk, loc'[u].blk)
  <2>1. CASE u = t
    BY <1>3, <1>6, <1>8, <1>11, <1>12, <1>13, <2>1 DEF Frees
  <2>2. CASE u # t
    <3>1. pc[u] = "free" /\ loc'[u] = loc[u]
      BY <1>8, <1>14, <2>2
    <3> QED
      BY <1>3, <1>6, <1>8, <1>11, <1>12, <2>2, <3>1 DEF Frees
  <2> QED
    BY <2>1, <2>2
<1>15. \A u \in Thread : Frees(u)'
  BY <1>12, <1>14 DEF Frees
<1>16. Blocks(L)'
  <2>1. \A y \in DOMAIN heap' : Packed(heap'[y])
    BY <1>6, AllPacked
  <2> HIDE DEF Holds, Packed
  <2> QED
    BY <1>6, <1>11, <1>12, <1>15, <2>1 DEF Blocks
<1>17. live' \subseteq Block /\ \A o \in DOMAIN heap : heap'[o] \in Heap /\ heap'[o].size = heap[o].size
  BY <1>2, <1>6 DEF Types
<1>18. "free" \notin Updating \cup {"attach", "close"} /\ pc[t] \notin Updating
  BY <1>5 DEF Updating
<1> QED
  BY <1>1, <1>2, <1>5, <1>6, <1>7, <1>9, <1>10, <1>16, <1>17, <1>18, BlockStep

\* The heap gives the block back.
LEMMA FreeBlockKeeps ==
  ASSUME NEW L, Inv(L), NEW t \in App, FreeBlock(t)
  PROVE  Inv(L)'
<1> DEFINE b == loc[t].blk
           x == [at |-> b.at, len |-> b.len]
           B == heap[b.off].blocks \ {x}
<1>1. t \in Thread
  BY Threads
<1>2. Types /\ Managers /\ pc[t] = "free" /\ b \in Block /\ b.off \in DOMAIN heap
  BY <1>1, Here DEF FreeBlock, At
<1>3. /\ UNCHANGED <<segs, list_mtx, grow_mtx, hinted, attached, name, fileSize, tbl, live>>
      /\ heap' = [heap EXCEPT ![b.off].blocks = B]
      /\ Return(t, "ok") /\ "ok" \in Outcomes \ {"null"}
  BY DEF FreeBlock, world, Outcomes
<1>4. heap[b.off] \in Heap /\ B \subseteq [at : Nat, len : Nat \ {0}]
  BY <1>2 DEF Types, Heap
<1>5. /\ DOMAIN heap' = DOMAIN heap
      /\ heap'[b.off].blocks = B
      /\ \A y \in DOMAIN heap : heap'[y] \in Heap /\ heap'[y].size = heap[y].size
      /\ \A y \in DOMAIN heap : y # b.off => heap'[y] = heap[y]
  <2> HIDE DEF B
  <2> QED
    BY <1>2, <1>3, <1>4, BlocksBecome
<1>6. Goes(t, "idle", NoLoc)
  BY <1>1, <1>2, <1>3, Returned
<1>7. /\ pc'[t] = "idle" /\ loc'[t].op # "alloc"
      /\ \A u \in Thread \ {t} : pc'[u] = pc[u] /\ loc'[u] = loc[u]
  BY <1>6, NoLocals DEF Goes
<1>8. Placed(t)' /\ Aware(L, t)'
  BY <1>1, <1>7, IdleIs
<1>9. Locks(t)
  BY <1>1, <1>2, <1>3, LocksLawful
<1>10. ASSUME NEW c, Known(c), ~SameBlock(c, b) PROVE Known(c)'
  <2>1. c.off \in DOMAIN heap' /\ [at |-> c.at, len |-> c.len] \in heap[c.off].blocks
    BY <1>5, <1>10 DEF Known
  <2>2. CASE c.off = b.off
    <3>1. [at |-> c.at, len |-> c.len] # x
      BY <1>10, <2>2 DEF SameBlock
    <3> QED
      BY <1>5, <2>1, <2>2, <3>1 DEF Known
  <2>3. CASE c.off # b.off
    BY <1>5, <2>1, <2>3 DEF Known
  <2> QED
    BY <2>2, <2>3
<1>11. /\ \A c \in live : Known(c) /\ \E j \in 1..tbl.count : Holds(L, j, c)
       /\ \A c, d \in live : SameBlock(c, d) => c = d
       /\ \A u \in Thread : Frees(u)
  BY DEF Inv, Blocks
<1>12. ASSUME NEW y \in DOMAIN heap' PROVE Packed(heap'[y])
  <2>1. Packed(heap[y])
    BY <1>5, AllPacked
  <2>2. heap'[y].blocks \subseteq heap[y].blocks /\ heap'[y].size = heap[y].size
    BY <1>5
  <2> QED
    BY <2>1, <2>2 DEF Packed
<1> HIDE DEF b, B, x, Known, SameBlock
<1>13. \A c \in live : ~SameBlock(c, b)
  BY <1>1, <1>2, <1>11 DEF Frees, b
<1>14. ASSUME NEW u \in Thread, pc'[u] = "free"
       PROVE  /\ Known(loc[u].blk)'
              /\ \A c \in live' : ~SameBlock(c, loc'[u].blk)
              /\ \A v \in Thread : pc'[v] = "free" /\ v # u => ~SameBlock(loc'[v].blk, loc'[u].blk)
  <2>1. u # t /\ pc[u] = "free" /\ loc'[u] = loc[u]
    BY <1>7, <1>14
  <2>2. Frees(u) /\ Frees(t)
    BY <1>1, <1>11
  <2>3. Known(loc[u].blk) /\ ~SameBlock(loc[u].blk, b)
    BY <1>2, <2>1, <2>2 DEF Frees, b
  <2>4. Known(loc[u].blk)'
    BY <1>10, <2>1, <2>3
  <2> QED
    BY <1>3, <1>7, <2>1, <2>2, <2>4 DEF Frees
<1>15. \A u \in Thread : Frees(u)'
  BY <1>14 DEF Frees
<1>16. Blocks(L)'
  <2>1. \A c \in live : Known(c)'
    BY <1>10, <1>11, <1>13
  <2> HIDE DEF Holds, Packed
  <2> QED
    BY <1>3, <1>11, <1>12, <1>15, <2>1 DEF Blocks
<1>17. live' \subseteq Block
  BY <1>2, <1>3 DEF Types
<1>18. "idle" \notin Updating \cup {"attach", "close"} /\ pc[t] \notin Updating
  BY <1>2 DEF Updating
<1> QED
  BY <1>1, <1>3, <1>5, <1>6, <1>8, <1>9, <1>16, <1>17, <1>18, BlockStep

----------------------------------------------------------------------------
(* The invariant holds.                                                    *)

\* The created memory has one sub-segment.
LEMMA InitKeeps ==
  ASSUME Moderate, Init
  PROVE  \E L : Inv(L)
<1> DEFINE size == max(InitialSize, kMinSegmentSize)
           seg0 == [off |-> 0, size |-> size]
<1>1. size \in Nat \ {0} /\ size <= Limit
  BY Numbers DEF max
<1>2. /\ segs = [p \in Proc |-> IF p = Creator THEN <<seg0>> ELSE <<>>]
      /\ list_mtx = [p \in Proc |-> None] /\ grow_mtx = [p \in Proc |-> None]
      /\ hinted = [p \in Proc |-> FALSE] /\ attached = [p \in Proc |-> p = Creator]
      /\ name \in Kinds /\ fileSize = size
      /\ tbl = [count |-> 1, entries |-> <<seg0>>, mtx |-> None]
      /\ heap = [o \in {0} |-> [size |-> size, blocks |-> {}, ended |-> FALSE]]
      /\ live = {} /\ pc = [t \in Thread |-> "idle"] /\ loc = [t \in Thread |-> NoLoc]
      /\ outcome = [t \in App |-> "none"]
  BY DEF Init
<1> HIDE DEF size
<1>3. seg0 \in Segments /\ seg0.off = 0 /\ seg0.size = size
  BY <1>1 DEF Segments
<1>4. PICK L : L = <<seg0>>
  OBVIOUS
<1> HIDE DEF seg0
<1>5. L \in Seq(Segments) /\ Len(L) = 1 /\ L[1] = seg0
  BY <1>3, <1>4
<1>6. Contiguous(L) /\ End(L) = size
  BY <1>1, <1>3, <1>5 DEF Contiguous, End
<1>7. DOMAIN heap = {0} /\ heap[0].size = size /\ heap[0].blocks = {} /\ heap[0] \in Heap
  BY <1>1, <1>2 DEF Heap
<1>8. \A p \in Proc : /\ segs[p] = L \/ segs[p] = <<>>
                      /\ attached[p] => segs[p] = L
                      /\ ~hinted[p]
  BY <1>2, <1>4
<1>9. tbl.count = 1 /\ tbl.entries = L /\ tbl.mtx = None
  BY <1>2, <1>4
<1>10. \A t \in Thread : pc[t] = "idle" /\ loc[t] = NoLoc
  BY <1>2
<1>11. Types
  <2>1. segs \in [Proc -> Seq(Segments)] /\ attached \in [Proc -> BOOLEAN]
    BY <1>2, <1>4, <1>5
  <2>2. tbl \in [count : Nat, entries : Seq(Segments), mtx : Thread \cup {None}]
    BY <1>2, <1>4, <1>5
  <2>3. /\ pc \in [Thread -> PCs] /\ loc \in [Thread -> Locals]
        /\ outcome \in [App -> Outcomes \ {"null"}]
    BY <1>2, NoLocals DEF PCs, Outcomes
  <2>4. /\ list_mtx \in [Proc -> Thread \cup {None}] /\ grow_mtx \in [Proc -> Thread \cup {None}]
        /\ DOMAIN hinted = Proc /\ live \subseteq Block /\ fileSize \in Nat
        /\ name \in {"linked", "unlinked"}
    BY <1>1, <1>2 DEF Moderate
  <2>5. \A o \in DOMAIN heap : heap[o] \in Heap
    BY <1>7
  <2> QED
    BY <2>1, <2>2, <2>3, <2>4, <2>5 DEF Types
<1>12. Layout(L)
  <2>1. Prefix(L, L) /\ Prefix(<<>>, L)
    BY <1>5 DEF Prefix
  <2>2. \A p \in Proc : Prefix(segs[p], L) /\ Len(segs[p]) <= tbl.count
    <3> SUFFICES ASSUME NEW p \in Proc PROVE Prefix(segs[p], L) /\ Len(segs[p]) <= tbl.count
      OBVIOUS
    <3>1. CASE segs[p] = L
      <4>1. Len(L) <= tbl.count
        BY <1>5, <1>9
      <4> QED
        BY <2>1, <3>1, <4>1, Zenon
    <3>2. CASE segs[p] = <<>>
      <4>1. Len(<<>>) = 0
        OBVIOUS
      <4> QED
        BY <1>9, <2>1, <3>2, <4>1
    <3> QED
      BY <1>8, <3>1, <3>2
  <2>3. DOMAIN heap = {L[i].off : i \in 1..Len(L)} /\ \A i \in 1..Len(L) : heap[L[i].off].size = L[i].size
    BY <1>3, <1>5, <1>7
  <2>4. End(L) <= fileSize /\ fileSize <= Limit
    BY <1>1, <1>2, <1>6
  <2> QED
    BY <1>5, <1>6, <1>9, <2>1, <2>2, <2>3, <2>4 DEF Layout
<1>13. Progress(L)
  <2>1. Grower \in Proc
    BY GrowerIs DEF Moderate
  <2> QED
    BY <1>5, <1>8, <1>9, <1>10, <2>1 DEF Progress
<1>14. Managers /\ Alone
  <2>1. Len(L) > 0
    BY <1>5
  <2>2. \A p \in Proc : (attached[p] => Len(segs[p]) > 0) /\ ~hinted[p]
    BY <1>8, <2>1, Zenon
  <2>3. Managers
    BY <2>2 DEF Managers
  <2>4. Alone
    BY <1>10 DEF Alone
  <2> QED
    BY <2>3, <2>4
<1>15. \A t \in Thread : Placed(t) /\ Aware(L, t)
  BY <1>10, NoLocals DEF Placed, Aware, Growers, Growing, Listing
<1>16. Blocks(L)
  BY <1>2, <1>7, <1>10 DEF Blocks, Packed, Frees
<1> QED
  BY <1>11, <1>12, <1>13, <1>14, <1>15, <1>16 DEF Inv

\* Every call that may start keeps the invariant, for some layout.
LEMMA StartKeeps ==
  ASSUME NEW L, Inv(L), Moderate, NEW t \in App, Start(t)
  PROVE  \E M : Inv(M)'
<1>1. CASE Attach(t)
  BY <1>1, AttachKeeps
<1>2. CASE t \in Allocators /\ \E n \in Sizes : Allocate(t, n) \/ Grow(t, n)
  BY <1>2, AllocateKeeps, GrowKeeps
<1>3. CASE t \in Allocators /\ \E n \in Counts : AllocateN(t, n)
  BY <1>3, AllocateKeeps
<1>4. CASE \E b \in live : Deallocate(t, b) \/ Get(t, b)
  BY <1>4, DeallocateKeeps, GetKeeps
<1>5. CASE Close(t)
  BY <1>5, CloseKeeps
<1> QED
  BY <1>1, <1>2, <1>3, <1>4, <1>5 DEF Start

\* A step that ends a process keeps the invariant.
LEMMA DieKeeps ==
  ASSUME NEW L, Inv(L), NEW t, Die(t)
  PROVE  Inv(L)'
<1>1. UNCHANGED <<segs, list_mtx, grow_mtx, hinted, attached, name, fileSize, tbl, heap, live,
                  pc, loc, outcome>>
  BY DEF Die, shared
<1> QED
  BY <1>1, SameKeeps

\* Every step of a call does.
LEMMA StepKeeps ==
  ASSUME NEW L, Inv(L), Moderate, NEW t \in App, Step(t)
  PROVE  \E M : Inv(M)'
<1>1. t \in Thread
  BY Threads
<1>2. CASE AttachAdd(t) \/ AttachFail(t) \/ AttachEnd(t) \/ CloseEnd(t)
  BY <1>2, AddEntryKeeps, DropKeeps, AttachEndKeeps
<1>3. CASE Scan(t) \/ ScanEnd(t) \/ Hint(t) \/ Rescan(t) \/ FreeBlock(t)
  BY <1>3, ScanKeeps, ScanEndKeeps, HintKeeps, RescanKeeps, FreeBlockKeeps
<1>4. CASE GrowLock(t) \/ GrowCheck(t) \/ GrowFile(t) \/ GrowAddFail(t)
  BY <1>1, <1>4, GrowLockKeeps, GrowCheckKeeps, GrowFileKeeps, GrowAddFailKeeps
<1>5. CASE GrowAdd(t) \/ TblEntry(t) \/ TblCount(t)
  BY <1>1, <1>5, GrowAddKeeps, TblEntryKeeps, TblCountKeeps
<1>6. CASE Discover(t) \/ DiscoverAdd(t) \/ DiscoverEnd(t) \/ Find(t)
  BY <1>6, DiscoverKeeps, AddEntryKeeps, DiscoverEndKeeps, FindKeeps
<1>7. CASE DiscoverFail(t) \/ Fault(t)
  BY <1>7, DieKeeps DEF DiscoverFail, Fault
<1> QED
  BY <1>2, <1>3, <1>4, <1>5, <1>6, <1>7 DEF Step

\* Every step of a worker, and the death of a process, do.
LEMMA BackgroundKeeps ==
  ASSUME NEW L, Inv(L), Moderate, NEW p \in Proc, Background(p) \/ Kill(p)
  PROVE  \E M : Inv(M)'
<1>1. p \in Thread
  BY Threads
<1>2. CASE BgTake(p) \/ BgCheck(p) \/ GrowFile(p)
  BY <1>1, <1>2, BgTakeKeeps, BgCheckKeeps, GrowFileKeeps
<1>3. CASE BgAdd(p) \/ TblEntry(p) \/ TblCount(p)
  BY <1>1, <1>3, GrowAddKeeps, TblEntryKeeps, TblCountKeeps
<1>4. CASE BgAddFail(p) \/ Fault(p) \/ Kill(p)
  BY <1>4, DieKeeps DEF BgAddFail, Fault, Kill
<1> QED
  BY <1>2, <1>3, <1>4 DEF Background

\* Every step does.
LEMMA NextKeeps ==
  ASSUME NEW L, Inv(L), Moderate, [Next]_vars
  PROVE  \E M : Inv(M)'
<1>1. CASE UNCHANGED vars
  <2>1. UNCHANGED <<segs, list_mtx, grow_mtx, hinted, attached, name, fileSize, tbl, heap, live,
                    pc, loc, outcome>>
    BY <1>1 DEF vars, world, shared
  <2> QED
    BY <2>1, SameKeeps
<1>2. CASE \E t \in App : Start(t) \/ Step(t)
  BY <1>2, StartKeeps, StepKeeps
<1>3. CASE \E p \in Proc : Background(p) \/ Kill(p)
  BY <1>3, BackgroundKeeps
<1> QED
  BY <1>1, <1>2, <1>3 DEF Next, Done

\* In every reachable state there is a layout that the file, the table, the
\* lists of all processes and the threads in their calls agree on.
THEOREM Invariant ==
  ASSUME Moderate
  PROVE  Spec => []IInv
<1>1. Init => IInv
  BY InitKeeps DEF IInv
<1>2. IInv /\ [Next]_vars => IInv'
  <2> SUFFICES ASSUME IInv, [Next]_vars PROVE IInv'
    OBVIOUS
  <2>1. PICK L : Inv(L)
    BY DEF IInv
  <2>2. \E M : Inv(M)'
    BY <2>1, NextKeeps
  <2> QED
    BY <2>2 DEF IInv
<1> QED
  BY <1>1, <1>2, PTL DEF Spec

----------------------------------------------------------------------------
(* What it means for the program.                                          *)

\* A list is a first part of the layout, which lies in the file.
LEMMA ListIs ==
  ASSUME NEW L, Inv(L), NEW p \in Proc
  PROVE  /\ Contiguous(L) /\ segs[p] \in Seq(Segments) /\ Len(segs[p]) \in Nat
         /\ Len(L) \in Nat \ {0} /\ Len(segs[p]) <= Len(L)
         /\ \A i \in 1..Len(segs[p]) : /\ i \in 1..Len(L) /\ segs[p][i] = L[i]
                                       /\ segs[p][i].off \in DOMAIN heap
         /\ Mapped(segs[p]) <= fileSize
<1>1. /\ Contiguous(L) /\ segs[p] \in Seq(Segments) /\ Prefix(segs[p], L)
      /\ DOMAIN heap = {L[i].off : i \in 1..Len(L)} /\ End(L) <= fileSize /\ fileSize \in Nat
  BY DEF Inv, Layout, Types
<1>2. /\ Len(segs[p]) \in Nat /\ Len(L) \in Nat \ {0} /\ Len(segs[p]) <= Len(L) /\ End(L) \in Nat
      /\ \A i \in 1..Len(L) : L[i].off \in Nat /\ L[i].size \in Nat
  BY <1>1, LayoutTypes DEF Prefix
<1>3. \A i \in 1..Len(segs[p]) : i \in 1..Len(L) /\ segs[p][i] = L[i]
  BY <1>1, <1>2 DEF Prefix
<1>4. \A i \in 1..Len(segs[p]) : segs[p][i].off \in DOMAIN heap
  BY <1>1, <1>3
<1>5. Mapped(segs[p]) <= fileSize
  <2> DEFINE n == Len(segs[p])
  <2>1. CASE n = 0
    BY <1>1, <2>1, MappedIs
  <2>2. CASE n > 0
    <3>1. Mapped(segs[p]) = L[n].off + L[n].size /\ n \in 1..Len(L)
      BY <1>1, <1>2, <2>2, MappedIs
    <3>2. L[n].off + L[n].size <= End(L)
      BY <1>1, <3>1, Within
    <3> HIDE DEF n
    <3> QED
      BY <1>1, <1>2, <3>1, <3>2
  <2> QED
    BY <1>2, <2>1, <2>2
<1> QED
  BY <1>1, <1>2, <1>3, <1>4, <1>5

\* The lists are first parts of one layout.
LEMMA OneLayoutHolds ==
  ASSUME NEW L, Inv(L)
  PROVE  OneLayout
<1> SUFFICES ASSUME NEW p \in Proc, NEW i \in 1..Len(segs[p])
             PROVE  /\ segs[p][i].off = IF i = 1 THEN 0
                                        ELSE segs[p][i - 1].off + segs[p][i - 1].size
                    /\ \A q \in Proc : i <= Len(segs[q]) => segs[q][i] = segs[p][i]
  BY ListIs DEF OneLayout
<1>1. \A q \in Proc : Len(segs[q]) \in Nat /\ \A j \in 1..Len(segs[q]) : segs[q][j] = L[j]
  BY ListIs
<1>2. i \in 1..Len(L) /\ Contiguous(L)
  BY ListIs
<1>3. CASE i = 1
  BY <1>1, <1>2, <1>3 DEF Contiguous
<1>4. CASE i # 1
  <2>1. i - 1 \in 1..Len(segs[p])
    BY <1>1, <1>4
  <2> QED
    BY <1>1, <1>2, <1>4, <2>1 DEF Contiguous
<1>5. ASSUME NEW q \in Proc, i <= Len(segs[q]) PROVE segs[q][i] = segs[p][i]
  <2>1. i \in 1..Len(segs[q])
    BY <1>1, <1>5
  <2> QED
    BY <1>1, <2>1
<1> QED
  BY <1>3, <1>4, <1>5

\* The published entries are of the layout, and cover the blocks.
LEMMA PublishedHolds ==
  ASSUME NEW L, Inv(L)
  PROVE  PublishedBeforeUse
<1>1. /\ DOMAIN heap = {L[i].off : i \in 1..Len(L)}
      /\ \A i \in 1..Len(L) : heap[L[i].off].size = L[i].size
  BY DEF Inv, Layout
<1>2. \A i \in 1..tbl.count : i \in 1..Len(L) /\ tbl.entries[i] = L[i]
  BY PublishedPart
<1>3. ASSUME NEW i \in 1..tbl.count
      PROVE  tbl.entries[i].off \in DOMAIN heap
             /\ heap[tbl.entries[i].off].size = tbl.entries[i].size
  BY <1>1, <1>2
<1>4. ASSUME NEW b \in live PROVE \E i \in 1..tbl.count : tbl.entries[i].off = b.off
  <2>1. PICK k \in 1..tbl.count : Holds(L, k, b)
    BY DEF Inv, Blocks
  <2> QED
    BY <1>2, <2>1 DEF Holds
<1> QED
  BY <1>3, <1>4 DEF PublishedBeforeUse

\* Blocks of one heap are apart, and so are heaps.
LEMMA BlocksSafe ==
  ASSUME NEW L, Inv(L)
  PROVE  LiveBlocksSafe
<1>1. /\ \A b \in live : Known(b) /\ b \in Block
      /\ \A b, c \in live : SameBlock(b, c) => b = c
      /\ Layout(L) /\ Contiguous(L) /\ fileSize \in Nat /\ End(L) <= fileSize
  BY DEF Inv, Blocks, Types, Layout
<1>2. ASSUME NEW b \in live
      PROVE  /\ b.off \in DOMAIN heap /\ [at |-> b.at, len |-> b.len] \in heap[b.off].blocks
             /\ b.off \in Nat /\ b.at \in Nat /\ b.len \in Nat
             /\ b.at + b.len <= heap[b.off].size /\ heap[b.off].size \in Nat
             /\ b.off + heap[b.off].size <= End(L) /\ End(L) \in Nat
  <2>1. b.off \in DOMAIN heap /\ [at |-> b.at, len |-> b.len] \in heap[b.off].blocks /\ b \in Block
    BY <1>1 DEF Known
  <2>2. b.off \in Nat /\ b.at \in Nat /\ b.len \in Nat
    BY <2>1 DEF Block
  <2>3. b.at + b.len <= heap[b.off].size
    BY <2>1, AllPacked DEF Packed
  <2>4. heap[b.off].size \in Nat /\ b.off + heap[b.off].size <= End(L) /\ End(L) \in Nat
    BY <2>1, HeapsEnd
  <2> QED
    BY <2>1, <2>2, <2>3, <2>4
<1>3. ASSUME NEW b \in live PROVE b.off + b.at + b.len <= fileSize
  <2>1. \A o, a, l, z, e, f \in Nat : a + l <= z /\ o + z <= e /\ e <= f => o + a + l <= f
    OBVIOUS
  <2>2. /\ b.off \in Nat /\ b.at \in Nat /\ b.len \in Nat
        /\ b.at + b.len <= heap[b.off].size /\ heap[b.off].size \in Nat
        /\ b.off + heap[b.off].size <= End(L) /\ End(L) \in Nat
    BY <1>2
  <2> QED
    BY <1>1, <2>1, <2>2
<1>4. ASSUME NEW b \in live, NEW c \in live, b # c
      PROVE  \/ b.off + b.at + b.len <= c.off + c.at
             \/ c.off + c.at + c.len <= b.off + b.at
  <2>1. /\ b.off \in Nat /\ b.at \in Nat /\ b.len \in Nat
        /\ c.off \in Nat /\ c.at \in Nat /\ c.len \in Nat
    BY <1>2
  <2>2. CASE b.off = c.off
    <3> DEFINE x == [at |-> b.at, len |-> b.len]
               y == [at |-> c.at, len |-> c.len]
    <3>1. b.at # c.at \/ b.len # c.len
      BY <1>1, <1>4, <2>2 DEF SameBlock
    <3>2. x # y /\ x.at = b.at /\ x.len = b.len /\ y.at = c.at /\ y.len = c.len
      BY <3>1
    <3>3. x \in heap[b.off].blocks /\ y \in heap[b.off].blocks /\ Packed(heap[b.off])
      BY <1>2, <2>2, AllPacked
    <3> HIDE DEF x, y
    <3>4. x.at + x.len <= y.at \/ y.at + y.len <= x.at
      BY <3>2, <3>3 DEF Packed
    <3> QED
      BY <2>1, <2>2, <3>2, <3>4
  <2>3. CASE b.off # c.off
    <3>1. PICK i \in 1..Len(L) : b.off = L[i].off
      BY <1>1, <1>2 DEF Layout
    <3>2. PICK j \in 1..Len(L) : c.off = L[j].off
      BY <1>1, <1>2 DEF Layout
    <3>3. heap[b.off].size = L[i].size /\ heap[c.off].size = L[j].size
      BY <1>1, <3>1, <3>2 DEF Layout
    <3>4. i # j /\ i \in Int /\ j \in Int
      BY <2>3, <3>1, <3>2
    <3>5. b.off + heap[b.off].size <= c.off \/ c.off + heap[c.off].size <= b.off
      <4>1. (i < j => L[i].off + L[i].size <= L[j].off) /\ (j < i => L[j].off + L[j].size <= L[i].off)
        BY <1>1, Later
      <4> QED
        BY <3>1, <3>2, <3>3, <3>4, <4>1
    <3>6. /\ b.at + b.len <= heap[b.off].size /\ heap[b.off].size \in Nat
          /\ c.at + c.len <= heap[c.off].size /\ heap[c.off].size \in Nat
      BY <1>2
    <3>7. \A o, a, l, z, o2, a2 \in Nat :
            a + l <= z /\ o + z <= o2 => o + a + l <= o2 + a2
      OBVIOUS
    <3> QED
      BY <2>1, <3>5, <3>6, <3>7
  <2> QED
    BY <2>2, <2>3
<1> QED
  BY <1>1, <1>2, <1>3, <1>4 DEF LiveBlocksSafe

\* What each program point touches is of the layout.
LEMMA NothingFaults ==
  ASSUME NEW L, Inv(L), NEW t \in Thread, Faulting(t)
  PROVE  FALSE
<1> DEFINE p == P(t)
           gone == Last(segs[p]).off \notin DOMAIN heap
<1>1. Placed(t) /\ Aware(L, t) /\ p \in Proc /\ loc[t].i \in Nat
  BY Here
<1>2. /\ Len(segs[p]) \in Nat /\ \A i \in 1..Len(segs[p]) : segs[p][i].off \in DOMAIN heap
  BY <1>1, ListIs
<1>3. pc[t] \in Growers => ~gone
  BY GrowerMaps
<1>4. CASE At(t, "scan") /\ loc[t].i <= Len(segs[p]) /\ segs[p][loc[t].i].off \notin DOMAIN heap
  <2>1. loc[t].i \in 1..Len(segs[p])
    BY <1>1, <1>2, <1>4 DEF At, Aware
  <2> QED
    BY <1>2, <1>4, <2>1
<1>5. CASE (At(t, "hint") \/ At(t, "bgCheck")) /\ gone
  BY <1>3, <1>5 DEF At, Growers, Growing
<1>6. CASE At(t, "growCheck") /\ ~Intact(segs[p])
  BY <1>2, <1>6 DEF Intact
<1>7. CASE At(t, "free") /\ loc[t].blk.off \notin DOMAIN heap
  <2>1. pc[t] = "free" /\ Frees(t)
    BY <1>7 DEF Inv, Blocks, At
  <2> QED
    BY <1>7, <2>1 DEF Frees, Known
<1>8. CASE At(t, "growAdd") /\ loc[t].cur + loc[t].chunk > fileSize
  <2>1. loc[t].cur + loc[t].chunk = fileSize /\ fileSize \in Nat
    BY <1>1, <1>8 DEF Aware, At, Inv, Types
  <2> QED
    BY <1>8, <2>1
<1> HIDE DEF gone
<1>9. \/ At(t, "scan") /\ loc[t].i <= Len(segs[p]) /\ segs[p][loc[t].i].off \notin DOMAIN heap
      \/ (At(t, "hint") \/ At(t, "bgCheck")) /\ gone
      \/ At(t, "growCheck") /\ ~Intact(segs[p])
      \/ At(t, "free") /\ loc[t].blk.off \notin DOMAIN heap
      \/ At(t, "growAdd") /\ loc[t].cur + loc[t].chunk > fileSize
  BY DEF Faulting, gone
<1> QED
  BY <1>4, <1>5, <1>6, <1>7, <1>8, <1>9

----------------------------------------------------------------------------

\* Each process maps the file from its start without gap or overlap, and any
\* two agree on what both map, however growth, attaching, lazy discovery,
\* failed mappings, closing and death interleave.
THEOREM LayoutIsOne ==
  ASSUME Moderate
  PROVE  Spec => []OneLayout
<1>1. IInv => OneLayout
  BY OneLayoutHolds DEF IInv
<1> QED
  BY <1>1, Invariant, PTL

\* What the table's count publishes is a constructed heap, and no block is
\* handed out before its sub-segment is published.
THEOREM TablePublishes ==
  ASSUME Moderate
  PROVE  Spec => []PublishedBeforeUse
<1>1. IInv => PublishedBeforeUse
  BY PublishedHolds DEF IInv
<1> QED
  BY <1>1, Invariant, PTL

\* Blocks that the program holds are known to their heap, inside the file, and
\* apart from each other.
THEOREM BlocksAreSafe ==
  ASSUME Moderate
  PROVE  Spec => []LiveBlocksSafe
<1>1. IInv => LiveBlocksSafe
  BY BlocksSafe DEF IInv
<1> QED
  BY <1>1, Invariant, PTL

\* get() with lazy discovery never yields null for a block handed out, from
\* whichever process and however stale its list.
THEOREM GetFinds ==
  ASSUME Moderate
  PROVE  Spec => []GetResolves
<1>1. IInv => GetResolves
  BY DEF IInv, Inv, Types, GetResolves
<1> QED
  BY <1>1, Invariant, PTL

\* No thread is about to touch memory beyond the file.
THEOREM NothingIsBeyond ==
  ASSUME Moderate
  PROVE  Spec => []NoFault
<1>1. IInv => NoFault
  BY NothingFaults DEF IInv, NoFault
<1> QED
  BY <1>1, Invariant, PTL

----------------------------------------------------------------------------
(* What no step does to a heap.                                            *)

\* The heap at o is still there with its size, and has all its blocks but
\* those that a thread is freeing.
Survives(o) ==
  /\ o \in DOMAIN heap'
  /\ heap'[o].size = heap[o].size
  /\ \A b \in heap[o].blocks \ heap'[o].blocks :
       \E t \in App : /\ pc[t] = "free"
                      /\ loc[t].blk.off = o
                      /\ loc[t].blk.at = b.at /\ loc[t].blk.len = b.len

\* It is enough that a step keeps size and blocks.
LEMMA Survived ==
  ASSUME NEW o \in DOMAIN heap, o \in DOMAIN heap', heap'[o].size = heap[o].size,
         heap[o].blocks \subseteq heap'[o].blocks
  PROVE  Survives(o)
BY DEF Survives

\* Allocation adds a block.
LEMMA ScanSurvives ==
  ASSUME NEW L, Inv(L), NEW t \in App, Scan(t), NEW o \in DOMAIN heap
  PROVE  Survives(o)
<1> DEFINE q == segs[P(t)][loc[t].i].off
<1>1. t \in Thread /\ Types /\ Aware(L, t) /\ pc[t] = "scan" /\ q \in DOMAIN heap
  BY Threads, Here DEF Scan, At
<1>2. CASE heap' = heap
  BY <1>2, Survived
<1>3. CASE \E at \in Fits(heap[q], Units(loc[t].bytes)) :
             heap' = [heap EXCEPT ![q].blocks = @ \cup {[at |-> at, len |-> Units(loc[t].bytes)]}]
  <2>1. PICK at \in Fits(heap[q], Units(loc[t].bytes)) :
             heap' = [heap EXCEPT ![q].blocks = @ \cup {[at |-> at, len |-> Units(loc[t].bytes)]}]
    BY <1>3
  <2> DEFINE x == [at |-> at, len |-> Units(loc[t].bytes)]
             B == heap[q].blocks \cup {x}
  <2>2. Units(loc[t].bytes) \in Nat \ {0}
    BY <1>1, Here, UnitsAre
  <2>3. heap[q] \in Heap /\ Packed(heap[q])
    BY <1>1, AllPacked DEF Types
  <2>4. at \in Nat
    BY <2>2, <2>3, FitsApart
  <2>5. x \in [at : Nat, len : Nat \ {0}]
    BY <2>2, <2>4
  <2> HIDE DEF x, q
  <2>6. B \subseteq [at : Nat, len : Nat \ {0}] /\ heap' = [heap EXCEPT ![q].blocks = B]
    BY <2>1, <2>3, <2>5 DEF Heap, x
  <2> HIDE DEF B
  <2>7. /\ DOMAIN heap' = DOMAIN heap /\ heap'[q].blocks = B
        /\ \A y \in DOMAIN heap : heap'[y].size = heap[y].size
        /\ \A y \in DOMAIN heap : y # q => heap'[y] = heap[y]
    BY <1>1, <2>6, BlocksBecome
  <2>8. heap[o].blocks \subseteq heap'[o].blocks
    BY <2>7 DEF B
  <2> QED
    BY <2>7, <2>8, Survived
<1>4. \/ heap' = heap
      \/ \E at \in Fits(heap[q], Units(loc[t].bytes)) :
           heap' = [heap EXCEPT ![q].blocks = @ \cup {[at |-> at, len |-> Units(loc[t].bytes)]}]
  BY DEF Scan
<1> QED
  BY <1>2, <1>3, <1>4

\* deallocate takes away the block that its thread is freeing.
LEMMA FreeSurvives ==
  ASSUME NEW L, Inv(L), NEW t \in App, FreeBlock(t), NEW o \in DOMAIN heap
  PROVE  Survives(o)
<1> DEFINE b == loc[t].blk
           x == [at |-> b.at, len |-> b.len]
           B == heap[b.off].blocks \ {x}
<1>1. t \in Thread /\ Types /\ pc[t] = "free" /\ b.off \in DOMAIN heap
  BY Threads, Here DEF FreeBlock, At
<1>2. heap' = [heap EXCEPT ![b.off].blocks = B]
  BY DEF FreeBlock
<1>3. B \subseteq [at : Nat, len : Nat \ {0}]
  BY <1>1 DEF Types, Heap
<1>4. /\ DOMAIN heap' = DOMAIN heap /\ heap'[b.off].blocks = B
      /\ \A y \in DOMAIN heap : heap'[y].size = heap[y].size
      /\ \A y \in DOMAIN heap : y # b.off => heap'[y] = heap[y]
  <2>1. Types /\ b.off \in DOMAIN heap
    BY <1>1
  <2> HIDE DEF B, b, x
  <2> QED
    BY <1>2, <1>3, <2>1, BlocksBecome
<1>5. x.at = b.at /\ x.len = b.len
  OBVIOUS
<1>6. ASSUME NEW y \in heap[o].blocks \ heap'[o].blocks
      PROVE  b.off = o /\ b.at = y.at /\ b.len = y.len
  <2> HIDE DEF x
  <2>1. b.off = o
    BY <1>4
  <2>2. y = x
    BY <1>4, <2>1
  <2> QED
    BY <1>5, <2>1, <2>2
<1> HIDE DEF B, x
<1> QED
  BY <1>1, <1>4, <1>6 DEF Survives, b

\* Growth of the file cuts off none.
LEMMA FileSurvives ==
  ASSUME NEW L, Inv(L), NEW t \in Thread, GrowFile(t), NEW o \in DOMAIN heap
  PROVE  Survives(o)
<1> DEFINE new == (loc[t].cur + loc[t].chunk) % Word
<1>1. pc[t] = "growFile" /\ ~Anon
  BY Here DEF GrowFile, At, Types, Anon
<1>2. \A y \in DOMAIN heap : y + heap[y].size <= new
  BY <1>1, FileHeaps
<1>3. \/ heap' = heap
      \/ heap' = [y \in {x \in DOMAIN heap : x + heap[x].size <= new} |-> heap[y]]
  BY <1>1 DEF GrowFile
<1> HIDE DEF new
<1>4. o \in DOMAIN heap' /\ heap'[o] = heap[o]
  BY <1>2, <1>3
<1> QED
  BY <1>4, Survived

\* The new heap is constructed over none.
LEMMA AddSurvives ==
  ASSUME NEW L, Inv(L), NEW t \in Thread, pc[t] = "growAdd",
         heap' = heap \/ heap' = Construct(loc[t].cur, loc[t].chunk), NEW o \in DOMAIN heap
  PROVE  Survives(o)
<1>1. loc[t].cur = End(L) /\ loc[t].chunk \in Nat \ {0}
  BY Here DEF Aware
<1>2. o \in DOMAIN heap' /\ heap'[o] = heap[o]
  BY <1>1, Constructed
<1> QED
  BY <1>2, Survived

\* The other steps leave the heaps alone, or only mark them.
LEMMA NextSurvives ==
  ASSUME NEW L, Inv(L), [Next]_vars, NEW o \in DOMAIN heap
  PROVE  Survives(o)
<1>1. ASSUME heap' = heap PROVE Survives(o)
  BY <1>1, Survived
<1>2. Types /\ ~Anon
  BY DEF Inv, Types, Anon
<1>3. CASE UNCHANGED vars
  BY <1>1, <1>3 DEF vars, shared
<1>4. ASSUME NEW t \in App, Start(t) PROVE Survives(o)
  <2>1. CASE Close(t)
    <3>1. DOMAIN heap' = DOMAIN heap /\ heap'[o].blocks = heap[o].blocks /\ heap'[o].size = heap[o].size
      BY <1>2, <2>1, CloseHeaps
    <3> QED
      BY <3>1, Survived
  <2>2. CASE ~Close(t)
    <3>1. heap' = heap
      BY <1>4, <2>2 DEF Start, Attach, Allocate, AllocateN, Request, Grow, Deallocate, Get, shared
    <3> QED
      BY <1>1, <3>1
  <2> QED
    BY <2>1, <2>2
<1>5. ASSUME NEW t \in App, Step(t) PROVE Survives(o)
  <2>1. t \in Thread
    BY Threads
  <2>2. CASE Scan(t)
    BY <2>2, ScanSurvives
  <2>3. CASE FreeBlock(t)
    BY <2>3, FreeSurvives
  <2>4. CASE GrowFile(t)
    BY <2>1, <2>4, FileSurvives
  <2>5. CASE GrowAdd(t)
    BY <2>1, <2>5, AddSurvives DEF GrowAdd, Add, At
  <2>6. CASE \/ AttachAdd(t) \/ AttachFail(t) \/ AttachEnd(t) \/ CloseEnd(t)
             \/ ScanEnd(t) \/ Hint(t) \/ Rescan(t)
    <3>1. heap' = heap
      BY <1>2, <2>6 DEF AttachAdd, AttachFail, AttachEnd, CloseEnd, ScanEnd, Hint, Rescan, shared
    <3> QED
      BY <1>1, <3>1
  <2>7. CASE \/ GrowLock(t) \/ GrowCheck(t) \/ GrowAddFail(t) \/ TblEntry(t) \/ TblCount(t)
    <3>1. heap' = heap
      BY <2>7 DEF GrowLock, GrowCheck, GrowAddFail, TblEntry, TblCount, shared
    <3> QED
      BY <1>1, <3>1
  <2>8. CASE \/ Discover(t) \/ DiscoverAdd(t) \/ DiscoverFail(t) \/ DiscoverEnd(t) \/ Find(t)
             \/ Fault(t)
    <3>1. heap' = heap
      BY <2>8 DEF Discover, DiscoverAdd, DiscoverFail, DiscoverEnd, Find, Fault, Die, shared
    <3> QED
      BY <1>1, <3>1
  <2> QED
    BY <1>5, <2>2, <2>3, <2>4, <2>5, <2>6, <2>7, <2>8 DEF Step
<1>6. ASSUME NEW p \in Proc, Background(p) \/ Kill(p) PROVE Survives(o)
  <2>1. p \in Thread
    BY Threads
  <2>2. CASE GrowFile(p)
    BY <2>1, <2>2, FileSurvives
  <2>3. CASE BgAdd(p)
    BY <2>1, <2>3, AddSurvives DEF BgAdd, Add, At
  <2>4. CASE \/ BgTake(p) \/ BgCheck(p) \/ BgAddFail(p) \/ TblEntry(p) \/ TblCount(p) \/ Fault(p)
             \/ Kill(p)
    <3>1. heap' = heap
      BY <2>4 DEF BgTake, BgCheck, BgAddFail, TblEntry, TblCount, Fault, Kill, Die, shared
    <3> QED
      BY <1>1, <3>1
  <2> QED
    BY <1>6, <2>2, <2>3, <2>4 DEF Background
<1> QED
  BY <1>3, <1>4, <1>5, <1>6 DEF Next, Done

\* No step of any thread or process constructs over a heap, cuts one off, or
\* takes a block from one, but the deallocate that was asked to.
THEOREM HeapsSurvive ==
  ASSUME Moderate
  PROVE  Spec => HeapsSurviveGrowth
<1>1. IInv /\ [Next]_vars => [\A o \in DOMAIN heap : Survives(o)]_vars
  <2> SUFFICES ASSUME IInv, [Next]_vars PROVE \A o \in DOMAIN heap : Survives(o)
    OBVIOUS
  <2>1. PICK L : Inv(L)
    BY DEF IInv
  <2> QED
    BY <2>1, NextSurvives
<1>2. Spec => [][\A o \in DOMAIN heap : Survives(o)]_vars
  BY <1>1, Invariant, PTL DEF Spec
<1> QED
  BY <1>2 DEF HeapsSurviveGrowth, Survives

----------------------------------------------------------------------------
(* Sub-segments double, so the table never has too few entries.            *)

Planning == {"growFile", "growAdd"}

\* Each sub-segment is as large as all before it together and kMinSegmentSize,
\* and so will be the one that is being added.
Doubles ==
  /\ \A o \in DOMAIN heap : o + kMinSegmentSize <= heap[o].size
  /\ \A t \in Thread : pc[t] \in Planning => loc[t].cur + kMinSegmentSize <= loc[t].chunk

\* The growth of t has been planned in this step.
JustPlanned(t) ==
  /\ pc[t] \in {"growCheck", "bgCheck"}
  /\ \E n \in Needs : Plan(t, n)

\* A step of t ends outside of a planned growth, leaves one as it was, or
\* plans one.
SamePlan(t) ==
  /\ \A u \in Thread \ {t} : pc'[u] = pc[u] /\ loc'[u] = loc[u]
  /\ \/ pc'[t] \notin Planning
     \/ pc[t] \in Planning /\ loc'[t] = loc[t]
     \/ JustPlanned(t)

\* The planned chunk is twice as large as the last sub-segment.
LEMMA PlanDoubles ==
  ASSUME NEW L, Inv(L), Moderate, Doubles, NEW t \in Thread, JustPlanned(t)
  PROVE  loc'[t].cur + kMinSegmentSize <= loc'[t].chunk
<1>1. PICK n \in Needs : Plan(t, n)
  BY DEF JustPlanned
<1> DEFINE s == segs[P(t)]
           z == Last(s).size
           m == max(n, z * kGrowMultiplier)
           c == align_up(m, PageSize)
           r == [loc[t] EXCEPT !.chunk = c, !.cur = Mapped(s)]
<1>2. pc[t] \in Growers /\ loc \in [Thread -> Locals]
  BY DEF JustPlanned, Growers, Growing, Inv, Types
<1>3. /\ Mapped(s) = End(L) /\ End(L) \in Nat /\ End(L) <= Limit
      /\ z \in Nat \ {0} /\ z <= End(L)
      /\ Len(L) \in Nat \ {0} /\ Len(s) = Len(L) /\ \A i \in 1..Len(L) : s[i] = L[i]
  BY <1>2, GrowerMaps
<1>4. loc'[t] = r
  BY <1>1, <1>2 DEF Plan, Set
<1>5. r.cur = Mapped(s) /\ r.chunk = c
  BY <1>2 DEF Locals
<1> HIDE DEF r, c
<1>6. End(L) + kMinSegmentSize <= 2 * z
  <2>1. Len(L) \in 1..Len(L) /\ Last(s) = L[Len(L)] /\ Contiguous(L)
    BY <1>3 DEF Last, Inv, Layout
  <2>2. /\ L[Len(L)].off \in DOMAIN heap /\ heap[L[Len(L)].off].size = L[Len(L)].size
        /\ L[Len(L)].off \in Nat /\ L[Len(L)].size \in Nat
    BY <2>1, LayoutTypes DEF Inv, Layout
  <2>3. L[Len(L)].off + kMinSegmentSize <= L[Len(L)].size
    BY <2>2 DEF Doubles
  <2> QED
    BY <2>1, <2>2, <2>3, Numbers DEF End
<1>7. c \in Nat /\ 2 * z <= c
  <2> HIDE DEF z
  <2>1. n \in Nat /\ Limit \in Nat /\ PageSize \in Nat \ {0} /\ Word \in Nat
    BY Asked, Numbers
  <2>2. m \in Nat /\ 2 * z <= m /\ (m = n \/ m = 2 * z)
    BY <1>3, <2>1 DEF max, kGrowMultiplier
  <2>3. n + Limit + PageSize < Word /\ 3 * Limit + PageSize < Word
    BY DEF NothingHuge, Moderate
  <2> HIDE DEF m
  <2>4. m + PageSize < Word
    BY <1>3, <2>1, <2>2, <2>3
  <2>5. c \in Nat /\ m <= c
    BY <2>2, <2>4, Rounded DEF c
  <2> QED
    BY <1>3, <2>2, <2>5
<1> HIDE DEF z
<1> QED
  BY <1>3, <1>4, <1>5, <1>6, <1>7, Numbers

\* A heap that is new is the one whose sub-segment a thread is adding.
NewHeaps ==
  \A o \in DOMAIN heap' \ DOMAIN heap :
    \E t \in Thread : /\ pc[t] = "growAdd" /\ o = loc[t].cur
                      /\ heap'[o].size = loc[t].chunk

LEMMA AddIsNew ==
  ASSUME NEW L, Inv(L), NEW t \in Thread, pc[t] = "growAdd",
         heap' = heap \/ heap' = Construct(loc[t].cur, loc[t].chunk)
  PROVE  NewHeaps
<1>1. loc[t].cur = End(L) /\ loc[t].chunk \in Nat \ {0}
  BY Here DEF Aware
<1>2. CASE heap' = heap
  BY <1>2 DEF NewHeaps
<1>3. CASE heap' = Construct(End(L), loc[t].chunk)
  <2>1. /\ DOMAIN heap' = DOMAIN heap \cup {End(L)}
        /\ heap'[End(L)] = [size |-> loc[t].chunk, blocks |-> {}, ended |-> FALSE]
    BY <1>1, <1>3, Constructed
  <2> QED
    BY <1>1, <2>1 DEF NewHeaps
<1> QED
  BY <1>1, <1>2, <1>3

\* The steps by which a thread moves on or returns.
LEMMA GoesOn ==
  ASSUME NEW t \in Thread, pc \in [Thread -> PCs], loc \in [Thread -> Locals], NEW x,
         \/ Goto(t, x) /\ loc' = loc
         \/ Goto(t, x) /\ \E r : Set(t, r)
  PROVE  /\ \A u \in Thread \ {t} : pc'[u] = pc[u] /\ loc'[u] = loc[u]
         /\ pc'[t] = x
         /\ Goto(t, x) /\ loc' = loc => loc'[t] = loc[t]
BY DEF Goto, Set

\* Every step: what it does to plans and to the set of heaps.
LEMMA NextPlans ==
  ASSUME NEW L, Inv(L), [Next]_vars
  PROVE  /\ NewHeaps
         /\ (\A t \in Thread : pc'[t] = pc[t] /\ loc'[t] = loc[t]) \/ \E t \in Thread : SamePlan(t)
<1>1. Types /\ ~Anon /\ pc \in [Thread -> PCs] /\ loc \in [Thread -> Locals]
  BY DEF Inv, Types, Anon
<1>2. ASSUME DOMAIN heap' \subseteq DOMAIN heap PROVE NewHeaps
  BY <1>2 DEF NewHeaps
<1>3. ASSUME heap' = heap PROVE NewHeaps
  BY <1>2, <1>3
<1>4. ASSUME pc' = pc, loc' = loc
      PROVE  \A t \in Thread : pc'[t] = pc[t] /\ loc'[t] = loc[t]
  BY <1>4
<1>5. ASSUME NEW t \in Thread, NEW x, x \notin Planning, Goto(t, x),
             loc' = loc \/ \E r : Set(t, r)
      PROVE  SamePlan(t)
  <2>1. (\A u \in Thread \ {t} : pc'[u] = pc[u] /\ loc'[u] = loc[u]) /\ pc'[t] = x
    BY <1>1, <1>5, GoesOn
  <2> QED
    BY <1>5, <2>1 DEF SamePlan
<1>6. ASSUME NEW t \in Thread, NEW h, Return(t, h) PROVE SamePlan(t)
  <2>1. "idle" \notin Planning /\ Goto(t, "idle") /\ \E r : Set(t, r)
    BY <1>6 DEF Return, Planning
  <2> QED
    BY <1>5, <2>1
<1>7. ASSUME NEW t \in Thread, NEW x, x \notin Planning, NEW r, Call(t, x, r) PROVE SamePlan(t)
  <2>1. Goto(t, x) /\ \E q : Set(t, q)
    BY <1>7 DEF Call
  <2> QED
    BY <1>5, <1>7, <2>1
<1>8. ASSUME NEW t \in Thread, AfterGrow(t) PROVE SamePlan(t)
  <2>1. "rescan" \notin Planning
    BY DEF Planning
  <2>2. CASE Goto(t, "rescan") /\ loc' = loc
    BY <1>5, <2>1, <2>2
  <2> QED
    BY <1>6, <1>8, <2>2 DEF AfterGrow
<1>9. ASSUME NEW t \in Thread, Die(t)
      PROVE  NewHeaps /\ \A u \in Thread : pc'[u] = pc[u] /\ loc'[u] = loc[u]
  <2>1. heap' = heap /\ pc' = pc /\ loc' = loc
    BY <1>9 DEF Die, shared
  <2> QED
    BY <1>3, <1>4, <2>1
<1>10. ASSUME NEW t \in Thread, NEW x, x \notin Planning, Goto(t, x) /\ loc' = loc
       PROVE  SamePlan(t)
  BY <1>5, <1>10
<1>11. /\ "idle" \notin Planning /\ "scan" \notin Planning /\ "hint" \notin Planning
       /\ "growLock" \notin Planning /\ "growCheck" \notin Planning /\ "bgCheck" \notin Planning
       /\ "attach" \notin Planning /\ "free" \notin Planning /\ "close" \notin Planning
       /\ "disc" \notin Planning /\ "discAdd" \notin Planning /\ "find" \notin Planning
       /\ "tblEntry" \notin Planning /\ "tblCount" \notin Planning
  BY DEF Planning
<1> DEFINE Still == \A t \in Thread : pc'[t] = pc[t] /\ loc'[t] = loc[t]
           Fine == NewHeaps /\ (Still \/ \E t \in Thread : SamePlan(t))
<1>12. CASE UNCHANGED vars
  <2>1. heap' = heap /\ pc' = pc /\ loc' = loc
    BY <1>12 DEF vars, shared
  <2> QED
    BY <1>3, <1>4, <2>1
<1>13. ASSUME NEW t \in Thread, GrowFile(t) PROVE Fine
  <2>1. pc[t] = "growFile"
    BY <1>13 DEF GrowFile, At
  <2>2. DOMAIN heap' \subseteq DOMAIN heap
    BY <1>13 DEF GrowFile
  <2>3. CASE Goto(t, "growAdd") /\ loc' = loc
    <3>1. (\A u \in Thread \ {t} : pc'[u] = pc[u] /\ loc'[u] = loc[u]) /\ loc'[t] = loc[t]
      BY <1>1, <2>3, GoesOn
    <3>2. pc[t] \in Planning
      BY <2>1 DEF Planning
    <3>3. SamePlan(t)
      BY <3>1, <3>2 DEF SamePlan
    <3> QED
      BY <1>2, <2>2, <3>3
  <2>4. CASE Return(t, "os_refused")
    BY <1>2, <1>6, <2>2, <2>4
  <2> QED
    BY <1>13, <2>3, <2>4 DEF GrowFile
<1>14. ASSUME NEW t \in Thread, Plan(t, IF t \in App THEN MinBytes(t) ELSE kMinSegmentSize),
              pc[t] \in {"growCheck", "bgCheck"}, Goto(t, "growFile")
       PROVE  SamePlan(t)
  <2>1. JustPlanned(t)
    <3>1. (IF t \in App THEN MinBytes(t) ELSE kMinSegmentSize) \in Needs
      BY <1>14, Asked DEF Inv, Aware, Growers, Growing
    <3> QED
      BY <1>14, <3>1 DEF JustPlanned
  <2>2. \E r : Set(t, r)
    BY <1>14 DEF Plan
  <2>3. \A u \in Thread \ {t} : pc'[u] = pc[u] /\ loc'[u] = loc[u]
    BY <1>1, <1>14, <2>2, GoesOn
  <2> QED
    BY <2>1, <2>3 DEF SamePlan
<1>15. ASSUME NEW t \in Thread, TblEntry(t) \/ TblCount(t) \/ Fault(t) PROVE Fine
  <2>1. CASE TblEntry(t)
    BY <1>3, <1>10, <1>11, <2>1 DEF TblEntry
  <2>2. CASE TblCount(t)
    BY <1>3, <1>8, <2>2 DEF TblCount
  <2>3. CASE Fault(t)
    BY <1>9, <2>3 DEF Fault
  <2> QED
    BY <1>15, <2>1, <2>2, <2>3
<1>16. ASSUME NEW t \in Thread, Add(t), pc[t] = "growAdd" PROVE Fine
  <2>1. NewHeaps
    BY <1>16, AddIsNew DEF Add
  <2>2. Goto(t, "tblEntry") /\ loc' = loc
    BY <1>1, <1>16 DEF Add
  <2> QED
    BY <1>10, <1>11, <2>1, <2>2
<1>17. ASSUME NEW t \in App, Start(t) PROVE Fine
  <2>0. t \in Thread
    BY Threads
  <2>1. CASE Close(t)
    <3>1. DOMAIN heap' = DOMAIN heap /\ Call(t, "close", NoLoc)
      BY <2>1 DEF Close
    <3> QED
      BY <1>2, <1>7, <1>11, <2>0, <3>1
  <2>2. CASE ~Close(t)
    <3>1. heap' = heap
      BY <1>17, <2>2 DEF Start, Attach, Allocate, AllocateN, Request, Grow, Deallocate, Get, shared
    <3>2. \E x \in {"attach", "scan", "growLock", "free", "disc"} : \E r : Call(t, x, r)
      BY <1>17, <2>2 DEF Start, Attach, Allocate, AllocateN, Request, Grow, Deallocate, Get
    <3> QED
      BY <1>3, <1>7, <1>11, <2>0, <3>1, <3>2
  <2> QED
    BY <2>1, <2>2
<1>18. ASSUME NEW t \in App, Step(t) PROVE Fine
  <2>0. t \in Thread /\ t \notin Proc
    BY Threads
  <2>1. CASE Scan(t)
    <3>1. DOMAIN heap' = DOMAIN heap
      BY <2>1 DEF Scan
    <3>2. CASE Goto(t, "hint") /\ loc' = loc
      BY <1>2, <1>10, <1>11, <2>0, <3>1, <3>2
    <3>3. CASE pc' = pc /\ \E r : Set(t, r)
      <4>1. pc[t] = "scan" /\ pc'[t] = "scan"
        BY <2>1, <3>3 DEF Scan, At
      <4>2. \A u \in Thread \ {t} : pc'[u] = pc[u] /\ loc'[u] = loc[u]
        BY <1>1, <3>3 DEF Set
      <4>3. SamePlan(t)
        BY <1>11, <4>1, <4>2 DEF SamePlan
      <4> QED
        BY <1>2, <2>0, <3>1, <4>3
    <3> QED
      BY <2>1, <3>2, <3>3 DEF Scan
  <2>2. CASE FreeBlock(t)
    <3>1. DOMAIN heap' = DOMAIN heap /\ Return(t, "ok")
      BY <2>2 DEF FreeBlock
    <3> QED
      BY <1>2, <1>6, <2>0, <3>1
  <2>3. CASE GrowFile(t)
    BY <1>13, <2>0, <2>3
  <2>4. CASE GrowAdd(t)
    BY <1>16, <2>0, <2>4 DEF GrowAdd, At
  <2>5. CASE AttachAdd(t) \/ DiscoverAdd(t)
    <3>1. heap' = heap /\ pc' = pc /\ loc' = loc
      BY <2>5 DEF AttachAdd, DiscoverAdd, shared
    <3> QED
      BY <1>3, <1>4, <3>1
  <2>6. CASE AttachFail(t) \/ AttachEnd(t) \/ CloseEnd(t) \/ Hint(t) \/ GrowAddFail(t) \/ Find(t)
    <3>1. heap' = heap /\ \E h : Return(t, h)
      BY <1>1, <2>6 DEF AttachFail, AttachEnd, CloseEnd, Hint, GrowAddFail, Find, shared
    <3> QED
      BY <1>3, <1>6, <2>0, <3>1
  <2>7. CASE ScanEnd(t)
    <3>1. heap' = heap /\ ((\E h : Return(t, h)) \/ (Goto(t, "growLock") /\ loc' = loc))
      BY <2>7 DEF ScanEnd, shared
    <3> QED
      BY <1>3, <1>6, <1>10, <1>11, <2>0, <3>1
  <2>8. CASE Rescan(t)
    <3>1. heap' = heap /\ Goto(t, "scan") /\ \E r : Set(t, r)
      BY <2>8 DEF Rescan, shared
    <3> QED
      BY <1>3, <1>5, <1>11, <2>0, <3>1
  <2>9. CASE GrowLock(t)
    BY <1>3, <1>10, <1>11, <2>0, <2>9 DEF GrowLock, shared
  <2>10. CASE GrowCheck(t)
    <3>1. heap' = heap /\ pc[t] \in {"growCheck", "bgCheck"}
      BY <2>10 DEF GrowCheck, shared, At
    <3>2. CASE AfterGrow(t)
      BY <1>3, <1>8, <2>0, <3>1, <3>2
    <3>3. CASE Plan(t, MinBytes(t)) /\ Goto(t, "growFile")
      BY <1>3, <1>14, <2>0, <3>1, <3>3
    <3> QED
      BY <2>10, <3>2, <3>3 DEF GrowCheck
  <2>11. CASE TblEntry(t) \/ TblCount(t) \/ Fault(t)
    BY <1>15, <2>0, <2>11
  <2>12. CASE Discover(t)
    <3>1. heap' = heap
      BY <2>12 DEF Discover, shared
    <3>2. \/ Goto(t, "find") /\ loc' = loc
          \/ Goto(t, "discAdd") /\ \E r : Set(t, r)
      BY <2>12 DEF Discover
    <3> QED
      BY <1>3, <1>5, <1>11, <2>0, <3>1, <3>2
  <2>13. CASE DiscoverFail(t)
    BY <1>9, <2>0, <2>13 DEF DiscoverFail
  <2>14. CASE DiscoverEnd(t)
    <3>1. heap' = heap /\ ((\E h : Return(t, h)) \/ (Goto(t, "find") /\ loc' = loc))
      BY <2>14 DEF DiscoverEnd, shared
    <3> QED
      BY <1>3, <1>6, <1>10, <1>11, <2>0, <3>1
  <2> HIDE DEF Fine
  <2> QED
    BY <1>18, <2>1, <2>2, <2>3, <2>4, <2>5, <2>6, <2>7, <2>8, <2>9, <2>10, <2>11, <2>12,
       <2>13, <2>14 DEF Step
<1>19. ASSUME NEW p \in Proc, Background(p) \/ Kill(p) PROVE Fine
  <2>0. p \in Thread /\ p \notin App
    BY Threads
  <2>1. CASE BgTake(p)
    <3>1. heap' = heap /\ loc' = loc /\ (pc' = pc \/ Goto(p, "bgCheck"))
      BY <2>1 DEF BgTake, shared
    <3> QED
      BY <1>3, <1>4, <1>10, <1>11, <2>0, <3>1
  <2>2. CASE BgCheck(p)
    <3>1. heap' = heap /\ pc[p] \in {"growCheck", "bgCheck"}
      BY <2>2 DEF BgCheck, shared, At
    <3>2. CASE Plan(p, kMinSegmentSize) /\ Goto(p, "growFile")
      BY <1>3, <1>14, <2>0, <3>1, <3>2
    <3> QED
      BY <1>3, <1>6, <2>0, <2>2, <3>1, <3>2 DEF BgCheck
  <2>3. CASE GrowFile(p)
    BY <1>13, <2>0, <2>3
  <2>4. CASE BgAdd(p)
    <3>1. pc[p] = "growAdd"
      BY <2>4 DEF BgAdd, At
    <3>2. CASE Add(p)
      BY <1>16, <2>0, <3>1, <3>2
    <3>3. CASE ~Add(p)
      <4>1. heap' = heap /\ Return(p, "ok")
        BY <2>4, <3>3 DEF BgAdd
      <4> QED
        BY <1>3, <1>6, <2>0, <4>1
    <3> QED
      BY <3>2, <3>3
  <2>5. CASE BgAddFail(p) \/ Kill(p)
    BY <1>9, <2>0, <2>5 DEF BgAddFail, Kill
  <2>6. CASE TblEntry(p) \/ TblCount(p) \/ Fault(p)
    BY <1>15, <2>0, <2>6
  <2> HIDE DEF Fine
  <2> QED
    BY <1>19, <2>1, <2>2, <2>3, <2>4, <2>5, <2>6 DEF Background
<1> QED
  BY <1>12, <1>17, <1>18, <1>19 DEF Next, Done

LEMMA DoublesKept ==
  ASSUME NEW L, Inv(L), Moderate, Doubles, [Next]_vars
  PROVE  Doubles'
<1>1. NewHeaps
  BY NextPlans
<1>2. ASSUME NEW o \in DOMAIN heap' PROVE o + kMinSegmentSize <= heap'[o].size
  <2>1. CASE o \in DOMAIN heap
    <3>1. heap'[o].size = heap[o].size
      BY <2>1, NextSurvives DEF Survives
    <3> QED
      BY <2>1, <3>1 DEF Doubles
  <2>2. CASE o \notin DOMAIN heap
    BY <1>1, <1>2, <2>2 DEF NewHeaps, Doubles, Planning
  <2> QED
    BY <2>1, <2>2
<1>3. ASSUME NEW t \in Thread, pc'[t] \in Planning
      PROVE  loc'[t].cur + kMinSegmentSize <= loc'[t].chunk
  <2>1. CASE pc[t] \in Planning /\ loc'[t] = loc[t]
    BY <2>1 DEF Doubles
  <2>2. CASE JustPlanned(t)
    BY <2>2, PlanDoubles
  <2> QED
    BY <1>3, <2>1, <2>2, NextPlans DEF SamePlan
<1> QED
  BY <1>2, <1>3 DEF Doubles

LEMMA DoublesFirst ==
  ASSUME Init
  PROVE  Doubles
<1> DEFINE size == max(InitialSize, kMinSegmentSize)
<1>1. heap = [o \in {0} |-> [size |-> size, blocks |-> {}, ended |-> FALSE]]
  BY DEF Init
<1>2. \A t \in Thread : pc[t] = "idle"
  BY DEF Init
<1>3. kMinSegmentSize <= size
  BY Numbers DEF max
<1> HIDE DEF size
<1>4. \A o \in DOMAIN heap : o = 0 /\ heap[o].size = size
  BY <1>1
<1> QED
  BY <1>2, <1>3, <1>4, Numbers DEF Doubles, Planning

\* The equations of Doubled, up to n.
LEMMA DoubledIs ==
  ASSUME NEW n \in Nat
  PROVE  \E f : /\ Doubled(n) = f[n] /\ f[0] = 0
                /\ \A i \in 1..n : f[i] = 2 * f[i - 1] + kMinSegmentSize
<1> DEFINE Upto(k, w) ==
             w = [i \in 0..k |-> IF i = 0 THEN 0 ELSE 2 * w[i - 1] + kMinSegmentSize]
           S == {k \in Nat : \E w : Upto(k, w)}
<1>1. 0 \in S
  <2> DEFINE v == [i \in 0..0 |-> 0]
  <2>1. v = [i \in 0..0 |-> IF i = 0 THEN 0 ELSE 2 * v[i - 1] + kMinSegmentSize]
    OBVIOUS
  <2> HIDE DEF v
  <2> QED
    BY <2>1
<1>2. ASSUME NEW k \in Nat, k \in S PROVE k + 1 \in S
  <2> HIDE DEF Upto
  <2>1. PICK w : Upto(k, w)
    BY <1>2
  <2> DEFINE last == 2 * w[k] + kMinSegmentSize
             v == [i \in 0..(k + 1) |-> IF i = k + 1 THEN last ELSE w[i]]
             e(i) == IF i = 0 THEN 0 ELSE 2 * v[i - 1] + kMinSegmentSize
  <2>2. ASSUME NEW i \in 0..(k + 1) PROVE v[i] = e(i)
    <3>1. CASE i = k + 1
      BY <3>1
    <3>2. CASE i # k + 1
      <4>1. w[i] = IF i = 0 THEN 0 ELSE 2 * w[i - 1] + kMinSegmentSize
        BY <2>1, <3>2 DEF Upto
      <4>2. i # 0 => v[i - 1] = w[i - 1]
        BY <3>2
      <4> QED
        BY <3>2, <4>1, <4>2
    <3> QED
      BY <3>1, <3>2
  <2>3. v = [i \in 0..(k + 1) |-> e(i)]
    BY <2>2
  <2> HIDE DEF v
  <2>4. Upto(k + 1, v)
    BY <2>3 DEF Upto
  <2> QED
    BY <2>4
<1> HIDE DEF Upto, S
<1>3. PICK w : Upto(n, w)
  <2>1. n \in S
    BY <1>1, <1>2, NatInduct
  <2> QED
    BY <2>1 DEF S
<1> DEFINE f == CHOOSE g : Upto(n, g)
<1>4. Upto(n, f)
  BY <1>3
<1>5. Doubled(n) = f[n]
  BY DEF Doubled, Upto
<1> HIDE DEF f
<1>6. f[0] = 0 /\ \A i \in 1..n : f[i] = 2 * f[i - 1] + kMinSegmentSize
  <2>1. 0 \in 0..n /\ \A i \in 1..n : i \in 0..n /\ i # 0
    OBVIOUS
  <2> QED
    BY <1>4, <2>1 DEF Upto
<1> QED
  BY <1>5, <1>6

\* So many sub-segments take that much memory.
LEMMA LayoutDoubles ==
  ASSUME NEW L, Inv(L), Doubles, NEW n \in 1..Len(L)
  PROVE  Doubled(n) \in Nat /\ Doubled(n) <= L[n].off + L[n].size
<1>1. /\ Contiguous(L) /\ Len(L) \in Nat \ {0}
      /\ \A i \in 1..Len(L) : L[i].off \in Nat /\ L[i].size \in Nat
      /\ \A i \in 1..Len(L) : L[i].off + kMinSegmentSize <= L[i].size
  <2>1. \A i \in 1..Len(L) : L[i].off \in DOMAIN heap /\ heap[L[i].off].size = L[i].size
    BY DEF Inv, Layout
  <2> QED
    BY <2>1, LayoutTypes DEF Inv, Layout, Doubles
<1>2. PICK f : /\ Doubled(n) = f[n] /\ f[0] = 0
               /\ \A i \in 1..n : f[i] = 2 * f[i - 1] + kMinSegmentSize
  BY DoubledIs
<1> DEFINE T == {i \in Nat : i + 1 <= n =>
                   f[i + 1] \in Nat /\ f[i + 1] <= L[i + 1].off + L[i + 1].size}
<1>3. 0 \in T
  <2>1. f[1] = 2 * f[1 - 1] + kMinSegmentSize /\ 1 - 1 = 0
    BY <1>1, <1>2
  <2>2. f[1] = kMinSegmentSize /\ L[1].off = 0 /\ kMinSegmentSize <= L[1].size
    BY <1>1, <1>2, <2>1, Numbers DEF Contiguous
  <2> QED
    BY <1>1, <2>2, Numbers
<1>4. ASSUME NEW i \in Nat, i \in T PROVE i + 1 \in T
  <2>1. SUFFICES ASSUME i + 2 <= n
                 PROVE  f[i + 2] \in Nat /\ f[i + 2] <= L[i + 2].off + L[i + 2].size
    OBVIOUS
  <2>2. /\ i + 1 \in 1..Len(L) /\ i + 2 \in 1..Len(L) /\ i + 2 \in 1..n /\ i + 2 # 1
        /\ (i + 2) - 1 = i + 1
    BY <1>1, <2>1
  <2>3. f[i + 1] \in Nat /\ f[i + 1] <= L[i + 1].off + L[i + 1].size
    BY <1>4, <2>1
  <2>4. f[i + 2] = 2 * f[i + 1] + kMinSegmentSize
    BY <1>2, <2>2
  <2>5. L[i + 2].off = L[i + 1].off + L[i + 1].size
    BY <1>1, <2>2 DEF Contiguous
  <2>6. L[i + 2].off + kMinSegmentSize <= L[i + 2].size
    BY <1>1, <2>2
  <2> DEFINE a == f[i + 1]
             b == L[i + 1].off + L[i + 1].size
             x == L[i + 2].off
             y == L[i + 2].size
  <2>7. x \in Nat /\ y \in Nat /\ b \in Nat /\ kMinSegmentSize \in Nat
    BY <1>1, <2>2, Numbers
  <2>8. a \in Nat /\ a <= b /\ x = b /\ x + kMinSegmentSize <= y
    BY <2>3, <2>5, <2>6
  <2> HIDE DEF a, b, x, y
  <2>9. 2 * a + kMinSegmentSize \in Nat /\ 2 * a + kMinSegmentSize <= x + y
    BY <2>7, <2>8
  <2> QED
    BY <2>4, <2>9 DEF a, x, y
<1> HIDE DEF T
<1>5. n - 1 \in T
  BY <1>1, <1>3, <1>4, NatInduct
<1>6. (n - 1) + 1 = n
  BY <1>1
<1> QED
  BY <1>2, <1>5, <1>6 DEF T

LEMMA TableHasRoom ==
  ASSUME NEW L, Inv(L), Doubles
  PROVE  TableSuffices
<1> DEFINE n == kMaxSubSegments + 1
<1>1. /\ Contiguous(L) /\ End(L) <= fileSize /\ fileSize <= Limit
      /\ \A p \in Proc : Prefix(segs[p], L)
      /\ fileSize \in Nat /\ Limit \in Nat /\ kMaxSubSegments \in Nat /\ Limit < Doubled(n)
      /\ Len(L) \in Nat /\ End(L) \in Nat
  BY LayoutTypes, Numbers, LimitAssumption DEF Inv, Layout, Types
<1>2. Len(L) <= kMaxSubSegments
  <2>1. SUFFICES ASSUME n <= Len(L) PROVE FALSE
    BY <1>1
  <2>2. n \in 1..Len(L)
    BY <1>1, <2>1
  <2> HIDE DEF n
  <2>3. /\ Doubled(n) \in Nat /\ Doubled(n) <= L[n].off + L[n].size
        /\ L[n].off + L[n].size <= End(L)
    BY <1>1, <2>2, LayoutDoubles, Within
  <2>4. L[n].off + L[n].size \in Nat
    BY <1>1, <2>2, LayoutTypes
  <2> QED
    BY <1>1, <2>3, <2>4
<1>3. ASSUME NEW p \in Proc PROVE Len(segs[p]) <= kMaxSubSegments
  <2>1. Len(segs[p]) \in Nat /\ Len(segs[p]) <= Len(L)
    BY <1>1 DEF Prefix, Inv, Types
  <2> QED
    BY <1>1, <1>2, <2>1
<1> QED
  BY <1>3 DEF TableSuffices

\* No list, and so no table, needs more entries than the table has.
THEOREM TableIsEnough ==
  ASSUME Moderate
  PROVE  Spec => []TableSuffices
<1>1. Init => Doubles
  BY DoublesFirst
<1>2. IInv /\ Doubles /\ [Next]_vars => Doubles'
  BY DoublesKept DEF IInv
<1>3. IInv /\ Doubles => TableSuffices
  BY TableHasRoom DEF IInv
<1> QED
  BY <1>1, <1>2, <1>3, Invariant, PTL DEF Spec
====
