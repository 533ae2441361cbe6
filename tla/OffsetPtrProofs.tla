---- MODULE OffsetPtrProofs ----
(***************************************************************************)
(* Proofs about the offset pointer, for any word size, any processes, any  *)
(* sub-segments wherever each process maps them, and any pointer objects   *)
(* and places: a pointer resolves to what it is meant to point to.         *)
(*                                                                         *)
(* Most of it is about the layout, which no step changes: file offsets,    *)
(* addresses, which sub-segment find yields, and how an encoded value is   *)
(* turned into an address again modulo the word size.                      *)
(***************************************************************************)
EXTENDS OffsetPtr, WellFoundedInduction, TLAPS

Segs == 1..Len(Size)

\* What c holds when it points to t: the distance in the file, from the base
\* of the anonymous sub-segment, or from the pointer object.
Encoding(c, t) ==
  IF c.area = "shm" THEN (t.at - c.at) % Word
  ELSE IF c.area = "anon" THEN (Addr(c.proc, t) - AnonBase[c.proc]) % Word
  ELSE (Addr(c.proc, t) - Addr(c.proc, c)) % Word

\* A process that has mapped n sub-segments can reach t.
Near(p, n, t) ==
  \/ t.area # "shm" /\ t.proc = p
  \/ t.area = "shm" /\ Index(t) <= n

\* Cell c holds v and is meant to point to t, where k are the mapped
\* sub-segments of each process and n the published ones.
Holds(c, v, t, k, n) ==
  /\ v \in 0..(Word - 1)
  /\ v = kNull <=> t = None
  /\ t # None =>
       /\ t \in Place
       /\ v = Encoding(c, t)
       /\ c.area = "shm" => t.area = "shm" /\ Index(t) <= n
       /\ c.area # "shm" => Near(c.proc, k[c.proc], t)

\* The inductive invariant: every cell holds the encoding of its target, which
\* is in a sub-segment that is published, and known to the cell's process.
IInv ==
  /\ DOMAIN m = Cell /\ DOMAIN target = Cell
  /\ count \in Segs
  /\ known \in [Proc -> 1..count]
  /\ alive \in [Proc -> BOOLEAN]
  /\ \A c \in Cell : Holds(c, m[c], target[c], known, count)

----------------------------------------------------------------------------
(* Arithmetic modulo the word size.                                        *)

\* A difference modulo the word size.
LEMMA Difference ==
  ASSUME NEW a \in 0..(Word - 1), NEW b \in 0..(Word - 1)
  PROVE  (a - b) % Word = IF a >= b THEN a - b ELSE a - b + Word
<1> Word \in Nat \ {0}
  BY OffsetPtrAssumption
<1> DEFINE d == a - b
<1>1. d \in Int /\ -Word < d /\ d < Word
  OBVIOUS
<1> HIDE DEF d
<1>2. d >= 0 => d % Word = d
  BY <1>1
<1>3. d < 0 => d % Word = d + Word
  BY <1>1
<1> QED
  BY <1>1, <1>2, <1>3 DEF d

\* A sum modulo the word size.
LEMMA Sum ==
  ASSUME NEW a \in 0..(Word - 1), NEW b \in -1..(Word - 1), a + b >= 0
  PROVE  (a + b) % Word = IF a + b < Word THEN a + b ELSE a + b - Word
<1> Word \in Nat \ {0}
  BY OffsetPtrAssumption
<1> DEFINE d == a + b
<1>1. d \in Nat /\ d < 2 * Word
  OBVIOUS
<1> HIDE DEF d
<1>2. d < Word => d % Word = d
  BY <1>1
<1>3. d >= Word => d % Word = d - Word
  BY <1>1
<1> QED
  BY <1>1, <1>2, <1>3 DEF d

\* Adding back what was subtracted.
LEMMA Roundtrip ==
  ASSUME NEW a \in 0..(Word - 1), NEW b \in 0..(Word - 1)
  PROVE  /\ (a - b) % Word \in 0..(Word - 1)
         /\ (b + ((a - b) % Word)) % Word = a
         /\ (a - b) % Word = kNull => a = b + 1 \/ a = 0
<1> Word \in Nat \ {0, 1}
  BY OffsetPtrAssumption
<1> DEFINE d == (a - b) % Word
<1>1. d = IF a >= b THEN a - b ELSE a - b + Word
  BY Difference
<1> HIDE DEF d
<1>2. d \in 0..(Word - 1)
  BY <1>1
<1>3. (b + d) % Word = IF b + d < Word THEN b + d ELSE b + d - Word
  BY <1>2, Sum
<1>4. (b + d) % Word = a /\ (d = kNull => a = b + 1 \/ a = 0)
  BY <1>1, <1>2, <1>3 DEF kNull
<1> QED
  BY <1>2, <1>4 DEF d

\* A difference moves with its first operand.
LEMMA Moved ==
  ASSUME NEW a \in 0..(Word - 1), NEW b \in 0..(Word - 1), NEW n \in {-1, 1},
         a + n \in 0..(Word - 1)
  PROVE  (((a - b) % Word) + n) % Word = ((a + n) - b) % Word
<1> Word \in Nat \ {0, 1}
  BY OffsetPtrAssumption
<1> DEFINE d == (a - b) % Word
           e == ((a + n) - b) % Word
<1>1. d = IF a >= b THEN a - b ELSE a - b + Word
  BY Difference
<1>2. e = IF a + n >= b THEN a + n - b ELSE a + n - b + Word
  BY Difference
<1> HIDE DEF d, e
<1>3. d \in 0..(Word - 1) /\ e \in 0..(Word - 1)
  BY <1>1, <1>2
<1>4. CASE d + n >= 0
  <2>1. n \in -1..(Word - 1)
    OBVIOUS
  <2>2. (d + n) % Word = IF d + n < Word THEN d + n ELSE d + n - Word
    BY <1>3, <1>4, <2>1, Sum
  <2>3. (d + n) % Word = e
    BY <1>1, <1>2, <1>3, <1>4, <2>2
  <2> QED
    BY <2>3 DEF d, e
<1>5. CASE d + n < 0
  <2>1. d = 0 /\ n = -1 /\ e = Word - 1
    BY <1>1, <1>2, <1>3, <1>5
  <2>2. \A x \in Int : x = -1 => x % Word = Word - 1
    OBVIOUS
  <2>3. d + n = -1
    BY <2>1
  <2>4. (d + n) % Word = e
    BY <2>1, <2>2, <2>3
  <2> QED
    BY <2>4 DEF d, e
<1> QED
  BY <1>3, <1>4, <1>5

----------------------------------------------------------------------------
(* The file: where sub-segments start and which one a location is in.      *)

\* Induction over the natural numbers, for a set.
LEMMA NatInduct ==
  ASSUME NEW S, 0 \in S, \A n \in Nat : n \in S => n + 1 \in S
  PROVE  Nat \subseteq S
<1>1. SUFFICES ASSUME Nat \ S # {} PROVE FALSE
  OBVIOUS
<1> DEFINE R == OpToRel(<, Nat)
<1>2. IsWellFoundedOn(R, Nat)
  BY NatLessThanWellFounded
<1> HIDE DEF R
<1>3. PICK x \in Nat \ S : \A y \in Nat \ S : <<y, x>> \notin R
  BY <1>1, <1>2, WFMin
<1>4. \A y \in Nat : y < x => <<y, x>> \in R
  BY DEF R, OpToRel
<1>5. x # 0 /\ x - 1 \in Nat /\ x - 1 < x
  OBVIOUS
<1>6. x - 1 \in S
  BY <1>3, <1>4, <1>5
<1> QED
  BY <1>5, <1>6

\* The sub-segments and their sizes.
LEMMA Sizes ==
  /\ Len(Size) \in Nat \ {0} /\ Word \in Nat \ {0, 1}
  /\ \A i \in Segs : Size[i] \in Nat \ {0}
BY OffsetPtrAssumption DEF Segs

\* The equation of FileStart.
StartsOf(f) == f = [i \in Segs |-> IF i = 1 THEN 0 ELSE f[i - 1] + Size[i - 1]]

\* There are offsets that satisfy it.
LEMMA StartsExist == \E f : StartsOf(f)
<1> DEFINE Upto(n, w) ==
             w = [i \in 1..(n + 1) |-> IF i = 1 THEN 0 ELSE w[i - 1] + Size[i - 1]]
           S == {n \in Nat : \E w : Upto(n, w)}
<1>1. 0 \in S
  <2> DEFINE v == [i \in 1..1 |-> 0]
  <2>1. v = [i \in 1..1 |-> IF i = 1 THEN 0 ELSE v[i - 1] + Size[i - 1]]
    OBVIOUS
  <2> HIDE DEF v
  <2> QED
    BY <2>1
<1>2. ASSUME NEW n \in Nat, n \in S PROVE n + 1 \in S
  <2> HIDE DEF Upto
  <2>1. PICK w : Upto(n, w)
    BY <1>2
  <2> DEFINE last == w[n + 1] + Size[n + 1]
             v == [i \in 1..(n + 2) |-> IF i = n + 2 THEN last ELSE w[i]]
             e(i) == IF i = 1 THEN 0 ELSE v[i - 1] + Size[i - 1]
  <2>2. ASSUME NEW i \in 1..(n + 2) PROVE v[i] = e(i)
    <3>1. CASE i = n + 2
      BY <3>1
    <3>2. CASE i # n + 2
      <4>1. w[i] = IF i = 1 THEN 0 ELSE w[i - 1] + Size[i - 1]
        BY <2>1, <3>2 DEF Upto
      <4>2. i # 1 => v[i - 1] = w[i - 1]
        BY <3>2
      <4> QED
        BY <3>2, <4>1, <4>2
    <3> QED
      BY <3>1, <3>2
  <2>3. v = [i \in 1..(n + 2) |-> e(i)]
    BY <2>2
  <2> HIDE DEF v
  <2>4. Upto(n + 1, v)
    BY <2>3 DEF Upto
  <2> QED
    BY <2>4
<1> HIDE DEF Upto, S
<1>3. Len(Size) - 1 \in S
  BY <1>1, <1>2, NatInduct, Sizes
<1>4. PICK w : Upto(Len(Size) - 1, w)
  BY <1>3 DEF S
<1>5. (Len(Size) - 1) + 1 = Len(Size)
  BY Sizes
<1> QED
  BY <1>4, <1>5 DEF Upto, StartsOf, Segs

\* The first sub-segment starts the file; each other one follows its
\* predecessor.
LEMMA StartDef ==
  /\ FileStart[1] = 0
  /\ \A i \in Segs : i # 1 => FileStart[i] = FileStart[i - 1] + Size[i - 1]
<1>1. FileStart = CHOOSE f : StartsOf(f)
  BY DEF FileStart, StartsOf, Segs
<1>2. StartsOf(FileStart)
  BY <1>1, StartsExist
<1> HIDE DEF FileStart
<1> QED
  BY <1>2, Sizes DEF StartsOf, Segs

\* Sub-segments follow each other without overlap.
LEMMA StartsGrow ==
  /\ \A i \in Segs : FileStart[i] \in Nat
  /\ \A i, j \in Segs : i < j => FileStart[i] + Size[i] <= FileStart[j]
  /\ \A i \in Segs : FileStart[i] + Size[i] <= Word
<1> DEFINE Ok(j) == /\ FileStart[j] \in Nat
                    /\ \A i \in Segs : i < j => FileStart[i] + Size[i] <= FileStart[j]
           T == {n \in Nat : n + 1 \in Segs => \A j \in 1..(n + 1) : Ok(j)}
<1> USE Sizes DEF Segs
<1>1. 0 \in T
  BY StartDef
<1>2. ASSUME NEW n \in Nat, n \in T PROVE n + 1 \in T
  <2>1. SUFFICES ASSUME n + 2 \in Segs PROVE \A j \in 1..(n + 2) : Ok(j)
    OBVIOUS
  <2>2. \A j \in 1..(n + 1) : Ok(j)
    BY <1>2, <2>1
  <2>3. FileStart[n + 2] = FileStart[n + 1] + Size[n + 1]
    BY <2>1, StartDef
  <2>4. FileStart[n + 1] \in Nat /\ Size[n + 1] \in Nat
    BY <2>1, <2>2
  <2>5. ASSUME NEW i \in Segs, i < n + 2 PROVE FileStart[i] + Size[i] <= FileStart[n + 2]
    <3>1. CASE i = n + 1
      BY <2>3, <2>4, <3>1
    <3>2. CASE i # n + 1
      <4>1. i < n + 1 /\ n + 1 \in 1..(n + 1) /\ i \in 1..(n + 1)
        BY <2>5, <3>2
      <4>2. FileStart[i] + Size[i] <= FileStart[n + 1] /\ FileStart[i] \in Nat
        BY <2>2, <4>1
      <4> QED
        BY <2>3, <2>4, <4>2
    <3> QED
      BY <3>1, <3>2
  <2>6. Ok(n + 2)
    BY <2>3, <2>4, <2>5
  <2> QED
    BY <2>2, <2>6
<1> HIDE DEF T
<1>3. Len(Size) - 1 \in T
  BY <1>1, <1>2, NatInduct
<1>4. \A j \in Segs : Ok(j)
  <2>1. (Len(Size) - 1) + 1 = Len(Size) /\ Len(Size) \in Segs
    OBVIOUS
  <2> QED
    BY <1>3, <2>1 DEF T
<1>5. ASSUME NEW i \in Segs PROVE FileStart[i] + Size[i] <= Word
  <2>1. CASE i = Len(Size)
    BY <2>1, MappingAssumption
  <2>2. CASE i # Len(Size)
    <3>1. FileStart[i] + Size[i] <= FileStart[Len(Size)]
      BY <1>4, <2>2
    <3>2. FileStart[Len(Size)] + Size[Len(Size)] <= Word
      BY MappingAssumption
    <3>3. /\ FileStart[i] \in Nat /\ FileStart[Len(Size)] \in Nat
          /\ Size[i] \in Nat /\ Size[Len(Size)] \in Nat
      BY <1>4
    <3> QED
      BY <3>1, <3>2, <3>3
  <2> QED
    BY <2>1, <2>2
<1> QED
  BY <1>4, <1>5

\* A file offset lies in at most one sub-segment.
LEMMA OneSegment ==
  ASSUME NEW i \in Segs, NEW j \in Segs, NEW o \in Nat,
         o \in Bytes(FileStart[i], Size[i]), o \in Bytes(FileStart[j], Size[j])
  PROVE  i = j
<1>1. /\ FileStart[i] \in Nat /\ FileStart[j] \in Nat
      /\ Size[i] \in Nat /\ Size[j] \in Nat /\ i \in Int /\ j \in Int
  BY StartsGrow, Sizes DEF Segs
<1>2. /\ i < j => FileStart[i] + Size[i] <= FileStart[j]
      /\ j < i => FileStart[j] + Size[j] <= FileStart[i]
  BY StartsGrow
<1> QED
  BY <1>1, <1>2 DEF Bytes

\* The fields of a location.
LEMMA Location ==
  ASSUME NEW l \in Cell \cup Place
  PROVE  /\ l.area \in {"shm", "anon", "stack"}
         /\ l.at \in 0..(Word - 1)
         /\ l.area = "shm" => l.proc = None
         /\ l.area # "shm" => l.proc \in Proc
         /\ l = [area |-> l.area, proc |-> l.proc, at |-> l.at]
<1>1. l \in Loc
  BY OffsetPtrAssumption
<1> QED
  BY <1>1, LocationAssumption DEF Loc

\* The sub-segment of a location in the shared memory.
LEMMA IndexIs ==
  ASSUME NEW l \in Cell \cup Place, l.area = "shm"
  PROVE  /\ Index(l) \in Segs
         /\ l.at \in Bytes(FileStart[Index(l)], Size[Index(l)])
         /\ \A i \in Segs : l.at \in Bytes(FileStart[i], Size[i]) => i = Index(l)
<1>1. \E i \in Segs : l.at \in Bytes(FileStart[i], Size[i])
  BY LocationAssumption DEF Segs
<1>2. Index(l) = CHOOSE i \in Segs : l.at \in Bytes(FileStart[i], Size[i])
  BY DEF Index, Segs
<1>3. Index(l) \in Segs /\ l.at \in Bytes(FileStart[Index(l)], Size[Index(l)])
  BY <1>1, <1>2
<1>4. l.at \in Nat
  BY Location, Sizes
<1> QED
  BY <1>3, <1>4, OneSegment

\* Neighbours in the shared memory are in one sub-segment.
LEMMA Neighbours ==
  ASSUME NEW k \in Place, NEW l \in Place, k.area = "shm", l.area = "shm",
         NEW n \in {-1, 1}, l.at = k.at + n
  PROVE  Index(l) = Index(k)
<1> DEFINE i == Index(k)
<1>1. /\ i \in Segs /\ k.at \in Bytes(FileStart[i], Size[i])
      /\ Index(l) \in Segs /\ l.at \in Bytes(FileStart[Index(l)], Size[Index(l)])
  BY IndexIs
<1>2. /\ k.at - FileStart[i] \notin {0, 1}
      /\ l.at - FileStart[Index(l)] \notin {0, 1}
  BY <1>1, LocationAssumption DEF Segs
<1>3. /\ FileStart[i] \in Nat /\ FileStart[Index(l)] \in Nat
      /\ Size[i] \in Nat /\ Size[Index(l)] \in Nat
      /\ k.at \in Nat /\ l.at \in Nat /\ i \in Int /\ Index(l) \in Int
  BY <1>1, StartsGrow, Sizes, Location DEF Segs
<1>4. /\ i < Index(l) => FileStart[i] + Size[i] <= FileStart[Index(l)]
      /\ Index(l) < i => FileStart[Index(l)] + Size[Index(l)] <= FileStart[i]
  BY <1>1, StartsGrow
<1> HIDE DEF i
<1>5. ~(i < Index(l)) /\ ~(Index(l) < i)
  BY <1>1, <1>2, <1>3, <1>4 DEF Bytes
<1>6. Index(l) = i
  BY <1>3, <1>5
<1> QED
  BY <1>6 DEF i

----------------------------------------------------------------------------
(* Addresses, and what find yields for them.                               *)

\* What one process maps.
LEMMA Mappings ==
  ASSUME NEW p \in Proc
  PROVE  /\ AnonBase[p] \in 1..(Word - 1) /\ StackBase[p] \in 1..(Word - 1)
         /\ AnonSize \in Nat \ {0, 1} /\ AnonBase[p] + AnonSize <= Word
         /\ \A i \in Segs :
              /\ Base[p][i] \in 1..(Word - 1) /\ Base[p][i] + Size[i] <= Word
              /\ Apart(Base[p][i], Size[i], AnonBase[p], AnonSize)
              /\ \A j \in Segs : i # j => Apart(Base[p][i], Size[i], Base[p][j], Size[j])
<1>1. /\ AnonBase[p] \in 1..(Word - 1) /\ StackBase[p] \in 1..(Word - 1)
      /\ AnonSize \in Nat \ {0, 1} /\ \A i \in Segs : Base[p][i] \in 1..(Word - 1)
  BY OffsetPtrAssumption DEF Segs
<1>2. /\ AnonBase[p] + AnonSize <= Word
      /\ \A i \in Segs :
              /\ Base[p][i] + Size[i] <= Word
              /\ Apart(Base[p][i], Size[i], AnonBase[p], AnonSize)
              /\ \A j \in Segs \ {i} : Apart(Base[p][i], Size[i], Base[p][j], Size[j])
  BY MappingAssumption DEF Segs
<1> QED
  BY <1>1, <1>2

\* A process sees a location of the shared memory in its mapping of the
\* location's sub-segment.
LEMMA AddrShm ==
  ASSUME NEW p \in Proc, NEW l \in Cell \cup Place, l.area = "shm"
  PROVE  /\ Addr(p, l) = Base[p][Index(l)] + (l.at - FileStart[Index(l)])
         /\ Addr(p, l) \in Bytes(Base[p][Index(l)], Size[Index(l)])
         /\ Addr(p, l) \in 1..(Word - 1)
<1> DEFINE i == Index(l)
<1>1. Addr(p, l) = Base[p][i] + (l.at - FileStart[i])
  BY DEF Addr, View
<1>2. i \in Segs /\ l.at \in Bytes(FileStart[i], Size[i])
  BY IndexIs
<1>3. /\ FileStart[i] \in Nat /\ Size[i] \in Nat \ {0} /\ l.at \in Nat
      /\ Base[p][i] \in 1..(Word - 1) /\ Base[p][i] + Size[i] <= Word
  BY <1>2, StartsGrow, Sizes, Location, Mappings
<1> HIDE DEF i
<1>4. /\ Base[p][i] + (l.at - FileStart[i]) \in Bytes(Base[p][i], Size[i])
      /\ Base[p][i] + (l.at - FileStart[i]) \in 1..(Word - 1)
  <2>1. ASSUME NEW b \in 1..(Word - 1), NEW f \in Nat, NEW z \in Nat \ {0}, NEW o \in Nat,
               b + z <= Word, o \in f..(f + z - 1)
        PROVE  b + (o - f) \in b..(b + z - 1) /\ b + (o - f) \in 1..(Word - 1)
    BY <2>1, Sizes
  <2> QED
    BY <1>2, <1>3, <2>1 DEF Bytes
<1>5. /\ Addr(p, l) \in Bytes(Base[p][i], Size[i])
      /\ Addr(p, l) \in 1..(Word - 1)
  BY <1>1, <1>4
<1> QED
  BY <1>1, <1>5 DEF i

\* The same for its anonymous memory.
LEMMA AddrAnon ==
  ASSUME NEW p \in Proc, NEW l \in Cell \cup Place, l.area = "anon"
  PROVE  /\ Addr(p, l) = AnonBase[p] + l.at
         /\ Addr(p, l) \in Bytes(AnonBase[p], AnonSize)
         /\ Addr(p, l) \in 1..(Word - 1)
<1>1. Addr(p, l) = AnonBase[p] + l.at
  BY DEF Addr, View
<1>2. l.at \in Nat /\ l.at < AnonSize
  BY Location, LocationAssumption, Sizes
<1>3. /\ AnonBase[p] \in 1..(Word - 1) /\ AnonSize \in Nat \ {0}
      /\ AnonBase[p] + AnonSize <= Word
  BY Mappings
<1> QED
  BY <1>1, <1>2, <1>3, Sizes DEF Bytes

\* A stack is in no sub-segment.
LEMMA AddrStack ==
  ASSUME NEW l \in Cell \cup Place, l.area = "stack"
  PROVE  /\ Addr(l.proc, l) = StackBase[l.proc] + l.at
         /\ Unmanaged(l.proc, Addr(l.proc, l))
         /\ Addr(l.proc, l) \in 1..(Word - 1)
<1>1. l.proc \in Proc /\ l.at \in Nat
  BY Location, Sizes
<1>2. Addr(l.proc, l) = StackBase[l.proc] + l.at
  BY <1>1 DEF Addr, View
<1>3. /\ StackBase[l.proc] + l.at < Word
      /\ Unmanaged(l.proc, StackBase[l.proc] + l.at)
  BY LocationAssumption
<1>4. StackBase[l.proc] \in 1..(Word - 1)
  BY <1>1, Mappings
<1> QED
  BY <1>1, <1>2, <1>3, <1>4, Sizes

\* The registry finds the one sub-segment of the shared memory around an
\* address.
LEMMA FindShm ==
  ASSUME NEW p \in Proc, NEW n \in Segs, NEW i \in 1..n, NEW va \in Int,
         va \in Bytes(Base[p][i], Size[i])
  PROVE  find(p, n, va) = Shm[p][i]
<1> DEFINE all == {Shm[p][j] : j \in 1..n} \cup {Anon[p]}
           hit == {s \in all : va \in Bytes(s.base_vaddr, s.size)}
<1>1. \A j \in 1..n : j \in Segs
  BY Sizes DEF Segs
<1>2. \A j \in Segs : Shm[p][j].base_vaddr = Base[p][j] /\ Shm[p][j].size = Size[j]
  BY DEF Shm, Segs
<1>3. Anon[p].base_vaddr = AnonBase[p] /\ Anon[p].size = AnonSize
  BY DEF Anon
<1>4. \A j \in Segs : Base[p][j] \in Nat /\ Size[j] \in Nat
  BY Mappings, Sizes
<1>5. ASSUME NEW j \in 1..n, va \in Bytes(Base[p][j], Size[j]) PROVE j = i
  <2>1. i # j => Apart(Base[p][i], Size[i], Base[p][j], Size[j])
    BY <1>1, Mappings
  <2>2. Base[p][i] \in Nat /\ Size[i] \in Nat /\ Base[p][j] \in Nat /\ Size[j] \in Nat
    BY <1>1, <1>4
  <2> QED
    BY <1>5, <2>1, <2>2 DEF Apart, Bytes
<1>6. va \notin Bytes(AnonBase[p], AnonSize)
  <2>1. Apart(Base[p][i], Size[i], AnonBase[p], AnonSize)
    BY <1>1, Mappings
  <2>2. Base[p][i] \in Nat /\ Size[i] \in Nat /\ AnonBase[p] \in Nat /\ AnonSize \in Nat
    BY <1>1, <1>4, Mappings, Sizes
  <2> QED
    BY <2>1, <2>2 DEF Apart, Bytes
<1>7. Shm[p][i] \in hit
  BY <1>1, <1>2
<1>8. ASSUME NEW s \in hit PROVE s = Shm[p][i]
  <2>1. s # Anon[p]
    BY <1>3, <1>6
  <2>2. PICK j \in 1..n : s = Shm[p][j]
    BY <2>1
  <2>3. va \in Bytes(Base[p][j], Size[j])
    BY <1>1, <1>2, <2>2
  <2> QED
    BY <1>5, <2>2, <2>3
<1>9. find(p, n, va) = IF hit = {} THEN None ELSE CHOOSE s \in hit : TRUE
  BY DEF find
<1> HIDE DEF hit
<1> QED
  BY <1>7, <1>8, <1>9

\* It finds the anonymous sub-segment.
LEMMA FindAnon ==
  ASSUME NEW p \in Proc, NEW n \in Segs, NEW va \in Int,
         va \in Bytes(AnonBase[p], AnonSize)
  PROVE  find(p, n, va) = Anon[p]
<1> DEFINE all == {Shm[p][j] : j \in 1..n} \cup {Anon[p]}
           hit == {s \in all : va \in Bytes(s.base_vaddr, s.size)}
<1>1. \A j \in 1..n : j \in Segs
  BY Sizes DEF Segs
<1>2. \A j \in Segs : Shm[p][j].base_vaddr = Base[p][j] /\ Shm[p][j].size = Size[j]
  BY DEF Shm, Segs
<1>3. Anon[p].base_vaddr = AnonBase[p] /\ Anon[p].size = AnonSize
  BY DEF Anon
<1>4. ASSUME NEW j \in 1..n PROVE va \notin Bytes(Base[p][j], Size[j])
  <2>1. Apart(Base[p][j], Size[j], AnonBase[p], AnonSize)
    BY <1>1, Mappings
  <2>2. Base[p][j] \in Nat /\ Size[j] \in Nat /\ AnonBase[p] \in Nat /\ AnonSize \in Nat
    BY <1>1, Mappings, Sizes
  <2> QED
    BY <2>1, <2>2 DEF Apart, Bytes
<1>5. Anon[p] \in hit
  BY <1>3
<1>6. ASSUME NEW s \in hit PROVE s = Anon[p]
  <2>1. ASSUME NEW j \in 1..n, s = Shm[p][j] PROVE FALSE
    BY <1>1, <1>2, <1>4, <2>1
  <2> QED
    BY <2>1
<1>7. find(p, n, va) = IF hit = {} THEN None ELSE CHOOSE s \in hit : TRUE
  BY DEF find
<1> HIDE DEF hit
<1> QED
  BY <1>5, <1>6, <1>7

\* It finds nothing where nothing is mapped.
LEMMA FindNone ==
  ASSUME NEW p \in Proc, NEW n \in Segs, NEW va \in Int, Unmanaged(p, va)
  PROVE  find(p, n, va) = None
<1> DEFINE all == {Shm[p][j] : j \in 1..n} \cup {Anon[p]}
           hit == {s \in all : va \in Bytes(s.base_vaddr, s.size)}
<1>1. \A j \in 1..n : j \in Segs
  BY Sizes DEF Segs
<1>2. \A j \in Segs : Shm[p][j].base_vaddr = Base[p][j] /\ Shm[p][j].size = Size[j]
  BY DEF Shm, Segs
<1>3. Anon[p].base_vaddr = AnonBase[p] /\ Anon[p].size = AnonSize
  BY DEF Anon
<1>4. hit = {}
  BY <1>1, <1>2, <1>3 DEF Unmanaged, Segs
<1>5. find(p, n, va) = IF hit = {} THEN None ELSE CHOOSE s \in hit : TRUE
  BY DEF find
<1> HIDE DEF hit
<1> QED
  BY <1>4, <1>5

\* A file offset is looked up among the mapped sub-segments.
LEMMA FindOffset ==
  ASSUME NEW p \in Proc, NEW n \in Segs, NEW i \in Segs, NEW o \in Nat,
         o \in Bytes(FileStart[i], Size[i])
  PROVE  find_segment_by_file_offset(p, n, o) = IF i <= n THEN Shm[p][i] ELSE None
<1> DEFINE all == {Shm[p][j] : j \in 1..n}
           hit == {s \in all : o \in Bytes(s.file_offset, s.size)}
<1>1. \A j \in 1..n : j \in Segs
  BY Sizes DEF Segs
<1>2. \A j \in Segs : Shm[p][j].file_offset = FileStart[j] /\ Shm[p][j].size = Size[j]
  BY DEF Shm, Segs
<1>3. ASSUME NEW s \in hit PROVE s = Shm[p][i] /\ i <= n
  <2>1. PICK j \in 1..n : s = Shm[p][j]
    OBVIOUS
  <2>2. o \in Bytes(FileStart[j], Size[j])
    BY <1>1, <1>2, <2>1
  <2>3. i = j
    BY <1>1, <2>2, OneSegment
  <2> QED
    BY <2>1, <2>3 DEF Segs
<1>4. i <= n => Shm[p][i] \in hit
  BY <1>2 DEF Segs
<1>5. find_segment_by_file_offset(p, n, o) = IF hit = {} THEN None ELSE CHOOSE s \in hit : TRUE
  BY DEF find_segment_by_file_offset
<1> HIDE DEF hit
<1> QED
  BY <1>3, <1>4, <1>5

\* The sub_segment objects of a process.
LEMMA Objects ==
  ASSUME NEW p \in Proc
  PROVE  /\ Anon[p] # None /\ Anon[p].is_anon /\ Anon[p].manager = "anon"
         /\ Anon[p].base_vaddr = AnonBase[p]
         /\ \A i \in Segs :
              /\ Shm[p][i] # None /\ ~Shm[p][i].is_anon /\ Shm[p][i].manager = "shm"
              /\ Shm[p][i].base_vaddr = Base[p][i]
              /\ Shm[p][i].file_offset = FileStart[i]
<1>1. Anon[p] # None /\ \A i \in Segs : Shm[p][i] # None
  BY MappingAssumption DEF Segs
<1>2. Anon[p].is_anon /\ Anon[p].manager = "anon" /\ Anon[p].base_vaddr = AnonBase[p]
  BY DEF Anon
<1>3. ASSUME NEW i \in Segs
      PROVE  /\ ~Shm[p][i].is_anon /\ Shm[p][i].manager = "shm"
             /\ Shm[p][i].base_vaddr = Base[p][i]
             /\ Shm[p][i].file_offset = FileStart[i]
  BY DEF Shm, Segs
<1> QED
  BY <1>1, <1>2, <1>3

\* What a process can reach has an address of its own, never null.
LEMMA NearAddr ==
  ASSUME NEW p \in Proc, NEW l \in Cell \cup Place, NEW n, Near(p, n, l)
  PROVE  Addr(p, l) \in 1..(Word - 1)
<1>1. l.area \in {"shm", "anon", "stack"}
  BY Location
<1>2. l.area # "shm" => l.proc = p
  BY DEF Near
<1> QED
  BY <1>1, <1>2, AddrShm, AddrAnon, AddrStack

\* How the registry classifies what a process can reach.
LEMMA FindNear ==
  ASSUME NEW p \in Proc, NEW n \in Segs, NEW l \in Cell \cup Place, Near(p, n, l)
  PROVE  find(p, n, Addr(p, l)) =
           IF l.area = "shm" THEN Shm[p][Index(l)]
           ELSE IF l.area = "anon" THEN Anon[p] ELSE None
<1>1. Addr(p, l) \in Int
  BY NearAddr, Sizes
<1>2. CASE l.area = "shm"
  <2>1. Index(l) \in 1..n
    BY <1>2, IndexIs DEF Near, Segs
  <2> QED
    BY <1>1, <1>2, <2>1, FindShm, AddrShm
<1>3. CASE l.area = "anon"
  BY <1>1, <1>3, FindAnon, AddrAnon
<1>4. CASE l.area = "stack"
  BY <1>1, <1>4, FindNone, AddrStack DEF Near
<1> QED
  BY <1>2, <1>3, <1>4, Location

\* The file offset of a location, computed from its address.
LEMMA OffsetIs ==
  ASSUME NEW p \in Proc, NEW l \in Cell \cup Place, l.area = "shm"
  PROVE  FileOffset(Shm[p][Index(l)], Addr(p, l)) = l.at
<1> DEFINE i == Index(l)
<1>1. i \in Segs
  BY IndexIs
<1>2. Addr(p, l) = Base[p][i] + (l.at - FileStart[i])
  BY AddrShm
<1>3. Shm[p][i].base_vaddr = Base[p][i] /\ Shm[p][i].file_offset = FileStart[i]
  BY <1>1, Objects
<1>4. Base[p][i] \in Int /\ FileStart[i] \in Int /\ l.at \in Int
  BY <1>1, Mappings, StartsGrow, Location, Sizes
<1> HIDE DEF i
<1>5. FileOffset(Shm[p][i], Addr(p, l)) = l.at
  BY <1>2, <1>3, <1>4 DEF FileOffset
<1> QED
  BY <1>5 DEF i

\* The encoding is a word, and not the null pointer's.
LEMMA NeverNull ==
  ASSUME NEW c \in Cell, NEW t \in Place, NEW n,
         c.area = "shm" => t.area = "shm",
         c.area # "shm" => Near(c.proc, n, t)
  PROVE  Encoding(c, t) \in 0..(Word - 1) /\ Encoding(c, t) # kNull
<1> USE Sizes
<1>1. CASE c.area = "shm"
  <2>1. t.area = "shm" /\ t.proc = None /\ c.proc = None
    BY <1>1, Location
  <2>2. t.at # c.at + 1
    BY <1>1, <2>1, LocationAssumption
  <2>3. t.at # 0
    <3>1. 1 \in Segs /\ FileStart[1] = 0
      BY StartDef DEF Segs
    <3>2. t.at - FileStart[1] \notin {0, 1}
      BY <2>1, <3>1, LocationAssumption DEF Segs
    <3> QED
      BY <3>1, <3>2
  <2>4. t.at \in 0..(Word - 1) /\ c.at \in 0..(Word - 1)
    BY Location
  <2> QED
    BY <1>1, <2>2, <2>3, <2>4, Roundtrip DEF Encoding
<1>2. CASE c.area # "shm"
  <2> DEFINE p == c.proc
             a == Addr(p, t)
  <2>1. p \in Proc /\ Near(p, n, t)
    BY <1>2, Location
  <2>2. a \in 1..(Word - 1)
    BY <2>1, NearAddr
  <2>3. t.area \in {"shm", "anon", "stack"} /\ (t.area # "shm" => t.proc = p)
    BY <2>1, Location DEF Near
  <2>4. CASE c.area = "anon"
    <3>1. AnonBase[p] \in 1..(Word - 1) /\ AnonSize \in Nat \ {0, 1}
      BY <2>1, Mappings
    <3>2. AnonBase[p] + 1 \in Bytes(AnonBase[p], AnonSize)
      BY <3>1 DEF Bytes
    <3>3. a # AnonBase[p] + 1
      <4>1. CASE t.area = "anon"
        <5>1. a = AnonBase[p] + t.at /\ t.at \notin {0, 1} /\ t.at \in Int
          BY <2>1, <4>1, AddrAnon, LocationAssumption, Location
        <5> HIDE DEF a, p
        <5> QED
          BY <3>1, <5>1
      <4>2. CASE t.area = "stack"
        BY <2>3, <3>2, <4>2, AddrStack DEF Unmanaged
      <4>3. CASE t.area = "shm"
        <5> DEFINE i == Index(t)
        <5>1. i \in Segs /\ a \in Bytes(Base[p][i], Size[i])
          BY <2>1, <4>3, IndexIs, AddrShm
        <5>2. /\ Apart(Base[p][i], Size[i], AnonBase[p], AnonSize)
              /\ Base[p][i] \in Int /\ Size[i] \in Int
          <6>1. Apart(Base[p][i], Size[i], AnonBase[p], AnonSize) /\ Base[p][i] \in 1..(Word - 1)
            BY <2>1, <5>1, Mappings
          <6>2. Size[i] \in Int
            BY <5>1
          <6> QED
            BY <6>1, <6>2
        <5>3. ASSUME NEW x \in Int, NEW b \in Int, NEW z \in Int, NEW q \in Int,
                     NEW k \in Nat \ {0, 1}, x \in Bytes(b, z), Apart(b, z, q, k)
              PROVE  x # q + 1
          BY <5>3 DEF Apart, Bytes
        <5>4. a \in Int /\ AnonBase[p] \in Int
          BY <2>2, <3>1
        <5> HIDE DEF i, a, p
        <5> QED
          BY <3>1, <5>1, <5>2, <5>3, <5>4
      <4> QED
        BY <2>3, <4>1, <4>2, <4>3
    <3>4. Encoding(c, t) = (a - AnonBase[p]) % Word
      BY <2>4 DEF Encoding
    <3> HIDE DEF a, p
    <3>5. a \in 0..(Word - 1) /\ AnonBase[p] \in 0..(Word - 1) /\ a # 0
      BY <2>2, <3>1
    <3>6. /\ (a - AnonBase[p]) % Word \in 0..(Word - 1)
          /\ (a - AnonBase[p]) % Word # kNull
      BY <3>3, <3>5, Roundtrip
    <3> QED
      BY <3>4, <3>6
  <2>5. CASE c.area = "stack"
    <3> DEFINE b == Addr(p, c)
    <3>1. b = StackBase[p] + c.at /\ b \in 1..(Word - 1)
      BY <2>5, AddrStack
    <3>2. Unmanaged(p, b + 1)
      BY <2>5, <3>1, LocationAssumption
    <3>3. StackBase[p] \in Int /\ c.at \in Int /\ t.at \in Int
      BY <2>1, Mappings, Location
    <3>4. a # b + 1
      <4>1. CASE t.area = "stack"
        <5>1. a = StackBase[p] + t.at
          BY <2>3, <4>1, AddrStack
        <5>2. t.at # c.at + 1
          BY <2>3, <2>5, <4>1, LocationAssumption
        <5> HIDE DEF a, b, p
        <5>3. \A x, y, z \in Int : x + y = x + z + 1 => y = z + 1
          OBVIOUS
        <5> QED
          BY <3>1, <3>3, <5>1, <5>2, <5>3
      <4>2. CASE t.area = "anon"
        BY <2>1, <3>2, <4>2, AddrAnon DEF Unmanaged
      <4>3. CASE t.area = "shm"
        BY <2>1, <3>2, <4>3, AddrShm, IndexIs DEF Unmanaged, Segs
      <4> QED
        BY <2>3, <4>1, <4>2, <4>3
    <3>5. Encoding(c, t) = (a - b) % Word
      BY <2>5 DEF Encoding
    <3> HIDE DEF a, b, p
    <3>6. a \in 0..(Word - 1) /\ b \in 0..(Word - 1) /\ a # 0
      BY <2>2, <3>1
    <3>7. (a - b) % Word \in 0..(Word - 1) /\ (a - b) % Word # kNull
      BY <3>4, <3>6, Roundtrip
    <3> QED
      BY <3>5, <3>7
  <2> QED
    BY <1>2, <2>4, <2>5, Location
<1> QED
  BY <1>1, <1>2

----------------------------------------------------------------------------
(* set and get.                                                            *)

\* set refuses exactly what is not shared in a pointer that is, and else
\* stores the encoding.
LEMMA SetIs ==
  ASSUME NEW p \in Proc, NEW n \in Segs, NEW c \in Cell, NEW l \in Place,
         Near(p, n, c), Near(p, n, l)
  PROVE  /\ refused(p, n, c, Addr(p, l)) <=> c.area = "shm" /\ l.area # "shm"
         /\ ~refused(p, n, c, Addr(p, l)) => encode(p, n, c, Addr(p, l)) = Encoding(c, l)
<1> DEFINE ptr == Addr(p, l)
           self == Addr(p, c)
<1>1. find(p, n, ptr) = IF l.area = "shm" THEN Shm[p][Index(l)]
                        ELSE IF l.area = "anon" THEN Anon[p] ELSE None
  BY FindNear
<1>2. find(p, n, self) = IF c.area = "shm" THEN Shm[p][Index(c)]
                         ELSE IF c.area = "anon" THEN Anon[p] ELSE None
  BY FindNear
<1>3. ptr # nullptr
  BY NearAddr, Sizes DEF nullptr
<1>4. /\ l.area = "shm" => Index(l) \in Segs
      /\ c.area = "shm" => Index(c) \in Segs
  BY IndexIs
<1>5. /\ l.area \in {"shm", "anon", "stack"} /\ c.area \in {"shm", "anon", "stack"}
      /\ c.area # "shm" => c.proc = p
  BY Location DEF Near
<1>6. /\ Anon[p] # None /\ Anon[p].is_anon /\ Anon[p].manager = "anon"
      /\ Anon[p].base_vaddr = AnonBase[p]
      /\ \A i \in Segs : Shm[p][i] # None /\ ~Shm[p][i].is_anon /\ Shm[p][i].manager = "shm"
  BY Objects
<1>7. /\ l.area = "shm" => FileOffset(Shm[p][Index(l)], ptr) = l.at
      /\ c.area = "shm" => FileOffset(Shm[p][Index(c)], self) = c.at
  BY OffsetIs
<1> HIDE DEF ptr
<1>8. refused(p, n, c, ptr) <=> c.area = "shm" /\ l.area # "shm"
  <2>1. CASE c.area = "shm"
    <3>1. find(p, n, self) = Shm[p][Index(c)] /\ InShm(find(p, n, self))
      BY <1>2, <1>4, <1>6, <2>1 DEF InShm
    <3>2. CASE l.area = "shm"
      BY <1>1, <1>4, <1>6, <2>1, <3>1, <3>2 DEF refused
    <3>3. CASE l.area = "anon"
      BY <1>1, <1>3, <1>4, <1>6, <2>1, <3>1, <3>3 DEF refused
    <3>4. CASE l.area = "stack"
      BY <1>1, <1>3, <2>1, <3>1, <3>4 DEF refused
    <3> QED
      BY <1>5, <3>2, <3>3, <3>4
  <2>2. CASE c.area # "shm"
    <3>1. ~InShm(find(p, n, self))
      BY <1>2, <1>6, <2>2 DEF InShm
    <3> QED
      BY <2>2, <3>1 DEF refused
  <2> QED
    BY <2>1, <2>2
<1>9. ASSUME ~refused(p, n, c, ptr) PROVE encode(p, n, c, ptr) = Encoding(c, l)
  <2>1. CASE c.area = "shm"
    <3>1. l.area = "shm"
      BY <1>8, <1>9, <2>1
    <3>2. /\ find(p, n, self) = Shm[p][Index(c)] /\ find(p, n, ptr) = Shm[p][Index(l)]
          /\ Shm[p][Index(c)] # None /\ ~Shm[p][Index(c)].is_anon
      BY <1>1, <1>2, <1>4, <1>6, <2>1, <3>1
    <3>3. encode(p, n, c, ptr) = (l.at - c.at) % Word
      BY <1>3, <1>7, <2>1, <3>1, <3>2 DEF encode
    <3> QED
      BY <2>1, <3>3 DEF Encoding
  <2>2. CASE c.area = "anon"
    <3>1. find(p, n, self) = Anon[p]
      BY <1>2, <2>2
    <3>2. encode(p, n, c, ptr) = (ptr - AnonBase[p]) % Word
      BY <1>3, <1>6, <3>1 DEF encode
    <3> QED
      BY <1>5, <2>2, <3>2 DEF Encoding, ptr
  <2>3. CASE c.area = "stack"
    <3>1. find(p, n, self) = None
      BY <1>2, <2>3
    <3>2. encode(p, n, c, ptr) = (ptr - self) % Word
      BY <1>3, <3>1 DEF encode
    <3> QED
      BY <1>5, <2>3, <3>2 DEF Encoding, ptr
  <2> QED
    BY <1>5, <2>1, <2>2, <2>3
<1> QED
  BY <1>8, <1>9 DEF ptr

\* A null pointer is never refused.
LEMMA SetNull ==
  ASSUME NEW p, NEW n, NEW c
  PROVE  ~refused(p, n, c, nullptr) /\ encode(p, n, c, nullptr) = kNull
BY DEF refused, encode

\* What a process can reach of the cells.
LEMMA ReachesNear ==
  ASSUME NEW p \in Proc, NEW l, Reaches(p, l)
  PROVE  Near(p, known[p], l) /\ alive[p]
BY DEF Reaches, Near

\* More sub-segments bring more within reach.
LEMMA NearGrows ==
  ASSUME NEW p, NEW n \in Int, NEW k \in Int, n <= k, NEW l \in Cell \cup Place,
         Near(p, n, l)
  PROVE  Near(p, k, l)
<1>1. l.area = "shm" => Index(l) \in Int
  BY IndexIs DEF Segs
<1> QED
  BY <1>1 DEF Near

\* What get yields, and what is mapped when it returns.
Meaning(p, t) == IF t = None THEN nullptr ELSE Addr(p, t)

\* get gives the address of the target and has made it reachable.
LEMMA GetIs ==
  ASSUME IInv, NEW p \in Proc, NEW c \in Cell, Reaches(p, c)
  PROVE  /\ get(p, c) = Meaning(p, target[c])
         /\ Discovered(p, c) \in known[p]..count
         /\ target[c] # None => /\ target[c] \in Place
                                /\ Near(p, Discovered(p, c), target[c])
<1> DEFINE t == target[c]
           self == Addr(p, c)
<1>1. Holds(c, m[c], t, known, count)
  BY DEF IInv
<1>2. /\ count \in Segs /\ known[p] \in 1..count /\ known[p] \in Segs
      /\ count \in Int /\ known[p] \in Int
  BY Sizes DEF IInv, Segs
<1>3. CASE t = None
  <2>1. m[c] = kNull
    BY <1>1, <1>3 DEF Holds
  <2> QED
    BY <1>2, <1>3, <2>1 DEF get, Discovered, Meaning
<1>4. CASE t # None
  <2>1. /\ t \in Place /\ m[c] = Encoding(c, t) /\ m[c] # kNull /\ m[c] \in 0..(Word - 1)
        /\ c.area = "shm" => t.area = "shm" /\ Index(t) <= count
        /\ c.area # "shm" => Near(c.proc, known[c.proc], t)
    BY <1>1, <1>4 DEF Holds
  <2>2. Near(p, known[p], c)
    BY ReachesNear
  <2>3. find(p, known[p], self) =
          IF c.area = "shm" THEN Shm[p][Index(c)]
          ELSE IF c.area = "anon" THEN Anon[p] ELSE None
    BY <1>2, <2>2, FindNear
  <2>4. /\ c.area \in {"shm", "anon", "stack"}
        /\ c.area # "shm" => c.proc = p
    BY <2>2, Location DEF Near
  <2>5. /\ Anon[p] # None /\ Anon[p].is_anon /\ Anon[p].base_vaddr = AnonBase[p]
        /\ \A i \in Segs :
             /\ Shm[p][i] # None /\ ~Shm[p][i].is_anon
             /\ Shm[p][i].base_vaddr = Base[p][i] /\ Shm[p][i].file_offset = FileStart[i]
    BY Objects
  <2> HIDE DEF t
  <2>6. CASE c.area # "shm"
    <3>1. Near(p, known[p], t)
      BY <2>1, <2>4, <2>6
    <3>2. Discovered(p, c) = known[p]
      BY <2>3, <2>5, <2>6 DEF Discovered, InShm
    <3>3. Addr(p, t) \in 0..(Word - 1)
      BY <2>1, <3>1, NearAddr, Sizes
    <3>4. CASE c.area = "anon"
      <4>1. get(p, c) = (AnonBase[p] + m[c]) % Word
        BY <2>1, <2>3, <2>5, <3>4 DEF get
      <4>2. m[c] = (Addr(p, t) - AnonBase[p]) % Word
        BY <2>1, <2>4, <3>4 DEF Encoding
      <4>3. AnonBase[p] \in 0..(Word - 1)
        BY Mappings, Sizes
      <4>4. (AnonBase[p] + ((Addr(p, t) - AnonBase[p]) % Word)) % Word = Addr(p, t)
        BY <3>3, <4>3, Roundtrip
      <4>5. get(p, c) = Addr(p, t)
        BY <4>1, <4>2, <4>4
      <4> QED
        BY <1>2, <1>4, <2>1, <3>1, <3>2, <4>5 DEF Meaning, t
    <3>5. CASE c.area = "stack"
      <4>1. get(p, c) = (self + m[c]) % Word
        BY <2>1, <2>3, <3>5 DEF get
      <4>2. m[c] = (Addr(p, t) - self) % Word
        BY <2>1, <2>4, <3>5 DEF Encoding
      <4>3. self \in 0..(Word - 1)
        BY <2>2, NearAddr, Sizes
      <4> HIDE DEF self
      <4>4. (self + ((Addr(p, t) - self) % Word)) % Word = Addr(p, t)
        BY <3>3, <4>3, Roundtrip
      <4>5. get(p, c) = Addr(p, t)
        BY <4>1, <4>2, <4>4
      <4> QED
        BY <1>2, <1>4, <2>1, <3>1, <3>2, <4>5 DEF Meaning, t
    <3> QED
      BY <2>4, <2>6, <3>4, <3>5
  <2>7. CASE c.area = "shm"
    <3>1. t.area = "shm" /\ Index(t) <= count /\ Index(t) \in Segs /\ Index(c) \in Segs
      BY <2>1, <2>7, IndexIs
    <3>2. FileOffset(Shm[p][Index(c)], self) = c.at
      BY <2>7, OffsetIs
    <3>3. c.at \in 0..(Word - 1) /\ t.at \in 0..(Word - 1) /\ t.at \in Nat
      BY <2>1, Location, Sizes
    <3>4. m[c] = (t.at - c.at) % Word
      BY <2>1, <2>7 DEF Encoding
    <3>5. Target(p, c) = (c.at + m[c]) % Word
      BY <2>3, <2>7, <3>2 DEF Target
    <3>6. (c.at + ((t.at - c.at) % Word)) % Word = t.at
      BY <3>3, Roundtrip
    <3>7. Target(p, c) = t.at
      BY <3>4, <3>5, <3>6
    <3>8. t.at \in Bytes(FileStart[Index(t)], Size[Index(t)])
      BY <2>1, <3>1, IndexIs
    <3>9. \A n \in Segs : find_segment_by_file_offset(p, n, t.at) =
            IF Index(t) <= n THEN Shm[p][Index(t)] ELSE None
      BY <3>1, <3>3, <3>8, FindOffset
    <3>10. InShm(find(p, known[p], self))
      BY <2>3, <2>5, <2>7, <3>1 DEF InShm
    <3>11. find_segment_by_file_offset(p, known[p], Target(p, c)) =
             IF Index(t) <= known[p] THEN Shm[p][Index(t)] ELSE None
      BY <1>2, <3>7, <3>9
    <3>12. find_segment_by_file_offset(p, known[p], Target(p, c)) = None
             <=> ~(Index(t) <= known[p])
      BY <2>5, <3>1, <3>11
    <3>13. Discovered(p, c) = IF Index(t) <= known[p] THEN known[p] ELSE count
      BY <2>1, <3>10, <3>12 DEF Discovered
    <3>14. Discovered(p, c) \in known[p]..count /\ Index(t) <= Discovered(p, c)
      BY <1>2, <3>1, <3>13
    <3>15. Discovered(p, c) \in Segs
      BY <1>2, <3>13
    <3>16. find_segment_by_file_offset(p, Discovered(p, c), Target(p, c)) = Shm[p][Index(t)]
      BY <3>7, <3>9, <3>14, <3>15
    <3>17. get(p, c) = Base[p][Index(t)] + (t.at - FileStart[Index(t)])
      BY <2>1, <2>3, <2>5, <2>7, <3>1, <3>7, <3>16 DEF get
    <3>18. get(p, c) = Addr(p, t)
      BY <2>1, <3>1, <3>17, AddrShm
    <3>19. Near(p, Discovered(p, c), t)
      BY <3>1, <3>14 DEF Near
    <3> QED
      BY <1>4, <2>1, <3>14, <3>18, <3>19 DEF Meaning, t
  <2> QED
    BY <2>6, <2>7
<1> QED
  BY <1>3, <1>4

----------------------------------------------------------------------------
(* What a cell holds, when it is written and when the memory grows.        *)

\* Growth and discovery leave what is encoded right.
LEMMA HoldsGrows ==
  ASSUME NEW c \in Cell, NEW v, NEW t, NEW k \in [Proc -> Int], NEW n \in Int,
         NEW j \in [Proc -> Int], NEW i \in Int,
         \A p \in Proc : k[p] <= j[p], n <= i,
         Holds(c, v, t, k, n)
  PROVE  Holds(c, v, t, j, i)
<1>1. CASE t = None
  BY <1>1 DEF Holds
<1>2. CASE t # None
  <2>1. t \in Place /\ (t.area = "shm" => Index(t) \in Int)
    BY <1>2, IndexIs DEF Holds, Segs
  <2>2. c.area # "shm" => c.proc \in Proc
    BY Location
  <2>3. c.area # "shm" => Near(c.proc, j[c.proc], t)
    <3>1. SUFFICES ASSUME c.area # "shm" PROVE Near(c.proc, j[c.proc], t)
      OBVIOUS
    <3>2. Near(c.proc, k[c.proc], t)
      BY <1>2, <3>1 DEF Holds
    <3>3. k[c.proc] \in Int /\ j[c.proc] \in Int /\ k[c.proc] <= j[c.proc]
      BY <2>2, <3>1
    <3> QED
      BY <2>1, <3>2, <3>3, NearGrows
  <2>4. c.area = "shm" => t.area = "shm" /\ Index(t) <= i
    BY <1>2, <2>1 DEF Holds
  <2> QED
    BY <1>2, <2>3, <2>4 DEF Holds
<1> QED
  BY <1>1, <1>2

\* A null pointer.
LEMMA HoldsNull ==
  ASSUME NEW c, NEW k, NEW n PROVE Holds(c, kNull, None, k, n)
BY Sizes DEF Holds, kNull

\* A pointer that process p has set when it had mapped n sub-segments.
LEMMA HoldsSet ==
  ASSUME NEW p \in Proc, NEW n \in Segs, NEW c \in Cell, NEW t \in Place,
         Near(p, n, c), Near(p, n, t), c.area = "shm" => t.area = "shm",
         NEW k, k[p] = n, NEW i \in Int, n <= i
  PROVE  Holds(c, Encoding(c, t), t, k, i)
<1>1. c.area # "shm" => c.proc = p
  BY DEF Near
<1>2. Encoding(c, t) \in 0..(Word - 1) /\ Encoding(c, t) # kNull
  BY <1>1, NeverNull
<1>3. t # None
  BY OffsetPtrAssumption
<1>4. c.area = "shm" => t.area = "shm" /\ Index(t) <= i
  BY IndexIs DEF Near, Segs
<1> QED
  BY <1>1, <1>2, <1>3, <1>4 DEF Holds

\* The neighbour of a place, as a process sees it.
LEMMA AddrMoved ==
  ASSUME NEW p \in Proc, NEW n, NEW t \in Place, NEW s \in Place, NEW d \in {-1, 1},
         s = [t EXCEPT !.at = @ + d], Near(p, n, t)
  PROVE  /\ Addr(p, s) = Addr(p, t) + d
         /\ Near(p, n, s)
         /\ s.area = t.area /\ s.proc = t.proc /\ s.at = t.at + d
         /\ t.area = "shm" => Index(s) = Index(t)
<1>1. s.area = t.area /\ s.proc = t.proc /\ s.at = t.at + d
  BY Location
<1>2. t.area = "shm" => Index(s) = Index(t)
  BY <1>1, Neighbours
<1>3. Near(p, n, s)
  BY <1>1, <1>2 DEF Near
<1>4. t.at \in Int /\ d \in Int
  BY Location, Sizes
<1>5. CASE t.area = "shm"
  <2>1. Index(t) \in Segs
    BY <1>5, IndexIs
  <2>2. Base[p][Index(t)] \in Int /\ FileStart[Index(t)] \in Int
    BY <2>1, Mappings, StartsGrow, Sizes
  <2>3. /\ Addr(p, t) = Base[p][Index(t)] + (t.at - FileStart[Index(t)])
        /\ Addr(p, s) = Base[p][Index(t)] + ((t.at + d) - FileStart[Index(t)])
    BY <1>1, <1>2, <1>5, AddrShm
  <2>4. Addr(p, s) = Addr(p, t) + d
    BY <1>4, <2>2, <2>3
  <2> QED
    BY <1>1, <1>2, <1>3, <2>4
<1>6. CASE t.area = "anon"
  <2>1. AnonBase[p] \in Int
    BY Mappings, Sizes
  <2>2. Addr(p, t) = AnonBase[p] + t.at /\ Addr(p, s) = AnonBase[p] + (t.at + d)
    BY <1>1, <1>6, AddrAnon
  <2>3. Addr(p, s) = Addr(p, t) + d
    BY <1>4, <2>1, <2>2
  <2> QED
    BY <1>1, <1>2, <1>3, <2>3
<1>7. CASE t.area = "stack"
  <2>1. t.proc = p /\ s.proc = p
    BY <1>1, <1>7 DEF Near
  <2>2. StackBase[p] \in Int
    BY Mappings, Sizes
  <2>3. Addr(p, t) = StackBase[p] + t.at /\ Addr(p, s) = StackBase[p] + (t.at + d)
    BY <1>1, <1>7, <2>1, AddrStack
  <2>4. Addr(p, s) = Addr(p, t) + d
    BY <1>4, <2>2, <2>3
  <2> QED
    BY <1>1, <1>2, <1>3, <2>4
<1> QED
  BY <1>5, <1>6, <1>7, Location

\* Arithmetic on m_offset moves the pointer, whichever way it is encoded.
LEMMA HoldsMoved ==
  ASSUME NEW c \in Cell, NEW v, NEW t, NEW k, NEW n, NEW d \in {-1, 1},
         Holds(c, v, t, k, n), t # None, NEW s \in Place,
         s = [t EXCEPT !.at = @ + d]
  PROVE  Holds(c, (v + d) % Word, s, k, n)
<1>1. /\ t \in Place /\ v = Encoding(c, t)
      /\ c.area = "shm" => t.area = "shm" /\ Index(t) <= n
      /\ c.area # "shm" => Near(c.proc, k[c.proc], t)
  BY DEF Holds
<1>2. s # None
  BY OffsetPtrAssumption
<1>3. CASE c.area = "shm"
  <2>1. s.area = "shm" /\ s.at = t.at + d
    BY <1>1, <1>3, Location
  <2>2. Index(s) = Index(t)
    BY <1>1, <1>3, <2>1, Neighbours
  <2>3. t.at \in 0..(Word - 1) /\ c.at \in 0..(Word - 1) /\ t.at + d \in 0..(Word - 1)
    BY <1>1, <2>1, Location
  <2>4. (((t.at - c.at) % Word) + d) % Word = ((t.at + d) - c.at) % Word
    BY <2>3, Moved
  <2>5. v = (t.at - c.at) % Word /\ Encoding(c, s) = ((t.at + d) - c.at) % Word
    BY <1>1, <1>3, <2>1 DEF Encoding
  <2>6. (v + d) % Word = Encoding(c, s)
    BY <2>4, <2>5
  <2>7. Encoding(c, s) \in 0..(Word - 1) /\ Encoding(c, s) # kNull
    BY <1>3, <2>1, NeverNull
  <2> QED
    BY <1>1, <1>2, <1>3, <2>1, <2>2, <2>6, <2>7 DEF Holds
<1>4. CASE c.area # "shm"
  <2> DEFINE p == c.proc
  <2>1. p \in Proc /\ Near(p, k[p], t)
    BY <1>1, <1>4, Location
  <2>2. Addr(p, s) = Addr(p, t) + d /\ Near(p, k[p], s)
    BY <1>1, <2>1, AddrMoved
  <2>3. Addr(p, t) \in 0..(Word - 1) /\ Addr(p, t) + d \in 0..(Word - 1)
    <3>1. Addr(p, t) \in 1..(Word - 1) /\ Addr(p, s) \in 1..(Word - 1)
      BY <1>1, <2>1, <2>2, NearAddr
    <3> QED
      BY <2>2, <3>1, Sizes
  <2>4. \E b \in 0..(Word - 1) : v = (Addr(p, t) - b) % Word /\ Encoding(c, s) = (Addr(p, s) - b) % Word
    <3>1. CASE c.area = "anon"
      <4>1. AnonBase[p] \in 0..(Word - 1)
        BY <2>1, Mappings, Sizes
      <4>2. v = (Addr(p, t) - AnonBase[p]) % Word /\ Encoding(c, s) = (Addr(p, s) - AnonBase[p]) % Word
        BY <1>1, <3>1 DEF Encoding
      <4> QED
        BY <4>1, <4>2
    <3>2. CASE c.area = "stack"
      <4>1. Addr(p, c) \in 0..(Word - 1)
        <5>1. Addr(p, c) \in 1..(Word - 1)
          BY <3>2, AddrStack
        <5> QED
          BY <5>1, Sizes
      <4>2. v = (Addr(p, t) - Addr(p, c)) % Word /\ Encoding(c, s) = (Addr(p, s) - Addr(p, c)) % Word
        BY <1>1, <3>2 DEF Encoding
      <4> QED
        BY <4>1, <4>2
    <3> QED
      BY <1>4, <3>1, <3>2, Location
  <2>5. PICK b \in 0..(Word - 1) : v = (Addr(p, t) - b) % Word /\ Encoding(c, s) = (Addr(p, s) - b) % Word
    BY <2>4
  <2>6. (((Addr(p, t) - b) % Word) + d) % Word = ((Addr(p, t) + d) - b) % Word
    BY <2>3, Moved
  <2>7. (v + d) % Word = Encoding(c, s)
    BY <2>2, <2>5, <2>6
  <2>8. Encoding(c, s) \in 0..(Word - 1) /\ Encoding(c, s) # kNull
    BY <1>4, <2>2, NeverNull
  <2> QED
    BY <1>2, <1>4, <2>2, <2>7, <2>8 DEF Holds
<1> QED
  BY <1>3, <1>4

----------------------------------------------------------------------------
(* Steps.                                                                  *)

\* Initially all pointers are null.
LEMMA InitKeeps == Init => IInv
<1> SUFFICES ASSUME Init PROVE IInv
  OBVIOUS
<1>1. DOMAIN m = Cell /\ DOMAIN target = Cell /\ count \in Segs
  BY Sizes DEF Init, Segs
<1>2. known \in [Proc -> 1..count] /\ alive \in [Proc -> BOOLEAN]
  BY DEF Init
<1>3. \A c \in Cell : Holds(c, m[c], target[c], known, count)
  BY HoldsNull DEF Init
<1> QED
  BY <1>1, <1>2, <1>3 DEF IInv

\* What every step does: it maps or publishes more, and the cells it writes
\* hold their new target.
Untouched(c) == /\ m'[c] = m[c]
             /\ target'[c] = target[c]

Grown == /\ count' \in Segs /\ count <= count'
         /\ known' \in [Proc -> 1..count']
         /\ \A p \in Proc : known[p] <= known'[p]

LEMMA Preserved ==
  ASSUME IInv, Grown, DOMAIN m' = Cell, DOMAIN target' = Cell,
         alive' \in [Proc -> BOOLEAN],
         \A c \in Cell : Untouched(c) \/ Holds(c, m'[c], target'[c], known', count')
  PROVE  IInv'
<1>1. /\ known \in [Proc -> Int] /\ known' \in [Proc -> Int]
      /\ count \in Int /\ count' \in Int
  BY Sizes DEF IInv, Grown, Segs
<1>2. ASSUME NEW c \in Cell PROVE Holds(c, m'[c], target'[c], known', count')
  <2>1. CASE Untouched(c)
    <3>1. Holds(c, m[c], target[c], known, count)
      BY DEF IInv
    <3>2. Holds(c, m[c], target[c], known', count')
      BY <1>1, <3>1, HoldsGrows DEF Grown
    <3> QED
      BY <2>1, <3>2 DEF Untouched
  <2> QED
    BY <1>2, <2>1
<1>3. count' \in Segs /\ known' \in [Proc -> 1..count']
  BY DEF Grown
<1> QED
  BY <1>2, <1>3 DEF IInv

\* A process that maps up to n sub-segments of the published ones.
LEMMA Discovers ==
  ASSUME IInv, NEW p \in Proc, NEW n \in known[p]..count,
         known' = [known EXCEPT ![p] = n], count' = count
  PROVE  Grown /\ n \in Segs /\ n \in Int /\ known[p] \in Int /\ known'[p] = n /\ n <= count'
<1>1. count \in Segs /\ count \in Nat /\ known \in [Proc -> 1..count]
  BY Sizes DEF IInv, Segs
<1>2. n \in 1..count /\ n \in Segs
  BY <1>1, Sizes DEF Segs
<1>3. known' \in [Proc -> 1..count]
  BY <1>1, <1>2
<1>4. \A q \in Proc : known[q] <= known'[q]
  BY <1>1, <1>2
<1> QED
  BY <1>1, <1>2, <1>3, <1>4 DEF Grown

\* The raw pointer ptr is the address of l, which p can reach, or null.
Denotes(p, n, ptr, l) ==
  \/ l = None /\ ptr = nullptr
  \/ l \in Place /\ Near(p, n, l) /\ ptr = Addr(p, l)

\* What set stores.
LEMMA Stored ==
  ASSUME NEW p \in Proc, NEW n \in Segs, NEW d \in Cell, NEW ptr, NEW l,
         Near(p, n, d), Denotes(p, n, ptr, l), ~refused(p, n, d, ptr),
         NEW k, k[p] = n, NEW i \in Int, n <= i
  PROVE  Holds(d, encode(p, n, d, ptr), l, k, i)
<1>1. CASE l = None /\ ptr = nullptr
  BY <1>1, SetNull, HoldsNull
<1>2. CASE l \in Place /\ Near(p, n, l) /\ ptr = Addr(p, l)
  <2>1. /\ d.area = "shm" => l.area = "shm"
        /\ encode(p, n, d, ptr) = Encoding(d, l)
    BY <1>2, SetIs
  <2> QED
    BY <1>2, <2>1, HoldsSet
<1> QED
  BY <1>1, <1>2 DEF Denotes

\* set, by a process that has mapped n sub-segments.
LEMMA SetKeeps ==
  ASSUME IInv, NEW p \in Proc, NEW n \in known[p]..count, NEW d \in Cell, NEW ptr, NEW l,
         NEW noexcept \in BOOLEAN, Near(p, n, d), Denotes(p, n, ptr, l),
         set(p, n, d, ptr, l, noexcept),
         known' = [known EXCEPT ![p] = n], count' = count
  PROVE  IInv'
<1>1. Grown /\ n \in Segs /\ known'[p] = n /\ n <= count' /\ count' \in Int
  <2>1. Grown /\ n \in Segs /\ known'[p] = n /\ n <= count'
    BY Discovers
  <2>2. count' \in Int
    BY <2>1, Sizes DEF Grown, Segs
  <2> QED
    BY <2>1, <2>2
<1>2. CASE refused(p, n, d, ptr)
  <2>1. m' = m /\ target' = target /\ alive' = [alive EXCEPT ![p] = ~noexcept]
    BY <1>2 DEF set
  <2>2. alive' \in [Proc -> BOOLEAN]
    BY <2>1 DEF IInv
  <2>3. \A c \in Cell : Untouched(c)
    BY <2>1 DEF Untouched
  <2>4. DOMAIN m' = Cell /\ DOMAIN target' = Cell
    BY <2>1 DEF IInv
  <2> QED
    BY <1>1, <2>2, <2>3, <2>4, Preserved
<1>3. CASE ~refused(p, n, d, ptr)
  <2>1. /\ m' = [m EXCEPT ![d] = encode(p, n, d, ptr)]
        /\ target' = [target EXCEPT ![d] = l] /\ alive' = alive
    BY <1>3 DEF set
  <2>2. Holds(d, encode(p, n, d, ptr), l, known', count')
    BY <1>1, <1>3, Stored
  <2>3. DOMAIN m = Cell /\ DOMAIN target = Cell /\ alive \in [Proc -> BOOLEAN]
    BY DEF IInv
  <2>4. m'[d] = encode(p, n, d, ptr) /\ target'[d] = l
    BY <2>1, <2>3
  <2>5. \A c \in Cell : c # d => Untouched(c)
    BY <2>1, <2>3 DEF Untouched
  <2>6. \A c \in Cell : Untouched(c) \/ Holds(c, m'[c], target'[c], known', count')
    BY <2>2, <2>4, <2>5
  <2>7. DOMAIN m' = Cell /\ DOMAIN target' = Cell /\ alive' \in [Proc -> BOOLEAN]
    BY <2>1, <2>3
  <2> QED
    BY <1>1, <2>6, <2>7, Preserved
<1> QED
  BY <1>2, <1>3

\* A constructor, by a process that has mapped n sub-segments.
LEMMA ConstructKeeps ==
  ASSUME IInv, NEW p \in Proc, NEW n \in known[p]..count, NEW d \in Cell, NEW ptr, NEW l,
         NEW noexcept \in BOOLEAN, Near(p, n, d),
         refused(p, n, d, ptr) \/ Denotes(p, n, ptr, l),
         Construct(p, n, d, ptr, l, noexcept),
         known' = [known EXCEPT ![p] = n], count' = count
  PROVE  IInv'
<1>1. CASE refused(p, n, d, ptr)
  <2>1. /\ m' = [m EXCEPT ![d] = kNull] /\ target' = [target EXCEPT ![d] = None]
        /\ alive' = [alive EXCEPT ![p] = ~noexcept]
    BY <1>1 DEF Construct
  <2>2. DOMAIN m = Cell /\ DOMAIN target = Cell /\ alive \in [Proc -> BOOLEAN]
    BY DEF IInv
  <2>3. alive' \in [Proc -> BOOLEAN]
    BY <2>1, <2>2
  <2>4. m'[d] = kNull /\ target'[d] = None
    BY <2>1, <2>2
  <2>5. \A c \in Cell : c # d => Untouched(c)
    BY <2>1, <2>2 DEF Untouched
  <2>6. \A c \in Cell : Untouched(c) \/ Holds(c, m'[c], target'[c], known', count')
    BY <2>4, <2>5, HoldsNull
  <2>7. DOMAIN m' = Cell /\ DOMAIN target' = Cell
    BY <2>1, <2>2
  <2> QED
    BY <2>3, <2>6, <2>7, Discovers, Preserved
<1>2. CASE ~refused(p, n, d, ptr)
  BY <1>2, SetKeeps DEF Construct
<1> QED
  BY <1>1, <1>2

\* The pointer read from c denotes its target.
LEMMA GetDenotes ==
  ASSUME IInv, NEW p \in Proc, NEW c \in Cell, Reaches(p, c)
  PROVE  /\ Discovered(p, c) \in known[p]..count
         /\ Denotes(p, Discovered(p, c), get(p, c), target[c])
BY GetIs DEF Denotes, Meaning

\* What a process reaches stays within reach when it discovers more.
LEMMA StillNear ==
  ASSUME IInv, NEW p \in Proc, NEW l \in Cell \cup Place, Reaches(p, l),
         NEW n \in known[p]..count
  PROVE  Near(p, n, l)
<1>1. known[p] \in Int /\ n \in Int /\ known[p] <= n
  BY Sizes DEF IInv, Segs
<1> QED
  BY <1>1, ReachesNear, NearGrows

\* A step of a process that maps nothing new.
LEMMA Stays ==
  ASSUME IInv, NEW p \in Proc, known' = known, count' = count
  PROVE  /\ known[p] \in known[p]..count
         /\ known' = [known EXCEPT ![p] = known[p]]
BY Sizes DEF IInv, Segs

LEMMA GetKeeps ==
  ASSUME IInv, NEW p \in Proc, NEW c \in Cell, Get(p, c) PROVE IInv'
<1>1. Discovered(p, c) \in known[p]..count
  BY GetDenotes DEF Get
<1>2. m' = m /\ target' = target /\ alive' = alive
  BY DEF Get
<1>3. /\ DOMAIN m' = Cell /\ DOMAIN target' = Cell /\ alive' \in [Proc -> BOOLEAN]
      /\ \A d \in Cell : Untouched(d)
  BY <1>2 DEF IInv, Untouched
<1>4. Grown
  BY <1>1, Discovers DEF Get
<1> QED
  BY <1>3, <1>4, Preserved

LEMMA AssignKeeps ==
  ASSUME IInv, NEW p \in Proc, NEW c \in Cell, NEW l \in Place, Assign(p, c, l)
  PROVE  IInv'
<1>1. /\ Reaches(p, c) /\ Reaches(p, l) /\ count' = count /\ known' = known
      /\ set(p, known[p], c, Addr(p, l), l, FALSE)
  BY DEF Assign
<1>2. Near(p, known[p], c) /\ Near(p, known[p], l)
  BY <1>1, ReachesNear
<1>3. Denotes(p, known[p], Addr(p, l), l)
  BY <1>2 DEF Denotes
<1>4. known[p] \in known[p]..count /\ known' = [known EXCEPT ![p] = known[p]]
  BY <1>1, Stays
<1> QED
  BY <1>1, <1>2, <1>3, <1>4, SetKeeps

LEMMA ConstructFromKeeps ==
  ASSUME IInv, NEW p \in Proc, NEW c \in Cell, NEW l \in Place, NEW noexcept \in BOOLEAN,
         ConstructFrom(p, c, l, noexcept)
  PROVE  IInv'
<1>1. /\ Reaches(p, c) /\ Reaches(p, l) /\ count' = count /\ known' = known
      /\ Construct(p, known[p], c, Addr(p, l), l, noexcept)
  BY DEF ConstructFrom
<1>2. Near(p, known[p], c) /\ Near(p, known[p], l)
  BY <1>1, ReachesNear
<1>3. Denotes(p, known[p], Addr(p, l), l)
  BY <1>2 DEF Denotes
<1>4. known[p] \in known[p]..count /\ known' = [known EXCEPT ![p] = known[p]]
  BY <1>1, Stays
<1> QED
  BY <1>1, <1>2, <1>3, <1>4, ConstructKeeps

LEMMA AssignNullKeeps ==
  ASSUME IInv, NEW p \in Proc, NEW c \in Cell, AssignNull(p, c) PROVE IInv'
<1>1. DOMAIN m = Cell /\ DOMAIN target = Cell /\ alive \in [Proc -> BOOLEAN]
  BY DEF IInv
<1>2. /\ m' = [m EXCEPT ![c] = kNull] /\ target' = [target EXCEPT ![c] = None]
      /\ count' = count /\ known' = known /\ alive' = alive
  BY DEF AssignNull
<1>3. /\ DOMAIN m' = Cell /\ DOMAIN target' = Cell /\ alive' \in [Proc -> BOOLEAN]
      /\ m'[c] = kNull /\ target'[c] = None
  BY <1>1, <1>2
<1>4. \A d \in Cell : d # c => Untouched(d)
  BY <1>1, <1>2 DEF Untouched
<1>5. \A d \in Cell : Untouched(d) \/ Holds(d, m'[d], target'[d], known', count')
  BY <1>3, <1>4, HoldsNull
<1>6. Grown
  BY <1>2, Stays, Discovers
<1> QED
  BY <1>3, <1>5, <1>6, Preserved

LEMMA ConstructCopyKeeps ==
  ASSUME IInv, NEW p \in Proc, NEW c \in Cell, NEW d \in Cell, ConstructCopy(p, c, d)
  PROVE  IInv'
<1> DEFINE n == Discovered(p, c)
<1>1. /\ Reaches(p, c) /\ Reaches(p, d) /\ known' = [known EXCEPT ![p] = n]
      /\ count' = count
      /\ Construct(p, n, d, get(p, c), target[c], FALSE)
  BY DEF ConstructCopy
<1>2. n \in known[p]..count /\ Denotes(p, n, get(p, c), target[c])
  BY <1>1, GetDenotes
<1> HIDE DEF n
<1>3. Near(p, n, d)
  BY <1>1, <1>2, StillNear
<1> QED
  BY <1>1, <1>2, <1>3, ConstructKeeps

LEMMA CastKeeps ==
  ASSUME IInv, NEW p \in Proc, NEW c \in Cell, NEW d \in Cell, NEW fits \in BOOLEAN,
         Cast(p, c, d, fits)
  PROVE  IInv'
<1> DEFINE n == Discovered(p, c)
<1>1. /\ Reaches(p, c) /\ Reaches(p, d) /\ known' = [known EXCEPT ![p] = n]
      /\ count' = count
      /\ \/ Construct(p, n, d, get(p, c), target[c], TRUE)
         \/ Construct(p, n, d, nullptr, None, TRUE)
  BY DEF Cast
<1>2. n \in known[p]..count /\ Denotes(p, n, get(p, c), target[c])
  BY <1>1, GetDenotes
<1> HIDE DEF n
<1>3. Near(p, n, d)
  BY <1>1, <1>2, StillNear
<1>4. Denotes(p, n, nullptr, None)
  BY DEF Denotes
<1>5. CASE Construct(p, n, d, get(p, c), target[c], TRUE)
  BY <1>1, <1>2, <1>3, <1>5, ConstructKeeps
<1>6. CASE Construct(p, n, d, nullptr, None, TRUE)
  BY <1>1, <1>2, <1>3, <1>4, <1>6, ConstructKeeps
<1> QED
  BY <1>1, <1>5, <1>6

LEMMA CopyKeeps ==
  ASSUME IInv, NEW p \in Proc, NEW c \in Cell, NEW d \in Cell, NEW noexcept \in BOOLEAN,
         Copy(p, c, d, noexcept)
  PROVE  IInv'
<1> DEFINE n == Discovered(p, c)
<1>1. /\ Reaches(p, c) /\ Reaches(p, d) /\ known' = [known EXCEPT ![p] = n]
      /\ count' = count
      /\ set(p, n, d, get(p, c), target[c], noexcept)
  BY DEF Copy
<1>2. n \in known[p]..count /\ Denotes(p, n, get(p, c), target[c])
  BY <1>1, GetDenotes
<1> HIDE DEF n
<1>3. Near(p, n, d)
  BY <1>1, <1>2, StillNear
<1> QED
  BY <1>1, <1>2, <1>3, SetKeeps

LEMMA AdvanceKeeps ==
  ASSUME IInv, NEW p \in Proc, NEW c \in Cell, NEW n \in {-1, 1}, Advance(p, c, n)
  PROVE  IInv'
<1>1. DOMAIN m = Cell /\ DOMAIN target = Cell /\ alive \in [Proc -> BOOLEAN]
  BY DEF IInv
<1>2. /\ m' = [m EXCEPT ![c] = (m[c] + n) % Word]
      /\ target' = [target EXCEPT ![c] = Shifted(c, n)]
      /\ target[c] # None /\ Shifted(c, n) \in Place
      /\ count' = count /\ known' = known /\ alive' = alive
  BY <1>1 DEF Advance, CanShift, inc_offset
<1>3. Holds(c, m[c], target[c], known, count)
  BY DEF IInv
<1>4. Holds(c, (m[c] + n) % Word, Shifted(c, n), known, count)
  BY <1>2, <1>3, HoldsMoved DEF Shifted
<1>5. /\ DOMAIN m' = Cell /\ DOMAIN target' = Cell /\ alive' \in [Proc -> BOOLEAN]
      /\ m'[c] = (m[c] + n) % Word /\ target'[c] = Shifted(c, n)
  BY <1>1, <1>2
<1>6. \A d \in Cell : d # c => Untouched(d)
  BY <1>1, <1>2 DEF Untouched
<1>7. Holds(c, m'[c], target'[c], known', count')
  BY <1>2, <1>4, <1>5
<1>8. Grown
  BY <1>2, Stays, Discovers
<1> QED
  BY <1>5, <1>6, <1>7, <1>8, Preserved

LEMMA PostAdvanceKeeps ==
  ASSUME IInv, NEW p \in Proc, NEW c \in Cell, NEW d \in Cell, NEW n \in {-1, 1},
         PostAdvance(p, c, d, n)
  PROVE  IInv'
<1> DEFINE k == Discovered(p, c)
<1>1. /\ Reaches(p, c) /\ Reaches(p, d) /\ c # d /\ known' = [known EXCEPT ![p] = k]
      /\ count' = count /\ target[c] # None /\ Shifted(c, n) \in Place
  BY DEF PostAdvance, CanShift
<1>2. k \in known[p]..count /\ Denotes(p, k, get(p, c), target[c])
  BY <1>1, GetDenotes
<1>3. CASE refused(p, k, d, get(p, c))
  <2>1. Construct(p, k, d, get(p, c), None, TRUE)
    BY <1>3 DEF PostAdvance
  <2> HIDE DEF k
  <2>2. Near(p, k, d)
    BY <1>1, <1>2, StillNear
  <2> QED
    BY <1>1, <1>2, <1>3, <2>1, <2>2, ConstructKeeps
<1>4. CASE ~refused(p, k, d, get(p, c))
  <2> DEFINE v == encode(p, k, d, get(p, c))
             w == (m[c] + n) % Word
  <2>1. DOMAIN m = Cell /\ DOMAIN target = Cell /\ alive \in [Proc -> BOOLEAN]
    BY DEF IInv
  <2>2. /\ m' = [m EXCEPT ![d] = v, ![c] = w]
        /\ target' = [target EXCEPT ![d] = target[c], ![c] = Shifted(c, n)]
        /\ alive' = alive
    BY <1>1, <1>4, <2>1 DEF PostAdvance
  <2> HIDE DEF k, w
  <2>3. /\ m'[d] = v /\ m'[c] = w /\ target'[d] = target[c] /\ target'[c] = Shifted(c, n)
        /\ DOMAIN m' = Cell /\ DOMAIN target' = Cell /\ alive' \in [Proc -> BOOLEAN]
        /\ \A e \in Cell : e # c /\ e # d => m'[e] = m[e] /\ target'[e] = target[e]
    BY <1>1, <2>1, <2>2
  <2>4. Grown /\ k \in Segs /\ known'[p] = k /\ k <= count'
    BY <1>1, <1>2, Discovers
  <2>5. Near(p, k, d)
    BY <1>1, <1>2, StillNear
  <2>6. /\ count \in Int /\ count' \in Int
        /\ known \in [Proc -> Int] /\ known' \in [Proc -> Int]
    BY <2>4, Sizes DEF Grown, IInv, Segs
  <2>7. Holds(d, v, target[c], known', count')
    BY <1>2, <1>4, <2>4, <2>5, <2>6, Stored
  <2>8. Holds(c, m[c], target[c], known, count)
    BY DEF IInv
  <2>9. Holds(c, m[c], target[c], known', count')
    BY <2>4, <2>6, <2>8, HoldsGrows DEF Grown
  <2>10. Holds(c, w, Shifted(c, n), known', count')
    BY <1>1, <2>9, HoldsMoved DEF Shifted, w
  <2>11. \A e \in Cell : Untouched(e) \/ Holds(e, m'[e], target'[e], known', count')
    BY <2>3, <2>7, <2>10 DEF Untouched
  <2> QED
    BY <2>3, <2>4, <2>11, Preserved
<1> QED
  BY <1>3, <1>4

LEMMA PlusKeeps ==
  ASSUME IInv, NEW p \in Proc, NEW c \in Cell, NEW d \in Cell, NEW n \in {-1, 1},
         Plus(p, c, d, n)
  PROVE  IInv'
<1> DEFINE k == Discovered(p, c)
           t == target[c]
           s == Shifted(c, n)
<1>1. /\ Reaches(p, c) /\ Reaches(p, d) /\ known' = [known EXCEPT ![p] = k]
      /\ count' = count /\ t # None /\ s \in Place
      /\ Construct(p, k, d, (get(p, c) + n) % Word, s, TRUE)
  BY DEF Plus, CanShift
<1>2. /\ k \in known[p]..count /\ t \in Place /\ Near(p, k, t) /\ get(p, c) = Addr(p, t)
  BY <1>1, GetIs DEF Meaning
<1>3. s = [t EXCEPT !.at = @ + n]
  BY DEF Shifted
<1> HIDE DEF k, t, s
<1>4. Addr(p, s) = Addr(p, t) + n /\ Near(p, k, s)
  BY <1>1, <1>2, <1>3, AddrMoved
<1>5. Addr(p, s) \in 1..(Word - 1)
  BY <1>1, <1>4, NearAddr
<1>6. \A x \in 1..(Word - 1) : x % Word = x
  BY Sizes
<1>7. (get(p, c) + n) % Word = Addr(p, s)
  BY <1>2, <1>4, <1>5, <1>6
<1>8. Denotes(p, k, (get(p, c) + n) % Word, s)
  BY <1>1, <1>4, <1>7 DEF Denotes
<1>9. Near(p, k, d)
  BY <1>1, <1>2, StillNear
<1> QED
  BY <1>1, <1>2, <1>8, <1>9, ConstructKeeps

LEMMA GrowKeeps == ASSUME IInv, NEW p \in Proc, Grow(p) PROVE IInv'
<1>1. /\ count \in Segs /\ count < Len(Size) /\ count' = count + 1
      /\ known \in [Proc -> 1..count] /\ known[p] = count
      /\ known' = [known EXCEPT ![p] = count']
      /\ m' = m /\ target' = target /\ alive' = alive
  BY DEF IInv, Grow
<1>2. count' \in Segs /\ count <= count' /\ count \in 1..count' /\ count' \in 1..count'
  BY <1>1, Sizes DEF Segs
<1>3. \A x \in 1..count : x \in 1..count'
  BY <1>1, <1>2, Sizes DEF Segs
<1>4. known' \in [Proc -> 1..count'] /\ \A q \in Proc : known[q] <= known'[q]
  BY <1>1, <1>2, <1>3
<1>5. Grown
  BY <1>2, <1>4 DEF Grown
<1>6. /\ DOMAIN m' = Cell /\ DOMAIN target' = Cell /\ alive' \in [Proc -> BOOLEAN]
      /\ \A d \in Cell : Untouched(d)
  BY <1>1 DEF IInv, Untouched
<1> QED
  BY <1>5, <1>6, Preserved

\* Every step preserves the invariant.
LEMMA StepKeeps == IInv /\ [Next]_vars => IInv'
<1> SUFFICES ASSUME IInv, [Next]_vars PROVE IInv'
  OBVIOUS
<1>1. CASE UNCHANGED vars
  BY <1>1 DEF vars, IInv, Holds
<1>2. CASE Next
  BY <1>2, GetKeeps, AssignKeeps, ConstructFromKeeps, AssignNullKeeps, AdvanceKeeps,
     ConstructCopyKeeps, CastKeeps, CopyKeeps, PostAdvanceKeeps, PlusKeeps, GrowKeeps
     DEF Next
<1> QED
  BY <1>1, <1>2

\* The inductive invariant holds.
LEMMA Invariant == Spec => []IInv
BY InitKeeps, StepKeeps, PTL DEF Spec

----------------------------------------------------------------------------
(* Results.                                                                *)

\* Different places that a process can reach have different addresses, and
\* within a sub-segment addresses are as far apart as places.
LEMMA AddrsDiffer ==
  ASSUME NEW p \in Proc, NEW n, NEW k \in Place, NEW l \in Place,
         Near(p, n, k), Near(p, n, l)
  PROVE  /\ Addr(p, k) = Addr(p, l) => k = l
         /\ SameSegment(k, l) => Addr(p, k) - Addr(p, l) = k.at - l.at
<1>1. /\ k.area \in {"shm", "anon", "stack"} /\ l.area \in {"shm", "anon", "stack"}
      /\ k.at \in Int /\ l.at \in Int
      /\ k.area # "shm" => k.proc = p
      /\ l.area # "shm" => l.proc = p
      /\ k.area = "shm" => k.proc = None
      /\ l.area = "shm" => l.proc = None
  BY Location, Sizes DEF Near
<1>2. k.area = l.area /\ k.at = l.at => k = l
  <2>1. k.area = l.area => k.proc = l.proc
    BY <1>1
  <2>2. /\ k = [area |-> k.area, proc |-> k.proc, at |-> k.at]
        /\ l = [area |-> l.area, proc |-> l.proc, at |-> l.at]
    BY Location
  <2> QED
    BY <2>1, <2>2, Zenon
<1>3. CASE k.area = "shm" /\ l.area = "shm"
  <2> DEFINE i == Index(k)
             j == Index(l)
  <2>1. i \in Segs /\ j \in Segs
    BY <1>3, IndexIs
  <2>2. /\ Addr(p, k) = Base[p][i] + (k.at - FileStart[i])
        /\ Addr(p, l) = Base[p][j] + (l.at - FileStart[j])
        /\ Addr(p, k) \in Bytes(Base[p][i], Size[i])
        /\ Addr(p, l) \in Bytes(Base[p][j], Size[j])
    BY <1>3, AddrShm
  <2>3. /\ Base[p][i] \in Int /\ Base[p][j] \in Int /\ Size[i] \in Int /\ Size[j] \in Int
        /\ FileStart[i] \in Int /\ FileStart[j] \in Int
    BY <2>1, Mappings, StartsGrow, Sizes
  <2>4. i # j => Apart(Base[p][i], Size[i], Base[p][j], Size[j])
    BY <2>1, Mappings
  <2> HIDE DEF i, j
  <2>5. i = j => Addr(p, k) - Addr(p, l) = k.at - l.at
    BY <1>1, <2>2, <2>3
  <2>6. Addr(p, k) = Addr(p, l) => i = j
    BY <2>2, <2>3, <2>4 DEF Apart, Bytes
  <2>7. Addr(p, k) \in Int /\ Addr(p, l) \in Int
    BY <1>1, <2>2, <2>3
  <2>8. Addr(p, k) = Addr(p, l) => k.at = l.at
    BY <1>1, <2>5, <2>6, <2>7
  <2> QED
    BY <1>2, <1>3, <2>5, <2>8 DEF SameSegment, i, j
<1>4. CASE k.area = "anon" /\ l.area = "anon"
  <2>1. Addr(p, k) = AnonBase[p] + k.at /\ Addr(p, l) = AnonBase[p] + l.at
    BY <1>4, AddrAnon
  <2>2. AnonBase[p] \in Int
    BY Mappings, Sizes
  <2>3. Addr(p, k) - Addr(p, l) = k.at - l.at /\ (Addr(p, k) = Addr(p, l) => k.at = l.at)
    BY <1>1, <2>1, <2>2
  <2> QED
    BY <1>2, <1>4, <2>3
<1>5. CASE k.area = "stack" /\ l.area = "stack"
  <2>1. Addr(p, k) = StackBase[p] + k.at /\ Addr(p, l) = StackBase[p] + l.at
    BY <1>1, <1>5, AddrStack
  <2>2. StackBase[p] \in Int
    BY Mappings, Sizes
  <2>3. Addr(p, k) - Addr(p, l) = k.at - l.at /\ (Addr(p, k) = Addr(p, l) => k.at = l.at)
    BY <1>1, <2>1, <2>2
  <2> QED
    BY <1>2, <1>5, <2>3
<1>6. CASE k.area # l.area
  <2>1. ASSUME NEW a \in Place, NEW b \in Place, a.area = "shm", b.area = "anon"
        PROVE  Addr(p, a) # Addr(p, b)
    <3>1. /\ Index(a) \in Segs /\ Addr(p, a) \in Bytes(Base[p][Index(a)], Size[Index(a)])
          /\ Addr(p, b) \in Bytes(AnonBase[p], AnonSize)
      BY <2>1, IndexIs, AddrShm, AddrAnon
    <3>2. /\ Apart(Base[p][Index(a)], Size[Index(a)], AnonBase[p], AnonSize)
          /\ Base[p][Index(a)] \in Int /\ Size[Index(a)] \in Int
          /\ AnonBase[p] \in Int /\ AnonSize \in Int
      BY <3>1, Mappings, Sizes
    <3> QED
      BY <3>1, <3>2 DEF Apart, Bytes
  <2>2. ASSUME NEW a \in Place, NEW b \in Place, a.area # "stack", b.area = "stack", b.proc = p
        PROVE  Addr(p, a) # Addr(p, b)
    <3>1. Unmanaged(p, Addr(p, b))
      BY <2>2, AddrStack
    <3>2. CASE a.area = "shm"
      BY <3>1, <3>2, IndexIs, AddrShm DEF Unmanaged, Segs
    <3>3. CASE a.area = "anon"
      BY <3>1, <3>3, AddrAnon DEF Unmanaged
    <3> QED
      BY <2>2, <3>2, <3>3, Location
  <2>3. Addr(p, k) # Addr(p, l)
    BY <1>1, <1>6, <2>1, <2>2
  <2> QED
    BY <1>6, <2>3 DEF SameSegment
<1> QED
  BY <1>1, <1>3, <1>4, <1>5, <1>6

\* get gives every process its own address of the place that is meant,
\* whatever way the pointer has come, and nullptr only for a null pointer.
THEOREM PointersResolve == Spec => []Resolves
<1>1. IInv => Resolves
  <2> SUFFICES ASSUME IInv, NEW p \in Proc, NEW c \in Cell, Reaches(p, c)
               PROVE  get(p, c) = IF target[c] = None THEN nullptr ELSE Addr(p, target[c])
    BY DEF Resolves
  <2> QED
    BY GetIs DEF Meaning
<1> QED
  BY <1>1, Invariant, PTL

\* A pointer in the shared memory never leads out of it: set refuses what
\* other processes could not follow.
THEOREM SharedStaysShared == Spec => []SharedPointsToShared
<1>1. IInv => SharedPointsToShared
  BY DEF IInv, Holds, SharedPointsToShared
<1> QED
  BY <1>1, Invariant, PTL

\* Pointers compare equal exactly if they mean one place, and those into one
\* sub-segment are ordered and measured alike by every process.
THEOREM PointersCompareAlike == Spec => []ComparesAlike
<1>1. IInv => ComparesAlike
  <2> SUFFICES ASSUME IInv, NEW p \in Proc, NEW a \in Cell, NEW b \in Cell,
                      Reaches(p, a), Reaches(p, b)
               PROVE  /\ equal(p, a, b) <=> target[a] = target[b]
                      /\ SameSegment(target[a], target[b]) =>
                           /\ less(p, a, b) <=> target[a].at < target[b].at
                           /\ minus(p, a, b) = target[a].at - target[b].at
    BY DEF ComparesAlike
  <2> DEFINE k == target[a]
             l == target[b]
  <2>1. get(p, a) = Meaning(p, k) /\ get(p, b) = Meaning(p, l)
    BY GetIs
  <2>2. count \in Int
    BY Sizes DEF IInv, Segs
  <2>3. /\ k # None => k \in Place /\ Near(p, count, k)
        /\ l # None => l \in Place /\ Near(p, count, l)
    <3>1. /\ Discovered(p, a) \in Int /\ Discovered(p, a) <= count
          /\ Discovered(p, b) \in Int /\ Discovered(p, b) <= count
      <4>1. known[p] \in Int
        BY Sizes DEF IInv, Segs
      <4> QED
        BY <2>2, <4>1, GetIs
    <3>2. /\ k # None => k \in Place /\ Near(p, Discovered(p, a), k)
          /\ l # None => l \in Place /\ Near(p, Discovered(p, b), l)
      BY GetIs
    <3> QED
      BY <2>2, <3>1, <3>2, NearGrows
  <2> HIDE DEF k, l
  <2>4. /\ k # None => Addr(p, k) \in 1..(Word - 1) /\ k.at \in Int
        /\ l # None => Addr(p, l) \in 1..(Word - 1) /\ l.at \in Int
    BY <2>3, NearAddr, Location, Sizes
  <2>5. k # None /\ l # None =>
          /\ Addr(p, k) = Addr(p, l) => k = l
          /\ SameSegment(k, l) => Addr(p, k) - Addr(p, l) = k.at - l.at
    BY <2>3, AddrsDiffer
  <2>6. equal(p, a, b) <=> k = l
    BY <2>1, <2>4, <2>5, Sizes DEF equal, Meaning, nullptr
  <2>7. ASSUME SameSegment(k, l)
        PROVE  (less(p, a, b) <=> k.at < l.at) /\ minus(p, a, b) = k.at - l.at
    <3>1. k # None /\ l # None
      BY <2>7 DEF SameSegment
    <3>2. get(p, a) = Addr(p, k) /\ get(p, b) = Addr(p, l)
      BY <2>1, <3>1 DEF Meaning
    <3>3. /\ Addr(p, k) - Addr(p, l) = k.at - l.at
          /\ Addr(p, k) \in Int /\ Addr(p, l) \in Int /\ k.at \in Int /\ l.at \in Int
      BY <2>4, <2>5, <2>7, <3>1, Sizes
    <3>4. Addr(p, k) < Addr(p, l) <=> k.at < l.at
      BY <3>3
    <3> QED
      BY <3>2, <3>3, <3>4 DEF less, minus
  <2> QED
    BY <2>6, <2>7 DEF k, l
<1> QED
  BY <1>1, Invariant, PTL

====
