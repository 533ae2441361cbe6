---- MODULE OffsetPtr ----
(***************************************************************************)
(* segmented_offset_ptr: how a pointer is encoded in m_offset and resolved *)
(* again, by processes that map the sub-segments of one shared memory at   *)
(* different addresses. A pointer object ("cell") lives in the shared      *)
(* memory, in anonymous managed memory or on a stack, and a pointer travels*)
(* between them by copies, casts and arithmetic. Locations say what is     *)
(* meant independently of any process; `target` records the location each  *)
(* cell has been told to point to, and the code sees only m_offset.        *)
(* One process at a time grows the memory (concurrent growth and failing   *)
(* mappings are in SegmentManager).                                        *)
(***************************************************************************)
EXTENDS Integers, Sequences, FiniteSets

CONSTANTS
  Proc,
  Word,        \* number of values of uintptr_t and of OffsetType
  Size,        \* Size[i]: bytes of sub-segment i of the shared memory
  Base,        \* Base[p][i]: where process p maps sub-segment i
  AnonSize,    \* bytes of the one anonymous sub-segment of each process
  AnonBase,    \* AnonBase[p]: where it is
  StackBase,   \* StackBase[p]: where the stack of p is
  Cell,        \* locations of pointer objects
  Place,       \* locations pointers may point to
  None

Loc == [area : {"shm", "anon", "stack"}, proc : Proc \cup {None}, at : 0..(Word - 1)]

ASSUME OffsetPtrAssumption ==
  /\ IsFiniteSet(Proc) /\ Word \in Nat \ {0, 1}
  /\ Size \in Seq(Nat \ {0}) /\ Len(Size) > 0
  /\ AnonSize \in Nat \ {0, 1}
  /\ Base \in [Proc -> [1..Len(Size) -> 1..(Word - 1)]]
  /\ AnonBase \in [Proc -> 1..(Word - 1)] /\ StackBase \in [Proc -> 1..(Word - 1)]
  /\ Cell \subseteq Loc /\ Place \subseteq Loc /\ None \notin Proc \cup Place

VARIABLES
  m,        \* m[c]: m_offset of cell c
  count,    \* published number of sub-segments
  known,    \* known[p]: sub-segments process p has mapped
  alive,    \* alive[p]: p has not been terminated
  target    \* history: the location cell c is meant to point to, or None

vars == <<m, count, known, alive, target>>

\* The value of m_offset of a null pointer.
kNull == 1

nullptr == 0

Init ==
  /\ m = [c \in Cell |-> kNull]
  /\ count = 1
  /\ known = [p \in Proc |-> 1]
  /\ alive = [p \in Proc |-> TRUE]
  /\ target = [c \in Cell |-> None]

----------------------------------------------------------------------------
(* Sub-segments and addresses.                                             *)

\* Sub-segments follow each other in the file.
FileStart[i \in 1..Len(Size)] == IF i = 1 THEN 0 ELSE FileStart[i - 1] + Size[i - 1]

Bytes(start, n) == start..(start + n - 1)

\* Shm[p][i]: process p's sub_segment object for sub-segment i.
Shm ==
  [p \in Proc |-> [i \in 1..Len(Size) |->
    [base_vaddr |-> Base[p][i], size |-> Size[i], is_anon |-> FALSE,
     file_offset |-> FileStart[i], manager |-> "shm"]]]

Anon ==
  [p \in Proc |->
    [base_vaddr |-> AnonBase[p], size |-> AnonSize, is_anon |-> TRUE,
     file_offset |-> 0, manager |-> "anon"]]

\* segment_registry::find over what p has mapped, n of the shared ones.
find(p, n, va) ==
  LET hit == {s \in {Shm[p][i] : i \in 1..n} \cup {Anon[p]} :
                va \in Bytes(s.base_vaddr, s.size)}
  IN  IF hit = {} THEN None ELSE CHOOSE s \in hit : TRUE

find_segment_by_file_offset(p, n, off) ==
  LET hit == {s \in {Shm[p][i] : i \in 1..n} :
                off \in Bytes(s.file_offset, s.size)}
  IN  IF hit = {} THEN None ELSE CHOOSE s \in hit : TRUE

\* The sub-segment of the shared memory a location is in.
Index(l) == CHOOSE i \in 1..Len(Size) : l.at \in Bytes(FileStart[i], Size[i])

\* Where process p sees a location.
View ==
  [p \in Proc |-> [l \in Cell \cup Place |->
    CASE l.area = "shm"   -> Base[p][Index(l)] + (l.at - FileStart[Index(l)])
      [] l.area = "anon"  -> AnonBase[p] + l.at
      [] l.area = "stack" -> StackBase[p] + l.at]]

Addr(p, l) == View[p][l]

Apart(start, n, other, k) == start + n <= other \/ other + k <= start

\* Nothing that p maps, now or later, is at address va.
Unmanaged(p, va) ==
  /\ va \notin Bytes(AnonBase[p], AnonSize)
  /\ \A i \in 1..Len(Size) : va \notin Bytes(Base[p][i], Size[i])

\* The file and every mapping fit the word, and what one process maps does
\* not overlap. No sub_segment is the null one.
ASSUME MappingAssumption ==
  /\ FileStart[Len(Size)] + Size[Len(Size)] <= Word
  /\ \A p \in Proc :
       /\ AnonBase[p] + AnonSize <= Word /\ Anon[p] # None
       /\ \A i \in 1..Len(Size) :
            /\ Base[p][i] + Size[i] <= Word /\ Shm[p][i] # None
            /\ Apart(Base[p][i], Size[i], AnonBase[p], AnonSize)
            /\ \A j \in 1..Len(Size) \ {i} :
                 Apart(Base[p][i], Size[i], Base[p][j], Size[j])

\* Locations are in their areas. A pointer never leads to the first two bytes
\* of a sub-segment, which are its manager's, nor into a pointer object.
ASSUME LocationAssumption ==
  /\ \A l \in Cell \cup Place :
       /\ l.area = "shm" <=> l.proc = None
       /\ l.area = "shm" =>
            \E i \in 1..Len(Size) : l.at \in Bytes(FileStart[i], Size[i])
       /\ l.area = "anon" => l.at < AnonSize
       /\ l.area = "stack" => /\ StackBase[l.proc] + l.at < Word
                              /\ Unmanaged(l.proc, StackBase[l.proc] + l.at)
  /\ \A l \in Place :
       /\ l.area = "shm" => \A i \in 1..Len(Size) : l.at - FileStart[i] \notin {0, 1}
       /\ l.area = "anon" => l.at \notin {0, 1}
  /\ \A c \in Cell :
       /\ c.area = "stack" => Unmanaged(c.proc, StackBase[c.proc] + c.at + 1)
       /\ \A l \in Place : c.area = l.area /\ c.proc = l.proc => l.at # c.at + 1

\* Whether p, still running, can reach it.
Reaches(p, l) ==
  /\ alive[p]
  /\ \/ l.area # "shm" /\ l.proc = p
     \/ l.area = "shm" /\ Index(l) <= known[p]

----------------------------------------------------------------------------
(* get and set                                                             *)

FileOffset(s, va) == s.file_offset + (va - s.base_vaddr)

\* The file offset a cell of the shared memory leads to.
Target(p, c) == (FileOffset(find(p, known[p], Addr(p, c)), Addr(p, c)) + m[c]) % Word

InShm(s) == s # None /\ ~s.is_anon

\* How many sub-segments p has mapped after get: lazy_discover_growth maps
\* all that are published if the target is in none that p has.
Discovered(p, c) ==
  IF /\ m[c] # kNull
     /\ InShm(find(p, known[p], Addr(p, c)))
     /\ find_segment_by_file_offset(p, known[p], Target(p, c)) = None
  THEN count ELSE known[p]

get(p, c) ==
  LET self == Addr(p, c)
      self_seg == find(p, known[p], self)
      target_seg == find_segment_by_file_offset(p, Discovered(p, c), Target(p, c))
  IN  IF m[c] = kNull THEN nullptr
      ELSE IF self_seg = None THEN (self + m[c]) % Word
      ELSE IF self_seg.is_anon THEN (self_seg.base_vaddr + m[c]) % Word
      ELSE IF target_seg = None THEN nullptr
      ELSE target_seg.base_vaddr + (Target(p, c) - target_seg.file_offset)

\* Mutant: the distance of the addresses, as in a single mapping.
encode_Addresses(p, n, c, ptr) ==
  IF ptr = nullptr THEN kNull ELSE (ptr - Addr(p, c)) % Word

\* Mutant: the managers are not compared.
refused_AnyManager(p, n, c, ptr) ==
  /\ ptr # nullptr /\ InShm(find(p, n, Addr(p, c)))
  /\ find(p, n, ptr) = None

\* The two exceptions of set, where n sub-segments are mapped: a pointer in
\* the shared memory cannot point to unmanaged memory or to another manager's.
refused(p, n, c, ptr) ==
  LET target_seg == find(p, n, ptr)
      self_seg == find(p, n, Addr(p, c))
  IN  /\ ptr # nullptr /\ InShm(self_seg)
      /\ (IF target_seg = None THEN TRUE ELSE target_seg.manager # self_seg.manager)

\* The new m_offset of c, if ptr is not refused.
encode(p, n, c, ptr) ==
  LET self == Addr(p, c)
      self_seg == find(p, n, self)
  IN  IF ptr = nullptr THEN kNull
      ELSE IF self_seg = None THEN (ptr - self) % Word
      ELSE IF self_seg.is_anon THEN (ptr - self_seg.base_vaddr) % Word
      ELSE (FileOffset(find(p, n, ptr), ptr) - FileOffset(self_seg, self)) % Word

\* An assignment that throws leaves m_offset alone, and ends the process if
\* the exception meets a noexcept.
set(p, n, c, ptr, l, noexcept) ==
  IF refused(p, n, c, ptr)
  THEN /\ alive' = [alive EXCEPT ![p] = ~noexcept]
       /\ UNCHANGED <<m, target>>
  ELSE /\ m' = [m EXCEPT ![c] = encode(p, n, c, ptr)]
       /\ target' = [target EXCEPT ![c] = l]
       /\ UNCHANGED alive

----------------------------------------------------------------------------
(* What a process does with its pointers.                                  *)

\* Every use of the pointer that calls get: *, ->, [], the comparisons and
\* differences, to_raw_pointer and to_address. It may discover sub-segments.
Get(p, c) ==
  /\ Reaches(p, c)
  /\ known' = [known EXCEPT ![p] = Discovered(p, c)]
  /\ UNCHANGED <<m, count, alive, target>>

\* A constructor run in the place of d: the object is null until set returns,
\* and there is none if set throws. n sub-segments are mapped.
Construct(p, n, d, ptr, l, noexcept) ==
  IF refused(p, n, d, ptr)
  THEN /\ alive' = [alive EXCEPT ![p] = ~noexcept]
       /\ m' = [m EXCEPT ![d] = kNull]
       /\ target' = [target EXCEPT ![d] = None]
  ELSE set(p, n, d, ptr, l, noexcept)

\* The constructor from the address of something p can reach, or pointer_to,
\* which is noexcept.
ConstructFrom(p, d, l, noexcept) ==
  /\ Reaches(p, d) /\ Reaches(p, l)
  /\ Construct(p, known[p], d, Addr(p, l), l, noexcept)
  /\ UNCHANGED <<count, known>>

\* The copy constructor and the converting and tagged ones: set(other.get()).
ConstructCopy(p, c, d) ==
  /\ Reaches(p, c) /\ Reaches(p, d) /\ c # d
  /\ known' = [known EXCEPT ![p] = Discovered(p, c)]
  /\ Construct(p, Discovered(p, c), d, get(p, c), target[c], FALSE)
  /\ UNCHANGED count

\* The cast helpers, which are noexcept; dynamic_pointer_cast may give null.
Cast(p, c, d, fits) ==
  /\ Reaches(p, c) /\ Reaches(p, d) /\ c # d
  /\ known' = [known EXCEPT ![p] = Discovered(p, c)]
  /\ IF fits
     THEN Construct(p, Discovered(p, c), d, get(p, c), target[c], TRUE)
     ELSE Construct(p, Discovered(p, c), d, nullptr, None, TRUE)
  /\ UNCHANGED count

\* operator=(pointer), from the address of something p can reach.
Assign(p, c, l) ==
  /\ Reaches(p, c) /\ Reaches(p, l)
  /\ set(p, known[p], c, Addr(p, l), l, FALSE)
  /\ UNCHANGED <<count, known>>

\* operator=(nullptr_t), and the constructors of a null pointer.
AssignNull(p, c) ==
  /\ Reaches(p, c)
  /\ m' = [m EXCEPT ![c] = kNull]
  /\ target' = [target EXCEPT ![c] = None]
  /\ UNCHANGED <<count, known, alive>>

\* The assignments from another pointer: set(other.get()). The one from a
\* pointer to another type is noexcept.
Copy(p, c, d, noexcept) ==
  /\ Reaches(p, c) /\ Reaches(p, d)
  /\ known' = [known EXCEPT ![p] = Discovered(p, c)]
  /\ set(p, Discovered(p, c), d, get(p, c), target[c], noexcept)
  /\ UNCHANGED count

inc_offset(c, n) == m' = [m EXCEPT ![c] = (@ + n) % Word]

\* Arithmetic stays within the object pointed into.
Shifted(c, n) == [target[c] EXCEPT !.at = @ + n]
CanShift(c, n) == target[c] # None /\ Shifted(c, n) \in Place

\* Prefix ++ and --, += and -=.
Advance(p, c, n) ==
  /\ Reaches(p, c) /\ CanShift(c, n)
  /\ target' = [target EXCEPT ![c] = Shifted(c, n)]
  /\ inc_offset(c, n)
  /\ UNCHANGED <<count, known, alive>>

\* Postfix ++ and --, whose result, the old value, is constructed in d.
PostAdvance(p, c, d, n) ==
  /\ Reaches(p, c) /\ Reaches(p, d) /\ c # d /\ CanShift(c, n)
  /\ known' = [known EXCEPT ![p] = Discovered(p, c)]
  /\ IF refused(p, Discovered(p, c), d, get(p, c))
     THEN Construct(p, Discovered(p, c), d, get(p, c), None, TRUE)
     ELSE /\ m' = [m EXCEPT ![d] = encode(p, Discovered(p, c), d, get(p, c)),
                           ![c] = (@ + n) % Word]
          /\ target' = [target EXCEPT ![d] = target[c], ![c] = Shifted(c, n)]
          /\ UNCHANGED alive
  /\ UNCHANGED count

\* Binary + and -: the operand is copied to the stack and advanced there, and
\* the result constructed in d from what the copy then leads to.
Plus(p, c, d, n) ==
  /\ Reaches(p, c) /\ Reaches(p, d) /\ c # d /\ CanShift(c, n)
  /\ known' = [known EXCEPT ![p] = Discovered(p, c)]
  /\ Construct(p, Discovered(p, c), d, (get(p, c) + n) % Word, Shifted(c, n), TRUE)
  /\ UNCHANGED count

\* operator== and operator<, and the difference of two pointers, as evaluated
\* by p (the first get may discover what the second then finds).
equal(p, a, b) == get(p, a) = get(p, b)

\* Mutant: the stored offsets are compared, as if they were positions.
less_Offsets(p, a, b) == m[a] < m[b]

less(p, a, b) == get(p, a) < get(p, b)

minus(p, a, b) == get(p, a) - get(p, b)

\* A new sub-segment is added and published by a process that knows all others.
Grow(p) ==
  /\ alive[p] /\ count < Len(Size) /\ known[p] = count
  /\ count' = count + 1
  /\ known' = [known EXCEPT ![p] = count']
  /\ UNCHANGED <<m, alive, target>>

Next ==
  \E p \in Proc :
    \/ \E c \in Cell :
         \/ Get(p, c)
         \/ \E l \in Place : Assign(p, c, l)
         \/ \E l \in Place, noexcept \in BOOLEAN : ConstructFrom(p, c, l, noexcept)
         \/ AssignNull(p, c)
         \/ \E n \in {-1, 1} : Advance(p, c, n)
         \/ \E d \in Cell :
              \/ ConstructCopy(p, c, d)
              \/ \E fits \in BOOLEAN : Cast(p, c, d, fits)
              \/ \E noexcept \in BOOLEAN : Copy(p, c, d, noexcept)
              \/ \E n \in {-1, 1} : PostAdvance(p, c, d, n) \/ Plus(p, c, d, n)
    \/ Grow(p)

Spec == Init /\ [][Next]_vars

----------------------------------------------------------------------------
(* Properties.                                                             *)

\* Whether two places are in one sub-segment.
SameSegment(k, l) ==
  /\ k # None /\ l # None
  /\ k.area = l.area /\ k.proc = l.proc
  /\ k.area = "shm" => Index(k) = Index(l)

\* Whatever way a pointer has come, through stacks, anonymous and shared
\* memory, other processes and arithmetic, get gives every process that
\* reaches the pointer its own address of the one place that is meant, and
\* nullptr exactly for the null pointer: no encoding produces the sentinel.
Resolves ==
  \A p \in Proc : \A c \in Cell :
    Reaches(p, c) =>
      get(p, c) = IF target[c] = None THEN nullptr ELSE Addr(p, target[c])

\* What is in the shared memory means something to every process: a pointer
\* in it never leads to the stack or to the anonymous memory of one of them.
SharedPointsToShared ==
  \A c \in Cell : c.area = "shm" /\ target[c] # None => target[c].area = "shm"

\* Two pointers are equal exactly if they mean the same place, and those into
\* one object, or one sub-segment, are ordered and measured alike by every
\* process, wherever the pointers are and wherever the sub-segment is mapped:
\* comparisons go through get, never through the stored offsets.
ComparesAlike ==
  \A p \in Proc : \A a, b \in Cell :
    Reaches(p, a) /\ Reaches(p, b) =>
      /\ equal(p, a, b) <=> target[a] = target[b]
      /\ SameSegment(target[a], target[b]) =>
           /\ less(p, a, b) <=> target[a].at < target[b].at
           /\ minus(p, a, b) = target[a].at - target[b].at

\* Two pointers are ordered alike by every process, also when they lead into
\* different sub-segments, as the keys of an ordered container in the shared
\* memory must be.
OrderShared ==
  \A p, q \in Proc : \A a, b \in Cell :
    /\ Reaches(p, a) /\ Reaches(p, b) /\ Reaches(q, a) /\ Reaches(q, b)
    /\ a.area = "shm" /\ b.area = "shm"
    => (less(p, a, b) <=> less(q, a, b))

\* A pointer that cannot be stored is refused by an exception, which the
\* program may catch; no assignment ends the process.
RefusalThrows == \A p \in Proc : alive[p]

\* The encoding the file's header describes for a pointer that lies in a
\* registered sub-segment: the distance from that sub-segment's base.
DocumentedEncoding ==
  \A p \in Proc : \A c \in Cell :
    LET s == find(p, known[p], Addr(p, c))
    IN  Reaches(p, c) /\ s # None /\ m[c] # kNull /\ Reaches(p, target[c])
          => m[c] = (Addr(p, target[c]) - s.base_vaddr) % Word

====
