---- MODULE LifecycleProofs ----
(***************************************************************************)
(* Proofs about the creation, opening and removal of a named memory, for   *)
(* any number of processes, constructor calls and sizes, on both platforms *)
(* and with failures and crashes: the four invariants of Lifecycle.        *)
(***************************************************************************)
EXTENDS Lifecycle, TLAPS

\* Where a process has a file, where it has a view of it, where it is the
\* only one that has the file on POSIX, and where it builds the memory.
HasFile == {"trunc", "mmap", "heap", "magic", "count", "entry", "check",
            "size", "reopen", "rest", "attached"}
Views == HasFile \ {"trunc", "mmap"}
Early == {"trunc", "mmap", "heap"}
Building == {"heap", "magic", "count", "entry"}
Points == HasFile \cup
          {"out", "unlink", "create", "open", "destroy", "crashed", "faulted"}

FileRec == [size : Nat, heap : Nat, magic : BOOLEAN, count : Nat, size0 : Nat]

Types ==
  /\ os \in {"posix", "windows"}
  /\ made \in Nat
  /\ dir \in 1..made \cup {None}
  /\ file \in [1..made -> FileRec]
  /\ pc \in [Proc -> Points]
  /\ map \in [Proc -> 1..made \cup {None}]
  /\ mapped \in [Proc -> Nat]
  /\ owner \in [Proc -> BOOLEAN]
  /\ checked \in [Proc -> 1..made \cup {None}]

\* What the program point of p says of its mapping.
Place(p) ==
  /\ pc[p] \in HasFile => map[p] \in 1..made
  /\ pc[p] \in Views => mapped[p] > 0
  /\ pc[p] \in {"size", "reopen"} => map[p] = checked[p]
  /\ pc[p] = "reopen" => file[map[p]].size0 > 0
  /\ pc[p] \in Building => owner[p]

Places == \A p \in Proc : Place(p)

\* Sizes of files and of mappings. On POSIX a file that has been read or
\* given its size keeps it; on Windows a view lies in its file.
Sizes ==
  /\ \A f \in 1..made :
       /\ file[f].size \in {0, IF Posix THEN InitialSize ELSE VirtualSize}
       /\ file[f].size0 \in {0, InitialSize}
  /\ \A p \in Proc :
       /\ pc[p] \in Views => mapped[p] <= InitialSize
       /\ Posix /\ pc[p] \in (Building \cup {"mmap", "attached"}) =>
            file[map[p]].size = InitialSize
       /\ ~Posix /\ pc[p] \in Views => mapped[p] <= file[map[p]].size

\* A magic number, and who relies on one, mean a heap.
Heaps ==
  /\ \A f \in 1..made : file[f].magic => file[f].heap > 0
  /\ \A p \in Proc :
       /\ pc[p] \in {"magic", "count", "entry"} => file[map[p]].heap > 0
       /\ pc[p] \in {"size", "reopen", "rest", "attached"} /\ map[p] = checked[p] =>
            file[map[p]].heap > 0

\* On POSIX a creator that has not built its heap is alone in its file.
Built ==
  Posix =>
    /\ \A f \in 1..made : file[f].heap <= 1
    /\ \A p \in Proc :
         pc[p] \in Early =>
           /\ file[map[p]].heap = 0
           /\ \A q \in Proc : pc[q] \in Early /\ map[q] = map[p] => q = p

\* On POSIX a name that leads to a file has somebody who will unlink it, or
\* who was killed before.
Keeper(p) ==
  \/ pc[p] \in Early \cup Building \cup {"destroy", "crashed"}
  \/ pc[p] = "attached" /\ owner[p]
Kept == Posix /\ dir # None => \E p \in Proc : Keeper(p)

IInv == Types /\ Places /\ Sizes /\ Heaps /\ Built /\ Kept

----------------------------------------------------------------------------
(* The steps of a process.                                                 *)

\* What the nine actions have in common that give up what p has mapped.
Leaves(p) ==
  /\ \E a \in {"out", "unlink", "destroy", "crashed", "faulted"} : Unmap(p, a)
  /\ owner' \in {owner, [owner EXCEPT ![p] = FALSE]}
  /\ dir' \in {dir, None}
  /\ UNCHANGED <<made, file>>

Leaving(p) ==
  \/ Exists(p) \/ CreateRefused(p) \/ CreateFails(p) \/ ViewFails(p)
  \/ OpenFails(p) \/ BadMagic(p) \/ Fault(p) \/ Close(p) \/ Crash(p)

\* The steps that touch neither a file nor the name.
Looking(p) ==
  \/ \E m \in Modes[p] : Start(p, m)
  \/ Mmap(p) \/ Open(p) \/ Check(p) \/ ReadSize(p) \/ Reopen(p) \/ Rest(p)

\* What the steps that give up the name have in common.
Drops(p) ==
  /\ pc[p] \in {"unlink", "destroy", "out"}
  /\ \E a \in {"create", "out"} : pc' = [pc EXCEPT ![p] = a]
  /\ dir' \in {dir, None}
  /\ owner' \in {owner, [owner EXCEPT ![p] = FALSE]}
  /\ UNCHANGED <<made, file, map, mapped, checked>>

Dropping(p) == Unlink(p) \/ Destroy(p) \/ Remove(p)

\* File i has new contents, the others are as they were.
Rewritten(i) ==
  /\ made' = made
  /\ i \in 1..made
  /\ file' \in [1..made -> FileRec]
  /\ \A f \in 1..made : f # i => file'[f] = file[f]

\* Process p goes from a to b and changes no variable of its own.
Moved(p, a, b) ==
  /\ pc[p] = a
  /\ pc' = [pc EXCEPT ![p] = b]
  /\ UNCHANGED <<dir, map, mapped, owner, checked>>

\* What a store of a creator makes of the contents f of its file.
Stored(p, f, g) ==
  /\ g.size \in {f.size, IF Posix THEN InitialSize ELSE VirtualSize}
  /\ Posix /\ pc[p] = "trunc" => g.size = InitialSize
  /\ g.heap = IF pc[p] = "heap" THEN f.heap + 1 ELSE f.heap
  /\ g.magic => f.magic \/ pc[p] = "magic"
  /\ g.size0 \in {f.size0, InitialSize}

\* What the six stores have in common.
Stores(p) ==
  /\ \/ Moved(p, "trunc", "mmap") \/ Moved(p, "heap", "magic")
     \/ Moved(p, "magic", "count") \/ Moved(p, "count", "entry")
     \/ Moved(p, "entry", "attached")
  /\ Rewritten(map[p])
  /\ Stored(p, file[map[p]], file'[map[p]])

Storing(p) ==
  \/ Trunc(p) \/ SetEnd(p) \/ Heap(p) \/ Magic(p) \/ Count(p) \/ Entry(p)

\* A new file, and on Windows an emptied one.
Makes(p) ==
  /\ pc[p] \in {"create", "unlink"}
  /\ pc' = [pc EXCEPT ![p] = "trunc"]
  /\ made' = made + 1 /\ dir' = made'
  /\ map' = [map EXCEPT ![p] = made']
  /\ file' \in [1..made' -> FileRec]
  /\ file'[made'] = NewFile
  /\ \A f \in 1..made : file'[f] = file[f]
  /\ UNCHANGED <<mapped, owner, checked>>

Empties(p) ==
  /\ ~Posix /\ pc[p] = "unlink" /\ ~Viewed(dir)
  /\ pc' = [pc EXCEPT ![p] = "trunc"]
  /\ Rewritten(dir)
  /\ file'[dir] = NewFile
  /\ map' = [map EXCEPT ![p] = dir]
  /\ UNCHANGED <<dir, mapped, owner, checked>>

Creating(p) == Excl(p) \/ CreateAlways(p)

\* The nine actions leave.
LEMMA LeavingLeaves ==
  ASSUME NEW p \in Proc, Leaving(p)
  PROVE  Leaves(p)
<1>1. CASE Exists(p)  BY <1>1 DEF Leaves, Exists, Throw
<1>2. CASE CreateRefused(p)  BY <1>2 DEF Leaves, CreateRefused, Throw
<1>3. CASE CreateFails(p)  BY <1>3 DEF Leaves, CreateFails, Throw
<1>4. CASE ViewFails(p)  BY <1>4 DEF Leaves, ViewFails, Throw
<1>5. CASE OpenFails(p)  BY <1>5 DEF Leaves, OpenFails, Throw
<1>6. CASE BadMagic(p)  BY <1>6 DEF Leaves, BadMagic, Throw
<1>7. CASE Fault(p)  BY <1>7 DEF Leaves, Fault
<1>8. CASE Close(p)  BY <1>8 DEF Leaves, Close
<1>9. CASE Crash(p)  BY <1>9 DEF Leaves, Crash
<1> QED  BY <1>1, <1>2, <1>3, <1>4, <1>5, <1>6, <1>7, <1>8, <1>9 DEF Leaving

\* Three actions give up the name.
LEMMA DroppingDrops ==
  ASSUME Types, NEW p \in Proc, Dropping(p)
  PROVE  Drops(p)
<1>1. CASE Unlink(p)  BY <1>1 DEF Drops, Unlink, At, GoTo, procVars
<1>2. CASE Destroy(p)  BY <1>2 DEF Drops, Destroy, DeleteName, At, GoTo
<1>3. CASE Remove(p)
  <2>1. pc' = [pc EXCEPT ![p] = "out"]
    BY <1>3 DEF Remove, At, Types, procVars
  <2> QED  BY <1>3, <2>1 DEF Drops, Remove, DeleteName, At, procVars
<1> QED  BY <1>1, <1>2, <1>3 DEF Dropping

\* A creator that stores has a file, and its contents are a record.
LEMMA OwnFile ==
  ASSUME Types, Places, NEW p \in Proc, pc[p] \in HasFile
  PROVE  map[p] \in 1..made /\ file[map[p]] \in FileRec
  BY DEF Types, Places, Place

\* A file is given the contents g.
LEMMA Rewrite ==
  ASSUME Types, NEW i \in 1..made, NEW g \in FileRec,
         made' = made, file' = [file EXCEPT ![i] = g]
  PROVE  Rewritten(i) /\ file'[i] = g
  BY DEF Rewritten, Types

\* Six actions store something in the file of their process.
LEMMA StoringStores ==
  ASSUME Types, Places, NEW p \in Proc, Storing(p)
  PROVE  Stores(p)
<1> USE LifecycleAssumption
<1> DEFINE f == file[map[p]]
<1>0. /\ pc[p] \in HasFile /\ made' = made
      /\ map[p] \in 1..made /\ f \in FileRec
  BY OwnFile DEF Storing, Trunc, SetEnd, Heap, Magic, Count, Entry, At, HasFile
<1>1. ASSUME NEW g \in FileRec, file' = [file EXCEPT ![map[p]] = g]
      PROVE  Rewritten(map[p]) /\ file'[map[p]] = g
  BY <1>0, <1>1, Rewrite
<1>2. CASE Trunc(p)
  <2> DEFINE g == [f EXCEPT !.size = InitialSize]
  <2>1. Moved(p, "trunc", "mmap")
    BY <1>2 DEF Trunc, Moved, At, GoTo, procVars
  <2>2. g \in FileRec /\ Stored(p, f, g)
    BY <1>0, <1>2, <2>1 DEF FileRec, Stored, Moved, Trunc
  <2>3. file' = [file EXCEPT ![map[p]] = g]
    BY <1>2 DEF Trunc
  <2> HIDE DEF g
  <2> QED  BY <1>1, <2>1, <2>2, <2>3 DEF Stores
<1>3. CASE SetEnd(p)
  <2> DEFINE g == [f EXCEPT !.size = VirtualSize]
  <2>1. Moved(p, "trunc", "mmap") /\ ~Posix
    BY <1>3 DEF SetEnd, Moved, At, GoTo, procVars
  <2>2. g \in FileRec /\ Stored(p, f, g) /\ Stored(p, f, f)
    BY <1>0, <2>1 DEF FileRec, Stored, Moved
  <2>3. CASE UNCHANGED file
    BY <1>0, <2>1, <2>2, <2>3 DEF Stores, Rewritten, Types
  <2>4. CASE file' = [file EXCEPT ![map[p]] = g]
    <3> HIDE DEF g
    <3> QED  BY <1>1, <2>1, <2>2, <2>4 DEF Stores
  <2> QED  BY <1>3, <2>3, <2>4 DEF SetEnd
<1>4. CASE Heap(p)
  <2> DEFINE g == [f EXCEPT !.heap = f.heap + 1]
  <2>1. Moved(p, "heap", "magic")
    BY <1>4 DEF Heap, Moved, At, GoTo, procVars
  <2>2. g \in FileRec /\ Stored(p, f, g)
    BY <1>0, <1>4, <2>1 DEF FileRec, Stored, Moved, Heap
  <2>3. file' = [file EXCEPT ![map[p]] = g]
    BY <1>4 DEF Heap
  <2> HIDE DEF g
  <2> QED  BY <1>1, <2>1, <2>2, <2>3 DEF Stores
<1>5. CASE Magic(p)
  <2> DEFINE g == [f EXCEPT !.magic = TRUE]
  <2>1. Moved(p, "magic", "count")
    BY <1>5 DEF Magic, Moved, At, GoTo, procVars
  <2>2. g \in FileRec /\ Stored(p, f, g)
    BY <1>0, <1>5, <2>1 DEF FileRec, Stored, Moved, Magic
  <2>3. file' = [file EXCEPT ![map[p]] = g]
    BY <1>5 DEF Magic
  <2> HIDE DEF g
  <2> QED  BY <1>1, <2>1, <2>2, <2>3 DEF Stores
<1>6. CASE Count(p)
  <2> DEFINE g == [f EXCEPT !.count = 1]
  <2>1. Moved(p, "count", "entry")
    BY <1>6 DEF Count, Moved, At, GoTo, procVars
  <2>2. g \in FileRec /\ Stored(p, f, g)
    BY <1>0, <1>6, <2>1 DEF FileRec, Stored, Moved, Count
  <2>3. file' = [file EXCEPT ![map[p]] = g]
    BY <1>6 DEF Count
  <2> HIDE DEF g
  <2> QED  BY <1>1, <2>1, <2>2, <2>3 DEF Stores
<1>7. CASE Entry(p)
  <2> DEFINE g == [f EXCEPT !.size0 = InitialSize]
  <2>1. Moved(p, "entry", "attached")
    BY <1>7 DEF Entry, Moved, At, GoTo, procVars
  <2>2. g \in FileRec /\ Stored(p, f, g)
    BY <1>0, <1>7, <2>1 DEF FileRec, Stored, Moved, Entry
  <2>3. file' = [file EXCEPT ![map[p]] = g]
    BY <1>7 DEF Entry
  <2> HIDE DEF g
  <2> QED  BY <1>1, <2>1, <2>2, <2>3 DEF Stores
<1> QED  BY <1>2, <1>3, <1>4, <1>5, <1>6, <1>7 DEF Storing

\* Two actions create a file; one may empty the file that is there.
LEMMA CreatingMakes ==
  ASSUME Types, NEW p \in Proc, Creating(p)
  PROVE  Makes(p) \/ Empties(p)
<1>1. NewFile \in FileRec
  BY DEF NewFile, FileRec
<1>2. pc[p] \in {"create", "unlink"} /\ pc' = [pc EXCEPT ![p] = "trunc"]
      /\ UNCHANGED <<mapped, owner, checked>>
  BY DEF Creating, Excl, CreateAlways, At, GoTo
<1>3. CASE FreshFile(p)
  <2>1. made' = made + 1 /\ made \in Nat  BY <1>3 DEF FreshFile, Types
  <2>2. \A f \in 1..made' : f = made' \/ f \in 1..made  BY <2>1
  <2>3. made' \in 1..made' /\ 1..made \subseteq 1..made' /\ made' \notin 1..made
    BY <2>1
  <2>4. file' = [f \in 1..made' |-> IF f = made' THEN NewFile ELSE file[f]]
    BY <1>3 DEF FreshFile
  <2>5. \A f \in 1..made : file[f] \in FileRec  BY DEF Types
  <2>6. /\ file' \in [1..made' -> FileRec] /\ file'[made'] = NewFile
        /\ \A f \in 1..made : file'[f] = file[f]
    BY <1>1, <2>2, <2>3, <2>4, <2>5
  <2> QED  BY <1>2, <1>3, <2>6 DEF Makes, FreshFile
<1>4. CASE ~FreshFile(p)
  <2>1. /\ ~Posix /\ pc[p] = "unlink" /\ dir # None /\ ~Viewed(dir)
        /\ file' = [file EXCEPT ![dir] = NewFile]
        /\ map' = [map EXCEPT ![p] = dir]
        /\ UNCHANGED <<dir, made>>
    BY <1>4 DEF Creating, Excl, CreateAlways, At
  <2>2. Rewritten(dir) /\ file'[dir] = NewFile
    BY <1>1, <2>1, Rewrite DEF Types
  <2> QED  BY <1>2, <2>1, <2>2 DEF Empties
<1> QED  BY <1>3, <1>4

\* A step of process p, as the invariants need to know it.
Step(p) ==
  Leaves(p) \/ Drops(p) \/ Stores(p) \/ Makes(p) \/ Empties(p) \/ Looking(p)

----------------------------------------------------------------------------
(* The steps preserve the parts of the invariant.                          *)

\* The numbers of a file are natural numbers.
LEMMA Fields ==
  ASSUME Types, NEW f \in 1..made
  PROVE  file[f].size \in Nat /\ file[f].heap \in Nat /\ file[f].size0 \in Nat
  BY DEF Types, FileRec

\* Every step keeps the types.
LEMMA TypesInv ==
  ASSUME IInv, UNCHANGED os, NEW p \in Proc, Step(p)
  PROVE  Types'
<1> USE LifecycleAssumption DEF IInv, Types, Points, HasFile, Places, Place
<1>1. CASE Leaves(p)
  <2>1. owner' \in [Proc -> BOOLEAN]  BY <1>1 DEF Leaves
  <2>2. dir' \in 1..made' \cup {None}  BY <1>1 DEF Leaves
  <2>3. pc' \in [Proc -> Points]  BY <1>1 DEF Leaves, Unmap, GoTo
  <2>4. /\ map' \in [Proc -> 1..made' \cup {None}]
        /\ mapped' \in [Proc -> Nat]
        /\ checked' \in [Proc -> 1..made' \cup {None}]
    BY <1>1 DEF Leaves, Unmap
  <2> QED  BY <1>1, <2>1, <2>2, <2>3, <2>4 DEF Leaves
<1>2. CASE Drops(p)
  <2>1. owner' \in [Proc -> BOOLEAN]  BY <1>2 DEF Drops
  <2>2. dir' \in 1..made' \cup {None}  BY <1>2 DEF Drops
  <2>3. pc' \in [Proc -> Points]  BY <1>2 DEF Drops
  <2> HIDE DEF Points, HasFile
  <2> QED  BY <1>2, <2>1, <2>2, <2>3 DEF Drops
<1>3. CASE Stores(p)
  <2>1. /\ UNCHANGED <<made, dir, map, mapped, owner, checked>>
        /\ file' \in [1..made -> FileRec]
    BY <1>3 DEF Stores, Rewritten, Moved
  <2>2. pc' \in [Proc -> Points]  BY <1>3 DEF Stores, Moved
  <2> HIDE DEF Points, HasFile
  <2> QED  BY <2>1, <2>2
<1>4. CASE Makes(p)
  BY <1>4 DEF Makes, NewFile
<1>5. CASE Empties(p)
  BY <1>5 DEF Empties, Rewritten, NewFile, Viewed
<1>6. CASE \E m \in Modes[p] : Start(p, m)
  BY <1>6 DEF Start, At, GoTo
<1>7. CASE Mmap(p)
  BY <1>7 DEF Mmap, At, GoTo, CanMap
<1>8. CASE Open(p)
  BY <1>8 DEF Open, At, GoTo, CanMap
<1>9. CASE Check(p)
  BY <1>9 DEF Check, At, GoTo, procVars
<1>10. CASE ReadSize(p)
  BY <1>10 DEF ReadSize, At, GoTo, procVars
<1>11. CASE Reopen(p)
  BY <1>11, Fields DEF Reopen, At, GoTo
<1>12. CASE Rest(p)
  BY <1>12 DEF Rest, At, GoTo, procVars
<1> QED
  BY <1>1, <1>2, <1>3, <1>4, <1>5, <1>6,
     <1>7, <1>8, <1>9, <1>10, <1>11, <1>12 DEF Step, Looking

\* Every step keeps what the program points say of the mappings.
LEMMA PlacesInv ==
  ASSUME IInv, UNCHANGED os, NEW p \in Proc, Step(p)
  PROVE  Places'
<1> USE LifecycleAssumption DEF IInv, Types, Places, Place, HasFile, Views, Building
<1>1. CASE Leaves(p)
  BY <1>1 DEF Leaves, Unmap, GoTo
<1>2. CASE Drops(p)
  BY <1>2 DEF Drops
<1>3. CASE Stores(p)
  <2>1. \A f \in 1..made : file[f].size0 > 0 => file'[f].size0 > 0
    BY SMTT(30), <1>3, Fields DEF Stores, Stored, Rewritten
  <2> QED  BY SMTT(30), <1>3, <2>1 DEF Stores, Rewritten, Moved
<1>4. CASE Makes(p)
  BY <1>4 DEF Makes, NewFile
<1>5. CASE Empties(p)
  BY <1>5 DEF Empties, Rewritten, NewFile, Viewed
<1>6. CASE \E m \in Modes[p] : Start(p, m)
  BY <1>6 DEF Start, At, GoTo
<1>7. CASE Mmap(p)
  BY <1>7 DEF Mmap, At, GoTo, CanMap
<1>8. CASE Open(p)
  BY <1>8 DEF Open, At, GoTo, CanMap
<1>9. CASE Check(p)
  BY <1>9 DEF Check, At, GoTo, procVars
<1>10. CASE ReadSize(p)
  BY <1>10, Fields DEF ReadSize, At, GoTo, procVars
<1>11. CASE Reopen(p)
  BY <1>11 DEF Reopen, At, GoTo, CanMap
<1>12. CASE Rest(p)
  BY <1>12 DEF Rest, At, GoTo, procVars
<1> QED
  BY <1>1, <1>2, <1>3, <1>4, <1>5, <1>6,
     <1>7, <1>8, <1>9, <1>10, <1>11, <1>12 DEF Step, Looking

\* Every step keeps the sizes.
LEMMA SizesInv ==
  ASSUME IInv, UNCHANGED os, NEW p \in Proc, Step(p)
  PROVE  Sizes'
<1> USE LifecycleAssumption
    DEF IInv, Types, Places, Place, Sizes, Posix, HasFile, Views, Building
<1>1. CASE Leaves(p)
  BY <1>1 DEF Leaves, Unmap, GoTo
<1>2. CASE Drops(p)
  BY <1>2 DEF Drops
<1>3. CASE Stores(p)
  <2>1. \A f \in 1..made' :
          /\ file'[f].size \in {0, IF Posix THEN InitialSize ELSE VirtualSize}
          /\ file'[f].size0 \in {0, InitialSize}
    BY <1>3 DEF Stores, Stored, Rewritten
  <2>2. \A f \in 1..made : file[f].size > 0 => file'[f].size = file[f].size
    BY SMTT(30), <1>3, Fields DEF Stores, Stored, Rewritten
  <2>3. pc[p] = "trunc" /\ Posix => file'[map[p]].size = InitialSize
    BY <1>3 DEF Stores, Stored
  <2>4. ASSUME NEW q \in Proc
        PROVE  /\ pc'[q] \in Views => mapped'[q] <= InitialSize
               /\ Posix /\ pc'[q] \in (Building \cup {"mmap", "attached"}) =>
                    file'[map'[q]].size = InitialSize
               /\ ~Posix /\ pc'[q] \in Views => mapped'[q] <= file'[map'[q]].size
    BY SMTT(30), <1>3, <2>2, <2>3 DEF Stores, Rewritten, Moved
  <2> QED  BY <2>1, <2>4
<1>4. CASE Makes(p)
  BY <1>4 DEF Makes, NewFile
<1>5. CASE Empties(p)
  <2>1. \A q \in Proc : pc[q] \in Views => map[q] # dir
    BY <1>5 DEF Empties, Viewed
  <2>2. \A f \in 1..made' :
          /\ file'[f].size \in {0, IF Posix THEN InitialSize ELSE VirtualSize}
          /\ file'[f].size0 \in {0, InitialSize}
    <3>1. /\ made' = made /\ file'[dir] = NewFile
          /\ \A f \in 1..made : f # dir => file'[f] = file[f]
      BY <1>5 DEF Empties, Rewritten
    <3>2. file'[dir].size = 0 /\ file'[dir].size0 = 0
      BY <3>1 DEF NewFile
    <3> QED  BY <3>1, <3>2
  <2>3. \A q \in Proc : pc'[q] \in Views =>
          /\ pc[q] \in Views /\ mapped'[q] = mapped[q] /\ map'[q] = map[q]
          /\ file'[map[q]] = file[map[q]]
    BY <1>5, <2>1 DEF Empties, Rewritten
  <2>4. ~Posix /\ ~Posix'  BY <1>5 DEF Empties
  <2> QED  BY <2>2, <2>3, <2>4
<1>6. CASE \E m \in Modes[p] : Start(p, m)
  BY <1>6 DEF Start, At, GoTo
<1>7. CASE Mmap(p)
  BY <1>7 DEF Mmap, At, GoTo, CanMap
<1>8. CASE Open(p)
  BY <1>8 DEF Open, At, GoTo, CanMap
<1>9. CASE Check(p)
  BY <1>9 DEF Check, At, GoTo, procVars
<1>10. CASE ReadSize(p)
  BY <1>10 DEF ReadSize, At, GoTo, procVars
<1>11. CASE Reopen(p)
  <2>1. /\ pc[p] = "reopen" /\ pc' = [pc EXCEPT ![p] = "rest"]
        /\ dir \in 1..made /\ map' = [map EXCEPT ![p] = dir]
        /\ UNCHANGED <<made, file>>
    BY <1>11 DEF Reopen, At, GoTo
  <2>2. mapped' = [mapped EXCEPT ![p] = file[map[p]].size0]
    BY <1>11 DEF Reopen
  <2>3. file[map[p]].size0 <= InitialSize
    <3>1. file[map[p]].size0 \in {0, InitialSize}  BY <2>1
    <3> HIDE DEF IInv
    <3> QED  BY <3>1
  <2>4. ~Posix => file[map[p]].size0 <= file[dir].size
    BY <1>11 DEF Reopen, CanMap
  <2> QED  BY <2>1, <2>2, <2>3, <2>4
<1>12. CASE Rest(p)
  BY <1>12 DEF Rest, At, GoTo, procVars
<1> QED
  BY <1>1, <1>2, <1>3, <1>4, <1>5, <1>6,
     <1>7, <1>8, <1>9, <1>10, <1>11, <1>12 DEF Step, Looking

\* Every step keeps the heaps.
LEMMA HeapsInv ==
  ASSUME IInv, UNCHANGED os, NEW p \in Proc, Step(p)
  PROVE  Heaps'
<1> USE LifecycleAssumption
    DEF IInv, Types, Places, Place, Heaps, HasFile, Views, Building
<1>1. CASE Leaves(p)
  BY <1>1 DEF Leaves, Unmap, GoTo
<1>2. CASE Drops(p)
  BY <1>2 DEF Drops
<1>3. CASE Stores(p)
  <2>1. \A f \in 1..made : file[f].heap > 0 => file'[f].heap > 0
    BY SMTT(30), <1>3, Fields DEF Stores, Stored, Rewritten
  <2>2. pc[p] = "heap" => file'[map[p]].heap > 0
    BY <1>3, Fields DEF Stores, Stored, Rewritten
  <2>3. \A f \in 1..made' : file'[f].magic => file'[f].heap > 0
    BY <1>3, <2>1 DEF Stores, Stored, Rewritten
  <2>4. ASSUME NEW q \in Proc
        PROVE  /\ pc'[q] \in {"magic", "count", "entry"} => file'[map'[q]].heap > 0
               /\ pc'[q] \in {"size", "reopen", "rest", "attached"}
                    /\ map'[q] = checked'[q] => file'[map'[q]].heap > 0
    BY SMTT(30), <1>3, <2>1, <2>2 DEF Stores, Rewritten, Moved
  <2> QED  BY <2>3, <2>4
<1>4. CASE Makes(p)
  <2>1. \A f \in 1..made' : f = made' \/ f \in 1..made
    BY <1>4 DEF Makes
  <2>2. \A f \in 1..made' : file'[f].magic => file'[f].heap > 0
    <3>1. \A f \in 1..made : file'[f] = file[f]  BY <1>4 DEF Makes
    <3>2. ~file'[made'].magic  BY <1>4 DEF Makes, NewFile
    <3> QED  BY <2>1, <3>1, <3>2
  <2> QED  BY <1>4, <2>2 DEF Makes
<1>5. CASE Empties(p)
  <2>1. \A q \in Proc : pc[q] \in Views => map[q] # dir
    BY <1>5 DEF Empties, Viewed
  <2>2. \A f \in 1..made' : file'[f].magic => file'[f].heap > 0
    BY <1>5 DEF Empties, Rewritten, NewFile
  <2>3. \A q \in Proc : pc'[q] \in Views =>
          /\ pc[q] \in Views /\ pc'[q] = pc[q] /\ map'[q] = map[q]
          /\ checked'[q] = checked[q] /\ file'[map[q]] = file[map[q]]
    BY <1>5, <2>1 DEF Empties, Rewritten
  <2> QED  BY ZenonT(40), <2>2, <2>3
<1>6. CASE \E m \in Modes[p] : Start(p, m)
  BY <1>6 DEF Start, At, GoTo
<1>7. CASE Mmap(p)
  BY <1>7 DEF Mmap, At, GoTo, CanMap
<1>8. CASE Open(p)
  BY <1>8 DEF Open, At, GoTo, CanMap
<1>9. CASE Check(p)
  BY <1>9 DEF Check, At, GoTo, procVars
<1>10. CASE ReadSize(p)
  BY <1>10 DEF ReadSize, At, GoTo, procVars
<1>11. CASE Reopen(p)
  BY <1>11 DEF Reopen, At, GoTo, CanMap
<1>12. CASE Rest(p)
  BY <1>12 DEF Rest, At, GoTo, procVars
<1> QED
  BY <1>1, <1>2, <1>3, <1>4, <1>5, <1>6,
     <1>7, <1>8, <1>9, <1>10, <1>11, <1>12 DEF Step, Looking

\* Every step keeps builders apart on POSIX.
LEMMA BuiltInv ==
  ASSUME IInv, UNCHANGED os, NEW p \in Proc, Step(p)
  PROVE  Built'
<1> USE LifecycleAssumption DEF IInv, Types, Places, Place, Built, Posix, Early, HasFile
<1>1. CASE Leaves(p)
  BY <1>1 DEF Leaves, Unmap, GoTo
<1>2. CASE Drops(p)
  BY <1>2 DEF Drops
<1>3. CASE Stores(p)
  BY SMTT(30), <1>3 DEF Stores, Stored, Rewritten, Moved
<1>4. CASE Makes(p)
  BY <1>4 DEF Makes, NewFile
<1>5. CASE Empties(p)
  BY <1>5 DEF Empties, Rewritten, NewFile, Viewed
<1>6. CASE \E m \in Modes[p] : Start(p, m)
  BY <1>6 DEF Start, At, GoTo
<1>7. CASE Mmap(p)
  BY <1>7 DEF Mmap, At, GoTo, CanMap
<1>8. CASE Open(p)
  BY <1>8 DEF Open, At, GoTo, CanMap
<1>9. CASE Check(p)
  BY <1>9 DEF Check, At, GoTo, procVars
<1>10. CASE ReadSize(p)
  BY <1>10 DEF ReadSize, At, GoTo, procVars
<1>11. CASE Reopen(p)
  BY <1>11 DEF Reopen, At, GoTo, CanMap
<1>12. CASE Rest(p)
  BY <1>12 DEF Rest, At, GoTo, procVars
<1> QED
  BY <1>1, <1>2, <1>3, <1>4, <1>5, <1>6,
     <1>7, <1>8, <1>9, <1>10, <1>11, <1>12 DEF Step, Looking

\* On POSIX every step leaves somebody who will unlink the name.
LEMMA KeptInv ==
  ASSUME IInv, UNCHANGED os, NEW p \in Proc,
         Leaving(p) \/ Dropping(p) \/ Storing(p) \/ Creating(p) \/ Looking(p)
  PROVE  Kept'
<1> SUFFICES ASSUME Posix, dir' # None
             PROVE  \E q \in Proc : Keeper(q)'
  BY DEF Kept, Posix
<1> USE DEF IInv, Types, Keeper, Early, Building
<1>1. CASE Creating(p)
  <2>1. pc'[p] = "trunc"  BY <1>1 DEF Creating, Excl, CreateAlways, GoTo
  <2> QED  BY <2>1
<1>2. CASE Dropping(p)
  BY <1>2 DEF Dropping, Unlink, Destroy, Remove, DeleteName
<1>3. ASSUME ~Creating(p), ~Dropping(p)
      PROVE  dir' = dir /\ (Keeper(p) => Keeper(p)')
             /\ \A q \in Proc : q # p => pc'[q] = pc[q] /\ owner'[q] = owner[q]
  <2>1. CASE Storing(p)
    BY <2>1, StoringStores DEF Stores, Moved, Places, Place
  <2>2. CASE Looking(p)
    BY <2>2
      DEF Looking, Start, Mmap, Open, Check, ReadSize, Reopen, Rest, At, GoTo, procVars
  <2>3. CASE Close(p)
    BY <2>3 DEF Close, Unmap, GoTo, At
  <2>4. CASE Crash(p)
    BY <2>4 DEF Crash, Unmap, GoTo
  <2>5. CASE Leaving(p) /\ ~Close(p) /\ ~Crash(p)
    <3>1. ~CreateFails(p) /\ ~CreateRefused(p) /\ ~ViewFails(p)
      BY DEF CreateFails, CreateRefused, ViewFails
    <3>2. Exists(p) \/ OpenFails(p) \/ BadMagic(p) \/ Fault(p)
      BY <2>5, <3>1 DEF Leaving
    <3> QED
      BY <3>2 DEF Exists, OpenFails, BadMagic, Fault, Throw, Unmap, GoTo, At
  <2> QED  BY <1>3, <2>1, <2>2, <2>3, <2>4, <2>5
<1>4. CASE ~Creating(p) /\ ~Dropping(p)
  <2>1. PICK q \in Proc : Keeper(q)  BY <1>3, <1>4 DEF Kept
  <2> QED  BY <1>3, <1>4, <2>1
<1> QED  BY <1>1, <1>2, <1>4

----------------------------------------------------------------------------
(* The theorems.                                                           *)

\* Initially there is no file, and nobody has one.
LEMMA InitInv == Init => IInv
<1> SUFFICES ASSUME Init PROVE IInv
  OBVIOUS
<1> USE LifecycleAssumption DEF Init
<1>1. Types  BY DEF Types, Points
<1>2. Places  BY DEF Places, Place, HasFile, Views, Building
<1>3. Sizes /\ Heaps  BY DEF Sizes, Heaps, Views, Building, HasFile
<1>4. Built /\ Kept  BY DEF Built, Kept, Early
<1> QED  BY <1>1, <1>2, <1>3, <1>4 DEF IInv

\* IInv is inductive.
LEMMA StepInv == IInv /\ [Next]_vars => IInv'
<1> SUFFICES ASSUME IInv, [Next]_vars PROVE IInv'
  OBVIOUS
<1>1. CASE UNCHANGED vars
  BY <1>1
  DEF IInv, Types, Places, Place, Sizes, Heaps, Built, Kept, Keeper, Posix, vars, procVars
<1>2. CASE Next
  <2>1. UNCHANGED os  BY <1>2 DEF Next
  <2>2. PICK p \in Proc :
          Leaving(p) \/ Dropping(p) \/ Storing(p) \/ Creating(p) \/ Looking(p)
    BY <1>2 DEF Next, Leaving, Dropping, Storing, Creating, Looking
  <2>3. Step(p)
    BY <2>2, LeavingLeaves, DroppingDrops, StoringStores, CreatingMakes DEF Step, IInv
  <2>4. Types' /\ Places' /\ Sizes' /\ Heaps' /\ Built'
    BY <2>1, <2>3, TypesInv, PlacesInv, SizesInv, HeapsInv, BuiltInv
  <2>5. Kept'  BY <2>1, <2>2, KeptInv
  <2> QED  BY <2>4, <2>5 DEF IInv
<1> QED  BY <1>1, <1>2

\* IInv holds in every state.
LEMMA Inv == Spec => []IInv
  BY InitInv, StepInv, PTL DEF Spec

\* Whoever has attached to the file whose magic number it has read works on
\* a heap that has been built there: for any number of processes that create,
\* open, close and are killed, on both platforms.
THEOREM HeapFinished == Spec => []HeapBeforeUse
<1>1. IInv => HeapBeforeUse
  BY DEF IInv, Heaps, HeapBeforeUse, At
<1> QED  BY Inv, <1>1, PTL

\* Whoever has attached reaches all it has mapped, for any sizes of the first
\* and of the second mapping.
THEOREM MappingReaches == Spec => []MappingInFile
<1>1. IInv => MappingInFile
  BY LifecycleAssumption
     DEF IInv, Types, Places, Place, Sizes, MappingInFile, At, HasFile, Views, Posix
<1> QED  BY Inv, <1>1, PTL

\* On POSIX no file is ever given two heaps, however many creators unlink
\* each other's files.
THEOREM OneCreator == Spec => []BuiltOnce
<1>1. IInv => BuiltOnce
  BY DEF IInv, Built, BuiltOnce, OneBuilder
<1> QED  BY Inv, <1>1, PTL

\* On POSIX no name is left when all processes have closed or failed.
THEOREM NoNameLeft == Spec => []NothingLeft
<1>1. IInv => NothingLeft
  BY DEF IInv, Kept, Keeper, Early, Building, NothingLeft, NameGone
<1> QED  BY Inv, <1>1, PTL

====
