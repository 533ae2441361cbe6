---- MODULE NamedObjectsProofs ----
(***************************************************************************)
(* Proofs about the named objects, for any number of threads, names and    *)
(* sub-segments: no sub-segment is overfilled, in one process find misses  *)
(* no object, and a second object of a name comes only of the two calls    *)
(* that UniqueNames names.                                                 *)
(***************************************************************************)
EXTENDS NamedObjects, FiniteSetTheorems, TLAPS

Scanning == {"finding", "destroying", "constructing"}
Points == {"idle", "find", "destroy", "relock"} \cup Scanning \cup Making

\* The indexes: no sub-segment is overfilled, or used before it is added.
IndexOK ==
  /\ index \in [1..Len(Capacity) -> SUBSET Name]
  /\ \A i \in 1..Len(Capacity) : FreeIn(i) >= 0 /\ (i > count => index[i] = {})

\* The types of the other variables.
Frame ==
  /\ count \in 1..Len(Capacity)
  /\ known \in [Proc -> 1..count]
  /\ list_mtx \in [Proc -> Thread \cup {None}]
  /\ grow_mtx \in [Proc -> Thread \cup {None}]
  /\ seg \in [Thread -> 1..(Len(Capacity) + 1)]
  /\ pc \in [Thread -> Points]
  /\ call \in [Thread -> (Operation \X Name) \cup {None}]
  /\ res = [t \in Thread |-> res[t]]
  /\ calls \in [Thread -> Nat]
  /\ there \in [Thread -> BOOLEAN]
  /\ misused \subseteq Name

\* What the program point of t says of its call, and of list_mtx_.
Shape(t) ==
  /\ call[t] = None \/ call[t] \in Uses[t]
  /\ pc[t] # "idle" => call[t] \in Uses[t] /\ call[t] \in Operation \X Name
  /\ pc[t] \in {"find", "finding"} => Op(t) \in {"find", "find_or_construct"}
  /\ pc[t] \in {"destroy", "destroying"} => Op(t) = "destroy"
  /\ pc[t] \in Making => Op(t) \in {"construct", "find_or_construct"}
  /\ pc[t] = "relock" => Op(t) # "find"
  /\ pc[t] \in Scanning \cup {"relock"} => list_mtx[Of[t]] = t

BInv == IndexOK /\ Frame /\ \A t \in Thread : Shape(t)

\* One process: it has mapped every sub-segment.
AllMapped == \A p \in Proc : known[p] = count

\* An object that has been there since t began to search is still ahead of t.
Ahead(t) ==
  /\ pc[t] = "find" /\ there[t] => \E i \in 1..count : name(t) \in index[i]
  /\ pc[t] = "finding" /\ there[t] => \E i \in seg[t]..count : name(t) \in index[i]

FInv == BInv /\ AllMapped /\ (\A t \in Thread : Ahead(t)) /\ FindMissesNone

\* What t is searching for in order to make it is not behind t; and what t
\* makes is nowhere, unless the name is misused.
Absent(t) ==
  /\ pc[t] = "finding" /\ Op(t) = "find_or_construct" =>
       \A i \in 1..Len(Capacity) : i < seg[t] => name(t) \notin index[i]
  /\ pc[t] \in Making /\ name(t) \notin misused =>
       \A i \in 1..Len(Capacity) : name(t) \notin index[i]

\* Two threads make one name only if it is misused.
Solo(t, x) ==
  pc[t] \in Making /\ pc[x] \in Making /\ name(t) = name(x) => name(t) \in misused

UInv ==
  /\ BInv /\ AllMapped /\ UniqueNames
  /\ \A t \in Thread : Absent(t) /\ \A x \in Thread \ {t} : Solo(t, x)

\* All threads are those of one process.
SingleProcess == \A t, u \in Thread : Of[t] = Of[u]

----------------------------------------------------------------------------
(* Types, and the discipline of list_mtx_.                                 *)

\* An index is a finite set, and a capacity a number.
LEMMA IndexFinite ==
  ASSUME index \in [1..Len(Capacity) -> SUBSET Name], NEW i \in 1..Len(Capacity)
  PROVE  /\ IsFiniteSet(index[i]) /\ Cardinality(index[i]) \in Nat
         /\ Capacity[i] \in Nat /\ FreeIn(i) \in Int
<1>1. IsFiniteSet(index[i])
  BY NamedObjectsAssumption, FS_Subset
<1>2. Cardinality(index[i]) \in Nat
  BY <1>1, FS_CardinalityType
<1>3. Capacity[i] \in Nat
  BY NamedObjectsAssumption
<1> QED
  BY <1>1, <1>2, <1>3 DEF FreeIn

\* An object that fits does not overfill its sub-segment.
LEMMA AddKeeps ==
  ASSUME IndexOK, NEW n \in Name, NEW k \in 1..Len(Capacity), k <= count, count \in Nat,
         n \notin index[k], FreeIn(k) > 0,
         index' = [index EXCEPT ![k] = @ \cup {n}], count' = count
  PROVE  IndexOK'
<1>1. index' \in [1..Len(Capacity) -> SUBSET Name]
  BY DEF IndexOK
<1>2. ASSUME NEW i \in 1..Len(Capacity)
      PROVE  FreeIn(i)' >= 0 /\ (i > count' => index'[i] = {})
  <2>1. CASE i = k
    <3>1. index'[k] = index[k] \cup {n}
      BY DEF IndexOK
    <3>2. Cardinality(index'[k]) = Cardinality(index[k]) + 1
      BY <3>1, IndexFinite, FS_AddElement DEF IndexOK
    <3>3. Cardinality(index[k]) \in Nat /\ Capacity[k] \in Nat
      BY IndexFinite DEF IndexOK
    <3> QED
      BY <2>1, <3>2, <3>3 DEF FreeIn
  <2>2. CASE i # k
    BY <2>2 DEF IndexOK, FreeIn
  <2> QED
    BY <2>1, <2>2
<1> QED
  BY <1>1, <1>2 DEF IndexOK

\* Destroying an object leaves more room.
LEMMA RemoveKeeps ==
  ASSUME IndexOK, NEW n \in Name, NEW k \in 1..Len(Capacity), n \in index[k],
         index' = [index EXCEPT ![k] = @ \ {n}], count' = count
  PROVE  IndexOK'
<1>1. index' \in [1..Len(Capacity) -> SUBSET Name]
  BY DEF IndexOK
<1>2. ASSUME NEW i \in 1..Len(Capacity)
      PROVE  FreeIn(i)' >= 0 /\ (i > count' => index'[i] = {})
  <2>1. CASE i = k
    <3>1. index'[k] = index[k] \ {n}
      BY DEF IndexOK
    <3>2. Cardinality(index'[k]) = Cardinality(index[k]) - 1
      BY <3>1, IndexFinite, FS_RemoveElement DEF IndexOK
    <3>3. Cardinality(index[k]) \in Nat /\ Capacity[k] \in Nat
      BY IndexFinite DEF IndexOK
    <3> QED
      BY <2>1, <3>1, <3>2, <3>3 DEF FreeIn, IndexOK
  <2>2. CASE i # k
    BY <2>2 DEF IndexOK, FreeIn
  <2> QED
    BY <2>1, <2>2
<1> QED
  BY <1>1, <1>2 DEF IndexOK

\* What a thread in a call may rely on.
LEMMA Within ==
  ASSUME BInv, NEW t \in Thread
  PROVE  /\ IndexOK /\ Frame /\ Of[t] \in Proc
         /\ Here(t) \in 1..count /\ Here(t) \in 1..Len(Capacity)
         /\ count \in Nat /\ Len(Capacity) \in Nat
         /\ seg[t] \in 1..(Len(Capacity) + 1)
         /\ pc[t] # "idle" => /\ call[t] \in Uses[t] /\ call[t] = <<Op(t), name(t)>>
                              /\ Op(t) \in Operation /\ name(t) \in Name
<1>1. IndexOK /\ Frame
  BY DEF BInv
<1>2. Of[t] \in Proc
  BY DEF Proc
<1>3. count \in Nat /\ Len(Capacity) \in Nat /\ count <= Len(Capacity)
  BY <1>1, NamedObjectsAssumption DEF Frame
<1>4. Here(t) \in 1..count /\ Here(t) \in 1..Len(Capacity)
  BY <1>1, <1>2, <1>3 DEF Here, Frame
<1>5. ASSUME pc[t] # "idle"
      PROVE  /\ call[t] \in Uses[t] /\ call[t] = <<Op(t), name(t)>>
             /\ Op(t) \in Operation /\ name(t) \in Name
  BY <1>5 DEF BInv, Shape, Op, name
<1> QED
  BY <1>1, <1>2, <1>3, <1>4, <1>5 DEF Frame

\* A call begins.
LEMMA CallKeeps ==
  ASSUME BInv, NEW t \in Thread, NEW u \in Uses[t], Call(t, u) PROVE BInv'
<1>1. IndexOK'
  BY Within DEF Call, IndexOK, FreeIn
<1>2. u \in Operation \X Name /\ u[1] \in Operation /\ u[2] \in Name
  BY NamedObjectsAssumption
<1>3. Frame'
  <2>1. pc' \in [Thread -> Points]
    <3>1. PICK a \in Points : pc' = [pc EXCEPT ![t] = a]
      BY DEF Call, GoTo, Points, Scanning, Making
    <3> QED
      BY <3>1, Within DEF Frame
  <2>2. there' \in [Thread -> BOOLEAN]
    <3>1. PICK b \in BOOLEAN : there' = [there EXCEPT ![t] = b]
      BY DEF Call, Exists
    <3> QED
      BY <3>1, Within DEF Frame
  <2>3. calls' \in [Thread -> Nat] /\ call' \in [Thread -> (Operation \X Name) \cup {None}]
    BY <1>2, Within DEF Call, Frame
  <2>4. res' = [x \in Thread |-> res'[x]]
    BY Within DEF Call, Frame
  <2>5. misused' \subseteq Name
    BY <1>2, Within DEF Call, Misuse, Frame
  <2> QED
    BY <2>1, <2>2, <2>3, <2>4, <2>5, Within DEF Call, Frame
<1>4. ASSUME NEW x \in Thread PROVE Shape(x)'
  <2>1. CASE x # t
    BY <2>1, Within DEF BInv, Shape, Call, Frame, GoTo, Op
  <2>2. CASE x = t
    <3>1. call'[t] = u /\ pc'[t] = CASE u[1] = "construct" -> "construct"
                                     [] u[1] = "destroy"   -> "destroy"
                                     [] OTHER              -> "find"
      BY Within DEF Call, Frame, GoTo
    <3> QED
      BY <1>2, <2>2, <3>1 DEF Shape, Op, Operation, Scanning, Making
  <2> QED
    BY <2>1, <2>2
<1> QED
  BY <1>1, <1>3, <1>4 DEF BInv

\* A step of t moves no other thread, and changes list_mtx_ of its process
\* only when it is free or t's.
Moves(t) ==
  /\ \A x \in Thread \ {t} : pc'[x] = pc[x]
  /\ call' = call
  /\ \/ list_mtx' = list_mtx
     \/ /\ list_mtx[Of[t]] \in {None, t}
        /\ \E v \in {None, t} : list_mtx' = [list_mtx EXCEPT ![Of[t]] = v]

\* Such a step leaves the calls of the others in form.
LEMMA MovesKeep ==
  ASSUME BInv, NEW t \in Thread, Moves(t), IndexOK', Frame', Shape(t)'
  PROVE  BInv'
<1>1. ASSUME NEW x \in Thread \ {t} PROVE Shape(x)'
  <2>1. pc'[x] = pc[x] /\ call'[x] = call[x] /\ Op(x)' = Op(x)
    BY DEF Moves, Op
  <2>2. list_mtx[Of[x]] = x => list_mtx'[Of[x]] = x
    <3>1. SUFFICES ASSUME list_mtx[Of[x]] = x PROVE list_mtx'[Of[x]] = x
      OBVIOUS
    <3>2. x # None /\ Of[x] \in Proc
      BY NamedObjectsAssumption DEF Proc
    <3>3. list_mtx \in [Proc -> Thread \cup {None}]
      BY Within DEF Frame
    <3> QED
      BY <3>1, <3>2, <3>3 DEF Moves
  <2> QED
    BY <2>1, <2>2 DEF BInv, Shape
<1> QED
  BY <1>1 DEF BInv

\* Taking list_mtx_ for a scan.
LEMMA BeginScanKeeps == ASSUME BInv, NEW t \in Thread, BeginScan(t) PROVE BInv'
<1>1. IndexOK'
  BY Within DEF BeginScan, IndexOK, FreeIn
<1>2. PICK a \in Scanning :
        /\ pc' = [pc EXCEPT ![t] = a]
        /\ pc[t] = "find" => a = "finding"
        /\ pc[t] = "destroy" => a = "destroying"
        /\ pc[t] = "construct" => a = "constructing"
        /\ pc[t] \in {"find", "destroy", "construct"}
  BY DEF BeginScan, GoTo, At, Scanning
<1>3. Frame'
  <2>1. a \in Points /\ 1 \in 1..(Len(Capacity) + 1)
    BY Within DEF Points
  <2> QED
    BY <1>2, <2>1, Within DEF BeginScan, Lock, Frame
<1>4. Moves(t)
  BY <1>2, Within DEF BeginScan, Lock, Moves, Frame
<1>5. Shape(t)'
  <2>1. pc'[t] = a /\ call'[t] = call[t] /\ list_mtx'[Of[t]] = t /\ Op(t)' = Op(t)
    BY <1>2, Within DEF BeginScan, Lock, Frame, Op
  <2>2. pc[t] # "idle"
    BY <1>2
  <2> QED
    BY <1>2, <2>1, <2>2 DEF BInv, Shape, Scanning, Making
<1> QED
  BY <1>1, <1>3, <1>4, <1>5, MovesKeep

\* Going on to the next sub-segment.
LEMMA SkipKeeps ==
  ASSUME BInv, NEW t \in Thread, More(t), Skip(t) PROVE BInv'
<1>1. IndexOK'
  BY Within DEF Skip, IndexOK, FreeIn
<1>2. Frame'
  <2>1. seg[t] + 1 \in 1..(Len(Capacity) + 1)
    BY Within DEF More
  <2>2. seg' \in [Thread -> 1..(Len(Capacity) + 1)]
    BY <2>1, Within DEF Skip, Frame
  <2> QED
    BY <2>2, Within DEF Skip, Frame
<1>3. Moves(t)
  BY DEF Skip, Moves
<1>4. Shape(t)'
  BY DEF BInv, Shape, Skip, Op
<1> QED
  BY <1>1, <1>2, <1>3, <1>4, MovesKeep

\* Giving list_mtx_ back, or a step without it, and going to point a.
LEMMA PassKeeps ==
  ASSUME BInv, NEW t \in Thread, NEW a \in Points, pc' = [pc EXCEPT ![t] = a],
         \/ list_mtx' = list_mtx
         \/ list_mtx[Of[t]] \in {None, t} /\ Unlock(t),
         res' = res \/ (\E r : res' = [res EXCEPT ![t] = r]),
         UNCHANGED <<call, seg, calls>>, IndexOK', there' \in [Thread -> BOOLEAN],
         misused' \subseteq Name, count' \in 1..Len(Capacity), known' \in [Proc -> 1..count'],
         grow_mtx' \in [Proc -> Thread \cup {None}],
         a = "idle" \/ (pc[t] # "idle" /\ a \in Making \ {"constructing"}
                           /\ Op(t) \in {"construct", "find_or_construct"})
  PROVE  BInv'
<1>1. list_mtx' \in [Proc -> Thread \cup {None}]
  BY Within DEF Unlock, Frame
<1>2. res' = [x \in Thread |-> res'[x]]
  BY Within DEF Frame
<1>3. Frame'
  BY <1>1, <1>2, Within DEF Frame
<1>4. Moves(t)
  <2>1. \A x \in Thread \ {t} : pc'[x] = pc[x]
    BY Within DEF Frame
  <2> QED
    BY <2>1 DEF Moves, Unlock
<1>5. Shape(t)'
  <2>1. pc'[t] = a /\ call'[t] = call[t] /\ Op(t)' = Op(t)
    BY Within DEF Frame, Op
  <2> QED
    BY <2>1 DEF BInv, Shape, Scanning, Making
<1> QED
  BY <1>3, <1>4, <1>5, MovesKeep

\* The end of a construct or a destroy, after the code of the object has run.
LEMMA FinishKeeps ==
  ASSUME BInv, NEW t \in Thread, pc[t] # "idle", Op(t) # "find",
         list_mtx[Of[t]] \in {None, t}, NEW nested, NEW r, Finish(t, nested, r),
         IndexOK', there' \in [Thread -> BOOLEAN],
         UNCHANGED <<count, known, grow_mtx, call, seg, calls, misused>>
  PROVE  BInv'
<1>1. CASE nested
  <2>1. /\ list_mtx' = [list_mtx EXCEPT ![Of[t]] = t]
        /\ pc' = [pc EXCEPT ![t] = "relock"] /\ res' = res
    BY <1>1 DEF Finish, GoTo
  <2>2. Frame'
    BY <2>1, Within DEF Frame, Points
  <2>3. Moves(t)
    BY <2>1, Within DEF Moves, Frame
  <2>4. Shape(t)'
    <3>1. /\ pc'[t] = "relock" /\ call'[t] = call[t] /\ Op(t)' = Op(t)
          /\ list_mtx'[Of[t]] = t
      BY <2>1, Within DEF Frame, Op
    <3> QED
      BY <3>1 DEF BInv, Shape, Making, Scanning
  <2> QED
    BY <2>2, <2>3, <2>4, MovesKeep
<1>2. CASE ~nested
  <2>1. Unlock(t) /\ pc' = [pc EXCEPT ![t] = "idle"] /\ res' = [res EXCEPT ![t] = r]
    BY <1>2 DEF Finish, Return, GoTo
  <2>2. count' \in 1..Len(Capacity) /\ known' \in [Proc -> 1..count']
        /\ grow_mtx' \in [Proc -> Thread \cup {None}] /\ "idle" \in Points
        /\ misused' \subseteq Name
    BY Within DEF Frame, Points
  <2> QED
    BY <2>1, <2>2, PassKeeps
<1> QED
  BY <1>1, <1>2

\* The steps that change nothing but locks, results and program points.
LEMMA EndKeeps ==
  ASSUME BInv, NEW t \in Thread,
         \/ FindHit(t) \/ FindMiss(t) \/ DestroyMiss(t) \/ TryMiss(t) \/ GrowLock(t)
         \/ GrowSkip(t) \/ GrowNeeded(t) \/ GrowRefused(t) \/ BackMiss(t)
  PROVE  BInv'
<1>1. /\ IndexOK' /\ there' \in [Thread -> BOOLEAN]
      /\ count' \in 1..Len(Capacity) /\ known' \in [Proc -> 1..count']
  <2>1. UNCHANGED <<index, count, known, there>>
    BY DEF FindHit, FindMiss, DestroyMiss, TryMiss, GrowLock, GrowSkip, GrowNeeded,
           GrowRefused, BackMiss
  <2> QED
    BY <2>1, Within DEF IndexOK, FreeIn, Frame
<1>2. UNCHANGED <<call, seg, calls>>
  BY DEF FindHit, FindMiss, DestroyMiss, TryMiss, GrowLock, GrowSkip, GrowNeeded,
         GrowRefused, BackMiss
<1>3. grow_mtx' \in [Proc -> Thread \cup {None}]
  <2>1. CASE GrowLock(t) \/ GrowSkip(t) \/ GrowRefused(t)
    <3>1. PICK v \in {None, t} : grow_mtx' = [grow_mtx EXCEPT ![Of[t]] = v]
      BY <2>1 DEF GrowLock, GrowSkip, GrowRefused, Leave
    <3>2. grow_mtx \in [Proc -> Thread \cup {None}]
      BY Within DEF Frame
    <3> QED
      BY <3>1, <3>2
  <2>2. CASE FindHit(t) \/ FindMiss(t) \/ DestroyMiss(t) \/ TryMiss(t) \/ GrowNeeded(t) \/ BackMiss(t)
    BY <2>2, Within DEF FindHit, FindMiss, DestroyMiss, TryMiss, GrowNeeded, BackMiss, Frame
  <2> QED
    BY <2>1, <2>2
<1>4. PICK a \in Points :
        /\ pc' = [pc EXCEPT ![t] = a]
        /\ a = "idle" \/ (pc[t] # "idle" /\ a \in Making \ {"constructing"}
                            /\ Op(t) \in {"construct", "find_or_construct"})
  <2>1. Shape(t)
    BY DEF BInv
  <2>2. CASE FindMiss(t)
    <3>1. Op(t) \in {"find", "find_or_construct"} /\ pc[t] = "finding"
      BY <2>1, <2>2 DEF FindMiss, At, Shape
    <3>2. PICK a \in {"idle", "construct"} :
            pc' = [pc EXCEPT ![t] = a] /\ (a = "construct" => Op(t) # "find")
      BY <2>2 DEF FindMiss, Return, GoTo
    <3> QED
      BY <3>1, <3>2 DEF Points, Making
  <2>3. CASE FindHit(t) \/ DestroyMiss(t) \/ GrowRefused(t) \/ BackMiss(t)
    <3>1. pc' = [pc EXCEPT ![t] = "idle"]
      BY <2>3 DEF FindHit, DestroyMiss, GrowRefused, BackMiss, Return, GoTo
    <3> QED
      BY <3>1 DEF Points
  <2>4. CASE TryMiss(t) \/ GrowLock(t) \/ GrowSkip(t) \/ GrowNeeded(t)
    <3>1. pc[t] \in Making
      BY <2>4 DEF TryMiss, GrowLock, GrowSkip, GrowNeeded, At, Making
    <3>2. PICK a \in {"grow", "check", "back", "add"} : pc' = [pc EXCEPT ![t] = a]
      BY <2>4 DEF TryMiss, GrowLock, GrowSkip, GrowNeeded, GoTo
    <3> QED
      BY <2>1, <3>1, <3>2 DEF Points, Making, Shape
  <2> QED
    BY <2>2, <2>3, <2>4
<1>5. \/ list_mtx' = list_mtx
      \/ list_mtx[Of[t]] \in {None, t} /\ Unlock(t)
  <2>1. pc[t] \in Scanning => list_mtx[Of[t]] = t
    BY DEF BInv, Shape
  <2> QED
    BY <2>1 DEF FindHit, FindMiss, DestroyMiss, TryMiss, GrowLock, GrowSkip, GrowNeeded,
           GrowRefused, BackMiss, At, Scanning
<1>6. res' = res \/ (\E r : res' = [res EXCEPT ![t] = r])
  BY DEF FindHit, FindMiss, DestroyMiss, TryMiss, GrowLock, GrowSkip, GrowNeeded,
         GrowRefused, BackMiss, Return
<1>7. misused' \subseteq Name
  <2>1. CASE FindMiss(t)
    <3>1. name(t) \in Name /\ misused \subseteq Name
      BY <2>1, Within DEF FindMiss, At, Frame
    <3> QED
      BY <2>1, <3>1 DEF FindMiss, Misuse
  <2>2. CASE ~FindMiss(t)
    BY <2>2, Within DEF FindHit, DestroyMiss, TryMiss, GrowLock, GrowSkip, GrowNeeded,
       GrowRefused, BackMiss, Frame
  <2> QED
    BY <2>1, <2>2
<1> QED
  BY <1>1, <1>2, <1>3, <1>4, <1>5, <1>6, <1>7, PassKeeps

\* Adding a sub-segment.
LEMMA GrowAddKeeps == ASSUME BInv, NEW t \in Thread, GrowAdd(t) PROVE BInv'
<1>1. count < Len(Capacity) /\ count' = count + 1 /\ index' = index
  BY DEF GrowAdd
<1>2. IndexOK'
  BY <1>1, Within DEF IndexOK, FreeIn
<1>3. count' \in 1..Len(Capacity)
  BY <1>1, Within DEF Frame
<1>4. known' \in [Proc -> 1..count']
  <2>1. known[Of[t]] \in 1..count /\ Of[t] \in Proc /\ count \in Nat
    BY Within DEF Here
  <2>2. known[Of[t]] + 1 \in 1..(count + 1) /\ 1..count \subseteq 1..(count + 1)
    BY <2>1
  <2>3. known \in [Proc -> 1..count]
    BY Within DEF Frame
  <2> QED
    BY <1>1, <2>2, <2>3 DEF GrowAdd
<1>5. grow_mtx' \in [Proc -> Thread \cup {None}]
  BY Within DEF GrowAdd, Leave, Frame
<1>6. /\ pc' = [pc EXCEPT ![t] = "back"] /\ list_mtx' = list_mtx /\ res' = res
      /\ UNCHANGED <<call, seg, calls>> /\ there' \in [Thread -> BOOLEAN]
      /\ pc[t] = "add" /\ misused' \subseteq Name
  BY Within DEF GrowAdd, GoTo, At, Frame
<1>7. Op(t) \in {"construct", "find_or_construct"}
  BY <1>6 DEF BInv, Shape, Making
<1>8. "back" \in Points /\ "back" \in Making \ {"constructing"}
  BY DEF Points, Making
<1> QED
  BY <1>2, <1>3, <1>4, <1>5, <1>6, <1>7, <1>8, PassKeeps

\* Making an object in sub-segment i.
LEMMA MadeKeeps ==
  ASSUME BInv, NEW t \in Thread, pc[t] \in Making, list_mtx[Of[t]] \in {None, t},
         NEW i \in 1..count, Fits(t, i), Made(t, i),
         UNCHANGED <<count, known, grow_mtx, call, seg, calls, there, misused>>
  PROVE  BInv'
<1>1. /\ pc[t] # "idle" /\ Op(t) # "find" /\ name(t) \in Name
      /\ i \in 1..Len(Capacity) /\ i <= count
  <2>1. pc[t] # "idle"
    BY DEF Making
  <2>2. Op(t) # "find"
    BY DEF BInv, Shape
  <2>3. count \in 1..Len(Capacity) /\ Len(Capacity) \in Nat
    BY Within DEF Frame
  <2> QED
    BY <2>1, <2>2, <2>3, Within
<1>2. IndexOK'
  BY <1>1, Within, AddKeeps DEF Made, Fits
<1>3. there' \in [Thread -> BOOLEAN]
  BY Within DEF Frame
<1> QED
  BY <1>1, <1>2, <1>3, FinishKeeps DEF Made

\* The two places construct makes an object at.
LEMMA HitKeeps == ASSUME BInv, NEW t \in Thread, TryHit(t) \/ BackHit(t) PROVE BInv'
<1>1. CASE TryHit(t)
  <2>1. pc[t] \in Making /\ list_mtx[Of[t]] \in {None, t}
    BY <1>1 DEF TryHit, At, BInv, Shape, Scanning, Making
  <2>2. seg[t] \in 1..count
    BY <1>1, Within DEF TryHit, More
  <2> QED
    BY <1>1, <2>1, <2>2, MadeKeeps DEF TryHit
<1>2. CASE BackHit(t)
  <2>1. pc[t] \in Making /\ list_mtx[Of[t]] \in {None, t}
    BY <1>2 DEF BackHit, At, ListFree, Making
  <2>2. Here(t) \in 1..count
    BY Within
  <2> QED
    BY <1>2, <2>1, <2>2, MadeKeeps DEF BackHit
<1> QED
  BY <1>1, <1>2

\* Destroying an object.
LEMMA DestroyHitKeeps == ASSUME BInv, NEW t \in Thread, DestroyHit(t) PROVE BInv'
<1>1. /\ pc[t] = "destroying" /\ Op(t) # "find" /\ name(t) \in Name
      /\ list_mtx[Of[t]] \in {None, t}
  BY Within DEF DestroyHit, At, BInv, Shape, Scanning
<1>2. seg[t] \in 1..Len(Capacity)
  BY Within DEF DestroyHit, More, Frame
<1>3. IndexOK'
  BY <1>1, <1>2, Within, RemoveKeeps DEF DestroyHit
<1>4. there' \in [Thread -> BOOLEAN]
  BY Within DEF DestroyHit, Frame
<1> QED
  BY <1>1, <1>3, <1>4, FinishKeeps DEF DestroyHit

\* Every step keeps the types and the discipline of list_mtx_.
LEMMA BInvStep == ASSUME BInv, [Next]_vars PROVE BInv'
<1>1. ASSUME NEW t \in Thread, Step(t) PROVE BInv'
  <2>1. CASE FindNext(t) \/ DestroyNext(t) \/ TryNext(t)
    BY <2>1, SkipKeeps DEF FindNext, DestroyNext, TryNext
  <2> QED
    BY <1>1, <2>1, BeginScanKeeps, EndKeeps, GrowAddKeeps, HitKeeps, DestroyHitKeeps DEF Step
<1>2. ASSUME NEW t \in Thread, NEW u \in Uses[t], Call(t, u) PROVE BInv'
  BY <1>2, CallKeeps
<1>3. CASE UNCHANGED vars
  <2>1. IndexOK' /\ Frame'
    BY <1>3 DEF BInv, IndexOK, FreeIn, Frame, vars
  <2>2. \A t \in Thread : Shape(t)'
    BY <1>3 DEF BInv, Shape, Op, vars
  <2> QED
    BY <2>1, <2>2 DEF BInv
<1> QED
  BY <1>1, <1>2, <1>3 DEF Next

\* The first state.
LEMMA BInvInit == ASSUME Init PROVE BInv
<1>1. Len(Capacity) \in Nat /\ Len(Capacity) > 0
  BY NamedObjectsAssumption
<1>2. Cardinality({}) = 0
  BY FS_EmptySet
<1>3. IndexOK
  BY <1>1, <1>2, NamedObjectsAssumption DEF Init, IndexOK, FreeIn
<1>4. Frame
  BY <1>1, NamedObjectsAssumption DEF Init, Frame, Points
<1>5. \A t \in Thread : Shape(t)
  BY DEF Init, Shape, Making, Scanning
<1> QED
  BY <1>3, <1>4, <1>5 DEF BInv

----------------------------------------------------------------------------
(* What a step does, as the other threads see it.                          *)

\* A step of t leaves the calls of the others alone, but that an object they
\* ask for may have been destroyed.
LEMMA Others ==
  ASSUME BInv, NEW t \in Thread, Step(t) \/ (\E u \in Uses[t] : Call(t, u)),
         NEW x \in Thread \ {t}
  PROVE  /\ pc'[x] = pc[x] /\ seg'[x] = seg[x] /\ call'[x] = call[x] /\ res'[x] = res[x]
         /\ there'[x] => there[x]
<1>1. Frame
  BY DEF BInv
<1>2. ASSUME NEW u \in Uses[t], Call(t, u)
      PROVE  /\ pc'[x] = pc[x] /\ seg'[x] = seg[x] /\ call'[x] = call[x] /\ res'[x] = res[x]
             /\ there'[x] => there[x]
  BY <1>1, <1>2 DEF Call, GoTo, Frame
<1>3. CASE BeginScan(t)
  BY <1>1, <1>3 DEF BeginScan, GoTo, Frame
<1>4. CASE FindNext(t) \/ DestroyNext(t) \/ TryNext(t)
  BY <1>1, <1>4 DEF FindNext, DestroyNext, TryNext, Skip, Frame
<1>5. CASE FindHit(t) \/ FindMiss(t) \/ DestroyMiss(t) \/ BackMiss(t) \/ GrowRefused(t)
  BY <1>1, <1>5 DEF FindHit, FindMiss, DestroyMiss, BackMiss, GrowRefused, Return, GoTo, Frame
<1>6. CASE DestroyHit(t)
  <2>1. /\ pc'[x] = pc[x] /\ seg'[x] = seg[x] /\ call'[x] = call[x] /\ res'[x] = res[x]
    BY <1>1, <1>6 DEF DestroyHit, Finish, Return, GoTo, Frame
  <2>2. there'[x] => there[x]
    BY <1>6 DEF DestroyHit
  <2> QED
    BY <2>1, <2>2
<1>7. CASE TryHit(t) \/ BackHit(t)
  BY <1>1, <1>7 DEF TryHit, BackHit, Made, Finish, Return, GoTo, Frame
<1>8. CASE TryMiss(t) \/ GrowLock(t) \/ GrowSkip(t) \/ GrowNeeded(t) \/ GrowAdd(t)
  BY <1>1, <1>8 DEF TryMiss, GrowLock, GrowSkip, GrowNeeded, GrowAdd, GoTo, Frame
<1> QED
  BY <1>2, <1>3, <1>4, <1>5, <1>6, <1>7, <1>8 DEF Step

\* t destroys its object in sub-segment i.
Removes(t, i) ==
  /\ pc[t] = "destroying" /\ pc'[t] \in {"idle", "relock"}
  /\ index' = [index EXCEPT ![i] = @ \ {name(t)}]
  /\ there' = [u \in Thread |-> there[u] /\ name(u) # name(t)]

\* t makes its object in sub-segment i, with list_mtx_.
Adds(t, i) ==
  /\ list_mtx[Of[t]] \in {None, t}
  /\ pc[t] \in Making /\ pc'[t] \in {"idle", "relock"} /\ name(t) \notin index[i]
  /\ index' = [index EXCEPT ![i] = @ \cup {name(t)}]
  /\ there' = there

\* The indexes change in these two ways only, and sub-segments are never lost.
LEMMA IndexChanges ==
  ASSUME BInv, NEW t \in Thread, Step(t) \/ (\E u \in Uses[t] : Call(t, u))
  PROVE  /\ \/ index' = index
            \/ \E i \in 1..count : Removes(t, i) \/ Adds(t, i)
         /\ count' = count \/ (count' = count + 1 /\ index' = index)
<1>1. Frame
  BY DEF BInv
<1>2. CASE DestroyHit(t)
  <2>1. seg[t] \in 1..count
    BY <1>2, Within DEF DestroyHit, More
  <2>2. pc'[t] \in {"idle", "relock"}
    BY <1>1, <1>2 DEF DestroyHit, Finish, Return, GoTo, Frame
  <2>3. Removes(t, seg[t])
    BY <1>2, <2>2 DEF DestroyHit, Removes, At
  <2> QED
    BY <1>2, <2>1, <2>3 DEF DestroyHit
<1>3. CASE TryHit(t)
  <2>1. seg[t] \in 1..count
    BY <1>3, Within DEF TryHit, More
  <2>2. pc'[t] \in {"idle", "relock"}
    BY <1>1, <1>3 DEF TryHit, Made, Finish, Return, GoTo, Frame
  <2>3. list_mtx[Of[t]] = t
    BY <1>3 DEF TryHit, At, BInv, Shape, Scanning
  <2>4. Adds(t, seg[t])
    BY <1>3, <2>2, <2>3 DEF TryHit, Made, Fits, Adds, At, Making
  <2> QED
    BY <1>3, <2>1, <2>4 DEF TryHit
<1>4. CASE BackHit(t)
  <2>1. Here(t) \in 1..count
    BY Within
  <2>2. pc'[t] \in {"idle", "relock"}
    BY <1>1, <1>4 DEF BackHit, Made, Finish, Return, GoTo, Frame
  <2>3. Adds(t, Here(t))
    BY <1>4, <2>2 DEF BackHit, Made, Fits, Adds, At, Making, ListFree
  <2> QED
    BY <1>4, <2>1, <2>3 DEF BackHit
<1>5. CASE GrowAdd(t)
  BY <1>5 DEF GrowAdd
<1>6. ASSUME ~(DestroyHit(t) \/ TryHit(t) \/ BackHit(t) \/ GrowAdd(t))
      PROVE  index' = index /\ count' = count
  BY <1>6 DEF Step, Call, BeginScan, FindHit, FindNext, FindMiss, DestroyNext, DestroyMiss,
       TryNext, TryMiss, GrowLock, GrowSkip, GrowNeeded, GrowRefused, BackMiss, Skip
<1> QED
  BY <1>2, <1>3, <1>4, <1>5, <1>6

\* An object of x's name that x may still count on has not gone.
LEMMA NothingLost ==
  ASSUME BInv, NEW t \in Thread, Step(t) \/ (\E u \in Uses[t] : Call(t, u)),
         NEW x \in Thread, call'[x] = call[x], there'[x], NEW i \in 1..count, name(x) \in index[i]
  PROVE  i \in 1..count' /\ name(x)' \in index'[i]
<1>1. index \in [1..Len(Capacity) -> SUBSET Name] /\ i \in 1..Len(Capacity) /\ count \in Nat
  BY Within DEF IndexOK, Frame
<1>2. i \in 1..count' /\ name(x)' = name(x)
  BY <1>1, IndexChanges DEF name
<1>3. ASSUME NEW j \in 1..count, Removes(t, j) PROVE name(x) \in index'[i]
  <2>1. name(x) # name(t)
    BY <1>3 DEF Removes
  <2> QED
    BY <1>1, <1>3, <2>1 DEF Removes
<1>4. ASSUME NEW j \in 1..count, Adds(t, j) PROVE name(x) \in index'[i]
  BY <1>1, <1>4 DEF Adds
<1> QED
  BY <1>2, <1>3, <1>4, IndexChanges

\* In one process every sub-segment stays mapped.
LEMMA MappedKept ==
  ASSUME BInv, AllMapped, SingleProcess, [Next]_vars PROVE AllMapped'
<1>1. ASSUME NEW t \in Thread, GrowAdd(t) PROVE AllMapped'
  <2>1. known' = [known EXCEPT ![Of[t]] = @ + 1] /\ count' = count + 1
    BY <1>1 DEF GrowAdd
  <2>2. \A p \in Proc : p = Of[t]
    BY DEF SingleProcess, Proc
  <2>3. Of[t] \in Proc /\ known \in [Proc -> 1..count]
    BY Within DEF Frame
  <2> QED
    BY <2>1, <2>2, <2>3 DEF AllMapped
<1>2. ASSUME \A t \in Thread : ~GrowAdd(t) PROVE UNCHANGED <<known, count>>
  BY <1>2 DEF Next, Step, vars, Call, BeginScan, FindHit, FindNext, FindMiss, DestroyHit, DestroyNext,
       DestroyMiss, TryHit, TryNext, TryMiss, GrowLock, GrowSkip, GrowNeeded, GrowRefused,
       BackHit, BackMiss, Skip
<1> QED
  BY <1>1, <1>2 DEF AllMapped

----------------------------------------------------------------------------
(* find.                                                                   *)

\* An object that has been there all along stays ahead of the search.
LEMMA AheadKept ==
  ASSUME FInv, NEW t \in Thread, Step(t) \/ (\E u \in Uses[t] : Call(t, u)), NEW x \in Thread
  PROVE  Ahead(x)'
<1>1. BInv /\ Frame /\ AllMapped /\ Ahead(x) /\ count \in Nat
  BY Within DEF FInv
<1>2. CASE x # t
  <2>1. /\ pc'[x] = pc[x] /\ seg'[x] = seg[x] /\ call'[x] = call[x]
        /\ there'[x] => there[x]
    BY <1>1, <1>2, Others
  <2>2. ASSUME pc'[x] = "find", there'[x]
        PROVE  \E i \in 1..count' : name(x)' \in index'[i]
    <3>1. PICK i \in 1..count : name(x) \in index[i]
      BY <1>1, <2>1, <2>2 DEF Ahead
    <3> QED
      BY <1>1, <2>1, <2>2, <3>1, NothingLost
  <2>3. ASSUME pc'[x] = "finding", there'[x]
        PROVE  \E i \in seg'[x]..count' : name(x)' \in index'[i]
    <3>1. PICK i \in seg[x]..count : name(x) \in index[i]
      BY <1>1, <2>1, <2>3 DEF Ahead
    <3>2. seg[x] \in 1..(Len(Capacity) + 1) /\ Len(Capacity) \in Nat
      BY <1>1, Within
    <3>3. i \in 1..count
      BY <3>1, <3>2
    <3>4. i \in 1..count' /\ name(x)' \in index'[i]
      BY <1>1, <2>1, <2>3, <3>1, <3>3, NothingLost
    <3>5. i \in seg'[x]..count'
      BY <2>1, <3>1, <3>2, <3>4
    <3> QED
      BY <3>4, <3>5
  <2> QED
    BY <2>2, <2>3 DEF Ahead
<1>3. CASE x = t
  <2>1. CASE \E u \in Uses[t] : Call(t, u)
    <3>1. PICK u \in Uses[t] : Call(t, u)
      BY <2>1
    <3>2. /\ call'[t] = u /\ pc'[t] # "finding" /\ index' = index /\ count' = count
          /\ there'[t] = \E i \in 1..count : u[2] \in index[i]
      BY <1>1, <3>1 DEF Call, Exists, GoTo, Frame
    <3> QED
      BY <1>3, <3>2 DEF Ahead, name
  <2>2. CASE BeginScan(t)
    <3>1. /\ pc'[t] # "find" /\ (pc'[t] = "finding" => pc[t] = "find")
          /\ seg'[t] = 1 /\ UNCHANGED <<index, count, call, there>>
      BY <1>1, <2>2 DEF BeginScan, GoTo, At, Frame
    <3> QED
      BY <1>1, <1>3, <3>1 DEF Ahead, name
  <2>3. CASE FindNext(t)
    <3>1. /\ pc[t] = "finding" /\ name(t) \notin index[seg[t]] /\ seg'[t] = seg[t] + 1
          /\ UNCHANGED <<index, count, call, there, pc>>
      BY <1>1, <2>3 DEF FindNext, Skip, At, Frame
    <3>2. ASSUME there[t] PROVE \E i \in (seg[t] + 1)..count : name(t) \in index[i]
      <4>1. PICK i \in seg[t]..count : name(t) \in index[i]
        BY <1>1, <1>3, <3>1, <3>2 DEF Ahead
      <4>2. i # seg[t] /\ seg[t] \in Int
        BY <1>1, <3>1, <4>1, Within
      <4>3. i \in (seg[t] + 1)..count
        BY <4>1, <4>2
      <4> QED
        BY <4>1, <4>3
    <3> QED
      BY <1>3, <3>1, <3>2 DEF Ahead, name
  <2>4. CASE ~(\E u \in Uses[t] : Call(t, u)) /\ ~BeginScan(t) /\ ~FindNext(t)
    <3>1. pc'[t] \notin {"find", "finding"}
      BY <1>1, <2>4 DEF Step, FindHit, FindMiss, DestroyHit, DestroyNext, DestroyMiss,
           TryHit, TryNext, TryMiss, GrowLock, GrowSkip, GrowNeeded, GrowAdd, GrowRefused,
           BackHit, BackMiss, Made, Finish, Return, Skip, GoTo, At, Frame
    <3> QED
      BY <1>3, <3>1 DEF Ahead
  <2> QED
    BY <2>1, <2>2, <2>3, <2>4
<1> QED
  BY <1>2, <1>3

\* A search that misses has missed nothing.
LEMMA MissKept ==
  ASSUME FInv, NEW t \in Thread, Step(t) \/ (\E u \in Uses[t] : Call(t, u))
  PROVE  FindMissesNone'
<1>1. BInv /\ Frame /\ AllMapped /\ Ahead(t) /\ Shape(t) /\ count \in Nat
  BY Within DEF FInv, BInv
<1>2. SUFFICES ASSUME NEW x \in Thread, Returned(x, "find")', there'[x]
               PROVE  res'[x] # nullptr
  BY DEF FindMissesNone, nullptr
<1>3. pc'[x] = "idle" /\ call'[x] # None /\ call'[x][1] = "find"
  BY <1>2 DEF Returned, At, Op
<1>4. CASE x # t
  <2>1. /\ pc[x] = "idle" /\ call'[x] = call[x] /\ res'[x] = res[x] /\ there[x]
    BY <1>1, <1>2, <1>3, <1>4, Others
  <2> QED
    BY <1>3, <2>1 DEF FInv, FindMissesNone, Returned, At, Op
<1>5. CASE x = t
  <2>1. CASE FindHit(t)
    <3>1. res'[t] = Object(seg[t])
      BY <1>1, <2>1 DEF FindHit, Return, Frame
    <3> QED
      BY <1>5, <3>1 DEF Object, nullptr
  <2>2. CASE FindMiss(t)
    <3>1. pc[t] = "finding" /\ there[t] /\ ~(seg[t] <= Here(t))
      BY <1>2, <1>5, <2>2 DEF FindMiss, At, More
    <3>2. PICK i \in seg[t]..count : name(t) \in index[i]
      BY <1>1, <3>1 DEF Ahead
    <3>3. Here(t) = count /\ seg[t] \in Int
      BY <1>1, Within DEF Here, AllMapped
    <3> QED
      BY <1>1, <3>1, <3>2, <3>3
  <2>3. CASE ~FindHit(t) /\ ~FindMiss(t)
    <3>1. /\ pc[t] \in Making \cup {"destroying"} /\ call' = call
      BY <1>1, <1>3, <1>5, <2>3 DEF Step, Call, BeginScan, DestroyHit, DestroyNext, DestroyMiss,
           FindNext, TryHit, TryNext, TryMiss, GrowLock, GrowSkip, GrowNeeded, GrowAdd,
           GrowRefused, BackHit, BackMiss, Made, Finish, Return, Skip, GoTo, At, Frame, Making
    <3> QED
      BY <1>1, <1>3, <1>5, <3>1 DEF Shape, Op
  <2> QED
    BY <2>1, <2>2, <2>3
<1> QED
  BY <1>4, <1>5

\* Variables keep their types, no sub-segment holds more objects than fit into
\* it, and none is used before grow has added it.
THEOREM TypeCorrect == Spec => []TypeOK
<1>1. BInv => TypeOK
  BY DEF BInv, IndexOK, Frame, TypeOK
<1> QED
  BY <1>1, BInvInit, BInvStep, PTL DEF Spec

\* In one process find returns nullptr only if at some moment since its call
\* there was no object of the name, however construct, destroy and grow of
\* other threads interleave with its scan.
THEOREM FindIsComplete == ASSUME SingleProcess PROVE Spec => []FindMissesNone
<1>1. Init => FInv
  <2>1. SUFFICES ASSUME Init PROVE FInv
    OBVIOUS
  <2>2. AllMapped
    BY <2>1 DEF Init, AllMapped
  <2>3. \A t \in Thread : Ahead(t)
    BY <2>1 DEF Init, Ahead
  <2>4. FindMissesNone
    BY <2>1 DEF Init, FindMissesNone, Returned
  <2> QED
    BY <2>1, <2>2, <2>3, <2>4, BInvInit DEF FInv
<1>2. FInv /\ [Next]_vars => FInv'
  <2>1. SUFFICES ASSUME FInv, [Next]_vars PROVE FInv'
    OBVIOUS
  <2>2. BInv' /\ AllMapped'
    BY <2>1, BInvStep, MappedKept DEF FInv
  <2>3. CASE UNCHANGED vars
    <3>1. (\A t \in Thread : Ahead(t)') /\ FindMissesNone'
      BY <2>1, <2>3 DEF FInv, Ahead, FindMissesNone, Returned, name, Op, At, vars
    <3> QED
      BY <2>2, <3>1 DEF FInv
  <2>4. CASE Next
    <3>1. PICK t \in Thread : Step(t) \/ (\E u \in Uses[t] : Call(t, u))
      BY <2>4 DEF Next
    <3> QED
      BY <2>1, <2>2, <3>1, AheadKept, MissKept DEF FInv
  <2> QED
    BY <2>1, <2>3, <2>4
<1>3. FInv => FindMissesNone
  BY DEF FInv
<1> QED
  BY <1>1, <1>2, <1>3, PTL DEF Spec

----------------------------------------------------------------------------
(* Unique names.                                                           *)

\* A misused name stays so.
LEMMA MisusedStays ==
  ASSUME [Next]_vars PROVE misused \subseteq misused'
BY DEF Next, vars, Step, Call, BeginScan, FindHit, FindNext, FindMiss, DestroyHit, DestroyNext,
   DestroyMiss, TryHit, TryNext, TryMiss, GrowLock, GrowSkip, GrowNeeded, GrowAdd, GrowRefused,
   BackHit, BackMiss, Skip, Misuse

\* A thread comes to make a name with a construct, or with a find_or_construct
\* that has not found it. The name is misused if another thread makes it, and
\* if construct asks for one that exists.
LEMMA Begins ==
  ASSUME BInv, NEW t \in Thread, Step(t) \/ (\E u \in Uses[t] : Call(t, u)),
         pc'[t] \in Making, ~(pc[t] \in Making /\ index' = index /\ name(t)' = name(t))
  PROVE  /\ index' = index
         /\ \A x \in Thread \ {t} : Solo(t, x)'
         /\ \/ FindMiss(t) /\ Op(t) = "find_or_construct"
            \/ name(t)' \notin misused' => \A i \in 1..Len(Capacity) : name(t)' \notin index'[i]
<1>1. Frame /\ IndexOK /\ count \in Nat /\ Len(Capacity) \in Nat
  BY Within
<1>2. \A x \in Thread \ {t} : pc'[x] = pc[x] /\ name(x)' = name(x)
  BY Others DEF name
<1>3. CASE \E u \in Uses[t] : Call(t, u)
  <2>1. PICK u \in Uses[t] : Call(t, u)
    BY <1>3
  <2>2. /\ call'[t] = u /\ name(t)' = u[2] /\ index' = index
        /\ u[1] = "construct"
    BY <1>1, <2>1 DEF Call, GoTo, Frame, Making, name
  <2>3. Exists(u[2]) \/ OthersMake(t, u[2]) => u[2] \in misused'
    BY <2>1, <2>2 DEF Call, Misuse
  <2>4. ASSUME NEW x \in Thread \ {t} PROVE Solo(t, x)'
    BY <1>2, <2>2, <2>3 DEF Solo, OthersMake
  <2>5. ASSUME u[2] \notin misused', NEW i \in 1..Len(Capacity) PROVE u[2] \notin index[i]
    <3>1. CASE i \in 1..count
      BY <2>3, <2>5, <3>1 DEF Exists
    <3>2. CASE i > count
      BY <1>1, <3>2 DEF IndexOK
    <3> QED
      BY <1>1, <3>1, <3>2
  <2> QED
    BY <2>2, <2>4, <2>5
<1>4. CASE FindMiss(t)
  <2>1. pc[t] = "finding" /\ Op(t) = "find_or_construct"
    <3>1. pc[t] = "finding" /\ Op(t) # "find"
      BY <1>1, <1>4 DEF FindMiss, At, Return, GoTo, Frame, Making
    <3> QED
      BY <3>1 DEF BInv, Shape
  <2>2. name(t)' = name(t) /\ index' = index
    BY <1>4 DEF FindMiss, name
  <2>3. OthersMake(t, name(t)) => name(t) \in misused'
    BY <1>4, <2>1 DEF FindMiss, Misuse
  <2>4. ASSUME NEW x \in Thread \ {t} PROVE Solo(t, x)'
    BY <1>2, <2>2, <2>3 DEF Solo, OthersMake
  <2> QED
    BY <1>4, <2>1, <2>2, <2>4
<1>5. CASE ~(\E u \in Uses[t] : Call(t, u)) /\ ~FindMiss(t)
  <2>1. call' = call /\ (pc'[t] \in Making => pc[t] \in Making /\ index' = index)
    BY <1>1, <1>5 DEF Step, BeginScan, FindHit, FindNext, DestroyHit, DestroyNext, DestroyMiss,
         TryHit, TryNext, TryMiss, GrowLock, GrowSkip, GrowNeeded, GrowAdd, GrowRefused,
         BackHit, BackMiss, Made, Finish, Return, Skip, GoTo, At, Frame, Making
  <2> QED
    BY <2>1 DEF name
<1> QED
  BY <1>3, <1>4, <1>5

\* No two threads come to make one name that is not misused.
LEMMA SoloKept ==
  ASSUME UInv, NEW t \in Thread, Step(t) \/ (\E u \in Uses[t] : Call(t, u)),
         NEW x \in Thread, NEW y \in Thread \ {x}
  PROVE  Solo(x, y)'
<1>1. BInv /\ Solo(x, y) /\ misused \subseteq misused'
  BY MisusedStays DEF UInv, Next
<1>2. \A z \in Thread \ {t} : pc'[z] = pc[z] /\ name(z)' = name(z)
  BY <1>1, Others DEF name
<1>3. ASSUME pc'[t] \in Making, ~(pc[t] \in Making /\ name(t)' = name(t))
      PROVE  Solo(x, y)'
  <2>1. \A z \in Thread \ {t} : Solo(t, z)'
    BY <1>1, <1>3, Begins
  <2> QED
    BY <1>1, <1>2, <2>1 DEF Solo
<1>4. CASE pc'[t] \in Making => pc[t] \in Making /\ name(t)' = name(t)
  BY <1>1, <1>2, <1>4 DEF Solo
<1> QED
  BY <1>3, <1>4

\* The name of a maker stays absent until the maker makes it: a search holds
\* list_mtx_, without which nobody makes anything.
LEMMA AbsentKept ==
  ASSUME UInv, SingleProcess, NEW t \in Thread, Step(t) \/ (\E u \in Uses[t] : Call(t, u)),
         NEW x \in Thread
  PROVE  Absent(x)'
<1>1. /\ BInv /\ Frame /\ AllMapped /\ Absent(x) /\ count \in Nat /\ count <= Len(Capacity)
      /\ index \in [1..Len(Capacity) -> SUBSET Name] /\ misused \subseteq misused'
  BY Within, MisusedStays DEF UInv, Frame, IndexOK, Next
<1>2. CASE x # t
  <2>1. pc'[x] = pc[x] /\ seg'[x] = seg[x] /\ call'[x] = call[x]
    BY <1>1, <1>2, Others
  <2>2. ASSUME pc[x] = "finding" \/ (pc[x] \in Making /\ name(x) \notin misused'),
               NEW i \in 1..Len(Capacity), name(x) \notin index[i]
        PROVE  name(x) \notin index'[i]
    <3>1. ASSUME NEW j \in 1..count, Adds(t, j) PROVE name(x) \notin index'[i]
      <4>1. pc[x] \in Making /\ name(x) \notin misused
        <5>1. pc[x] = "finding" => list_mtx[Of[x]] = x
          BY <1>1 DEF BInv, Shape, Scanning
        <5>2. Of[x] = Of[t] /\ x # None
          BY NamedObjectsAssumption DEF SingleProcess
        <5>3. pc[x] # "finding"
          BY <1>2, <3>1, <5>1, <5>2 DEF Adds
        <5> QED
          BY <1>1, <2>2, <5>3
      <4>2. name(x) # name(t)
        BY <1>1, <1>2, <3>1, <4>1 DEF Adds, UInv, Solo
      <4> QED
        BY <1>1, <2>2, <3>1, <4>2 DEF Adds
    <3>2. ASSUME NEW j \in 1..count, Removes(t, j) PROVE name(x) \notin index'[i]
      BY <1>1, <2>2, <3>2 DEF Removes
    <3> QED
      BY <1>1, <2>2, <3>1, <3>2, IndexChanges
  <2>3. name(x)' = name(x) /\ Op(x)' = Op(x)
    BY <2>1 DEF Op, name
  <2> QED
    BY <1>1, <2>1, <2>2, <2>3 DEF Absent
<1>3. CASE x = t
  <2>1. ASSUME pc'[t] = "finding", Op(t)' = "find_or_construct",
               NEW i \in 1..Len(Capacity), i < seg'[t]
        PROVE  name(t)' \notin index'[i]
    <3>1. CASE BeginScan(t)
      BY <1>1, <2>1, <3>1 DEF BeginScan, Frame
    <3>2. CASE FindNext(t)
      <4>1. /\ pc[t] = "finding" /\ name(t) \notin index[seg[t]] /\ seg'[t] = seg[t] + 1
            /\ UNCHANGED <<index, call, pc>>
        BY <1>1, <3>2 DEF FindNext, Skip, At, Frame
      <4>2. i < seg[t] \/ i = seg[t]
        BY <1>1, <2>1, <4>1, Within
      <4> QED
        BY <1>1, <1>3, <2>1, <4>1, <4>2 DEF Absent, Op, name
    <3>3. CASE ~BeginScan(t) /\ ~FindNext(t)
      <4>1. pc'[t] # "finding"
        BY <1>1, <3>3 DEF Step, Call, FindHit, FindMiss, DestroyHit, DestroyNext, DestroyMiss,
             TryHit, TryNext, TryMiss, GrowLock, GrowSkip, GrowNeeded, GrowAdd, GrowRefused,
             BackHit, BackMiss, Made, Finish, Return, Skip, GoTo, At, Frame
      <4> QED
        BY <2>1, <4>1
    <3> QED
      BY <3>1, <3>2, <3>3
  <2>2. ASSUME pc'[t] \in Making, name(t)' \notin misused', NEW i \in 1..Len(Capacity)
        PROVE  name(t)' \notin index'[i]
    <3>1. CASE pc[t] \in Making /\ index' = index /\ name(t)' = name(t)
      BY <1>1, <1>3, <2>2, <3>1 DEF Absent
    <3>2. CASE FindMiss(t) /\ Op(t) = "find_or_construct"
      <4>1. /\ pc[t] = "finding" /\ ~(seg[t] <= Here(t)) /\ UNCHANGED <<index, call>>
        BY <1>1, <3>2 DEF FindMiss, At, More
      <4>2. Here(t) = count /\ seg[t] \in Int
        BY <1>1, Within DEF Here, AllMapped
      <4>3. CASE i <= count
        BY <1>1, <1>3, <3>2, <4>1, <4>2, <4>3 DEF Absent, name
      <4>4. CASE i > count
        BY <1>1, <4>1, <4>4 DEF BInv, IndexOK
      <4> QED
        BY <1>1, <4>3, <4>4
    <3> QED
      BY <1>1, <2>2, <3>1, <3>2, Begins
  <2> QED
    BY <1>3, <2>1, <2>2 DEF Absent
<1> QED
  BY <1>2, <1>3

\* No step makes a second object of a name that is not misused.
LEMMA UniqueKept ==
  ASSUME UInv, NEW t \in Thread, Step(t) \/ (\E u \in Uses[t] : Call(t, u))
  PROVE  UniqueNames'
<1>1. /\ BInv /\ Frame /\ Absent(t) /\ count \in Nat /\ count <= Len(Capacity)
      /\ index \in [1..Len(Capacity) -> SUBSET Name] /\ UniqueNames /\ Len(Capacity) \in Nat
      /\ misused \subseteq misused'
  BY Within, MisusedStays DEF UInv, Frame, IndexOK, Next
<1>2. CASE index' = index
  <2>1. ASSUME NEW i \in 1..count', NEW n \in index[i] PROVE i \in 1..count
    <3>1. CASE i > count
      <4>1. count' \in 1..Len(Capacity)
        BY <1>1, BInvStep DEF Next, BInv, Frame
      <4> QED
        BY <1>1, <3>1, <4>1 DEF BInv, IndexOK
    <3> QED
      BY <1>1, <3>1, IndexChanges
  <2> QED
    BY <1>1, <1>2, <2>1 DEF UniqueNames, AtMostOne
<1>3. ASSUME NEW k \in 1..count, Removes(t, k), count' = count PROVE UniqueNames'
  <2>1. \A i \in 1..count : index'[i] \subseteq index[i]
    BY <1>1, <1>3 DEF Removes
  <2> QED
    BY <1>1, <1>3, <2>1 DEF UniqueNames, AtMostOne
<1>4. ASSUME NEW k \in 1..count, Adds(t, k), count' = count PROVE UniqueNames'
  <2>1. name(t) \notin misused => \A i \in 1..Len(Capacity) : name(t) \notin index[i]
    BY <1>1, <1>4 DEF Adds, Absent
  <2>2. ASSUME NEW i \in 1..count, NEW n, n \in index'[i]
        PROVE  n \in index[i] \/ (i = k /\ n = name(t))
    <3>1. i \in 1..Len(Capacity)
      BY <1>1
    <3> QED
      BY <1>1, <1>4, <2>2, <3>1 DEF Adds
  <2>3. SUFFICES ASSUME NEW n \in Name \ misused', NEW i \in 1..count, NEW j \in 1..count,
                        n \in index'[i], n \in index'[j]
                 PROVE  i = j
    BY <1>4 DEF UniqueNames, AtMostOne
  <2>4. CASE n = name(t)
    <3>1. i \in 1..Len(Capacity) /\ j \in 1..Len(Capacity) /\ name(t) \notin misused
      BY <1>1, <2>3, <2>4
    <3>2. i = k
      BY <2>1, <2>2, <2>3, <2>4, <3>1
    <3>3. j = k
      BY <2>1, <2>2, <2>3, <2>4, <3>1
    <3> QED
      BY <3>2, <3>3
  <2>5. CASE n # name(t)
    <3>1. n \in index[i] /\ n \in index[j]
      BY <2>2, <2>3, <2>5
    <3> QED
      BY <1>1, <3>1 DEF UniqueNames, AtMostOne
  <2> QED
    BY <2>4, <2>5
<1>5. CASE index' # index
  <2>1. count' = count
    BY <1>1, <1>5, IndexChanges
  <2> QED
    BY <1>1, <1>3, <1>4, <1>5, <2>1, IndexChanges
<1> QED
  BY <1>2, <1>5

\* In one process a second object of a name is made in no other way than by a
\* construct of a name that exists or is being made, or by a find_or_construct
\* whose search ends in vain while another thread makes the name: whatever the
\* threads call, and however the memory grows meanwhile.
THEOREM NamesAreUnique == ASSUME SingleProcess PROVE Spec => []UniqueNames
<1>1. Init => UInv
  <2>1. SUFFICES ASSUME Init PROVE UInv
    OBVIOUS
  <2>2. AllMapped
    BY <2>1 DEF Init, AllMapped
  <2>3. \A t \in Thread : Absent(t) /\ \A x \in Thread \ {t} : Solo(t, x)
    BY <2>1 DEF Init, Absent, Solo, Making
  <2>4. UniqueNames
    BY <2>1 DEF Init, UniqueNames, AtMostOne
  <2> QED
    BY <2>1, <2>2, <2>3, <2>4, BInvInit DEF UInv
<1>2. UInv /\ [Next]_vars => UInv'
  <2>1. SUFFICES ASSUME UInv, [Next]_vars PROVE UInv'
    OBVIOUS
  <2>2. BInv' /\ AllMapped'
    BY <2>1, BInvStep, MappedKept DEF UInv
  <2>3. CASE UNCHANGED vars
    <3>1. UniqueNames' /\ \A t \in Thread : Absent(t)'
      BY <2>1, <2>3 DEF UInv, Absent, UniqueNames, AtMostOne, name, Op, vars
    <3>2. \A t \in Thread : \A x \in Thread \ {t} : Solo(t, x)'
      BY <2>1, <2>3 DEF UInv, Solo, name, vars
    <3> QED
      BY <2>2, <3>1, <3>2 DEF UInv
  <2>4. CASE Next
    <3>1. PICK t \in Thread : Step(t) \/ (\E u \in Uses[t] : Call(t, u))
      BY <2>4 DEF Next
    <3> QED
      BY <2>1, <2>2, <3>1, AbsentKept, SoloKept, UniqueKept DEF UInv
  <2> QED
    BY <2>1, <2>3, <2>4
<1>3. UInv => UniqueNames
  BY DEF UInv
<1> QED
  BY <1>1, <1>2, <1>3, PTL DEF Spec

====
