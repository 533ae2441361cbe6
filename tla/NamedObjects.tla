---- MODULE NamedObjects ----
(***************************************************************************)
(* The named objects of a segmented memory: construct, find, destroy and   *)
(* find_or_construct, called by threads of one or several processes. Each  *)
(* sub-segment has its own index of names (Boost's); the calls visit the   *)
(* indexes of the sub-segments their process has mapped, one at a time,    *)
(* under the process's list_mtx_. Space is counted in objects. One process *)
(* grows the memory (see SegmentManager for several).                      *)
(***************************************************************************)
EXTENDS Integers, Sequences, FiniteSets, FiniteSetsExt

CONSTANTS
  Thread,
  Of,         \* Of[t]: the process of thread t
  Name,
  Uses,       \* Uses[t]: the <<operation, name>> pairs thread t may call
  Capacity,   \* Capacity[i]: objects that fit into sub-segment i; bound: Len
  Padding,    \* the 1024 bytes construct adds to its request, in objects
  Allocates,  \* names of objects whose constructor allocates from the memory
  Frees,      \* names of objects whose destructor gives memory back
  MaxCalls,   \* bound: calls per thread
  None

Proc == {Of[t] : t \in Thread}
Operation == {"construct", "find", "destroy", "find_or_construct"}

ASSUME NamedObjectsAssumption ==
  /\ IsFiniteSet(Thread) /\ None \notin Thread
  /\ IsFiniteSet(Name) /\ Allocates \cup Frees \subseteq Name
  /\ Uses \in [Thread -> SUBSET (Operation \X Name)]
  /\ Capacity \in Seq(Nat) /\ Len(Capacity) > 0
  /\ Padding \in Nat /\ MaxCalls \in Nat

VARIABLES
  index,      \* index[i]: the names in sub-segment i
  count,      \* number of sub-segments
  known,      \* known[p]: how many of them process p has mapped
  list_mtx,   \* list_mtx[p]: the thread that holds it, or None
  grow_mtx,   \* the same for grow_mtx_
  pc,         \* pc[t]: program point
  call,       \* call[t]: the <<operation, name>> of t's current or last call
  seg,        \* seg[t]: the sub-segment t visits next
  res,        \* res[t]: what t's last call gave, or None
  calls,      \* calls[t]: calls t may still make
  there,      \* history: an object of the name has been there since t's call
  misused     \* history: names that were asked for as construct does not check

vars == <<index, count, known, list_mtx, grow_mtx, pc, call, seg, res, calls, there,
          misused>>

Init ==
  /\ index = [i \in 1..Len(Capacity) |-> {}]
  /\ count = 1
  /\ known = [p \in Proc |-> 1]
  /\ list_mtx = [p \in Proc |-> None]
  /\ grow_mtx = [p \in Proc |-> None]
  /\ pc = [t \in Thread |-> "idle"]
  /\ call = [t \in Thread |-> None]
  /\ seg = [t \in Thread |-> 1]
  /\ res = [t \in Thread |-> None]
  /\ calls = [t \in Thread |-> MaxCalls]
  /\ there = [t \in Thread |-> FALSE]
  /\ misused = {}

At(t, a) == pc[t] = a
GoTo(t, a) == pc' = [pc EXCEPT ![t] = a]
Op(t) == call[t][1]
name(t) == call[t][2]
Here(t) == known[Of[t]]    \* segments_.size() in t's process

\* An object of name n exists; another thread than t is past its search for n,
\* if it has one, and makes it.
Exists(n) == \E i \in 1..count : n \in index[i]
Making == {"construct", "constructing", "grow", "check", "add", "back"}
OthersMake(t, n) == \E x \in Thread \ {t} : pc[x] \in Making /\ name(x) = n

\* Name n is misused if `bad`.
Misuse(n, bad) == misused' = IF bad THEN misused \cup {n} ELSE misused

\* What a call gives: the object of the name in sub-segment i, nullptr (false
\* for destroy), or bad_alloc.
Object(i) == <<"object", i>>
nullptr == <<"nullptr">>
bad_alloc == <<"bad_alloc">>

\* The call ends with result r.
Return(t, r) ==
  /\ GoTo(t, "idle")
  /\ res' = [res EXCEPT ![t] = r]

Lock(t) == list_mtx[Of[t]] = None /\ list_mtx' = [list_mtx EXCEPT ![Of[t]] = t]
Unlock(t) == list_mtx' = [list_mtx EXCEPT ![Of[t]] = None]
ListFree(t) == list_mtx[Of[t]] = None

FreeIn(i) == Capacity[i] - Cardinality(index[i])
TotalFree(t) == MapThenSumSet(FreeIn, 1..Here(t))

----------------------------------------------------------------------------
(* find and destroy                                                        *)

\* construct asks for a new object, whatever there is. (Boost looks in each
\* sub-segment for itself.)
Call(t, u) ==
  /\ At(t, "idle") /\ u \in Uses[t] /\ calls[t] > 0
  /\ calls' = [calls EXCEPT ![t] = @ - 1]
  /\ call' = [call EXCEPT ![t] = u]
  /\ res' = [res EXCEPT ![t] = None]
  /\ there' = [there EXCEPT ![t] = Exists(u[2])]
  /\ Misuse(u[2], u[1] = "construct" /\ (Exists(u[2]) \/ OthersMake(t, u[2])))
  /\ GoTo(t, CASE u[1] = "construct" -> "construct"
              [] u[1] = "destroy"   -> "destroy"
              [] OTHER              -> "find")
  /\ UNCHANGED <<index, count, known, list_mtx, grow_mtx, seg>>

\* The three scans take list_mtx_ and begin with sub-segment 0.
BeginScan(t) ==
  /\ pc[t] \in {"find", "destroy", "construct"}
  /\ Lock(t)
  /\ seg' = [seg EXCEPT ![t] = 1]
  /\ GoTo(t, CASE At(t, "find")      -> "finding"
              [] At(t, "destroy")   -> "destroying"
              [] At(t, "construct") -> "constructing")
  /\ UNCHANGED <<index, count, known, grow_mtx, call, res, calls, there, misused>>

Skip(t) ==
  /\ seg' = [seg EXCEPT ![t] = @ + 1]
  /\ UNCHANGED <<index, count, known, list_mtx, grow_mtx, pc, call, res, calls, there, misused>>

\* Mutant: the last sub-segment is not searched.
More_OffByOne(t) == seg[t] < Here(t)

More(t) == seg[t] <= Here(t)

FindHit(t) ==
  /\ At(t, "finding") /\ More(t) /\ name(t) \in index[seg[t]]
  /\ Unlock(t)
  /\ Return(t, Object(seg[t]))
  /\ UNCHANGED <<index, count, known, grow_mtx, call, seg, calls, there, misused>>

FindNext(t) ==
  /\ At(t, "finding") /\ More(t) /\ name(t) \notin index[seg[t]]
  /\ Skip(t)

\* Not found: find returns nullptr, find_or_construct goes on to construct,
\* without list_mtx_ in between.
FindMiss(t) ==
  /\ At(t, "finding") /\ ~More(t)
  /\ Unlock(t)
  /\ IF Op(t) = "find" THEN Return(t, nullptr)
                       ELSE GoTo(t, "construct") /\ UNCHANGED res
  /\ Misuse(name(t), Op(t) = "find_or_construct" /\ OthersMake(t, name(t)))
  /\ UNCHANGED <<index, count, known, grow_mtx, call, seg, calls, there>>

\* Code of the object runs under list_mtx_. If it calls allocate or deallocate,
\* these lock list_mtx_ (a std::mutex) once more, and never return.
Finish(t, nested, r) ==
  IF nested
  THEN /\ list_mtx' = [list_mtx EXCEPT ![Of[t]] = t]
       /\ GoTo(t, "relock") /\ UNCHANGED res
  ELSE Unlock(t) /\ Return(t, r)

\* The first object of that name is destroyed.
DestroyHit(t) ==
  /\ At(t, "destroying") /\ More(t) /\ name(t) \in index[seg[t]]
  /\ index' = [index EXCEPT ![seg[t]] = @ \ {name(t)}]
  /\ Finish(t, name(t) \in Frees, Object(seg[t]))
  /\ there' = [u \in Thread |-> there[u] /\ name(u) # name(t)]
  /\ UNCHANGED <<count, known, grow_mtx, call, seg, calls, misused>>

DestroyNext(t) ==
  /\ At(t, "destroying") /\ More(t) /\ name(t) \notin index[seg[t]]
  /\ Skip(t)

DestroyMiss(t) ==
  /\ At(t, "destroying") /\ ~More(t)
  /\ Unlock(t)
  /\ Return(t, nullptr)
  /\ UNCHANGED <<index, count, known, grow_mtx, call, seg, calls, there, misused>>

----------------------------------------------------------------------------
(* construct                                                               *)

\* Boost's construct in sub-segment i: nullptr if i has the name, bad_alloc if
\* it is full.
Fits(t, i) == name(t) \notin index[i] /\ FreeIn(i) > 0

Made(t, i) ==
  /\ index' = [index EXCEPT ![i] = @ \cup {name(t)}]
  /\ Finish(t, name(t) \in Allocates, Object(i))

TryHit(t) ==
  /\ At(t, "constructing") /\ More(t) /\ Fits(t, seg[t])
  /\ Made(t, seg[t])
  /\ UNCHANGED <<count, known, grow_mtx, call, seg, calls, there, misused>>

TryNext(t) ==
  /\ At(t, "constructing") /\ More(t) /\ ~Fits(t, seg[t])
  /\ Skip(t)

\* Mutant: list_mtx_ is kept while the memory grows.
TryMiss_KeepLock(t) ==
  /\ At(t, "constructing") /\ ~More(t)
  /\ GoTo(t, "grow")
  /\ UNCHANGED <<index, count, known, list_mtx, grow_mtx, call, seg, res, calls, there, misused>>

TryMiss(t) ==
  /\ At(t, "constructing") /\ ~More(t)
  /\ Unlock(t)
  /\ GoTo(t, "grow")
  /\ UNCHANGED <<index, count, known, grow_mtx, call, seg, res, calls, there, misused>>

\* grow: one thread of the process at a time.
GrowLock(t) ==
  /\ At(t, "grow") /\ grow_mtx[Of[t]] = None
  /\ grow_mtx' = [grow_mtx EXCEPT ![Of[t]] = t]
  /\ GoTo(t, "check")
  /\ UNCHANGED <<index, count, known, list_mtx, call, seg, res, calls, there, misused>>

Leave(t) == grow_mtx' = [grow_mtx EXCEPT ![Of[t]] = None]

\* Enough is free in all sub-segments together: nothing is added.
GrowSkip(t) ==
  /\ At(t, "check") /\ ListFree(t) /\ TotalFree(t) >= 1 + Padding
  /\ Leave(t)
  /\ GoTo(t, "back")
  /\ UNCHANGED <<index, count, known, list_mtx, call, seg, res, calls, there, misused>>

GrowNeeded(t) ==
  /\ At(t, "check") /\ ListFree(t) /\ TotalFree(t) < 1 + Padding
  /\ GoTo(t, "add")
  /\ UNCHANGED <<index, count, known, list_mtx, grow_mtx, call, seg, res, calls, there, misused>>

GrowAdd(t) ==
  /\ At(t, "add") /\ ListFree(t) /\ count < Len(Capacity)
  /\ count' = count + 1
  /\ known' = [known EXCEPT ![Of[t]] = @ + 1]
  /\ Leave(t)
  /\ GoTo(t, "back")
  /\ UNCHANGED <<index, list_mtx, call, seg, res, calls, there, misused>>

\* The system gives no more.
GrowRefused(t) ==
  /\ At(t, "add") /\ count = Len(Capacity)
  /\ Leave(t)
  /\ Return(t, bad_alloc)
  /\ UNCHANGED <<index, count, known, list_mtx, call, seg, calls, there, misused>>

\* Mutant: the last sub-segment is tried without list_mtx_.
BackHit_NoLock(t) ==
  /\ At(t, "back") /\ Fits(t, Here(t))
  /\ index' = [index EXCEPT ![Here(t)] = @ \cup {name(t)}]
  /\ Return(t, Object(Here(t)))
  /\ UNCHANGED <<count, known, list_mtx, grow_mtx, call, seg, calls, there, misused>>

\* The last sub-segment is tried under list_mtx_, whether or not it is new.
BackHit(t) ==
  /\ At(t, "back") /\ ListFree(t) /\ Fits(t, Here(t))
  /\ Made(t, Here(t))
  /\ UNCHANGED <<count, known, grow_mtx, call, seg, calls, there, misused>>

BackMiss(t) ==
  /\ At(t, "back") /\ ListFree(t) /\ ~Fits(t, Here(t))
  /\ Return(t, IF name(t) \in index[Here(t)] THEN nullptr ELSE bad_alloc)
  /\ UNCHANGED <<index, count, known, list_mtx, grow_mtx, call, seg, calls, there, misused>>

Step(t) ==
  \/ BeginScan(t)
  \/ FindHit(t) \/ FindNext(t) \/ FindMiss(t)
  \/ DestroyHit(t) \/ DestroyNext(t) \/ DestroyMiss(t)
  \/ TryHit(t) \/ TryNext(t) \/ TryMiss(t)
  \/ GrowLock(t) \/ GrowSkip(t) \/ GrowNeeded(t) \/ GrowAdd(t) \/ GrowRefused(t)
  \/ BackHit(t) \/ BackMiss(t)

Next == \E t \in Thread : Step(t) \/ \E u \in Uses[t] : Call(t, u)

\* A thread inside a call runs on; calls are finitely many.
Fairness == \A t \in Thread : WF_vars(Step(t))

Spec == Init /\ [][Next]_vars /\ Fairness

----------------------------------------------------------------------------
(* Properties.                                                             *)

\* Variables keep their types, no sub-segment holds more objects than fit into
\* it, and none is used before it is added.
TypeOK ==
  /\ index \in [1..Len(Capacity) -> SUBSET Name]
  /\ \A i \in 1..Len(Capacity) : FreeIn(i) >= 0 /\ (i > count => index[i] = {})
  /\ count \in 1..Len(Capacity)
  /\ known \in [Proc -> 1..count]
  /\ list_mtx \in [Proc -> Thread \cup {None}]
  /\ grow_mtx \in [Proc -> Thread \cup {None}]
  /\ seg \in [Thread -> 1..(Len(Capacity) + 1)]
  /\ misused \subseteq Name

\* There is at most one object of name n: find and destroy, which stop at the
\* first sub-segment that answers, mean the same one.
AtMostOne(n) == \A i, j \in 1..count : n \in index[i] /\ n \in index[j] => i = j

\* A second object of a name is made in two ways only: construct is called for
\* a name that exists or is being made, or the search of a find_or_construct
\* ends in vain while another thread is making the name. In particular none is
\* made by a find_or_construct whose search ends before or after that, or by a
\* construct of a new name, however others destroy and the memory grows.
UniqueNames == \A n \in Name \ misused : AtMostOne(n)

\* "Returns nullptr if a named object with this name already exists": no call
\* of construct makes a second one.
OneObject == \A n \in Name : AtMostOne(n)

\* Every call returns: the scopes of list_mtx_ and grow_mtx_ in construct, grow
\* and the scans let no thread wait for itself or for each other.
CallsReturn == \A t \in Thread : pc[t] # "idle" ~> pc[t] = "idle"

\* t's last call was a u, and it has returned.
Returned(t, u) == At(t, "idle") /\ call[t] # None /\ Op(t) = u

\* find_or_construct gives all its callers the one object of the name.
AllGetOne ==
  \A t, u \in Thread :
    /\ Returned(t, "find_or_construct") /\ Returned(u, "find_or_construct")
    /\ name(t) = name(u)
    => res[t] = res[u] /\ res[t] # nullptr

\* In a process that has mapped every sub-segment, such as the only one, find
\* misses no object that exists from its call to its return, while other
\* threads construct, destroy and grow.
FindMissesNone ==
  \A t \in Thread : Returned(t, "find") /\ there[t] => res[t] # nullptr

====
