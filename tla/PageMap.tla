---- MODULE PageMap ----
(***************************************************************************)
(* What ncrit_trie promises to its callers: a map from page numbers to     *)
(* values on which insertions, removals and lookups of single pages by any *)
(* number of threads take effect at one moment each, between the call and  *)
(* the return. An insertion may be given up for want of memory.            *)
(***************************************************************************)
CONSTANTS Threads, Pages, Values,
          OomMayHappen,   \* whether an insertion may find no memory
          Null            \* no value, no call

VARIABLES map,    \* map[pg]: the value of page pg, or Null
          call,   \* call[t]: the operation t is executing, or Null
          ret     \* ret[t]: what the last lookup of t returned

vars == <<map, call, ret>>

Request == [op : {"insert"}, pg : Pages, val : Values]
             \cup [op : {"clear", "lookup"}, pg : Pages, val : {Null}]

Init ==
  /\ map = [pg \in Pages |-> Null]
  /\ call = [t \in Threads |-> Null]
  /\ ret = [t \in Threads |-> Null]

Call(t) ==
  /\ call[t] = Null
  /\ \E r \in Request : call' = [call EXCEPT ![t] = r]
  /\ UNCHANGED <<map, ret>>

\* The call of t is of this kind, and this step ends it.
Finish(t, op) ==
  /\ call[t] # Null /\ call[t].op = op
  /\ call' = [call EXCEPT ![t] = Null]

Insert(t) ==
  /\ Finish(t, "insert")
  /\ \/ map' = [map EXCEPT ![call[t].pg] = call[t].val]
     \/ OomMayHappen /\ UNCHANGED map
  /\ UNCHANGED ret

Clear(t) ==
  /\ Finish(t, "clear")
  /\ map' = [map EXCEPT ![call[t].pg] = Null]
  /\ UNCHANGED ret

Lookup(t) ==
  /\ Finish(t, "lookup")
  /\ ret' = [ret EXCEPT ![t] = map[call[t].pg]]
  /\ UNCHANGED map

Next == \E t \in Threads : Call(t) \/ Insert(t) \/ Clear(t) \/ Lookup(t)

Spec == Init /\ [][Next]_vars

====
