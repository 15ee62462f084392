----------------------------- MODULE EvictPool -----------------------------
(***************************************************************************)
(* evict.Pool (pkg/providerfw/middleware/cancel/evict/pool.go): a set of   *)
(* values kept in reusable slots, each returned to its user as a Handle    *)
(* that names the slot and the slot's revision.                            *)
(*                                                                         *)
(* Insert and Evict hold the pool's mutex for their whole body and are one *)
(* step each.  Close also holds it, but calls OnEvict once per slot and    *)
(* what OnEvict does is visible to other goroutines at once, so each       *)
(* iteration of its loop is a step.  A handle may be evicted again, late,  *)
(* or after its slot has a new tenant.                                     *)
(***************************************************************************)
EXTENDS Naturals, Sequences

CONSTANTS
  Values,       \* what users insert, each once
  Closers,      \* the callers of Close
  Nobody        \* no caller is inside Close

ASSUME NobodyAssumption == Nobody \notin Closers

VARIABLES
  entries,      \* Pool.entries: the slots
  emptyEntries, \* Pool.emptyEntries: the free list, a stack of slot indexes
  closed,       \* Pool.closed
  closing,      \* the caller inside Close, who holds the mutex, or Nobody
  closeIdx,     \* the slot Close's loop looks at next
  handle,       \* the Handle that Insert returned for each value
  evictions     \* history: how often OnEvict was called with each value

slotVars == <<entries, emptyEntries, evictions>>
closeVars == <<closed, closing, closeIdx>>
poolVars == <<slotVars, closeVars, handle>>

Entry == [revision : Nat, empty : BOOLEAN, value : Values]
Handle == [idx : Nat, revision : Nat]
NoHandle == [idx |-> 0, revision |-> 0]

PoolTypeOK ==
  /\ entries \in Seq(Entry)
  /\ emptyEntries \in Seq(Nat)
  /\ closed \in BOOLEAN
  /\ closing \in Closers \cup {Nobody}
  /\ closeIdx \in Nat
  /\ handle \in [Values -> Handle]
  /\ evictions \in [Values -> Nat]

PoolInit ==
  /\ entries = <<>>
  /\ emptyEntries = <<>>
  /\ closed = FALSE
  /\ closing = Nobody
  /\ closeIdx = 1
  /\ handle = [v \in Values |-> NoHandle]
  /\ evictions = [v \in Values |-> 0]

Inserted(v) == handle[v].idx > 0

-----------------------------------------------------------------------------
(* Fault the properties are checked against: the slot's empty flag is not  *)
(* looked at.                                                              *)
FaultHasEmpty(h) == entries[h.idx].revision = h.revision

(* entry.has: the slot still holds what the handle was returned for. *)
Has(h) == ~entries[h.idx].empty /\ entries[h.idx].revision = h.revision

(* Faults: the slot keeps its revision; the revision goes back.            *)
FaultMarkEmptyKeep(es, i) ==
  [es EXCEPT ![i] = [revision |-> @.revision, empty |-> TRUE, value |-> @.value]]

(* entry.markEmpty: the slot's next tenant will have a new revision. *)
MarkEmpty(es, i) ==
  [es EXCEPT ![i] = [revision |-> @.revision + 1, empty |-> TRUE, value |-> @.value]]

(* Handle.threadUnsafeEvict *)
ThreadUnsafeEvict(h) ==
  IF Has(h)
  THEN /\ evictions' = [evictions EXCEPT ![entries[h.idx].value] = @ + 1]
       /\ entries' = MarkEmpty(entries, h.idx)
       /\ emptyEntries' = Append(emptyEntries, h.idx)
  ELSE UNCHANGED slotVars

(* Faults: the free list is not popped; the handle always has the revision *)
(* of a fresh slot; a closed pool keeps what is inserted; the handle names *)
(* the first slot.                                                         *)
FaultPlaceNoPop(v, i, es, free) ==
  /\ handle' = [handle EXCEPT ![v] = [idx |-> i, revision |-> es[i].revision]]
  /\ entries' = es
  /\ UNCHANGED <<evictions, emptyEntries>>

FaultPlaceFreshRevision(v, i, es, free) ==
  /\ handle' = [handle EXCEPT ![v] = [idx |-> i, revision |-> 0]]
  /\ entries' = es
  /\ emptyEntries' = free
  /\ UNCHANGED evictions

FaultPlaceIgnoringClosed(v, i, es, free) ==
  /\ handle' = [handle EXCEPT ![v] = [idx |-> i, revision |-> es[i].revision]]
  /\ entries' = es
  /\ emptyEntries' = free
  /\ UNCHANGED evictions

FaultPlaceSlotOne(v, i, es, free) ==
  /\ handle' = [handle EXCEPT ![v] = [idx |-> 1, revision |-> es[i].revision]]
  /\ entries' = es
  /\ emptyEntries' = free
  /\ UNCHANGED evictions

(* The rest of Insert once the slot i is chosen, the slots are es and the  *)
(* free list is free: the handle is returned, and if the pool is closed it *)
(* is evicted on the way out.                                              *)
Place(v, i, es, free) ==
  /\ handle' = [handle EXCEPT ![v] = [idx |-> i, revision |-> es[i].revision]]
  /\ \/ /\ ~closed
        /\ entries' = es
        /\ emptyEntries' = free
        /\ UNCHANGED evictions
     \/ /\ closed
        /\ entries' = MarkEmpty(es, i)
        /\ emptyEntries' = Append(free, i)
        /\ evictions' = [evictions EXCEPT ![v] = @ + 1]

(* Insert when the free list has a slot: its last one is reused. *)
InsertReuse(v) ==
  LET l == Len(emptyEntries)
      i == emptyEntries[l]
  IN /\ l > 0
     /\ Place(v, i,
              [entries EXCEPT ![i] = [revision |-> @.revision, empty |-> FALSE, value |-> v]],
              SubSeq(emptyEntries, 1, l - 1))

(* Insert when it has none: a slot is appended. *)
InsertNew(v) ==
  /\ emptyEntries = <<>>
  /\ Place(v, Len(entries) + 1,
           Append(entries, [revision |-> 0, empty |-> FALSE, value |-> v]),
           emptyEntries)

PoolInsert(v) ==
  /\ closing = Nobody
  /\ ~Inserted(v)
  /\ InsertReuse(v) \/ InsertNew(v)
  /\ UNCHANGED closeVars

(* Handle.Evict *)
PoolEvict(v) ==
  /\ closing = Nobody
  /\ Inserted(v)
  /\ ThreadUnsafeEvict(handle[v])
  /\ UNCHANGED <<closeVars, handle>>

CloseStart(c) ==
  /\ closing = Nobody
  /\ closed' = TRUE
  /\ closing' = c
  /\ closeIdx' = 1
  /\ UNCHANGED <<slotVars, handle>>

(* One iteration of Close: a handle made from the slot itself is evicted.  *)
CloseSlot(c) ==
  /\ closing = c
  /\ closeIdx <= Len(entries)
  /\ ThreadUnsafeEvict([idx |-> closeIdx, revision |-> entries[closeIdx].revision])
  /\ closeIdx' = closeIdx + 1
  /\ UNCHANGED <<closed, closing, handle>>

(* Fault: the loop stops one slot early. *)
FaultCloseFinishEarly(c) ==
  /\ closing = c
  /\ closeIdx >= Len(entries)
  /\ closing' = Nobody
  /\ UNCHANGED <<slotVars, closed, closeIdx, handle>>

CloseFinish(c) ==
  /\ closing = c
  /\ closeIdx > Len(entries)
  /\ closing' = Nobody
  /\ UNCHANGED <<slotVars, closed, closeIdx, handle>>

-----------------------------------------------------------------------------
PoolNext ==
  \/ \E v \in Values : PoolInsert(v) \/ PoolEvict(v)
  \/ \E c \in Closers : CloseStart(c) \/ CloseSlot(c) \/ CloseFinish(c)

PoolSpec == PoolInit /\ [][PoolNext]_poolVars

-----------------------------------------------------------------------------
(* Properties *)

(* The free list is exactly the set of empty slots, each once: what the    *)
(* assertion "emptyEntries must contain only evicted slots" in Insert      *)
(* (pool.go:103) and the reuse of cells rest on.                           *)
FreeListExact ==
  /\ \A i \in 1..Len(emptyEntries) :
       /\ emptyEntries[i] \in 1..Len(entries)
       /\ entries[emptyEntries[i]].empty
  /\ \A i, j \in 1..Len(emptyEntries) :
       emptyEntries[i] = emptyEntries[j] => i = j
  /\ \A s \in 1..Len(entries) :
       entries[s].empty => \E i \in 1..Len(emptyEntries) : emptyEntries[i] = s

(* OnEvict is never called twice with one value, however Close, late and   *)
(* repeated Evicts and the reuse of the slot interleave (pool_test.go:32   *)
(* and 60 assert it of two schedules).                                     *)
EvictedAtMostOnce == \A v \in Values : evictions[v] <= 1

(* Every tenant can still be reached by its own handle: an occupied slot   *)
(* names a value whose handle is for this slot and this revision, so no    *)
(* value is stranded in the pool.                                          *)
TenantHasItsHandle ==
  \A s \in 1..Len(entries) :
    ~entries[s].empty =>
      handle[entries[s].value] = [idx |-> s, revision |-> entries[s].revision]

(* A handle reaches its own value or nothing.  Slots are reused, so this   *)
(* rests on the revision: a handle kept beyond the life of its value must  *)
(* not evict the slot's next tenant.                                       *)
HandleReachesOnlyOwn ==
  \A v \in Values :
    Inserted(v) /\ Has(handle[v]) => entries[handle[v].idx].value = v

(* The slots, revisions and free list together implement DrainSet. *)
Abstract == INSTANCE DrainSet WITH
  held <- {v \in Values : Inserted(v) /\ evictions[v] = 0},
  gone <- {v \in Values : evictions[v] > 0},
  shut <- closed,
  draining <- closing # Nobody

ImplementsDrainSet == Abstract!Spec
=============================================================================
