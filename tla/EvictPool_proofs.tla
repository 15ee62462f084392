-------------------------- MODULE EvictPool_proofs --------------------------
(***************************************************************************)
(* Proofs, for any set of values and any number of Close calls, that the   *)
(* eviction pool keeps its invariants and implements DrainSet.             *)
(*                                                                         *)
(* The inductive invariant ties each value to its handle.  As long as a    *)
(* value has not been evicted its handle names the slot that holds it, at  *)
(* the slot's present revision; once it has been evicted, the slot's       *)
(* revision has moved past the handle's and never comes back.              *)
(***************************************************************************)
EXTENDS EvictPool, SequenceTheorems, TLAPS

(* v is inside, and its handle reaches it. *)
Inside(v) ==
  /\ evictions[v] = 0
  /\ handle[v].idx \in 1..Len(entries)
  /\ Has(handle[v])
  /\ entries[handle[v].idx].value = v

(* v was inside, and its handle can reach nothing any more. *)
Outdated(v) ==
  /\ evictions[v] = 1
  /\ handle[v].idx \in 1..Len(entries)
  /\ handle[v].revision < entries[handle[v].idx].revision

HandleState ==
  \A v \in Values : \/ ~Inserted(v) /\ evictions[v] = 0
                    \/ Inserted(v) /\ Inside(v)
                    \/ Inserted(v) /\ Outdated(v)

(* The slots Close has passed stay empty until it is done. *)
ClosePrefixEmpty ==
  /\ closeIdx >= 1
  /\ closing # Nobody =>
       \A s \in 1..Len(entries) : s < closeIdx => entries[s].empty

IInv ==
  /\ PoolTypeOK
  /\ FreeListExact
  /\ HandleState
  /\ TenantHasItsHandle
  /\ ClosePrefixEmpty

-----------------------------------------------------------------------------
LEMMA InitInv == PoolInit => IInv
  <1> SUFFICES ASSUME PoolInit
               PROVE  IInv
    OBVIOUS
  <1> USE DEF PoolInit
  <1>1. NoHandle \in Handle /\ ~(NoHandle.idx > 0)
    BY DEF NoHandle, Handle
  <1>2. PoolTypeOK
    <2>1. entries \in Seq(Entry) /\ emptyEntries \in Seq(Nat)
      OBVIOUS
    <2>2. handle \in [Values -> Handle] /\ evictions \in [Values -> Nat]
      BY <1>1
    <2> QED
      BY <2>1, <2>2 DEF PoolTypeOK
  <1>3. /\ FreeListExact
        /\ TenantHasItsHandle
        /\ ClosePrefixEmpty
    <2>1. Len(entries) = 0 /\ Len(emptyEntries) = 0
      OBVIOUS
    <2> QED
      BY <2>1 DEF FreeListExact, TenantHasItsHandle, ClosePrefixEmpty
  <1>4. HandleState
    BY <1>1 DEF HandleState, Inserted
  <1> QED
    BY <1>2, <1>3, <1>4 DEF IInv

(* What markEmpty does to a sequence of slots. *)
LEMMA MarkEmptyLemma ==
  ASSUME NEW es \in Seq(Entry), NEW i \in 1..Len(es)
  PROVE  /\ MarkEmpty(es, i) \in Seq(Entry)
         /\ Len(MarkEmpty(es, i)) = Len(es)
         /\ MarkEmpty(es, i)[i].empty
         /\ MarkEmpty(es, i)[i].revision = es[i].revision + 1
         /\ \A j \in 1..Len(es) : j # i => MarkEmpty(es, i)[j] = es[j]
  <1> DEFINE e == [revision |-> es[i].revision + 1, empty |-> TRUE, value |-> es[i].value]
  <1>0. es[i] \in Entry
    OBVIOUS
  <1>1. e \in Entry
    BY <1>0 DEF Entry
  <1>2. MarkEmpty(es, i) = [es EXCEPT ![i] = e]
    BY DEF MarkEmpty
  <1>3. e.empty = TRUE /\ e.revision = es[i].revision + 1
    OBVIOUS
  <1> HIDE DEF e
  <1> QED
    BY <1>1, <1>2, <1>3

(* The free list fl is exact for the slots es. *)
FreeExact(es, fl) ==
  /\ \A j \in 1..Len(fl) : fl[j] \in 1..Len(es) /\ es[fl[j]].empty
  /\ \A j, k \in 1..Len(fl) : fl[j] = fl[k] => j = k
  /\ \A s \in 1..Len(es) : es[s].empty => \E j \in 1..Len(fl) : fl[j] = s

LEMMA FreeListExactDef == FreeListExact <=> FreeExact(entries, emptyEntries)
  BY DEF FreeListExact, FreeExact

(* Emptying an occupied slot and pushing its index keeps the list exact. *)
LEMMA PushFree ==
  ASSUME NEW es \in Seq(Entry), NEW i \in 1..Len(es), NEW f \in Seq(Nat),
         FreeExact(es, f), ~es[i].empty
  PROVE  FreeExact(MarkEmpty(es, i), Append(f, i))
  <1> DEFINE ms == MarkEmpty(es, i)
             g == Append(f, i)
             n == Len(f)
  <1>1. /\ Len(ms) = Len(es)
        /\ ms[i].empty
        /\ \A j \in 1..Len(es) : j # i => ms[j] = es[j]
    BY MarkEmptyLemma
  <1>2. n \in Nat /\ Len(es) \in Nat
    OBVIOUS
  <1>3. /\ Len(g) = n + 1
        /\ \A j \in 1..n : g[j] = f[j]
        /\ g[n+1] = i
    OBVIOUS
  <1>4. /\ \A j \in 1..n : f[j] \in 1..Len(es) /\ es[f[j]].empty
        /\ \A j, k \in 1..n : f[j] = f[k] => j = k
        /\ \A s \in 1..Len(es) : es[s].empty => \E j \in 1..n : f[j] = s
    BY DEF FreeExact
  <1>5. \A j \in 1..n : f[j] # i
    BY <1>4
  <1> HIDE DEF ms, g, n
  <1>6. \A j \in 1..n+1 : j \in 1..n \/ j = n+1
    BY <1>2
  <1>7. ASSUME NEW j \in 1..n+1
        PROVE  g[j] \in 1..Len(ms) /\ ms[g[j]].empty
    <2>1. CASE j \in 1..n
      <3>1. g[j] = f[j] /\ f[j] # i /\ f[j] \in 1..Len(es)
        BY <2>1, <1>3, <1>4, <1>5
      <3> QED
        BY <2>1, <3>1, <1>1, <1>4
    <2>2. CASE j = n+1
      BY <2>2, <1>1, <1>3
    <2> QED
      BY <1>6, <2>1, <2>2
  <1>8. \A j, k \in 1..n+1 : g[j] = g[k] => j = k
    BY <1>3, <1>4, <1>5, <1>6
  <1>9. ASSUME NEW s \in 1..Len(ms), ms[s].empty
        PROVE  \E j \in 1..n+1 : g[j] = s
    <2>1. CASE s = i
      BY <2>1, <1>2, <1>3
    <2>2. CASE s # i
      <3>1. PICK j \in 1..n : f[j] = s
        BY <2>2, <1>9, <1>1, <1>4
      <3> QED
        BY <3>1, <1>2, <1>3
    <2> QED
      BY <2>1, <2>2
  <1> QED
    BY <1>3, <1>7, <1>8, <1>9 DEF FreeExact, ms, g, n

(* Evicting a handle that names a slot preserves the part of the invariant *)
(* that speaks of slots, free list and handles.                            *)
LEMMA EvictPreserves ==
  ASSUME IInv, NEW h \in Handle, h.idx \in 1..Len(entries),
         ThreadUnsafeEvict(h), UNCHANGED handle
  PROVE  /\ entries' \in Seq(Entry)
         /\ emptyEntries' \in Seq(Nat)
         /\ evictions' \in [Values -> Nat]
         /\ Len(entries') = Len(entries)
         /\ \A s \in 1..Len(entries) : entries[s].empty => entries'[s].empty
         /\ Has(h) => entries'[h.idx].empty
         /\ FreeListExact'
         /\ HandleState'
         /\ TenantHasItsHandle'
  <1> USE DEF IInv, PoolTypeOK
  <1>1. CASE ~Has(h)
    <2>1. UNCHANGED <<entries, emptyEntries, evictions, handle>>
      BY <1>1 DEF ThreadUnsafeEvict, slotVars
    <2>2. FreeListExact' /\ TenantHasItsHandle'
      BY <2>1 DEF FreeListExact, TenantHasItsHandle
    <2>3. HandleState'
      BY <2>1 DEF HandleState, Inside, Outdated, Inserted, Has
    <2> QED
      BY <1>1, <2>1, <2>2, <2>3
  <1>2. CASE Has(h)
    <2> DEFINE i == h.idx
               w == entries[i].value
    <2>1. /\ entries' = MarkEmpty(entries, i)
          /\ emptyEntries' = Append(emptyEntries, i)
          /\ evictions' = [evictions EXCEPT ![w] = @ + 1]
      BY <1>2 DEF ThreadUnsafeEvict
    <2>2. /\ entries' \in Seq(Entry)
          /\ Len(entries') = Len(entries)
          /\ entries'[i].empty
          /\ entries'[i].revision = entries[i].revision + 1
          /\ \A j \in 1..Len(entries) : j # i => entries'[j] = entries[j]
      BY <2>1, MarkEmptyLemma
    <2>3. /\ w \in Values
          /\ ~entries[i].empty
          /\ entries[i].revision \in Nat
          /\ handle[w] = [idx |-> i, revision |-> entries[i].revision]
      <3>1. entries[i] \in Entry
        OBVIOUS
      <3>2. w \in Values /\ entries[i].revision \in Nat
        BY <3>1 DEF Entry
      <3> QED
        BY <1>2, <3>2 DEF Has, TenantHasItsHandle
    <2>4. evictions[w] = 0
      <3>1. handle[w].idx = i /\ handle[w].revision = entries[i].revision
        BY <2>3
      <3>2. ~Outdated(w) /\ Inserted(w)
        BY <3>1, <2>3 DEF Outdated, Inserted
      <3> QED
        BY <2>3, <3>2 DEF HandleState, Inside
    <2>5. FreeListExact'
      <3>1. FreeExact(entries, emptyEntries)
        BY FreeListExactDef
      <3>2. FreeExact(entries', emptyEntries')
        BY <2>1, <2>3, <3>1, PushFree
      <3> QED
        BY <3>2 DEF FreeExact, FreeListExact
    <2>6. HandleState'
      <3> SUFFICES ASSUME NEW v \in Values
                   PROVE  \/ ~Inserted(v)' /\ evictions'[v] = 0
                          \/ Inserted(v)' /\ Inside(v)'
                          \/ Inserted(v)' /\ Outdated(v)'
        BY DEF HandleState
      <3>0. /\ \/ ~Inserted(v) /\ evictions[v] = 0
               \/ Inserted(v) /\ Inside(v)
               \/ Inserted(v) /\ Outdated(v)
            /\ Inserted(v)' <=> Inserted(v)
            /\ handle[v].revision \in Nat
        BY DEF HandleState, Inserted, Handle
      <3>1. CASE v = w
        BY <3>1, <2>1, <2>2, <2>3, <2>4 DEF Inserted, Outdated, Handle
      <3>2. CASE v # w /\ Inside(v)
        <4>1. handle[v].idx # i
          BY <3>2 DEF Inside
        <4>2. /\ handle' = handle
              /\ evictions'[v] = 0
              /\ entries'[handle[v].idx] = entries[handle[v].idx]
              /\ handle[v].idx \in 1..Len(entries')
          BY <3>2, <4>1, <2>1, <2>2, <2>3 DEF Inside
        <4>3. Inside(v)'
          BY <3>2, <4>2 DEF Inside, Has
        <4>4. Inserted(v)
          BY <3>2 DEF Inside, Inserted
        <4> QED
          BY <3>0, <4>3, <4>4
      <3>3. CASE v # w /\ Outdated(v)
        <4>1. entries'[handle[v].idx].revision >= entries[handle[v].idx].revision
          <5>1. entries[handle[v].idx] \in Entry
            BY <3>3 DEF Outdated
          <5>2. entries[handle[v].idx].revision \in Nat
            BY <5>1 DEF Entry
          <5>3. CASE handle[v].idx = i
            BY <5>2, <5>3, <2>2
          <5>4. CASE handle[v].idx # i
            BY <3>3, <5>2, <5>4, <2>2 DEF Outdated
          <5> QED
            BY <5>3, <5>4
        <4>2. /\ entries[handle[v].idx].revision \in Nat
              /\ entries'[handle[v].idx].revision \in Nat
          <5>1. entries[handle[v].idx] \in Entry /\ entries'[handle[v].idx] \in Entry
            BY <3>3, <2>2 DEF Outdated
          <5> QED
            BY <5>1 DEF Entry
        <4>3. evictions'[v] = 1
          BY <3>3, <2>1, <2>3 DEF Outdated
        <4>4. Outdated(v)'
          BY <3>0, <3>3, <4>1, <4>2, <4>3, <2>2 DEF Outdated
        <4>5. Inserted(v)
          BY <3>3 DEF Outdated, Inserted
        <4> QED
          BY <3>0, <4>4, <4>5
      <3>4. CASE v # w /\ ~Inserted(v)
        BY <3>0, <3>4, <2>1 DEF Inside, Outdated
      <3> QED
        BY <3>0, <3>1, <3>2, <3>3, <3>4
    <2>7. TenantHasItsHandle'
      BY <2>2 DEF TenantHasItsHandle
    <2>8. \A s \in 1..Len(entries) : entries[s].empty => entries'[s].empty
      BY <2>2
    <2>9. emptyEntries' \in Seq(Nat) /\ evictions' \in [Values -> Nat]
      BY <2>1, <2>3
    <2> QED
      BY <2>2, <2>5, <2>6, <2>7, <2>8, <2>9
  <1> QED
    BY <1>1, <1>2

(* What Insert has chosen when it calls Place: an occupied slot i for v in *)
(* slots es, with a free list that is exact for them.                      *)
Chosen(v, i, es, free) ==
  /\ es \in Seq(Entry)
  /\ free \in Seq(Nat)
  /\ i \in 1..Len(es)
  /\ Len(entries) <= Len(es)
  /\ ~es[i].empty
  /\ es[i].value = v
  /\ \A s \in 1..Len(es) : s # i => s \in 1..Len(entries) /\ es[s] = entries[s]
  /\ i \in 1..Len(entries) => entries[i].empty /\ es[i].revision = entries[i].revision
  /\ FreeExact(es, free)

LEMMA ReuseChosen ==
  ASSUME IInv, NEW v \in Values, InsertReuse(v)
  PROVE  \E i, es, free : Chosen(v, i, es, free) /\ Place(v, i, es, free)
  <1> USE DEF IInv, PoolTypeOK
  <1> DEFINE n == Len(emptyEntries)
             i == emptyEntries[n]
             e == [revision |-> entries[i].revision, empty |-> FALSE, value |-> v]
             es == [entries EXCEPT ![i] = e]
             free == SubSeq(emptyEntries, 1, n - 1)
  <1>1. n \in Nat /\ n > 0 /\ Place(v, i, es, free)
    BY DEF InsertReuse
  <1>2. FreeExact(entries, emptyEntries)
    BY FreeListExactDef
  <1>3. i \in 1..Len(entries) /\ entries[i].empty
    <2>1. n \in 1..Len(emptyEntries)
      BY <1>1
    <2> QED
      BY <2>1, <1>2 DEF FreeExact
  <1>4. entries[i] \in Entry
    BY <1>3
  <1>5. e \in Entry /\ e.revision = entries[i].revision /\ e.value = v /\ ~e.empty
    BY <1>4 DEF Entry
  <1>6. /\ free \in Seq(Nat)
        /\ Len(free) = n - 1
        /\ \A j \in 1..n-1 : free[j] = emptyEntries[j]
    <2>1. 1 \in Int /\ n - 1 \in Int /\ \A j \in 1..n-1 : emptyEntries[j] \in Nat
      BY <1>1
    <2>2. /\ free \in Seq(Nat)
          /\ Len(free) = IF 1 <= n - 1 THEN n - 1 - 1 + 1 ELSE 0
          /\ \A j \in 1..n - 1 - 1 + 1 : free[j] = emptyEntries[1 + j - 1]
      BY <2>1, SubSeqProperties
    <2> HIDE DEF free
    <2>3. Len(free) = n - 1
      <3> HIDE DEF n
      <3>1. Len(free) = IF 1 <= n - 1 THEN n - 1 - 1 + 1 ELSE 0
        BY <2>2
      <3> QED
        BY <1>1, <3>1
    <2>4. ASSUME NEW j \in 1..n-1
          PROVE  free[j] = emptyEntries[j]
      <3>1. j \in 1..n - 1 - 1 + 1 /\ 1 + j - 1 = j
        BY <1>1
      <3> QED
        BY <2>2, <3>1
    <2> QED
      BY <2>2, <2>3, <2>4
  <1> HIDE DEF e
  <1>7. /\ es \in Seq(Entry)
        /\ Len(es) = Len(entries)
        /\ es[i] = e
        /\ \A s \in 1..Len(es) : s # i => es[s] = entries[s]
    BY <1>3, <1>5
  <1> HIDE DEF es, free
  <1>8. FreeExact(es, free)
    <2>1. \A j \in 1..n-1 : j \in 1..n /\ emptyEntries[j] # i
      BY <1>1, <1>2 DEF FreeExact
    <2>2. \A j \in 1..Len(free) : free[j] \in 1..Len(es) /\ es[free[j]].empty
      BY <2>1, <1>2, <1>6, <1>7 DEF FreeExact
    <2>3. \A j, k \in 1..Len(free) : free[j] = free[k] => j = k
      BY <2>1, <1>2, <1>6 DEF FreeExact
    <2>4. ASSUME NEW s \in 1..Len(es), es[s].empty
          PROVE  \E j \in 1..Len(free) : free[j] = s
      <3>1. s # i
        BY <2>4, <1>5, <1>7
      <3>2. PICK j \in 1..n : emptyEntries[j] = s
        BY <3>1, <2>4, <1>2, <1>7 DEF FreeExact
      <3>3. j \in 1..n-1
        BY <3>1, <3>2, <1>1
      <3>4. free[j] = s /\ j \in 1..Len(free)
        BY <3>2, <3>3, <1>1, <1>6
      <3> QED
        BY <3>4
    <2> QED
      BY <2>2, <2>3, <2>4 DEF FreeExact
  <1>9. Chosen(v, i, es, free)
    BY <1>3, <1>5, <1>6, <1>7, <1>8 DEF Chosen
  <1> QED
    BY <1>1, <1>9

LEMMA NewChosen ==
  ASSUME IInv, NEW v \in Values, InsertNew(v)
  PROVE  \E i, es, free : Chosen(v, i, es, free) /\ Place(v, i, es, free)
  <1> USE DEF IInv, PoolTypeOK
  <1> DEFINE e == [revision |-> 0, empty |-> FALSE, value |-> v]
             i == Len(entries) + 1
             es == Append(entries, e)
  <1>1. emptyEntries = <<>> /\ Place(v, i, es, emptyEntries)
    BY DEF InsertNew
  <1>2. e \in Entry /\ ~e.empty /\ e.value = v
    BY DEF Entry
  <1> HIDE DEF e
  <1>3. /\ es \in Seq(Entry)
        /\ Len(es) = Len(entries) + 1
        /\ es[i] = e
        /\ \A s \in 1..Len(entries) : es[s] = entries[s]
        /\ Len(entries) \in Nat
    BY <1>2
  <1> HIDE DEF es
  <1>4. FreeExact(es, emptyEntries)
    <2>1. FreeExact(entries, <<>>)
      BY <1>1, FreeListExactDef
    <2>2. \A s \in 1..Len(entries) : ~entries[s].empty
      BY <2>1 DEF FreeExact
    <2>3. ASSUME NEW s \in 1..Len(es)
          PROVE  ~es[s].empty
      <3>1. s \in 1..Len(entries) \/ s = i
        BY <1>3
      <3> QED
        BY <1>2, <1>3, <2>2, <3>1
    <2> QED
      BY <1>1, <2>3 DEF FreeExact
  <1>5. Chosen(v, i, es, emptyEntries)
    BY <1>2, <1>3, <1>4 DEF Chosen
  <1> QED
    BY <1>1, <1>5

(* Inserting preserves the invariant, into an open pool and a closed one. *)
LEMMA InsertPreserves ==
  ASSUME IInv, NEW v \in Values, PoolInsert(v)
  PROVE  IInv'
  <1> USE DEF IInv, PoolTypeOK
  <1>1. closing = Nobody /\ ~Inserted(v) /\ evictions[v] = 0
    BY DEF PoolInsert, HandleState, Inside, Outdated
  <1>2. PICK i, es, free : Chosen(v, i, es, free) /\ Place(v, i, es, free)
    BY ReuseChosen, NewChosen DEF PoolInsert
  <1> USE <1>2 DEF Chosen
  <1> DEFINE h == [idx |-> i, revision |-> es[i].revision]
  <1>3. es[i].revision \in Nat
    <2>1. es[i] \in Entry
      OBVIOUS
    <2> QED
      BY <2>1 DEF Entry
  <1>4. /\ handle' = [handle EXCEPT ![v] = h]
        /\ h \in Handle
        /\ h.idx = i /\ h.revision = es[i].revision
    BY <1>3 DEF Place, Handle
  <1>5. UNCHANGED closeVars
    BY DEF PoolInsert
  <1> HIDE DEF h
  <1>6. /\ handle' \in [Values -> Handle]
        /\ handle'[v] = h
        /\ \A w \in Values : w # v => handle'[w] = handle[w]
    BY <1>4
  <1>7. Inserted(v)'
    BY <1>4, <1>6 DEF Inserted
  <1>8. \A w \in Values : w # v => (Inserted(w)' <=> Inserted(w))
    BY <1>6 DEF Inserted
  (* The slots of the other values are as they were before v came. *)
  <1>9. ASSUME NEW w \in Values, w # v, Inside(w)
        PROVE  /\ handle[w].idx \in 1..Len(es) /\ handle[w].idx # i
               /\ es[handle[w].idx] = entries[handle[w].idx]
    <2> DEFINE t == handle[w].idx
    <2>1. t \in 1..Len(entries) /\ ~entries[t].empty /\ entries[t].value = w
      BY <1>9 DEF Inside, Has
    <2>2. t # i
      BY <1>9, <2>1
    <2>3. t \in 1..Len(es)
      BY <2>1
    <2> QED
      BY <2>2, <2>3
  <1>10. ASSUME NEW w \in Values, w # v, Outdated(w)
         PROVE  /\ handle[w].idx \in 1..Len(es)
                /\ handle[w].revision < es[handle[w].idx].revision
    <2>1. handle[w].idx \in 1..Len(es)
      BY <1>10 DEF Outdated
    <2>2. CASE handle[w].idx = i
      BY <1>10, <2>1, <2>2 DEF Outdated
    <2>3. CASE handle[w].idx # i
      BY <1>10, <2>1, <2>3 DEF Outdated
    <2> QED
      BY <2>1, <2>2, <2>3
  <1>11. ClosePrefixEmpty'
    BY <1>1, <1>5 DEF ClosePrefixEmpty, closeVars
  <1>12. CASE ~closed
    <2>1. entries' = es /\ emptyEntries' = free /\ evictions' = evictions
      BY <1>12 DEF Place
    <2>2. PoolTypeOK'
      BY <2>1, <1>5, <1>6 DEF closeVars
    <2>3. FreeListExact'
      BY <2>1 DEF FreeExact, FreeListExact
    <2>4. HandleState'
      <3>1. Inside(v)'
        BY <1>1, <1>4, <1>6, <2>1 DEF Inside, Has
      <3>2. ASSUME NEW w \in Values, w # v, Inside(w)
            PROVE  Inside(w)'
        BY <1>6, <1>9, <2>1, <3>2 DEF Inside, Has
      <3>3. ASSUME NEW w \in Values, w # v, Outdated(w)
            PROVE  Outdated(w)'
        BY <1>6, <1>10, <2>1, <3>3 DEF Outdated
      <3> QED
        BY <1>7, <1>8, <2>1, <3>1, <3>2, <3>3 DEF HandleState
    <2>5. TenantHasItsHandle'
      <3> SUFFICES ASSUME NEW s \in 1..Len(es), ~es[s].empty
                   PROVE  handle'[es[s].value] = [idx |-> s, revision |-> es[s].revision]
        BY <2>1 DEF TenantHasItsHandle
      <3>1. CASE s = i
        BY <3>1, <1>6 DEF h
      <3>2. CASE s # i
        <4>1. handle[es[s].value] = [idx |-> s, revision |-> es[s].revision]
          <5>1. s \in 1..Len(entries) /\ es[s] = entries[s]
            BY <3>2
          <5>2. TenantHasItsHandle
            OBVIOUS
          <5> HIDE <1>2 DEF IInv, PoolTypeOK, Chosen
          <5> QED
            BY <5>1, <5>2 DEF TenantHasItsHandle
        <4>2. es[s].value # v
          BY <4>1, <1>1 DEF Inserted
        <4>3. es[s].value \in Values
          <5>1. es[s] \in Entry
            OBVIOUS
          <5> QED
            BY <5>1 DEF Entry
        <4> QED
          BY <4>1, <4>2, <4>3, <1>6
      <3> QED
        BY <3>1, <3>2
    <2> QED
      BY <1>11, <2>2, <2>3, <2>4, <2>5
  <1>13. CASE closed
    <2>1. /\ entries' = MarkEmpty(es, i)
          /\ emptyEntries' = Append(free, i)
          /\ evictions' = [evictions EXCEPT ![v] = @ + 1]
      BY <1>13 DEF Place
    <2>2. /\ entries' \in Seq(Entry)
          /\ Len(entries') = Len(es)
          /\ entries'[i].empty
          /\ entries'[i].revision = es[i].revision + 1
          /\ \A j \in 1..Len(es) : j # i => entries'[j] = es[j]
      BY <2>1, MarkEmptyLemma
    <2>3. /\ emptyEntries' \in Seq(Nat)
          /\ evictions' \in [Values -> Nat]
          /\ evictions'[v] = 1
          /\ \A w \in Values : w # v => evictions'[w] = evictions[w]
      BY <1>1, <2>1
    <2>4. PoolTypeOK'
      BY <1>5, <1>6, <2>2, <2>3 DEF closeVars
    <2>5. FreeListExact'
      <3>1. FreeExact(entries', emptyEntries')
        BY <2>1, PushFree
      <3> QED
        BY <3>1 DEF FreeExact, FreeListExact
    <2>6. HandleState'
      <3>1. Outdated(v)'
        <4>1. handle'[v].idx = i /\ handle'[v].revision = es[i].revision
          BY <1>4, <1>6
        <4>2. i \in 1..Len(entries')
          BY <2>2
        <4>3. es[i].revision < entries'[i].revision
          BY <1>3, <2>2
        <4> QED
          BY <4>1, <4>2, <4>3, <2>3 DEF Outdated
      <3>2. ASSUME NEW w \in Values, w # v, Inside(w)
            PROVE  Inside(w)'
        <4>1. /\ evictions'[w] = 0
              /\ handle'[w] = handle[w]
              /\ handle[w].idx \in 1..Len(entries')
              /\ entries'[handle[w].idx] = entries[handle[w].idx]
          BY <1>6, <1>9, <2>2, <2>3, <3>2 DEF Inside
        <4> QED
          BY <3>2, <4>1 DEF Inside, Has
      <3>3. ASSUME NEW w \in Values, w # v, Outdated(w)
            PROVE  Outdated(w)'
        <4>1. /\ evictions'[w] = 1
              /\ handle'[w] = handle[w]
              /\ handle[w].idx \in 1..Len(es)
              /\ handle[w].revision < es[handle[w].idx].revision
          BY <1>6, <1>10, <2>3, <3>3 DEF Outdated
        <4>2. handle[w].revision \in Nat
          BY DEF Handle
        <4>3. handle[w].revision < entries'[handle[w].idx].revision
          <5>1. CASE handle[w].idx = i
            <6>1. handle[w].revision < es[i].revision
              BY <4>1, <5>1
            <6> HIDE <1>2
            <6> QED
              BY <1>3, <2>2, <4>2, <5>1, <6>1
          <5>2. CASE handle[w].idx # i
            BY <2>2, <4>1, <5>2
          <5> QED
            BY <5>1, <5>2
        <4> QED
          BY <2>2, <4>1, <4>3 DEF Outdated
      <3> QED
        BY <1>7, <1>8, <2>3, <3>1, <3>2, <3>3 DEF HandleState
    <2>7. TenantHasItsHandle'
      <3> SUFFICES ASSUME NEW s \in 1..Len(es), ~entries'[s].empty
                   PROVE  handle'[entries'[s].value] =
                            [idx |-> s, revision |-> entries'[s].revision]
        BY <2>2 DEF TenantHasItsHandle
      <3>1. s # i /\ entries'[s] = entries[s] /\ s \in 1..Len(entries)
        BY <2>2
      <3>2. handle[entries[s].value] = [idx |-> s, revision |-> entries[s].revision]
        BY <3>1 DEF TenantHasItsHandle
      <3>3. entries[s].value # v
        BY <3>2, <1>1 DEF Inserted
      <3>4. entries[s].value \in Values
        <4>1. entries[s] \in Entry
          BY <3>1
        <4> QED
          BY <4>1 DEF Entry
      <3> QED
        BY <3>1, <3>2, <3>3, <3>4, <1>6
    <2> QED
      BY <1>11, <2>4, <2>5, <2>6, <2>7
  <1> QED
    BY <1>12, <1>13

(* The invariant is inductive. *)
LEMMA NextInv == IInv /\ [PoolNext]_poolVars => IInv'
  <1> SUFFICES ASSUME IInv, [PoolNext]_poolVars
               PROVE  IInv'
    OBVIOUS
  <1> USE DEF IInv, PoolTypeOK
  <1>1. ASSUME NEW v \in Values, PoolInsert(v)
        PROVE  IInv'
    BY <1>1, InsertPreserves
  <1>2. ASSUME NEW v \in Values, PoolEvict(v)
        PROVE  IInv'
    <2>1. handle[v] \in Handle /\ handle[v].idx \in 1..Len(entries)
      BY <1>2 DEF PoolEvict, HandleState, Inside, Outdated
    <2>2. ThreadUnsafeEvict(handle[v]) /\ UNCHANGED <<closed, closing, closeIdx, handle>>
      BY <1>2 DEF PoolEvict, closeVars
    <2>3. closing = Nobody
      BY <1>2 DEF PoolEvict
    <2> QED
      BY <2>1, <2>2, <2>3, EvictPreserves DEF ClosePrefixEmpty
  <1>3. ASSUME NEW c \in Closers, CloseStart(c)
        PROVE  IInv'
    <2>1. UNCHANGED <<entries, emptyEntries, evictions, handle>> /\ closeIdx' = 1
      BY <1>3 DEF CloseStart, slotVars
    <2>2. PoolTypeOK'
      BY <1>3, <2>1 DEF CloseStart
    <2>3. FreeListExact' /\ TenantHasItsHandle'
      BY <2>1 DEF FreeListExact, TenantHasItsHandle
    <2>4. HandleState'
      BY <2>1 DEF HandleState, Inside, Outdated, Inserted, Has
    <2>5. ClosePrefixEmpty'
      BY <2>1 DEF ClosePrefixEmpty
    <2> QED
      BY <2>2, <2>3, <2>4, <2>5
  <1>4. ASSUME NEW c \in Closers, CloseSlot(c)
        PROVE  IInv'
    <2> DEFINE h == [idx |-> closeIdx, revision |-> entries[closeIdx].revision]
    <2>1. /\ closing = c /\ closeIdx \in 1..Len(entries)
          /\ ThreadUnsafeEvict(h)
          /\ closeIdx' = closeIdx + 1
          /\ UNCHANGED <<closed, closing, handle>>
      BY <1>4 DEF CloseSlot, ClosePrefixEmpty
    <2>2. h \in Handle /\ h.idx = closeIdx /\ h.revision = entries[closeIdx].revision
      <3>1. entries[closeIdx] \in Entry
        BY <2>1
      <3> QED
        BY <2>1, <3>1 DEF Entry, Handle
    <2> HIDE DEF h
    <2>3. Has(h) <=> ~entries[closeIdx].empty
      BY <2>2 DEF Has
    <2>4. /\ entries' \in Seq(Entry)
          /\ emptyEntries' \in Seq(Nat)
          /\ evictions' \in [Values -> Nat]
          /\ Len(entries') = Len(entries)
          /\ \A s \in 1..Len(entries) : entries[s].empty => entries'[s].empty
          /\ Has(h) => entries'[h.idx].empty
          /\ FreeListExact'
          /\ HandleState'
          /\ TenantHasItsHandle'
      BY <2>1, <2>2, EvictPreserves
    <2>5. ClosePrefixEmpty'
      <3>1. closing # Nobody
        BY <2>1, NobodyAssumption
      <3>2. ASSUME NEW s \in 1..Len(entries), s < closeIdx + 1
            PROVE  entries'[s].empty
        <4>1. CASE s = closeIdx
          BY <4>1, <2>2, <2>3, <2>4
        <4>2. CASE s < closeIdx
          BY <4>2, <2>4, <3>1 DEF ClosePrefixEmpty
        <4> QED
          BY <3>2, <4>1, <4>2
      <3> QED
        BY <2>1, <2>4, <3>2 DEF ClosePrefixEmpty
    <2> QED
      BY <2>1, <2>4, <2>5
  <1>5. ASSUME NEW c \in Closers, CloseFinish(c)
        PROVE  IInv'
    <2>1. UNCHANGED <<entries, emptyEntries, evictions, handle, closed, closeIdx>>
          /\ closing' = Nobody
      BY <1>5 DEF CloseFinish, slotVars
    <2>2. FreeListExact' /\ TenantHasItsHandle' /\ ClosePrefixEmpty'
      BY <2>1 DEF FreeListExact, TenantHasItsHandle, ClosePrefixEmpty
    <2>3. HandleState'
      BY <2>1 DEF HandleState, Inside, Outdated, Inserted, Has
    <2> QED
      BY <2>1, <2>2, <2>3
  <1>6. CASE UNCHANGED poolVars
    <2>1. UNCHANGED <<entries, emptyEntries, evictions, handle, closed, closing, closeIdx>>
      BY <1>6 DEF poolVars, slotVars, closeVars
    <2>2. FreeListExact' /\ TenantHasItsHandle' /\ ClosePrefixEmpty'
      BY <2>1 DEF FreeListExact, TenantHasItsHandle, ClosePrefixEmpty
    <2>3. HandleState'
      BY <2>1 DEF HandleState, Inside, Outdated, Inserted, Has
    <2> QED
      BY <2>1, <2>2, <2>3
  <1> QED
    BY <1>1, <1>2, <1>3, <1>4, <1>5, <1>6 DEF PoolNext

THEOREM PoolInvariant == PoolSpec => []IInv
  <1>1. PoolInit => IInv
    BY InitInv
  <1>2. IInv /\ [PoolNext]_poolVars => IInv'
    BY NextInv
  <1> QED
    BY <1>1, <1>2, PTL DEF PoolSpec

(* Type correctness. *)
THEOREM PoolTypeCorrect == PoolSpec => []PoolTypeOK
  <1>1. IInv => PoolTypeOK
    BY DEF IInv
  <1> QED
    BY <1>1, PoolInvariant, PTL

(* No value is evicted twice, no occupied slot is on the free list, no     *)
(* value is stranded, and no handle reaches another's value.               *)
THEOREM PoolSafety ==
  PoolSpec => [](/\ FreeListExact
                 /\ EvictedAtMostOnce
                 /\ TenantHasItsHandle
                 /\ HandleReachesOnlyOwn)
  <1>1. IInv => /\ FreeListExact
                /\ EvictedAtMostOnce
                /\ TenantHasItsHandle
                /\ HandleReachesOnlyOwn
    <2> SUFFICES ASSUME IInv
                 PROVE  EvictedAtMostOnce /\ HandleReachesOnlyOwn
      BY DEF IInv
    <2> USE DEF IInv
    <2>1. EvictedAtMostOnce
      <3>1. \A v \in Values : evictions[v] = 0 \/ evictions[v] = 1
        BY DEF HandleState, Inside, Outdated
      <3>2. ASSUME NEW v \in Values
            PROVE  evictions[v] <= 1
        <4>1. CASE evictions[v] = 0
          BY <4>1
        <4>2. CASE evictions[v] = 1
          BY <4>2
        <4> QED
          BY <3>1, <4>1, <4>2
      <3> QED
        BY <3>2 DEF EvictedAtMostOnce
    <2>2. HandleReachesOnlyOwn
      <3> SUFFICES ASSUME NEW v \in Values, Inserted(v), Has(handle[v])
                   PROVE  Inside(v)
        BY DEF HandleReachesOnlyOwn, Inside
      <3>1. ASSUME Outdated(v)
            PROVE  FALSE
        <4>1. handle[v].revision \in Nat
          BY DEF PoolTypeOK, Handle
        <4>2. handle[v].revision < handle[v].revision
          BY <3>1 DEF Outdated, Has
        <4> QED
          BY <4>1, <4>2
      <3> QED
        BY <3>1 DEF HandleState
    <2> QED
      BY <2>1, <2>2
  <1> QED
    BY <1>1, PoolInvariant, PTL

-----------------------------------------------------------------------------
(* Refinement: every step of the pool is a step of DrainSet or a stutter.  *)

(* What an eviction does to the abstract state: nothing, or one value      *)
(* leaves.                                                                 *)
LEMMA EvictIsLeave ==
  ASSUME IInv, NEW h \in Handle, h.idx \in 1..Len(entries),
         ThreadUnsafeEvict(h), UNCHANGED <<handle, closed, closing>>
  PROVE  (\E v \in Values : Abstract!Leave(v)) \/ UNCHANGED Abstract!vars
  <1> USE DEF IInv, PoolTypeOK
  <1>1. CASE ~Has(h)
    BY <1>1 DEF ThreadUnsafeEvict, slotVars, Abstract!vars, Inserted
  <1>2. CASE Has(h)
    <2> DEFINE w == entries[h.idx].value
    <2>1. evictions' = [evictions EXCEPT ![w] = @ + 1]
      BY <1>2 DEF ThreadUnsafeEvict
    <2>2. /\ w \in Values /\ ~entries[h.idx].empty
          /\ handle[w] = [idx |-> h.idx, revision |-> entries[h.idx].revision]
          /\ entries[h.idx].revision \in Nat
      <3>1. entries[h.idx] \in Entry
        OBVIOUS
      <3>2. w \in Values /\ entries[h.idx].revision \in Nat
        BY <3>1 DEF Entry
      <3> QED
        BY <1>2, <3>2 DEF Has, TenantHasItsHandle
    <2>3. Inserted(w) /\ evictions[w] = 0
      BY <2>2 DEF Inserted, HandleState, Inside, Outdated
    <2> HIDE DEF w
    <2>4. PICK u \in Values : u = w
      BY <2>2
    <2>5. /\ evictions'[u] = evictions[u] + 1
          /\ \A v \in Values : v # u => evictions'[v] = evictions[v]
      BY <2>1, <2>4
    <2>6. \A v \in Values : Inserted(v)' <=> Inserted(v)
      BY DEF Inserted
    <2>7. Inserted(u) /\ evictions[u] = 0
      BY <2>3, <2>4
    <2>8. Abstract!Leave(u)
      BY <2>5, <2>6, <2>7 DEF Abstract!Leave
    <2> QED
      BY <2>8
  <1> QED
    BY <1>1, <1>2

THEOREM PoolImplementsDrainSet == PoolSpec => ImplementsDrainSet
  <1>1. PoolInit => Abstract!Init
    <2>1. ~(NoHandle.idx > 0)
      BY DEF NoHandle
    <2> QED
      BY <2>1 DEF PoolInit, Abstract!Init, Inserted
  <1>2. IInv /\ [PoolNext]_poolVars => [Abstract!Next]_(Abstract!vars)
    <2> SUFFICES ASSUME IInv, [PoolNext]_poolVars
                 PROVE  [Abstract!Next]_(Abstract!vars)
      OBVIOUS
    <2> USE DEF IInv, PoolTypeOK
    <2>1. ASSUME NEW v \in Values, PoolInsert(v)
          PROVE  Abstract!PutIn(v)
      <3>1. /\ closing = Nobody /\ UNCHANGED <<closed, closing>>
            /\ ~Inserted(v) /\ evictions[v] = 0
        BY <2>1 DEF PoolInsert, closeVars, HandleState, Inside, Outdated
      <3>2. PICK i, es, free : Chosen(v, i, es, free) /\ Place(v, i, es, free)
        BY <2>1, ReuseChosen, NewChosen DEF PoolInsert
      <3>3. i > 0
        BY <3>2 DEF Chosen
      <3>4. /\ handle'[v].idx = i
            /\ \A w \in Values : w # v => handle'[w] = handle[w]
        BY <3>2 DEF Place
      <3>5. /\ Inserted(v)'
            /\ \A w \in Values : w # v => (Inserted(w)' <=> Inserted(w))
        BY <3>3, <3>4 DEF Inserted
      <3>6. CASE ~closed
        <4>1. evictions' = evictions
          BY <3>2, <3>6 DEF Place
        <4> QED
          BY <3>1, <3>5, <3>6, <4>1 DEF Abstract!PutIn
      <3>7. CASE closed
        <4>1. /\ evictions'[v] = 1
              /\ \A w \in Values : w # v => evictions'[w] = evictions[w]
          BY <3>1, <3>2, <3>7 DEF Place
        <4> QED
          BY <3>1, <3>5, <3>7, <4>1 DEF Abstract!PutIn
      <3> QED
        BY <3>6, <3>7
    <2>2. ASSUME NEW v \in Values, PoolEvict(v)
          PROVE  [Abstract!Next]_(Abstract!vars)
      <3>1. handle[v] \in Handle /\ handle[v].idx \in 1..Len(entries)
        BY <2>2 DEF PoolEvict, HandleState, Inside, Outdated
      <3>2. ThreadUnsafeEvict(handle[v]) /\ UNCHANGED <<handle, closed, closing>>
        BY <2>2 DEF PoolEvict, closeVars
      <3> QED
        BY <3>1, <3>2, EvictIsLeave DEF Abstract!Next
    <2>3. ASSUME NEW c \in Closers, CloseStart(c)
          PROVE  Abstract!StartDrain
      BY <2>3, NobodyAssumption DEF CloseStart, slotVars, Abstract!StartDrain, Inserted
    <2>4. ASSUME NEW c \in Closers, CloseSlot(c)
          PROVE  [Abstract!Next]_(Abstract!vars)
      <3> DEFINE h == [idx |-> closeIdx, revision |-> entries[closeIdx].revision]
      <3>1. /\ closeIdx \in 1..Len(entries)
            /\ ThreadUnsafeEvict(h)
            /\ UNCHANGED <<handle, closed, closing>>
        BY <2>4 DEF CloseSlot, ClosePrefixEmpty
      <3>2. h \in Handle /\ h.idx = closeIdx
        <4>1. entries[closeIdx] \in Entry
          BY <3>1
        <4> QED
          BY <3>1, <4>1 DEF Entry, Handle
      <3> HIDE DEF h
      <3> QED
        BY <3>1, <3>2, EvictIsLeave DEF Abstract!Next
    <2>5. ASSUME NEW c \in Closers, CloseFinish(c)
          PROVE  Abstract!FinishDrain
      <3>1. /\ closing # Nobody /\ closing' = Nobody
            /\ \A s \in 1..Len(entries) : entries[s].empty
        BY <2>5, NobodyAssumption DEF CloseFinish, ClosePrefixEmpty
      <3>2. {v \in Values : Inserted(v) /\ evictions[v] = 0} = {}
        BY <3>1 DEF HandleState, Inside, Outdated, Has
      <3> QED
        BY <2>5, <3>1, <3>2 DEF CloseFinish, slotVars, Abstract!FinishDrain, Inserted
    <2>6. CASE UNCHANGED poolVars
      BY <2>6 DEF poolVars, slotVars, closeVars, Abstract!vars, Inserted
    <2> QED
      BY <2>1, <2>2, <2>3, <2>4, <2>5, <2>6 DEF PoolNext, Abstract!Next
  <1> QED
    BY <1>1, <1>2, PoolInvariant, PTL DEF PoolSpec, ImplementsDrainSet, Abstract!Spec
=============================================================================
