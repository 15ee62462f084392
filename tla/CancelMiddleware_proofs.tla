------------------------ MODULE CancelMiddleware_proofs ------------------------
(***************************************************************************)
(* Proofs, for any number of operations and Cancel requests, of what the   *)
(* cancellation middleware makes of the eviction pool.                     *)
(*                                                                         *)
(* Every step of the middleware is one of the pool's or leaves the pool    *)
(* alone, so that the pool's theorems and its inductive invariant IInv     *)
(* hold here too.  The invariant Inv adds where an operation stands when   *)
(* its handle is in the pool and what its context is then.                 *)
(***************************************************************************)
EXTENDS CancelMiddleware, EvictPool_proofs

OpsTypeOK ==
  /\ pc \in [Ops -> {"idle", "made", "running", "returned", "done"}]
  /\ ctx \in [Ops -> {"none", "live", "expired", "canceled"}]
  /\ cancelPC \in [Cancellers -> {"idle", "closing", "closed", "done"}]

\* An operation is inserted once it runs, and evicted at the latest by its end.
HandleFollowsOp ==
  \A op \in Ops :
    /\ Inserted(op) <=> pc[op] \in {"running", "returned", "done"}
    /\ pc[op] = "done" => evictions[op] = 1

\* What has been evicted is cancelled, if it was not done already.
EvictedNotLive == \A op \in Ops : evictions[op] = 1 => ctx[op] # "live"

\* A pool somebody closes is closed, and so it is after a Cancel request.
ClosedOnRequest ==
  /\ closing # Nobody => closed
  /\ \A c \in Cancellers : cancelPC[c] # "idle" => closed

\* A closed pool is empty, but for what the Close under way has not reached.
ClosedIsEmpty ==
  closed /\ closing = Nobody => \A s \in 1..Len(entries) : entries[s].empty

Inv ==
  /\ IInv
  /\ OpsTypeOK
  /\ HandleFollowsOp
  /\ EvictedNotLive
  /\ ClosedOnRequest
  /\ ClosedIsEmpty

-----------------------------------------------------------------------------
(* The middleware is a user of the pool. *)

LEMMA StepUsesPool == [Next]_vars => [PoolNext]_poolVars
  <1> SUFFICES ASSUME [Next]_vars
               PROVE  [PoolNext]_poolVars
    OBVIOUS
  <1>1. ASSUME NEW op \in Ops, MakeContext(op) \/ Expire(op) \/ Return(op)
        PROVE  UNCHANGED poolVars
    BY <1>1 DEF MakeContext, Expire, Return
  <1>2. ASSUME NEW op \in Ops, Insert(op) \/ End(op)
        PROVE  PoolNext
    BY <1>2 DEF Insert, End, PoolNext, Ops
  <1>3. ASSUME NEW c \in Cancellers, CancelStart(c) \/ CancelSlot(c) \/ CancelClosed(c)
        PROVE  PoolNext
    BY <1>3 DEF CancelStart, CancelSlot, CancelClosed, PoolNext, Cancellers
  <1>4. ASSUME NEW c \in Cancellers, CancelReturn(c)
        PROVE  UNCHANGED poolVars
    BY <1>4 DEF CancelReturn
  <1>5. UNCHANGED vars => UNCHANGED poolVars
    BY DEF vars
  <1> QED
    BY <1>1, <1>2, <1>3, <1>4, <1>5 DEF Next

\* The middleware uses the pool as the pool's specification allows, so that the
\* pool's promises hold for it (Wrap's Insert and Evict, Cancel's Close).
THEOREM MiddlewareUsesPool == Spec => PoolSpec
  <1>1. Init => PoolInit
    BY DEF Init
  <1> QED
    BY <1>1, StepUsesPool, PTL DEF Spec, PoolSpec

\* So do its slots, revisions and free list implement DrainSet.
THEOREM MiddlewareImplementsDrainSet == Spec => ImplementsDrainSet
  BY MiddlewareUsesPool, PoolImplementsDrainSet, PTL

\* The free list is exactly the empty slots.
THEOREM FreeListStaysExact == Spec => []FreeListExact
  BY MiddlewareUsesPool, PoolSafety, PTL

\* No cancel function is called twice by the pool.
THEOREM CancelledAtMostOnce == Spec => []EvictedAtMostOnce
  BY MiddlewareUsesPool, PoolSafety, PTL

\* Every running operation in the pool can be taken out by its own handle.
THEOREM TenantsAreReachable == Spec => []TenantHasItsHandle
  BY MiddlewareUsesPool, PoolSafety, PTL

\* A handle kept beyond its operation reaches nobody else.
THEOREM HandlesAreSafe == Spec => []HandleReachesOnlyOwn
  BY MiddlewareUsesPool, PoolSafety, PTL

-----------------------------------------------------------------------------
(* What a step of the pool does to the operations. *)

\* Evict reaches nobody but the handle's own value, which is out afterwards.
LEMMA EvictReachesOwn ==
  ASSUME IInv, NEW v \in Values, PoolEvict(v)
  PROVE  /\ evictions'[v] = 1
         /\ \A w \in Values : w # v => evictions'[w] = evictions[w]
         /\ \A s \in 1..Len(entries) : entries[s].empty => entries'[s].empty
         /\ Len(entries') = Len(entries)
  <1> USE DEF IInv, PoolTypeOK
  <1>1. Inserted(v) /\ ThreadUnsafeEvict(handle[v]) /\ UNCHANGED handle
    BY DEF PoolEvict
  <1>2. handle[v] \in Handle /\ handle[v].idx \in 1..Len(entries)
    BY <1>1 DEF HandleState, Inside, Outdated
  <1>3. /\ Len(entries') = Len(entries)
        /\ \A s \in 1..Len(entries) : entries[s].empty => entries'[s].empty
    BY <1>1, <1>2, EvictPreserves
  <1>4. CASE Has(handle[v])
    <2>1. Inside(v)
      <3>1. ASSUME Outdated(v)
            PROVE  FALSE
        <4>1. handle[v].revision \in Nat /\ handle[v].revision < handle[v].revision
          BY <1>2, <1>4, <3>1 DEF Outdated, Has, Handle
        <4> QED
          BY <4>1
      <3> QED
        BY <1>1, <3>1 DEF HandleState
    <2>2. evictions[v] = 0 /\ evictions' = [evictions EXCEPT ![v] = @ + 1]
      BY <1>1, <1>4, <2>1 DEF Inside, ThreadUnsafeEvict
    <2> QED
      BY <1>3, <2>2
  <1>5. CASE ~Has(handle[v])
    <2>1. evictions[v] = 1
      BY <1>1, <1>5 DEF HandleState, Inside, Outdated
    <2>2. evictions' = evictions
      BY <1>1, <1>5 DEF ThreadUnsafeEvict, slotVars
    <2> QED
      BY <1>3, <2>1, <2>2
  <1> QED
    BY <1>4, <1>5

\* Insert evicts nobody, or, when the pool is closed, what it has just inserted.
LEMMA InsertReachesOwn ==
  ASSUME IInv, NEW v \in Values, PoolInsert(v)
  PROVE  /\ evictions[v] = 0
         /\ Inserted(v)'
         /\ \A w \in Values : w # v => evictions'[w] = evictions[w] /\ (Inserted(w)' <=> Inserted(w))
         /\ ~closed => evictions' = evictions
         /\ closed => /\ evictions'[v] = 1
                      /\ (\A s \in 1..Len(entries) : entries[s].empty)
                           => \A s \in 1..Len(entries') : entries'[s].empty
  <1> USE DEF IInv, PoolTypeOK
  <1>1. evictions[v] = 0
    BY DEF PoolInsert, HandleState, Inside, Outdated
  <1>2. PICK i, es, free : Chosen(v, i, es, free) /\ Place(v, i, es, free)
    BY ReuseChosen, NewChosen DEF PoolInsert
  <1>3. i > 0 /\ i \in 1..Len(es)
    BY <1>2 DEF Chosen
  <1>4. /\ handle'[v].idx = i
        /\ \A w \in Values : w # v => handle'[w] = handle[w]
    BY <1>2 DEF Place
  <1>5. Inserted(v)' /\ \A w \in Values : w # v => (Inserted(w)' <=> Inserted(w))
    BY <1>3, <1>4 DEF Inserted
  <1>6. CASE ~closed
    BY <1>1, <1>2, <1>5, <1>6 DEF Place
  <1>7. CASE closed
    <2>1. entries' = MarkEmpty(es, i) /\ evictions' = [evictions EXCEPT ![v] = @ + 1]
      BY <1>2, <1>7 DEF Place
    <2>2. es \in Seq(Entry)
          /\ \A s \in 1..Len(es) : s # i => s \in 1..Len(entries) /\ es[s] = entries[s]
      BY <1>2 DEF Chosen
    <2>3. /\ Len(entries') = Len(es)
          /\ entries'[i].empty
          /\ \A j \in 1..Len(es) : j # i => entries'[j] = es[j]
      BY <1>3, <2>1, <2>2, MarkEmptyLemma
    <2>4. ASSUME \A s \in 1..Len(entries) : entries[s].empty,
                 NEW s \in 1..Len(entries')
          PROVE  entries'[s].empty
      BY <2>2, <2>3, <2>4
    <2>5. evictions'[v] = 1 /\ \A w \in Values : w # v => evictions'[w] = evictions[w]
      BY <1>1, <2>1
    <2> QED
      BY <1>1, <1>5, <1>7, <2>4, <2>5
  <1> QED
    BY <1>6, <1>7

\* Closing one slot evicts its tenant, and only raises what it changes.
LEMMA CloseReaches ==
  ASSUME IInv, NEW c \in Closers, CloseSlot(c)
  PROVE  /\ \A v \in Values : evictions'[v] = evictions[v] \/ (evictions[v] = 0 /\ evictions'[v] = 1)
         /\ UNCHANGED <<handle, closed, closing>>
  <1>1. UNCHANGED <<handle, closed, closing>>
    BY DEF CloseSlot
  <1>2. IInv'
    BY NextInv DEF PoolNext
  <1>3. ASSUME NEW v \in Values
        PROVE  evictions[v] \in {0, 1} /\ evictions'[v] \in {0, 1}
    BY <1>2 DEF IInv, HandleState, Inside, Outdated
  <1>4. ASSUME NEW v \in Values
        PROVE  evictions'[v] >= evictions[v]
    <2> DEFINE i == closeIdx
    <2>1. ThreadUnsafeEvict([idx |-> closeIdx, revision |-> entries[closeIdx].revision])
      BY DEF CloseSlot
    <2>2. \/ evictions' = evictions
          \/ \E w : evictions' = [evictions EXCEPT ![w] = @ + 1]
      BY <2>1 DEF ThreadUnsafeEvict, slotVars
    <2>3. evictions \in [Values -> Nat]
      BY DEF IInv, PoolTypeOK
    <2> QED
      BY <1>3, <2>2, <2>3
  <1> QED
    BY <1>1, <1>3, <1>4

-----------------------------------------------------------------------------
LEMMA MiddlewareInit == Init => Inv
  <1> SUFFICES ASSUME Init
               PROVE  Inv
    OBVIOUS
  <1>1. PoolInit
    BY DEF Init
  <1>2. IInv
    BY <1>1, InitInv
  <1>3. \A op \in Ops : ~Inserted(op) /\ evictions[op] = 0
    BY <1>1 DEF PoolInit, Inserted, NoHandle, Ops
  <1>4. closing = Nobody /\ ~closed
    BY <1>1 DEF PoolInit
  <1> QED
    BY <1>2, <1>3, <1>4
    DEF Init, Inv, OpsTypeOK, HandleFollowsOp, EvictedNotLive, ClosedOnRequest, ClosedIsEmpty

\* OnEvict leaves alone whose value is not evicted, and nothing live it evicts.
LEMMA OnEvictLemma ==
  ASSUME OpsTypeOK, IInv, IInv', EvictedNotLive, OnEvict
  PROVE  /\ ctx' \in [Ops -> {"none", "live", "expired", "canceled"}]
         /\ EvictedNotLive'
         /\ \A op \in Ops : ctx'[op] = "canceled" /\ ctx[op] = "live" => evictions'[op] # evictions[op]
  <1>1. ASSUME NEW op \in Ops
        PROVE  evictions[op] \in {0, 1} /\ evictions'[op] \in {0, 1}
    BY DEF IInv, HandleState, Inside, Outdated, Ops
  <1>2. ASSUME NEW op \in Ops
        PROVE  /\ ctx'[op] = IF evictions'[op] > evictions[op] /\ ctx[op] = "live"
                             THEN "canceled" ELSE ctx[op]
               /\ ctx[op] \in {"none", "live", "expired", "canceled"}
    BY DEF OnEvict, OpsTypeOK
  <1>3. ctx' \in [Ops -> {"none", "live", "expired", "canceled"}]
    BY <1>2 DEF OnEvict
  <1>4. ASSUME NEW op \in Ops, evictions'[op] = 1
        PROVE  ctx'[op] # "live"
    <2>1. CASE evictions[op] = 1
      BY <1>2, <2>1 DEF EvictedNotLive
    <2>2. CASE evictions[op] = 0
      BY <1>2, <1>4, <2>2
    <2> QED
      BY <1>1, <2>1, <2>2
  <1>5. ASSUME NEW op \in Ops, ctx'[op] = "canceled", ctx[op] = "live"
        PROVE  evictions'[op] # evictions[op]
    <2>1. evictions'[op] > evictions[op]
      BY <1>2, <1>5
    <2> QED
      BY <1>1, <2>1
  <1> QED
    BY <1>3, <1>4, <1>5 DEF EvictedNotLive

LEMMA MiddlewareStep == Inv /\ [Next]_vars => Inv'
  <1> SUFFICES ASSUME Inv, [Next]_vars
               PROVE  Inv'
    OBVIOUS
  <1> USE DEF Inv, Ops, Cancellers
  <1>0. IInv'
    BY StepUsesPool, NextInv
  <1>1. ASSUME NEW op \in Ops, MakeContext(op)
        PROVE  Inv'
    <2>1. UNCHANGED <<entries, emptyEntries, closed, closing, closeIdx, handle, evictions, cancelPC>>
      BY <1>1 DEF MakeContext, poolVars, slotVars, closeVars
    <2>2. pc[op] = "idle" /\ pc' = [pc EXCEPT ![op] = "made"]
      BY <1>1 DEF MakeContext, Goto
    <2>3. ctx' = [ctx EXCEPT ![op] = "live"] \/ ctx' = [ctx EXCEPT ![op] = "expired"]
      BY <1>1 DEF MakeContext
    <2>4. evictions[op] = 0
      BY <2>2 DEF HandleFollowsOp, IInv, HandleState
    <2>5. OpsTypeOK'
      BY <2>1, <2>2, <2>3 DEF OpsTypeOK
    <2>6. HandleFollowsOp'
      BY <2>1, <2>2 DEF HandleFollowsOp, OpsTypeOK, Inserted
    <2>7. EvictedNotLive'
      BY <2>1, <2>3, <2>4 DEF EvictedNotLive, OpsTypeOK
    <2>8. ClosedOnRequest' /\ ClosedIsEmpty'
      BY <2>1 DEF ClosedOnRequest, ClosedIsEmpty
    <2> QED
      BY <1>0, <2>5, <2>6, <2>7, <2>8
  <1>2. ASSUME NEW op \in Ops, Insert(op)
        PROVE  Inv'
    <2>1. /\ pc[op] = "made" /\ pc' = [pc EXCEPT ![op] = "running"]
          /\ PoolInsert(op) /\ OnEvict /\ UNCHANGED cancelPC
      BY <1>2 DEF Insert, Goto
    <2>2. closing = Nobody /\ UNCHANGED <<closed, closing>>
      BY <2>1 DEF PoolInsert, closeVars
    <2>3. OpsTypeOK' /\ EvictedNotLive'
      BY <1>0, <2>1, OnEvictLemma DEF OpsTypeOK
    <2>4. HandleFollowsOp'
      BY <2>1, InsertReachesOwn DEF HandleFollowsOp, OpsTypeOK
    <2>5. ClosedOnRequest'
      BY <2>1, <2>2 DEF ClosedOnRequest
    <2>6. ClosedIsEmpty'
      BY <2>1, <2>2, InsertReachesOwn DEF ClosedIsEmpty
    <2> QED
      BY <1>0, <2>3, <2>4, <2>5, <2>6
  <1>3. ASSUME NEW op \in Ops, Expire(op)
        PROVE  Inv'
    <2>1. UNCHANGED <<entries, emptyEntries, closed, closing, closeIdx, handle, evictions, cancelPC, pc>>
      BY <1>3 DEF Expire, poolVars, slotVars, closeVars
    <2>2. ctx' = [ctx EXCEPT ![op] = "expired"]
      BY <1>3 DEF Expire
    <2>3. OpsTypeOK' /\ EvictedNotLive'
      BY <2>1, <2>2 DEF OpsTypeOK, EvictedNotLive
    <2>4. HandleFollowsOp' /\ ClosedOnRequest' /\ ClosedIsEmpty'
      BY <2>1 DEF HandleFollowsOp, Inserted, ClosedOnRequest, ClosedIsEmpty
    <2> QED
      BY <1>0, <2>3, <2>4
  <1>4. ASSUME NEW op \in Ops, Return(op)
        PROVE  Inv'
    <2>1. UNCHANGED <<entries, emptyEntries, closed, closing, closeIdx, handle, evictions, cancelPC, ctx>>
      BY <1>4 DEF Return, poolVars, slotVars, closeVars
    <2>2. pc[op] = "running" /\ pc' = [pc EXCEPT ![op] = "returned"]
      BY <1>4 DEF Return, Goto
    <2>3. OpsTypeOK' /\ EvictedNotLive'
      BY <2>1, <2>2 DEF OpsTypeOK, EvictedNotLive
    <2>4. HandleFollowsOp'
      BY <2>1, <2>2 DEF HandleFollowsOp, OpsTypeOK, Inserted
    <2>5. ClosedOnRequest' /\ ClosedIsEmpty'
      BY <2>1 DEF ClosedOnRequest, ClosedIsEmpty
    <2> QED
      BY <1>0, <2>3, <2>4, <2>5
  <1>5. ASSUME NEW op \in Ops, End(op)
        PROVE  Inv'
    <2>1. /\ pc[op] = "returned" /\ pc' = [pc EXCEPT ![op] = "done"]
          /\ PoolEvict(op) /\ OnEvict /\ UNCHANGED cancelPC
      BY <1>5 DEF End, Goto
    <2>2. UNCHANGED <<closed, closing, handle>>
      BY <2>1 DEF PoolEvict, closeVars
    <2>3. OpsTypeOK' /\ EvictedNotLive'
      BY <1>0, <2>1, OnEvictLemma DEF OpsTypeOK
    <2>4. HandleFollowsOp'
      BY <2>1, <2>2, EvictReachesOwn DEF HandleFollowsOp, OpsTypeOK, Inserted
    <2>5. ClosedOnRequest'
      BY <2>1, <2>2 DEF ClosedOnRequest
    <2>6. ClosedIsEmpty'
      BY <2>1, <2>2, EvictReachesOwn DEF ClosedIsEmpty
    <2> QED
      BY <1>0, <2>3, <2>4, <2>5, <2>6
  <1>6. ASSUME NEW c \in Cancellers, CancelStart(c)
        PROVE  Inv'
    <2>1. /\ UNCHANGED <<entries, emptyEntries, handle, evictions, pc, ctx>>
          /\ closed' = TRUE /\ closing' = c
          /\ cancelPC' = [cancelPC EXCEPT ![c] = "closing"]
      BY <1>6 DEF CancelStart, CancelGoto, CloseStart, slotVars, opVars
    <2>2. c # Nobody
      BY NobodyAssumption
    <2>3. OpsTypeOK' /\ EvictedNotLive' /\ HandleFollowsOp'
      BY <2>1 DEF OpsTypeOK, EvictedNotLive, HandleFollowsOp, Inserted
    <2>4. ClosedOnRequest' /\ ClosedIsEmpty'
      BY <2>1, <2>2 DEF ClosedOnRequest, ClosedIsEmpty
    <2> QED
      BY <1>0, <2>3, <2>4
  <1>7. ASSUME NEW c \in Cancellers, CancelSlot(c)
        PROVE  Inv'
    <2>1. closing = c /\ CloseSlot(c) /\ OnEvict /\ UNCHANGED <<pc, cancelPC>>
      BY <1>7 DEF CancelSlot, CloseSlot
    <2>2. c # Nobody
      BY NobodyAssumption
    <2>3. OpsTypeOK' /\ EvictedNotLive'
      BY <1>0, <2>1, OnEvictLemma DEF OpsTypeOK
    <2>4. HandleFollowsOp'
      BY <2>1, CloseReaches DEF HandleFollowsOp, Inserted
    <2>5. ClosedOnRequest' /\ ClosedIsEmpty'
      BY <2>1, <2>2, CloseReaches DEF ClosedOnRequest, ClosedIsEmpty
    <2> QED
      BY <1>0, <2>3, <2>4, <2>5
  <1>8. ASSUME NEW c \in Cancellers, CancelClosed(c)
        PROVE  Inv'
    <2>1. /\ UNCHANGED <<entries, emptyEntries, handle, evictions, closed, pc, ctx>>
          /\ closing = c /\ closeIdx > Len(entries) /\ closing' = Nobody
          /\ cancelPC[c] = "closing" /\ cancelPC' = [cancelPC EXCEPT ![c] = "closed"]
      BY <1>8 DEF CancelClosed, CancelGoto, CloseFinish, slotVars, opVars
    <2>2. \A s \in 1..Len(entries) : entries[s].empty
      BY <2>1, NobodyAssumption DEF IInv, PoolTypeOK, ClosePrefixEmpty
    <2>3. OpsTypeOK' /\ EvictedNotLive' /\ HandleFollowsOp'
      BY <2>1 DEF OpsTypeOK, EvictedNotLive, HandleFollowsOp, Inserted
    <2>4. ClosedOnRequest' /\ ClosedIsEmpty'
      BY <2>1, <2>2 DEF ClosedOnRequest, ClosedIsEmpty, OpsTypeOK
    <2> QED
      BY <1>0, <2>3, <2>4
  <1>9. ASSUME NEW c \in Cancellers, CancelReturn(c)
        PROVE  Inv'
    <2>1. /\ UNCHANGED <<entries, emptyEntries, handle, evictions, closed, closing, pc, ctx>>
          /\ cancelPC[c] = "closed" /\ cancelPC' = [cancelPC EXCEPT ![c] = "done"]
      BY <1>9 DEF CancelReturn, CancelGoto, poolVars, slotVars, closeVars, opVars
    <2>2. OpsTypeOK' /\ EvictedNotLive' /\ HandleFollowsOp'
      BY <2>1 DEF OpsTypeOK, EvictedNotLive, HandleFollowsOp, Inserted
    <2>3. ClosedOnRequest' /\ ClosedIsEmpty'
      BY <2>1 DEF ClosedOnRequest, ClosedIsEmpty, OpsTypeOK
    <2> QED
      BY <1>0, <2>2, <2>3
  <1>10. CASE UNCHANGED vars
    <2>1. UNCHANGED <<entries, emptyEntries, handle, evictions, closed, closing, pc, ctx, cancelPC>>
      BY <1>10 DEF vars, poolVars, slotVars, closeVars, opVars
    <2>2. OpsTypeOK' /\ EvictedNotLive' /\ HandleFollowsOp'
      BY <2>1 DEF OpsTypeOK, EvictedNotLive, HandleFollowsOp, Inserted
    <2>3. ClosedOnRequest' /\ ClosedIsEmpty'
      BY <2>1 DEF ClosedOnRequest, ClosedIsEmpty
    <2> QED
      BY <1>0, <2>2, <2>3
  <1> QED
    BY <1>1, <1>2, <1>3, <1>4, <1>5, <1>6, <1>7, <1>8, <1>9, <1>10 DEF Next

\* Where an operation stands, what its context is and what the pool holds of it
\* agree in every reachable state.
THEOREM MiddlewareInvariant == Spec => []Inv
  BY MiddlewareInit, MiddlewareStep, PTL DEF Spec

\* The pool holds the cancel functions of running operations only: an operation
\* that has ended was evicted, and what was evicted has left its slot.
THEOREM PoolOfRunning == Spec => []PoolHoldsRunning
  <1>1. Inv => PoolHoldsRunning
    <2> SUFFICES ASSUME Inv, NEW s \in 1..Len(entries), ~entries[s].empty
                 PROVE  Running(entries[s].value)
      BY DEF PoolHoldsRunning
    <2> DEFINE op == entries[s].value
    <2>1. entries[s] \in Entry
      BY DEF Inv, IInv, PoolTypeOK
    <2>2. op \in Ops /\ entries[s].revision \in Nat
      BY <2>1 DEF Entry, Ops
    <2>3. handle[op] = [idx |-> s, revision |-> entries[s].revision]
      BY DEF Inv, IInv, TenantHasItsHandle
    <2>4. Inserted(op) /\ ~Outdated(op)
      BY <2>2, <2>3 DEF Inserted, Outdated
    <2>5. evictions[op] = 0
      BY <2>2, <2>4 DEF Inv, IInv, HandleState, Inside, Ops
    <2> QED
      BY <2>2, <2>4, <2>5 DEF Inv, HandleFollowsOp, Running
  <1> QED
    BY <1>1, MiddlewareInvariant, PTL

\* Once a Cancel request has come back no running operation has a live context.
THEOREM CancelReachesAll == Spec => []CancelledLeavesNoneLive
  <1>1. Inv => CancelledLeavesNoneLive
    <2> SUFFICES ASSUME Inv, NEW c \in Cancellers, cancelPC[c] = "done", closing = Nobody,
                        NEW op \in Ops, Running(op)
                 PROVE  ctx[op] # "live"
      BY DEF CancelledLeavesNoneLive
    <2>1. \A s \in 1..Len(entries) : entries[s].empty
      BY DEF Inv, ClosedOnRequest, ClosedIsEmpty
    <2>2. Inserted(op)
      BY DEF Inv, HandleFollowsOp, Running
    <2>3. evictions[op] = 1
      BY <2>1, <2>2 DEF Inv, IInv, HandleState, Inside, Outdated, Has, Ops
    <2> QED
      BY <2>3 DEF Inv, EvictedNotLive
  <1> QED
    BY <1>1, MiddlewareInvariant, PTL

\* A context is cancelled early only by a Cancel request, never by the end of
\* another operation.
THEOREM NoStrayCancel == Spec => CancelledOnlyOnRequest
  <1> DEFINE Allowed == \A op \in Ops : ctx[op] = "live" /\ ctx'[op] = "canceled"
                                          => closed \/ Goto(op, "returned", "done")
  <1>1. Inv /\ [Next]_vars => [Allowed]_vars
    <2> SUFFICES ASSUME Inv, Next, NEW op \in Ops, ctx[op] = "live", ctx'[op] = "canceled"
                 PROVE  closed \/ Goto(op, "returned", "done")
      OBVIOUS
    <2>0. IInv' /\ OpsTypeOK
      BY StepUsesPool, NextInv DEF Inv
    <2>1. ASSUME NEW o \in Ops, MakeContext(o) \/ Expire(o) \/ Return(o)
          PROVE  FALSE
      BY <2>0, <2>1 DEF MakeContext, Expire, Return, OpsTypeOK
    <2>2. ASSUME NEW o \in Ops, Insert(o)
          PROVE  closed
      <3>1. PoolInsert(o) /\ OnEvict
        BY <2>2 DEF Insert
      <3>2. evictions'[op] # evictions[op]
        BY <2>0, <3>1, OnEvictLemma DEF Inv
      <3> QED
        BY <3>1, <3>2, InsertReachesOwn DEF Inv, Ops
    <2>3. ASSUME NEW o \in Ops, End(o)
          PROVE  Goto(op, "returned", "done")
      <3>1. Goto(o, "returned", "done") /\ PoolEvict(o) /\ OnEvict
        BY <2>3 DEF End
      <3>2. evictions'[op] # evictions[op]
        BY <2>0, <3>1, OnEvictLemma DEF Inv
      <3>3. op = o
        BY <3>1, <3>2, EvictReachesOwn DEF Inv, Ops
      <3> QED
        BY <3>1, <3>3
    <2>4. ASSUME NEW c \in Cancellers, CancelStart(c) \/ CancelClosed(c) \/ CancelReturn(c)
          PROVE  FALSE
      BY <2>4 DEF CancelStart, CancelClosed, CancelReturn, opVars
    <2>5. ASSUME NEW c \in Cancellers, CancelSlot(c)
          PROVE  closed
      <3>1. closing # Nobody
        BY <2>5, NobodyAssumption DEF CancelSlot, CloseSlot, Cancellers
      <3> QED
        BY <3>1 DEF Inv, ClosedOnRequest
    <2> QED
      BY <2>1, <2>2, <2>3, <2>4, <2>5 DEF Next
  <1> QED
    BY <1>1, MiddlewareInvariant, PTL DEF Spec, CancelledOnlyOnRequest
=============================================================================
