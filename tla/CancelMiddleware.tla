-------------------------- MODULE CancelMiddleware --------------------------
(***************************************************************************)
(* The cancellation middleware of the provider framework                   *)
(* (pkg/providerfw/middleware/cancel/cancel.go) on the eviction pool.  The *)
(* pool's values are the gRPC operations: what is inserted is the          *)
(* operation's cancel function, and OnEvict calls it.                      *)
(*                                                                         *)
(* An operation makes its context, inserts the cancel function, runs, and  *)
(* in its deferred end evicts the handle.  The Cancel operation closes the *)
(* pool and then passes the request on to the wrapped provider.            *)
(***************************************************************************)
EXTENDS EvictPool

VARIABLES
  pc,        \* where each operation is
  ctx,       \* the state of each operation's context
  deadline,  \* the operations whose context has a deadline
  cancelPC   \* where each Cancel request is

Ops == Values
Cancellers == Closers

opVars == <<pc, ctx, deadline>>
vars == <<poolVars, opVars, cancelPC>>

Init ==
  /\ PoolInit
  /\ pc = [op \in Ops |-> "idle"]
  /\ ctx = [op \in Ops |-> "none"]
  /\ deadline = {}
  /\ cancelPC = [c \in Cancellers |-> "idle"]

-----------------------------------------------------------------------------
Goto(op, from, to) == pc[op] = from /\ pc' = [pc EXCEPT ![op] = to]

CancelGoto(c, from, to) ==
  cancelPC[c] = from /\ cancelPC' = [cancelPC EXCEPT ![c] = to]

(* OnEvict calls the cancel function of the evicted operation, which has   *)
(* no effect on a context that is already done.                            *)
OnEvict ==
  ctx' = [op \in Ops |-> IF evictions'[op] > evictions[op] /\ ctx[op] = "live"
                         THEN "canceled" ELSE ctx[op]]

(* The closure cancel of Wrap makes the context.  A timeout of 0 means no  *)
(* deadline; time.Duration truncates the seconds to an integer, so a       *)
(* timeout below one second makes a context that is born expired.          *)
MakeContext(op) ==
  /\ Goto(op, "idle", "made")
  /\ \/ /\ ctx' = [ctx EXCEPT ![op] = "live"]
        /\ deadline' \in {deadline, deadline \cup {op}}
     \/ /\ ctx' = [ctx EXCEPT ![op] = "expired"]
        /\ deadline' = deadline \cup {op}
  /\ UNCHANGED <<poolVars, cancelPC>>

Insert(op) ==
  /\ Goto(op, "made", "running")
  /\ PoolInsert(op)
  /\ OnEvict
  /\ UNCHANGED <<deadline, cancelPC>>

(* The timer of the context fires, whatever the operation is doing. *)
Expire(op) ==
  /\ op \in deadline
  /\ ctx[op] = "live"
  /\ ctx' = [ctx EXCEPT ![op] = "expired"]
  /\ UNCHANGED <<poolVars, pc, deadline, cancelPC>>

(* The wrapped method returns, of itself or because its context is done. *)
Return(op) ==
  /\ Goto(op, "running", "returned")
  /\ UNCHANGED <<poolVars, ctx, deadline, cancelPC>>

(* Fault: the handle is not evicted when the method returns. *)
FaultEndKeepsHandle(op) ==
  /\ Goto(op, "returned", "done")
  /\ UNCHANGED <<poolVars, ctx, deadline, cancelPC>>

(* The deferred end, which is Handle.Evict. *)
End(op) ==
  /\ Goto(op, "returned", "done")
  /\ PoolEvict(op)
  /\ OnEvict
  /\ UNCHANGED <<deadline, cancelPC>>

CancelStart(c) ==
  /\ CancelGoto(c, "idle", "closing")
  /\ CloseStart(c)
  /\ UNCHANGED opVars

CancelSlot(c) ==
  /\ CloseSlot(c)
  /\ OnEvict
  /\ UNCHANGED <<pc, deadline, cancelPC>>

CancelClosed(c) ==
  /\ CancelGoto(c, "closing", "closed")
  /\ CloseFinish(c)
  /\ UNCHANGED opVars

(* The request is passed on to the wrapped provider's Cancel, if any; what *)
(* it returns changes nothing here.                                        *)
CancelReturn(c) ==
  /\ CancelGoto(c, "closed", "done")
  /\ UNCHANGED <<poolVars, opVars>>

-----------------------------------------------------------------------------
Next ==
  \/ \E op \in Ops : \/ MakeContext(op) \/ Insert(op) \/ Expire(op)
                     \/ Return(op) \/ End(op)
  \/ \E c \in Cancellers : \/ CancelStart(c) \/ CancelSlot(c)
                           \/ CancelClosed(c) \/ CancelReturn(c)

(* Goroutines that can run do run.  A wrapped method is only assumed to    *)
(* return once its context is done, and no Cancel request is assumed to    *)
(* come.                                                                   *)
Fairness ==
  /\ \A op \in Ops : /\ WF_vars(Insert(op))
                     /\ WF_vars(End(op))
                     /\ WF_vars(ctx[op] # "live" /\ Return(op))
  /\ \A c \in Cancellers : WF_vars(CancelSlot(c)) /\ WF_vars(CancelClosed(c))

Spec == Init /\ [][Next]_vars /\ Fairness

-----------------------------------------------------------------------------
(* Properties *)

Running(op) == pc[op] \in {"running", "returned"}

(* The pool holds the cancel functions of running operations only, so that *)
(* a long-lived provider does not accumulate the finished ones.            *)
PoolHoldsRunning ==
  \A s \in 1..Len(entries) : ~entries[s].empty => Running(entries[s].value)

(* Once a Cancel request has come back, no running operation has a live    *)
(* context, neither one it found nor one begun since (cancel.go:35).       *)
CancelledLeavesNoneLive ==
  (\E c \in Cancellers : cancelPC[c] = "done") /\ closing = Nobody
    => \A op \in Ops : Running(op) => ctx[op] # "live"

(* An operation's context is cancelled early only by a Cancel request: the *)
(* end of one operation does not cancel another's.                         *)
CancelledOnlyOnRequest ==
  [][\A op \in Ops : ctx[op] = "live" /\ ctx'[op] = "canceled"
       => closed \/ Goto(op, "returned", "done")]_vars

(* After a Cancel request every operation under way or begun later comes   *)
(* to its end, although nothing but its context makes it return.           *)
CancelDrains ==
  \A op \in Ops : closed /\ pc[op] # "idle" ~> pc[op] = "done"
=============================================================================
