------------------------------ MODULE DrainSet ------------------------------
(***************************************************************************)
(* What the eviction pool promises to its users, without slots, revisions  *)
(* or a free list.  A value is put in once, and leaves at most once: taken *)
(* out by its owner, or by a drain.  A drain ends only when nothing is     *)
(* left, and from the first drain on a value leaves in the step that puts  *)
(* it in.                                                                  *)
(***************************************************************************)
CONSTANT Values         \* the values users put into the pool

VARIABLES
  held,      \* the values inside
  gone,      \* the values that were inside and have been evicted
  shut,      \* a drain has begun
  draining   \* a drain is under way

vars == <<held, gone, shut, draining>>

Init ==
  /\ held = {}
  /\ gone = {}
  /\ shut = FALSE
  /\ draining = FALSE

(* While a drain is under way nobody can put anything in. *)
PutIn(v) ==
  /\ ~draining
  /\ v \notin held \cup gone
  /\ \/ /\ ~shut
        /\ held' = held \cup {v}
        /\ UNCHANGED gone
     \/ /\ shut
        /\ gone' = gone \cup {v}
        /\ UNCHANGED held
  /\ UNCHANGED <<shut, draining>>

(* Values leave one at a time, to their owner or to a drain. *)
Leave(v) ==
  /\ v \in held
  /\ held' = held \ {v}
  /\ gone' = gone \cup {v}
  /\ UNCHANGED <<shut, draining>>

StartDrain ==
  /\ ~draining
  /\ shut' = TRUE
  /\ draining' = TRUE
  /\ UNCHANGED <<held, gone>>

FinishDrain ==
  /\ draining
  /\ held = {}
  /\ draining' = FALSE
  /\ UNCHANGED <<held, gone, shut>>

Next ==
  \/ \E v \in Values : PutIn(v) \/ Leave(v)
  \/ StartDrain
  \/ FinishDrain

Spec == Init /\ [][Next]_vars
=============================================================================
