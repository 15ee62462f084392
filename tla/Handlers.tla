------------------------------ MODULE Handlers ------------------------------
(***************************************************************************)
(* What the handlers of the resources (provider/resource/*.go) have in     *)
(* common.  A handler is a function from a request, the machine and the    *)
(* trouble its calls to the machine meet to a response: the machine        *)
(* afterwards (m), the state returned (s) and the error (err).             *)
(*                                                                         *)
(* A state is a record of the inputs it came from (args), the triggers and *)
(* what the resource's own state adds.                                     *)
(***************************************************************************)
EXTENDS Triggers

CONSTANTS
  Check,            \* ResourceConfig.GetDryRunCheck: previews ask the machine
  DeleteUnreachable \* ResourceConfig.GetDeleteUnreachable

(* Trouble: which of a handler's calls to the machine fails, and how.  An   *)
(* unreachable machine is left alone; a call that failed may have done part *)
(* of its work, the parts done: all of it when only its answer was lost.    *)
NoTrouble == [at |-> Unset, kind |-> "ok", done |-> {}]

Troubles(calls, parts) ==
  {NoTrouble}
    \cup [at : calls, kind : {"unreachable"}, done : {{}}]
    \cup [at : calls, kind : {"failed"}, done : SUBSET parts]

Outcome(trouble, call) == IF trouble.at = call THEN trouble ELSE NoTrouble

-----------------------------------------------------------------------------
(* executor.AnsibleExecute: the agent runs an Ansible module that is to     *)
(* bring the machine m to the goal, or to half when it fails on the way.    *)
(* In check mode (dry) the module only tells whether it would change        *)
(* something.                                                               *)
Ran(m, goal, half, dry, call) ==
  [ m |-> IF dry \/ call.kind = "unreachable" THEN m
          ELSE IF call.kind = "failed" THEN half
          ELSE goal,
    err |-> IF call.kind = "ok" THEN "none" ELSE call.kind,
    changed |-> goal # m ]

\* The module refuses.
RanInVain(m) == [m |-> m, err |-> "failed", changed |-> FALSE]

-----------------------------------------------------------------------------
NoState == [args |-> Unset, triggers |-> NoTriggers]

updateState(args, state, changed, now) ==
  [ args     |-> args,
    triggers |-> UpdateTriggerState(state.triggers, args.triggers, changed, now) ]

Quiet(m, state) == [m |-> m, s |-> state, err |-> "none"]
Refused(m, state) == [m |-> m, s |-> state, err |-> "failed"]

\* A preview that cannot reach the host is no error.
Response(task, state, dry) ==
  [ m |-> task.m, s |-> state,
    err |-> IF dry /\ task.err = "unreachable" THEN "none" ELSE task.err ]

\* The handlers of a resource that is one task.
Created(state, dry, m, task) ==
  IF dry /\ ~Check THEN Quiet(m, state) ELSE Response(task, state, dry)

\* task ran in check mode.
ReadBack(args, state, task, now) ==
  IF task.err # "none" THEN Response(task, state, TRUE)
  ELSE Quiet(task.m, updateState(args, state, task.changed, now))

Updated(args, state, dry, m, task, now) ==
  IF dry /\ ~Check THEN Quiet(m, updateState(args, state, TRUE, now))
  ELSE IF task.err # "none" THEN Response(task, state, dry)
  ELSE Quiet(task.m, updateState(args, state, task.changed, now))

Deleted(state, task) ==
  [ m |-> task.m, s |-> state,
    err |-> IF task.err = "unreachable" /\ DeleteUnreachable THEN "none" ELSE task.err ]

-----------------------------------------------------------------------------
\* pdiff.MergeDiffResponses of what a handler's Diff finds: own differences,
\* those that make it a replacement, and those of the triggers.
Merged(updates, replaces, deleteFirst, args, state) ==
  LET triggers == DiffTriggers(state.triggers, args.triggers)
  IN [ changes     |-> updates \/ replaces \/ triggers.refresh \/ triggers.replace,
       replace     |-> replaces \/ triggers.replace,
       deleteFirst |-> deleteFirst ]
=============================================================================
