---------------------------- MODULE RemoteCalls ----------------------------
(***************************************************************************)
(* What the provider is promised of the calls it makes to the agent on the *)
(* remote machine: every call has one outcome, is executed at most once,   *)
(* and is answered only with the result of its own execution.  A call that *)
(* is given up may still be executed, before or after it is given up.      *)
(***************************************************************************)
CONSTANT Callers

VARIABLES
  status,    \* what each caller knows of its call
  executed   \* the calls whose handler has finished on the remote machine

vars == <<status, executed>>

Init ==
  /\ status = [c \in Callers |-> "idle"]
  /\ executed = {}

Step(c, from, to) ==
  /\ status[c] = from
  /\ status' = [status EXCEPT ![c] = to]
  /\ UNCHANGED executed

Issue(c) == Step(c, "idle", "pending")

GiveUp(c) == Step(c, "pending", "aborted")

Answer(c) == c \in executed /\ Step(c, "pending", "answered")

Execute(c) ==
  /\ status[c] \in {"pending", "aborted"}
  /\ c \notin executed
  /\ executed' = executed \cup {c}
  /\ UNCHANGED status

Next == \E c \in Callers : Issue(c) \/ GiveUp(c) \/ Answer(c) \/ Execute(c)

Spec == Init /\ [][Next]_vars
=============================================================================
