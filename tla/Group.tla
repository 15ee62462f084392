------------------------------- MODULE Group --------------------------------
(***************************************************************************)
(* The handlers of the Group resource (provider/resource/group.go).  The   *)
(* machine gives each group's id, 0 for a group that does not exist.       *)
(***************************************************************************)
EXTENDS Handlers

CONSTANTS
  Groups, \* names of groups
  Gids    \* ids of groups, positive

Machines == {m \in [Groups -> Gids \cup {0}] : \A g, h \in Groups : m[g] = m[h] /\ m[g] # 0 => g = h}
Parts == {"group"}

-----------------------------------------------------------------------------
(* The Ansible module "group". *)

Goal(m, args) ==
  [m EXCEPT ![args.name] =
     IF args.ensure = "absent" THEN 0
     ELSE IF args.gid # Unset THEN args.gid
     ELSE IF @ = 0 THEN CHOOSE gid \in Gids : \A g \in Groups : m[g] # gid
     ELSE @]

\* groupadd and groupmod refuse an id that another group has; in check mode
\* neither is run.
Taken(m, args) ==
  args.ensure # "absent" /\ args.gid # Unset /\ \E g \in Groups \ {args.name} : m[g] = args.gid

Task(m, args, dry, call) ==
  LET goal == Goal(m, args)
  IN IF ~dry /\ Taken(m, args) /\ call.kind # "unreachable" THEN RanInVain(m)
     ELSE Ran(m, goal, IF call.done = {} THEN m ELSE goal, dry, call)

-----------------------------------------------------------------------------
\* Group.Diff: another name is another group.
Diff(args, state) ==
  Merged(Differs(args, state.args, {}), args.name # state.args.name, TRUE, args, state)

Create(args, dry, m, trouble, now) ==
  Created(updateState(args, NoState, TRUE, now), dry, m, Task(m, args, dry, Outcome(trouble, 1)))

FaultRead(args, state, m, trouble, now) ==
  ReadBack(args, state, [Task(m, args, TRUE, Outcome(trouble, 1)) EXCEPT !.changed = FALSE], now)

\* Group.Read: the state keeps the inputs, whatever the machine has.
Read(args, state, m, trouble, now) ==
  ReadBack(args, state, Task(m, args, TRUE, Outcome(trouble, 1)), now)

Update(args, state, dry, m, trouble, now) ==
  Updated(args, state, dry, m, Task(m, args, dry, Outcome(trouble, 1)), now)

Delete(state, m, trouble) ==
  IF state.args.ensure = "absent" THEN Quiet(m, state)
  ELSE Deleted(state, Task(m, [state.args EXCEPT !.ensure = "absent"], FALSE, Outcome(trouble, 1)))

-----------------------------------------------------------------------------
AsAsked(args, m) ==
  IF args.ensure = "absent" THEN m[args.name] = 0
  ELSE m[args.name] # 0 /\ args.gid \in {Unset, m[args.name]}

Gone(args, m) == m[args.name] = 0
=============================================================================
