------------------------------ MODULE Service -------------------------------
(***************************************************************************)
(* The handlers of the Service resource (provider/resource/service.go).    *)
(* The machine has one service, which may run and be enabled; its name and *)
(* what the init system is told beside these are left out.                 *)
(***************************************************************************)
EXTENDS Handlers

Machines == [running : BOOLEAN, enabled : BOOLEAN]
Parts == {"enable", "state"}

-----------------------------------------------------------------------------
(* The Ansible module "service": it enables or disables first. *)

Enabled(m, params) == IF params.enabled = Unset THEN m.enabled ELSE params.enabled

Goal(m, params) ==
  [ enabled |-> Enabled(m, params),
    running |-> IF params.state = Unset THEN m.running ELSE params.state # "stopped" ]

Half(m, goal, done) ==
  IF Parts \subseteq done THEN goal
  ELSE IF "enable" \in done THEN [m EXCEPT !.enabled = goal.enabled]
  ELSE m

Bounces(params) == params.state \in {"restarted", "reloaded"}

Task(m, params, dry, call) ==
  LET goal == Goal(m, params)
  IN [Ran(m, goal, Half(m, goal, call.done), dry, call)
        EXCEPT !.changed = @ \/ Bounces(params)]

-----------------------------------------------------------------------------
Diff(args, state) == Merged(Differs(args, state.args, {}), FALSE, TRUE, args, state)

Create(args, dry, m, trouble, now) ==
  Created(updateState(args, NoState, TRUE, now), dry, m, Task(m, args, dry, Outcome(trouble, 1)))

\* Service.Read: the state keeps the inputs, whatever the machine has.
Read(args, state, m, trouble, now) ==
  ReadBack(args, state, Task(m, args, TRUE, Outcome(trouble, 1)), now)

Update(args, state, dry, m, trouble, now) ==
  Updated(args, state, dry, m, Task(m, args, dry, Outcome(trouble, 1)), now)

FaultDelete(state, m, trouble) ==
  IF state.args.state \in {Unset, "stopped"} THEN Quiet(m, state)
  ELSE Deleted(state, Task(m, [enabled |-> Unset, state |-> "stopped"], FALSE, Outcome(trouble, 1)))

\* Service.Delete undoes what the state asked for: it disables and stops.
Delete(state, m, trouble) ==
  LET disable == state.args.enabled = TRUE
      stop == state.args.state \notin {Unset, "stopped"}
      params == [ enabled |-> IF disable THEN FALSE ELSE state.args.enabled,
                  state   |-> IF stop THEN "stopped" ELSE state.args.state ]
  IN IF ~disable /\ ~stop THEN Quiet(m, state)
     ELSE Deleted(state, Task(m, params, FALSE, Outcome(trouble, 1)))

-----------------------------------------------------------------------------
AsAsked(args, m) ==
  /\ args.enabled \in {Unset, m.enabled}
  /\ args.state # Unset => (m.running <=> args.state # "stopped")

Gone(args, m) ==
  /\ args.enabled # Unset => ~m.enabled
  /\ args.state # Unset => ~m.running
=============================================================================
