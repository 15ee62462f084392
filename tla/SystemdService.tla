--------------------------- MODULE SystemdService ---------------------------
(***************************************************************************)
(* The handlers of the SystemdService resource                             *)
(* (provider/resource/systemd_service.go) as functions from a request, the *)
(* unit on the machine and the outcomes of the calls they make to a        *)
(* response: the unit afterwards (m), the state returned (s) and the error *)
(* (err).                                                                  *)
(*                                                                         *)
(* A unit that runs has loaded the configuration of the moment it started  *)
(* or last reloaded.  The outcome of a call is "ok", "unreachable",        *)
(* "failed" (nothing happened), "half" (enabled or disabled, but not       *)
(* started or stopped) or "lost" (it happened, but the provider got an     *)
(* error).  Names, masking, scopes and daemon-reload are left out.         *)
(***************************************************************************)
CONSTANTS
  Configs, \* what the unit's configuration may be
  Unset,   \* an optional property that is not set
  Check    \* ResourceConfig.GetDryRunCheck: previews ask the machine

INSTANCE Triggers

Unit == [exists : BOOLEAN, running : BOOLEAN, enabled : BOOLEAN, loaded : Configs]

Outcomes == {"ok", "unreachable", "failed", "half", "lost"}

-----------------------------------------------------------------------------
(* The Ansible module "systemd_service" and the agent's doesUnitExist. *)

Enable(unit, enabled) ==
  [unit EXCEPT !.enabled = IF enabled = Unset THEN @ ELSE enabled]

Start(unit, ensure, config) ==
  CASE ensure = "stopped" -> [unit EXCEPT !.running = FALSE]
    [] ensure \in {"restarted", "reloaded"} \/ (ensure = "started" /\ ~unit.running) ->
         [unit EXCEPT !.running = TRUE, !.loaded = config]
    [] OTHER -> unit

\* The module fails for a missing unit, in check mode too.
Systemctl(unit, params, config, dry, call) ==
  LET goal == Start(Enable(unit, params.enabled), params.ensure, config)
      fails == ~unit.exists \/ call \in {"unreachable", "failed"}
  IN [ m |-> IF dry \/ fails THEN unit
             ELSE IF call = "half" THEN Enable(unit, params.enabled)
             ELSE goal,
       err |-> IF call # "ok" THEN call
               ELSE IF ~unit.exists THEN "failed"
               ELSE "none",
       changed |-> goal # unit \/ params.ensure \in {"restarted", "reloaded"} ]

-----------------------------------------------------------------------------
\* SystemdServiceState{}
NoState == [args |-> Unset, triggers |-> NoTriggers]

updateState(args, state, changed, now) ==
  [ args     |-> args,
    triggers |-> UpdateTriggerState(state.triggers, args.triggers, changed, now) ]

Quiet(unit, state) == [m |-> unit, s |-> state, err |-> "none"]
Refused(unit, state, err) == [m |-> unit, s |-> state, err |-> err]

\* A preview that cannot reach the host is no error.
Response(task, state, dry) ==
  [ m |-> task.m, s |-> state,
    err |-> IF dry /\ task.err = "unreachable" THEN "none" ELSE task.err ]

Refreshes(args, state) ==
  LET triggers == DiffTriggers(state.triggers, args.triggers)
  IN triggers.refresh \/ triggers.replace

\* A refresh restarts or reloads a service that should run.
ActionOf == [restart |-> "restarted", reload |-> "reloaded", keep |-> "started"]
RefreshAction(args) == IF args.refreshAction = Unset THEN "restart" ELSE args.refreshAction

WantEnsure(args, state) ==
  IF Refreshes(args, state) /\ args.ensure = "started"
  THEN ActionOf[RefreshAction(args)] ELSE args.ensure

FaultUpdateService(args, state, dry, unit, config, calls, now) ==
  LET params == [ensure |-> WantEnsure(args, state), enabled |-> args.enabled]
      task == Systemctl(unit, params, config, dry, calls[2])
  IN IF task.err # "none" THEN Response(task, state, dry)
     ELSE Quiet(task.m, updateState(args, state, task.changed, now))

\* calls[1] asks whether the unit exists (previews and refreshes only), calls[2]
\* is the task.
updateService(args, state, dry, unit, config, calls, now) ==
  LET params == [ensure |-> WantEnsure(args, state), enabled |-> args.enabled]
      task == Systemctl(unit, params, config, dry, calls[2])
  IN IF dry /\ ~Check THEN Quiet(unit, updateState(args, state, TRUE, now))
     ELSE IF dry /\ calls[1] # "ok" THEN Response([m |-> unit, err |-> calls[1]], state, dry)
     ELSE IF dry /\ ~unit.exists THEN Quiet(unit, updateState(args, state, TRUE, now))
     ELSE IF task.err # "none" THEN Response(task, state, dry)
     ELSE Quiet(task.m, updateState(args, state, task.changed, now))

Diff(args, state) ==
  LET triggers == DiffTriggers(state.triggers, args.triggers)
  IN [ replace |-> triggers.replace,
       changes |-> Differs(args, state.args, {}) \/ triggers.refresh \/ triggers.replace ]

Create(args, dry, unit, config, calls, now) ==
  updateService(args, [NoState EXCEPT !.args = args], dry, unit, config, calls, now)

\* Read reports the inputs as they were, whatever it finds.
Read(args, state, unit, config, calls, now) ==
  updateService(args, state, TRUE, unit, config, calls, now)

Update(args, state, dry, unit, config, calls, now) ==
  updateService(args, state, dry, unit, config, calls, now)

FaultDelete(state, deleteUnreachable, unit, config, calls) ==
  LET params == [ensure |-> state.args.ensure, enabled |-> FALSE]
      task == Systemctl(unit, params, config, FALSE, calls[2])
  IN IF ~unit.exists THEN Quiet(unit, state)
     ELSE Refused(task.m, state, IF deleteUnreachable THEN "none" ELSE task.err)

\* SystemdService.Delete undoes what the state asked for: it stops and disables.
Delete(state, deleteUnreachable, unit, config, calls) ==
  LET args == state.args
      disable == args.enabled = TRUE
      stop == args.ensure # Unset /\ args.ensure # "stopped"
      params == [ ensure |-> IF stop THEN "stopped" ELSE args.ensure,
                  enabled |-> IF disable THEN FALSE ELSE args.enabled ]
      task == Systemctl(unit, params, config, FALSE, calls[2])
      forgive(err) == IF err = "unreachable" /\ deleteUnreachable THEN "none" ELSE err
  IN IF ~disable /\ ~stop THEN Quiet(unit, state)
     ELSE IF calls[1] # "ok" THEN Refused(unit, state, forgive(calls[1]))
     ELSE IF ~unit.exists THEN Quiet(unit, state)
     ELSE Refused(task.m, state, forgive(task.err))
=============================================================================
