-------------------------------- MODULE Exec --------------------------------
(***************************************************************************)
(* The handlers of the Exec resource (provider/resource/exec.go): a        *)
(* command for each of create, update and delete.  The machine is the set  *)
(* of marks that commands have left; a command puts and drops some.  What  *)
(* commands print is left out.                                             *)
(***************************************************************************)
EXTENDS Handlers

CONSTANT Marks \* what commands can leave on a machine

Machines == SUBSET Marks

\* The agent's Exec; an exit code other than 0 is a failed call.
Perform(m, command, call) ==
  LET after(done) == (m \cup (command.puts \cap done)) \ (command.drops \cap done)
  IN Ran(m, after(Marks), after(call.done), FALSE, call)

-----------------------------------------------------------------------------
\* argsToRPCCall: the command of a part of the life cycle.
Command(args, lifecycle) ==
  CASE lifecycle = "update" /\ args.update # Unset -> args.update
    [] lifecycle = "delete" -> args.delete
    [] OTHER -> args.create

\* Exec.Diff: unless asked to, a replacement does not delete first.
Diff(args, state) ==
  Merged(Differs(args, state.args, {"deleteBeforeReplace"}), FALSE,
         args.deleteBeforeReplace = TRUE, args, state)

\* A preview runs nothing, whatever Check says.
Run(args, state, lifecycle, dry, m, trouble) ==
  IF dry THEN Quiet(m, state)
  ELSE Response(Perform(m, Command(args, lifecycle), Outcome(trouble, 1)), state, FALSE)

Create(args, dry, m, trouble, now) ==
  Run(args, updateState(args, NoState, TRUE, now), "create", dry, m, trouble)

Update(args, state, dry, m, trouble, now) ==
  Run(args, updateState(args, state, TRUE, now), "update", dry, m, trouble)

Delete(state, m, trouble) ==
  IF state.args.delete = Unset THEN Quiet(m, state)
  ELSE Deleted(state, Perform(m, Command(state.args, "delete"), Outcome(trouble, 1)))

-----------------------------------------------------------------------------
AsAsked(args, lifecycle, m) ==
  LET command == Command(args, lifecycle)
  IN command.puts \subseteq m /\ command.drops \cap m = {}

Gone(args, m) == args.delete # Unset => AsAsked(args, "delete", m)
=============================================================================
