-------------------------- MODULE AnsibleTaskList ---------------------------
(***************************************************************************)
(* The handlers of the AnsibleTaskList resource                            *)
(* (provider/resource/ansible_task_list.go): a list of tasks for each of   *)
(* create, update and delete.  The machine is the set of marks that tasks  *)
(* have left; a task puts and drops some.  The results of the tasks are    *)
(* left out.                                                               *)
(***************************************************************************)
EXTENDS Handlers, SequencesExt

CONSTANT Marks \* what tasks can leave on a machine

Machines == SUBSET Marks

Perform(m, task, call) ==
  LET after(done) == (m \cup (task.puts \cap done)) \ (task.drops \cap done)
  IN Ran(m, after(Marks), after(call.done), FALSE, call)

-----------------------------------------------------------------------------
Tasks(args, lifecycle) ==
  CASE lifecycle = "update" /\ args.tasks.update # Unset -> args.tasks.update
    [] lifecycle = "delete" -> IF args.tasks.delete = Unset THEN <<>> ELSE args.tasks.delete
    [] OTHER -> args.tasks.create

FaultOneByOne(tasks, m, trouble) ==
  FoldLeftDomain(LAMBDA before, i :
    LET ran == Perform(before.m, tasks[i], Outcome(trouble, i + 1))
    IN [m |-> ran.m, err |-> ran.err],
    [m |-> m, err |-> "none"], tasks)

\* The tasks run one after the other; one that fails ends the list unless its
\* errors are ignored.
OneByOne(tasks, m, trouble) ==
  FoldLeftDomain(LAMBDA before, i :
    LET ran == Perform(before.m, tasks[i], Outcome(trouble, i + 1))
    IN IF before.err # "none" THEN before
       ELSE [m |-> ran.m, err |-> IF tasks[i].ignoreErrors THEN "none" ELSE ran.err],
    [m |-> m, err |-> "none"], tasks)

\* run: the first call only finds out whether the machine can be reached.
Run(args, state, lifecycle, m, trouble) ==
  LET connected == Outcome(trouble, 1)
      ran == OneByOne(Tasks(args, lifecycle), m, trouble)
  IN IF lifecycle = "delete" /\ args.tasks.delete = Unset THEN Quiet(m, state)
     ELSE IF connected.kind # "ok" THEN [m |-> m, s |-> state, err |-> connected.kind]
     ELSE Response(ran, state, FALSE)

Diff(args, state) == Merged(Differs(args, state.args, {}), FALSE, TRUE, args, state)

Create(args, dry, m, trouble, now) ==
  LET state == updateState(args, NoState, TRUE, now)
  IN IF dry THEN Quiet(m, state) ELSE Run(args, state, "create", m, trouble)

Update(args, state, dry, m, trouble, now) ==
  LET updated == updateState(args, state, TRUE, now)
  IN IF dry THEN Quiet(m, updated) ELSE Run(args, updated, "update", m, trouble)

Delete(state, m, trouble) ==
  Deleted(state, Run(state.args, state, "delete", m, trouble))

-----------------------------------------------------------------------------
Sure(task, m) == task.ignoreErrors \/ (task.puts \subseteq m /\ task.drops \cap m = {})

AsAsked(args, lifecycle, m) ==
  LET tasks == Tasks(args, lifecycle) IN \A i \in DOMAIN tasks : Sure(tasks[i], m)

Gone(args, m) == AsAsked(args, "delete", m)
=============================================================================
