------------------------------ MODULE FileLine ------------------------------
(***************************************************************************)
(* The handlers of the FileLine resource (provider/resource/file_line.go)  *)
(* as functions from a request, the file on the machine and the outcomes   *)
(* of the calls they make to a response: the file afterwards (m), the      *)
(* state returned (s) and the error (err).  The resource has no Delete.    *)
(*                                                                         *)
(* A file is NoFile, NoLine when no line matches the resource's regexp,    *)
(* or the line that does.  Path and regexp are one resource's constants.   *)
(* The outcome of a call is "ok", "unreachable", "failed" (nothing         *)
(* happened) or "lost" (it happened, and the provider got an error).       *)
(***************************************************************************)
CONSTANTS
  Lines,  \* lines of text
  NoFile, \* the file does not exist
  NoLine, \* the file has no line that matches
  Unset,  \* an optional property that is not set
  Check   \* ResourceConfig.GetDryRunCheck: previews ask the machine

INSTANCE Triggers

File == Lines \cup {NoFile, NoLine}

-----------------------------------------------------------------------------
(* The Ansible module "lineinfile" and the agent's FileStat. *)

WantAbsent(args) == args.ensure = "absent"

\* The module refuses a present line without a text, or in a missing file that
\* it is not told to create.
Refuses(args, file) ==
  ~WantAbsent(args) /\ (args.line = Unset \/ (file = NoFile /\ ~args.create))

Desired(args, file) ==
  IF ~WantAbsent(args) THEN args.line
  ELSE IF file = NoFile THEN NoFile
  ELSE NoLine

Lineinfile(args, file, dry, call) ==
  LET refused == Refuses(args, file)
  IN [ m |-> IF dry \/ refused \/ call \in {"unreachable", "failed"} THEN file ELSE Desired(args, file),
       err |-> IF call # "ok" THEN call
               ELSE IF refused THEN "failed"
               ELSE "none",
       changed |-> ~refused /\ Desired(args, file) # file ]

-----------------------------------------------------------------------------
\* FileLineState{}
NoState == [args |-> Unset, drifted |-> {}, triggers |-> NoTriggers]

updateState(args, state, changed, now) ==
  [ args     |-> args,
    drifted  |-> state.drifted,
    triggers |-> UpdateTriggerState(state.triggers, args.triggers, changed, now) ]

\* ansibleLineinfileDiffedAttributes: what the module reports as different.
DiffedAttributes(task) ==
  IF task.changed THEN {"state", "content", "ensure", "line"} ELSE {}

\* updateStateDrifted: of the reported properties it keeps those that the
\* inputs have and set.
updateStateDrifted(args, state, props, now) ==
  LET set == {p \in props \cap {"ensure", "line"} : args[p] # Unset}
  IN [updateState(args, state, props # {}, now) EXCEPT !.drifted = @ \cup set]

\* What every handler returns for a call that did not succeed.
Response(task, state, dry) ==
  [ m |-> task.m, s |-> state,
    err |-> IF dry /\ task.err = "unreachable" THEN "none" ELSE task.err ]

Quiet(file, state) == [m |-> file, s |-> state, err |-> "none"]

FaultDiff(args, state) ==
  [ replace |-> FALSE,
    changes |-> \/ Differs(args, state.args, {})
                \/ DiffTriggers(state.triggers, args.triggers).refresh ]

\* FileLine.Diff
Diff(args, state) ==
  LET triggers == DiffTriggers(state.triggers, args.triggers)
  IN [ replace |-> triggers.replace,
       changes |-> \/ state.drifted # {}
                   \/ Differs(args, state.args, {})
                   \/ triggers.refresh \/ triggers.replace ]

\* FileLine.Create; calls[1] is the FileStat of a preview, calls[2] the task.
\* In a preview the file need not exist yet.
Create(args, dry, file, calls, now) ==
  LET state == updateState(args, NoState, TRUE, now)
      stat == [m |-> file, err |-> calls[1]]
      task == Lineinfile(args, file, dry, calls[2])
  IN IF dry /\ ~Check THEN Quiet(file, state)
     ELSE IF dry /\ calls[1] # "ok" THEN Response(stat, state, dry)
     ELSE IF dry /\ file = NoFile THEN Quiet(file, state)
     ELSE Response(task, state, dry)

FaultRead(args, state, file, call, now) ==
  LET task == Lineinfile(args, file, TRUE, call)
  IN IF task.err # "none" THEN Response(task, state, TRUE)
     ELSE Quiet(file, updateStateDrifted(args, updateState(args, state, TRUE, now), DiffedAttributes(task), now))

\* FileLine.Read; an unchanged task leaves even the inputs of the state alone.
Read(args, state, file, call, now) ==
  LET task == Lineinfile(args, file, TRUE, call)
  IN IF task.err # "none" THEN Response(task, state, TRUE)
     ELSE IF task.changed
     THEN Quiet(file, updateStateDrifted(args, state, DiffedAttributes(task), now))
     ELSE Quiet(file, state)

FaultUpdate(args, state, dry, file, calls, now) ==
  LET task == Lineinfile(args, file, dry, calls[2])
  IN IF task.err # "none" THEN Response(task, state, dry)
     ELSE Quiet(task.m, [updateState(args, state, FALSE, now) EXCEPT !.drifted = {}])

\* FileLine.Update; only an update that is no preview forgets the drift.
Update(args, state, dry, file, calls, now) ==
  LET stat == [m |-> file, err |-> calls[1]]
      task == Lineinfile(args, file, dry, calls[2])
      made == IF task.changed THEN updateStateDrifted(args, state, DiffedAttributes(task), now)
              ELSE updateState(args, state, FALSE, now)
  IN IF dry /\ ~Check THEN Quiet(file, updateState(args, state, TRUE, now))
     ELSE IF dry /\ calls[1] # "ok" THEN Response(stat, state, dry)
     ELSE IF dry /\ file = NoFile THEN Quiet(file, updateState(args, state, TRUE, now))
     ELSE IF task.err # "none" THEN Response(task, state, dry)
     ELSE Quiet(task.m, IF dry THEN made ELSE [made EXCEPT !.drifted = {}])
=============================================================================
