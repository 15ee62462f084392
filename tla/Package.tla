------------------------------ MODULE Package -------------------------------
(***************************************************************************)
(* The handlers of the Package resource (provider/resource/package.go).    *)
(* The machine gives each package's version: absent, outdated or newest.   *)
(* A call that fails may have brought some packages, the set done, to      *)
(* their goal.                                                             *)
(***************************************************************************)
EXTENDS Handlers

CONSTANT Packages \* names of packages

Versions == {"absent", "outdated", "newest"}
Machines == [Packages -> Versions]
Parts == Packages

-----------------------------------------------------------------------------
(* The Ansible module "package", which the agent runs on the machine. *)

Goal(version, ensure) ==
  CASE ensure = "absent" -> "absent"
    [] ensure = "latest" -> "newest"
    [] OTHER -> IF version = "absent" THEN "newest" ELSE version

Converge(m, names, ensure) ==
  [p \in Packages |-> IF p \in names THEN Goal(m[p], ensure) ELSE m[p]]

Task(m, names, ensure, dry, call) ==
  Ran(m, Converge(m, names, ensure), Converge(m, names \cap call.done, ensure), dry, call)

-----------------------------------------------------------------------------
NoNames(args) == args.name = Unset /\ args.names = Unset

\* argsToTaskParameters prefers names over name.
TaskNames(args) == IF args.names = Unset THEN {args.name} ELSE args.names

WantEnsure(args) == IF args.ensure = Unset THEN "present" ELSE args.ensure

\* The state also has an ensure, which is never unset.
PackageState(state, ensure) ==
  [args |-> state.args, triggers |-> state.triggers, ensure |-> ensure]

updatePackage(args, state, changed, now) ==
  PackageState(updateState(args, state, changed, now), WantEnsure(args))

Diff(args, state) ==
  Merged(WantEnsure(args) # state.ensure \/ Differs(args, state.args, {"ensure"}), FALSE, TRUE,
         args, state)

Create(args, dry, m, trouble, now) ==
  LET state == updatePackage(args, NoState, TRUE, now)
  IN IF dry /\ ~Check THEN Quiet(m, state)
     ELSE IF NoNames(args) THEN Refused(m, state)
     ELSE Response(Task(m, TaskNames(args), WantEnsure(args), dry, Outcome(trouble, 1)), state, dry)

\* Package.Read runs the task in check mode; a task that would change
\* something means that the packages are not as the state says.
Read(args, state, m, trouble, now) ==
  LET task == Task(m, TaskNames(args), WantEnsure(args), TRUE, Outcome(trouble, 1))
      asked == updatePackage(args, state, task.changed, now)
      found == IF ~task.changed THEN asked
               ELSE IF asked.ensure = "absent" THEN [asked EXCEPT !.ensure = "present"]
               ELSE IF asked.ensure = "present" THEN [asked EXCEPT !.ensure = "absent"]
               ELSE asked
  IN IF NoNames(args) THEN Refused(m, state)
     ELSE IF task.err # "none" THEN Response(task, state, TRUE)
     ELSE Quiet(m, found)

\* Package.Update: the state to bring every package of the new inputs to, and
\* the packages only the old state names, which are removed.  An update without
\* an ensure keeps the one in the state.
NewState(args, state) == IF args.ensure = Unset THEN state.ensure ELSE args.ensure

NameFirst(args) == IF args.name # Unset THEN {args.name} ELSE args.names

UpdateNames(args, state) ==
  IF NoNames(args) THEN NameFirst(state.args) ELSE NameFirst(args)

Absents(args, state) ==
  LET dropped == NameFirst(state.args) \ UpdateNames(args, state)
  IN IF NewState(args, state) = "absent" THEN dropped \cup UpdateNames(args, state) ELSE dropped

Presents(args, state) ==
  IF NewState(args, state) = "absent" THEN {} ELSE UpdateNames(args, state)

\* A call that is not made: there is nothing to do for it.
Skip(m) == [m |-> m, err |-> "none", changed |-> FALSE]

FaultUpdateTwice(args, state, dry, m, trouble, now) ==
  LET task == Task(m, UpdateNames(args, state), NewState(args, state), FALSE, Outcome(trouble, 2))
  IN IF task.err # "none" THEN Response(task, state, dry)
     ELSE Quiet(task.m, updatePackage(args, state, task.changed, now))

UpdateTwice(args, state, dry, m, trouble, now) ==
  LET absents == Absents(args, state)
      presents == Presents(args, state)
      first == IF absents = {} THEN Skip(m) ELSE Task(m, absents, "absent", dry, Outcome(trouble, 1))
      second == IF presents = {} THEN Skip(first.m)
                ELSE Task(first.m, presents, NewState(args, state), dry, Outcome(trouble, 2))
  IN IF first.err # "none" THEN Response(first, state, dry)
     ELSE IF second.err # "none" THEN Response(second, state, dry)
     ELSE Quiet(second.m, updatePackage(args, state, first.changed \/ second.changed, now))

UpdateAbsent(args, state, dry, m, trouble, now) ==
  LET task == Task(m, TaskNames(args), "absent", dry, Outcome(trouble, 1))
  IN IF NoNames(args) THEN Refused(m, state)
     ELSE IF task.err # "none" THEN Response(task, state, dry)
     ELSE Quiet(task.m, updatePackage(args, state, task.changed, now))

Update(args, state, dry, m, trouble, now) ==
  IF dry /\ ~Check THEN Quiet(m, updatePackage(args, state, TRUE, now))
  ELSE IF args.ensure = "absent" THEN UpdateAbsent(args, state, dry, m, trouble, now)
  ELSE UpdateTwice(args, state, dry, m, trouble, now)

Delete(state, m, trouble) ==
  IF state.ensure = "absent" THEN Quiet(m, state)
  ELSE IF NoNames(state.args) THEN Refused(m, state)
  ELSE Deleted(state, Task(m, TaskNames(state.args), "absent", FALSE, Outcome(trouble, 1)))

-----------------------------------------------------------------------------
NamesOf(args) == IF NoNames(args) THEN {} ELSE NameFirst(args)

AsAsked(args, m) ==
  \A p \in NamesOf(args) :
    CASE WantEnsure(args) = "absent" -> m[p] = "absent"
      [] WantEnsure(args) = "latest" -> m[p] = "newest"
      [] OTHER -> m[p] # "absent"

Gone(args, m) == \A p \in NamesOf(args) : m[p] = "absent"

\* A refresh that finds a part of a list missing records the whole list as absent,
\* and a destroy then leaves the rest behind.
Misreads(args, m) == WantEnsure(args) = "present" /\ ~AsAsked(args, m) /\ ~Gone(args, m)

\* An update that wants its packages present removes those that only the old
\* inputs named.
Dropped(args, old, m) ==
  WantEnsure(args) # "absent" => \A p \in NamesOf(old) \ NamesOf(args) : m[p] = "absent"
=============================================================================
