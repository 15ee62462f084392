-------------------------------- MODULE Apt ---------------------------------
(***************************************************************************)
(* The handlers of the Apt resource (provider/resource/apt.go).  The       *)
(* machine is that of Package.  A program asks for packages by name, for a *)
(* deb, which is a version of one package, or for upkeep: to upgrade what  *)
(* is installed or to clean the cache.  The other options, dependencies    *)
(* and the name "*" are left out.                                          *)
(***************************************************************************)
EXTENDS Handlers

CONSTANT Packages \* names of packages

D == INSTANCE Package

Machines == D!Machines
Parts == Packages

-----------------------------------------------------------------------------
(* The Ansible module "apt", as far as it gets: with the packages done.     *)

Goal(m, params, done) ==
  [p \in Packages |->
     IF p \notin done THEN m[p]
     ELSE IF params.upkeep = "upgrade" THEN (IF m[p] = "outdated" THEN "newest" ELSE m[p])
     ELSE IF params.deb # Unset THEN (IF p = params.deb.package THEN params.deb.version ELSE m[p])
     ELSE IF p \in params.names THEN D!Goal(m[p], params.state) ELSE m[p]]

\* A deb that is older than what is installed.
Refuses(m, params) ==
  /\ params.deb # Unset
  /\ m[params.deb.package] = "newest" /\ params.deb.version = "outdated"

\* packages_tracked: of a deb only what it is about to install, of names all, but
\* none at all when there is nothing to install.
Tracked(m, goal, params) ==
  IF params.deb # Unset THEN (IF goal # m THEN {params.deb.package} ELSE {})
  ELSE IF params.upkeep # Unset THEN Unset
  ELSE IF params.state = "absent" \/ goal # m THEN params.names
  ELSE Unset

Task(m, params, dry, call) ==
  LET goal == Goal(m, params, Packages)
      ran == IF Refuses(m, params) /\ call.kind # "unreachable" THEN RanInVain(m)
             ELSE Ran(m, goal, Goal(m, params, call.done), dry, call)
  IN [ m |-> ran.m, err |-> ran.err, changed |-> ran.changed \/ params.upkeep = "clean",
       tracked |-> Tracked(m, goal, params) ]

-----------------------------------------------------------------------------
canAssumeEnsure(args) == ~D!NoNames(args) \/ args.deb # Unset \/ args.upkeep = Unset

\* An unset state is "present" for the module.
argsToTaskParameters(args) ==
  [ names |-> IF D!NoNames(args) THEN {} ELSE D!TaskNames(args),
    state |-> D!WantEnsure(args), deb |-> args.deb, upkeep |-> args.upkeep ]

\* A machine that a preview or a refresh cannot reach counts as changed.
runApt(m, params, dry, call) ==
  IF dry /\ call.kind = "unreachable"
  THEN [m |-> m, err |-> "none", changed |-> TRUE, tracked |-> Unset]
  ELSE Task(m, params, dry, call)

\* The state also has an ensure and the packages the module has tracked.
AptState(state, ensure, tracked) ==
  [args |-> state.args, triggers |-> state.triggers, ensure |-> ensure, tracked |-> tracked]

updateApt(args, state, changed, now) ==
  AptState(updateState(args, state, changed, now),
           IF args.ensure = Unset /\ canAssumeEnsure(args) THEN "present" ELSE args.ensure,
           state.tracked)

Track(state, task) ==
  IF task.tracked = Unset THEN state ELSE AptState(state, state.ensure, task.tracked)

Diff(args, state) ==
  Merged(Differs(args, [state.args EXCEPT !.ensure = state.ensure], {}), FALSE, TRUE, args, state)

Create(args, dry, m, trouble, now) ==
  LET state == updateApt(args, AptState(NoState, Unset, {}), TRUE, now)
      task == runApt(m, argsToTaskParameters(args), dry, Outcome(trouble, 1))
  IN IF dry /\ ~Check THEN Quiet(m, state)
     ELSE IF task.err # "none" THEN Response(task, state, dry)
     ELSE Quiet(task.m, Track(state, task))

\* Of what it finds Read tells only that a package is there that should not be.
Read(args, state, m, trouble, now) ==
  LET task == runApt(m, argsToTaskParameters(args), TRUE, Outcome(trouble, 1))
      asked == updateApt(args, Track(state, task), task.changed, now)
  IN IF task.err # "none" THEN Response(task, state, TRUE)
     ELSE Quiet(task.m, IF task.changed /\ asked.ensure = "absent"
                        THEN [asked EXCEPT !.ensure = "present"] ELSE asked)

\* One task for a program that wants packages absent, a deb or upkeep.  What the
\* old inputs were about is left alone.
UpdateOnce(args, state, dry, m, trouble, now) ==
  LET task == runApt(m, argsToTaskParameters(args), dry, Outcome(trouble, 1))
  IN IF task.err # "none" THEN Response(task, state, dry)
     ELSE Quiet(task.m, updateApt(args, Track(state, task), task.changed, now))

\* Packages by name, as in Package.Update.  The provider panics when the state
\* has no names.
UpdateTwice(args, state, dry, m, trouble, now) ==
  LET params == argsToTaskParameters(args)
      absents == D!Absents(args, state)
      presents == D!Presents(args, state)
      skipped(n) == [m |-> n, err |-> "none", changed |-> FALSE, tracked |-> {}]
      first == IF absents = {} THEN skipped(m)
               ELSE runApt(m, [params EXCEPT !.names = absents, !.state = "absent"], dry, Outcome(trouble, 1))
      second == IF presents = {} THEN skipped(first.m)
                ELSE runApt(first.m, [params EXCEPT !.names = presents, !.state = D!NewState(args, state)],
                            dry, Outcome(trouble, 2))
      of(task) == IF task.tracked = Unset THEN {} ELSE task.tracked
      tracking == AptState(state, state.ensure, (state.tracked \ of(first)) \cup of(second))
  IN IF D!NoNames(state.args) THEN Refused(m, state)
     ELSE IF first.err # "none" THEN Response(first, state, dry)
     ELSE IF second.err # "none" THEN Response(second, state, dry)
     ELSE Quiet(second.m, updateApt(args, tracking, first.changed \/ second.changed, now))

Update(args, state, dry, m, trouble, now) ==
  IF dry /\ ~Check THEN Quiet(m, updateApt(args, state, TRUE, now))
  ELSE IF args.ensure = "absent" \/ ~canAssumeEnsure(args) \/ args.deb # Unset
  THEN UpdateOnce(args, state, dry, m, trouble, now)
  ELSE UpdateTwice(args, state, dry, m, trouble, now)

\* For a deb the packages that were tracked when its task ran last, be it for a
\* refresh: none, if it was installed then.
Delete(state, m, trouble) ==
  LET params == [argsToTaskParameters(state.args) EXCEPT !.state = "absent"]
      undo == IF params.deb = Unset THEN params ELSE [params EXCEPT !.deb = Unset, !.names = state.tracked]
  IN IF ~canAssumeEnsure(state.args) \/ state.ensure = "absent" THEN Quiet(m, state)
     ELSE Deleted(state, runApt(m, undo, FALSE, Outcome(trouble, 1)))

-----------------------------------------------------------------------------
AsAsked(args, m) ==
  IF args.deb # Unset THEN m[args.deb.package] = args.deb.version
  ELSE IF args.upkeep = "upgrade" THEN \A p \in Packages : m[p] # "outdated"
  ELSE IF args.upkeep = "clean" THEN TRUE
  ELSE D!AsAsked(args, m)

Gone(args, m) ==
  IF args.deb # Unset THEN m[args.deb.package] = "absent"
  ELSE \A p \in D!NamesOf(args) : m[p] = "absent"

\* An update from names to names removes those that only the old inputs had.
Dropped(args, old, m) == ~D!NoNames(args) /\ ~D!NoNames(old) => D!Dropped(args, old, m)
=============================================================================
