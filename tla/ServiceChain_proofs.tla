------------------------- MODULE ServiceChain_proofs ------------------------
(***************************************************************************)
(* Proofs, for any lines, programs, failures and number of operations, of  *)
(* what a line and the service that it restarts promise together.          *)
(*                                                                         *)
(* Lemmas say what a handler answers, whatever the calls it makes come to; *)
(* from these follows what each operation of the engine may do, and from   *)
(* that the inductive invariant.                                           *)
(***************************************************************************)
EXTENDS ServiceChain, TLAPS

LineStates ==
  [ args : LineInputs, drifted : SUBSET {"ensure", "line"},
    triggers : [refresh : {Unset}, replace : {Unset}, lastChanged : Nat] ]

Watched == [refresh : Nat, replace : {Unset}]
WatchingInputs ==
  [ensure : Ensures, enabled : BOOLEAN \cup {Unset}, refreshAction : Actions, triggers : Watched]
ServiceStates ==
  [args : WatchingInputs, triggers : [refresh : Nat, replace : {Unset}, lastChanged : Nat]]

TypeOK ==
  /\ file \in F!File /\ unit \in S!Unit
  /\ line \in LineStates \cup {F!NoState}
  /\ service \in ServiceStates \cup {S!NoState}
  /\ inputs \in [line : LineInputs \cup {Unset}, service : WatchingInputs \cup {Unset}]
  /\ line # F!NoState => inputs.line \in LineInputs
  /\ service # S!NoState => inputs.service \in WatchingInputs
  /\ doing \in Programs \cup {NoProgram} /\ settled \in Programs \cup {NoProgram}
  /\ ops \in Nat /\ unseen \in BOOLEAN /\ owed \in BOOLEAN

\* A unit that is not there neither runs nor is enabled.
MissingIsOff == ~unit.exists => ~unit.running /\ ~unit.enabled

\* Times are of the past; the trigger a service was given is the one it keeps.
ClocksAgree ==
  /\ line.triggers.lastChanged <= ops
  /\ service # S!NoState =>
       /\ service.triggers.refresh <= ops
       /\ inputs.service.triggers.refresh = service.triggers.refresh

\* The file is as the line's state says, or the difference is on record.
LineKnown ==
  line # F!NoState /\ ~unseen => line.drifted # {} \/ file = F!Desired(line.args, file)

\* What the program sets the state has; it may have more.
Holds(args, asked) ==
  \A p \in {"line", "ensure", "create"} : asked[p] # Unset => args[p] = asked[p]

\* Between the two halves of an up the line's state holds what its program
\* asks, and no drift.
HalfDone ==
  doing # NoProgram =>
    /\ line # F!NoState /\ line.drifted = {}
    /\ Holds(line.args, doing.line)
    /\ inputs.line = doing.line

\* The next up restarts a service that has not loaded its configuration.
DebtIsSeen ==
  "lost" \notin LineCalls /\ owed /\ service # S!NoState
    => service.triggers.refresh # line.triggers.lastChanged

\* What was applied and left alone is as its program asks, so that neither a
\* refresh nor another up finds anything to do.
SettledIsSame ==
  settled # NoProgram =>
    /\ line # F!NoState /\ line.drifted = {} /\ ~unseen
    /\ line.args = settled.line /\ inputs.line = settled.line
    /\ service # S!NoState
    /\ inputs.service = ServiceArgs(settled, line.triggers)
    /\ ~S!Diff(inputs.service, service).changes

Restarted == "lost" \notin LineCalls => RestartOnChange

\* The module takes no present line without a text.
HasText(args) == args.ensure = "absent" \/ args.line # Unset
TextsGiven == \A p \in Programs : HasText(p.line)
Previewed == TextsGiven => PreviewBeforeAnything

IInv ==
  /\ TypeOK
  /\ MissingIsOff
  /\ ClocksAgree
  /\ LineKnown
  /\ HalfDone
  /\ DebtIsSeen
  /\ SettledIsSame
  /\ UpSetsTheLine
  /\ Restarted
  /\ Previewed
  /\ DestroyStops

-----------------------------------------------------------------------------
(* The handlers of FileLine. *)

LineOutcomes == {"ok", "unreachable", "failed", "lost"}

\* The state a FileLine has after its inputs were applied or compared.
LineState(args, drifted, now) ==
  [ args |-> args, drifted |-> drifted,
    triggers |-> [refresh |-> Unset, replace |-> Unset, lastChanged |-> now] ]

LEMMA LineStateTyped ==
  ASSUME NEW args \in LineInputs, NEW drifted \in SUBSET {"ensure", "line"}, NEW now \in Nat
  PROVE  LineState(args, drifted, now) \in LineStates
  BY DEF LineState, LineStates

LEMMA LineStateFields ==
  ASSUME NEW args, NEW drifted, NEW now
  PROVE  LET s == LineState(args, drifted, now)
         IN s.args = args /\ s.drifted = drifted /\ s.triggers.lastChanged = now
  BY DEF LineState

LEMMA LineinfileDoes ==
  ASSUME NEW args \in LineInputs, NEW f \in F!File, NEW call \in LineOutcomes
  PROVE  LET task == F!Lineinfile(args, f, FALSE, call)
         IN /\ task.m \in F!File
            /\ task.err = "none" =>
                 /\ task.m = F!Desired(args, f)
                 /\ F!Desired(args, task.m) = task.m
                 /\ task.changed <=> task.m # f
            /\ task.err # "none" /\ call # "lost" => task.m = f
  <1> DEFINE task == F!Lineinfile(args, f, FALSE, call)
             refused == F!Refuses(args, f)
  <1>1. /\ task.m = IF refused \/ call \in {"unreachable", "failed"} THEN f ELSE F!Desired(args, f)
        /\ task.err = IF call # "ok" THEN call ELSE IF refused THEN "failed" ELSE "none"
        /\ task.changed = (~refused /\ F!Desired(args, f) # f)
    BY DEF F!Lineinfile
  <1>2. refused \in BOOLEAN
    BY DEF F!Refuses
  <1>3. ~refused => F!Desired(args, f) \in F!File
    BY DEF F!Refuses, F!Desired, F!WantAbsent, F!File, LineInputs
  <1>4. F!Desired(args, F!Desired(args, f)) = F!Desired(args, f)
    BY DEF F!Desired, F!WantAbsent
  <1> HIDE DEF task, refused
  <1>5. task.err = "none" => call = "ok" /\ ~refused
    BY <1>1, <1>2 DEF LineOutcomes
  <1>6. CASE ~refused /\ call = "ok"
    BY <1>1, <1>3, <1>4, <1>6 DEF task
  <1>7. CASE refused \/ call # "ok"
    BY <1>1, <1>2, <1>3, <1>5, <1>7 DEF LineOutcomes, task
  <1> QED
    BY <1>2, <1>6, <1>7

\* What the first up of a line answers.
CreatesLine(made, args, f, call, now) ==
  /\ made.m \in F!File
  /\ made.err = "none" =>
       made.m = F!Desired(args, made.m) /\ made.s = LineState(args, {}, now)
  /\ made.err # "none" /\ call # "lost" => made.m = f

LEMMA LineCreated ==
  ASSUME NEW args \in LineInputs, NEW f \in F!File, NEW calls, calls[2] \in LineOutcomes,
         NEW now \in Nat
  PROVE  CreatesLine(F!Create(args, FALSE, f, calls, now), args, f, calls[2], now)
  <1> DEFINE call == calls[2]
             task == F!Lineinfile(args, f, FALSE, call)
             made == F!Create(args, FALSE, f, calls, now)
  <1>1. made.m = task.m /\ made.err = task.err
    BY DEF F!Create, F!Response
  <1>2. made.s = LineState(args, {}, now)
    BY DEF F!Create, F!Response, F!updateState, F!UpdateTriggerState, F!NoState, F!NoTriggers,
           LineInputs, LineState
  <1>3. /\ task.m \in F!File
        /\ task.err = "none" => F!Desired(args, task.m) = task.m
        /\ task.err # "none" /\ call # "lost" => task.m = f
    <2> call \in LineOutcomes
      OBVIOUS
    <2> HIDE DEF call
    <2> QED
      BY LineinfileDoes
  <1> HIDE DEF task, made
  <1>4. CreatesLine(made, args, f, call, now)
    BY <1>1, <1>2, <1>3 DEF CreatesLine
  <1> QED
    BY <1>4, Zenon DEF made, call

\* What a later one answers: it stamps a change.
UpdatesLine(made, args, state, f, call, now) ==
  /\ made.m \in F!File
  /\ made.err = "none" =>
       /\ made.m = F!Desired(args, made.m)
       /\ \/ made.s = LineState(args, {}, now)
          \/ made.s = LineState(args, {}, state.triggers.lastChanged) /\ made.m = f
  /\ made.err # "none" /\ call # "lost" => made.m = f

LEMMA LineUpdated ==
  ASSUME NEW args \in LineInputs, NEW state \in LineStates, NEW f \in F!File, NEW calls,
         calls[2] \in LineOutcomes, NEW now \in Nat
  PROVE  UpdatesLine(F!Update(args, state, FALSE, f, calls, now), args, state, f, calls[2], now)
  <1> DEFINE call == calls[2]
             task == F!Lineinfile(args, f, FALSE, call)
             made == F!Update(args, state, FALSE, f, calls, now)
  <1>1. made.m = task.m /\ made.err = task.err
    BY DEF F!Update, F!Response, F!Quiet
  <1>2. ASSUME task.err = "none", task.changed
        PROVE  made.s = LineState(args, {}, now)
    BY <1>2 DEF F!Update, F!Quiet, F!updateStateDrifted, F!DiffedAttributes, F!updateState,
                F!UpdateTriggerState, LineInputs, LineStates, LineState
  <1>3. ASSUME task.err = "none", ~task.changed
        PROVE  made.s = LineState(args, {}, state.triggers.lastChanged)
    BY <1>3 DEF F!Update, F!Quiet, F!updateState, F!UpdateTriggerState, LineInputs, LineStates,
                LineState
  <1>4. /\ task.m \in F!File
        /\ task.err = "none" =>
             F!Desired(args, task.m) = task.m /\ (task.changed <=> task.m # f)
        /\ task.err # "none" /\ call # "lost" => task.m = f
    <2> call \in LineOutcomes
      OBVIOUS
    <2> HIDE DEF call
    <2> QED
      BY LineinfileDoes, ZenonT(60)
  <1> HIDE DEF task, made
  <1>5. UpdatesLine(made, args, state, f, call, now)
    BY <1>1, <1>2, <1>3, <1>4 DEF UpdatesLine
  <1> QED
    BY <1>5, Zenon DEF made, call

\* What a refresh of a line answers to the inputs it is given: it finds the file
\* as they ask, or puts the difference, and the inputs, into the state.
ReadsLine(found, args, state, f, call, now) ==
  /\ found.m = f
  /\ found.err = "none" =>
       \/ found.s = state /\ (call = "ok" => f = F!Desired(args, f))
       \/ /\ f # F!Desired(args, f)
          /\ \E set \in (SUBSET {"ensure", "line"}) \ {{}} :
               found.s = LineState(args, state.drifted \cup set, now)

LEMMA LineRead ==
  ASSUME NEW args \in LineInputs, NEW state \in LineStates, NEW f \in F!File,
         NEW call \in LineOutcomes, NEW now \in Nat
  PROVE  ReadsLine(F!Read(args, state, f, call, now), args, state, f, call, now)
  <1> DEFINE task == F!Lineinfile(args, f, TRUE, call)
             found == F!Read(args, state, f, call, now)
             set == {p \in F!DiffedAttributes(task) \cap {"ensure", "line"} : args[p] # Unset}
  <1>1. found.m = f
    BY DEF F!Read, F!Response, F!Quiet, F!Lineinfile
  <1>2. ASSUME task.err # "none"
        PROVE  found.s = state /\ (found.err = "none" => call # "ok")
    <2>1. found.s = state /\ found.err = IF task.err = "unreachable" THEN "none" ELSE task.err
      BY <1>2 DEF F!Read, F!Response
    <2>2. call = "ok" => task.err = "failed"
      BY <1>2 DEF F!Lineinfile, F!Refuses
    <2> QED
      BY <1>2, <2>1, <2>2
  <1>3. ASSUME task.err = "none", ~task.changed
        PROVE  found.s = state /\ f = F!Desired(args, f)
    <2>1. found.s = state
      BY <1>3 DEF F!Read, F!Quiet
    <2>2. f = F!Desired(args, f)
      BY <1>3 DEF F!Lineinfile, F!Refuses, LineOutcomes
    <2> QED
      BY <2>1, <2>2
  <1>4. ASSUME task.err = "none", task.changed
        PROVE  /\ f # F!Desired(args, f)
               /\ set \in (SUBSET {"ensure", "line"}) \ {{}}
               /\ found.s = LineState(args, state.drifted \cup set, now)
    <2>1. ~F!Refuses(args, f) /\ f # F!Desired(args, f)
      BY <1>4 DEF F!Lineinfile
    <2>2. args["ensure"] # Unset \/ args["line"] # Unset
      BY <2>1, UnsetAssumption DEF F!Refuses, F!WantAbsent
    <2>3. set # {} /\ set \subseteq {"ensure", "line"}
      BY <1>4, <2>2 DEF F!DiffedAttributes
    <2>4. found.s = LineState(args, state.drifted \cup set, now)
      BY <1>4 DEF F!Read, F!Quiet, F!updateStateDrifted, F!DiffedAttributes, F!updateState,
                  F!UpdateTriggerState, LineInputs, LineStates, LineState
    <2> QED
      BY <2>1, <2>3, <2>4
  <1> HIDE DEF task, found, set
  <1>5. \/ found.s = state /\ (found.err = "none" /\ call = "ok" => f = F!Desired(args, f))
        \/ /\ f # F!Desired(args, f)
           /\ \E e \in (SUBSET {"ensure", "line"}) \ {{}} :
                found.s = LineState(args, state.drifted \cup e, now)
    BY <1>2, <1>3, <1>4
  <1>6. ReadsLine(found, args, state, f, call, now)
    BY <1>1, <1>5 DEF ReadsLine
  <1> QED
    BY <1>6, Zenon DEF found

\* A preview leaves the machine as it is, and succeeds if its calls do.
LooksAt(made, was, sane, calls) ==
  made.m = was /\ (sane /\ calls[1] = "ok" /\ calls[2] = "ok" => made.err = "none")

LEMMA LineCreatePreviewed ==
  ASSUME NEW args \in LineInputs, NEW f, NEW calls, NEW now
  PROVE  LooksAt(F!Create(args, TRUE, f, calls, now), f, HasText(args), calls)
  BY DEF HasText, LooksAt, F!Create, F!Quiet, F!Response, F!Lineinfile, F!Refuses, F!WantAbsent

LEMMA LineUpdatePreviewed ==
  ASSUME NEW args \in LineInputs, NEW state, NEW f, NEW calls, NEW now
  PROVE  LooksAt(F!Update(args, state, TRUE, f, calls, now), f, HasText(args), calls)
  BY DEF HasText, LooksAt, F!Update, F!Quiet, F!Response, F!Lineinfile, F!Refuses, F!WantAbsent

-----------------------------------------------------------------------------
(* The handlers of SystemdService. *)

\* The state a service has after its inputs were applied or compared.
ServiceState(args, now) ==
  [ args |-> args,
    triggers |-> [refresh |-> args.triggers.refresh, replace |-> Unset, lastChanged |-> now] ]

LEMMA ServiceStateTyped ==
  ASSUME NEW args \in WatchingInputs, NEW now \in Nat
  PROVE  ServiceState(args, now) \in ServiceStates
  BY DEF ServiceState, ServiceStates, WatchingInputs, Watched

\* What the module is asked for.
Goals == [ensure : Ensures, enabled : BOOLEAN \cup {Unset}]

LEMMA EnableDoes ==
  ASSUME NEW u \in S!Unit, NEW enabled \in BOOLEAN \cup {Unset}
  PROVE  LET made == S!Enable(u, enabled)
         IN /\ made \in S!Unit
            /\ made.exists = u.exists
            /\ made.enabled = IF enabled = Unset THEN u.enabled ELSE enabled
  BY DEF S!Enable, S!Unit

LEMMA StartDoes ==
  ASSUME NEW u \in S!Unit, NEW ensure, NEW config \in F!File
  PROVE  LET made == S!Start(u, ensure, config)
         IN /\ made \in S!Unit
            /\ made.exists = u.exists /\ made.enabled = u.enabled
            /\ ensure = "stopped" => ~made.running
  BY DEF S!Start, S!Unit, F!File

\* The unit after a call, which may have done a part.
Keeps(now, u) == now \in S!Unit /\ now.exists = u.exists /\ (~u.exists => now = u)

\* The module's answer.
Sets(task, u, params, config, call) ==
  /\ Keeps(task.m, u)
  /\ task.err = "none" =>
       /\ call = "ok" /\ u.exists
       /\ task.m = S!Start(S!Enable(u, params.enabled), params.ensure, config)

LEMMA SystemctlDoes ==
  ASSUME NEW u \in S!Unit, NEW params \in Goals,
         NEW config \in F!File, NEW call \in S!Outcomes
  PROVE  Sets(S!Systemctl(u, params, config, FALSE, call), u, params, config, call)
  <1> DEFINE task == S!Systemctl(u, params, config, FALSE, call)
             able == S!Enable(u, params.enabled)
             goal == S!Start(able, params.ensure, config)
  <1>1. able \in S!Unit /\ able.exists = u.exists
    BY EnableDoes DEF Goals
  <1>2. goal \in S!Unit /\ goal.exists = u.exists
    <2> HIDE DEF able
    <2> QED
      BY <1>1, StartDoes
  <1>3. /\ task.m = IF ~u.exists \/ call \in {"unreachable", "failed"} THEN u
                    ELSE IF call = "half" THEN able ELSE goal
        /\ task.err = IF call # "ok" THEN call ELSE IF ~u.exists THEN "failed" ELSE "none"
    BY DEF S!Systemctl, S!Unit
  <1>4. task.err = "none" => call = "ok" /\ u.exists
    BY <1>3 DEF S!Outcomes
  <1> HIDE DEF task, able, goal
  <1>5. Keeps(task.m, u) /\ (call = "ok" /\ u.exists => task.m = goal)
    BY <1>1, <1>2, <1>3 DEF Keeps
  <1>6. Sets(task, u, params, config, call)
    BY <1>4, <1>5 DEF Sets, goal, able
  <1> QED
    BY <1>6, Zenon DEF task

\* What an up of the service answers.
UpdatesService(made, args, u, call) ==
  /\ Keeps(made.m, u)
  /\ made.err = "none" =>
       call = "ok" /\ u.exists /\ \E t \in Nat : made.s = ServiceState(args, t)

LEMMA ServiceUpdated ==
  ASSUME NEW args \in WatchingInputs, NEW state, state.triggers.lastChanged \in Nat,
         NEW u \in S!Unit, NEW config \in F!File, NEW calls, calls[2] \in S!Outcomes,
         NEW now \in Nat
  PROVE  UpdatesService(S!updateService(args, state, FALSE, u, config, calls, now), args, u, calls[2])
  <1> DEFINE call == calls[2]
             params == [ensure |-> S!WantEnsure(args, state), enabled |-> args.enabled]
             task == S!Systemctl(u, params, config, FALSE, call)
             made == S!updateService(args, state, FALSE, u, config, calls, now)
  <1>1. made.m = task.m /\ made.err = task.err
    BY DEF S!updateService, S!Response, S!Quiet
  <1>2. Sets(task, u, params, config, call)
    <2>1. params \in Goals /\ call \in S!Outcomes
      BY DEF WatchingInputs, Goals, Ensures, Actions, S!WantEnsure, S!ActionOf, S!RefreshAction
    <2> HIDE DEF params, call
    <2> QED
      BY <2>1, SystemctlDoes, Zenon
  <1>3. ASSUME task.err = "none"
        PROVE  made.s = ServiceState(args, IF task.changed THEN now ELSE state.triggers.lastChanged)
    BY <1>3, UnsetAssumption
       DEF S!updateService, S!Quiet, S!updateState, S!UpdateTriggerState, ServiceState,
           WatchingInputs, Watched
  <1>4. task.err = "none" => \E t \in Nat : made.s = ServiceState(args, t)
    BY <1>3
  <1> HIDE DEF task, made
  <1>5. UpdatesService(made, args, u, call)
    BY <1>1, <1>2, <1>4 DEF Sets, UpdatesService
  <1> QED
    BY <1>5, Zenon DEF made, call

LEMMA ServicePreviewed ==
  ASSUME NEW args, NEW state, NEW u, NEW config, NEW calls, NEW now
  PROVE  /\ LooksAt(S!Create(args, TRUE, u, config, calls, now), u, TRUE, calls)
         /\ LooksAt(S!Update(args, state, TRUE, u, config, calls, now), u, TRUE, calls)
  BY DEF LooksAt, S!Create, S!Update, S!updateService, S!Response, S!Quiet, S!Systemctl

\* What a refresh of the service answers to the inputs it is given: it copies
\* them into the state, with another time or not.
ReadsService(found, args, state, u) ==
  found.m = u /\ (found.s = state \/ \E t \in Nat : found.s = ServiceState(args, t))

LEMMA ServiceRead ==
  ASSUME NEW args \in WatchingInputs, NEW state \in ServiceStates, NEW u, NEW config, NEW calls,
         NEW now \in Nat
  PROVE  ReadsService(S!Read(args, state, u, config, calls, now), args, state, u)
  <1> DEFINE found == S!updateService(args, state, TRUE, u, config, calls, now)
  <1>1. found.m = u
    BY DEF S!updateService, S!Response, S!Quiet, S!Systemctl
  <1>2. \/ found.s = state
        \/ found.s = S!updateState(args, state, TRUE, now)
        \/ found.s = S!updateState(args, state, FALSE, now)
    BY DEF S!updateService, S!Response, S!Quiet, S!updateState, S!UpdateTriggerState
  <1>3. /\ S!updateState(args, state, TRUE, now) = ServiceState(args, now)
        /\ S!updateState(args, state, FALSE, now) = ServiceState(args, state.triggers.lastChanged)
    BY UnsetAssumption
       DEF S!updateState, S!UpdateTriggerState, ServiceState, ServiceStates, WatchingInputs, Watched
  <1>4. state.triggers.lastChanged \in Nat
    BY DEF ServiceStates
  <1> HIDE DEF found
  <1>5. ReadsService(found, args, state, u)
    BY <1>1, <1>2, <1>3, <1>4 DEF ReadsService
  <1> QED
    BY <1>5, Zenon DEF found, S!Read

\* What a destroy of the service answers.
DeletesService(gone, state, u, calls) ==
  /\ Keeps(gone.m, u)
  /\ /\ gone.err = "none" /\ u.exists
     /\ calls[1] # "unreachable" /\ calls[2] # "unreachable"
     => /\ state.args.ensure = "started" => ~gone.m.running
        /\ state.args.enabled = TRUE => ~gone.m.enabled

LEMMA ServiceDeleted ==
  ASSUME NEW state \in ServiceStates, NEW forgiving \in BOOLEAN, NEW u \in S!Unit, NEW config \in F!File,
         NEW calls, calls[1] \in S!Outcomes, calls[2] \in S!Outcomes
  PROVE  DeletesService(S!Delete(state, forgiving, u, config, calls), state, u, calls)
  <1> DEFINE args == state.args
             first == calls[1]
             second == calls[2]
             disable == args.enabled = TRUE
             stop == args.ensure # Unset /\ args.ensure # "stopped"
             params == [ ensure |-> IF stop THEN "stopped" ELSE args.ensure,
                         enabled |-> IF disable THEN FALSE ELSE args.enabled ]
             task == S!Systemctl(u, params, config, FALSE, second)
             forgive(err) == IF err = "unreachable" /\ forgiving THEN "none" ELSE err
             gone == S!Delete(state, forgiving, u, config, calls)
  <1>1. gone = IF ~disable /\ ~stop THEN S!Quiet(u, state)
               ELSE IF first # "ok" THEN S!Refused(u, state, forgive(first))
               ELSE IF ~u.exists THEN S!Quiet(u, state)
               ELSE S!Refused(task.m, state, forgive(task.err))
    BY DEF S!Delete
  <1>2. /\ params \in Goals
        /\ disable => params.enabled = FALSE
        /\ stop => params.ensure = "stopped"
        /\ first \in S!Outcomes /\ second \in S!Outcomes
    BY DEF ServiceStates, WatchingInputs, Goals, Ensures
  <1> HIDE DEF params, first, second
  <1>3. Sets(task, u, params, config, second)
    BY <1>2, SystemctlDoes, Zenon
  <1>4. ASSUME task.err = "none"
        PROVE  /\ stop => ~task.m.running
               /\ disable => ~task.m.enabled
    <2> DEFINE able == S!Enable(u, params.enabled)
    <2>1. able \in S!Unit /\ (disable => ~able.enabled)
      BY <1>2, EnableDoes, UnsetAssumption DEF Goals
    <2> HIDE DEF able
    <2>2. /\ S!Start(able, params.ensure, config).enabled = able.enabled
          /\ params.ensure = "stopped" => ~S!Start(able, params.ensure, config).running
      BY <2>1, StartDoes
    <2> QED
      BY <1>2, <1>3, <1>4, <2>1, <2>2 DEF able, Sets
  <1>5. /\ second # "unreachable" => task.err # "unreachable"
        /\ args.ensure = "started" => stop
    BY UnsetAssumption DEF S!Systemctl
  <1> HIDE DEF gone, task, disable, stop
  <1>6. gone.m = u \/ (u.exists /\ gone.m = task.m)
    BY <1>1 DEF S!Quiet, S!Refused
  <1>7. /\ gone.err = "none" /\ u.exists /\ first # "unreachable" /\ second # "unreachable"
        /\ disable \/ stop
        => gone.m = task.m /\ task.err = "none"
    BY <1>1, <1>2, <1>5 DEF S!Quiet, S!Refused, S!Outcomes
  <1>8. DeletesService(gone, state, u, calls)
    BY <1>3, <1>4, <1>5, <1>6, <1>7 DEF first, second, disable, Sets, Keeps, DeletesService
  <1> QED
    BY <1>8, Zenon DEF gone

-----------------------------------------------------------------------------
(* What the engine's operations do. *)

LEMMA PairsTyped ==
  ASSUME NEW outcomes, "ok" \in outcomes, NEW calls \in Pairs(outcomes)
  PROVE  calls[1] \in outcomes /\ calls[2] \in outcomes
  BY DEF Pairs

LineApplied(p) ==
  /\ doing = NoProgram /\ ops' = ops + 1 /\ settled' = NoProgram
  /\ UNCHANGED <<unit, service>>
  /\ file' \in F!File
  /\ owed' = (owed \/ file' # file)
  /\ last'.op = "up line" /\ last'.program = p
  /\ line = F!NoState \/ F!Diff(p.line, line).changes
  /\ \/ /\ doing' = p /\ unseen' = FALSE
        /\ inputs' = [inputs EXCEPT !.line = p.line]
        /\ file' = F!Desired(p.line, file')
        /\ \/ line' = LineState(p.line, {}, ops + 1)
           \/ /\ file' = file /\ line # F!NoState
              /\ line' = LineState(p.line, {}, line.triggers.lastChanged)
     \/ /\ doing' = NoProgram /\ unseen' = TRUE /\ UNCHANGED <<line, inputs>>
        /\ "lost" \notin LineCalls => file' = file

LEMMA ProgramTyped ==
  ASSUME NEW p \in Programs
  PROVE  p.line \in LineInputs /\ p.service \in ServiceInputs
  BY ProgramsAssumption

LEMMA LineCallsTyped ==
  ASSUME NEW calls \in Pairs(LineCalls)
  PROVE  /\ calls[1] \in LineOutcomes /\ calls[2] \in LineOutcomes
         /\ "lost" \notin LineCalls => calls[2] # "lost"
  BY PairsTyped, ChainAssumption DEF LineOutcomes

LEMMA CreateLineDoes ==
  ASSUME TypeOK, NEW p \in Programs, CreateLine(p)
  PROVE  LineApplied(p)
  <1>1. PICK calls \in Pairs(LineCalls) :
               ApplyLine(p, F!Create(p.line, FALSE, file, calls, ops + 1))
    BY DEF CreateLine
  <1> DEFINE made == F!Create(p.line, FALSE, file, calls, ops + 1)
  <1>2. CreatesLine(made, p.line, file, calls[2], ops + 1)
    <2>1. p.line \in LineInputs /\ file \in F!File /\ ops + 1 \in Nat /\ calls[2] \in LineOutcomes
      BY ProgramTyped, LineCallsTyped DEF TypeOK
    <2> QED
      BY <2>1, LineCreated, Zenon
  <1>3. "lost" \notin LineCalls => calls[2] # "lost"
    BY LineCallsTyped
  <1> HIDE DEF made
  <1> QED
    BY <1>1, <1>2, <1>3 DEF made, CreatesLine, CreateLine, Begin, ApplyLine, Tell, LineApplied

LEMMA UpdateLineDoes ==
  ASSUME TypeOK, NEW p \in Programs, UpdateLine(p)
  PROVE  LineApplied(p)
  <1>1. PICK calls \in Pairs(LineCalls) :
               ApplyLine(p, F!Update(p.line, line, FALSE, file, calls, ops + 1))
    BY DEF UpdateLine
  <1> DEFINE made == F!Update(p.line, line, FALSE, file, calls, ops + 1)
  <1>2. UpdatesLine(made, p.line, line, file, calls[2], ops + 1)
    <2>1. /\ p.line \in LineInputs /\ file \in F!File /\ ops + 1 \in Nat
          /\ calls[2] \in LineOutcomes
      BY ProgramTyped, LineCallsTyped DEF TypeOK
    <2>2. line \in LineStates
      BY DEF TypeOK, UpdateLine
    <2> QED
      BY <2>1, <2>2, LineUpdated, Zenon
  <1>3. "lost" \notin LineCalls => calls[2] # "lost"
    BY LineCallsTyped
  <1> HIDE DEF made
  <1> QED
    BY <1>1, <1>2, <1>3 DEF made, UpdatesLine, UpdateLine, Begin, ApplyLine, Tell, LineApplied

PreviewLooks ==
  /\ doing = NoProgram /\ ops' = ops + 1
  /\ UNCHANGED <<file, unit, line, service, inputs, doing, unseen, owed, settled>>
  /\ last'.op \in {"preview", "disturbed preview"}
  /\ TextsGiven /\ last'.op = "preview" => last'.err = "none"

LEMMA PreviewDoes ==
  ASSUME NEW p \in Programs, Preview(p)
  PROVE  PreviewLooks
  <1>1. PICK calls \in Pairs(LineCalls), more \in Pairs(ServiceCalls) :
          LET first == IF line = F!NoState THEN F!Create(p.line, TRUE, file, calls, ops + 1)
                       ELSE F!Update(p.line, line, TRUE, file, calls, ops + 1)
              args == ServiceArgs(p, first.s.triggers)
              second == IF service = S!NoState
                        THEN S!Create(args, TRUE, unit, file, more, ops + 1)
                        ELSE S!Update(args, service, TRUE, unit, file, more, ops + 1)
              allOk == \A i \in {1, 2} : calls[i] = "ok" /\ more[i] = "ok"
          IN /\ file' = first.m /\ unit' = second.m
             /\ Tell(IF allOk THEN "preview" ELSE "disturbed preview",
                     IF first.err = "none" THEN second.err ELSE first.err, p)
    BY DEF Preview
  <1> DEFINE first == IF line = F!NoState THEN F!Create(p.line, TRUE, file, calls, ops + 1)
                      ELSE F!Update(p.line, line, TRUE, file, calls, ops + 1)
             args == ServiceArgs(p, first.s.triggers)
             second == IF service = S!NoState
                       THEN S!Create(args, TRUE, unit, file, more, ops + 1)
                       ELSE S!Update(args, service, TRUE, unit, file, more, ops + 1)
             allOk == \A i \in {1, 2} : calls[i] = "ok" /\ more[i] = "ok"
  <1>2. LooksAt(first, file, HasText(p.line), calls)
    <2>1. p.line \in LineInputs
      BY ProgramTyped
    <2>2. CASE line = F!NoState
      <3>1. LooksAt(F!Create(p.line, TRUE, file, calls, ops + 1), file, HasText(p.line), calls)
        BY <2>1, LineCreatePreviewed, Zenon
      <3> QED
        BY <2>2, <3>1, Zenon
    <2>3. CASE line # F!NoState
      <3>1. LooksAt(F!Update(p.line, line, TRUE, file, calls, ops + 1), file, HasText(p.line), calls)
        BY <2>1, LineUpdatePreviewed, Zenon
      <3> QED
        BY <2>3, <3>1, Zenon
    <2> QED
      BY <2>2, <2>3
  <1> HIDE DEF first, args
  <1>3. LooksAt(second, unit, TRUE, more)
    <2>1. /\ LooksAt(S!Create(args, TRUE, unit, file, more, ops + 1), unit, TRUE, more)
          /\ LooksAt(S!Update(args, service, TRUE, unit, file, more, ops + 1), unit, TRUE, more)
      BY ServicePreviewed, Zenon
    <2>2. CASE service = S!NoState
      BY <2>1, <2>2, Zenon
    <2>3. CASE service # S!NoState
      BY <2>1, <2>3, Zenon
    <2> QED
      BY <2>2, <2>3
  <1>4. allOk => calls[1] = "ok" /\ calls[2] = "ok" /\ more[1] = "ok" /\ more[2] = "ok"
    OBVIOUS
  <1> HIDE DEF second, allOk
  <1>5. /\ file' = first.m /\ unit' = second.m
        /\ last'.op = IF allOk THEN "preview" ELSE "disturbed preview"
        /\ last'.err = IF first.err = "none" THEN second.err ELSE first.err
    BY <1>1 DEF first, second, allOk, args, Tell
  <1> QED
    BY <1>2, <1>3, <1>4, <1>5 DEF Preview, Begin, PreviewLooks, LooksAt, TextsGiven

LineLooked ==
  /\ doing = NoProgram /\ ops' = ops + 1 /\ line # F!NoState
  /\ UNCHANGED <<file, unit, service, inputs, doing, owed, settled>>
  /\ unseen' \in BOOLEAN /\ (unseen' => unseen)
  /\ last'.op = "refresh"
  /\ \/ /\ UNCHANGED line
        /\ ~unseen' =>
             ~unseen \/ line.drifted # {} \/ file = F!Desired(line.args, file)
     \/ /\ file # F!Desired(inputs.line, file)
        /\ \E set \in (SUBSET {"ensure", "line"}) \ {{}} :
             line' = LineState(inputs.line, line.drifted \cup set, ops + 1)

LEMMA RefreshLineDoes ==
  ASSUME TypeOK, RefreshLine
  PROVE  LineLooked
  <1>1. PICK call \in LineCalls :
          LET found == F!Read(inputs.line, line, file, call, ops + 1)
              looked == \/ inputs.line = line.args
                        \/ found.s.drifted # {}
          IN /\ file' = found.m
             /\ line' = IF found.err = "none" THEN found.s ELSE line
             /\ unseen' = (unseen /\ ~(call = "ok" /\ found.err = "none" /\ looked))
             /\ Tell("refresh", found.err, NoProgram)
    BY DEF RefreshLine
  <1> DEFINE answer == F!Read(inputs.line, line, file, call, ops + 1)
             looked == inputs.line = line.args \/ answer.s.drifted # {}
  <1>2. ReadsLine(answer, inputs.line, line, file, call, ops + 1)
    <2>1. /\ inputs.line \in LineInputs /\ line \in LineStates /\ file \in F!File
          /\ ops + 1 \in Nat /\ call \in LineOutcomes
      BY ChainAssumption DEF TypeOK, RefreshLine, LineOutcomes
    <2> QED
      BY <2>1, LineRead, Zenon
  <1>3. /\ file' = answer.m
        /\ line' = IF answer.err = "none" THEN answer.s ELSE line
        /\ unseen' = (unseen /\ ~(call = "ok" /\ answer.err = "none" /\ looked))
        /\ last'.op = "refresh"
    BY <1>1 DEF Tell
  <1> HIDE DEF answer, looked
  <1>4. /\ doing = NoProgram /\ ops' = ops + 1 /\ line # F!NoState
        /\ UNCHANGED <<unit, service, inputs, doing, owed, settled>> /\ unseen \in BOOLEAN
    BY DEF RefreshLine, Begin, TypeOK
  <1>5. CASE answer.err = "none" /\ answer.s # line
    BY <1>2, <1>3, <1>4, <1>5 DEF ReadsLine, LineLooked
  <1>6. CASE answer.err # "none" \/ answer.s = line
    <2>1. UNCHANGED line
      BY <1>3, <1>6
    <2>2. ASSUME ~unseen', unseen
          PROVE  line.drifted # {} \/ file = F!Desired(line.args, file)
      <3>0. /\ call = "ok" /\ answer.err = "none"
            /\ inputs.line = line.args \/ answer.s.drifted # {}
        BY <1>3, <2>2, Zenon DEF looked
      <3>1. answer.s = line /\ (inputs.line = line.args \/ line.drifted # {})
        BY <1>6, <3>0
      <3>2. CASE line.drifted # {}
        BY <3>2
      <3>3. CASE file = F!Desired(inputs.line, file)
        BY <3>1, <3>3
      <3>4. ASSUME NEW set \in (SUBSET {"ensure", "line"}) \ {{}},
                   line = LineState(inputs.line, line.drifted \cup set, ops + 1)
            PROVE  line.drifted # {}
        <4>1. line.drifted = line.drifted \cup set /\ set # {}
          BY <3>4, LineStateFields
        <4> QED
          BY <4>1
      <3> QED
        BY <1>2, <3>0, <3>1, <3>2, <3>3, <3>4 DEF ReadsLine
    <2> QED
      BY <1>2, <1>3, <1>4, <2>1, <2>2 DEF ReadsLine, LineLooked
  <1> QED
    BY <1>5, <1>6

LEMMA ServiceCallsTyped ==
  ASSUME NEW calls \in Pairs(ServiceCalls)
  PROVE  calls[1] \in S!Outcomes /\ calls[2] \in S!Outcomes
  BY PairsTyped, ChainAssumption

LEMMA ServiceArgsTyped ==
  ASSUME TypeOK, NEW p \in Programs
  PROVE  /\ ServiceArgs(p, line.triggers) \in WatchingInputs
         /\ ServiceArgs(p, line.triggers).triggers.refresh = line.triggers.lastChanged
         /\ line.triggers.lastChanged \in Nat
  <1>1. line.triggers.lastChanged \in Nat
    BY DEF TypeOK, LineStates, F!NoState, F!NoTriggers
  <1> QED
    BY <1>1, ProgramTyped DEF ServiceArgs, WatchingInputs, Watched, ServiceInputs

\* A program's service restarts when its trigger differs from the state's.
LEMMA RefreshStarts ==
  ASSUME NEW args \in WatchingInputs, NEW state,
         args.ensure = "started", args.refreshAction # "keep",
         state.triggers.refresh # args.triggers.refresh, unit.exists
  PROVE  Starts(args, state, "ok")
  <1>1. args.triggers # Unset
    BY UnsetAssumption DEF WatchingInputs, Watched
  <1>2. S!WantEnsure(args, state) = S!ActionOf[S!RefreshAction(args)]
    BY <1>1 DEF S!WantEnsure, S!Refreshes, S!DiffTriggers
  <1>3. S!WantEnsure(args, state) \in {"restarted", "reloaded"}
    BY <1>2 DEF S!ActionOf, S!RefreshAction, WatchingInputs, Actions
  <1> QED
    BY <1>3 DEF Starts

ServiceApplied ==
  /\ doing # NoProgram /\ doing' = NoProgram
  /\ UNCHANGED <<file, line, ops, unseen>>
  /\ Keeps(unit', unit)
  /\ last'.op = "up" /\ last'.program = doing
  /\ owed' \in BOOLEAN /\ (owed' => owed)
  /\ \/ service = S!NoState
     \/ S!Diff(ServiceArgs(doing, line.triggers), service).changes
  /\ \/ /\ last'.err = "none" /\ settled' = Settled
        /\ inputs' = [inputs EXCEPT !.service = ServiceArgs(doing, line.triggers)]
        /\ \E t \in Nat : service' = ServiceState(ServiceArgs(doing, line.triggers), t)
        /\ owed' => /\ Restarting(doing)
                    /\ service.triggers.refresh = line.triggers.lastChanged
     \/ last'.err # "none" /\ settled' = NoProgram /\ UNCHANGED <<service, inputs>>

LEMMA CreateServiceDoes ==
  ASSUME TypeOK, CreateService
  PROVE  ServiceApplied
  <1> DEFINE args == ServiceArgs(doing, line.triggers)
             fresh == [S!NoState EXCEPT !.args = args]
  <1>1. PICK calls \in Pairs(ServiceCalls) :
               ApplyService(args, S!Create(args, FALSE, unit, file, calls, ops),
                            Starts(args, S!NoState, calls[2]))
    BY DEF CreateService
  <1> DEFINE made == S!Create(args, FALSE, unit, file, calls, ops)
             started == Starts(args, S!NoState, calls[2])
  <1>2. doing \in Programs
    BY DEF TypeOK, CreateService
  <1>3. /\ args \in WatchingInputs /\ args.triggers.refresh = line.triggers.lastChanged
        /\ line.triggers.lastChanged \in Nat
    BY <1>2, ServiceArgsTyped
  <1>4. UpdatesService(made, args, unit, calls[2])
    <2>1. /\ calls[2] \in S!Outcomes
          /\ unit \in S!Unit /\ file \in F!File /\ ops \in Nat
      BY ServiceCallsTyped DEF TypeOK
    <2>2. fresh.triggers.lastChanged \in Nat
      BY DEF S!NoState, S!NoTriggers
    <2> HIDE DEF args, fresh
    <2>3. UpdatesService(S!updateService(args, fresh, FALSE, unit, file, calls, ops), args, unit, calls[2])
      BY <1>3, <2>1, <2>2, ServiceUpdated, Zenon
    <2> QED
      BY <2>3, Zenon DEF S!Create, fresh
  <1>5. ASSUME made.err = "none", Restarting(doing)
        PROVE  started \/ S!NoState.triggers.refresh = line.triggers.lastChanged
    <2>1. calls[2] = "ok" /\ unit.exists
      BY <1>4, <1>5 DEF UpdatesService
    <2>2. args.ensure = "started" /\ args.refreshAction # "keep"
      BY <1>5 DEF Restarting, ServiceArgs
    <2> HIDE DEF args
    <2> QED
      BY <1>3, <2>1, <2>2, RefreshStarts
  <1> HIDE DEF args, made, started
  <1>6. ApplyService(args, made, started) /\ doing # NoProgram /\ service = S!NoState
    BY <1>1 DEF made, started, args, CreateService
  <1> QED
    BY <1>4, <1>5, <1>6 DEF args, ApplyService, ServiceApplied, UpdatesService, TypeOK

LEMMA UpdateServiceDoes ==
  ASSUME TypeOK, UpdateService
  PROVE  ServiceApplied
  <1> DEFINE args == ServiceArgs(doing, line.triggers)
  <1>1. PICK calls \in Pairs(ServiceCalls) :
               ApplyService(args, S!Update(args, service, FALSE, unit, file, calls, ops),
                            Starts(args, service, calls[2]))
    BY DEF UpdateService
  <1> DEFINE made == S!Update(args, service, FALSE, unit, file, calls, ops)
             started == Starts(args, service, calls[2])
  <1>2. doing \in Programs /\ service \in ServiceStates
    BY DEF TypeOK, UpdateService
  <1>3. /\ args \in WatchingInputs /\ args.triggers.refresh = line.triggers.lastChanged
        /\ line.triggers.lastChanged \in Nat
    BY <1>2, ServiceArgsTyped
  <1>4. UpdatesService(made, args, unit, calls[2])
    <2>1. /\ calls[2] \in S!Outcomes
          /\ unit \in S!Unit /\ file \in F!File /\ ops \in Nat
      BY ServiceCallsTyped DEF TypeOK
    <2>2. service.triggers.lastChanged \in Nat
      BY <1>2 DEF ServiceStates
    <2> HIDE DEF args
    <2>3. UpdatesService(S!updateService(args, service, FALSE, unit, file, calls, ops), args, unit, calls[2])
      BY <1>3, <2>1, <2>2, ServiceUpdated, Zenon
    <2> QED
      BY <2>3, Zenon DEF S!Update
  <1>5. ASSUME made.err = "none", Restarting(doing)
        PROVE  started \/ service.triggers.refresh = line.triggers.lastChanged
    <2>1. calls[2] = "ok" /\ unit.exists
      BY <1>4, <1>5 DEF UpdatesService
    <2>2. args.ensure = "started" /\ args.refreshAction # "keep"
      BY <1>5 DEF Restarting, ServiceArgs
    <2> HIDE DEF args
    <2> QED
      BY <1>3, <2>1, <2>2, RefreshStarts
  <1> HIDE DEF args, made, started
  <1>6. /\ ApplyService(args, made, started) /\ doing # NoProgram
        /\ S!Diff(args, service).changes
    BY <1>1 DEF made, started, args, UpdateService
  <1> QED
    BY <1>4, <1>5, <1>6 DEF args, ApplyService, ServiceApplied, UpdatesService, TypeOK

ServiceKept ==
  /\ doing # NoProgram /\ doing' = NoProgram /\ settled' = Settled
  /\ inputs' = [inputs EXCEPT !.service = ServiceArgs(doing, line.triggers)]
  /\ UNCHANGED <<file, unit, line, service, ops, unseen, owed>>
  /\ service # S!NoState
  /\ ~S!Diff(ServiceArgs(doing, line.triggers), service).changes
  /\ service.triggers.refresh = line.triggers.lastChanged
  /\ last'.op = "up" /\ last'.err = "none" /\ last'.program = doing /\ last'.started = FALSE

LEMMA KeepServiceDoes ==
  ASSUME TypeOK, KeepService
  PROVE  ServiceKept
  <1> DEFINE args == ServiceArgs(doing, line.triggers)
  <1>1. args \in WatchingInputs /\ args.triggers.refresh = line.triggers.lastChanged
    BY ServiceArgsTyped DEF TypeOK, KeepService
  <1>2. args.triggers # Unset
    BY <1>1, UnsetAssumption DEF WatchingInputs, Watched
  <1> HIDE DEF args
  <1>3. ~S!Diff(args, service).changes
    BY DEF args, KeepService
  <1>4. service.triggers.refresh = line.triggers.lastChanged
    BY <1>1, <1>2, <1>3 DEF S!Diff, S!DiffTriggers
  <1> QED
    BY <1>3, <1>4 DEF args, KeepService, Tell, ServiceKept

ServiceLooked ==
  /\ doing = NoProgram /\ ops' = ops + 1 /\ service # S!NoState
  /\ UNCHANGED <<file, unit, line, inputs, doing, unseen, owed, settled>>
  /\ last'.op = "refresh"
  /\ UNCHANGED service \/ \E t \in Nat : service' = ServiceState(inputs.service, t)

LEMMA RefreshServiceDoes ==
  ASSUME TypeOK, RefreshService
  PROVE  ServiceLooked
  <1>1. PICK calls \in Pairs(ServiceCalls) :
          LET found == S!Read(inputs.service, service, unit, file, calls, ops + 1)
          IN /\ unit' = found.m
             /\ service' = IF found.err = "none" THEN found.s ELSE service
             /\ Tell("refresh", found.err, NoProgram)
    BY DEF RefreshService
  <1> DEFINE found == S!Read(inputs.service, service, unit, file, calls, ops + 1)
  <1>2. ReadsService(found, inputs.service, service, unit)
    <2>1. inputs.service \in WatchingInputs /\ service \in ServiceStates /\ ops + 1 \in Nat
      BY DEF TypeOK, RefreshService
    <2> QED
      BY <2>1, ServiceRead, Zenon
  <1>3. /\ unit' = found.m
        /\ service' = IF found.err = "none" THEN found.s ELSE service
        /\ last'.op = "refresh"
    BY <1>1 DEF Tell
  <1> HIDE DEF found
  <1> QED
    BY <1>2, <1>3 DEF ReadsService, RefreshService, Begin, ServiceLooked

Destroyed ==
  /\ doing = NoProgram /\ ops' = ops + 1 /\ service # S!NoState /\ settled' = NoProgram
  /\ UNCHANGED <<file, doing, unseen, owed>>
  /\ Keeps(unit', unit)
  /\ \/ UNCHANGED <<line, service, inputs>>
     \/ /\ line' = F!NoState /\ service' = S!NoState
        /\ inputs' = [line |-> Unset, service |-> Unset]
  /\ last'.op \in {"destroy", "blind destroy"}
  /\ last'.program.service = service.args
  /\ last'.op = "destroy" /\ last'.err = "none" /\ unit.exists
       => /\ service.args.ensure = "started" => ~unit'.running
          /\ service.args.enabled = TRUE => ~unit'.enabled

LEMMA DestroyDoes ==
  ASSUME TypeOK, Destroy
  PROVE  Destroyed
  <1>1. PICK calls \in Pairs(ServiceCalls) :
          LET gone == S!Delete(service, DeleteUnreachable, unit, file, calls)
              reached == calls[1] # "unreachable" /\ calls[2] # "unreachable"
          IN /\ unit' = gone.m
             /\ service' = IF gone.err = "none" THEN S!NoState ELSE service
             /\ line' = IF gone.err = "none" THEN F!NoState ELSE line
             /\ inputs' = IF gone.err = "none" THEN [line |-> Unset, service |-> Unset] ELSE inputs
             /\ Tell(IF reached THEN "destroy" ELSE "blind destroy", gone.err,
                     [line |-> line.args, service |-> service.args])
    BY DEF Destroy
  <1> DEFINE gone == S!Delete(service, DeleteUnreachable, unit, file, calls)
             reached == calls[1] # "unreachable" /\ calls[2] # "unreachable"
  <1>2. DeletesService(gone, service, unit, calls)
    <2>1. /\ service \in ServiceStates /\ DeleteUnreachable \in BOOLEAN
          /\ unit \in S!Unit /\ file \in F!File
          /\ calls[1] \in S!Outcomes /\ calls[2] \in S!Outcomes
      BY ServiceCallsTyped, ChainAssumption DEF TypeOK, Destroy
    <2> QED
      BY <2>1, ServiceDeleted, Zenon
  <1> HIDE DEF gone
  <1>3. /\ unit' = gone.m
        /\ service' = IF gone.err = "none" THEN S!NoState ELSE service
        /\ line' = IF gone.err = "none" THEN F!NoState ELSE line
        /\ inputs' = IF gone.err = "none" THEN [line |-> Unset, service |-> Unset] ELSE inputs
        /\ last' = [ op |-> IF reached THEN "destroy" ELSE "blind destroy", err |-> gone.err,
                     program |-> [line |-> line.args, service |-> service.args],
                     started |-> FALSE ]
    BY <1>1 DEF gone, Tell
  <1> QED
    BY <1>2, <1>3 DEF DeletesService, Destroy, Begin, Destroyed

LineKept(p) ==
  /\ doing = NoProgram /\ doing' = p /\ ops' = ops + 1 /\ line # F!NoState
  /\ line.drifted = {}
  /\ Holds(line.args, p.line)
  /\ inputs' = [inputs EXCEPT !.line = p.line]
  /\ settled' = IF settled = p THEN p ELSE NoProgram
  /\ last'.op = "up line" /\ last'.started = FALSE
  /\ UNCHANGED <<file, unit, line, service, unseen, owed>>

LEMMA KeepLineDoes ==
  ASSUME NEW p \in Programs, KeepLine(p)
  PROVE  LineKept(p)
  <1>1. line.drifted = {}
    BY DEF KeepLine, F!Diff
  <1>2. Holds(line.args, p.line)
    <2>1. ~F!Differs(p.line, line.args, {})
      BY DEF KeepLine, F!Diff
    <2>2. DOMAIN p.line = {"line", "ensure", "create", "triggers"}
      BY ProgramTyped DEF LineInputs
    <2> QED
      BY <2>1, <2>2 DEF F!Differs, Holds
  <1> QED
    BY <1>1, <1>2 DEF KeepLine, Begin, Tell, LineKept

\* What any step does.
Does ==
  \/ \E p \in Programs : LineApplied(p)
  \/ \E p \in Programs : LineKept(p)
  \/ PreviewLooks
  \/ ServiceApplied
  \/ ServiceKept
  \/ LineLooked
  \/ ServiceLooked
  \/ Destroyed
  \/ EditFile
  \/ StopUnit
  \/ InstallUnit
  \/ UNCHANGED vars

LEMMA NextDoes ==
  ASSUME TypeOK, [Next]_vars
  PROVE  Does
  BY CreateLineDoes, UpdateLineDoes, KeepLineDoes, PreviewDoes, CreateServiceDoes,
     UpdateServiceDoes, KeepServiceDoes, RefreshLineDoes, RefreshServiceDoes, DestroyDoes
     DEF Next, Does

-----------------------------------------------------------------------------
(* The inductive invariant. *)

LEMMA InitInv == Init => IInv
  <1> SUFFICES ASSUME Init
               PROVE  IInv
    OBVIOUS
  <1>1. TypeOK
    BY DEF Init, TypeOK
  <1>2. MissingIsOff
    BY DEF Init, MissingIsOff
  <1>3. ClocksAgree
    BY DEF Init, ClocksAgree, F!NoState, F!NoTriggers
  <1>4. LineKnown /\ HalfDone /\ DebtIsSeen /\ SettledIsSame
    BY DEF Init, LineKnown, HalfDone, DebtIsSeen, SettledIsSame
  <1>5. UpSetsTheLine /\ Restarted /\ Previewed /\ DestroyStops
    BY DEF Init, Nothing, UpDone, UpSetsTheLine, Restarted, RestartOnChange, Previewed,
           PreviewBeforeAnything, DestroyStops
  <1> QED
    BY <1>1, <1>2, <1>3, <1>4, <1>5 DEF IInv

\* The same, field by field.
LEMMA LineAppliedFields ==
  ASSUME NEW p, LineApplied(p)
  PROVE  \/ /\ doing' = p
            /\ inputs' = [inputs EXCEPT !.line = p.line]
            /\ file' = F!Desired(p.line, file')
            /\ line'.args = p.line /\ line'.drifted = {}
            /\ \/ line'.triggers.lastChanged = ops + 1
               \/ file' = file /\ line'.triggers.lastChanged = line.triggers.lastChanged
         \/ /\ doing' = NoProgram /\ unseen' = TRUE /\ line' = line /\ inputs' = inputs
            /\ "lost" \notin LineCalls => file' = file
  <1> DEFINE none == {}
             Stated(t) == line' = LineState(p.line, none, t)
  <1>1. \A t : Stated(t) =>
          line'.args = p.line /\ line'.drifted = none /\ line'.triggers.lastChanged = t
    BY LineStateFields
  <1>2. \/ /\ doing' = p /\ unseen' = FALSE
           /\ inputs' = [inputs EXCEPT !.line = p.line]
           /\ file' = F!Desired(p.line, file')
           /\ Stated(ops + 1) \/ (file' = file /\ Stated(line.triggers.lastChanged))
        \/ /\ doing' = NoProgram /\ unseen' = TRUE /\ line' = line /\ inputs' = inputs
           /\ "lost" \notin LineCalls => file' = file
    BY DEF LineApplied
  <1> HIDE DEF Stated, none
  <1>3. \/ /\ doing' = p
           /\ inputs' = [inputs EXCEPT !.line = p.line]
           /\ file' = F!Desired(p.line, file')
           /\ line'.args = p.line /\ line'.drifted = none
           /\ \/ line'.triggers.lastChanged = ops + 1
              \/ file' = file /\ line'.triggers.lastChanged = line.triggers.lastChanged
        \/ /\ doing' = NoProgram /\ unseen' = TRUE /\ line' = line /\ inputs' = inputs
           /\ "lost" \notin LineCalls => file' = file
    BY <1>1, <1>2
  <1> QED
    BY <1>3 DEF none

\* What a refresh of the line may have found.
LEMMA LineLookedFields ==
  ASSUME LineLooked
  PROVE  \/ /\ line' = line
            /\ ~unseen' => ~unseen \/ line.drifted # {} \/ file = F!Desired(line.args, file)
         \/ /\ file # F!Desired(inputs.line, file)
            /\ line'.triggers.lastChanged = ops + 1
            /\ line'.drifted # {}
  <1>1. ASSUME NEW set \in (SUBSET {"ensure", "line"}) \ {{}},
               line' = LineState(inputs.line, line.drifted \cup set, ops + 1)
        PROVE  line'.triggers.lastChanged = ops + 1 /\ line'.drifted # {}
    <2>1. /\ line'.triggers.lastChanged = ops + 1
          /\ line'.drifted = line.drifted \cup set
      BY <1>1, LineStateFields
    <2>2. set # {}
      OBVIOUS
    <2> QED
      BY <2>1, <2>2
  <1> QED
    BY <1>1 DEF LineLooked

LEMMA TypeStep ==
  ASSUME TypeOK, Does
  PROVE  TypeOK'
  <1> USE DEF TypeOK
  <1>1. ASSUME NEW p \in Programs, LineApplied(p)
        PROVE  TypeOK'
    <2>1. \A t \in Nat : LineState(p.line, {}, t) \in LineStates
      BY ProgramTyped, LineStateTyped
    <2>2. ops + 1 \in Nat /\ (line # F!NoState => line.triggers.lastChanged \in Nat)
      BY DEF LineStates
    <2>3. line' \in LineStates \cup {F!NoState}
      BY <1>1, <2>1, <2>2 DEF LineApplied
    <2>4. p.line \in LineInputs
      BY ProgramTyped
    <2>5. /\ inputs' \in [line : LineInputs \cup {Unset}, service : WatchingInputs \cup {Unset}]
          /\ line' # F!NoState => inputs'.line \in LineInputs
          /\ inputs'.service = inputs.service
      BY <1>1, <2>4 DEF LineApplied
    <2> QED
      BY <1>1, <2>2, <2>3, <2>5 DEF LineApplied
  <1>2. ASSUME NEW p \in Programs, LineKept(p)
        PROVE  TypeOK'
    <2>1. /\ UNCHANGED <<file, unit, line, service, unseen, owed>>
          /\ inputs' = [inputs EXCEPT !.line = p.line]
          /\ doing' = p /\ settled' = (IF settled = p THEN p ELSE NoProgram) /\ ops' = ops + 1
      BY <1>2 DEF LineKept
    <2>2. p.line \in LineInputs
      BY ProgramTyped
    <2>3. /\ inputs' \in [line : LineInputs \cup {Unset}, service : WatchingInputs \cup {Unset}]
          /\ inputs'.line = p.line /\ inputs'.service = inputs.service
      BY <2>1, <2>2
    <2> QED
      BY <2>1, <2>2, <2>3
  <1>3. CASE PreviewLooks
    <2>1. /\ UNCHANGED <<file, unit, line, service, inputs, doing, unseen, owed, settled>>
          /\ ops' = ops + 1
      BY <1>3 DEF PreviewLooks
    <2> QED
      BY <2>1
  <1>4. CASE ServiceApplied
    <2>1. doing \in Programs
      BY <1>4 DEF ServiceApplied
    <2>2. ServiceArgs(doing, line.triggers) \in WatchingInputs
      BY <2>1, ServiceArgsTyped
    <2>3. service' \in ServiceStates \cup {S!NoState}
      BY <1>4, <2>2, ServiceStateTyped DEF ServiceApplied
    <2>4. /\ inputs' \in [line : LineInputs \cup {Unset}, service : WatchingInputs \cup {Unset}]
          /\ service' # S!NoState => inputs'.service \in WatchingInputs
          /\ inputs'.line = inputs.line
      BY <1>4, <2>2 DEF ServiceApplied
    <2>5. settled' \in {doing, NoProgram}
      BY <1>4 DEF ServiceApplied, Settled
    <2> QED
      BY <1>4, <2>1, <2>3, <2>4, <2>5 DEF ServiceApplied, Keeps
  <1>5. CASE ServiceKept
    <2>1. doing \in Programs
      BY <1>5 DEF ServiceKept
    <2>2. ServiceArgs(doing, line.triggers) \in WatchingInputs
      BY <2>1, ServiceArgsTyped
    <2>3. /\ inputs' \in [line : LineInputs \cup {Unset}, service : WatchingInputs \cup {Unset}]
          /\ inputs'.service \in WatchingInputs /\ inputs'.line = inputs.line
      BY <1>5, <2>2 DEF ServiceKept
    <2>4. settled' \in {doing, NoProgram}
      BY <1>5 DEF ServiceKept, Settled
    <2> QED
      BY <1>5, <2>1, <2>3, <2>4 DEF ServiceKept
  <1>6. CASE LineLooked
    <2>1. ASSUME NEW set \in (SUBSET {"ensure", "line"}) \ {{}}
          PROVE  LineState(inputs.line, line.drifted \cup set, ops + 1) \in LineStates
      <3>1. line \in LineStates /\ inputs.line \in LineInputs /\ ops + 1 \in Nat
        BY <1>6 DEF LineLooked
      <3>2. line.drifted \in SUBSET {"ensure", "line"}
        BY <3>1 DEF LineStates
      <3> QED
        BY <3>1, <3>2, LineStateTyped
    <2>2. line' \in LineStates \cup {F!NoState}
      BY <1>6, <2>1 DEF LineLooked
    <2>3. /\ UNCHANGED <<file, unit, service, inputs, doing, owed, settled>> /\ ops' = ops + 1
          /\ unseen' \in BOOLEAN /\ line # F!NoState
      BY <1>6 DEF LineLooked
    <2> QED
      BY <2>2, <2>3
  <1>7. CASE ServiceLooked
    <2>1. inputs.service \in WatchingInputs
      BY <1>7 DEF ServiceLooked
    <2>2. service' \in ServiceStates \cup {S!NoState}
      BY <1>7, <2>1, ServiceStateTyped DEF ServiceLooked
    <2> QED
      BY <1>7, <2>2 DEF ServiceLooked
  <1>8. CASE Destroyed
    <2>1. /\ UNCHANGED <<file, doing, unseen, owed>> /\ unit' \in S!Unit
          /\ \/ UNCHANGED <<line, service, inputs>>
             \/ /\ line' = F!NoState /\ service' = S!NoState
                /\ inputs' = [line |-> Unset, service |-> Unset]
          /\ settled' = NoProgram /\ ops' = ops + 1
      BY <1>8 DEF Destroyed, Keeps
    <2> QED
      BY <2>1
  <1>9. CASE EditFile
    <2>1. /\ file' \in F!File /\ unseen' = TRUE /\ settled' = NoProgram
          /\ UNCHANGED <<unit, line, service, inputs, doing, ops, owed>>
      BY <1>9 DEF EditFile
    <2> QED
      BY <2>1
  <1>10. CASE StopUnit
    BY <1>10 DEF StopUnit, S!Unit
  <1>11. CASE InstallUnit
    BY <1>11 DEF InstallUnit, S!Unit
  <1>12. CASE UNCHANGED vars
    BY <1>12 DEF vars
  <1> QED
    BY <1>1, <1>2, <1>3, <1>4, <1>5, <1>6, <1>7, <1>8, <1>9, <1>10, <1>11, <1>12 DEF Does

LEMMA MissingStep ==
  ASSUME TypeOK, MissingIsOff, Does
  PROVE  MissingIsOff'
  <1> USE DEF TypeOK, MissingIsOff, Keeps, S!Unit
  <1>1. ASSUME NEW p \in Programs, LineApplied(p)
        PROVE  MissingIsOff'
    BY <1>1 DEF LineApplied
  <1>2. ASSUME NEW p \in Programs, LineKept(p)
        PROVE  MissingIsOff'
    BY <1>2 DEF LineKept
  <1>3. CASE PreviewLooks
    BY <1>3 DEF PreviewLooks
  <1>4. CASE ServiceApplied
    BY <1>4 DEF ServiceApplied
  <1>5. CASE ServiceKept
    BY <1>5 DEF ServiceKept
  <1>6. CASE LineLooked
    BY <1>6 DEF LineLooked
  <1>7. CASE ServiceLooked
    BY <1>7 DEF ServiceLooked
  <1>8. CASE Destroyed
    BY <1>8 DEF Destroyed
  <1>9. CASE EditFile
    BY <1>9 DEF EditFile
  <1>10. CASE StopUnit
    BY <1>10 DEF StopUnit
  <1>11. CASE InstallUnit
    BY <1>11 DEF InstallUnit
  <1>12. CASE UNCHANGED vars
    BY <1>12 DEF vars
  <1> QED
    BY <1>1, <1>2, <1>3, <1>4, <1>5, <1>6, <1>7, <1>8, <1>9, <1>10, <1>11, <1>12 DEF Does

LEMMA ClocksStep ==
  ASSUME TypeOK, ClocksAgree, Does
  PROVE  ClocksAgree'
  <1>0. /\ ops \in Nat /\ line.triggers.lastChanged \in Nat
        /\ service # S!NoState => service.triggers.refresh \in Nat
    BY DEF TypeOK, LineStates, F!NoState, F!NoTriggers, ServiceStates
  <1> USE DEF ClocksAgree
  <1>1. ASSUME NEW p \in Programs, LineApplied(p)
        PROVE  ClocksAgree'
    <2>1. \/ line' = line \/ line'.triggers.lastChanged = ops + 1
          \/ line'.triggers.lastChanged = line.triggers.lastChanged
      BY <1>1, LineAppliedFields
    <2>2. UNCHANGED service /\ ops' = ops + 1 /\ inputs'.service = inputs.service
      BY <1>1 DEF LineApplied, TypeOK
    <2> QED
      BY <1>0, <2>1, <2>2
  <1>2. ASSUME NEW p \in Programs, LineKept(p)
        PROVE  ClocksAgree'
    <2>1. UNCHANGED <<line, service>> /\ ops' = ops + 1 /\ inputs'.service = inputs.service
      BY <1>2 DEF LineKept, TypeOK
    <2> QED
      BY <1>0, <2>1
  <1>3. CASE PreviewLooks
    <2>1. UNCHANGED <<line, service, inputs>> /\ ops' = ops + 1
      BY <1>3 DEF PreviewLooks
    <2> QED
      BY <1>0, <2>1
  <1>4. CASE ServiceApplied
    <2>1. ServiceArgs(doing, line.triggers).triggers.refresh = line.triggers.lastChanged
      BY DEF ServiceArgs
    <2>2. CASE UNCHANGED <<service, inputs>>
      BY <1>0, <1>4, <2>2 DEF ServiceApplied
    <2>3. CASE ~UNCHANGED <<service, inputs>>
      <3>1. /\ inputs' = [inputs EXCEPT !.service = ServiceArgs(doing, line.triggers)]
            /\ \E t \in Nat : service' = ServiceState(ServiceArgs(doing, line.triggers), t)
        BY <1>4, <2>3 DEF ServiceApplied
      <3>2. /\ inputs'.service.triggers.refresh = line.triggers.lastChanged
            /\ service'.triggers.refresh = line.triggers.lastChanged
        BY <2>1, <3>1 DEF ServiceState, TypeOK
      <3> QED
        BY <1>0, <1>4, <3>2 DEF ServiceApplied
    <2> QED
      BY <2>2, <2>3
  <1>5. CASE ServiceKept
    <2>1. ServiceArgs(doing, line.triggers).triggers.refresh = line.triggers.lastChanged
      BY DEF ServiceArgs
    <2>2. inputs'.service.triggers.refresh = line.triggers.lastChanged
      BY <1>5, <2>1 DEF ServiceKept, TypeOK
    <2> QED
      BY <1>0, <1>5, <2>2 DEF ServiceKept
  <1>6. CASE LineLooked
    <2>1. line' = line \/ line'.triggers.lastChanged = ops + 1
      BY <1>6, LineLookedFields
    <2>2. UNCHANGED <<service, inputs>> /\ ops' = ops + 1
      BY <1>6 DEF LineLooked
    <2> QED
      BY <1>0, <2>1, <2>2
  <1>7. CASE ServiceLooked
    BY <1>0, <1>7 DEF ServiceLooked, ServiceState
  <1>8. CASE Destroyed
    <2>1. /\ UNCHANGED <<line, service, inputs>> \/ (line' = F!NoState /\ service' = S!NoState)
          /\ ops' = ops + 1
      BY <1>8 DEF Destroyed
    <2>2. F!NoState.triggers.lastChanged = 0
      BY DEF F!NoState, F!NoTriggers
    <2> QED
      BY <1>0, <2>1, <2>2
  <1>9. CASE EditFile
    BY <1>0, <1>9 DEF EditFile
  <1>10. CASE StopUnit
    BY <1>0, <1>10 DEF StopUnit
  <1>11. CASE InstallUnit
    BY <1>0, <1>11 DEF InstallUnit
  <1>12. CASE UNCHANGED vars
    BY <1>0, <1>12 DEF vars
  <1> QED
    BY <1>0, <1>1, <1>2, <1>3, <1>4, <1>5, <1>6, <1>7, <1>8, <1>9, <1>10, <1>11, <1>12 DEF Does

LEMMA LineKnownStep ==
  ASSUME TypeOK, LineKnown, Does
  PROVE  LineKnown'
  <1> USE DEF LineKnown, F!Desired, F!WantAbsent
  <1>1. ASSUME NEW p \in Programs, LineApplied(p)
        PROVE  LineKnown'
    <2>1. \/ line'.args = p.line /\ file' = F!Desired(p.line, file')
          \/ unseen' = TRUE
      BY <1>1, LineAppliedFields
    <2> QED
      BY <2>1
  <1>2. ASSUME NEW p \in Programs, LineKept(p)
        PROVE  LineKnown'
    BY <1>2 DEF LineKept
  <1>3. CASE PreviewLooks
    BY <1>3 DEF PreviewLooks
  <1>4. CASE ServiceApplied
    BY <1>4 DEF ServiceApplied
  <1>5. CASE ServiceKept
    BY <1>5 DEF ServiceKept
  <1>6. CASE LineLooked
    <2>1. \/ /\ line' = line
             /\ ~unseen' => ~unseen \/ line.drifted # {} \/ file = F!Desired(line.args, file)
          \/ line'.drifted # {}
      BY <1>6, LineLookedFields
    <2>2. UNCHANGED file
      BY <1>6 DEF LineLooked
    <2> QED
      BY <2>1, <2>2
  <1>7. CASE ServiceLooked
    BY <1>7 DEF ServiceLooked
  <1>8. CASE Destroyed
    BY <1>8 DEF Destroyed
  <1>9. CASE EditFile
    BY <1>9 DEF EditFile
  <1>10. CASE StopUnit
    BY <1>10 DEF StopUnit
  <1>11. CASE InstallUnit
    BY <1>11 DEF InstallUnit
  <1>12. CASE UNCHANGED vars
    BY <1>12 DEF vars
  <1> QED
    BY <1>1, <1>2, <1>3, <1>4, <1>5, <1>6, <1>7, <1>8, <1>9, <1>10, <1>11, <1>12 DEF Does

LEMMA HalfDoneStep ==
  ASSUME TypeOK, HalfDone, Does
  PROVE  HalfDone'
  <1> USE DEF HalfDone, Holds
  <1>1. ASSUME NEW p \in Programs, LineApplied(p)
        PROVE  HalfDone'
    <2>1. CASE doing' = NoProgram
      BY <2>1
    <2>2. CASE doing' # NoProgram
      <3>1. /\ doing' = p /\ inputs' = [inputs EXCEPT !.line = p.line]
            /\ line'.args = p.line /\ line'.drifted = {}
        BY <1>1, <2>2, LineAppliedFields
      <3>2. inputs'.line = p.line
        BY <3>1 DEF TypeOK
      <3>3. p.line # Unset
        BY ProgramTyped, UnsetAssumption
      <3>4. line' # F!NoState
        BY <3>1, <3>3 DEF F!NoState
      <3> QED
        BY <3>1, <3>2, <3>4
    <2> QED
      BY <2>1, <2>2
  <1>2. ASSUME NEW p \in Programs, LineKept(p)
        PROVE  HalfDone'
    <2>1. /\ UNCHANGED line /\ doing' = p /\ line # F!NoState /\ line.drifted = {}
          /\ Holds(line.args, p.line) /\ inputs'.line = p.line
      BY <1>2 DEF LineKept, TypeOK
    <2> QED
      BY <2>1
  <1>3. CASE PreviewLooks
    BY <1>3 DEF PreviewLooks
  <1>4. CASE ServiceApplied
    BY <1>4 DEF ServiceApplied
  <1>5. CASE ServiceKept
    BY <1>5 DEF ServiceKept
  <1>6. CASE LineLooked
    BY <1>6 DEF LineLooked
  <1>7. CASE ServiceLooked
    BY <1>7 DEF ServiceLooked
  <1>8. CASE Destroyed
    BY <1>8 DEF Destroyed
  <1>9. CASE EditFile
    BY <1>9 DEF EditFile
  <1>10. CASE StopUnit
    BY <1>10 DEF StopUnit
  <1>11. CASE InstallUnit
    BY <1>11 DEF InstallUnit
  <1>12. CASE UNCHANGED vars
    BY <1>12 DEF vars
  <1> QED
    BY <1>1, <1>2, <1>3, <1>4, <1>5, <1>6, <1>7, <1>8, <1>9, <1>10, <1>11, <1>12 DEF Does

LEMMA RefreshIsPast ==
  ASSUME TypeOK, ClocksAgree, service # S!NoState
  PROVE  service.triggers.refresh # ops + 1
  <1>1. service.triggers.refresh \in Nat /\ ops \in Nat
    BY DEF TypeOK, ServiceStates
  <1> QED
    BY <1>1 DEF ClocksAgree

LEMMA DebtStep ==
  ASSUME TypeOK, ClocksAgree, DebtIsSeen, Does
  PROVE  DebtIsSeen'
  <1> USE DEF DebtIsSeen
  <1>1. ASSUME NEW p \in Programs, LineApplied(p)
        PROVE  DebtIsSeen'
    <2>1. \/ line'.triggers.lastChanged = ops + 1
          \/ file' = file /\ line'.triggers.lastChanged = line.triggers.lastChanged
          \/ line' = line /\ ("lost" \notin LineCalls => file' = file)
      BY <1>1, LineAppliedFields
    <2>2. UNCHANGED service /\ owed' = (owed \/ file' # file)
      BY <1>1 DEF LineApplied
    <2>3. service # S!NoState => service.triggers.refresh # ops + 1
      BY RefreshIsPast
    <2> QED
      BY <2>1, <2>2, <2>3
  <1>2. ASSUME NEW p \in Programs, LineKept(p)
        PROVE  DebtIsSeen'
    <2>1. UNCHANGED <<line, service, owed>>
      BY <1>2 DEF LineKept
    <2> QED
      BY <2>1
  <1>3. CASE PreviewLooks
    <2>1. UNCHANGED <<line, service, owed>>
      BY <1>3 DEF PreviewLooks
    <2> QED
      BY <2>1
  <1>4. CASE ServiceApplied
    <2>1. line.triggers.lastChanged \in Nat /\ S!NoState.triggers.refresh = Unset
      BY DEF TypeOK, LineStates, F!NoState, F!NoTriggers, S!NoState, S!NoTriggers
    <2>2. /\ UNCHANGED line /\ (owed' => owed)
          /\ \/ owed' => service.triggers.refresh = line.triggers.lastChanged
             \/ UNCHANGED service
      BY <1>4 DEF ServiceApplied
    <2> QED
      BY <2>1, <2>2, UnsetAssumption
  <1>5. CASE ServiceKept
    BY <1>5 DEF ServiceKept
  <1>6. CASE LineLooked
    <2>1. line' = line \/ line'.triggers.lastChanged = ops + 1
      BY <1>6, LineLookedFields
    <2>2. UNCHANGED <<service, owed>>
      BY <1>6 DEF LineLooked
    <2>3. service # S!NoState => service.triggers.refresh # ops + 1
      BY RefreshIsPast
    <2> QED
      BY <2>1, <2>2, <2>3
  <1>7. CASE ServiceLooked
    <2>1. /\ UNCHANGED <<line, owed>> /\ service # S!NoState
          /\ UNCHANGED service \/ \E t \in Nat : service' = ServiceState(inputs.service, t)
      BY <1>7 DEF ServiceLooked
    <2>2. service'.triggers.refresh = service.triggers.refresh
      BY <2>1 DEF ClocksAgree, ServiceState
    <2> QED
      BY <2>1, <2>2
  <1>8. CASE Destroyed
    <2>1. UNCHANGED owed /\ (UNCHANGED <<line, service>> \/ service' = S!NoState)
      BY <1>8 DEF Destroyed
    <2> QED
      BY <2>1
  <1>9. CASE EditFile
    BY <1>9 DEF EditFile
  <1>10. CASE StopUnit
    BY <1>10 DEF StopUnit
  <1>11. CASE InstallUnit
    BY <1>11 DEF InstallUnit
  <1>12. CASE UNCHANGED vars
    BY <1>12 DEF vars
  <1> QED
    BY <1>1, <1>2, <1>3, <1>4, <1>5, <1>6, <1>7, <1>8, <1>9, <1>10, <1>11, <1>12 DEF Does

\* A service that has what its program asks has nothing to do.
LEMMA SameIsQuiet ==
  ASSUME NEW args \in WatchingInputs, NEW t \in Nat
  PROVE  ~S!Diff(args, ServiceState(args, t)).changes /\ ServiceState(args, t) # S!NoState
  <1>1. args.triggers.replace = Unset /\ args.triggers.refresh \in Nat
    BY DEF WatchingInputs, Watched
  <1>2. ServiceState(args, t).triggers.refresh # S!NoState.triggers.refresh
    BY <1>1, UnsetAssumption DEF ServiceState, S!NoState, S!NoTriggers
  <1> QED
    BY <1>1, <1>2 DEF S!Diff, S!Differs, S!DiffTriggers, ServiceState

LEMMA SettledStep ==
  ASSUME TypeOK, LineKnown, HalfDone, SettledIsSame, Does
  PROVE  SettledIsSame'
  <1>0. SettledIsSame' <=>
          (settled' # NoProgram =>
             /\ line' # F!NoState /\ line'.drifted = {} /\ ~unseen'
             /\ line'.args = settled'.line /\ inputs'.line = settled'.line
             /\ service' # S!NoState
             /\ inputs'.service = ServiceArgs(settled', line'.triggers)
             /\ ~S!Diff(inputs'.service, service').changes)
    BY DEF SettledIsSame, S!Diff, S!Differs, S!DiffTriggers, ServiceArgs
  <1>1. ASSUME NEW p \in Programs, LineApplied(p)
        PROVE  SettledIsSame'
    BY <1>0, <1>1 DEF LineApplied
  <1>2. ASSUME NEW p \in Programs, LineKept(p)
        PROVE  SettledIsSame'
    <2>1. /\ UNCHANGED <<line, service, unseen>> /\ (settled' # NoProgram => settled' = settled)
          /\ settled' # NoProgram => settled' = p
          /\ inputs'.line = p.line /\ inputs'.service = inputs.service
      BY <1>2 DEF LineKept, TypeOK
    <2> QED
      BY <1>0, <2>1 DEF SettledIsSame
  <1>3. CASE PreviewLooks
    <2>1. UNCHANGED <<line, service, inputs, unseen, settled>>
      BY <1>3 DEF PreviewLooks
    <2> QED
      BY <1>0, <2>1 DEF SettledIsSame
  <1>4. CASE ServiceApplied
    <2> DEFINE args == ServiceArgs(doing, line.triggers)
    <2>1. args \in WatchingInputs
      BY <1>4, ServiceArgsTyped DEF TypeOK, ServiceApplied
    <2>2. CASE last'.err = "none" /\ settled' # NoProgram
      <3>1. PICK t \in Nat : service' = ServiceState(args, t)
        BY <1>4, <2>2 DEF ServiceApplied
      <3>2. /\ doing # NoProgram /\ UNCHANGED <<line, unseen>> /\ settled' = doing
            /\ line.args = doing.line /\ ~unseen
            /\ inputs'.service = args /\ inputs'.line = inputs.line
        BY <1>4, <2>2 DEF ServiceApplied, Settled, TypeOK
      <3> HIDE DEF args
      <3>3. service' # S!NoState /\ ~S!Diff(args, service').changes
        BY <2>1, <3>1, SameIsQuiet
      <3> QED
        BY <1>0, <3>2, <3>3 DEF HalfDone, args
    <2>3. CASE last'.err # "none" \/ settled' = NoProgram
      BY <1>0, <1>4, <2>3 DEF ServiceApplied
    <2> QED
      BY <2>2, <2>3
  <1>5. CASE ServiceKept
    <2> DEFINE args == ServiceArgs(doing, line.triggers)
    <2>1. /\ doing # NoProgram /\ UNCHANGED <<line, service, unseen>>
          /\ settled' # NoProgram => settled' = doing /\ line.args = doing.line /\ ~unseen
          /\ inputs'.service = args /\ inputs'.line = inputs.line
          /\ service # S!NoState /\ ~S!Diff(args, service).changes
      BY <1>5 DEF ServiceKept, Settled, TypeOK
    <2> HIDE DEF args
    <2> QED
      BY <1>0, <2>1 DEF HalfDone, args
  <1>6. CASE LineLooked
    <2> SUFFICES ASSUME settled' # NoProgram
                 PROVE  SettledIsSame'
      BY <1>0
    <2>1. UNCHANGED <<service, inputs, settled>> /\ (unseen' => unseen) /\ unseen' \in BOOLEAN
      BY <1>6 DEF LineLooked
    <2>2. file = F!Desired(inputs.line, file)
      BY <2>1 DEF SettledIsSame, LineKnown
    <2>3. line' = line
      BY <1>6, <2>2, LineLookedFields
    <2> QED
      BY <1>0, <2>1, <2>3 DEF SettledIsSame
  <1>7. CASE ServiceLooked
    <2>1. /\ UNCHANGED <<line, inputs, unseen, settled>> /\ service # S!NoState
          /\ UNCHANGED service \/ \E t \in Nat : service' = ServiceState(inputs.service, t)
      BY <1>7 DEF ServiceLooked
    <2>2. inputs.service \in WatchingInputs
      BY <2>1 DEF TypeOK
    <2>3. \/ service' = service
          \/ service' # S!NoState /\ ~S!Diff(inputs.service, service').changes
      BY <2>1, <2>2, SameIsQuiet
    <2> QED
      BY <1>0, <2>1, <2>3 DEF SettledIsSame
  <1>8. CASE Destroyed
    BY <1>0, <1>8 DEF Destroyed
  <1>9. CASE EditFile
    BY <1>0, <1>9 DEF EditFile
  <1>10. CASE StopUnit
    BY <1>0, <1>10 DEF StopUnit
  <1>11. CASE InstallUnit
    BY <1>0, <1>11 DEF InstallUnit
  <1>12. CASE UNCHANGED vars
    BY <1>0, <1>12 DEF vars, SettledIsSame
  <1> QED
    BY <1>1, <1>2, <1>3, <1>4, <1>5, <1>6, <1>7, <1>8, <1>9, <1>10, <1>11, <1>12 DEF Does

\* The steps that the properties of a finished operation are about.
LEMMA Finishes ==
  ASSUME Does
  PROVE  \/ ServiceApplied \/ ServiceKept \/ PreviewLooks \/ Destroyed \/ UNCHANGED vars
         \/ last'.op \notin {"up", "preview", "destroy"}
  <1>1. EditFile \/ StopUnit \/ InstallUnit => last'.op = "none"
    BY DEF EditFile, StopUnit, InstallUnit, Nothing
  <1>2. \A p \in Programs : LineApplied(p) \/ LineKept(p) => last'.op = "up line"
    BY DEF LineApplied, LineKept
  <1>3. LineLooked \/ ServiceLooked => last'.op = "refresh"
    BY DEF LineLooked, ServiceLooked
  <1> QED
    BY <1>1, <1>2, <1>3 DEF Does

LEMMA UpSetsTheLineStep ==
  ASSUME LineKnown, HalfDone, UpSetsTheLine, Does
  PROVE  UpSetsTheLine'
  <1>0. UpSetsTheLine' <=>
          (UpDone' /\ ~unseen' =>
             Holds(line'.args, last'.program.line) /\ file' = F!Desired(line'.args, file'))
    BY DEF UpSetsTheLine, Holds, F!Desired, F!WantAbsent
  <1>1. CASE ServiceApplied \/ ServiceKept
    <2>1. doing # NoProgram /\ last'.program = doing /\ UNCHANGED <<file, line, unseen>>
      BY <1>1 DEF ServiceApplied, ServiceKept
    <2>2. Holds(line.args, doing.line) /\ (~unseen => file = F!Desired(line.args, file))
      BY <2>1 DEF HalfDone, LineKnown
    <2> QED
      BY <1>0, <2>1, <2>2
  <1>2. CASE UNCHANGED vars
    BY <1>0, <1>2 DEF vars, UpSetsTheLine, Holds, UpDone
  <1>3. CASE PreviewLooks \/ Destroyed \/ last'.op \notin {"up", "preview", "destroy"}
    <2>1. last'.op # "up"
      BY <1>3 DEF PreviewLooks, Destroyed
    <2> QED
      BY <1>0, <2>1 DEF UpDone
  <1> QED
    BY Finishes, <1>1, <1>2, <1>3

LEMMA RestartedStep ==
  ASSUME TypeOK, DebtIsSeen, Restarted, Does
  PROVE  Restarted'
  <1> SUFFICES ASSUME "lost" \notin LineCalls, UpDone', Restarting(last.program)'
               PROVE  ~owed'
    BY DEF Restarted, RestartOnChange
  <1>1. line.triggers.lastChanged \in Nat
    BY DEF TypeOK, LineStates, F!NoState, F!NoTriggers
  <1>2. CASE ServiceApplied
    <2>1. owed' => owed /\ service.triggers.refresh = line.triggers.lastChanged
      BY <1>2 DEF ServiceApplied, UpDone
    <2>2. service = S!NoState => service.triggers.refresh \notin Nat
      BY UnsetAssumption DEF S!NoState, S!NoTriggers
    <2> QED
      BY <1>1, <2>1, <2>2 DEF DebtIsSeen
  <1>3. CASE ServiceKept
    <2>1. /\ UNCHANGED owed /\ service # S!NoState
          /\ service.triggers.refresh = line.triggers.lastChanged
      BY <1>3 DEF ServiceKept
    <2> QED
      BY <2>1 DEF DebtIsSeen
  <1>4. CASE UNCHANGED vars
    BY <1>4 DEF vars, Restarted, RestartOnChange, UpDone, Restarting
  <1>5. CASE PreviewLooks \/ Destroyed \/ last'.op \notin {"up", "preview", "destroy"}
    BY <1>5 DEF PreviewLooks, Destroyed, UpDone
  <1> QED
    BY Finishes, <1>2, <1>3, <1>4, <1>5

LEMMA PreviewedStep ==
  ASSUME Previewed, Does
  PROVE  Previewed'
  <1> SUFFICES ASSUME TextsGiven, last'.op = "preview"
               PROVE  last'.err = "none"
    BY DEF Previewed, PreviewBeforeAnything, TextsGiven, HasText
  <1>1. CASE PreviewLooks
    BY <1>1 DEF PreviewLooks
  <1>2. CASE UNCHANGED vars
    BY <1>2 DEF vars, Previewed, PreviewBeforeAnything
  <1>3. last'.op = "preview" => PreviewLooks \/ UNCHANGED vars
    BY Finishes DEF ServiceApplied, ServiceKept, Destroyed
  <1> QED
    BY <1>1, <1>2, <1>3

LEMMA DestroyStopsStep ==
  ASSUME MissingIsOff, DestroyStops, Does
  PROVE  DestroyStops'
  <1>1. CASE Destroyed
    <2>1. CASE unit.exists
      BY <1>1, <2>1 DEF Destroyed, DestroyStops
    <2>2. CASE ~unit.exists
      BY <1>1, <2>2 DEF Destroyed, Keeps, MissingIsOff, DestroyStops
    <2> QED
      BY <2>1, <2>2
  <1>2. CASE UNCHANGED vars
    BY <1>2 DEF vars, DestroyStops
  <1>3. last'.op = "destroy" => Destroyed \/ UNCHANGED vars
    BY Finishes DEF ServiceApplied, ServiceKept, PreviewLooks
  <1> QED
    BY <1>1, <1>2, <1>3 DEF DestroyStops

LEMMA NextInv == IInv /\ [Next]_vars => IInv'
  <1> SUFFICES ASSUME IInv, [Next]_vars
               PROVE  IInv'
    OBVIOUS
  <1>1. Does
    BY NextDoes DEF IInv
  <1> QED
    BY <1>1, TypeStep, MissingStep, ClocksStep, LineKnownStep, HalfDoneStep, DebtStep,
       SettledStep, UpSetsTheLineStep, RestartedStep, PreviewedStep, DestroyStopsStep DEF IInv

-----------------------------------------------------------------------------
\* In every behaviour of the engine, the machine and its other users, the
\* states that the engine keeps account for the machine.
THEOREM ChainInvariant == Spec => []IInv
  BY InitInv, NextInv, PTL DEF Spec

\* After a whole up the state holds every property the program sets, and the file
\* is as the state says, unless somebody changed it and no refresh has looked
\* since; a property that the program dropped counts as still asked
\* (FileLine.Create, Read, Update, Diff).
THEOREM LineIsSet == Spec => []UpSetsTheLine
  BY ChainInvariant, PTL DEF IInv

\* After a whole up that wants the service started, the unit has loaded every
\* change the provider made to the file, if no call changes the file and then
\* reports an error (SystemdService.updateService, midtypes.DiffTriggers).
THEOREM RestartsOnChange ==
  ASSUME "lost" \notin LineCalls
  PROVE  Spec => []RestartOnChange
  <1>1. IInv => RestartOnChange
    BY DEF IInv, Restarted
  <1> QED
    BY <1>1, ChainInvariant, PTL

\* A preview that reaches the machine succeeds whether or not the file and the
\* unit exist yet, if every line that is to be present has a text.
THEOREM PreviewsSucceed ==
  ASSUME TextsGiven
  PROVE  Spec => []PreviewBeforeAnything
  <1>1. IInv => PreviewBeforeAnything
    BY DEF IInv, Previewed
  <1> QED
    BY <1>1, ChainInvariant, PTL

\* A destroy that reached the machine leaves a service that was to be started
\* stopped, and one that was to be enabled disabled (SystemdService.Delete).
THEOREM DestroyLeavesOff == Spec => []DestroyStops
  BY ChainInvariant, PTL DEF IInv

\* Applying once more what was applied, with refreshes and previews in between,
\* restarts and changes nothing (FileLine.Diff, Read, SystemdService.Diff).
THEOREM SecondUpQuiet == Spec => SecondUpIsQuiet
  <1>1. ASSUME IInv, [Next]_vars, settled # NoProgram, last'.op \in {"up line", "up"},
               last'.program = settled, ~UNCHANGED vars
        PROVE  UNCHANGED machine /\ ~last'.started
    <2>1. Does
      BY <1>1, NextDoes DEF IInv
    <2>2. /\ line # F!NoState /\ line.drifted = {} /\ line.args = settled.line
          /\ service # S!NoState
          /\ ~S!Diff(ServiceArgs(settled, line.triggers), service).changes
      BY <1>1 DEF IInv, SettledIsSame
    <2>3. ASSUME NEW p \in Programs
          PROVE  ~LineApplied(p)
      <3> SUFFICES ASSUME p = settled
                   PROVE  ~F!Diff(p.line, line).changes
        BY <1>1, <2>2 DEF LineApplied
      <3>1. p.line.triggers = Unset
        BY ProgramTyped DEF LineInputs
      <3> QED
        BY <2>2, <3>1 DEF F!Diff, F!Differs, F!DiffTriggers
    <2>4. ASSUME NEW p \in Programs, LineKept(p)
          PROVE  UNCHANGED machine /\ ~last'.started
      BY <2>4 DEF LineKept, machine
    <2>5. ~ServiceApplied
      BY <1>1, <2>2 DEF ServiceApplied
    <2>6. CASE ServiceKept
      BY <2>6 DEF ServiceKept, machine
    <2>7. last'.op \in {"up line", "up"}
      BY <1>1
    <2>8. ~PreviewLooks /\ ~LineLooked /\ ~ServiceLooked /\ ~Destroyed
      BY <2>7 DEF PreviewLooks, LineLooked, ServiceLooked, Destroyed
    <2>9. EditFile \/ StopUnit \/ InstallUnit => last'.op = "none"
      BY DEF EditFile, StopUnit, InstallUnit, Nothing
    <2> QED
      BY <1>1, <2>1, <2>3, <2>4, <2>5, <2>6, <2>7, <2>8, <2>9 DEF Does
  <1>2. IInv /\ [Next]_vars
          => [settled # NoProgram /\ last'.op \in {"up line", "up"} /\ last'.program = settled
                => UNCHANGED machine /\ ~last'.started]_vars
    BY <1>1
  <1> QED
    BY <1>2, ChainInvariant, PTL DEF Spec, SecondUpIsQuiet
=============================================================================
