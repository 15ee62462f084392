---------------------------- MODULE ServiceChain ----------------------------
(***************************************************************************)
(* Two resources chained by triggers: a FileLine in a configuration file   *)
(* and the SystemdService that reads it, whose refresh trigger is the      *)
(* line's lastChanged (tests/acceptance/postgresql/index.ts).  Pulumi's    *)
(* engine runs the handlers of modules FileLine and SystemdService: an up  *)
(* applies the line and then the service, with time for others to change   *)
(* the machine in between; a failed call ends it.                          *)
(***************************************************************************)
EXTENDS Naturals

CONSTANTS
  Lines, NoFile, NoLine, \* what the file says; see FileLine
  Unset,                 \* an optional property that is not set
  Check,                 \* ResourceConfig.GetDryRunCheck
  DeleteUnreachable,     \* ResourceConfig.GetDeleteUnreachable
  Programs,              \* what programs say: [line |-> ..., service |-> ...]
  LineCalls,             \* the outcomes of the calls of FileLine
  ServiceCalls,          \* the outcomes of the calls of SystemdService
  NoProgram,
  MaxOps                 \* bound: operations of the engine

F == INSTANCE FileLine
S == INSTANCE SystemdService WITH Configs <- Lines \cup {NoFile, NoLine}

ASSUME ChainAssumption ==
  /\ Check \in BOOLEAN /\ DeleteUnreachable \in BOOLEAN /\ MaxOps \in Nat
  /\ "ok" \in LineCalls \cap ServiceCalls /\ ServiceCalls \subseteq S!Outcomes
  /\ LineCalls \subseteq {"ok", "unreachable", "failed", "lost"}

\* What the programs may ask of the two resources (FileLineArgs,
\* SystemdServiceArgs); the line itself has no triggers here.
LineInputs ==
  [ line : Lines \cup {Unset}, ensure : {Unset, "present", "absent"}, create : BOOLEAN,
    triggers : {Unset} ]
Ensures == {Unset, "started", "stopped", "restarted", "reloaded"}
Actions == {Unset, "restart", "reload", "keep"}
ServiceInputs == [ensure : Ensures, enabled : BOOLEAN \cup {Unset}, refreshAction : Actions]

ASSUME ProgramsAssumption == Programs \subseteq [line : LineInputs, service : ServiceInputs]

\* A nil pointer is no value of a property.
ASSUME UnsetAssumption ==
  /\ Unset \notin {"absent", "started"} /\ Unset \notin BOOLEAN /\ Unset \notin Nat
  /\ Unset \notin [refresh : Nat, replace : {Unset}] /\ Unset \notin LineInputs

VARIABLES
  file, unit,      \* the machine
  line, service,   \* the states the engine keeps
  inputs,          \* the inputs it keeps with them: those of the last up
  doing,           \* the program whose up has applied its line
  ops,             \* operations so far; also the clock of the triggers
  last,            \* history: the last operation, its program and outcome, and
                   \* whether it started, restarted or reloaded the unit
  unseen,          \* history: the file may have changed behind the state's back
  owed,            \* history: the provider changed the file after the unit's start,
                   \* and no program was applied that does not care
  settled          \* history: the program of the last up, if nobody changed
                   \* anything since; see Settled

machine == <<file, unit>>
vars == <<file, unit, line, service, inputs, doing, ops, last, unseen, owed, settled>>

\* A handler whose first call fails makes no second one.
Pairs(calls) == {<<"ok", c>> : c \in calls} \cup {<<c, "ok">> : c \in calls}

Nothing == [op |-> "none", err |-> "none", program |-> NoProgram, started |-> FALSE]

Init ==
  /\ file \in F!File
  /\ unit \in {u \in S!Unit : u.loaded = file /\ (~u.exists => ~u.running /\ ~u.enabled)}
  /\ line = F!NoState /\ service = S!NoState
  /\ inputs = [line |-> Unset, service |-> Unset]
  /\ doing = NoProgram /\ settled = NoProgram
  /\ ops = 0
  /\ last = Nothing
  /\ unseen = FALSE /\ owed = FALSE

-----------------------------------------------------------------------------
Begin == doing = NoProgram /\ ops < MaxOps /\ ops' = ops + 1

Tell(op, err, program) ==
  last' = [op |-> op, err |-> err, program |-> program, started |-> FALSE]

\* The line's part of an up, with the handler's response: an up whose line
\* failed is over, and the engine keeps the state it had.
ApplyLine(p, made) ==
  /\ file' = made.m
  /\ owed' = (owed \/ made.m # file)
  /\ line' = IF made.err = "none" THEN made.s ELSE line
  /\ inputs' = IF made.err = "none" THEN [inputs EXCEPT !.line = p.line] ELSE inputs
  /\ doing' = IF made.err = "none" THEN p ELSE NoProgram
  /\ unseen' = (made.err # "none")
  /\ Tell("up line", made.err, p)
  /\ UNCHANGED <<unit, service>>

CreateLine(p) ==
  /\ Begin /\ line = F!NoState
  /\ \E calls \in Pairs(LineCalls) : ApplyLine(p, F!Create(p.line, FALSE, file, calls, ops + 1))
  /\ settled' = NoProgram

UpdateLine(p) ==
  /\ Begin /\ line # F!NoState
  /\ F!Diff(p.line, line).changes
  /\ \E calls \in Pairs(LineCalls) : ApplyLine(p, F!Update(p.line, line, FALSE, file, calls, ops + 1))
  /\ settled' = NoProgram

KeepLine(p) ==
  /\ Begin /\ line # F!NoState
  /\ ~F!Diff(p.line, line).changes
  /\ inputs' = [inputs EXCEPT !.line = p.line]
  /\ doing' = p
  /\ settled' = IF settled = p THEN p ELSE NoProgram
  /\ Tell("up line", "none", p)
  /\ UNCHANGED <<file, unit, line, service, unseen, owed>>

\* The program's service, with the line's output as its trigger.
ServiceArgs(p, triggers) ==
  [ ensure |-> p.service.ensure, enabled |-> p.service.enabled,
    refreshAction |-> p.service.refreshAction,
    triggers |-> [refresh |-> triggers.lastChanged, replace |-> Unset] ]

Restarting(p) == p.service.ensure = "started" /\ p.service.refreshAction # "keep"

\* An up settles its program if nothing else was asked of the line before that
\* the program does not mention, and nobody has changed the file unseen.
Settled == IF line.args = doing.line /\ ~unseen THEN doing ELSE NoProgram

\* owed ends when the unit starts or loads its configuration again, and when a
\* program is applied that does not ask for it.
ApplyService(args, made, started) ==
  /\ unit' = made.m
  /\ owed' = (owed /\ ~started /\ (made.err = "none" => Restarting(doing)))
  /\ service' = IF made.err = "none" THEN made.s ELSE service
  /\ inputs' = IF made.err = "none" THEN [inputs EXCEPT !.service = args] ELSE inputs
  /\ doing' = NoProgram
  /\ settled' = IF made.err = "none" THEN Settled ELSE NoProgram
  /\ last' = [op |-> "up", err |-> made.err, program |-> doing, started |-> started]
  /\ UNCHANGED <<file, line, ops, unseen>>

\* What a unit that was just started, restarted or reloaded looks like.
Starts(args, state, call) ==
  /\ call \in {"ok", "lost"} /\ unit.exists
  /\ \/ S!WantEnsure(args, state) \in {"restarted", "reloaded"}
     \/ S!WantEnsure(args, state) = "started" /\ ~unit.running

CreateService ==
  /\ doing # NoProgram /\ service = S!NoState
  /\ LET args == ServiceArgs(doing, line.triggers)
     IN \E calls \in Pairs(ServiceCalls) :
          ApplyService(args, S!Create(args, FALSE, unit, file, calls, ops),
                       Starts(args, S!NoState, calls[2]))

UpdateService ==
  /\ doing # NoProgram /\ service # S!NoState
  /\ LET args == ServiceArgs(doing, line.triggers)
     IN /\ S!Diff(args, service).changes
        /\ \E calls \in Pairs(ServiceCalls) :
             ApplyService(args, S!Update(args, service, FALSE, unit, file, calls, ops),
                          Starts(args, service, calls[2]))

KeepService ==
  /\ doing # NoProgram /\ service # S!NoState
  /\ ~S!Diff(ServiceArgs(doing, line.triggers), service).changes
  /\ inputs' = [inputs EXCEPT !.service = ServiceArgs(doing, line.triggers)]
  /\ doing' = NoProgram /\ settled' = Settled
  /\ Tell("up", "none", doing)
  /\ UNCHANGED <<file, unit, line, service, ops, unseen, owed>>

-----------------------------------------------------------------------------
Preview(p) ==
  /\ Begin
  /\ \E calls \in Pairs(LineCalls), more \in Pairs(ServiceCalls) :
       LET first == IF line = F!NoState THEN F!Create(p.line, TRUE, file, calls, ops + 1)
                    ELSE F!Update(p.line, line, TRUE, file, calls, ops + 1)
           args == ServiceArgs(p, first.s.triggers)
           second == IF service = S!NoState
                     THEN S!Create(args, TRUE, unit, file, more, ops + 1)
                     ELSE S!Update(args, service, TRUE, unit, file, more, ops + 1)
           allOk == \A i \in {1, 2} : calls[i] = "ok" /\ more[i] = "ok"
       IN /\ file' = first.m /\ unit' = second.m
          /\ Tell(IF allOk THEN "preview" ELSE "disturbed preview",
                  IF first.err = "none" THEN second.err ELSE first.err, p)
  /\ UNCHANGED <<line, service, inputs, doing, unseen, owed, settled>>

\* A refresh asks for what the last up asked for; what the state holds beyond
\* that it does not see.
RefreshLine ==
  /\ Begin /\ line # F!NoState
  /\ \E call \in LineCalls :
       LET found == F!Read(inputs.line, line, file, call, ops + 1)
           looked == \/ inputs.line = line.args
                     \/ found.s.drifted # {}
       IN /\ file' = found.m
          /\ line' = IF found.err = "none" THEN found.s ELSE line
          /\ unseen' = (unseen /\ ~(call = "ok" /\ found.err = "none" /\ looked))
          /\ Tell("refresh", found.err, NoProgram)
  /\ UNCHANGED <<unit, service, inputs, doing, owed, settled>>

RefreshService ==
  /\ Begin /\ service # S!NoState
  /\ \E calls \in Pairs(ServiceCalls) :
       LET found == S!Read(inputs.service, service, unit, file, calls, ops + 1)
       IN /\ unit' = found.m
          /\ service' = IF found.err = "none" THEN found.s ELSE service
          /\ Tell("refresh", found.err, NoProgram)
  /\ UNCHANGED <<file, line, inputs, doing, unseen, owed, settled>>

\* The service goes first; a FileLine has no Delete, its state is forgotten.
Destroy ==
  /\ Begin /\ service # S!NoState
  /\ \E calls \in Pairs(ServiceCalls) :
       LET gone == S!Delete(service, DeleteUnreachable, unit, file, calls)
           reached == calls[1] # "unreachable" /\ calls[2] # "unreachable"
       IN /\ unit' = gone.m
          /\ service' = IF gone.err = "none" THEN S!NoState ELSE service
          /\ line' = IF gone.err = "none" THEN F!NoState ELSE line
          /\ inputs' = IF gone.err = "none" THEN [line |-> Unset, service |-> Unset] ELSE inputs
          /\ Tell(IF reached THEN "destroy" ELSE "blind destroy", gone.err,
                  [line |-> line.args, service |-> service.args])
  /\ settled' = NoProgram
  /\ UNCHANGED <<file, doing, unseen, owed>>

-----------------------------------------------------------------------------
\* Somebody else edits the file, also while an up is under way.
EditFile ==
  /\ file' \in F!File \ {file}
  /\ unseen' = TRUE /\ settled' = NoProgram /\ last' = Nothing
  /\ UNCHANGED <<unit, line, service, inputs, doing, ops, owed>>

\* The unit stops, or somebody stops it.
StopUnit ==
  /\ unit.running
  /\ unit' = [unit EXCEPT !.running = FALSE]
  /\ settled' = NoProgram /\ last' = Nothing
  /\ UNCHANGED <<file, line, service, inputs, doing, ops, unseen, owed>>

\* A package brings the unit, or takes it away.
InstallUnit ==
  /\ unit' = [unit EXCEPT !.exists = ~@, !.running = FALSE, !.enabled = FALSE]
  /\ settled' = NoProgram /\ last' = Nothing
  /\ UNCHANGED <<file, line, service, inputs, doing, ops, unseen, owed>>

Next ==
  \/ \E p \in Programs : CreateLine(p) \/ UpdateLine(p) \/ KeepLine(p) \/ Preview(p)
  \/ CreateService \/ UpdateService \/ KeepService
  \/ RefreshLine \/ RefreshService \/ Destroy
  \/ EditFile \/ StopUnit \/ InstallUnit

Spec == Init /\ [][Next]_vars

-----------------------------------------------------------------------------
(* Properties. *)

UpDone == last.op = "up" /\ last.err = "none"

\* After a whole up the state holds every property the program sets, and the
\* file is as the state says (a property that an earlier program set and this
\* one drops counts as still asked, pdiff.go:40), unless somebody changed it and
\* no refresh has looked since (FileLine.Read, Diff, Update).
UpSetsTheLine ==
  UpDone /\ ~unseen =>
    /\ \A p \in {"line", "ensure", "create"} :
         last.program.line[p] # Unset => line.args[p] = last.program.line[p]
    /\ file = F!Desired(line.args, file)

\* "make sure postgresql.service is started and enabled, and restart on any
\* changes to any of the triggers" (index.ts): after a whole up that wants the
\* service started, the unit has loaded every change the provider made to the
\* file (FileLine.Update's lastChanged, SystemdService.updateService).
RestartOnChange ==
  UpDone /\ Restarting(last.program) => ~owed

\* Applying once more what was applied, with refreshes and previews in between,
\* restarts and changes nothing, in neither half of the up (FileLine.Read leaves
\* a state alone that finds the file as asked, and its lastChanged with it).
SecondUpIsQuiet ==
  [][settled # NoProgram /\ last'.op \in {"up line", "up"} /\ last'.program = settled
       => UNCHANGED machine /\ ~last'.started]_vars

\* A preview that reaches the machine succeeds whether or not the file and the
\* unit exist yet: other resources of the program may be about to make them
\* (FileLine.Create, Update; SystemdService.doesUnitExist).
PreviewBeforeAnything == last.op = "preview" => last.err = "none"

\* A destroy that reached the machine leaves a service that was to be started
\* stopped, and one that was to be enabled disabled (SystemdService.Delete).
DestroyStops ==
  last.op = "destroy" /\ last.err = "none"
    => /\ last.program.service.ensure = "started" => ~unit.running
       /\ last.program.service.enabled = TRUE => ~unit.enabled
=============================================================================
