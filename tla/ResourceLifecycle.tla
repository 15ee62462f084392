-------------------------- MODULE ResourceLifecycle -------------------------
(***************************************************************************)
(* The life of one resource: Pulumi's engine calls the handlers of module  *)
(* Resources for up, preview, refresh and destroy, keeps the state they    *)
(* return, and drops it with a successful delete; infer's controller       *)
(* (pkg/providerfw/infer/resource.go) passes no state on when a handler    *)
(* fails.  Between two operations somebody else may change the machine.    *)
(***************************************************************************)
EXTENDS Resources

CONSTANTS
  Programs,   \* for each kind of resource that is tried, the inputs programs give it
  Given,      \* for each of these kinds, the machines there are at first and after a drift
  MaxOps,     \* for each of these kinds, the bound on the operations of the engine
  MayFail,    \* whether calls to the machine may go wrong
  NoResource  \* the engine has no such resource

ASSUME LifecycleAssumption ==
  /\ DOMAIN Programs \subseteq Kinds
  /\ MaxOps \in [DOMAIN Programs -> Nat]
  /\ \A k \in DOMAIN Programs : Given[k] \subseteq Machines(k)
  /\ MayFail \in BOOLEAN /\ DeleteUnreachable \in BOOLEAN /\ Check \in BOOLEAN

VARIABLES
  kind,     \* the kind of the resource, fixed
  machine,  \* the part of the remote machine it is about
  resource, \* the state the engine keeps
  pending,  \* the state of a replaced resource that is still to be deleted
  last,     \* history: the last operation and its outcome
  ops       \* operations so far; also the clock of the triggers

vars == <<kind, machine, resource, pending, last, ops>>

Calls == IF MayFail THEN TroublesOf(kind) ELSE {NoTrouble}
\* Calls in check mode do nothing, however they fail.
Checks == {trouble \in Calls : trouble.done = {}}

\* At most one call of two handlers fails.
Pairs == {<<NoTrouble, t>> : t \in Calls} \cup {<<t, NoTrouble>> : t \in Calls}

Nothing == [op |-> "none", ok |-> TRUE, args |-> Unset, held |-> Unset, fresh |-> TRUE]

Init ==
  /\ kind \in DOMAIN Programs
  /\ machine \in Given[kind]
  /\ resource = NoResource
  /\ pending = NoResource
  /\ last = Nothing
  /\ ops = 0

-----------------------------------------------------------------------------
\* Kinds whose Read puts into the state what it finds.
Observant == {"Package", "Apt", "File"}

\* fresh: the state agrees with the machine as far as the engine can know.
StillFresh(op, args, ok) ==
  IF op \in {"create", "update", "replace"}
  THEN ok /\ (Forgets(kind, args) => op # "replace" /\ machine' # machine)
  ELSE IF op = "refresh" /\ Misreads(kind, resource.args, machine) THEN FALSE
  ELSE IF op = "refresh" /\ kind \in Observant THEN last.fresh \/ ok
  ELSE last.fresh

Tell(op, args, ok) ==
  /\ ops' = ops + 1
  /\ last' = [ op |-> op, ok |-> ok, fresh |-> StillFresh(op, args, ok),
               args |-> IF ok THEN args ELSE Unset,
               held |-> IF ok /\ args # Unset /\ resource # NoResource THEN resource.args ELSE Unset ]
  /\ UNCHANGED kind

\* A machine that a delete could not reach is forgiven, but not forgotten here.
Reached(trouble, err) == trouble.kind # "unreachable" /\ err = "none"

New(made, otherwise) == IF made.err = "none" THEN made.s ELSE otherwise

Exists == resource # NoResource
Finds(args) == Diff(kind, args, resource)

\* derivedResourceController.Create: a failed creation leaves no state.
UpCreate(args) ==
  /\ ~Exists /\ pending = NoResource
  /\ \E made \in {Create(kind, args, FALSE, machine, trouble, ops + 1) : trouble \in Calls} :
       /\ machine' = made.m
       /\ resource' = New(made, NoResource)
       /\ Tell("create", args, made.err = "none")
  /\ UNCHANGED pending

\* derivedResourceController.Update: a failed update leaves the old state.
UpUpdate(args) ==
  /\ Exists /\ pending = NoResource
  /\ Finds(args).changes /\ ~Finds(args).replace
  /\ \E made \in {Update(kind, args, resource, FALSE, machine, trouble, ops + 1) : trouble \in Calls} :
       /\ machine' = made.m
       /\ resource' = New(made, resource)
       /\ Tell("update", args, made.err = "none")
  /\ UNCHANGED pending

\* A replacement that deletes first.
UpReplace(args) ==
  /\ Exists /\ pending = NoResource
  /\ Finds(args).replace /\ Finds(args).deleteFirst
  /\ \E troubles \in Pairs :
       \E gone \in {Delete(kind, resource, machine, troubles[1])} :
         \/ /\ gone.err # "none"
            /\ machine' = gone.m /\ UNCHANGED resource
            /\ Tell("replace", args, FALSE)
         \/ /\ gone.err = "none"
            /\ \E made \in {Create(kind, args, FALSE, gone.m, troubles[2], ops + 1)} :
                 /\ machine' = made.m
                 /\ resource' = New(made, NoResource)
                 /\ Tell("replace", args, Reached(troubles[1], made.err))
  /\ UNCHANGED pending

\* One that deletes when the new one is there: a delete that fails is tried
\* again by the next up or destroy.
UpReplaceLater(args) ==
  /\ Exists /\ pending = NoResource
  /\ Finds(args).replace /\ ~Finds(args).deleteFirst
  /\ \E troubles \in Pairs :
       \E made \in {Create(kind, args, FALSE, machine, troubles[1], ops + 1)} :
         \/ /\ made.err # "none"
            /\ machine' = made.m /\ UNCHANGED <<resource, pending>>
            /\ Tell("replace", args, FALSE)
         \/ /\ made.err = "none"
            /\ \E gone \in {Delete(kind, resource, made.m, troubles[2])} :
                 /\ machine' = gone.m
                 /\ resource' = made.s
                 /\ pending' = IF gone.err = "none" THEN NoResource ELSE resource
                 /\ Tell("replace", args, Reached(troubles[2], gone.err))

Retire ==
  /\ pending # NoResource
  /\ \E gone \in {Delete(kind, pending, machine, trouble) : trouble \in Calls} :
       /\ machine' = gone.m
       /\ pending' = IF gone.err = "none" THEN NoResource ELSE pending
       /\ Tell("retire", Unset, gone.err = "none")
  /\ UNCHANGED resource

UpSame(args) ==
  /\ Exists /\ pending = NoResource
  /\ ~Finds(args).changes
  /\ UNCHANGED <<machine, resource, pending>>
  /\ Tell("same", Unset, TRUE)

\* A preview calls Create or Update with DryRun and keeps nothing of it.
Previewed(args, trouble) ==
  IF ~Exists \/ Finds(args).replace
  THEN Create(kind, args, TRUE, machine, trouble, ops + 1)
  ELSE Update(kind, args, resource, TRUE, machine, trouble, ops + 1)

Preview(args) ==
  /\ Exists => Finds(args).changes
  /\ \E made \in {Previewed(args, trouble) : trouble \in Checks} :
       /\ machine' = made.m
       /\ Tell("preview", Unset, made.err = "none")
  /\ UNCHANGED <<resource, pending>>

\* derivedResourceController.Read with the inputs of the last up.
Refresh ==
  /\ Exists
  /\ \E trouble \in Checks :
       \E found \in {Read(kind, resource.args, resource, machine, trouble, ops + 1)} :
         /\ machine' = found.m
         /\ resource' = New(found, resource)
         /\ Tell("refresh", Unset, trouble = NoTrouble /\ found.err = "none")
  /\ UNCHANGED pending

Destroy ==
  /\ Exists /\ pending = NoResource
  /\ \E trouble \in Calls :
       \E gone \in {Delete(kind, resource, machine, trouble)} :
         /\ machine' = gone.m
         /\ resource' = IF gone.err = "none" THEN NoResource ELSE resource
         /\ Tell("destroy", resource.args, Reached(trouble, gone.err))
  /\ UNCHANGED pending

\* Somebody else changes the machine.
Drift ==
  /\ machine' \in Given[kind] \ {machine}
  /\ last' = [Nothing EXCEPT !.fresh = FALSE]
  /\ UNCHANGED <<kind, resource, pending, ops>>

Next ==
  /\ ops < MaxOps[kind]
  /\ \/ \E args \in Programs[kind] :
          \/ UpCreate(args) \/ UpUpdate(args) \/ UpReplace(args) \/ UpReplaceLater(args)
          \/ UpSame(args) \/ Preview(args)
     \/ Retire \/ Refresh \/ Destroy \/ Drift

Spec == Init /\ [][Next]_vars

-----------------------------------------------------------------------------
(* Properties. *)

Applied == last.op \in {"create", "update", "replace"} /\ last.ok

\* A replacement that does not delete first runs the old delete command after
\* the new create command (Exec, unless deleteBeforeReplace).
Undone ==
  /\ kind = "Exec" /\ last.op = "replace"
  /\ last.args.deleteBeforeReplace # TRUE /\ last.held.delete # Unset

\* After an up that created, updated or replaced the resource without an error
\* the machine is as the program asks, whatever failed or drifted before, and
\* what only the old inputs were about is gone (Create and Update of every
\* kind; Package.Update's absents, the replacement of a group, user or file of
\* another name).
UpApplies ==
  /\ Applied /\ ~Undone => AsAsked(kind, last.args, last.op, machine)
  /\ Applied /\ last.op # "create" => Shed(kind, last.args, last.held, last.op, machine)

\* A refresh that reached the machine tells the truth where Read can: the next
\* up sees a difference if the machine is not as asked (Package.Read, File.Read;
\* for a package also only then, as what a file was found to lack is remembered
\* when somebody else has repaired it).
RefreshSeesDrift ==
  last.op = "refresh" /\ last.ok =>
    LET sees == Finds(resource.args).changes
        right == AsAsked(kind, resource.args, "refresh", machine)
    IN /\ Tells(kind, resource.args) => right \/ sees
       /\ Tells(kind, resource.args) /\ kind = "Package" => ~right \/ ~sees

\* The state of a file remembers that it has drifted.
Known == kind = "File" /\ resource.drifted # {}

\* A refresh that finds the machine not as asked says so to whoever has the
\* resource's last change as a trigger, unless an earlier one has, and (but for
\* files, and services that are restarted each time) does not say so otherwise
\* (UpdateTriggerState in the Read of every kind that has one).
RefreshStampsDrift ==
  last.op = "refresh" /\ last.ok /\ kind \notin {"Exec", "AnsibleTaskList"} =>
    LET stamped == resource.triggers.lastChanged = ops
        right == AsAsked(kind, resource.args, "refresh", machine)
    IN /\ right \/ stamped \/ Known
       /\ Bounces(kind, resource.args) \/ ~right \/ ~stamped

\* A destroy that reached the machine leaves nothing of the resource there, if
\* since the last successful up (or a refresh that takes note) nobody changed
\* the machine and no up failed half-way (Delete of every kind; those of Group,
\* User, Package and Apt do nothing for a state whose ensure is absent).  Nothing is
\* asked after a refresh that found a part of a list of packages missing, of a deb
\* that its last task, or that of a refresh, found installed, and
\* of one that replaced another resource (what its task did is not told apart
\* from what the delete before it did).
DestroyLeavesNothing ==
  last.op = "destroy" /\ last.ok /\ last.fresh => Gone(kind, last.held, machine)

\* Previews and refreshes change nothing on the machine: modules run in check
\* mode, and commands not at all.
OnlyLooks == last'.op \in {"preview", "refresh", "same"} => machine' = machine
LookingIsFree == [][OnlyLooks]_vars
=============================================================================
