---------------------- MODULE ResourceLifecycle_proofs ----------------------
(***************************************************************************)
(* The promises of the life cycle, for every program, machine and order of  *)
(* operations: looking is free, and what an up, a destroy and a refresh     *)
(* promise follows from LifeInv and the handlers' promises.                 *)
(***************************************************************************)
EXTENDS ResourceLifecycle, Resources_proofs

\* The kind is one that programs use, and the engine's state comes from inputs
\* that programs gave.
ArgsKnown ==
  /\ kind \in DOMAIN Programs
  /\ Exists => resource.args \in Programs[kind]

\* No operation of the engine brings inputs into its state that no program gave.
LEMMA ArgsStayKnown == ArgsKnown /\ [Next]_vars => ArgsKnown'
  <1> SUFFICES ASSUME ArgsKnown, [Next]_vars PROVE ArgsKnown'
    OBVIOUS
  <1>1. kind \in Kinds
    BY LifecycleAssumption DEF ArgsKnown
  <1>2. kind' = kind
    <2>1. ASSUME NEW args
          PROVE  /\ UpCreate(args) \/ UpUpdate(args) \/ UpReplace(args) \/ UpReplaceLater(args) => kind' = kind
                 /\ UpSame(args) \/ Preview(args) => kind' = kind
      BY DEF UpCreate, UpUpdate, UpReplace, UpReplaceLater, UpSame, Preview, Tell
    <2>2. Retire \/ Refresh \/ Destroy \/ Drift => kind' = kind
      BY DEF Retire, Refresh, Destroy, Drift, Tell
    <2> QED
      BY <2>1, <2>2 DEF Next, vars
  <1>3. ASSUME NEW args \in Programs[kind], UpCreate(args)
        PROVE  ArgsKnown'
    <2>1. PICK trouble \in Calls :
            resource' = New(Create(kind, args, FALSE, machine, trouble, ops + 1), NoResource)
      BY <1>3 DEF UpCreate
    <2>2. KeepsArgs(kind, args, resource, machine, trouble, ops + 1)
      BY <1>1, Keeps
    <2> QED
      BY <1>2, <2>1, <2>2 DEF ArgsKnown, Exists, New, KeepsArgs
  <1>4. ASSUME NEW args \in Programs[kind], UpUpdate(args)
        PROVE  ArgsKnown'
    <2>1. PICK trouble \in Calls :
            resource' = New(Update(kind, args, resource, FALSE, machine, trouble, ops + 1), resource)
      BY <1>4 DEF UpUpdate
    <2>2. KeepsArgs(kind, args, resource, machine, trouble, ops + 1)
      BY <1>1, Keeps
    <2>3. Exists
      BY <1>4 DEF UpUpdate
    <2> QED
      BY <1>2, <2>1, <2>2, <2>3 DEF ArgsKnown, Exists, New, KeepsArgs
  <1>5. ASSUME NEW args \in Programs[kind], UpReplace(args)
        PROVE  ArgsKnown'
    <2>1. \/ UNCHANGED resource
          \/ \E m, trouble : resource' = New(Create(kind, args, FALSE, m, trouble, ops + 1), NoResource)
      BY <1>5 DEF UpReplace
    <2>2. CASE UNCHANGED resource
      BY <1>2, <2>2 DEF ArgsKnown, Exists
    <2>3. ASSUME NEW m, NEW trouble,
                 resource' = New(Create(kind, args, FALSE, m, trouble, ops + 1), NoResource)
          PROVE  ArgsKnown'
      <3>1. KeepsArgs(kind, args, resource, m, trouble, ops + 1)
        BY <1>1, Keeps
      <3> QED
        BY <1>2, <2>3, <3>1 DEF ArgsKnown, Exists, New, KeepsArgs
    <2> QED
      BY <2>1, <2>2, <2>3, Zenon
  <1>6. ASSUME NEW args \in Programs[kind], UpReplaceLater(args)
        PROVE  ArgsKnown'
    <2>1. \/ UNCHANGED resource
          \/ \E trouble : resource' = Create(kind, args, FALSE, machine, trouble, ops + 1).s
      BY <1>6 DEF UpReplaceLater
    <2>2. CASE UNCHANGED resource
      BY <1>2, <2>2 DEF ArgsKnown, Exists
    <2>3. ASSUME NEW trouble, resource' = Create(kind, args, FALSE, machine, trouble, ops + 1).s
          PROVE  ArgsKnown'
      <3>1. KeepsArgs(kind, args, resource, machine, trouble, ops + 1)
        BY <1>1, Keeps
      <3> QED
        BY <1>2, <2>3, <3>1 DEF ArgsKnown, Exists, KeepsArgs
    <2> QED
      BY <2>1, <2>2, <2>3, Zenon
  <1>7. CASE Refresh
    <2>1. PICK trouble \in Checks :
            resource' = New(Read(kind, resource.args, resource, machine, trouble, ops + 1), resource)
      BY <1>7 DEF Refresh
    <2>2. KeepsArgs(kind, resource.args, resource, machine, trouble, ops + 1)
      BY <1>1, Keeps
    <2>3. Exists
      BY <1>7 DEF Refresh
    <2> QED
      BY <1>2, <2>1, <2>2, <2>3 DEF ArgsKnown, Exists, New, KeepsArgs
  <1>8. CASE Destroy
    BY <1>2, <1>8 DEF ArgsKnown, Exists, Destroy
  <1>9. ASSUME UNCHANGED resource
        PROVE  ArgsKnown'
    BY <1>2, <1>9 DEF ArgsKnown, Exists
  <1> QED
    BY <1>3, <1>4, <1>5, <1>6, <1>7, <1>8, <1>9
       DEF Next, vars, UpSame, Preview, Retire, Drift

\* No program fetches a tarball over what is at its path.
NoneOverwrites == "File" \in DOMAIN Programs => \A args \in Programs["File"] : ~Overwrites(args)

\* Every step is an operation that may write, or one that looks only.
LEMMA LookingStep ==
  ASSUME NoneOverwrites, ArgsKnown, [Next]_vars
  PROVE  OnlyLooks \/ UNCHANGED vars
  <1>1. kind \in Kinds
    BY LifecycleAssumption DEF ArgsKnown
  <1>2. \A args \in Programs[kind] : kind = "File" => ~Overwrites(args)
    BY DEF NoneOverwrites, ArgsKnown
  <1>3. ASSUME NEW args \in Programs[kind], Preview(args)
        PROVE  machine' = machine
    <2>1. PICK trouble \in Checks : machine' = Previewed(args, trouble).m
      BY <1>3 DEF Preview
    <2>2. LooksOnly(kind, args, resource, machine, trouble, ops + 1)
      BY <1>1, <1>2, Looks
    <2> QED
      BY <2>1, <2>2 DEF Previewed, LooksOnly
  <1>4. ASSUME Refresh
        PROVE  OnlyLooks
    <2>1. PICK trouble \in Checks :
            machine' = Read(kind, resource.args, resource, machine, trouble, ops + 1).m
      BY <1>4 DEF Refresh
    <2>2. resource.args \in Programs[kind]
      BY <1>4 DEF Refresh, ArgsKnown
    <2>3. LooksOnly(kind, resource.args, resource, machine, trouble, ops + 1)
      BY <1>1, <1>2, <2>2, Looks
    <2> QED
      BY <2>1, <2>3 DEF OnlyLooks, LooksOnly
  <1>5. CASE UNCHANGED vars
    BY <1>5
  <1>6. ASSUME NEW args, UpCreate(args) \/ UpUpdate(args) \/ UpReplace(args) \/ UpReplaceLater(args)
        PROVE  OnlyLooks
    <2>1. last'.op \in {"create", "update", "replace"}
      <3>1. CASE UpCreate(args)
        BY <3>1 DEF UpCreate, Tell
      <3>2. CASE UpUpdate(args)
        BY <3>2 DEF UpUpdate, Tell
      <3> DEFINE Told(ok) == Tell("replace", args, ok)
      <3>3. ASSUME NEW ok, Told(ok)
            PROVE  last'.op = "replace"
        BY <3>3 DEF Tell
      <3>4. CASE UpReplace(args)
        <4>1. \E ok : Told(ok)
          BY <3>4, Zenon DEF UpReplace
        <4> HIDE DEF Told
        <4>2. last'.op = "replace"
          BY <3>3, <4>1
        <4> QED
          BY <4>2
      <3>5. CASE UpReplaceLater(args)
        <4>1. \E ok : Told(ok)
          BY <3>5, Zenon DEF UpReplaceLater
        <4> HIDE DEF Told
        <4>2. last'.op = "replace"
          BY <3>3, <4>1
        <4> QED
          BY <4>2
      <3> QED
        BY <1>6, <3>1, <3>2, <3>4, <3>5
    <2> QED
      BY <2>1 DEF OnlyLooks
  <1>7. ASSUME NEW args, UpSame(args)
        PROVE  OnlyLooks
    BY <1>7 DEF OnlyLooks, UpSame
  <1>8. CASE Retire \/ Destroy \/ Drift
    BY <1>8 DEF OnlyLooks, Retire, Destroy, Drift, Tell, Nothing
  <1> QED
    BY <1>3, <1>4, <1>5, <1>6, <1>7, <1>8 DEF Next, OnlyLooks

\* LookingIsFree: a preview (check mode of Create and Update) and a refresh
\* (Read) of every kind leave the machine as it is, for every program but the File
\* of run file_preview, whose preview does write.
THEOREM LooksAreFree ==
  ASSUME NoneOverwrites
  PROVE  Spec => LookingIsFree
  <1>1. Init => ArgsKnown
    BY DEF Init, ArgsKnown, Exists
  <1>2. ArgsKnown /\ [Next]_vars => [OnlyLooks]_vars
    BY LookingStep
  <1> QED
    BY <1>1, <1>2, ArgsStayKnown, PTL DEF Spec, LookingIsFree

\* Programs of the seven kinds whose handlers are proved below, with sound inputs.
ProgramsSound == \A k \in DOMAIN Programs : Unset \notin Programs[k] /\ \A args \in Programs[k] : Sound(k, args)
-----------------------------------------------------------------------------
(* The promises of the life cycle, for programs that ask for nothing odd. *)

\* What must hold between two operations: the state is of inputs that a program
\* gave, its time is not of the future, only a command or a file is left to be
\* deleted later, a delete would clear what a fresh state is about, and what is
\* remembered of an archive has all of it or has drifted.
LifeInv ==
  /\ ArgsKnown
  /\ machine \in Shapes(kind)
  /\ pending # NoResource => kind \in {"Exec", "File"} /\ pending.args \in Programs[kind]
  /\ ops \in Nat
  /\ Exists => resource.triggers.lastChanged \in 0 .. ops
  /\ last.fresh \in BOOLEAN
  /\ last.fresh /\ Exists => Clears(kind, resource, machine)
  /\ Exists => Remembers(kind, resource)

\* What every operation promises the program.
Promises == UpApplies /\ DestroyLeavesNothing /\ RefreshSeesDrift /\ RefreshStampsDrift

\* Only these operations promise anything.
LEMMA Unpromised ==
  ASSUME last'.op \notin {"create", "update", "replace", "refresh", "destroy"}
  PROVE  Promises'
  BY DEF Promises, UpApplies, Applied, DestroyLeavesNothing, RefreshSeesDrift, RefreshStampsDrift

\* What a step knows of the programs.
LEMMA SoundHere ==
  ASSUME ProgramsSound, LifeInv, NEW args \in Programs[kind]
  PROVE  /\ args # Unset /\ Sound(kind, args) /\ kind \in Kinds
         /\ \A trouble \in Calls : trouble.kind \in Outcomes
  <1>1. Sound(kind, args) /\ args # Unset
    BY DEF ProgramsSound, LifeInv, ArgsKnown
  <1>2. kind \in Kinds
    BY LifecycleAssumption DEF LifeInv, ArgsKnown
  <1>3. NoTrouble.kind \in Outcomes
    BY DEF NoTrouble, Outcomes
  <1>4. \A trouble \in Calls : trouble.kind \in Outcomes
    BY <1>1, <1>3, TroubleKinds DEF Calls
  <1> QED
    BY <1>1, <1>2, <1>4

\* A create keeps the promises: Create of the kind, state stored on success only.
LEMMA CreateStep ==
  ASSUME ProgramsSound, LifeInv, ArgsKnown', NEW args \in Programs[kind], UpCreate(args)
  PROVE  LifeInv' /\ Promises'
  <1> DEFINE Did(made) == /\ machine' = made.m
                          /\ resource' = New(made, NoResource)
                          /\ Tell("create", args, made.err = "none")
  <1>1. PICK trouble \in Calls : Did(Create(kind, args, FALSE, machine, trouble, ops + 1))
    BY Zenon DEF UpCreate
  <1> DEFINE made == Create(kind, args, FALSE, machine, trouble, ops + 1)
  <1>2. CreatesWell(kind, args, machine, trouble, ops + 1)
    BY SoundHere, Creating DEF LifeInv
  <1>3. /\ made.m \in Shapes(kind)
        /\ made.err = "none" =>
             /\ AsAsked(kind, args, "create", made.m)
             /\ Kept(kind, args, machine, made) /\ made.s.triggers.lastChanged = ops + 1
    BY <1>2, Zenon DEF CreatesWell
  <1>4. Did(made) /\ (made.err = "none" => Remembers(kind, made.s))
    <2>1. RemembersWell(kind, args, resource, machine, trouble, ops + 1)
      BY SoundHere, Remembering DEF LifeInv
    <2> QED
      BY <1>1, <2>1, Zenon DEF RemembersWell
  <1> HIDE DEF made
  <1>5. /\ machine' = made.m /\ kind' = kind /\ ops' = ops + 1 /\ pending' = pending
        /\ resource' = IF made.err = "none" THEN made.s ELSE NoResource
        /\ last'.op = "create" /\ last'.fresh \in BOOLEAN
        /\ last'.ok => made.err = "none" /\ last'.args = args
        /\ last'.fresh => made.err = "none" /\ (Forgets(kind, args) => machine' # machine)
    BY <1>4 DEF Tell, New, StillFresh, UpCreate
  <1> HIDE DEF Did
  <1>6. LifeInv'
    BY <1>3, <1>4, <1>5 DEF LifeInv, Exists, Kept
  <1>7. Promises'
    BY <1>3, <1>5 DEF Promises, UpApplies, Applied, DestroyLeavesNothing, RefreshSeesDrift, RefreshStampsDrift
  <1> QED
    BY <1>6, <1>7

\* An update keeps the promises: Update of the kind, the old state on an error.
LEMMA UpdateStep ==
  ASSUME ProgramsSound, LifeInv, ArgsKnown', NEW args \in Programs[kind], UpUpdate(args)
  PROVE  LifeInv' /\ Promises'
  <1> DEFINE Did(made) == /\ machine' = made.m
                          /\ resource' = New(made, resource)
                          /\ Tell("update", args, made.err = "none")
  <1>1. PICK trouble \in Calls : Did(Update(kind, args, resource, FALSE, machine, trouble, ops + 1))
    BY Zenon DEF UpUpdate
  <1>2. Exists /\ ~Diff(kind, args, resource).replace /\ UNCHANGED pending
    BY DEF UpUpdate, Finds
  <1>3. resource.args \in Programs[kind]
    BY <1>2 DEF LifeInv, ArgsKnown
  <1> DEFINE made == Update(kind, args, resource, FALSE, machine, trouble, ops + 1)
  <1>4. UpdatesWell(kind, args, resource, machine, trouble, ops + 1)
    BY <1>2, <1>3, SoundHere, Updating DEF LifeInv
  <1>5. /\ made.m \in Shapes(kind)
        /\ made.err = "none" =>
             /\ AsAsked(kind, args, "update", made.m) /\ Shed(kind, args, resource.args, "update", made.m)
             /\ Kept(kind, args, machine, made)
             /\ made.s.triggers.lastChanged \in {ops + 1, resource.triggers.lastChanged}
    BY <1>4, Zenon DEF UpdatesWell
  <1>6. Did(made) /\ (made.err = "none" => Remembers(kind, made.s))
    <2>1. RemembersWell(kind, args, resource, machine, trouble, ops + 1)
      BY SoundHere, Remembering DEF LifeInv
    <2> QED
      BY <1>1, <2>1, Zenon DEF RemembersWell
  <1> HIDE DEF made
  <1>7. /\ machine' = made.m /\ kind' = kind /\ ops' = ops + 1 /\ pending' = pending
        /\ resource' = IF made.err = "none" THEN made.s ELSE resource
        /\ last'.op = "update" /\ last'.fresh \in BOOLEAN
        /\ last'.ok => made.err = "none" /\ last'.args = args /\ last'.held = resource.args
        /\ last'.fresh => made.err = "none" /\ (Forgets(kind, args) => machine' # machine)
    BY <1>2, <1>6, SoundHere DEF Tell, New, StillFresh, Exists
  <1> HIDE DEF Did
  <1>8. LifeInv'
    <2>1. Exists' => resource'.triggers.lastChanged \in 0 .. ops'
      BY <1>2, <1>5, <1>7 DEF LifeInv
    <2>2. last'.fresh => Clears(kind', resource', machine')
      BY <1>5, <1>7 DEF Kept
    <2>3. Remembers(kind, resource')
      BY <1>2, <1>6, <1>7 DEF LifeInv
    <2> QED
      BY <1>5, <1>7, <2>1, <2>2, <2>3 DEF LifeInv
  <1>9. Promises'
    BY <1>5, <1>7 DEF Promises, UpApplies, Applied, DestroyLeavesNothing, RefreshSeesDrift, RefreshStampsDrift
  <1> QED
    BY <1>8, <1>9

\* Of these kinds only a command can be replaced by creating first, and a file that
\* moves always is.
LEMMA ReplaceFirst ==
  ASSUME NEW k, NEW args, Sound(k, args), NEW state
  PROVE  Diff(k, args, state).deleteFirst <=>
           /\ k = "Exec" => args.deleteBeforeReplace = TRUE
           /\ k = "File" => args.path = state.args.path
  BY SoundKinds DEF Diff, P!Diff, A!Diff, G!Diff, U!Diff, S!Diff, E!Diff, F!Diff,
     P!Merged, A!Merged, G!Merged, U!Merged, S!Merged, E!Merged, F!Merged

\* A replacement that deletes first keeps the promises.
LEMMA ReplaceStep ==
  ASSUME ProgramsSound, LifeInv, ArgsKnown', NEW args \in Programs[kind], UpReplace(args)
  PROVE  LifeInv' /\ Promises'
  <1> DEFINE Stuck(gone) == /\ gone.err # "none"
                            /\ machine' = gone.m /\ UNCHANGED resource
                            /\ Tell("replace", args, FALSE)
             Did(gone, trouble, made) == /\ gone.err = "none"
                                         /\ machine' = made.m
                                         /\ resource' = New(made, NoResource)
                                         /\ Tell("replace", args, Reached(trouble, made.err))
             Deletion(t) == Delete(kind, resource, machine, t)
             Creation(t, u) == Create(kind, args, FALSE, Deletion(t).m, u, ops + 1)
  <1>1. PICK troubles \in Pairs :
          \/ Stuck(Deletion(troubles[1]))
          \/ Did(Deletion(troubles[1]), troubles[1], Creation(troubles[1], troubles[2]))
    BY Zenon DEF UpReplace
  <1>2. Exists /\ Diff(kind, args, resource).deleteFirst /\ pending = NoResource /\ UNCHANGED pending
    BY DEF UpReplace, Finds
  <1>3. resource.args \in Programs[kind]
    BY <1>2 DEF LifeInv, ArgsKnown
  <1>4. troubles[1].kind \in Outcomes /\ troubles[2].kind \in Outcomes
    <2>1. NoTrouble.kind \in Outcomes
      BY DEF NoTrouble, Outcomes
    <2> QED
      BY <2>1, SoundHere DEF Pairs
  <1> DEFINE gone == Deletion(troubles[1])
             made == Creation(troubles[1], troubles[2])
  <1>5. /\ gone.m \in Shapes(kind)
        /\ Clears(kind, resource, machine) => Clears(kind, resource, gone.m)
        /\ Clears(kind, resource, machine) /\ gone.err = "none" /\ troubles[1].kind # "unreachable"
             => Gone(kind, resource.args, gone.m)
    <2>1. DeletesWell(kind, resource, machine, troubles[1])
      BY <1>3, <1>4, SoundHere, Deleting DEF LifeInv
    <2> QED
      BY <2>1, Zenon DEF DeletesWell
  <1> HIDE DEF Deletion
  <1>6. /\ made.m \in Shapes(kind)
        /\ made.err = "none" =>
             /\ AsAsked(kind, args, "replace", made.m)
             /\ Kept(kind, args, gone.m, made) /\ made.s.triggers.lastChanged = ops + 1
    <2>1. CreatesWell(kind, args, gone.m, troubles[2], ops + 1)
      BY <1>4, <1>5, SoundHere, Creating
    <2> QED
      BY <2>1, Zenon DEF CreatesWell
  <1>12. made.err = "none" => Remembers(kind, made.s)
    <2>1. RemembersWell(kind, args, resource, gone.m, troubles[2], ops + 1)
      BY <1>4, <1>5, SoundHere, Remembering
    <2> QED
      BY <2>1, Zenon DEF RemembersWell
  <1>7. /\ kind \in {"Group", "User"} /\ args.name # resource.args.name /\ Gone(kind, resource.args, gone.m)
             => Gone(kind, resource.args, made.m)
    <2>1. kind \in {"Group", "User"} => Spares(kind, args, resource.args, gone.m, troubles[2], ops + 1)
      BY <1>3, <1>4, <1>5, SoundHere, Sparing
    <2> QED
      BY <2>1, Zenon DEF Spares
  <1> HIDE DEF made, gone
  <1>8. Stuck(gone) \/ Did(gone, troubles[1], made)
    BY <1>1, Zenon DEF gone, made
  <1>9. /\ kind' = kind /\ ops' = ops + 1
        /\ last'.op = "replace" /\ last'.fresh \in BOOLEAN
        /\ last'.ok /\ ~Stuck(gone) =>
             /\ gone.err = "none" /\ made.err = "none" /\ troubles[1].kind # "unreachable"
             /\ last'.args = args /\ last'.held = resource.args
        /\ Stuck(gone) => ~last'.ok /\ ~last'.fresh
        /\ last'.fresh => made.err = "none" /\ ~Forgets(kind, args)
    <2>1. CASE Stuck(gone)
      BY <1>2, <2>1, SoundHere DEF Tell, StillFresh
    <2>2. CASE ~Stuck(gone) /\ Did(gone, troubles[1], made)
      <3>1. /\ Tell("replace", args, Reached(troubles[1], made.err)) /\ gone.err = "none"
        BY <2>2
      <3> HIDE DEF Did, Stuck
      <3> QED
        BY <1>2, <2>2, <3>1, SoundHere DEF Tell, StillFresh, Exists, Reached
    <2> QED
      BY <1>8, <2>1, <2>2
  <1>10. LifeInv'
    <2>1. CASE Stuck(gone)
      <3>1. machine' = gone.m /\ resource' = resource
        BY <2>1
      <3> HIDE DEF Did, Stuck
      <3> QED
        BY <1>2, <1>5, <1>9, <2>1, <3>1 DEF LifeInv, Exists
    <2>2. CASE ~Stuck(gone) /\ Did(gone, troubles[1], made)
      <3>1. machine' = made.m /\ resource' = IF made.err = "none" THEN made.s ELSE NoResource
        BY <2>2 DEF New
      <3> HIDE DEF Did, Stuck
      <3>2. last'.fresh => Clears(kind', resource', machine')
        BY <1>6, <1>9, <3>1 DEF Kept
      <3> QED
        BY <1>2, <1>6, <1>9, <1>12, <3>1, <3>2 DEF LifeInv, Exists
    <2> QED
      BY <1>8, <2>1, <2>2
  <1>11. Promises'
    <2>1. ASSUME last'.ok
          PROVE  /\ AsAsked(kind', last'.args, last'.op, machine')
                 /\ Shed(kind', last'.args, last'.held, last'.op, machine')
      <3>1. ~Stuck(gone)
        BY <1>9, <2>1
      <3>2. machine' = made.m
        BY <1>8, <3>1
      <3> HIDE DEF Did, Stuck
      <3>3. AsAsked(kind', last'.args, last'.op, machine')
        BY <1>6, <1>9, <2>1, <3>1, <3>2
      <3>4. kind \in {"Group", "User"} /\ args.name # resource.args.name /\ resource.args.ensure # "absent"
              => Gone(kind, resource.args, machine')
        BY <1>5, <1>7, <1>9, <2>1, <3>1, <3>2 DEF Clears
      <3>5. kind = "File" => args.path = resource.args.path
        BY <1>2, SoundHere, ReplaceFirst
      <3>6. Shed(kind, args, resource.args, "replace", machine')
        BY <3>4, <3>5 DEF Shed
      <3> QED
        BY <1>9, <2>1, <3>1, <3>3, <3>6
    <2> HIDE DEF Did, Stuck
    <2> QED
      BY <1>9, <2>1 DEF Promises, UpApplies, Applied, DestroyLeavesNothing, RefreshSeesDrift, RefreshStampsDrift
  <1> QED
    BY <1>10, <1>11

\* A replacement that creates first, and deletes later, keeps the promises.
LEMMA ReplaceLaterStep ==
  ASSUME ProgramsSound, LifeInv, ArgsKnown', NEW args \in Programs[kind], UpReplaceLater(args)
  PROVE  LifeInv' /\ Promises'
  <1> DEFINE Stuck(made) == /\ made.err # "none"
                            /\ machine' = made.m /\ UNCHANGED <<resource, pending>>
                            /\ Tell("replace", args, FALSE)
             Did(made, trouble, gone) == /\ made.err = "none"
                                         /\ machine' = gone.m
                                         /\ resource' = made.s
                                         /\ pending' = IF gone.err = "none" THEN NoResource ELSE resource
                                         /\ Tell("replace", args, Reached(trouble, gone.err))
             Creation(t) == Create(kind, args, FALSE, machine, t, ops + 1)
             Deletion(t, u) == Delete(kind, resource, Creation(t).m, u)
  <1>1. PICK troubles \in Pairs :
          \/ Stuck(Creation(troubles[1]))
          \/ Did(Creation(troubles[1]), troubles[2], Deletion(troubles[1], troubles[2]))
    BY Zenon DEF UpReplaceLater
  <1>2. Exists /\ ~Diff(kind, args, resource).deleteFirst /\ pending = NoResource
    BY DEF UpReplaceLater, Finds
  <1>3. resource.args \in Programs[kind]
    BY <1>2 DEF LifeInv, ArgsKnown
  <1>4. troubles[1].kind \in Outcomes /\ troubles[2].kind \in Outcomes
    <2>1. NoTrouble.kind \in Outcomes
      BY DEF NoTrouble, Outcomes
    <2> QED
      BY <2>1, SoundHere DEF Pairs
  <1>5. \/ kind = "Exec" /\ args.deleteBeforeReplace # TRUE
        \/ kind = "File" /\ args.path # resource.args.path
    BY <1>2, SoundHere, ReplaceFirst
  <1> DEFINE made == Creation(troubles[1])
             gone == Deletion(troubles[1], troubles[2])
  <1>6. /\ made.m \in Shapes(kind)
        /\ made.err = "none" =>
             AsAsked(kind, args, "replace", made.m) /\ made.s.triggers.lastChanged = ops + 1
    <2>1. CreatesWell(kind, args, machine, troubles[1], ops + 1)
      BY <1>4, SoundHere, Creating DEF LifeInv
    <2> QED
      BY <2>1, Zenon DEF CreatesWell
  <1>12. made.err = "none" => Remembers(kind, made.s)
    <2>1. RemembersWell(kind, args, resource, machine, troubles[1], ops + 1)
      BY <1>4, SoundHere, Remembering DEF LifeInv
    <2> QED
      BY <2>1, Zenon DEF RemembersWell
  <1> HIDE DEF Creation
  <1>7. /\ gone.m \in Shapes(kind)
        /\ Clears(kind, resource, made.m) /\ gone.err = "none" /\ troubles[2].kind # "unreachable"
             => Gone(kind, resource.args, gone.m)
    <2>1. DeletesWell(kind, resource, made.m, troubles[2])
      BY <1>3, <1>4, <1>6, SoundHere, Deleting
    <2> QED
      BY <2>1, Zenon DEF DeletesWell
  <1>8. kind = "Exec" /\ resource.args.delete = Unset => gone.m = made.m
    BY DEF Delete, E!Delete, E!Quiet
  <1>13. kind = "File" => gone.m[args.path] = made.m[args.path]
    <2> SUFFICES ASSUME kind = "File" PROVE gone.m[args.path] = made.m[args.path]
      OBVIOUS
    <2>1. FileInput(args) /\ FileInput(resource.args)
      BY <1>3, SoundHere, SoundKinds
    <2>2. RemovesWell(resource, made.m, troubles[2])
      BY <1>4, <1>6, <2>1, FileRemoves DEF Shapes
    <2>3. Within(resource.args.path, made.m, gone.m)
      BY <2>2, Zenon DEF RemovesWell
    <2> HIDE DEF made, gone
    <2> QED
      BY <1>5, <2>1, <2>3 DEF Within, FileInput
  <1> HIDE DEF made, gone
  <1>9. Stuck(made) \/ Did(made, troubles[2], gone)
    BY <1>1, Zenon DEF gone, made
  <1>10. CASE Stuck(made)
    <2>1. /\ machine' = made.m /\ resource' = resource /\ pending' = pending
          /\ kind' = kind /\ ops' = ops + 1
          /\ last'.op = "replace" /\ ~last'.fresh /\ last'.fresh \in BOOLEAN /\ ~last'.ok
      BY <1>10 DEF Tell, StillFresh
    <2> HIDE DEF Did, Stuck
    <2>2. LifeInv'
      BY <1>6, <2>1 DEF LifeInv, Exists
    <2>3. Promises'
      BY <2>1 DEF Promises, UpApplies, Applied, DestroyLeavesNothing, RefreshSeesDrift, RefreshStampsDrift
    <2> QED
      BY <2>2, <2>3
  <1>11. CASE Did(made, troubles[2], gone)
    <2>1. /\ machine' = gone.m /\ resource' = made.s /\ pending' \in {NoResource, resource}
          /\ kind' = kind /\ ops' = ops + 1 /\ made.err = "none"
          /\ last'.op = "replace" /\ last'.fresh \in BOOLEAN
          /\ last'.ok => last'.args = args /\ last'.held = resource.args
          /\ last'.ok => gone.err = "none" /\ troubles[2].kind # "unreachable"
      BY <1>2, <1>11, SoundHere DEF Tell, StillFresh, Exists, Reached
    <2> HIDE DEF Did, Stuck
    <2>2. LifeInv'
      <3>1. Clears(kind', resource', machine')
        BY <1>5, <2>1 DEF Clears
      <3>2. pending' # NoResource => pending' = resource /\ kind' \in {"Exec", "File"}
        BY <1>5, <2>1
      <3> QED
        BY <1>3, <1>6, <1>7, <1>12, <2>1, <3>1, <3>2 DEF LifeInv, Exists
    <2>3. last'.ok =>
            /\ AsAsked(kind, args, "replace", machine') \/ Undone'
            /\ Shed(kind, args, resource.args, "replace", machine')
      <3>1. CASE kind = "Exec"
        BY <1>5, <1>6, <1>8, <2>1, <3>1 DEF Undone, Shed
      <3>2. CASE kind = "File"
        <4>1. AsAsked(kind, args, "replace", made.m)
          BY <1>6, <2>1
        <4>2. AsAsked(kind, args, "replace", gone.m)
          BY <1>13, <3>2, <4>1 DEF AsAsked, F!AsAsked
        <4>3. last'.ok => Gone(kind, resource.args, gone.m)
          BY <1>7, <2>1, <3>2 DEF Clears
        <4> QED
          BY <2>1, <3>2, <4>2, <4>3 DEF Shed
      <3> QED
        BY <1>5, <3>1, <3>2
    <2>4. Promises'
      BY <2>1, <2>3 DEF Promises, UpApplies, Applied, DestroyLeavesNothing, RefreshSeesDrift, RefreshStampsDrift
    <2> QED
      BY <2>2, <2>4
  <1> QED
    BY <1>9, <1>10, <1>11

\* The late delete of the forerunner keeps the promises.
LEMMA RetireStep ==
  ASSUME ProgramsSound, LifeInv, ArgsKnown', Retire
  PROVE  LifeInv' /\ Promises'
  <1> DEFINE Did(gone) == /\ machine' = gone.m
                          /\ pending' = IF gone.err = "none" THEN NoResource ELSE pending
                          /\ Tell("retire", Unset, gone.err = "none")
  <1>1. PICK trouble \in Calls : Did(Delete(kind, pending, machine, trouble))
    BY Zenon DEF Retire
  <1> DEFINE gone == Delete(kind, pending, machine, trouble)
  <1>2. kind \in {"Exec", "File"} /\ pending.args \in Programs[kind] /\ UNCHANGED resource
    BY DEF Retire, LifeInv
  <1>3. gone.m \in Shapes(kind)
    <2>1. DeletesWell(kind, pending, machine, trouble)
      BY <1>2, SoundHere, Deleting DEF LifeInv
    <2> QED
      BY <2>1, Zenon DEF DeletesWell
  <1>4. Did(gone)
    BY <1>1, Zenon
  <1> HIDE DEF gone
  <1>5. /\ machine' = gone.m /\ kind' = kind /\ ops' = ops + 1 /\ pending' \in {NoResource, pending}
        /\ last'.op = "retire" /\ last'.fresh = last.fresh
    BY <1>4 DEF Tell, StillFresh
  <1> HIDE DEF Did
  <1>6. LifeInv'
    <2>1. Clears(kind', resource', machine')
      BY <1>2, <1>5 DEF Clears
    <2> QED
      BY <1>2, <1>3, <1>5, <2>1 DEF LifeInv, Exists
  <1>7. Promises'
    BY <1>5, Unpromised
  <1> QED
    BY <1>6, <1>7

\* A destroy keeps the promises: Delete of the kind with the state of the engine.
LEMMA DestroyStep ==
  ASSUME ProgramsSound, LifeInv, ArgsKnown', Destroy
  PROVE  LifeInv' /\ Promises'
  <1> DEFINE Did(gone, trouble) == /\ machine' = gone.m
                                   /\ resource' = IF gone.err = "none" THEN NoResource ELSE resource
                                   /\ Tell("destroy", resource.args, Reached(trouble, gone.err))
  <1>1. PICK trouble \in Calls : Did(Delete(kind, resource, machine, trouble), trouble)
    BY Zenon DEF Destroy
  <1>2. Exists /\ UNCHANGED pending
    BY DEF Destroy
  <1>3. resource.args \in Programs[kind]
    BY <1>2 DEF LifeInv, ArgsKnown
  <1> DEFINE gone == Delete(kind, resource, machine, trouble)
  <1>4. /\ gone.m \in Shapes(kind)
        /\ Clears(kind, resource, machine) => Clears(kind, resource, gone.m)
        /\ Clears(kind, resource, machine) /\ gone.err = "none" /\ trouble.kind # "unreachable"
             => Gone(kind, resource.args, gone.m)
    <2>1. DeletesWell(kind, resource, machine, trouble)
      BY <1>3, SoundHere, Deleting DEF LifeInv
    <2> QED
      BY <2>1, Zenon DEF DeletesWell
  <1>5. Did(gone, trouble)
    BY <1>1, Zenon
  <1> HIDE DEF gone
  <1>6. /\ machine' = gone.m /\ kind' = kind /\ ops' = ops + 1
        /\ resource' = IF gone.err = "none" THEN NoResource ELSE resource
        /\ last'.op = "destroy" /\ last'.fresh = last.fresh
        /\ last'.ok => /\ trouble.kind # "unreachable" /\ gone.err = "none"
                       /\ last'.held = resource.args
    BY <1>2, <1>3, <1>5, SoundHere DEF Tell, StillFresh, Exists, Reached
  <1> HIDE DEF Did
  <1>7. LifeInv'
    BY <1>2, <1>4, <1>6 DEF LifeInv, Exists
  <1>8. Promises'
    BY <1>2, <1>4, <1>6 DEF LifeInv, Promises, UpApplies, Applied, DestroyLeavesNothing, RefreshSeesDrift, RefreshStampsDrift
  <1> QED
    BY <1>7, <1>8

\* A refresh keeps the promises: Read of the kind.
LEMMA RefreshStep ==
  ASSUME ProgramsSound, LifeInv, ArgsKnown', machine' = machine, Refresh
  PROVE  LifeInv' /\ Promises'
  <1> DEFINE Did(found, trouble) == /\ resource' = New(found, resource)
                                    /\ Tell("refresh", Unset, trouble = NoTrouble /\ found.err = "none")
             Reply(t) == Read(kind, resource.args, resource, machine, t, ops + 1)
  <1>1. PICK trouble \in Checks : Did(Reply(trouble), trouble)
    BY Zenon DEF Refresh
  <1> DEFINE found == Reply(trouble)
  <1>2. Exists /\ UNCHANGED pending
    BY DEF Refresh
  <1>3. resource.args \in Programs[kind]
    BY <1>2 DEF LifeInv, ArgsKnown
  <1> DEFINE right == AsAsked(kind, resource.args, "refresh", machine)
             since == found.s.triggers.lastChanged
             sees == Diff(kind, resource.args, found.s).changes
  <1>4. found.err = "none" =>
          /\ since \in {ops + 1, resource.triggers.lastChanged}
          /\ Clears(kind, resource, machine) /\ ~Misreads(kind, resource.args, machine) => Clears(kind, found.s, machine)
          /\ trouble = NoTrouble =>
               /\ kind \in {"Package", "Apt"} /\ ~Misreads(kind, resource.args, machine) => Clears(kind, found.s, machine)
               /\ Tells(kind, resource.args) => right \/ sees
               /\ Tells(kind, resource.args) /\ kind = "Package" => ~right \/ ~sees
               /\ kind # "Exec" =>
                    /\ right \/ since = ops + 1 \/ (kind = "File" /\ found.s.drifted # {})
                    /\ right /\ ~Bounces(kind, resource.args) => since = resource.triggers.lastChanged
    <2>1. trouble.kind \in Outcomes
      BY <1>3, SoundHere DEF Checks
    <2>2. ReadsWell(kind, resource, machine, trouble, ops + 1)
      BY <1>2, <1>3, <2>1, SoundHere, Reading DEF LifeInv
    <2> QED
      BY <2>2, Zenon DEF ReadsWell
  <1>11. found.err = "none" => Remembers(kind, found.s)
    <2>1. trouble.kind \in Outcomes
      BY <1>3, SoundHere DEF Checks
    <2>2. RemembersWell(kind, resource.args, resource, machine, trouble, ops + 1)
      BY <1>3, <2>1, SoundHere, Remembering DEF LifeInv
    <2> QED
      BY <1>2, <2>2, Zenon DEF RemembersWell, LifeInv
  <1>5. found.s.args = resource.args
    <2>1. KeepsArgs(kind, resource.args, resource, machine, trouble, ops + 1)
      BY <1>3, SoundHere, Keeps
    <2> QED
      BY <2>1 DEF KeepsArgs
  <1>6. Did(found, trouble)
    BY <1>1, Zenon
  <1> HIDE DEF found
  <1>7. /\ kind' = kind /\ ops' = ops + 1 /\ last'.op = "refresh"
        /\ resource' = IF found.err = "none" THEN found.s ELSE resource
        /\ last'.ok => trouble = NoTrouble /\ found.err = "none"
        /\ last'.fresh \in BOOLEAN
        /\ last'.fresh => ~Misreads(kind, resource.args, machine)
        /\ last'.fresh => \/ last.fresh
                          \/ kind \in Observant /\ trouble = NoTrouble /\ found.err = "none"
    BY <1>6 DEF Tell, New, StillFresh, LifeInv
  <1> HIDE DEF Did, right, since, sees
  <1>8. kind # "AnsibleTaskList" /\ (kind = "File" => Clears(kind', resource', machine'))
    BY <1>3, <1>7, SoundHere, SoundKinds DEF Clears
  <1>9. LifeInv'
    <2>1. Exists' => resource'.triggers.lastChanged \in 0 .. ops'
      BY <1>2, <1>4, <1>7 DEF LifeInv, since
    <2>2. last'.fresh /\ Exists' => Clears(kind', resource', machine')
      BY <1>2, <1>4, <1>7, <1>8 DEF LifeInv, Observant
    <2>3. Remembers(kind, resource')
      BY <1>2, <1>7, <1>11 DEF LifeInv
    <2> QED
      BY <1>2, <1>7, <2>1, <2>2, <2>3 DEF LifeInv
  <1>10. Promises'
    <2>1. UpApplies' /\ DestroyLeavesNothing'
      BY <1>7 DEF UpApplies, Applied, DestroyLeavesNothing
    <2>2. ASSUME last'.ok
          PROVE  /\ resource' = found.s /\ resource'.args = resource.args
                 /\ Finds(resource.args)' = Diff(kind, resource.args, found.s)
      BY <1>5, <1>7, <2>2 DEF Finds
    <2>3. RefreshSeesDrift'
      <3>1. ASSUME last'.ok
            PROVE  /\ Tells(kind', resource'.args) => right \/ Finds(resource.args)'.changes
                   /\ Tells(kind', resource'.args) /\ kind' = "Package" => ~right \/ ~Finds(resource.args)'.changes
        BY <1>4, <1>7, <2>2, <3>1 DEF sees
      <3>2. last'.ok => (AsAsked(kind', resource'.args, "refresh", machine') <=> right)
        BY <1>7, <2>2 DEF right
      <3> QED
        BY <3>1, <3>2 DEF RefreshSeesDrift
    <2>4. RefreshStampsDrift'
      <3>1. ASSUME last'.ok, kind \notin {"Exec", "AnsibleTaskList"}
            PROVE  /\ right \/ resource'.triggers.lastChanged = ops' \/ Known'
                   /\ Bounces(kind', resource'.args) \/ ~right \/ resource'.triggers.lastChanged # ops'
        <4>1. resource.triggers.lastChanged # ops + 1
          BY <1>2 DEF LifeInv
        <4> QED
          BY <1>4, <1>7, <2>2, <3>1, <4>1 DEF since, Known
      <3>2. last'.ok => (AsAsked(kind', resource'.args, "refresh", machine') <=> right)
        BY <1>7, <2>2 DEF right
      <3> QED
        BY <1>7, <3>1, <3>2 DEF RefreshStampsDrift
    <2> QED
      BY <2>1, <2>3, <2>4 DEF Promises
  <1> QED
    BY <1>9, <1>10

\* An up that finds no change and a preview keep the promises.
LEMMA QuietStep ==
  ASSUME LifeInv, ArgsKnown', UNCHANGED <<kind, machine, resource, pending>>,
         ops' = ops + 1, last'.fresh = last.fresh, last'.op \in {"same", "preview"}
  PROVE  LifeInv' /\ Promises'
  <1>1. LifeInv'
    BY DEF LifeInv, Exists
  <1>2. Promises'
    BY Unpromised
  <1> QED
    BY <1>1, <1>2

\* A change of the machine by somebody else ends what the engine knows.
LEMMA DriftStep ==
  ASSUME LifeInv, ArgsKnown', Drift
  PROVE  LifeInv' /\ Promises'
  <1>1. /\ machine' \in Given[kind] /\ UNCHANGED <<kind, resource, pending, ops>>
        /\ last'.op = "none" /\ last'.fresh \in BOOLEAN /\ ~last'.fresh
    BY DEF Drift, Nothing
  <1>2. machine' \in Shapes(kind)
    BY <1>1, LifecycleAssumption, Shaping DEF LifeInv, ArgsKnown
  <1>3. LifeInv'
    BY <1>1, <1>2 DEF LifeInv, Exists
  <1>4. Promises'
    BY <1>1, Unpromised
  <1> QED
    BY <1>3, <1>4

\* Every step keeps the invariant and the promises.
LEMMA LifeStep ==
  ASSUME ProgramsSound, LifeInv, Promises, [Next]_vars
  PROVE  LifeInv' /\ Promises'
  <1>1. ArgsKnown'
    BY ArgsStayKnown DEF LifeInv
  <1>2. OnlyLooks \/ UNCHANGED vars
    <2>1. NoneOverwrites
      BY SoundKinds DEF NoneOverwrites, ProgramsSound, FileInput
    <2> QED
      BY <2>1, LookingStep DEF LifeInv
  <1>3. ASSUME NEW args \in Programs[kind], UpSame(args)
        PROVE  LifeInv' /\ Promises'
    <2>1. /\ UNCHANGED <<kind, machine, resource, pending>>
          /\ ops' = ops + 1 /\ last'.fresh = last.fresh /\ last'.op = "same"
      BY <1>3 DEF UpSame, Tell, StillFresh
    <2> QED
      BY <1>1, <2>1, QuietStep
  <1>4. ASSUME NEW args \in Programs[kind], Preview(args)
        PROVE  LifeInv' /\ Promises'
    <2> DEFINE Did(ok) == Tell("preview", Unset, ok)
    <2>1. \E ok : Did(ok)
      BY <1>4, Zenon DEF Preview
    <2>2. ASSUME NEW ok, Did(ok)
          PROVE  ops' = ops + 1 /\ kind' = kind /\ last'.fresh = last.fresh /\ last'.op = "preview"
      BY <2>2 DEF Tell, StillFresh
    <2> HIDE DEF Did
    <2>3. ops' = ops + 1 /\ kind' = kind /\ last'.fresh = last.fresh /\ last'.op = "preview"
      BY <2>1, <2>2
    <2>4. UNCHANGED <<resource, pending>>
      BY <1>4 DEF Preview
    <2>5. machine' = machine
      BY <1>2, <2>3 DEF OnlyLooks, vars
    <2> QED
      BY <1>1, <2>3, <2>4, <2>5, QuietStep
  <1>5. CASE Refresh
    <2> DEFINE Did(ok) == Tell("refresh", Unset, ok)
    <2>1. \E ok : Did(ok)
      BY <1>5, Zenon DEF Refresh
    <2>2. ASSUME NEW ok, Did(ok)
          PROVE  last'.op = "refresh"
      BY <2>2 DEF Tell
    <2> HIDE DEF Did
    <2>3. last'.op = "refresh"
      BY <2>1, <2>2
    <2>4. machine' = machine
      BY <1>2, <2>3 DEF OnlyLooks, vars
    <2> QED
      BY <1>1, <1>5, <2>4, RefreshStep
  <1>6. CASE UNCHANGED vars
    <2>1. UNCHANGED <<kind, machine, resource, pending, ops, last>>
      BY <1>6 DEF vars
    <2>2. LifeInv'
      BY <1>1, <2>1 DEF LifeInv, Exists
    <2>3. UpApplies'
      BY <2>1 DEF Promises, UpApplies, Applied, Undone
    <2>4. DestroyLeavesNothing'
      BY <2>1 DEF Promises, DestroyLeavesNothing
    <2>5. RefreshSeesDrift'
      BY <2>1 DEF Promises, RefreshSeesDrift, Finds
    <2>6. RefreshStampsDrift'
      BY <2>1 DEF Promises, RefreshStampsDrift, Known
    <2> QED
      BY <2>2, <2>3, <2>4, <2>5, <2>6 DEF Promises
  <1> QED
    BY <1>1, <1>3, <1>4, <1>5, <1>6, CreateStep, UpdateStep, ReplaceStep, ReplaceLaterStep, RetireStep,
       DestroyStep, DriftStep DEF Next

\* The invariant of the life cycle, and the promises after every operation.
THEOREM LifeIsKept == ASSUME ProgramsSound PROVE Spec => [](LifeInv /\ Promises)
  <1>1. Init => LifeInv /\ Promises
    <2> SUFFICES ASSUME Init PROVE LifeInv /\ Promises
      OBVIOUS
    <2>1. LifeInv
      BY LifecycleAssumption, Shaping DEF Init, LifeInv, ArgsKnown, Exists, Nothing
    <2>2. Promises
      BY DEF Init, Nothing, Promises, UpApplies, Applied, DestroyLeavesNothing, RefreshSeesDrift, RefreshStampsDrift
    <2> QED
      BY <2>1, <2>2
  <1>2. LifeInv /\ Promises /\ [Next]_vars => (LifeInv /\ Promises)'
    BY LifeStep
  <1> QED
    BY <1>1, <1>2, PTL DEF Spec

\* UpApplies: after an up that returned no error (Create, Update, or the delete and
\* create of a replacement) the machine is as the program asked, whatever the
\* steps before left on it and whichever calls failed on the way.
THEOREM UpsApply == ASSUME ProgramsSound PROVE Spec => []UpApplies
  <1>1. LifeInv /\ Promises => UpApplies
    BY DEF Promises
  <1> QED
    BY <1>1, LifeIsKept, PTL

\* DestroyLeavesNothing: after a destroy that reached the machine, nothing of what a
\* fresh state was about is left on it.
THEOREM DestroysClear == ASSUME ProgramsSound PROVE Spec => []DestroyLeavesNothing
  <1>1. LifeInv /\ Promises => DestroyLeavesNothing
    BY DEF Promises
  <1> QED
    BY <1>1, LifeIsKept, PTL

\* RefreshSeesDrift: a refresh (Read) after which the machine is not as asked shows the
\* next preview (Diff) a change to make.
THEOREM RefreshesSee == ASSUME ProgramsSound PROVE Spec => []RefreshSeesDrift
  <1>1. LifeInv /\ Promises => RefreshSeesDrift
    BY DEF Promises
  <1> QED
    BY <1>1, LifeIsKept, PTL

\* RefreshStampsDrift: a refresh that finds drift sets triggers.lastChanged, so that what
\* is triggered by the resource runs again.
THEOREM RefreshesStamp == ASSUME ProgramsSound PROVE Spec => []RefreshStampsDrift
  <1>1. LifeInv /\ Promises => RefreshStampsDrift
    BY DEF Promises
  <1> QED
    BY <1>1, LifeIsKept, PTL
=============================================================================
