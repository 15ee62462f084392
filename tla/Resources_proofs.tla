-------------------------- MODULE Resources_proofs --------------------------
(***************************************************************************)
(* What every handler of a kind promises on its own: that a preview and a   *)
(* read leave the machine alone, which inputs its state keeps, and, for all *)
(* but AnsibleTaskList, that Create, Update, Delete and Read do what the    *)
(* engine relies on (CreatesWell, UpdatesWell, DeletesWell, ReadsWell and   *)
(* RemembersWell), whatever trouble their calls meet.                       *)
(***************************************************************************)
EXTENDS Resources, TLAPS

\* What a preview or a refresh does to the machine.
LooksOnly(k, args, state, m, trouble, now) ==
  /\ Create(k, args, TRUE, m, trouble, now).m = m
  /\ Update(k, args, state, TRUE, m, trouble, now).m = m
  /\ Read(k, args, state, m, trouble, now).m = m

\* Where the inputs in the state that a handler returns come from.
KeepsArgs(k, args, state, m, trouble, now) ==
  /\ Create(k, args, FALSE, m, trouble, now).s.args = args
  /\ Update(k, args, state, FALSE, m, trouble, now).s.args \in {args, state.args}
  /\ Read(k, args, state, m, trouble, now).s.args \in {args, state.args}

-----------------------------------------------------------------------------
(* Handlers in check mode. *)

\* package.go: in check mode Create and Update, and Read always, leave the machine as it is.
LEMMA PackageLooks ==
  ASSUME NEW args, NEW state, NEW m, NEW trouble, NEW now
  PROVE  LooksOnly("Package", args, state, m, trouble, now)
  <1>1. P!Create(args, TRUE, m, trouble, now).m = m
    BY DEF P!Create, P!Task, P!Ran, P!Refused, P!Response, P!Quiet
  <1>2. P!Update(args, state, TRUE, m, trouble, now).m = m
    BY DEF P!Update, P!UpdateAbsent, P!UpdateTwice, P!Task, P!Ran, P!Refused, P!Skip, P!Response, P!Quiet
  <1>3. P!Read(args, state, m, trouble, now).m = m
    BY DEF P!Read, P!Task, P!Ran, P!Refused, P!Response, P!Quiet
  <1> QED
    BY <1>1, <1>2, <1>3 DEF LooksOnly, Create, Update, Read

\* apt.go: in check mode Create and Update, and Read always, leave the machine as it is.
LEMMA AptLooks ==
  ASSUME NEW args, NEW state, NEW m, NEW trouble, NEW now
  PROVE  LooksOnly("Apt", args, state, m, trouble, now)
  <1>1. A!Create(args, TRUE, m, trouble, now).m = m
    BY DEF A!Create, A!runApt, A!Task, A!Ran, A!RanInVain, A!Response, A!Quiet
  <1>2. A!Update(args, state, TRUE, m, trouble, now).m = m
    <2>1. A!UpdateOnce(args, state, TRUE, m, trouble, now).m = m
      BY DEF A!UpdateOnce, A!runApt, A!Task, A!Ran, A!RanInVain, A!Refused, A!Response, A!Quiet
    <2>2. A!UpdateTwice(args, state, TRUE, m, trouble, now).m = m
      <3> DEFINE params == A!argsToTaskParameters(args)
                 absents == A!D!Absents(args, state)
                 presents == A!D!Presents(args, state)
                 skipped(n) == [m |-> n, err |-> "none", changed |-> FALSE, tracked |-> {}]
                 less == [params EXCEPT !.names = absents, !.state = "absent"]
                 more == [params EXCEPT !.names = presents, !.state = A!D!NewState(args, state)]
                 first == IF absents = {} THEN skipped(m) ELSE A!runApt(m, less, TRUE, A!Outcome(trouble, 1))
                 second == IF presents = {} THEN skipped(first.m) ELSE A!runApt(first.m, more, TRUE, A!Outcome(trouble, 2))
                 was == A!UpdateTwice(args, state, TRUE, m, trouble, now)
      <3>1. \E s : \/ was = A!Refused(m, state)
                   \/ was = A!Response(first, state, TRUE)
                   \/ was = A!Response(second, state, TRUE)
                   \/ was = A!Quiet(second.m, s)
        BY ZenonT(60) DEF A!UpdateTwice
      <3> HIDE DEF was, less, more
      <3>2. first.m = m
        BY DEF A!runApt, A!Task, A!Ran, A!RanInVain
      <3> HIDE DEF first
      <3>3. second.m = m
        BY <3>2 DEF A!runApt, A!Task, A!Ran, A!RanInVain
      <3> HIDE DEF second
      <3>4. was.m = m
        BY <3>1, <3>2, <3>3 DEF A!Refused, A!Response, A!Quiet
      <3> QED
        BY <3>4, Zenon DEF was
    <2> QED
      BY <2>1, <2>2 DEF A!Update, A!Quiet
  <1>3. A!Read(args, state, m, trouble, now).m = m
    BY DEF A!Read, A!runApt, A!Task, A!Ran, A!RanInVain, A!Response, A!Quiet
  <1> QED
    BY <1>1, <1>2, <1>3 DEF LooksOnly, Create, Update, Read

\* group.go: in check mode Create and Update, and Read always, leave the machine as it is.
LEMMA GroupLooks ==
  ASSUME NEW args, NEW state, NEW m, NEW trouble, NEW now
  PROVE  LooksOnly("Group", args, state, m, trouble, now)
  <1>1. G!Create(args, TRUE, m, trouble, now).m = m
    BY DEF G!Create, G!Created, G!Task, G!Ran, G!Response, G!Quiet, G!RanInVain
  <1>2. G!Update(args, state, TRUE, m, trouble, now).m = m
    BY DEF G!Update, G!Updated, G!Task, G!Ran, G!Response, G!Quiet, G!RanInVain
  <1>3. G!Read(args, state, m, trouble, now).m = m
    BY DEF G!Read, G!ReadBack, G!Task, G!Ran, G!Response, G!Quiet, G!RanInVain
  <1> QED
    BY <1>1, <1>2, <1>3 DEF LooksOnly, Create, Update, Read

\* user.go: in check mode Create and Update, and Read always, leave the machine as it is.
LEMMA UserLooks ==
  ASSUME NEW args, NEW state, NEW m, NEW trouble, NEW now
  PROVE  LooksOnly("User", args, state, m, trouble, now)
  <1>1. U!Create(args, TRUE, m, trouble, now).m = m
    BY DEF U!Create, U!Created, U!Task, U!Ran, U!Response, U!Quiet
  <1>2. U!Update(args, state, TRUE, m, trouble, now).m = m
    BY DEF U!Update, U!Updated, U!Task, U!Ran, U!Response, U!Quiet
  <1>3. U!Read(args, state, m, trouble, now).m = m
    BY DEF U!Read, U!ReadBack, U!Task, U!Ran, U!Response, U!Quiet
  <1> QED
    BY <1>1, <1>2, <1>3 DEF LooksOnly, Create, Update, Read

\* service.go: in check mode Create and Update, and Read always, leave the machine as it is.
LEMMA ServiceLooks ==
  ASSUME NEW args, NEW state, NEW m, NEW trouble, NEW now
  PROVE  LooksOnly("Service", args, state, m, trouble, now)
  <1>1. S!Create(args, TRUE, m, trouble, now).m = m
    BY DEF S!Create, S!Created, S!Task, S!Ran, S!Response, S!Quiet
  <1>2. S!Update(args, state, TRUE, m, trouble, now).m = m
    BY DEF S!Update, S!Updated, S!Task, S!Ran, S!Response, S!Quiet
  <1>3. S!Read(args, state, m, trouble, now).m = m
    BY DEF S!Read, S!ReadBack, S!Task, S!Ran, S!Response, S!Quiet
  <1> QED
    BY <1>1, <1>2, <1>3 DEF LooksOnly, Create, Update, Read

\* exec.go: in check mode Create and Update, and Read always, leave the machine as it is.
LEMMA ExecLooks ==
  ASSUME NEW args, NEW state, NEW m, NEW trouble, NEW now
  PROVE  LooksOnly("Exec", args, state, m, trouble, now)
  <1>1. E!Create(args, TRUE, m, trouble, now).m = m
    BY DEF E!Create, E!Run, E!Quiet
  <1>2. E!Update(args, state, TRUE, m, trouble, now).m = m
    BY DEF E!Update, E!Run, E!Quiet
  <1> QED
    BY <1>1, <1>2 DEF LooksOnly, Create, Update, Read, Quiet

\* ansible_task_list.go: in check mode Create and Update, and Read always, leave the machine as it is.
LEMMA TaskListLooks ==
  ASSUME NEW args, NEW state, NEW m, NEW trouble, NEW now
  PROVE  LooksOnly("AnsibleTaskList", args, state, m, trouble, now)
  <1>1. L!Create(args, TRUE, m, trouble, now).m = m
    BY DEF L!Create, L!Quiet
  <1>2. L!Update(args, state, TRUE, m, trouble, now).m = m
    BY DEF L!Update, L!Quiet
  <1> QED
    BY <1>1, <1>2 DEF LooksOnly, Create, Update, Read, Quiet

\* A tarball from the network over whatever is at a path is the exception.
Overwrites(args) ==
  args.force = TRUE /\ args.ensure = "directory" /\ args.remoteSource \notin Paths \cup {Unset}

\* A File without that exception: what is looked at stays as it is.
RefreshesFreely(args, state, m, trouble, now) ==
  F!createOrUpdate(args, state, TRUE, m, trouble, now).m = m

\* A step of createOrUpdate has these four parts.
IsStep(w) == w = F!Step(w.m, w.s, w.err, w.makes)

\* Whatever source step is taken.
LEMMA FileSteps ==
  ASSUME NEW args, NEW state, NEW dry, NEW m, NEW trouble, NEW now
  PROVE  IsStep(F!Sourced(args, state, dry, m, trouble, now))
  <1>1. ASSUME NEW am, NEW as, NEW ae, NEW ak
        PROVE  IsStep(F!Step(am, as, ae, ak))
    BY DEF IsStep, F!Step
  <1>2. ASSUME NEW task, NEW was, NEW props, NEW makes
        PROVE  IsStep(F!After(task, args, was, props, now, makes))
    BY <1>1 DEF F!After
  <1>3. IsStep(F!copyNetworkSourceFile(args, state, dry, m, trouble, now))
    BY <1>2 DEF F!copyNetworkSourceFile
  <1>4. IsStep(F!copyRemoteSourceFile(args, state, dry, m, trouble, now))
    BY DEF F!copyRemoteSourceFile, F!After, F!Step, IsStep
  <1>5. IsStep(F!copyLocalSourceArchive(args, state, dry, m, trouble, now))
    BY <1>1, <1>2 DEF F!copyLocalSourceArchive
  <1>6. IsStep(F!copyLocalSourceAsset(args, state, dry, m, trouble, now))
    BY <1>1, <1>2 DEF F!copyLocalSourceAsset
  <1>7. IsStep(F!copyNetworkSourceDirectory(args, state, dry, m, trouble, now))
    <2> DEFINE call(c) == F!Outcome(trouble, c)
               way == args.force = TRUE /\ m[args.path].type = "file"
               cleared == IF way THEN F!After(F!Remove(m, args.path, call("remove")), args, state, {"ensure"}, now, "directory")
                          ELSE F!Step(m, state, "none", "directory")
               mkdir == F!File(cleared.m, args, "directory", dry, call("put"))
               did == cleared.err = "none" /\ (way \/ m[args.path].type = "absent")
               after == F!After(mkdir, args, cleared.s, mkdir.differs, now, "directory")
               made == IF did THEN after ELSE cleared
               filled == F!Unpack(made.m, args.path, {args.remoteSource}, call("fetch"))
               seen == F!Step(made.m, F!updateStateDrifted(args, made.s, {"mode", "remoteSource"}, now), "none", "directory")
               full == F!After(filled, args, made.s, {"remoteSource"}, now, "directory")
               was == F!copyNetworkSourceDirectory(args, state, dry, m, trouble, now)
    <2>1. IsStep(cleared)
      BY <1>1, <1>2
    <2>2. IsStep(after) /\ IsStep(seen) /\ IsStep(full)
      BY <1>1, <1>2
    <2>3. was = IF made.err # "none" THEN made ELSE IF dry THEN seen ELSE full
      BY DEF F!copyNetworkSourceDirectory
    <2> HIDE DEF cleared, after, seen, full, was
    <2>4. IsStep(made)
      BY <2>1, <2>2
    <2> HIDE DEF made
    <2>5. IsStep(was)
      BY <2>2, <2>3, <2>4
    <2> QED
      BY <2>5 DEF was
  <1>8. IsStep(F!Step(m, state, "none", "none"))
    BY <1>1
  <1> QED
    BY <1>3, <1>4, <1>5, <1>6, <1>7, <1>8 DEF F!Sourced, F!copyRemoteSource

\* file.go: createOrUpdate in check mode leaves the machine as it is.
LEMMA FileRefreshesFreely ==
  ASSUME NEW args, NEW state, NEW m, NEW trouble, NEW now, ~Overwrites(args)
  PROVE  RefreshesFreely(args, state, m, trouble, now)
  <1>1. F!copyNetworkSourceFile(args, state, TRUE, m, trouble, now).m = m
    BY DEF F!copyNetworkSourceFile, F!GetUrl, F!Turn, F!Ran, F!After, F!Step
  <1>2. F!copyRemoteSourceFile(args, state, TRUE, m, trouble, now).m = m
    BY DEF F!copyRemoteSourceFile, F!Copy, F!Turn, F!Ran, F!After, F!Step
  <1>3. F!copyLocalSourceArchive(args, state, TRUE, m, trouble, now).m = m
    BY DEF F!copyLocalSourceArchive, F!Step
  <1>4. F!copyLocalSourceAsset(args, state, TRUE, m, trouble, now).m = m
    <2>1. F!Copy(m, args, {args.content}, TRUE, F!Outcome(trouble, "put")).m = m
      BY DEF F!Copy, F!Turn, F!Ran
    <2> QED
      BY <2>1 DEF F!copyLocalSourceAsset, F!After, F!Step
  <1>5. args.force # TRUE => F!copyNetworkSourceDirectory(args, state, TRUE, m, trouble, now).m = m
    <2>1. F!File(m, args, "directory", TRUE, F!Outcome(trouble, "put")).m = m
      BY DEF F!File, F!Turn, F!Ran, F!RanInVain
    <2> QED
      BY <2>1 DEF F!copyNetworkSourceDirectory, F!After, F!Step
  <1>6. F!Sourced(args, state, TRUE, m, trouble, now).m = m
    BY <1>1, <1>2, <1>3, <1>4, <1>5 DEF Overwrites, F!Sourced, F!copyRemoteSource, F!Step
  <1>7. ASSUME NEW w, IsStep(w), NEW was
        PROVE  F!Converged(w, args, was, TRUE, trouble, now).m = w.m
    <2>1. ASSUME NEW want
          PROVE  F!executeFile(w, args, want, TRUE, trouble, now).m = w.m
      <3>1. F!File(w.m, args, want, TRUE, F!Outcome(trouble, "file")).m = w.m
        BY DEF F!File, F!Turn, F!Ran, F!RanInVain
      <3> QED
        BY <3>1 DEF F!executeFile, F!After, F!Step
    <2>2. ASSUME NEW want
          PROVE  IsStep(F!executeFile(w, args, want, TRUE, trouble, now))
      BY DEF F!executeFile, F!After, F!Step, IsStep
    <2>3. ASSUME NEW v, IsStep(v), NEW props
          PROVE  F!Drifts(v, args, props, now).m = v.m
      <3>1. ASSUME NEW vm, NEW vs, NEW ve, NEW vk, NEW s
            PROVE  [F!Step(vm, vs, ve, vk) EXCEPT !.s = s].m = vm
        BY DEF F!Step
      <3> QED
        BY <2>3, <3>1 DEF F!Drifts, IsStep
    <2> QED
      BY <1>7, <2>1, <2>2, <2>3 DEF F!Converged
  <1> QED
    <2> DEFINE w == F!Sourced(args, state, TRUE, m, trouble, now)
               done == F!Converged(w, args, m[args.path].type, TRUE, trouble, now)
    <2>1. w.m = m /\ IsStep(w)
      BY <1>6, FileSteps
    <2>2. done.m = w.m
      BY <1>7, <2>1, Zenon
    <2> QED
      BY <2>1, <2>2 DEF F!createOrUpdate, F!Step, RefreshesFreely

\* file.go: in check mode Create and Update, and Read always, leave the machine as it is.
LEMMA FileLooks ==
  ASSUME NEW args, NEW state, NEW m, NEW trouble, NEW now, ~Overwrites(args)
  PROVE  LooksOnly("File", args, state, m, trouble, now)
  <1> DEFINE none == F!FileState(F!updateState(args, F!NoState, TRUE, now), {}, Unset)
  <1>1. RefreshesFreely(args, state, m, trouble, now) /\ RefreshesFreely(args, none, m, trouble, now)
    BY FileRefreshesFreely
  <1>2. F!Create(args, TRUE, m, trouble, now) = F!createOrUpdate(args, none, TRUE, m, trouble, now)
    BY Zenon DEF F!Create
  <1> HIDE DEF none
  <1> QED
    BY <1>1, <1>2 DEF RefreshesFreely, LooksOnly, Create, Update, Read, F!Update, F!Read

\* package.go: every handler returns the inputs it was given, or the state's.
LEMMA PackageKeeps ==
  ASSUME NEW args, NEW state, NEW m, NEW trouble, NEW now
  PROVE  KeepsArgs("Package", args, state, m, trouble, now)
  <1>1. P!Create(args, FALSE, m, trouble, now).s.args = args
    BY DEF P!Create, P!updatePackage, P!PackageState, P!updateState, P!Refused, P!Response, P!Quiet
  <1>2. P!Update(args, state, FALSE, m, trouble, now).s.args \in {args, state.args}
    BY DEF P!Update, P!UpdateAbsent, P!UpdateTwice, P!updatePackage, P!PackageState, P!updateState, P!Refused, P!Response, P!Quiet
  <1>3. P!Read(args, state, m, trouble, now).s.args \in {args, state.args}
    BY DEF P!Read, P!updatePackage, P!PackageState, P!updateState, P!Refused, P!Response, P!Quiet
  <1> QED
    BY <1>1, <1>2, <1>3 DEF KeepsArgs, Create, Update, Read

\* apt.go: every handler returns the inputs it was given, or the state's.
LEMMA AptKeeps ==
  ASSUME NEW args, NEW state, NEW m, NEW trouble, NEW now
  PROVE  KeepsArgs("Apt", args, state, m, trouble, now)
  <1>1. A!Create(args, FALSE, m, trouble, now).s.args = args
    BY DEF A!Create, A!updateApt, A!AptState, A!updateState, A!Track, A!Refused, A!Response, A!Quiet
  <1>2. A!Update(args, state, FALSE, m, trouble, now).s.args \in {args, state.args}
    BY DEF A!Update, A!UpdateOnce, A!UpdateTwice, A!updateApt, A!AptState, A!updateState, A!Track, A!Refused, A!Response, A!Quiet
  <1>3. A!Read(args, state, m, trouble, now).s.args \in {args, state.args}
    BY DEF A!Read, A!updateApt, A!AptState, A!updateState, A!Track, A!Refused, A!Response, A!Quiet
  <1> QED
    BY <1>1, <1>2, <1>3 DEF KeepsArgs, Create, Update, Read

\* group.go: every handler returns the inputs it was given, or the state's.
LEMMA GroupKeeps ==
  ASSUME NEW args, NEW state, NEW m, NEW trouble, NEW now
  PROVE  KeepsArgs("Group", args, state, m, trouble, now)
  <1>1. G!Create(args, FALSE, m, trouble, now).s.args = args
    BY DEF G!Create, G!Created, G!updateState, G!Response, G!Quiet
  <1>2. G!Update(args, state, FALSE, m, trouble, now).s.args \in {args, state.args}
    BY DEF G!Update, G!Updated, G!updateState, G!Response, G!Quiet
  <1>3. G!Read(args, state, m, trouble, now).s.args \in {args, state.args}
    BY DEF G!Read, G!ReadBack, G!updateState, G!Response, G!Quiet
  <1> QED
    BY <1>1, <1>2, <1>3 DEF KeepsArgs, Create, Update, Read

\* user.go: every handler returns the inputs it was given, or the state's.
LEMMA UserKeeps ==
  ASSUME NEW args, NEW state, NEW m, NEW trouble, NEW now
  PROVE  KeepsArgs("User", args, state, m, trouble, now)
  <1>1. U!Create(args, FALSE, m, trouble, now).s.args = args
    BY DEF U!Create, U!Created, U!updateState, U!Response, U!Quiet
  <1>2. U!Update(args, state, FALSE, m, trouble, now).s.args \in {args, state.args}
    BY DEF U!Update, U!Updated, U!updateState, U!Response, U!Quiet
  <1>3. U!Read(args, state, m, trouble, now).s.args \in {args, state.args}
    BY DEF U!Read, U!ReadBack, U!updateState, U!Response, U!Quiet
  <1> QED
    BY <1>1, <1>2, <1>3 DEF KeepsArgs, Create, Update, Read

\* service.go: every handler returns the inputs it was given, or the state's.
LEMMA ServiceKeeps ==
  ASSUME NEW args, NEW state, NEW m, NEW trouble, NEW now
  PROVE  KeepsArgs("Service", args, state, m, trouble, now)
  <1>1. S!Create(args, FALSE, m, trouble, now).s.args = args
    BY DEF S!Create, S!Created, S!updateState, S!Response, S!Quiet
  <1>2. S!Update(args, state, FALSE, m, trouble, now).s.args \in {args, state.args}
    BY DEF S!Update, S!Updated, S!updateState, S!Response, S!Quiet
  <1>3. S!Read(args, state, m, trouble, now).s.args \in {args, state.args}
    BY DEF S!Read, S!ReadBack, S!updateState, S!Response, S!Quiet
  <1> QED
    BY <1>1, <1>2, <1>3 DEF KeepsArgs, Create, Update, Read

\* exec.go: every handler returns the inputs it was given, or the state's.
LEMMA ExecKeeps ==
  ASSUME NEW args, NEW state, NEW m, NEW trouble, NEW now
  PROVE  KeepsArgs("Exec", args, state, m, trouble, now)
  <1>1. E!Create(args, FALSE, m, trouble, now).s.args = args
    BY DEF E!Create, E!Run, E!updateState, E!Response, E!Quiet
  <1>2. E!Update(args, state, FALSE, m, trouble, now).s.args \in {args, state.args}
    BY DEF E!Update, E!Run, E!updateState, E!Response, E!Quiet
  <1> QED
    BY <1>1, <1>2 DEF KeepsArgs, Create, Update, Read, Quiet

\* ansible_task_list.go: every handler returns the inputs it was given, or the state's.
LEMMA TaskListKeeps ==
  ASSUME NEW args, NEW state, NEW m, NEW trouble, NEW now
  PROVE  KeepsArgs("AnsibleTaskList", args, state, m, trouble, now)
  <1>1. L!Create(args, FALSE, m, trouble, now).s.args = args
    BY DEF L!Create, L!Run, L!updateState, L!Response, L!Quiet
  <1>2. L!Update(args, state, FALSE, m, trouble, now).s.args \in {args, state.args}
    BY DEF L!Update, L!Run, L!updateState, L!Response, L!Quiet
  <1> QED
    BY <1>1, <1>2 DEF KeepsArgs, Create, Update, Read, Quiet

\* The inputs in the state that createOrUpdate returns.
Returns(args, state, dry, m, trouble, now) ==
  F!createOrUpdate(args, state, dry, m, trouble, now).s.args \in {args, state.args}

\* file.go: createOrUpdate returns the inputs it was given, or the state's.
LEMMA FileReturns ==
  ASSUME NEW args, NEW state, NEW m, NEW trouble, NEW now, NEW dry
  PROVE  Returns(args, state, dry, m, trouble, now)
  <1> DEFINE Kept(w) == w.s.args \in {args, state.args}
  <1>1. Kept(F!copyNetworkSourceFile(args, state, dry, m, trouble, now))
    BY DEF F!copyNetworkSourceFile, F!Step, F!After, F!updateStateDrifted, F!updateFile, F!FileState,
           F!updateState
  <1>2. Kept(F!copyRemoteSourceFile(args, state, dry, m, trouble, now))
    BY DEF F!copyRemoteSourceFile, F!Step, F!After, F!updateStateDrifted, F!updateFile, F!FileState,
           F!updateState
  <1>3. Kept(F!copyLocalSourceArchive(args, state, dry, m, trouble, now))
    BY DEF F!copyLocalSourceArchive, F!Step, F!After, F!updateStateDrifted, F!updateFile, F!FileState,
           F!updateState
  <1>4. Kept(F!copyLocalSourceAsset(args, state, dry, m, trouble, now))
    BY DEF F!copyLocalSourceAsset, F!Step, F!After, F!updateStateDrifted, F!updateFile, F!FileState,
           F!updateState
  <1>5. Kept(F!copyNetworkSourceDirectory(args, state, dry, m, trouble, now))
    <2> DEFINE way == args.force = TRUE /\ m[args.path].type = "file"
               gone == F!Remove(m, args.path, F!Outcome(trouble, "remove"))
               cleared == IF way THEN F!After(gone, args, state, {"ensure"}, now, "directory")
                          ELSE F!Step(m, state, "none", "directory")
               mkdir == F!File(cleared.m, args, "directory", dry, F!Outcome(trouble, "put"))
               made == IF cleared.err = "none" /\ (way \/ m[args.path].type = "absent")
                       THEN F!After(mkdir, args, cleared.s, mkdir.differs, now, "directory") ELSE cleared
               filled == F!Unpack(made.m, args.path, {args.remoteSource}, F!Outcome(trouble, "fetch"))
               full == F!After(filled, args, made.s, {"remoteSource"}, now, "directory")
               told == F!Step(made.m, F!updateStateDrifted(args, made.s, {"mode", "remoteSource"}, now),
                              "none", "directory")
               all == F!copyNetworkSourceDirectory(args, state, dry, m, trouble, now)
    <2>1. all = IF made.err # "none" THEN made ELSE IF dry THEN told ELSE full
      BY Zenon DEF F!copyNetworkSourceDirectory
    <2>2. Kept(cleared)
      BY DEF F!Step, F!After, F!updateStateDrifted, F!updateFile, F!FileState, F!updateState
    <2> HIDE DEF cleared, mkdir
    <2>3. Kept(made)
      BY <2>2 DEF F!Step, F!After, F!updateStateDrifted, F!updateFile, F!FileState, F!updateState
    <2> HIDE DEF made, filled
    <2>4. Kept(full) /\ Kept(told)
      BY <2>3 DEF F!Step, F!After, F!updateStateDrifted, F!updateFile, F!FileState, F!updateState
    <2> HIDE DEF full, told, all
    <2>5. Kept(all)
      BY <2>1, <2>3, <2>4
    <2> QED
      BY <2>5, Zenon DEF all
  <1>6. Kept(F!Sourced(args, state, dry, m, trouble, now))
    BY <1>1, <1>2, <1>3, <1>4, <1>5 DEF F!Sourced, F!copyRemoteSource, F!Step
  <1>7. ASSUME NEW w, NEW was, Kept(w)
        PROVE  Kept(F!Converged(w, args, was, dry, trouble, now))
    <2> DEFINE want == F!AnsibleState(args, w.makes, was)
               desired == IF want = "touch" THEN "file" ELSE want
               filed == F!executeFile(w, args, want, dry, trouble, now)
               forced == F!Forced(w, args, want, trouble, now)
               failed == [w EXCEPT !.err = "failed"]
               drifted == F!Drifts(filed, args, {"ensure"}, now)
               told == F!Drifts(w, args, {"mode", "remoteSource"}, now)
               anew == F!Drifts(forced, args, {"ensure"}, now)
               all == F!Converged(w, args, was, dry, trouble, now)
    <2>1. all = IF was = desired THEN filed
                ELSE IF desired = "absent" \/ (was = "absent" /\ ~dry) THEN drifted
                ELSE IF dry THEN told
                ELSE IF args.force = TRUE THEN anew
                ELSE failed
      BY DEF F!Converged
    <2>2. Kept(filed)
      BY <1>7 DEF F!executeFile, F!Step, F!After, F!updateStateDrifted, F!updateFile, F!FileState,
                  F!updateState
    <2>3. Kept(forced)
      <3>1. ASSUME NEW v, NEW wish, Kept(v)
            PROVE  Kept(F!executeFile(v, args, wish, FALSE, trouble, now))
        BY <3>1 DEF F!executeFile, F!Step, F!After, F!updateStateDrifted, F!updateFile, F!FileState,
                    F!updateState
      <3> DEFINE gone == F!Remove(w.m, args.path, F!Outcome(trouble, "remove"))
                 bare == [w EXCEPT !.m = gone.m]
                 then == F!executeFile(bare, args, IF want = "file" THEN "touch" ELSE want, FALSE,
                                       trouble, now)
      <3>2. Kept(bare)
        BY <1>7
      <3> HIDE DEF bare, Kept
      <3>3. Kept(then)
        BY <3>1, <3>2, Zenon
      <3>4. forced = [then EXCEPT !.err = IF gone.err # "none" THEN gone.err ELSE @]
        BY Zenon DEF F!Forced, bare
      <3> HIDE DEF then, forced, gone
      <3> USE DEF Kept
      <3>5. Kept(forced)
        BY <3>3, <3>4
      <3> QED
        BY <3>5, Zenon DEF forced
    <2>4. Kept(failed)
      BY <1>7
    <2> HIDE DEF filed, forced, failed
    <2>5. Kept(drifted) /\ Kept(told) /\ Kept(anew)
      BY <1>7, <2>2, <2>3 DEF F!Drifts, F!updateStateDrifted, F!updateFile, F!FileState, F!updateState
    <2> HIDE DEF drifted, told, anew, all
    <2>6. Kept(all)
      BY <2>1, <2>2, <2>4, <2>5
    <2> QED
      BY <2>6, Zenon DEF all
  <1>8. ASSUME NEW w, Kept(w)
        PROVE  Kept(F!Settled(w, args, trouble))
    BY <1>8 DEF F!Settled, F!FileState
  <1> DEFINE w == F!Sourced(args, state, dry, m, trouble, now)
             done == F!Converged(w, args, m[args.path].type, dry, trouble, now)
             settled == F!Settled(done, args, trouble)
  <1> HIDE DEF Kept
  <1>9. Kept(w) /\ Kept(done) /\ Kept(settled)
    <2>1. Kept(w)
      BY <1>6
    <2>2. Kept(done)
      BY <2>1, <1>7, Zenon
    <2> QED
      BY <2>1, <2>2, <1>8, Zenon
  <1> USE DEF Kept
  <1> DEFINE blind == F!Step(m, F!updateFile(args, state, TRUE, now), "none", "none")
             lost == F!Step(m, state, F!Outcome(trouble, "stat").kind, "none")
             all == F!createOrUpdate(args, state, dry, m, trouble, now)
  <1>10. Kept(blind) /\ Kept(lost)
    BY DEF F!Step, F!updateFile, F!FileState, F!updateState
  <1>11. all = IF dry /\ (~Check \/ F!Outcome(trouble, "probe").kind # "ok") THEN blind
               ELSE IF F!Outcome(trouble, "stat").kind # "ok" THEN lost
               ELSE IF w.err # "none" THEN w
               ELSE IF done.err # "none" \/ dry THEN done
               ELSE settled
    BY DEF F!createOrUpdate
  <1> HIDE DEF w, done, settled, blind, lost, all
  <1>12. Kept(all)
    BY <1>9, <1>10, <1>11
  <1> QED
    BY <1>12, Zenon DEF all, Returns

\* file.go: every handler returns the inputs it was given, or the state's.
LEMMA FileKeeps ==
  ASSUME NEW args, NEW state, NEW m, NEW trouble, NEW now
  PROVE  KeepsArgs("File", args, state, m, trouble, now)
  <1> DEFINE none == F!FileState(F!updateState(args, F!NoState, TRUE, now), {}, Unset)
  <1>1. /\ Returns(args, none, FALSE, m, trouble, now)
        /\ Returns(args, state, FALSE, m, trouble, now)
        /\ Returns(args, state, TRUE, m, trouble, now)
    BY FileReturns, Zenon
  <1>2. F!Create(args, FALSE, m, trouble, now) = F!createOrUpdate(args, none, FALSE, m, trouble, now)
    BY Zenon DEF F!Create
  <1>3. none.args = args
    BY DEF F!FileState, F!updateState
  <1> HIDE DEF none
  <1> QED
    BY <1>1, <1>2, <1>3 DEF Returns, KeepsArgs, Create, Update, Read, F!Update, F!Read

-----------------------------------------------------------------------------
(* Looking. *)

\* Every kind: a preview and a refresh leave the machine as it is.
LEMMA Looks ==
  ASSUME NEW k \in Kinds, NEW args, NEW state, NEW m, NEW trouble, NEW now,
         k = "File" => ~Overwrites(args)
  PROVE  LooksOnly(k, args, state, m, trouble, now)
  BY PackageLooks, AptLooks, GroupLooks, UserLooks, ServiceLooks, ExecLooks, TaskListLooks, FileLooks
     DEF Kinds

\* Every kind: the state keeps inputs that the engine gave.
LEMMA Keeps ==
  ASSUME NEW k \in Kinds, NEW args, NEW state, NEW m, NEW trouble, NEW now
  PROVE  KeepsArgs(k, args, state, m, trouble, now)
  BY PackageKeeps, AptKeeps, GroupKeeps, UserKeeps, ServiceKeeps, ExecKeeps, TaskListKeeps, FileKeeps
     DEF Kinds

-----------------------------------------------------------------------------
(* Programs that the promises are made to. *)

\* A name or a list of names, and what is asked of them.
PackageInput(args) ==
  /\ args.name \in Packages \cup {Unset} /\ args.names \in (SUBSET Packages) \cup {Unset}
  /\ args.name = Unset <=> args.names # Unset
  /\ args.ensure \in {"present", "absent", "latest"}

\* Packages by name, a deb or upkeep, and only one of these.
AptInput(args) ==
  /\ "ensure" \in DOMAIN args
  /\ \/ PackageInput(args) /\ args.deb = Unset /\ args.upkeep = Unset
     \/ /\ args.name = Unset /\ args.names = Unset /\ args.ensure \in {Unset, "present", "latest"}
        /\ \/ /\ args.deb # Unset /\ args.upkeep = Unset
              /\ args.deb.package \in Packages /\ args.deb.version \in {"outdated", "newest"}
           \/ args.deb = Unset /\ args.upkeep \in {"upgrade", "clean"}

\* A group of a machine, with or without an id.
GroupInput(args) ==
  "ensure" \in DOMAIN args /\ args.name \in Groups /\ args.gid \in Gids \cup {Unset}

\* An account of a machine, with or without groups and home.
UserInput(args) ==
  /\ "ensure" \in DOMAIN args /\ args.name \in Users
  /\ args.groups \in (SUBSET Groups) \cup {Unset} /\ args.home \in Homes \cup {Unset}

\* A service that is to start at boot, is not to, or is left alone.
ServiceInput(args) ==
  args.enabled \in BOOLEAN \cup {Unset}

\* A command that leaves marks and takes others away.
Harmless(command) ==
  command = Unset \/ (command.puts \subseteq Marks /\ command.drops \subseteq Marks \ command.puts)

\* A command to create, and marks that a run can tell.
ExecInput(args) ==
  args.create # Unset /\ Harmless(args.create) /\ Harmless(args.update) /\ Harmless(args.delete)

\* A file asks for at most one source, and none that its ensure rules out.
OneSource(args) ==
  /\ args.remoteSource # Unset => args.source = Unset /\ args.content = Unset
  /\ args.source # Unset => args.content = Unset

\* What File.Check lets through, but for a tarball fetched over what is there: content
\* does not make a directory nor an archive a file.
FileInput(args) ==
  /\ args.path \in Paths
  /\ args.ensure \in {Unset, "file", "directory", "absent"}
  /\ args.content \in Data \cup {Unset} /\ args.source \in (SUBSET Data) \cup {Unset}
  /\ args.remoteSource \in Data \cup Paths \cup {Unset} /\ args.mode \in Modes \cup {Unset}
  /\ OneSource(args)
  /\ args.ensure = "absent" => ~F!HasSource(args)
  /\ args.content # Unset => args.ensure # "directory"
  /\ args.source # Unset => args.ensure # "file"
  /\ ~Overwrites(args)

\* The inputs that the promises below are proved for, by kind.
Sound(k, args) ==
  CASE k = "Package" -> PackageInput(args)
    [] k = "Apt" -> AptInput(args)
    [] k = "Group" -> GroupInput(args)
    [] k = "User" -> UserInput(args)
    [] k = "Service" -> ServiceInput(args)
    [] k = "Exec" -> ExecInput(args)
    [] k = "File" -> FileInput(args)
    [] OTHER -> FALSE

-----------------------------------------------------------------------------
(* What the handlers promise, whatever trouble their calls meet. *)

\* How a call can end.
Outcomes == {"ok", "unreachable", "failed"}

\* What the path of a file may have, links and other types aside.
FileNodes == [type : {"absent", "file", "directory"}, data : SUBSET Data, mode : Modes]
FileMachines == [Paths -> FileNodes]

\* The machines of a kind; those of a file are more than it starts from.
Shapes(k) == IF k = "File" THEN FileMachines ELSE Machines(k)

\* What the state keeps of the path has all of the archive, or it has drifted.
Recalls(source, s) ==
  s.stat # Unset => s.drifted # {} \/ (s.stat.type = "directory" /\ source \subseteq s.stat.data)

\* The state of a file from an archive says so.
Remembers(k, s) == k = "File" /\ s.args.source # Unset => Recalls(s.args.source, s)

\* A delete would leave nothing of the resource.
Clears(k, state, m) ==
  CASE k = "Package" -> state.ensure = "absent" => P!Gone(state.args, m)
    [] k = "Apt" ->
         IF state.args.deb # Unset
         THEN \/ state.args.deb.package \in state.tracked /\ state.ensure # "absent"
              \/ Gone(k, state.args, m)
         ELSE state.ensure = "absent" => Gone(k, state.args, m)
    [] k \in {"Group", "User"} -> state.args.ensure = "absent" => Gone(k, state.args, m)
    [] k = "Service" ->
         state.args.enabled # TRUE /\ state.args.state \in {Unset, "stopped"} => Gone(k, state.args, m)
    [] OTHER -> TRUE

\* What was made can be cleared, unless the kind forgets it and nothing changed.
Kept(k, args, m, made) == (Forgets(k, args) /\ made.m = m) \/ Clears(k, made.s, made.m)

\* Create: as asked when it returns no error, with the time of now.
CreatesWell(k, args, m, trouble, now) ==
  LET made == Create(k, args, FALSE, m, trouble, now)
  IN /\ made.m \in Shapes(k)
     /\ made.err = "none" =>
          /\ AsAsked(k, args, "create", made.m) /\ AsAsked(k, args, "replace", made.m)
          /\ Kept(k, args, m, made) /\ made.s.triggers.lastChanged = now

\* Update: as asked when it returns no error, with the time of now or an earlier one.
UpdatesWell(k, args, state, m, trouble, now) ==
  LET made == Update(k, args, state, FALSE, m, trouble, now)
  IN /\ made.m \in Shapes(k)
     /\ made.err = "none" =>
          /\ AsAsked(k, args, "update", made.m) /\ Shed(k, args, state.args, "update", made.m)
          /\ Kept(k, args, m, made) /\ made.s.triggers.lastChanged \in {now, state.triggers.lastChanged}

\* Delete: nothing is left when the machine was reached; a second delete is harmless.
DeletesWell(k, state, m, trouble) ==
  LET gone == Delete(k, state, m, trouble)
  IN /\ gone.m \in Shapes(k)
     /\ Clears(k, state, m) => Clears(k, state, gone.m)
     /\ Clears(k, state, m) /\ gone.err = "none" /\ trouble.kind # "unreachable"
          => Gone(k, state.args, gone.m)

\* Read: what is not as asked is seen and stamped when the machine was reached.
ReadsWell(k, state, m, trouble, now) ==
  LET found == Read(k, state.args, state, m, trouble, now)
      right == AsAsked(k, state.args, "refresh", m)
      since == found.s.triggers.lastChanged
      sees == Diff(k, state.args, found.s).changes
  IN found.err = "none" =>
       /\ since \in {now, state.triggers.lastChanged}
       /\ Clears(k, state, m) /\ ~Misreads(k, state.args, m) => Clears(k, found.s, m)
       /\ trouble = NoTrouble =>
            /\ k \in {"Package", "Apt"} /\ ~Misreads(k, state.args, m) => Clears(k, found.s, m)
            /\ Tells(k, state.args) => right \/ sees
            /\ Tells(k, state.args) /\ k = "Package" => ~right \/ ~sees
            /\ k # "Exec" =>
                 /\ right \/ since = now \/ (k = "File" /\ found.s.drifted # {})
                 /\ right /\ ~Bounces(k, state.args) => since = state.triggers.lastChanged

\* A task brings the machine to what is asked unless it fails, and touches
\* nothing else.
ServiceRuns(m, args, call) ==
  LET task == S!Task(m, args, FALSE, call)
  IN /\ task.m \in S!Machines
     /\ task.err = "none" => S!AsAsked(args, task.m)
     /\ task.err = "unreachable" => call.kind = "unreachable"

\* What one task of Service does, and that it never leaves the machine's values.
LEMMA ServiceTask ==
  ASSUME NEW args, ServiceInput(args), NEW m \in S!Machines, NEW call, call.kind \in Outcomes
  PROVE  ServiceRuns(m, args, call)
  <1> DEFINE goal == S!Goal(m, args)
             task == S!Task(m, args, FALSE, call)
             half == [m EXCEPT !.enabled = goal.enabled]
  <1>1. task.m \in {m, goal, half}
    BY DEF S!Task, S!Ran, S!Half
  <1>2. /\ task.err = "none" => task.m = goal
        /\ task.err = "unreachable" => call.kind = "unreachable"
    BY DEF S!Task, S!Ran, Outcomes
  <1>3. goal \in S!Machines
    BY DEF S!Goal, S!Enabled, S!Machines, ServiceInput
  <1>4. half \in S!Machines
    BY <1>3 DEF S!Machines
  <1>5. S!AsAsked(args, goal)
    BY DEF S!Goal, S!Enabled, S!AsAsked
  <1> HIDE DEF goal, task, half
  <1>6. task.m \in S!Machines /\ (task.err = "none" => S!AsAsked(args, task.m))
    BY <1>1, <1>2, <1>3, <1>4, <1>5
  <1> QED
    BY <1>2, <1>6, Zenon DEF task, ServiceRuns

\* What service.go asked for is what its Delete would clear.
LEMMA ServiceCleared ==
  ASSUME NEW args, ServiceInput(args), NEW m \in S!Machines, S!AsAsked(args, m)
  PROVE  args.enabled # TRUE /\ args.state \in {Unset, "stopped"} => S!Gone(args, m)
  BY DEF S!AsAsked, S!Gone, ServiceInput, S!Machines

\* service.go: Create that returns no error has done what was asked, and is stamped.
LEMMA ServiceCreates ==
  ASSUME NEW args, ServiceInput(args), NEW m \in S!Machines, NEW trouble, trouble.kind \in Outcomes, NEW now
  PROVE  CreatesWell("Service", args, m, trouble, now)
  <1> DEFINE call == S!Outcome(trouble, 1)
             task == S!Task(m, args, FALSE, call)
             made == S!Create(args, FALSE, m, trouble, now)
             was == Create("Service", args, FALSE, m, trouble, now)
  <1>1. call.kind \in Outcomes
    BY DEF S!Outcome, S!NoTrouble, Outcomes
  <1> HIDE DEF call
  <1>2. ServiceRuns(m, args, call)
    BY <1>1, ServiceTask
  <1>3. /\ made.m = task.m /\ made.err = task.err /\ made.s.args = args
        /\ made.s.triggers.lastChanged = now
    BY DEF S!Create, S!Created, S!Response, S!updateState, S!UpdateTriggerState, call
  <1>4. was = made
    BY DEF Create
  <1>5. task.m \in S!Machines /\ (task.err = "none" => S!AsAsked(args, task.m))
    BY <1>2 DEF ServiceRuns
  <1> HIDE DEF task, made, was
  <1>6. was.m \in Shapes("Service")
    BY <1>3, <1>4, <1>5 DEF Shapes, Machines
  <1>7. was.err = "none" =>
          /\ AsAsked("Service", args, "create", was.m) /\ AsAsked("Service", args, "replace", was.m)
          /\ Kept("Service", args, m, was) /\ was.s.triggers.lastChanged = now
    BY <1>3, <1>4, <1>5, ServiceCleared DEF AsAsked, Kept, Clears, Gone
  <1> QED
    BY <1>6, <1>7, Zenon DEF was, CreatesWell

\* service.go: Update that returns no error has done what was asked, and is stamped.
LEMMA ServiceUpdates ==
  ASSUME NEW args, ServiceInput(args), NEW state, ~S!Diff(args, state).replace, NEW m \in S!Machines,
         NEW trouble, trouble.kind \in Outcomes, NEW now
  PROVE  UpdatesWell("Service", args, state, m, trouble, now)
  <1> DEFINE call == S!Outcome(trouble, 1)
             task == S!Task(m, args, FALSE, call)
             made == S!Update(args, state, FALSE, m, trouble, now)
             was == Update("Service", args, state, FALSE, m, trouble, now)
  <1>1. call.kind \in Outcomes
    BY DEF S!Outcome, S!NoTrouble, Outcomes
  <1> HIDE DEF call
  <1>2. ServiceRuns(m, args, call)
    BY <1>1, ServiceTask
  <1>3. /\ made.m = task.m /\ made.err = task.err
        /\ made.err = "none" =>
             made.s.args = args /\ made.s.triggers.lastChanged \in {now, state.triggers.lastChanged}
    BY DEF S!Update, S!Updated, S!Response, S!Quiet, S!updateState, S!UpdateTriggerState, call
  <1>4. was = made
    BY DEF Update
  <1>5. task.m \in S!Machines /\ (task.err = "none" => S!AsAsked(args, task.m))
    BY <1>2 DEF ServiceRuns
  <1> HIDE DEF task, made, was
  <1>6. was.m \in Shapes("Service")
    BY <1>3, <1>4, <1>5 DEF Shapes, Machines
  <1>7. Shed("Service", args, state.args, "update", was.m)
    BY DEF Shed, S!Diff, S!Merged
  <1>8. was.err = "none" =>
          /\ AsAsked("Service", args, "update", was.m) /\ Shed("Service", args, state.args, "update", was.m)
          /\ Kept("Service", args, m, was) /\ was.s.triggers.lastChanged \in {now, state.triggers.lastChanged}
    BY <1>3, <1>4, <1>5, <1>7, ServiceCleared DEF AsAsked, Kept, Clears, Gone
  <1> QED
    BY <1>6, <1>8, Zenon DEF was, UpdatesWell

\* service.go: Delete that reaches the machine and returns no error leaves nothing.
LEMMA ServiceDeletes ==
  ASSUME NEW state, ServiceInput(state.args), NEW m \in S!Machines, NEW trouble, trouble.kind \in Outcomes
  PROVE  DeletesWell("Service", state, m, trouble)
  <1> DEFINE call == S!Outcome(trouble, 1)
             disable == state.args.enabled = TRUE
             stop == state.args.state \notin {Unset, "stopped"}
             undo == [ enabled |-> IF disable THEN FALSE ELSE state.args.enabled,
                       state   |-> IF stop THEN "stopped" ELSE state.args.state ]
             task == S!Task(m, undo, FALSE, call)
             gone == S!Delete(state, m, trouble)
             was == Delete("Service", state, m, trouble)
  <1>1. call.kind \in Outcomes /\ (call.kind = "unreachable" => trouble.kind = "unreachable")
    BY DEF S!Outcome, S!NoTrouble, Outcomes
  <1>2. ServiceInput(undo)
    BY DEF ServiceInput
  <1>3. ASSUME NEW n \in S!Machines, S!AsAsked(undo, n), disable \/ stop
        PROVE  S!Gone(state.args, n)
    <2>1. n.enabled \in BOOLEAN /\ n.running \in BOOLEAN
      BY DEF S!Machines
    <2>2. undo.enabled \in {Unset, n.enabled} /\ (undo.state # Unset => (n.running <=> undo.state # "stopped"))
      BY <1>3 DEF S!AsAsked
    <2>3. state.args.enabled # Unset => ~n.enabled
      <3>1. state.args.enabled # Unset => undo.enabled = FALSE
        BY DEF ServiceInput
      <3>2. Unset # FALSE
        BY UnsetAssumption
      <3> HIDE DEF undo
      <3>3. state.args.enabled # Unset => n.enabled = FALSE
        BY <2>2, <3>1, <3>2
      <3> QED
        BY <3>3
    <2>4. state.args.state # Unset => ~n.running
      <3>1. state.args.state # Unset => undo.state = "stopped"
        OBVIOUS
      <3>2. Unset # "stopped"
        BY UnsetAssumption
      <3> HIDE DEF undo
      <3> QED
        BY <2>2, <3>1, <3>2
    <2> QED
      BY <2>3, <2>4 DEF S!Gone
  <1> HIDE DEF call
  <1>4. /\ ~disable /\ ~stop => gone.m = m
        /\ disable \/ stop =>
             /\ gone.m = task.m
             /\ gone.err = "none" => task.err \in {"none", "unreachable"}
    BY DEF S!Delete, S!Deleted, S!Quiet, call
  <1> HIDE DEF undo
  <1>5. ServiceRuns(m, undo, call)
    BY <1>1, <1>2, ServiceTask
  <1>6. /\ task.m \in S!Machines /\ (task.err = "none" => S!AsAsked(undo, task.m))
        /\ task.err = "unreachable" => call.kind = "unreachable"
    BY <1>5 DEF ServiceRuns
  <1>7. was = gone
    BY DEF Delete
  <1> HIDE DEF task, gone, was
  <1>8. was.m \in Shapes("Service")
    BY <1>4, <1>6, <1>7 DEF Shapes, Machines, S!Quiet
  <1>9. Clears("Service", state, m) => Clears("Service", state, was.m)
    BY <1>4, <1>7 DEF Clears
  <1>10. Clears("Service", state, m) /\ was.err = "none" /\ trouble.kind # "unreachable"
           => Gone("Service", state.args, was.m)
    <2>1. CASE ~disable /\ ~stop
      BY <1>4, <1>7, <2>1 DEF Clears
    <2>2. CASE disable \/ stop
      BY <1>1, <1>3, <1>4, <1>6, <1>7, <2>2 DEF Gone
    <2> QED
      BY <2>1, <2>2
  <1> QED
    BY <1>8, <1>9, <1>10, Zenon DEF was, DeletesWell

\* A task brings the machine to what is asked unless it fails, and touches
\* nothing else.
GroupRuns(m, args, call) ==
  LET task == G!Task(m, args, FALSE, call)
  IN /\ task.m \in G!Machines
     /\ task.err = "none" => G!AsAsked(args, task.m)
     /\ task.err = "unreachable" => call.kind = "unreachable"
     /\ \A h \in Groups \ {args.name} : task.m[h] = m[h]

\* What one task of Group does, and that it never leaves the machine's values.
LEMMA GroupTask ==
  ASSUME NEW args, GroupInput(args), NEW m \in G!Machines, NEW call, call.kind \in Outcomes
  PROVE  GroupRuns(m, args, call)
  <1> DEFINE goal == G!Goal(m, args)
             task == G!Task(m, args, FALSE, call)
             taken == G!Taken(m, args)
  <1>1. /\ task.m \in {m, goal}
        /\ taken => task.m = m /\ task.err # "none"
        /\ task.err = "none" => task.m = goal
        /\ task.err = "unreachable" => call.kind = "unreachable"
    BY DEF G!Task, G!Ran, G!RanInVain, Outcomes
  <1>2. PICK gid \in Gids \cup {0} : 
          /\ goal = [m EXCEPT ![args.name] = gid]
          /\ IF args.ensure = "absent" THEN gid = 0 
             ELSE /\ gid # 0 /\ args.gid \in {Unset, gid}
                  /\ ~taken => \A h \in Groups \ {args.name} : m[h] # gid
    <2>1. CASE args.ensure = "absent"
      BY <2>1 DEF G!Goal
    <2>2. CASE args.ensure # "absent" /\ args.gid # Unset
      BY <2>2, IdsAssumption DEF G!Goal, GroupInput, G!Taken
    <2>3. CASE args.ensure # "absent" /\ args.gid = Unset /\ m[args.name] # 0
      BY <2>3 DEF G!Goal, GroupInput, G!Machines
    <2>4. CASE args.ensure # "absent" /\ args.gid = Unset /\ m[args.name] = 0
      <3> DEFINE free == CHOOSE gid \in Gids : \A g \in Groups : m[g] # gid
      <3>1. free \in Gids /\ \A g \in Groups : m[g] # free
        BY <2>4, IdsAssumption DEF GroupInput
      <3>2. goal = [m EXCEPT ![args.name] = free]
        BY <2>4 DEF G!Goal
      <3> HIDE DEF free
      <3> QED
        BY <2>4, <3>1, <3>2, IdsAssumption
    <2> QED
      BY <2>1, <2>2, <2>3, <2>4
  <1> HIDE DEF goal, task, taken
  <1>3. args.name \in Groups /\ m \in [Groups -> Gids \cup {0}]
    BY DEF GroupInput, G!Machines
  <1>4. ~taken => goal \in G!Machines /\ G!AsAsked(args, goal)
    BY <1>2, <1>3 DEF G!Machines, G!AsAsked
  <1>5. \A h \in Groups \ {args.name} : goal[h] = m[h]
    BY <1>2, <1>3
  <1>6. /\ task.m \in G!Machines
        /\ task.err = "none" => G!AsAsked(args, task.m)
        /\ task.err = "unreachable" => call.kind = "unreachable"
        /\ \A h \in Groups \ {args.name} : task.m[h] = m[h]
    BY <1>1, <1>4, <1>5
  <1> QED
    BY <1>6, Zenon DEF task, GroupRuns

\* What group.go asked for is what its Delete would clear.
LEMMA GroupCleared ==
  ASSUME NEW args, GroupInput(args), NEW m \in G!Machines, G!AsAsked(args, m)
  PROVE  args.ensure = "absent" => G!Gone(args, m)
  BY DEF G!AsAsked, G!Gone

\* group.go: Create that returns no error has done what was asked, and is stamped.
LEMMA GroupCreates ==
  ASSUME NEW args, GroupInput(args), NEW m \in G!Machines, NEW trouble, trouble.kind \in Outcomes, NEW now
  PROVE  CreatesWell("Group", args, m, trouble, now)
  <1> DEFINE call == G!Outcome(trouble, 1)
             task == G!Task(m, args, FALSE, call)
             made == G!Create(args, FALSE, m, trouble, now)
             was == Create("Group", args, FALSE, m, trouble, now)
  <1>1. call.kind \in Outcomes
    BY DEF G!Outcome, G!NoTrouble, Outcomes
  <1> HIDE DEF call
  <1>2. GroupRuns(m, args, call)
    BY <1>1, GroupTask
  <1>3. /\ made.m = task.m /\ made.err = task.err /\ made.s.args = args
        /\ made.s.triggers.lastChanged = now
    BY DEF G!Create, G!Created, G!Response, G!updateState, G!UpdateTriggerState, call
  <1>4. was = made
    BY DEF Create
  <1>5. task.m \in G!Machines /\ (task.err = "none" => G!AsAsked(args, task.m))
    BY <1>2 DEF GroupRuns
  <1> HIDE DEF task, made, was
  <1>6. was.m \in Shapes("Group")
    BY <1>3, <1>4, <1>5 DEF Shapes, Machines
  <1>7. was.err = "none" =>
          /\ AsAsked("Group", args, "create", was.m) /\ AsAsked("Group", args, "replace", was.m)
          /\ Kept("Group", args, m, was) /\ was.s.triggers.lastChanged = now
    BY <1>3, <1>4, <1>5, GroupCleared DEF AsAsked, Kept, Clears, Gone
  <1> QED
    BY <1>6, <1>7, Zenon DEF was, CreatesWell

\* group.go: Update that returns no error has done what was asked, and is stamped.
LEMMA GroupUpdates ==
  ASSUME NEW args, GroupInput(args), NEW state, ~G!Diff(args, state).replace, NEW m \in G!Machines,
         NEW trouble, trouble.kind \in Outcomes, NEW now
  PROVE  UpdatesWell("Group", args, state, m, trouble, now)
  <1> DEFINE call == G!Outcome(trouble, 1)
             task == G!Task(m, args, FALSE, call)
             made == G!Update(args, state, FALSE, m, trouble, now)
             was == Update("Group", args, state, FALSE, m, trouble, now)
  <1>1. call.kind \in Outcomes
    BY DEF G!Outcome, G!NoTrouble, Outcomes
  <1> HIDE DEF call
  <1>2. GroupRuns(m, args, call)
    BY <1>1, GroupTask
  <1>3. /\ made.m = task.m /\ made.err = task.err
        /\ made.err = "none" =>
             made.s.args = args /\ made.s.triggers.lastChanged \in {now, state.triggers.lastChanged}
    BY DEF G!Update, G!Updated, G!Response, G!Quiet, G!updateState, G!UpdateTriggerState, call
  <1>4. was = made
    BY DEF Update
  <1>5. task.m \in G!Machines /\ (task.err = "none" => G!AsAsked(args, task.m))
    BY <1>2 DEF GroupRuns
  <1> HIDE DEF task, made, was
  <1>6. was.m \in Shapes("Group")
    BY <1>3, <1>4, <1>5 DEF Shapes, Machines
  <1>7. Shed("Group", args, state.args, "update", was.m)
    BY DEF Shed, G!Diff, G!Merged
  <1>8. was.err = "none" =>
          /\ AsAsked("Group", args, "update", was.m) /\ Shed("Group", args, state.args, "update", was.m)
          /\ Kept("Group", args, m, was) /\ was.s.triggers.lastChanged \in {now, state.triggers.lastChanged}
    BY <1>3, <1>4, <1>5, <1>7, GroupCleared DEF AsAsked, Kept, Clears, Gone
  <1> QED
    BY <1>6, <1>8, Zenon DEF was, UpdatesWell

\* group.go: Delete that reaches the machine and returns no error leaves nothing.
LEMMA GroupDeletes ==
  ASSUME NEW state, GroupInput(state.args), NEW m \in G!Machines, NEW trouble, trouble.kind \in Outcomes
  PROVE  DeletesWell("Group", state, m, trouble)
  <1> DEFINE call == G!Outcome(trouble, 1)
             undo == [state.args EXCEPT !.ensure = "absent"]
             task == G!Task(m, undo, FALSE, call)
             gone == G!Delete(state, m, trouble)
             was == Delete("Group", state, m, trouble)
  <1>1. call.kind \in Outcomes /\ (call.kind = "unreachable" => trouble.kind = "unreachable")
    BY DEF G!Outcome, G!NoTrouble, Outcomes
  <1>2. GroupInput(undo) /\ undo.ensure = "absent" /\ undo.name = state.args.name
    BY DEF GroupInput
  <1> HIDE DEF call, undo
  <1>3. GroupRuns(m, undo, call)
    BY <1>1, <1>2, GroupTask
  <1>4. /\ task.m \in G!Machines /\ (task.err = "none" => G!AsAsked(undo, task.m))
        /\ task.err = "unreachable" => call.kind = "unreachable"
    BY <1>3 DEF GroupRuns
  <1>5. IF state.args.ensure = "absent" THEN gone = G!Quiet(m, state)
        ELSE /\ gone.m = task.m
             /\ gone.err = "none" => task.err \in {"none", "unreachable"}
    BY DEF G!Delete, G!Deleted, undo, call
  <1>6. was = gone
    BY DEF Delete
  <1> HIDE DEF task, gone, was
  <1>7. was.m \in Shapes("Group")
    BY <1>4, <1>5, <1>6 DEF Shapes, Machines, G!Quiet
  <1>8. Clears("Group", state, m) => Clears("Group", state, was.m)
    BY <1>5, <1>6 DEF Clears, G!Quiet
  <1>9. Clears("Group", state, m) /\ was.err = "none" /\ trouble.kind # "unreachable"
          => Gone("Group", state.args, was.m)
    <2>1. CASE state.args.ensure = "absent"
      BY <1>5, <1>6, <2>1 DEF Clears, G!Quiet
    <2>2. CASE state.args.ensure # "absent"
      BY <1>1, <1>2, <1>4, <1>5, <1>6, <2>2 DEF Gone, G!AsAsked, G!Gone
    <2> QED
      BY <2>1, <2>2
  <1> QED
    BY <1>7, <1>8, <1>9, Zenon DEF was, DeletesWell

\* A task brings the machine to what is asked unless it fails, and touches
\* nothing else.
UserRuns(m, args, call) ==
  LET task == U!Task(m, args, FALSE, call)
  IN /\ task.m \in U!Machines
     /\ task.err = "none" => U!AsAsked(args, task.m)
     /\ task.err = "unreachable" => call.kind = "unreachable"
     /\ \A v \in Users \ {args.name} : task.m.accounts[v] = m.accounts[v]

\* What one task of User does, and that it never leaves the machine's values.
LEMMA UserTask ==
  ASSUME NEW args, UserInput(args), NEW m \in U!Machines, NEW call, call.kind \in Outcomes
  PROVE  UserRuns(m, args, call)
  <1> DEFINE goal == U!Goal(m, args)
             task == U!Task(m, args, FALSE, call)
             half == [goal EXCEPT !.homes = m.homes]
             will == U!Account(m, args)
             is == m.accounts[args.name]
  <1>1. /\ task.m \in {m, goal, half}
        /\ task.err = "none" => task.m = goal
        /\ task.err = "unreachable" => call.kind = "unreachable"
    BY DEF U!Task, U!Ran, U!Half, Outcomes
  <1>2. args.name \in Users /\ m.accounts \in [Users -> U!Accounts] /\ m.homes \in SUBSET Homes
    BY DEF UserInput, U!Machines
  <1>3. is \in U!Accounts
    BY <1>2
  <1>4. is # U!NoAccount => is.groups \in SUBSET Groups /\ is.home \in Homes
    BY <1>3 DEF U!Accounts
  <1>5. U!NoAccount.groups = {} /\ U!NoAccount.home = Unset
    BY DEF U!NoAccount
  <1>6. /\ goal.accounts = [m.accounts EXCEPT ![args.name] = will]
        /\ goal.homes \subseteq m.homes \cup {will.home}
        /\ will = U!NoAccount => goal.homes \subseteq m.homes
        /\ will # U!NoAccount /\ args.manageHome # FALSE => will.home \in goal.homes
        /\ DOMAIN goal = {"accounts", "homes"}
    BY DEF U!Goal
  <1>7. /\ args.ensure = "absent" => will = U!NoAccount
        /\ args.ensure # "absent" =>
             /\ will \in [groups : SUBSET Groups, home : Homes]
             /\ will.home \in Homes
             /\ args.home \in {Unset, will.home}
             /\ args.groups # Unset => args.groups \subseteq will.groups
             /\ args.groups # Unset /\ args.groupsExclusive = TRUE => will.groups = args.groups
    <2>1. CASE args.ensure = "absent"
      BY <2>1 DEF U!Account
    <2>2. CASE args.ensure # "absent"
      <3> DEFINE also == IF args.groupsExclusive = TRUE THEN {} ELSE is.groups
                 gs == IF args.groups = Unset THEN is.groups ELSE args.groups \cup also
                 h == IF args.home # Unset THEN args.home
                      ELSE IF is = U!NoAccount THEN DefaultHome ELSE is.home
      <3>1. will = [groups |-> gs, home |-> h]
        BY <2>2 DEF U!Account
      <3>2. gs \in SUBSET Groups
        <4>1. is.groups \in SUBSET Groups
          BY <1>4, <1>5
        <4>2. CASE args.groups = Unset
          BY <4>1, <4>2
        <4>3. CASE args.groups # Unset
          <5>1. args.groups \in SUBSET Groups
            BY <4>3, Zenon DEF UserInput
          <5>2. also \in SUBSET Groups
            BY <4>1, Zenon
          <5>3. gs = args.groups \cup also
            BY <4>3
          <5> HIDE DEF also, gs
          <5> QED
            BY <5>1, <5>2, <5>3
        <4> QED
          BY <4>2, <4>3
      <3>3. h \in Homes
        BY <1>4, DefaultsAssumption DEF UserInput
      <3>4. /\ args.home \in {Unset, h}
            /\ args.groups # Unset => args.groups \subseteq gs
            /\ args.groups # Unset /\ args.groupsExclusive = TRUE => gs = args.groups
        OBVIOUS
      <3> HIDE DEF also, gs, h, will, is
      <3> QED
        BY <2>2, <3>1, <3>2, <3>3, <3>4
    <2> QED
      BY <2>1, <2>2
  <1>8. will \in U!Accounts /\ (args.ensure # "absent" => will # U!NoAccount)
    BY <1>5, <1>7, DefaultsAssumption DEF U!Accounts
  <1> HIDE DEF will, is
  <1>9. goal \in U!Machines
    <2>1. goal.homes \in SUBSET Homes
      BY <1>2, <1>6, <1>7, <1>8
    <2>2. goal = [accounts |-> goal.accounts, homes |-> goal.homes]
      BY DEF U!Goal
    <2> HIDE DEF goal
    <2> QED
      BY <1>2, <1>6, <1>8, <2>1, <2>2 DEF U!Machines
  <1>10. half \in U!Machines
    <2>1. goal.accounts \in [Users -> U!Accounts]
      BY <1>9 DEF U!Machines
    <2>2. half = [accounts |-> goal.accounts, homes |-> m.homes]
      BY DEF U!Goal
    <2> QED
      BY <1>2, <2>1, <2>2 DEF U!Machines
  <1> HIDE DEF goal, half, task
  <1>11. U!AsAsked(args, goal)
    <2>1. goal.accounts[args.name] = will
      BY <1>2, <1>6
    <2> QED
      BY <1>6, <1>7, <1>8, <2>1 DEF U!AsAsked
  <1>12. ASSUME NEW v \in Users \ {args.name}
         PROVE  task.m.accounts[v] = m.accounts[v]
    <2>1. half.accounts = goal.accounts
      BY <1>9 DEF half, U!Machines
    <2> QED
      BY <1>1, <1>2, <1>6, <2>1
  <1>13. /\ task.m \in U!Machines
         /\ task.err = "none" => U!AsAsked(args, task.m)
    BY <1>1, <1>9, <1>10, <1>11
  <1> QED
    BY <1>1, <1>12, <1>13, Zenon DEF task, UserRuns

\* What user.go asked for is what its Delete would clear.
LEMMA UserCleared ==
  ASSUME NEW args, UserInput(args), NEW m \in U!Machines, U!AsAsked(args, m)
  PROVE  args.ensure = "absent" => U!Gone(args, m)
  BY DEF U!AsAsked, U!Gone

\* user.go: Create that returns no error has done what was asked, and is stamped.
LEMMA UserCreates ==
  ASSUME NEW args, UserInput(args), NEW m \in U!Machines, NEW trouble, trouble.kind \in Outcomes, NEW now
  PROVE  CreatesWell("User", args, m, trouble, now)
  <1> DEFINE call == U!Outcome(trouble, 1)
             task == U!Task(m, args, FALSE, call)
             made == U!Create(args, FALSE, m, trouble, now)
             was == Create("User", args, FALSE, m, trouble, now)
  <1>1. call.kind \in Outcomes
    BY DEF U!Outcome, U!NoTrouble, Outcomes
  <1> HIDE DEF call
  <1>2. UserRuns(m, args, call)
    BY <1>1, UserTask
  <1>3. /\ made.m = task.m /\ made.err = task.err /\ made.s.args = args
        /\ made.s.triggers.lastChanged = now
    BY DEF U!Create, U!Created, U!Response, U!updateState, U!UpdateTriggerState, call
  <1>4. was = made
    BY DEF Create
  <1>5. task.m \in U!Machines /\ (task.err = "none" => U!AsAsked(args, task.m))
    BY <1>2 DEF UserRuns
  <1> HIDE DEF task, made, was
  <1>6. was.m \in Shapes("User")
    BY <1>3, <1>4, <1>5 DEF Shapes, Machines
  <1>7. was.err = "none" =>
          /\ AsAsked("User", args, "create", was.m) /\ AsAsked("User", args, "replace", was.m)
          /\ Kept("User", args, m, was) /\ was.s.triggers.lastChanged = now
    BY <1>3, <1>4, <1>5, UserCleared DEF AsAsked, Kept, Clears, Gone
  <1> QED
    BY <1>6, <1>7, Zenon DEF was, CreatesWell

\* user.go: Update that returns no error has done what was asked, and is stamped.
LEMMA UserUpdates ==
  ASSUME NEW args, UserInput(args), NEW state, ~U!Diff(args, state).replace, NEW m \in U!Machines,
         NEW trouble, trouble.kind \in Outcomes, NEW now
  PROVE  UpdatesWell("User", args, state, m, trouble, now)
  <1> DEFINE call == U!Outcome(trouble, 1)
             task == U!Task(m, args, FALSE, call)
             made == U!Update(args, state, FALSE, m, trouble, now)
             was == Update("User", args, state, FALSE, m, trouble, now)
  <1>1. call.kind \in Outcomes
    BY DEF U!Outcome, U!NoTrouble, Outcomes
  <1> HIDE DEF call
  <1>2. UserRuns(m, args, call)
    BY <1>1, UserTask
  <1>3. /\ made.m = task.m /\ made.err = task.err
        /\ made.err = "none" =>
             made.s.args = args /\ made.s.triggers.lastChanged \in {now, state.triggers.lastChanged}
    BY DEF U!Update, U!Updated, U!Response, U!Quiet, U!updateState, U!UpdateTriggerState, call
  <1>4. was = made
    BY DEF Update
  <1>5. task.m \in U!Machines /\ (task.err = "none" => U!AsAsked(args, task.m))
    BY <1>2 DEF UserRuns
  <1> HIDE DEF task, made, was
  <1>6. was.m \in Shapes("User")
    BY <1>3, <1>4, <1>5 DEF Shapes, Machines
  <1>7. Shed("User", args, state.args, "update", was.m)
    BY DEF Shed, U!Diff, U!Merged
  <1>8. was.err = "none" =>
          /\ AsAsked("User", args, "update", was.m) /\ Shed("User", args, state.args, "update", was.m)
          /\ Kept("User", args, m, was) /\ was.s.triggers.lastChanged \in {now, state.triggers.lastChanged}
    BY <1>3, <1>4, <1>5, <1>7, UserCleared DEF AsAsked, Kept, Clears, Gone
  <1> QED
    BY <1>6, <1>8, Zenon DEF was, UpdatesWell

\* user.go: Delete that reaches the machine and returns no error leaves nothing.
LEMMA UserDeletes ==
  ASSUME NEW state, UserInput(state.args), NEW m \in U!Machines, NEW trouble, trouble.kind \in Outcomes
  PROVE  DeletesWell("User", state, m, trouble)
  <1> DEFINE call == U!Outcome(trouble, 1)
             undo == [state.args EXCEPT !.ensure = "absent"]
             task == U!Task(m, undo, FALSE, call)
             gone == U!Delete(state, m, trouble)
             was == Delete("User", state, m, trouble)
  <1>1. call.kind \in Outcomes /\ (call.kind = "unreachable" => trouble.kind = "unreachable")
    BY DEF U!Outcome, U!NoTrouble, Outcomes
  <1>2. UserInput(undo) /\ undo.ensure = "absent" /\ undo.name = state.args.name
    BY DEF UserInput
  <1> HIDE DEF call, undo
  <1>3. UserRuns(m, undo, call)
    BY <1>1, <1>2, UserTask
  <1>4. /\ task.m \in U!Machines /\ (task.err = "none" => U!AsAsked(undo, task.m))
        /\ task.err = "unreachable" => call.kind = "unreachable"
    BY <1>3 DEF UserRuns
  <1>5. IF state.args.ensure = "absent" THEN gone = U!Quiet(m, state)
        ELSE /\ gone.m = task.m
             /\ gone.err = "none" => task.err \in {"none", "unreachable"}
    BY DEF U!Delete, U!Deleted, undo, call
  <1>6. was = gone
    BY DEF Delete
  <1> HIDE DEF task, gone, was
  <1>7. was.m \in Shapes("User")
    BY <1>4, <1>5, <1>6 DEF Shapes, Machines, U!Quiet
  <1>8. Clears("User", state, m) => Clears("User", state, was.m)
    BY <1>5, <1>6 DEF Clears, U!Quiet
  <1>9. Clears("User", state, m) /\ was.err = "none" /\ trouble.kind # "unreachable"
          => Gone("User", state.args, was.m)
    <2>1. CASE state.args.ensure = "absent"
      BY <1>5, <1>6, <2>1 DEF Clears, U!Quiet
    <2>2. CASE state.args.ensure # "absent"
      BY <1>1, <1>2, <1>4, <1>5, <1>6, <2>2 DEF Gone, U!AsAsked, U!Gone
    <2> QED
      BY <2>1, <2>2
  <1> QED
    BY <1>7, <1>8, <1>9, Zenon DEF was, DeletesWell

\* A command that does not fail leaves the marks it is to leave.
ExecRuns(m, command, call) ==
  LET task == E!Perform(m, command, call)
  IN /\ task.m \in E!Machines
     /\ task.err = "none" => command.puts \subseteq task.m /\ command.drops \cap task.m = {}
     /\ task.err = "unreachable" => call.kind = "unreachable"

\* What one task of Exec does, and that it never leaves the machine's values.
LEMMA ExecTask ==
  ASSUME NEW command, command # Unset, Harmless(command), NEW m \in E!Machines,
         NEW call, call.kind \in Outcomes
  PROVE  ExecRuns(m, command, call)
  <1> DEFINE task == E!Perform(m, command, call)
             after(done) == (m \cup (command.puts \cap done)) \ (command.drops \cap done)
  <1>1. task = E!Ran(m, after(Marks), after(call.done), FALSE, call)
    BY DEF E!Perform
  <1>2. /\ task.m \in {m, after(Marks), after(call.done)}
        /\ task.err = "none" => task.m = after(Marks)
        /\ task.err = "unreachable" => call.kind = "unreachable"
    BY <1>1 DEF E!Ran, Outcomes
  <1>3. command.puts \subseteq Marks /\ command.drops \subseteq Marks \ command.puts /\ m \subseteq Marks
    BY DEF Harmless, E!Machines
  <1>4. after(Marks) \subseteq Marks /\ after(call.done) \subseteq Marks
    BY <1>3
  <1>5. command.puts \subseteq after(Marks) /\ command.drops \cap after(Marks) = {}
    BY <1>3
  <1> HIDE DEF task, after
  <1>6. /\ task.m \in E!Machines
        /\ task.err = "none" => command.puts \subseteq task.m /\ command.drops \cap task.m = {}
    BY <1>2, <1>3, <1>4, <1>5 DEF E!Machines
  <1> QED
    BY <1>2, <1>6, Zenon DEF task, ExecRuns

\* exec.go: Create that returns no error has done what was asked, and is stamped.
LEMMA ExecCreates ==
  ASSUME NEW args, ExecInput(args), NEW m \in E!Machines, NEW trouble, trouble.kind \in Outcomes, NEW now
  PROVE  CreatesWell("Exec", args, m, trouble, now)
  <1> DEFINE call == E!Outcome(trouble, 1)
             task == E!Perform(m, args.create, call)
             was == Create("Exec", args, FALSE, m, trouble, now)
  <1>1. call.kind \in Outcomes
    BY DEF E!Outcome, E!NoTrouble, Outcomes
  <1> HIDE DEF call
  <1>2. ExecRuns(m, args.create, call)
    BY <1>1, ExecTask DEF ExecInput
  <1>3. was.m = task.m /\ was.err = task.err /\ was.s.triggers.lastChanged = now
    BY DEF Create, E!Create, E!Run, E!Response, E!updateState, E!UpdateTriggerState, E!Command, call
  <1>4. /\ task.m \in E!Machines
        /\ task.err = "none" => args.create.puts \subseteq task.m /\ args.create.drops \cap task.m = {}
    BY <1>2 DEF ExecRuns
  <1> HIDE DEF task, was
  <1>5. was.m \in Shapes("Exec")
    BY <1>3, <1>4 DEF Shapes, Machines
  <1>6. was.err = "none" =>
          /\ AsAsked("Exec", args, "create", was.m) /\ AsAsked("Exec", args, "replace", was.m)
          /\ Kept("Exec", args, m, was) /\ was.s.triggers.lastChanged = now
    BY <1>3, <1>4 DEF AsAsked, E!AsAsked, E!Command, Kept, Clears
  <1> QED
    BY <1>5, <1>6, Zenon DEF was, CreatesWell

\* exec.go: Update that returns no error has done what was asked, and is stamped.
LEMMA ExecUpdates ==
  ASSUME NEW args, ExecInput(args), NEW state, NEW m \in E!Machines,
         NEW trouble, trouble.kind \in Outcomes, NEW now
  PROVE  UpdatesWell("Exec", args, state, m, trouble, now)
  <1> DEFINE call == E!Outcome(trouble, 1)
             command == E!Command(args, "update")
             task == E!Perform(m, command, call)
             was == Update("Exec", args, state, FALSE, m, trouble, now)
  <1>1. call.kind \in Outcomes
    BY DEF E!Outcome, E!NoTrouble, Outcomes
  <1> HIDE DEF call
  <1>2. command # Unset /\ Harmless(command)
    BY DEF E!Command, ExecInput
  <1>3. ExecRuns(m, command, call)
    BY <1>1, <1>2, ExecTask
  <1>4. was.m = task.m /\ was.err = task.err /\ was.s.triggers.lastChanged \in {now, state.triggers.lastChanged}
    BY DEF Update, E!Update, E!Run, E!Response, E!updateState, E!UpdateTriggerState, call
  <1>5. /\ task.m \in E!Machines
        /\ task.err = "none" => command.puts \subseteq task.m /\ command.drops \cap task.m = {}
    BY <1>3 DEF ExecRuns
  <1> HIDE DEF task, was
  <1>6. was.m \in Shapes("Exec")
    BY <1>4, <1>5 DEF Shapes, Machines
  <1>7. was.err = "none" =>
          /\ AsAsked("Exec", args, "update", was.m) /\ Shed("Exec", args, state.args, "update", was.m)
          /\ Kept("Exec", args, m, was) /\ was.s.triggers.lastChanged \in {now, state.triggers.lastChanged}
    BY <1>4, <1>5 DEF AsAsked, E!AsAsked, Kept, Clears, Shed
  <1> QED
    BY <1>6, <1>7, Zenon DEF was, UpdatesWell

\* exec.go: Delete that reaches the machine and returns no error leaves nothing.
LEMMA ExecDeletes ==
  ASSUME NEW state, ExecInput(state.args), NEW m \in E!Machines, NEW trouble, trouble.kind \in Outcomes
  PROVE  DeletesWell("Exec", state, m, trouble)
  <1> DEFINE call == E!Outcome(trouble, 1)
             command == state.args.delete
             task == E!Perform(m, command, call)
             was == Delete("Exec", state, m, trouble)
  <1>1. call.kind \in Outcomes /\ (call.kind = "unreachable" => trouble.kind = "unreachable")
    BY DEF E!Outcome, E!NoTrouble, Outcomes
  <1>2. CASE command = Unset
    <2>1. was.m = m
      BY <1>2 DEF Delete, E!Delete, E!Quiet
    <2> HIDE DEF was
    <2> QED
      BY <1>2, <2>1, Zenon DEF was, DeletesWell, Clears, Gone, E!Gone, Shapes, Machines
  <1>3. CASE command # Unset
    <2> HIDE DEF call
    <2>1. ExecRuns(m, command, call)
      BY <1>1, <1>3, ExecTask DEF ExecInput
    <2>2. was.m = task.m /\ (was.err = "none" => task.err \in {"none", "unreachable"})
      BY <1>3 DEF Delete, E!Delete, E!Deleted, E!Command, call
    <2>3. /\ task.m \in E!Machines
          /\ task.err = "none" => command.puts \subseteq task.m /\ command.drops \cap task.m = {}
          /\ task.err = "unreachable" => call.kind = "unreachable"
      BY <2>1 DEF ExecRuns
    <2> HIDE DEF task, was
    <2>4. was.m \in Shapes("Exec")
      BY <2>2, <2>3 DEF Shapes, Machines
    <2>5. Clears("Exec", state, was.m)
      BY DEF Clears
    <2>6. was.err = "none" /\ trouble.kind # "unreachable" => Gone("Exec", state.args, was.m)
      BY <1>1, <2>2, <2>3 DEF Gone, E!Gone, E!AsAsked, E!Command
    <2> QED
      BY <2>4, <2>5, <2>6, Zenon DEF was, DeletesWell
  <1> QED
    BY <1>2, <1>3

\* What is asked of one package.
Met(version, ensure) ==
  CASE ensure = "absent" -> version = "absent"
    [] ensure = "latest" -> version = "newest"
    [] OTHER -> version # "absent"

\* package.go: the names a task is given are the list, or the one name.
LEMMA PackageNames ==
  ASSUME NEW args, PackageInput(args)
  PROVE  /\ P!NamesOf(args) \in SUBSET Packages
         /\ ~P!NoNames(args) /\ P!TaskNames(args) = P!NamesOf(args) /\ P!NameFirst(args) = P!NamesOf(args)
         /\ P!WantEnsure(args) = args.ensure /\ args.ensure # Unset
  <1>1. args.ensure # Unset
    BY UnsetAssumption DEF PackageInput
  <1>2. ~P!NoNames(args)
    BY DEF PackageInput, P!NoNames
  <1>3. CASE args.name = Unset
    BY <1>1, <1>2, <1>3 DEF PackageInput, P!NamesOf, P!NameFirst, P!TaskNames, P!WantEnsure
  <1>4. CASE args.name # Unset
    <2>1. args.names = Unset /\ args.name \in Packages
      BY <1>4 DEF PackageInput
    <2> QED
      BY <1>1, <1>2, <1>4, <2>1 DEF P!NamesOf, P!NameFirst, P!TaskNames, P!WantEnsure
  <1> QED
    BY <1>3, <1>4

\* A task brings the packages it names to what is asked unless it fails, and
\* touches no other.
PackageRuns(m, names, ensure, call) ==
  LET task == P!Task(m, names, ensure, FALSE, call)
  IN /\ task.m \in P!Machines
     /\ task.err = "none" => \A p \in names : Met(task.m[p], ensure)
     /\ task.err = "unreachable" => call.kind = "unreachable"
     /\ \A p \in Packages \ names : task.m[p] = m[p]

\* What one task of Package does, and that it never leaves the machine's values.
LEMMA PackageTask ==
  ASSUME NEW m \in P!Machines, NEW names \in SUBSET Packages, NEW ensure, NEW call, call.kind \in Outcomes
  PROVE  PackageRuns(m, names, ensure, call)
  <1> DEFINE goal == P!Converge(m, names, ensure)
             half == P!Converge(m, names \cap call.done, ensure)
             task == P!Task(m, names, ensure, FALSE, call)
  <1>1. /\ task.m \in {m, goal, half}
        /\ task.err = "none" => task.m = goal
        /\ task.err = "unreachable" => call.kind = "unreachable"
    BY DEF P!Task, P!Ran, Outcomes
  <1>2. \A v \in P!Versions : P!Goal(v, ensure) \in P!Versions /\ Met(P!Goal(v, ensure), ensure)
    BY DEF P!Versions, P!Goal, Met
  <1>3. goal \in P!Machines /\ half \in P!Machines
    BY <1>2 DEF P!Converge, P!Machines
  <1>4. \A p \in names : Met(goal[p], ensure)
    BY <1>2 DEF P!Converge, P!Machines
  <1>5. \A p \in Packages \ names : goal[p] = m[p] /\ half[p] = m[p]
    BY DEF P!Converge
  <1> HIDE DEF goal, half, task
  <1>6. /\ task.m \in P!Machines
        /\ task.err = "none" => \A p \in names : Met(task.m[p], ensure)
        /\ \A p \in Packages \ names : task.m[p] = m[p]
    BY <1>1, <1>3, <1>4, <1>5
  <1> QED
    BY <1>1, <1>6, Zenon DEF task, PackageRuns

\* package.go: what was asked is met when every named package meets it.
LEMMA PackageMeets ==
  ASSUME NEW args, PackageInput(args), NEW m \in P!Machines, \A p \in P!NamesOf(args) : Met(m[p], args.ensure)
  PROVE  P!AsAsked(args, m) /\ (args.ensure = "absent" => P!Gone(args, m))
  BY PackageNames DEF P!AsAsked, P!Gone, Met

\* package.go: Create that returns no error has done what was asked, and is stamped.
LEMMA PackageCreates ==
  ASSUME NEW args, PackageInput(args), NEW m \in P!Machines, NEW trouble, trouble.kind \in Outcomes, NEW now
  PROVE  CreatesWell("Package", args, m, trouble, now)
  <1> DEFINE call == P!Outcome(trouble, 1)
             names == P!NamesOf(args)
             task == P!Task(m, names, args.ensure, FALSE, call)
             was == Create("Package", args, FALSE, m, trouble, now)
  <1>1. call.kind \in Outcomes
    BY DEF P!Outcome, P!NoTrouble, Outcomes
  <1>2. names \in SUBSET Packages
    BY PackageNames
  <1> HIDE DEF call
  <1>3. PackageRuns(m, names, args.ensure, call)
    BY <1>1, <1>2, PackageTask
  <1>4. was.m = task.m /\ was.err = task.err /\ was.s.args = args /\ was.s.ensure = args.ensure /\ was.s.triggers.lastChanged = now
    BY PackageNames DEF Create, P!Create, P!Response, P!updatePackage, P!PackageState, P!updateState, P!UpdateTriggerState, call
  <1>5. /\ task.m \in P!Machines
        /\ task.err = "none" => \A p \in names : Met(task.m[p], args.ensure)
    BY <1>3 DEF PackageRuns
  <1> HIDE DEF task, was
  <1>6. was.m \in Shapes("Package")
    BY <1>4, <1>5 DEF Shapes, Machines
  <1>7. was.err = "none" =>
          /\ AsAsked("Package", args, "create", was.m) /\ AsAsked("Package", args, "replace", was.m)
          /\ Kept("Package", args, m, was) /\ was.s.triggers.lastChanged = now
    BY <1>4, <1>5, PackageMeets DEF AsAsked, Kept, Clears
  <1> QED
    BY <1>6, <1>7, Zenon DEF was, CreatesWell

\* package.go: Update that returns no error has done what was asked, and is stamped.
LEMMA PackageUpdates ==
  ASSUME NEW args, PackageInput(args), NEW state, PackageInput(state.args), NEW m \in P!Machines,
         NEW trouble, trouble.kind \in Outcomes, NEW now
  PROVE  UpdatesWell("Package", args, state, m, trouble, now)
  <1> DEFINE names == P!NamesOf(args)
             old == P!NamesOf(state.args)
             call(n) == P!Outcome(trouble, n)
             was == Update("Package", args, state, FALSE, m, trouble, now)
  <1>1. names \in SUBSET Packages /\ old \in SUBSET Packages
    BY PackageNames
  <1>2. call(1).kind \in Outcomes /\ call(2).kind \in Outcomes
    BY DEF P!Outcome, P!NoTrouble, Outcomes
  <1> HIDE DEF call, was
  <1> SUFFICES /\ was.m \in P!Machines
               /\ was.err = "none" =>
                    /\ was.s.args = args /\ was.s.ensure = args.ensure /\ was.s.triggers.lastChanged \in {now, state.triggers.lastChanged}
                    /\ \A p \in names : Met(was.m[p], args.ensure)
                    /\ args.ensure # "absent" => \A p \in old \ names : was.m[p] = "absent"
    <2>1. was.m \in Shapes("Package")
      BY DEF Shapes, Machines
    <2>2. was.err = "none" =>
            /\ AsAsked("Package", args, "update", was.m) /\ Shed("Package", args, state.args, "update", was.m)
            /\ Kept("Package", args, m, was) /\ was.s.triggers.lastChanged \in {now, state.triggers.lastChanged}
      BY PackageMeets, PackageNames DEF AsAsked, Kept, Clears, Shed, P!Dropped
    <2> QED
      BY <2>1, <2>2, Zenon DEF was, UpdatesWell
  <1>3. CASE args.ensure = "absent"
    <2> DEFINE task == P!Task(m, names, "absent", FALSE, call(1))
    <2>1. PackageRuns(m, names, "absent", call(1))
      BY <1>1, <1>2, PackageTask
    <2>2. /\ was.m = task.m
          /\ was.err = "none" =>
               task.err = "none" /\ was.s.args = args /\ was.s.ensure = args.ensure /\ was.s.triggers.lastChanged \in {now, state.triggers.lastChanged}
      BY <1>3, PackageNames DEF was, Update, P!Update, P!UpdateAbsent, P!Response, P!Quiet,
         P!updatePackage, P!PackageState, P!updateState, P!UpdateTriggerState, call
    <2>3. /\ task.m \in P!Machines
          /\ task.err = "none" => \A p \in names : Met(task.m[p], "absent")
      BY <2>1 DEF PackageRuns
    <2> HIDE DEF task
    <2> QED
      BY <1>3, <2>2, <2>3
  <1>4. CASE args.ensure # "absent"
    <2> DEFINE dropped == old \ names
               first == IF dropped = {} THEN P!Skip(m) ELSE P!Task(m, dropped, "absent", FALSE, call(1))
               second == IF names = {} THEN P!Skip(first.m)
                         ELSE P!Task(first.m, names, args.ensure, FALSE, call(2))
    <2>1. P!Absents(args, state) = dropped /\ P!Presents(args, state) = names /\ P!NewState(args, state) = args.ensure
      BY <1>4, PackageNames DEF P!Absents, P!Presents, P!NewState, P!UpdateNames
    <2>2. was = IF first.err # "none" THEN P!Response(first, state, FALSE)
                ELSE IF second.err # "none" THEN P!Response(second, state, FALSE)
                ELSE P!Quiet(second.m, P!updatePackage(args, state, first.changed \/ second.changed, now))
      BY <1>4, <2>1, Zenon DEF was, Update, P!Update, P!UpdateTwice, call
    <2>3. /\ first.m \in P!Machines
          /\ first.err = "none" => \A p \in dropped : first.m[p] = "absent"
      <3>1. CASE dropped = {}
        BY <3>1 DEF P!Skip
      <3>2. CASE dropped # {}
        <4>1. PackageRuns(m, dropped, "absent", call(1))
          BY <1>1, <1>2, PackageTask
        <4> QED
          BY <3>2, <4>1 DEF PackageRuns, Met
      <3> QED
        BY <3>1, <3>2
    <2> HIDE DEF first
    <2>4. /\ second.m \in P!Machines
          /\ second.err = "none" =>
               /\ \A p \in names : Met(second.m[p], args.ensure)
               /\ \A p \in dropped : second.m[p] = first.m[p]
      <3>1. CASE names = {}
        BY <2>3, <3>1 DEF P!Skip
      <3>2. CASE names # {}
        <4>1. PackageRuns(first.m, names, args.ensure, call(2))
          BY <1>1, <1>2, <2>3, PackageTask
        <4> QED
          BY <1>1, <3>2, <4>1 DEF PackageRuns
      <3> QED
        BY <3>1, <3>2
    <2> HIDE DEF second
    <2>5. /\ was.m \in {first.m, second.m}
          /\ was.err = "none" =>
               /\ was.m = second.m /\ first.err = "none" /\ second.err = "none"
               /\ was.s.args = args /\ was.s.ensure = args.ensure /\ was.s.triggers.lastChanged \in {now, state.triggers.lastChanged}
      BY <2>2, PackageNames DEF P!Response, P!Quiet, P!updatePackage, P!PackageState, P!updateState, P!UpdateTriggerState
    <2> QED
      BY <2>3, <2>4, <2>5
  <1> QED
    BY <1>3, <1>4

\* package.go: Delete that reaches the machine and returns no error leaves nothing.
LEMMA PackageDeletes ==
  ASSUME NEW state, PackageInput(state.args), NEW m \in P!Machines, NEW trouble, trouble.kind \in Outcomes
  PROVE  DeletesWell("Package", state, m, trouble)
  <1> DEFINE call == P!Outcome(trouble, 1)
             names == P!NamesOf(state.args)
             task == P!Task(m, names, "absent", FALSE, call)
             was == Delete("Package", state, m, trouble)
  <1>1. call.kind \in Outcomes /\ (call.kind = "unreachable" => trouble.kind = "unreachable")
    BY DEF P!Outcome, P!NoTrouble, Outcomes
  <1>2. names \in SUBSET Packages
    BY PackageNames
  <1> HIDE DEF call
  <1>3. PackageRuns(m, names, "absent", call)
    BY <1>1, <1>2, PackageTask
  <1>4. /\ task.m \in P!Machines
        /\ task.err = "none" => \A p \in names : task.m[p] = "absent"
        /\ task.err = "unreachable" => call.kind = "unreachable"
    BY <1>3 DEF PackageRuns, Met
  <1>5. IF state.ensure = "absent" THEN was.m = m
        ELSE was.m = task.m /\ (was.err = "none" => task.err \in {"none", "unreachable"})
    BY PackageNames DEF Delete, P!Delete, P!Deleted, P!Quiet, call
  <1> HIDE DEF task, was
  <1>6. was.m \in Shapes("Package")
    BY <1>4, <1>5 DEF Shapes, Machines
  <1>7. Clears("Package", state, m) => Clears("Package", state, was.m)
    BY <1>5 DEF Clears
  <1>8. Clears("Package", state, m) /\ was.err = "none" /\ trouble.kind # "unreachable"
          => Gone("Package", state.args, was.m)
    BY <1>1, <1>4, <1>5 DEF Clears, Gone, P!Gone
  <1> QED
    BY <1>6, <1>7, <1>8, Zenon DEF was, DeletesWell

\* apt.go: the names of a list, or the one name.
LEMMA AptNames ==
  ASSUME NEW args, PackageInput(args)
  PROVE  /\ A!D!NamesOf(args) \in SUBSET Packages
         /\ ~A!D!NoNames(args) /\ A!D!TaskNames(args) = A!D!NamesOf(args) /\ A!D!NameFirst(args) = A!D!NamesOf(args)
         /\ A!D!WantEnsure(args) = args.ensure /\ args.ensure # Unset
  <1>1. args.ensure # Unset
    BY UnsetAssumption DEF PackageInput
  <1>2. ~A!D!NoNames(args)
    BY DEF PackageInput, A!D!NoNames
  <1>3. CASE args.name = Unset
    BY <1>1, <1>2, <1>3 DEF PackageInput, A!D!NamesOf, A!D!NameFirst, A!D!TaskNames, A!D!WantEnsure
  <1>4. CASE args.name # Unset
    <2>1. args.names = Unset /\ args.name \in Packages
      BY <1>4 DEF PackageInput
    <2> QED
      BY <1>1, <1>2, <1>4, <2>1 DEF A!D!NamesOf, A!D!NameFirst, A!D!TaskNames, A!D!WantEnsure
  <1> QED
    BY <1>3, <1>4

\* apt.go: what was asked is met when every named package meets it.
LEMMA AptMeets ==
  ASSUME NEW args, PackageInput(args), NEW m \in A!D!Machines, \A p \in A!D!NamesOf(args) : Met(m[p], args.ensure)
  PROVE  A!D!AsAsked(args, m) /\ (args.ensure = "absent" => \A p \in A!D!NamesOf(args) : m[p] = "absent")
  BY AptNames DEF A!D!AsAsked, Met

\* What a module is asked for: one of names, a deb and upkeep.
AptParams(params) ==
  /\ params.upkeep \in {Unset, "upgrade", "clean"}
  /\ params.deb # Unset => params.deb.package \in Packages /\ params.deb.version \in {"outdated", "newest"}

\* A task that does not fail brings every package to its goal; each is there or
\* where it was before.
AptRuns(m, params, call) ==
  LET task == A!Task(m, params, FALSE, call)
      goal == A!Goal(m, params, Packages)
  IN /\ task.m \in A!Machines
     /\ task.err = "none" => task.m = goal
     /\ task.err = "unreachable" => call.kind = "unreachable"
     /\ \A p \in Packages : task.m[p] \in {m[p], goal[p]}
     /\ task.tracked = A!Tracked(m, goal, params)

\* What one task of Apt does, and that it never leaves the machine's values.
LEMMA AptTask ==
  ASSUME NEW m \in A!Machines, NEW params, AptParams(params), NEW call, call.kind \in Outcomes
  PROVE  AptRuns(m, params, call)
  <1> DEFINE goal == A!Goal(m, params, Packages)
             half == A!Goal(m, params, call.done)
             task == A!Task(m, params, FALSE, call)
  <1>1. /\ task.m \in {m, goal, half}
        /\ task.err = "none" => task.m = goal
        /\ task.err = "unreachable" => call.kind = "unreachable"
        /\ task.tracked = A!Tracked(m, goal, params)
    BY DEF A!Task, A!Ran, A!RanInVain, Outcomes
  <1>2. m \in [Packages -> A!D!Versions]
    BY DEF A!Machines, A!D!Machines
  <1>3. \A v \in A!D!Versions : A!D!Goal(v, params.state) \in A!D!Versions
    BY DEF A!D!Versions, A!D!Goal
  <1>4. \A p \in Packages : goal[p] \in A!D!Versions /\ half[p] \in {m[p], goal[p]}
    BY <1>2, <1>3 DEF A!Goal, AptParams, A!D!Versions
  <1>5. goal = [p \in Packages |-> goal[p]] /\ half = [p \in Packages |-> half[p]]
    BY DEF A!Goal
  <1> HIDE DEF goal, half, task
  <1>6. goal \in A!Machines /\ half \in A!Machines
    BY <1>2, <1>4, <1>5 DEF A!Machines, A!D!Machines
  <1>7. /\ task.m \in A!Machines
        /\ \A p \in Packages : task.m[p] \in {m[p], goal[p]}
    BY <1>1, <1>4, <1>6
  <1> QED
    BY <1>1, <1>7, Zenon DEF task, goal, AptRuns

\* apt.go: what the module brings the named packages to.
LEMMA AptNamesGoal ==
  ASSUME NEW m \in A!Machines, NEW params, params.deb = Unset, params.upkeep = Unset
  PROVE  /\ AptParams(params)
         /\ \A p \in Packages \cap params.names : Met(A!Goal(m, params, Packages)[p], params.state)
         /\ \A p \in Packages \ params.names : A!Goal(m, params, Packages)[p] = m[p]
  <1>1. \A v \in A!D!Versions : Met(A!D!Goal(v, params.state), params.state)
    BY DEF A!D!Versions, A!D!Goal, Met
  <1> QED
    BY <1>1, UnsetAssumption DEF AptParams, A!Goal, A!Machines, A!D!Machines

\* What a program asks of Apt is one of three.
LEMMA AptKinds ==
  ASSUME NEW args, AptInput(args)
  PROVE  /\ AptParams(A!argsToTaskParameters(args))
         /\ \/ PackageInput(args) /\ args.deb = Unset /\ args.upkeep = Unset
            \/ args.deb # Unset /\ args.upkeep = Unset /\ A!D!NoNames(args) /\ args.ensure # "absent"
            \/ /\ args.deb = Unset /\ args.upkeep \in {"upgrade", "clean"} /\ A!D!NoNames(args)
               /\ args.ensure # "absent"
  <1>1. args.ensure \in {Unset, "present", "latest"} => args.ensure # "absent"
    BY UnsetAssumption
  <1> QED
    BY <1>1 DEF AptInput, AptParams, A!argsToTaskParameters, A!D!NoNames

\* One task for inputs of any kind.
AptAsks(args, m, call) ==
  LET params == A!argsToTaskParameters(args)
      task == A!Task(m, params, FALSE, call)
  IN /\ task.m \in A!Machines
     /\ task.err = "none" =>
          /\ A!AsAsked(args, task.m)
          /\ args.deb = Unset /\ args.ensure = "absent" => A!Gone(args, task.m)
          /\ args.deb # Unset =>
               /\ task.tracked # Unset
               /\ task.m = m \/ args.deb.package \in task.tracked

\* apt.go: what one call of runApt does, for inputs of any kind.
LEMMA AptOnce ==
  ASSUME NEW args, AptInput(args), NEW m \in A!Machines, NEW call, call.kind \in Outcomes
  PROVE  AptAsks(args, m, call)
  <1> DEFINE params == A!argsToTaskParameters(args)
             task == A!Task(m, params, FALSE, call)
             goal == A!Goal(m, params, Packages)
  <1>1. AptRuns(m, params, call)
    BY AptTask, AptKinds
  <1>2. /\ task.m \in A!Machines
        /\ task.err = "none" => task.m = goal
        /\ task.tracked = A!Tracked(m, goal, params)
    BY <1>1 DEF AptRuns
  <1> HIDE DEF task
  <1> SUFFICES ASSUME task.err = "none"
               PROVE  /\ A!AsAsked(args, goal)
                      /\ args.deb = Unset /\ args.ensure = "absent" => A!Gone(args, goal)
                      /\ args.deb # Unset =>
                           /\ task.tracked # Unset
                           /\ goal = m \/ args.deb.package \in task.tracked
    BY <1>2, Zenon DEF AptAsks, task
  <1>3. CASE PackageInput(args) /\ args.deb = Unset /\ args.upkeep = Unset
    <2>1. params.names = A!D!NamesOf(args) /\ params.state = args.ensure /\ params.deb = Unset /\ params.upkeep = Unset
      BY <1>3, AptNames DEF A!argsToTaskParameters
    <2>2. A!D!NamesOf(args) \in SUBSET Packages
      BY <1>3, AptNames
    <2> HIDE DEF params
    <2>3. \A p \in A!D!NamesOf(args) : Met(goal[p], args.ensure)
      BY <2>1, <2>2, AptNamesGoal
    <2>4. goal \in A!D!Machines
      BY <1>2 DEF A!Machines
    <2> HIDE DEF goal
    <2>5. A!D!AsAsked(args, goal) /\ (args.ensure = "absent" => \A p \in A!D!NamesOf(args) : goal[p] = "absent")
      BY <1>3, <2>3, <2>4, AptMeets
    <2> QED
      BY <1>3, <2>5, UnsetAssumption DEF A!AsAsked, A!Gone
  <1>4. CASE args.deb # Unset /\ args.upkeep = Unset
    <2>1. /\ params.deb = args.deb /\ params.upkeep # "upgrade"
          /\ args.deb.package \in Packages
      BY <1>4, AptKinds, UnsetAssumption DEF A!argsToTaskParameters, AptParams
    <2>2. goal[args.deb.package] = args.deb.version
      BY <1>4, <2>1 DEF A!Goal
    <2>3. task.tracked = IF goal # m THEN {args.deb.package} ELSE {}
      BY <1>2, <1>4, <2>1 DEF A!Tracked
    <2>4. task.tracked \in SUBSET Packages
      BY <2>1, <2>3
    <2> QED
      BY <1>4, <2>2, <2>3, <2>4, UnsetAssumption DEF A!AsAsked
  <1>5. CASE args.deb = Unset /\ args.upkeep \in {"upgrade", "clean"} /\ args.ensure # "absent"
    <2>1. params.upkeep = args.upkeep
      BY DEF A!argsToTaskParameters
    <2>2. args.upkeep = "upgrade" => \A p \in Packages : goal[p] # "outdated"
      BY <2>1 DEF A!Goal
    <2> QED
      BY <1>5, <2>2 DEF A!AsAsked
  <1> QED
    BY <1>3, <1>4, <1>5, AptKinds

\* apt.go: Create that returns no error has done what was asked, and is stamped.
LEMMA AptCreates ==
  ASSUME NEW args, AptInput(args), NEW m \in A!Machines, NEW trouble, trouble.kind \in Outcomes, NEW now
  PROVE  CreatesWell("Apt", args, m, trouble, now)
  <1> DEFINE call == A!Outcome(trouble, 1)
             task == A!Task(m, A!argsToTaskParameters(args), FALSE, call)
             was == Create("Apt", args, FALSE, m, trouble, now)
  <1>1. call.kind \in Outcomes
    BY DEF A!Outcome, A!NoTrouble, Outcomes
  <1> HIDE DEF call
  <1>2. AptAsks(args, m, call)
    BY <1>1, AptOnce
  <1>3. /\ task.m \in A!Machines
        /\ task.err = "none" =>
             /\ A!AsAsked(args, task.m)
             /\ args.deb = Unset /\ args.ensure = "absent" => A!Gone(args, task.m)
             /\ args.deb # Unset =>
                  /\ task.tracked # Unset
                  /\ task.m = m \/ args.deb.package \in task.tracked
    BY <1>2 DEF AptAsks
  <1> HIDE DEF task
  <1>4. /\ was.m = task.m
        /\ was.err = "none" =>
             /\ task.err = "none" /\ was.s.args = args /\ was.s.triggers.lastChanged = now
             /\ was.s.ensure \in {args.ensure, "present"}
             /\ task.tracked # Unset => was.s.tracked = task.tracked
    BY DEF was, Create, A!Create, A!runApt, A!Response, A!Quiet, A!Track, A!updateApt, A!AptState, A!updateState, A!UpdateTriggerState, call, task
  <1> HIDE DEF was
  <1>5. was.m \in Shapes("Apt")
    BY <1>3, <1>4 DEF Shapes, Machines
  <1>6. was.err = "none" =>
          /\ AsAsked("Apt", args, "create", was.m) /\ AsAsked("Apt", args, "replace", was.m)
          /\ Kept("Apt", args, m, was) /\ was.s.triggers.lastChanged = now
    BY <1>3, <1>4, AptKinds DEF AsAsked, Kept, Clears, Gone, Forgets
  <1> QED
    BY <1>5, <1>6, Zenon DEF was, CreatesWell

\* apt.go: Update of the same packages is one task.
LEMMA AptUpdatesOnce ==
  ASSUME NEW args, AptInput(args), args.ensure = "absent" \/ ~A!canAssumeEnsure(args) \/ args.deb # Unset,
         NEW state, NEW m \in A!Machines, NEW trouble, trouble.kind \in Outcomes, NEW now
  PROVE  UpdatesWell("Apt", args, state, m, trouble, now)
  <1> DEFINE call == A!Outcome(trouble, 1)
             task == A!Task(m, A!argsToTaskParameters(args), FALSE, call)
             was == Update("Apt", args, state, FALSE, m, trouble, now)
  <1>1. call.kind \in Outcomes
    BY DEF A!Outcome, A!NoTrouble, Outcomes
  <1> HIDE DEF call
  <1>2. AptAsks(args, m, call)
    BY <1>1, AptOnce
  <1>3. /\ task.m \in A!Machines
        /\ task.err = "none" =>
             /\ A!AsAsked(args, task.m)
             /\ args.deb = Unset /\ args.ensure = "absent" => A!Gone(args, task.m)
             /\ args.deb # Unset =>
                  /\ task.tracked # Unset
                  /\ task.m = m \/ args.deb.package \in task.tracked
    BY <1>2 DEF AptAsks
  <1> HIDE DEF task
  <1>4. was = A!UpdateOnce(args, state, FALSE, m, trouble, now)
    BY Zenon DEF was, Update, A!Update
  <1>5. /\ was.m = task.m
        /\ was.err = "none" =>
             /\ task.err = "none" /\ was.s.args = args /\ was.s.triggers.lastChanged \in {now, state.triggers.lastChanged}
             /\ was.s.ensure \in {args.ensure, "present"}
             /\ task.tracked # Unset => was.s.tracked = task.tracked
    <2>1. was = IF task.err # "none" THEN A!Response(task, state, FALSE)
                ELSE A!Quiet(task.m, A!updateApt(args, A!Track(state, task), task.changed, now))
      BY <1>4, Zenon DEF A!UpdateOnce, A!runApt, call, task
    <2> HIDE DEF was
    <2>2. /\ task.tracked # Unset => A!Track(state, task).tracked = task.tracked
          /\ A!Track(state, task).triggers = state.triggers
      BY DEF A!Track, A!AptState
    <2> QED
      BY <2>1, <2>2 DEF A!Response, A!Quiet, A!updateApt, A!AptState, A!updateState, A!UpdateTriggerState
  <1> HIDE DEF was
  <1>6. was.m \in Shapes("Apt")
    BY <1>3, <1>5 DEF Shapes, Machines
  <1>7. args.ensure = "absent" \/ A!D!NoNames(args)
    BY DEF A!canAssumeEnsure, AptInput, A!D!NoNames
  <1>8. Shed("Apt", args, state.args, "update", was.m)
    BY <1>7, UnsetAssumption DEF Shed, A!Dropped, A!D!Dropped, A!D!WantEnsure
  <1>9. was.err = "none" =>
          /\ AsAsked("Apt", args, "update", was.m) /\ Shed("Apt", args, state.args, "update", was.m)
          /\ Kept("Apt", args, m, was) /\ was.s.triggers.lastChanged \in {now, state.triggers.lastChanged}
    BY <1>3, <1>5, <1>8, AptKinds DEF AsAsked, Kept, Clears, Gone, Forgets
  <1> QED
    BY <1>6, <1>9, Zenon DEF was, UpdatesWell

\* apt.go: Update from one set of packages to another is two tasks.
LEMMA AptUpdatesTwice ==
  ASSUME NEW args, AptInput(args), ~(args.ensure = "absent" \/ ~A!canAssumeEnsure(args) \/ args.deb # Unset),
         NEW state, AptInput(state.args), NEW m \in A!Machines, NEW trouble, trouble.kind \in Outcomes, NEW now
  PROVE  UpdatesWell("Apt", args, state, m, trouble, now)
  <1> DEFINE names == A!D!NamesOf(args)
             old == A!D!NamesOf(state.args)
             dropped == old \ names
             params == A!argsToTaskParameters(args)
             call(n) == A!Outcome(trouble, n)
             skipped(n) == [m |-> n, err |-> "none", changed |-> FALSE, tracked |-> {}]
             less == [params EXCEPT !.names = dropped, !.state = "absent"]
             more == [params EXCEPT !.names = names, !.state = args.ensure]
             first == IF dropped = {} THEN skipped(m) ELSE A!Task(m, less, FALSE, call(1))
             second == IF names = {} THEN skipped(first.m) ELSE A!Task(first.m, more, FALSE, call(2))
             was == Update("Apt", args, state, FALSE, m, trouble, now)
  <1>1. PackageInput(args) /\ args.deb = Unset /\ args.upkeep = Unset /\ args.ensure # "absent"
    BY UnsetAssumption, AptKinds DEF A!canAssumeEnsure
  <1>2. /\ names \in SUBSET Packages /\ args.ensure # Unset /\ A!D!WantEnsure(args) = args.ensure
        /\ ~A!D!NoNames(args) /\ A!D!NameFirst(args) = names
    BY <1>1, AptNames
  <1>3. call(1).kind \in Outcomes /\ call(2).kind \in Outcomes
    BY DEF A!Outcome, A!NoTrouble, Outcomes
  <1>4. /\ less.names = dropped /\ less.state = "absent" /\ less.deb = Unset /\ less.upkeep = Unset
        /\ more.names = names /\ more.state = args.ensure /\ more.deb = Unset /\ more.upkeep = Unset
    BY <1>1 DEF A!argsToTaskParameters
  <1> HIDE DEF call, less, more, was
  <1> SUFFICES /\ was.m \in A!Machines
               /\ was.err = "none" =>
                    /\ ~A!D!NoNames(state.args)
                    /\ was.s.args = args /\ was.s.ensure = args.ensure /\ was.s.triggers.lastChanged \in {now, state.triggers.lastChanged}
                    /\ \A p \in names : Met(was.m[p], args.ensure)
                    /\ \A p \in dropped : was.m[p] = "absent"
    <2>1. was.m \in Shapes("Apt")
      BY DEF Shapes, Machines
    <2>2. was.err = "none" => A!AsAsked(args, was.m)
      BY <1>1, AptMeets, UnsetAssumption DEF A!AsAsked, A!Machines
    <2>3. was.err = "none" =>
            /\ AsAsked("Apt", args, "update", was.m) /\ Shed("Apt", args, state.args, "update", was.m)
            /\ Kept("Apt", args, m, was) /\ was.s.triggers.lastChanged \in {now, state.triggers.lastChanged}
      BY <1>1, <2>2 DEF AsAsked, Kept, Clears, Shed, A!Dropped, A!D!Dropped
    <2> QED
      BY <2>1, <2>3, Zenon DEF was, UpdatesWell
  <1>5. was = A!UpdateTwice(args, state, FALSE, m, trouble, now)
    BY Zenon DEF was, Update, A!Update
  <1>6. CASE A!D!NoNames(state.args)
    BY <1>5, <1>6 DEF A!UpdateTwice, A!Refused
  <1>7. CASE ~A!D!NoNames(state.args)
    <2>1. PackageInput(state.args) /\ A!D!NameFirst(state.args) = old /\ old \in SUBSET Packages
      BY <1>7, AptKinds, AptNames
    <2>2. A!D!Absents(args, state) = dropped /\ A!D!Presents(args, state) = names /\ A!D!NewState(args, state) = args.ensure
      BY <1>1, <1>2, <2>1 DEF A!D!Absents, A!D!Presents, A!D!NewState, A!D!UpdateNames
    <2>3. \E tracked :
            LET tracking == A!AptState(state, state.ensure, tracked) IN
            was = IF first.err # "none" THEN A!Response(first, state, FALSE)
                  ELSE IF second.err # "none" THEN A!Response(second, state, FALSE)
                  ELSE A!Quiet(second.m, A!updateApt(args, tracking, first.changed \/ second.changed, now))
      BY <1>5, <1>7, <2>2, ZenonT(60) DEF A!UpdateTwice, A!runApt, call, less, more
    <2>4. /\ first.m \in A!Machines
          /\ first.err = "none" => \A p \in dropped : first.m[p] = "absent"
      <3>1. CASE dropped = {}
        BY <3>1
      <3>2. CASE dropped # {}
        <4>1. AptRuns(m, less, call(1))
          BY <1>3, <1>4, AptNamesGoal, AptTask
        <4>2. \A p \in Packages \cap dropped : A!Goal(m, less, Packages)[p] = "absent"
          BY <1>4, AptNamesGoal DEF Met
        <4> QED
          BY <2>1, <3>2, <4>1, <4>2 DEF AptRuns
      <3> QED
        BY <3>1, <3>2
    <2> HIDE DEF first
    <2>5. /\ second.m \in A!Machines
          /\ second.err = "none" =>
               /\ \A p \in names : Met(second.m[p], args.ensure)
               /\ \A p \in dropped : second.m[p] = first.m[p]
      <3>1. CASE names = {}
        BY <2>4, <3>1
      <3>2. CASE names # {}
        <4>1. AptRuns(first.m, more, call(2))
          BY <1>3, <1>4, <2>4, AptNamesGoal, AptTask
        <4>2. /\ \A p \in Packages \cap names : Met(A!Goal(first.m, more, Packages)[p], args.ensure)
              /\ \A p \in Packages \ names : A!Goal(first.m, more, Packages)[p] = first.m[p]
          BY <1>4, <2>4, AptNamesGoal
        <4> QED
          BY <1>2, <2>1, <3>2, <4>1, <4>2 DEF AptRuns
      <3> QED
        BY <3>1, <3>2
    <2> HIDE DEF second
    <2>6. /\ was.m \in {first.m, second.m}
          /\ was.err = "none" =>
               /\ was.m = second.m /\ first.err = "none" /\ second.err = "none"
               /\ was.s.args = args /\ was.s.ensure = args.ensure /\ was.s.triggers.lastChanged \in {now, state.triggers.lastChanged}
      BY <1>2, <2>3 DEF A!Response, A!Quiet, A!updateApt, A!AptState, A!updateState, A!UpdateTriggerState
    <2> QED
      BY <1>7, <2>4, <2>5, <2>6
  <1> QED
    BY <1>6, <1>7

\* apt.go: Update that returns no error has done what was asked, and is stamped.
LEMMA AptUpdates ==
  ASSUME NEW args, AptInput(args), NEW state, AptInput(state.args), NEW m \in A!Machines,
         NEW trouble, trouble.kind \in Outcomes, NEW now
  PROVE  UpdatesWell("Apt", args, state, m, trouble, now)
  BY AptUpdatesOnce, AptUpdatesTwice

\* apt.go: Delete that reaches the machine and returns no error leaves nothing.
LEMMA AptDeletes ==
  ASSUME NEW state, AptInput(state.args), NEW m \in A!Machines, NEW trouble, trouble.kind \in Outcomes
  PROVE  DeletesWell("Apt", state, m, trouble)
  <1> DEFINE call == A!Outcome(trouble, 1)
             params == [A!argsToTaskParameters(state.args) EXCEPT !.state = "absent"]
             undo == IF params.deb = Unset THEN params
                     ELSE [params EXCEPT !.deb = Unset, !.names = state.tracked]
             task == A!Task(m, undo, FALSE, call)
             goal == A!Goal(m, undo, Packages)
             was == Delete("Apt", state, m, trouble)
             idle == ~A!canAssumeEnsure(state.args) \/ state.ensure = "absent"
  <1>1. call.kind \in Outcomes /\ (call.kind = "unreachable" => trouble.kind = "unreachable")
    BY DEF A!Outcome, A!NoTrouble, Outcomes
  <1>2. IF idle THEN was.m = m
        ELSE was.m = task.m /\ (was.err = "none" => task.err \in {"none", "unreachable"})
    BY DEF Delete, A!Delete, A!Deleted, A!Quiet, A!runApt, call
  <1> HIDE DEF call, was
  <1>3. CASE idle
    <2>1. ~A!canAssumeEnsure(state.args) => state.args.deb = Unset /\ A!D!NamesOf(state.args) = {}
      BY DEF A!canAssumeEnsure, A!D!NamesOf
    <2>2. Clears("Apt", state, m) => Gone("Apt", state.args, m)
      BY <1>3, <2>1 DEF Clears, Gone, A!Gone
    <2> QED
      BY <1>2, <1>3, <2>2, Zenon DEF was, DeletesWell, Shapes, Machines
  <1>4. CASE ~idle
    <2>0. \/ PackageInput(state.args) /\ state.args.deb = Unset /\ state.args.upkeep = Unset
          \/ state.args.deb # Unset /\ state.args.upkeep = Unset
      BY <1>4, AptKinds, UnsetAssumption DEF A!canAssumeEnsure
    <2>1. /\ undo.deb = Unset /\ undo.upkeep = Unset /\ undo.state = "absent"
          /\ undo.names = IF state.args.deb = Unset THEN A!D!NamesOf(state.args) ELSE state.tracked
      BY <1>4, <2>0, AptNames DEF A!argsToTaskParameters
    <2> HIDE DEF undo
    <2>2. AptRuns(m, undo, call)
      BY <1>1, <2>1, AptNamesGoal, AptTask
    <2>3. /\ task.m \in A!Machines
          /\ task.err = "none" => task.m = goal
          /\ task.err = "unreachable" => call.kind = "unreachable"
          /\ \A p \in Packages : task.m[p] \in {m[p], goal[p]}
      BY <2>2 DEF AptRuns
    <2>4. /\ \A p \in Packages \cap undo.names : goal[p] = "absent"
          /\ \A p \in Packages : m[p] = "absent" => goal[p] = "absent"
      BY <2>1, AptNamesGoal DEF Met
    <2> HIDE DEF task, goal
    <2>5. CASE state.args.deb = Unset
      <3>1. A!D!NamesOf(state.args) \in SUBSET Packages
        BY <2>0, <2>5, AptNames
      <3>2. Clears("Apt", state, m) => Clears("Apt", state, was.m)
        BY <1>4, <2>5 DEF Clears
      <3>3. was.err = "none" /\ trouble.kind # "unreachable" => Gone("Apt", state.args, was.m)
        BY <1>1, <1>2, <1>4, <2>1, <2>3, <2>4, <2>5, <3>1 DEF Gone, A!Gone
      <3> QED
        BY <1>2, <1>4, <2>3, <3>2, <3>3, Zenon DEF was, DeletesWell, Shapes, Machines
    <2>6. CASE state.args.deb # Unset
      <3>1. state.args.deb.package \in Packages
        BY <2>6 DEF AptInput
      <3>2. Clears("Apt", state, m) => Clears("Apt", state, was.m)
        BY <1>2, <1>4, <2>3, <2>4, <2>6, <3>1 DEF Clears, Gone, A!Gone
      <3>3. Clears("Apt", state, m) /\ was.err = "none" /\ trouble.kind # "unreachable" => Gone("Apt", state.args, was.m)
        BY <1>1, <1>2, <1>4, <2>1, <2>3, <2>4, <2>6, <3>1 DEF Clears, Gone, A!Gone
      <3> QED
        BY <1>2, <1>4, <2>3, <3>2, <3>3, Zenon DEF was, DeletesWell, Shapes, Machines
    <2> QED
      BY <2>5, <2>6
  <1> QED
    BY <1>3, <1>4

-----------------------------------------------------------------------------
(* Reading back. *)

\* service.go: a machine on which a check would change nothing is as asked.
LEMMA ServiceRight ==
  ASSUME NEW args, ServiceInput(args), NEW m \in S!Machines
  PROVE  S!AsAsked(args, m) <=> S!Goal(m, args) = m
  <1>1. m = [running |-> m.running, enabled |-> m.enabled] /\ m.running \in BOOLEAN
    BY DEF S!Machines
  <1>2. S!Goal(m, args) = m <=>
          /\ S!Enabled(m, args) = m.enabled
          /\ args.state # Unset => ((args.state # "stopped") = m.running)
    BY <1>1 DEF S!Goal
  <1> QED
    BY <1>1, <1>2 DEF S!AsAsked, S!Enabled

\* group.go: a machine on which a check would change nothing is as asked.
LEMMA GroupRight ==
  ASSUME NEW args, GroupInput(args), NEW m \in G!Machines
  PROVE  G!AsAsked(args, m) <=> G!Goal(m, args) = m
  <1>1. args.name \in Groups /\ m \in [Groups -> Gids \cup {0}]
    BY DEF GroupInput, G!Machines
  <1>2. \A gid : [m EXCEPT ![args.name] = gid] = m <=> gid = m[args.name]
    BY <1>1
  <1>3. CASE args.ensure = "absent"
    BY <1>2, <1>3 DEF G!AsAsked, G!Goal
  <1>4. CASE args.ensure # "absent" /\ args.gid # Unset
    BY <1>2, <1>4, IdsAssumption DEF G!AsAsked, G!Goal, GroupInput
  <1>5. CASE args.ensure # "absent" /\ args.gid = Unset /\ m[args.name] # 0
    BY <1>2, <1>5 DEF G!AsAsked, G!Goal
  <1>6. CASE args.ensure # "absent" /\ args.gid = Unset /\ m[args.name] = 0
    <2> DEFINE free == CHOOSE gid \in Gids : \A g \in Groups : m[g] # gid
    <2>1. free \in Gids
      BY <1>1, <1>6, IdsAssumption
    <2>2. G!Goal(m, args) = [m EXCEPT ![args.name] = free]
      BY <1>6 DEF G!Goal
    <2> HIDE DEF free
    <2> QED
      BY <1>2, <1>6, <2>1, <2>2, IdsAssumption DEF G!AsAsked
  <1> QED
    BY <1>3, <1>4, <1>5, <1>6

\* user.go: a machine on which a check would change nothing is as asked.
LEMMA UserRight ==
  ASSUME NEW args, UserInput(args), NEW m \in U!Machines
  PROVE  U!AsAsked(args, m) <=> U!Goal(m, args) = m
  <1> DEFINE is == m.accounts[args.name]
             will == U!Account(m, args)
             goal == U!Goal(m, args)
  <1>1. /\ args.name \in Users /\ m.accounts \in [Users -> U!Accounts]
        /\ m = [accounts |-> m.accounts, homes |-> m.homes]
    BY DEF UserInput, U!Machines
  <1>2. goal.accounts = [m.accounts EXCEPT ![args.name] = will]
    BY DEF U!Goal
  <1>3. is \in U!Accounts
    BY <1>1
  <1>4. U!AsAsked(args, goal)
    <2> DEFINE task == U!Task(m, args, FALSE, U!NoTrouble)
    <2>1. U!NoTrouble.kind = "ok"
      BY DEF U!NoTrouble
    <2>2. UserRuns(m, args, U!NoTrouble)
      BY <2>1, UserTask DEF Outcomes
    <2>3. task.m = goal /\ task.err = "none"
      BY <2>1 DEF U!Task, U!Ran
    <2> HIDE DEF goal, task
    <2>4. task.err = "none" => U!AsAsked(args, task.m)
      BY <2>2 DEF task, UserRuns
    <2> QED
      BY <2>3, <2>4
  <1>5. ASSUME U!AsAsked(args, m)
        PROVE  will = is /\ (is # U!NoAccount /\ args.manageHome # FALSE => is.home \in m.homes)
    <2>1. CASE args.ensure = "absent"
      BY <1>5, <2>1 DEF U!AsAsked, U!Account
    <2>2. CASE args.ensure # "absent"
      <3>1. /\ is # U!NoAccount
            /\ args.groups # Unset => args.groups \subseteq is.groups
            /\ args.groupsExclusive = TRUE /\ args.groups # Unset => is.groups = args.groups
            /\ args.home \in {Unset, is.home}
            /\ args.manageHome # FALSE => is.home \in m.homes
        BY <1>5, <2>2 DEF U!AsAsked
      <3>2. is = [groups |-> is.groups, home |-> is.home]
        BY <1>3, <3>1 DEF U!Accounts
      <3> DEFINE also == IF args.groupsExclusive = TRUE THEN {} ELSE is.groups
                 gs == IF args.groups = Unset THEN is.groups ELSE args.groups \cup also
                 h == IF args.home # Unset THEN args.home
                      ELSE IF is = U!NoAccount THEN DefaultHome ELSE is.home
      <3>3. will = [groups |-> gs, home |-> h]
        BY <2>2 DEF U!Account
      <3>4. gs = is.groups
        BY <3>1
      <3>5. h = is.home
        BY <3>1
      <3> HIDE DEF gs, h, will, is
      <3> QED
        BY <3>1, <3>2, <3>3, <3>4, <3>5
    <2> QED
      BY <2>1, <2>2
  <1>6. ASSUME U!AsAsked(args, m)
        PROVE  goal = m
    <2> DEFINE moved == IF args.manageHome = TRUE /\ is # U!NoAccount /\ is.home # will.home
                        THEN {is.home} ELSE {}
               made == IF will # U!NoAccount /\ args.manageHome # FALSE THEN {will.home} ELSE {}
    <2>1. goal = [accounts |-> [m.accounts EXCEPT ![args.name] = will], homes |-> (m.homes \ moved) \cup made]
      BY DEF U!Goal
    <2>2. will = is /\ (is # U!NoAccount /\ args.manageHome # FALSE => is.home \in m.homes)
      BY <1>5, <1>6
    <2>3. moved = {} /\ made \subseteq m.homes
      <3> HIDE DEF will, is
      <3> QED
        BY <2>2
    <2>4. [m.accounts EXCEPT ![args.name] = will] = m.accounts
      BY <1>1, <2>2
    <2> HIDE DEF goal, will, is, moved, made
    <2> QED
      BY <1>1, <2>1, <2>3, <2>4
  <1> QED
    <2>1. goal = m => U!AsAsked(args, m)
      <3> HIDE DEF goal
      <3> QED
        BY <1>4
    <2> QED
      BY <1>6, <2>1

\* service.go: Read that reaches the machine sees what is not as asked, and stamps it.
LEMMA ServiceReads ==
  ASSUME NEW state, ServiceInput(state.args), NEW m \in S!Machines, NEW trouble, trouble.kind \in Outcomes, NEW now
  PROVE  ReadsWell("Service", state, m, trouble, now)
  <1> DEFINE args == state.args
             call == S!Outcome(trouble, 1)
             task == S!Task(m, args, TRUE, call)
             goal == S!Goal(m, args)
             found == Read("Service", args, state, m, trouble, now)
  <1>1. call.kind \in Outcomes /\ (trouble = NoTrouble => call.kind = "ok")
    BY DEF S!Outcome, S!NoTrouble, NoTrouble, Outcomes
  <1>2. /\ call.kind = "ok" => task.err = "none"
        /\ task.changed <=> goal # m \/ S!Bounces(args)
    BY <1>1 DEF S!Task, S!Ran, Outcomes
  <1>3. S!AsAsked(args, m) <=> goal = m
    BY ServiceRight
  <1> HIDE DEF call, task, goal
  <1>4. found.err = "none" =>
          \/ found.s = state /\ task.err # "none"
          \/ /\ found.s.args = args
             /\ found.s.triggers.lastChanged = IF task.changed THEN now ELSE state.triggers.lastChanged
    <2>1. found = S!ReadBack(args, state, task, now)
      BY DEF Read, S!Read, call, task
    <2> HIDE DEF found
    <2> QED
      BY <2>1 DEF S!ReadBack, S!Response, S!Quiet, S!updateState, S!UpdateTriggerState
  <1> HIDE DEF found
  <1>5. ASSUME found.err = "none"
        PROVE  /\ found.s.triggers.lastChanged \in {now, state.triggers.lastChanged}
               /\ found.s.args = state.args
               /\ trouble = NoTrouble =>
                    /\ S!AsAsked(args, m) \/ found.s.triggers.lastChanged = now
                    /\ S!AsAsked(args, m) /\ ~Bounces("Service", args)
                         => found.s.triggers.lastChanged = state.triggers.lastChanged
    BY <1>1, <1>2, <1>3, <1>4, <1>5 DEF Bounces, S!Bounces
  <1>6. /\ Clears("Service", state, m) /\ found.s.args = state.args => Clears("Service", found.s, m)
        /\ ~Tells("Service", args)
        /\ AsAsked("Service", args, "refresh", m) <=> S!AsAsked(args, m)
    BY DEF Clears, Tells, AsAsked
  <1> QED
    BY <1>5, <1>6, Zenon DEF found, ReadsWell

\* group.go: Read that reaches the machine sees what is not as asked, and stamps it.
LEMMA GroupReads ==
  ASSUME NEW state, GroupInput(state.args), NEW m \in G!Machines, NEW trouble, trouble.kind \in Outcomes, NEW now
  PROVE  ReadsWell("Group", state, m, trouble, now)
  <1> DEFINE args == state.args
             call == G!Outcome(trouble, 1)
             task == G!Task(m, args, TRUE, call)
             goal == G!Goal(m, args)
             found == Read("Group", args, state, m, trouble, now)
  <1>1. call.kind \in Outcomes /\ (trouble = NoTrouble => call.kind = "ok")
    BY DEF G!Outcome, G!NoTrouble, NoTrouble, Outcomes
  <1>2. /\ call.kind = "ok" => task.err = "none"
        /\ task.changed <=> goal # m
    BY <1>1 DEF G!Task, G!Ran, Outcomes
  <1>3. G!AsAsked(args, m) <=> goal = m
    BY GroupRight
  <1> HIDE DEF call, task, goal
  <1>4. found.err = "none" =>
          \/ found.s = state /\ task.err # "none"
          \/ /\ found.s.args = args
             /\ found.s.triggers.lastChanged = IF task.changed THEN now ELSE state.triggers.lastChanged
    <2>1. found = G!ReadBack(args, state, task, now)
      BY DEF Read, G!Read, call, task
    <2> HIDE DEF found
    <2> QED
      BY <2>1 DEF G!ReadBack, G!Response, G!Quiet, G!updateState, G!UpdateTriggerState
  <1> HIDE DEF found
  <1>5. ASSUME found.err = "none"
        PROVE  /\ found.s.triggers.lastChanged \in {now, state.triggers.lastChanged}
               /\ found.s.args = state.args
               /\ trouble = NoTrouble =>
                    /\ G!AsAsked(args, m) \/ found.s.triggers.lastChanged = now
                    /\ G!AsAsked(args, m) /\ ~Bounces("Group", args)
                         => found.s.triggers.lastChanged = state.triggers.lastChanged
    BY <1>1, <1>2, <1>3, <1>4, <1>5 DEF Bounces, S!Bounces
  <1>6. /\ Clears("Group", state, m) /\ found.s.args = state.args => Clears("Group", found.s, m)
        /\ ~Tells("Group", args)
        /\ AsAsked("Group", args, "refresh", m) <=> G!AsAsked(args, m)
    BY DEF Clears, Tells, AsAsked
  <1> QED
    BY <1>5, <1>6, Zenon DEF found, ReadsWell

\* user.go: Read that reaches the machine sees what is not as asked, and stamps it.
LEMMA UserReads ==
  ASSUME NEW state, UserInput(state.args), NEW m \in U!Machines, NEW trouble, trouble.kind \in Outcomes, NEW now
  PROVE  ReadsWell("User", state, m, trouble, now)
  <1> DEFINE args == state.args
             call == U!Outcome(trouble, 1)
             task == U!Task(m, args, TRUE, call)
             goal == U!Goal(m, args)
             found == Read("User", args, state, m, trouble, now)
  <1>1. call.kind \in Outcomes /\ (trouble = NoTrouble => call.kind = "ok")
    BY DEF U!Outcome, U!NoTrouble, NoTrouble, Outcomes
  <1>2. /\ call.kind = "ok" => task.err = "none"
        /\ task.changed <=> goal # m
    BY <1>1 DEF U!Task, U!Ran, Outcomes
  <1>3. U!AsAsked(args, m) <=> goal = m
    BY UserRight
  <1> HIDE DEF call, task, goal
  <1>4. found.err = "none" =>
          \/ found.s = state /\ task.err # "none"
          \/ /\ found.s.args = args
             /\ found.s.triggers.lastChanged = IF task.changed THEN now ELSE state.triggers.lastChanged
    <2>1. found = U!ReadBack(args, state, task, now)
      BY DEF Read, U!Read, call, task
    <2> HIDE DEF found
    <2> QED
      BY <2>1 DEF U!ReadBack, U!Response, U!Quiet, U!updateState, U!UpdateTriggerState
  <1> HIDE DEF found
  <1>5. ASSUME found.err = "none"
        PROVE  /\ found.s.triggers.lastChanged \in {now, state.triggers.lastChanged}
               /\ found.s.args = state.args
               /\ trouble = NoTrouble =>
                    /\ U!AsAsked(args, m) \/ found.s.triggers.lastChanged = now
                    /\ U!AsAsked(args, m) /\ ~Bounces("User", args)
                         => found.s.triggers.lastChanged = state.triggers.lastChanged
    BY <1>1, <1>2, <1>3, <1>4, <1>5 DEF Bounces, S!Bounces
  <1>6. /\ Clears("User", state, m) /\ found.s.args = state.args => Clears("User", found.s, m)
        /\ ~Tells("User", args)
        /\ AsAsked("User", args, "refresh", m) <=> U!AsAsked(args, m)
    BY DEF Clears, Tells, AsAsked
  <1> QED
    BY <1>5, <1>6, Zenon DEF found, ReadsWell

\* exec.go: Read that reaches the machine sees what is not as asked, and stamps it.
LEMMA ExecReads ==
  ASSUME NEW state, NEW m, NEW trouble, NEW now
  PROVE  ReadsWell("Exec", state, m, trouble, now)
  <1> DEFINE found == Read("Exec", state.args, state, m, trouble, now)
  <1>1. found.s = state
    BY DEF Read, Quiet
  <1>2. Clears("Exec", state, m) => Clears("Exec", found.s, m)
    BY <1>1
  <1>3. ~Tells("Exec", state.args)
    BY DEF Tells
  <1> HIDE DEF found
  <1> QED
    BY <1>1, <1>2, <1>3, Zenon DEF found, ReadsWell

\* package.go: a machine on which a check would change nothing is as asked.
LEMMA PackageRight ==
  ASSUME NEW args, PackageInput(args), NEW m \in P!Machines
  PROVE  P!AsAsked(args, m) <=> P!Converge(m, P!NamesOf(args), args.ensure) = m
  <1> DEFINE names == P!NamesOf(args)
             goal == P!Converge(m, names, args.ensure)
  <1>1. names \in SUBSET Packages /\ P!WantEnsure(args) = args.ensure
    BY PackageNames
  <1>2. goal = m <=> \A p \in names : P!Goal(m[p], args.ensure) = m[p]
    BY <1>1 DEF P!Converge, P!Machines
  <1>3. \A v \in P!Versions : P!Goal(v, args.ensure) = v <=> Met(v, args.ensure)
    BY DEF P!Versions, P!Goal, Met
  <1>4. \A p \in names : m[p] \in P!Versions
    BY <1>1 DEF P!Machines
  <1>5. goal = m <=> \A p \in names : Met(m[p], args.ensure)
    BY <1>2, <1>3, <1>4
  <1> HIDE DEF goal
  <1>6. P!AsAsked(args, m) <=> \A p \in names : Met(m[p], args.ensure)
    BY <1>1 DEF P!AsAsked, Met
  <1> QED
    BY <1>5, <1>6 DEF goal

\* package.go: Read that reaches the machine sees what is not as asked, and stamps it.
LEMMA PackageReads ==
  ASSUME NEW state, PackageInput(state.args), NEW m \in P!Machines, NEW trouble, trouble.kind \in Outcomes, NEW now
  PROVE  ReadsWell("Package", state, m, trouble, now)
  <1> DEFINE args == state.args
             call == P!Outcome(trouble, 1)
             names == P!NamesOf(args)
             task == P!Task(m, names, args.ensure, TRUE, call)
             goal == P!Converge(m, names, args.ensure)
             found == Read("Package", args, state, m, trouble, now)
             sees == Diff("Package", args, found.s).changes
  <1>1. call.kind \in Outcomes /\ (trouble = NoTrouble => call.kind = "ok")
    BY DEF P!Outcome, P!NoTrouble, NoTrouble, Outcomes
  <1>2. /\ call.kind = "ok" => task.err = "none"
        /\ task.changed <=> goal # m
    BY DEF P!Task, P!Ran
  <1>3. P!AsAsked(args, m) <=> goal = m
    BY PackageRight
  <1> HIDE DEF call, task, goal
  <1> DEFINE asked == P!updatePackage(args, state, task.changed, now)
             seen == IF ~task.changed THEN asked
                     ELSE IF asked.ensure = "absent" THEN [asked EXCEPT !.ensure = "present"]
                     ELSE IF asked.ensure = "present" THEN [asked EXCEPT !.ensure = "absent"]
                     ELSE asked
  <1>4. found.err = "none" => \/ found.s = state /\ task.err # "none"
                              \/ found.s = seen
    <2> DEFINE ran == P!Task(m, P!TaskNames(args), P!WantEnsure(args), TRUE, P!Outcome(trouble, 1))
               noted == P!updatePackage(args, state, ran.changed, now)
               told == IF ~ran.changed THEN noted
                       ELSE IF noted.ensure = "absent" THEN [noted EXCEPT !.ensure = "present"]
                       ELSE IF noted.ensure = "present" THEN [noted EXCEPT !.ensure = "absent"]
                       ELSE noted
    <2>0. found = P!Read(args, state, m, trouble, now)
      BY DEF Read
    <2> HIDE DEF found
    <2>1. found = IF P!NoNames(args) THEN P!Refused(m, state)
                  ELSE IF ran.err # "none" THEN P!Response(ran, state, TRUE) ELSE P!Quiet(m, told)
      BY <2>0, Zenon DEF P!Read
    <2>2. ran = task /\ ~P!NoNames(args)
      BY PackageNames DEF task, call
    <2>3. told = seen
      BY <2>2
    <2> HIDE DEF ran, told
    <2> HIDE DEF seen
    <2> QED
      BY <2>1, <2>2, <2>3 DEF P!Response, P!Quiet
  <1>5. /\ asked = [ args |-> args, ensure |-> args.ensure,
                     triggers |-> P!UpdateTriggerState(state.triggers, args.triggers, task.changed, now) ]
    BY PackageNames DEF P!updatePackage, P!PackageState, P!updateState
  <1> HIDE DEF asked
  <1>6. /\ seen.args = args
        /\ seen.triggers = P!UpdateTriggerState(state.triggers, args.triggers, task.changed, now)
        /\ seen.ensure = IF ~task.changed THEN args.ensure
                         ELSE IF args.ensure = "absent" THEN "present"
                         ELSE IF args.ensure = "present" THEN "absent" ELSE args.ensure
    BY <1>5
  <1> HIDE DEF seen
  <1>7. ASSUME found.err = "none", found.s = seen
        PROVE  sees <=> args.ensure # seen.ensure
    <2>1. sees = P!Diff(args, seen).changes
      BY <1>7 DEF Diff
    <2>2. ~P!Differs(args, seen.args, {"ensure"})
      BY <1>6 DEF P!Differs
    <2>3. args.triggers # Unset =>
            seen.triggers.refresh = args.triggers.refresh /\ seen.triggers.replace = args.triggers.replace
      BY <1>6 DEF P!UpdateTriggerState
    <2>4. P!WantEnsure(args) = args.ensure
      BY PackageNames
    <2> HIDE DEF sees
    <2> QED
      BY <1>6, <2>1, <2>2, <2>3, <2>4 DEF P!Diff, P!Merged, P!DiffTriggers
  <1>8. ~P!Misreads(args, m) => Clears("Package", seen, m)
    <2>1. seen.ensure = "absent" /\ ~P!Misreads(args, m) => \A p \in names : m[p] = "absent"
      <3>1. CASE ~task.changed
        BY <1>2, <1>3, <1>6, <3>1, PackageNames DEF P!AsAsked
      <3>2. CASE task.changed /\ seen.ensure = "absent"
        <4>1. args.ensure = "present" /\ ~P!AsAsked(args, m)
          BY <1>2, <1>3, <1>6, <3>2
        <4> QED
          BY <4>1, PackageNames DEF P!Misreads, P!Gone
      <3> QED
        BY <3>1, <3>2
    <2> QED
      BY <1>6, <2>1 DEF Clears, P!Gone
  <1> HIDE DEF found, sees
  <1>9. ASSUME found.err = "none"
        PROVE  /\ found.s.triggers.lastChanged \in {now, state.triggers.lastChanged}
               /\ found.s = state \/ P!Misreads(args, m) \/ Clears("Package", found.s, m)
               /\ trouble = NoTrouble =>
                    /\ P!Misreads(args, m) \/ Clears("Package", found.s, m)
                    /\ args.ensure # "latest" => (sees <=> ~P!AsAsked(args, m))
                    /\ P!AsAsked(args, m) \/ found.s.triggers.lastChanged = now
                    /\ P!AsAsked(args, m) => found.s.triggers.lastChanged = state.triggers.lastChanged
    <2>1. CASE found.s = state /\ task.err # "none"
      BY <1>1, <1>2, <2>1
    <2>2. CASE found.s = seen
      <3>1. seen.triggers.lastChanged = IF task.changed THEN now ELSE state.triggers.lastChanged
        BY <1>6 DEF P!UpdateTriggerState
      <3>2. args.ensure # "latest" => (sees <=> task.changed)
        BY <1>6, <1>7, <1>9, <2>2 DEF PackageInput
      <3> QED
        BY <1>2, <1>3, <1>8, <2>2, <3>1, <3>2
    <2> QED
      BY <1>4, <1>9, <2>1, <2>2
  <1>10. /\ Tells("Package", args) <=> args.ensure # "latest"
         /\ AsAsked("Package", args, "refresh", m) <=> P!AsAsked(args, m)
         /\ ~Bounces("Package", args)
         /\ Misreads("Package", args, m) <=> P!Misreads(args, m)
    BY DEF Tells, AsAsked, Bounces, Misreads, Forgets
  <1> QED
    BY <1>9, <1>10, Zenon DEF found, sees, ReadsWell

\* apt.go: a machine on which a check would change nothing is as asked.
LEMMA AptRight ==
  ASSUME NEW args, AptInput(args), NEW m \in A!Machines
  PROVE  A!AsAsked(args, m) <=> A!Goal(m, A!argsToTaskParameters(args), Packages) = m
  <1> DEFINE params == A!argsToTaskParameters(args)
             goal == A!Goal(m, params, Packages)
  <1>1. m \in [Packages -> A!D!Versions]
    BY DEF A!Machines, A!D!Machines
  <1>2. params.deb = args.deb /\ params.upkeep = args.upkeep
    BY DEF A!argsToTaskParameters
  <1>3. CASE PackageInput(args) /\ args.deb = Unset /\ args.upkeep = Unset
    <2> DEFINE names == A!D!NamesOf(args)
    <2>1. names \in SUBSET Packages /\ A!D!WantEnsure(args) = args.ensure
      BY <1>3, AptNames
    <2>2. params.names = names /\ params.state = args.ensure
      BY <1>3, AptNames DEF A!argsToTaskParameters
    <2> HIDE DEF params, names
    <2>3. goal = m <=> \A p \in names : A!D!Goal(m[p], args.ensure) = m[p]
      BY <1>1, <1>2, <1>3, <2>1, <2>2, UnsetAssumption DEF A!Goal
    <2>4. \A v \in A!D!Versions : A!D!Goal(v, args.ensure) = v <=> Met(v, args.ensure)
      BY DEF A!D!Versions, A!D!Goal, Met
    <2>5. goal = m <=> \A p \in names : Met(m[p], args.ensure)
      BY <1>1, <2>1, <2>3, <2>4
    <2> HIDE DEF goal
    <2>6. A!D!AsAsked(args, m) <=> \A p \in names : Met(m[p], args.ensure)
      BY <2>1 DEF names, A!D!AsAsked, Met
    <2>7. A!AsAsked(args, m) <=> A!D!AsAsked(args, m)
      BY <1>3, UnsetAssumption DEF A!AsAsked
    <2> QED
      BY <2>5, <2>6, <2>7 DEF goal, params
  <1>4. CASE args.deb # Unset /\ args.upkeep = Unset
    <2>1. args.deb.package \in Packages /\ args.upkeep # "upgrade"
      BY <1>4, <1>2, AptKinds, UnsetAssumption DEF AptParams
    <2>2. goal = [m EXCEPT ![args.deb.package] = args.deb.version]
      BY <1>1, <1>2, <1>4, <2>1 DEF A!Goal
    <2> HIDE DEF goal
    <2>3. goal = m <=> m[args.deb.package] = args.deb.version
      BY <1>1, <2>1, <2>2
    <2> QED
      BY <1>4, <2>3 DEF goal, A!AsAsked
  <1>5. CASE args.deb = Unset /\ args.upkeep \in {"upgrade", "clean"} /\ A!D!NoNames(args)
    <2>1. params.names = {}
      BY <1>5 DEF A!argsToTaskParameters
    <2> HIDE DEF params
    <2>2. args.upkeep = "upgrade" => (goal = m <=> \A p \in Packages : m[p] # "outdated")
      BY <1>1, <1>2 DEF A!Goal
    <2>3. args.upkeep = "clean" => goal = m
      BY <1>1, <1>2, <1>5, <2>1 DEF A!Goal
    <2> HIDE DEF goal
    <2> QED
      BY <1>5, <2>2, <2>3 DEF goal, params, A!AsAsked
  <1> QED
    BY <1>3, <1>4, <1>5, AptKinds

\* apt.go: Read that reaches the machine sees what is not as asked, and stamps it.
LEMMA AptReads ==
  ASSUME NEW state, AptInput(state.args), NEW m \in A!Machines, NEW trouble, trouble.kind \in Outcomes, NEW now
  PROVE  ReadsWell("Apt", state, m, trouble, now)
  <1> DEFINE args == state.args
             call == A!Outcome(trouble, 1)
             params == A!argsToTaskParameters(args)
             task == A!runApt(m, params, TRUE, call)
             goal == A!Goal(m, params, Packages)
             found == Read("Apt", args, state, m, trouble, now)
             sees == Diff("Apt", args, found.s).changes
  <1>1. call.kind \in Outcomes /\ (trouble = NoTrouble => call.kind = "ok")
    BY DEF A!Outcome, A!NoTrouble, NoTrouble, Outcomes
  <1>2. /\ call.kind = "unreachable" => task.changed
        /\ call.kind = "failed" => task.err # "none"
        /\ call.kind = "ok" /\ task.err = "none" =>
             (task.changed <=> goal # m \/ args.upkeep = "clean")
        /\ task.err # "unreachable"
    BY <1>1 DEF A!runApt, A!Task, A!Ran, A!RanInVain, A!argsToTaskParameters, Outcomes
  <1>3. A!AsAsked(args, m) <=> goal = m
    BY AptRight
  <1> HIDE DEF call, task, goal, params
  <1> DEFINE asked == A!updateApt(args, A!Track(state, task), task.changed, now)
             seen == IF task.changed /\ asked.ensure = "absent"
                     THEN [asked EXCEPT !.ensure = "present"] ELSE asked
  <1>4. found = IF task.err # "none" THEN A!Response(task, state, TRUE) ELSE A!Quiet(task.m, seen)
    <2>1. found = A!Read(args, state, m, trouble, now)
      BY DEF Read
    <2> HIDE DEF found
    <2> QED
      BY <2>1, Zenon DEF A!Read, call, task, params
  <1> HIDE DEF found
  <1>5. found.err = "none" => task.err = "none" /\ found.s = seen
    <2> HIDE DEF seen
    <2> QED
      BY <1>2, <1>4 DEF A!Response, A!Quiet
  <1>6. /\ asked.args = args
        /\ asked.triggers = A!UpdateTriggerState(state.triggers, args.triggers, task.changed, now)
        /\ asked.ensure \in {args.ensure, "present"}
        /\ args.ensure = "absent" => asked.ensure = "absent"
        /\ "ensure" \in DOMAIN asked
    BY UnsetAssumption DEF A!updateApt, A!AptState, A!updateState, A!Track
  <1> HIDE DEF asked
  <1>7. /\ seen.args = args
        /\ seen.triggers = A!UpdateTriggerState(state.triggers, args.triggers, task.changed, now)
        /\ seen.ensure = "absent" => args.ensure = "absent" /\ ~task.changed
        /\ args.ensure = "absent" /\ task.changed => seen.ensure = "present"
    BY <1>6
  <1> HIDE DEF seen
  <1>8. ASSUME found.err = "none", args.deb = Unset
        PROVE  Clears("Apt", found.s, m)
    <2>1. ASSUME seen.ensure = "absent"
          PROVE  A!Gone(args, m)
      <3>1. args.ensure = "absent" /\ ~task.changed
        BY <1>7, <2>1
      <3>2. PackageInput(args) /\ A!D!WantEnsure(args) = "absent"
        BY <1>8, <3>1, AptKinds, AptNames
      <3>3. call.kind = "ok"
        BY <1>1, <1>2, <1>5, <1>8, <3>1 DEF Outcomes
      <3>4. A!AsAsked(args, m)
        BY <1>2, <1>3, <1>5, <1>8, <3>1, <3>3
      <3>5. args.upkeep = Unset
        BY <1>8, <3>1, AptKinds
      <3>6. A!D!AsAsked(args, m)
        BY <1>8, <3>4, <3>5, UnsetAssumption DEF A!AsAsked
      <3> QED
        BY <1>8, <3>2, <3>6 DEF A!Gone, A!D!AsAsked
    <2> QED
      BY <1>5, <1>7, <1>8, <2>1 DEF Clears, Gone
  <1>9. ASSUME found.err = "none", args.ensure = "absent", task.changed
        PROVE  sees
    <2>1. sees = A!Diff(args, seen).changes
      BY <1>5, <1>9 DEF Diff
    <2>2. [seen.args EXCEPT !.ensure = seen.ensure].ensure = "present" /\ "ensure" \in DOMAIN args
      BY <1>7, <1>9 DEF AptInput
    <2>3. A!Differs(args, [seen.args EXCEPT !.ensure = seen.ensure], {})
      BY <1>9, <2>2, UnsetAssumption DEF A!Differs
    <2> HIDE DEF sees
    <2> QED
      BY <2>1, <2>3 DEF A!Diff, A!Merged
  <1> HIDE DEF sees
  <1>10. ASSUME found.err = "none"
         PROVE  /\ found.s.triggers.lastChanged \in {now, state.triggers.lastChanged}
                /\ args.deb = Unset => Clears("Apt", found.s, m)
                /\ trouble = NoTrouble =>
                     /\ args.ensure = "absent" => A!AsAsked(args, m) \/ sees
                     /\ A!AsAsked(args, m) \/ found.s.triggers.lastChanged = now
                     /\ A!AsAsked(args, m) /\ args.upkeep # "clean"
                          => found.s.triggers.lastChanged = state.triggers.lastChanged
    <2>1. found.s.triggers.lastChanged = IF task.changed THEN now ELSE state.triggers.lastChanged
      BY <1>5, <1>7, <1>10 DEF A!UpdateTriggerState
    <2> QED
      BY <1>1, <1>2, <1>3, <1>5, <1>8, <1>9, <1>10, <2>1
  <1>11. /\ Tells("Apt", args) <=> args.ensure = "absent"
         /\ AsAsked("Apt", args, "refresh", m) <=> A!AsAsked(args, m)
         /\ Bounces("Apt", args) <=> args.upkeep = "clean"
         /\ Misreads("Apt", args, m) <=> args.deb # Unset
    BY DEF Tells, AsAsked, Bounces, Misreads, Forgets
  <1> QED
    BY <1>10, <1>11, Zenon DEF found, sees, ReadsWell

-----------------------------------------------------------------------------
(* The steps of createOrUpdate of a file. *)

\* Only the node at the path changes.
Within(path, m, after) == after \in FileMachines /\ \A p \in Paths \ {path} : after[p] = m[p]

\* What a call makes of the path: it turns it into the node, or it leaves it, or it
\* fails half-way; and it touches nothing else.
TurnsWell(m, path, node, dry, call) ==
  LET ran == F!Turn(m, path, node, dry, call)
  IN /\ Within(path, m, ran.m)
     /\ ran.err = "none" /\ ~dry => ran.m[path] = node
     /\ ran.changed <=> node # m[path]
     /\ call.kind = "ok" <=> ran.err = "none"

\* Every module and agent call on a path is such a call.
LEMMA FileTurns ==
  ASSUME NEW m \in FileMachines, NEW path \in Paths, NEW node \in FileNodes, NEW dry,
         NEW call, call.kind \in Outcomes
  PROVE  TurnsWell(m, path, node, dry, call)
  BY DEF TurnsWell, Within, FileMachines, F!Turn, F!Ran, Outcomes

\* What is at a path after a remove.
LEMMA FileNothing == F!Absent \in FileNodes /\ F!Absent.type = "absent"
  BY DefaultsAssumption DEF F!Absent, FileNodes

\* copy: what the data becomes at the path, into a directory or as a file.
LEMMA FilePut ==
  ASSUME NEW args, FileInput(args), NEW node \in FileNodes, NEW data \in SUBSET Data
  PROVE  /\ F!Put(node, args, data) \in FileNodes
         /\ F!Put(node, args, data).type = IF node.type = "directory" THEN "directory" ELSE "file"
         /\ node.type # "directory" => F!Put(node, args, data).data = data
  BY DEF FileNodes, FileInput, F!Put, F!ModeOf

\* What the module file promises: the type, the mode and the data it leaves.
FilesWell(m, args, want, dry, call) ==
  LET ran == F!File(m, args, want, dry, call)
      node == m[args.path]
      done == ran.m[args.path]
  IN /\ Within(args.path, m, ran.m)
     /\ ran.err = "none" /\ ~dry =>
          /\ want = "absent" => done.type = "absent"
          /\ want \in {"file", "directory"} => done.type = want
          /\ want = "touch" /\ node.type # "directory" => done.type = "file"
          /\ want # "absent" => done.data = node.data
          /\ want # "absent" /\ args.mode # Unset => done.mode = args.mode
     /\ want # "absent" /\ args.mode # Unset /\ node.mode # args.mode => "mode" \in ran.differs

\* file.go: the module file with any state brings the path to it unless it fails.
LEMMA FileFiles ==
  ASSUME NEW m \in FileMachines, NEW args, FileInput(args), NEW want \in {"absent", "file", "directory", "touch"},
         NEW dry, NEW call, call.kind \in Outcomes
  PROVE  FilesWell(m, args, want, dry, call)
  <1> DEFINE node == m[args.path]
             given == [node EXCEPT !.mode = F!ModeOf(args, node)]
             refuses == \/ want = "file" /\ node.type # "file"
                        \/ want = "directory" /\ node.type = "file"
             becomes == CASE want = "absent" -> F!Absent
                          [] want = "touch" /\ node.type = "absent" -> [given EXCEPT !.type = "file"]
                          [] want = "directory" -> [given EXCEPT !.type = "directory"]
                          [] OTHER -> given
             turned == F!Turn(m, args.path, becomes, dry, call)
             ran == F!File(m, args, want, dry, call)
  <1>1. node \in FileNodes /\ args.path \in Paths
    BY DEF FileMachines, FileInput
  <1>2. given \in FileNodes /\ given.type = node.type /\ given.data = node.data
        /\ (args.mode # Unset => given.mode = args.mode)
    BY <1>1 DEF FileNodes, FileInput, F!ModeOf
  <1> HIDE DEF given
  <1>3. /\ becomes \in FileNodes
        /\ want = "absent" => becomes.type = "absent"
        /\ want \in {"file", "directory"} /\ ~refuses => becomes.type = want
        /\ want = "touch" /\ node.type # "directory" => becomes.type = "file"
        /\ want # "absent" => becomes.data = node.data
        /\ want # "absent" /\ args.mode # Unset => becomes.mode = args.mode
    BY <1>1, <1>2, FileNothing DEF FileNodes
  <1>4. TurnsWell(m, args.path, becomes, dry, call)
    BY <1>1, <1>3, FileTurns
  <1>5. /\ ran.m = IF refuses /\ call.kind # "unreachable" THEN m ELSE turned.m
        /\ ran.err = IF refuses /\ call.kind # "unreachable" THEN "failed" ELSE turned.err
        /\ becomes.mode # node.mode => "mode" \in ran.differs
    BY Zenon DEF F!File, F!RanInVain, given
  <1>6. /\ Within(args.path, m, turned.m)
        /\ turned.err = "none" /\ ~dry => turned.m[args.path] = becomes
        /\ call.kind = "unreachable" => turned.err # "none"
    BY <1>4 DEF TurnsWell
  <1> HIDE DEF becomes, turned, ran
  <1>7. /\ Within(args.path, m, ran.m)
        /\ ran.err = "none" /\ ~dry => ~refuses /\ ran.m[args.path] = becomes
    BY <1>5, <1>6 DEF Within
  <1> DEFINE done == ran.m[args.path]
  <1>8. /\ ran.err = "none" /\ ~dry =>
          /\ want = "absent" => done.type = "absent"
          /\ want \in {"file", "directory"} => done.type = want
          /\ want = "touch" /\ node.type # "directory" => done.type = "file"
          /\ want # "absent" => done.data = node.data
          /\ want # "absent" /\ args.mode # Unset => done.mode = args.mode
        /\ want # "absent" /\ args.mode # Unset /\ node.mode # args.mode => "mode" \in ran.differs
    BY <1>3, <1>5, <1>7
  <1> HIDE DEF done, node
  <1> QED
    BY <1>7, <1>8, Zenon DEF FilesWell, ran, done, node

\* What unpacking promises: a directory that has the data, and never over a file.
UnpacksWell(m, path, data, call) ==
  LET ran == F!Unpack(m, path, data, call)
  IN /\ Within(path, m, ran.m)
     /\ ran.err = "none" =>
          m[path].type # "file" /\ ran.m[path].type = "directory" /\ data \subseteq ran.m[path].data

\* file.go: Untar and unarchive fill the directory unless they fail.
LEMMA FileUnpacks ==
  ASSUME NEW m \in FileMachines, NEW path \in Paths, NEW data \in SUBSET Data,
         NEW call, call.kind \in Outcomes
  PROVE  UnpacksWell(m, path, data, call)
  <1> DEFINE node == m[path]
             filled == [node EXCEPT !.type = "directory", !.data = @ \cup data]
             turned == F!Turn(m, path, filled, FALSE, call)
             ran == F!Unpack(m, path, data, call)
  <1>1. filled \in FileNodes /\ filled.type = "directory" /\ data \subseteq filled.data
    BY DEF FileMachines, FileNodes
  <1>2. TurnsWell(m, path, filled, FALSE, call)
    BY <1>1, FileTurns, Zenon
  <1>3. /\ Within(path, m, turned.m)
        /\ turned.err = "none" => turned.m[path] = filled
        /\ call.kind = "unreachable" => turned.err # "none"
    BY <1>2 DEF TurnsWell
  <1>4. /\ ran.m = IF node.type = "file" /\ call.kind # "unreachable" THEN m ELSE turned.m
        /\ ran.err = IF node.type = "file" /\ call.kind # "unreachable" THEN "failed" ELSE turned.err
    BY DEF F!Unpack, F!RanInVain
  <1> HIDE DEF filled, turned, ran
  <1>5. /\ Within(path, m, ran.m)
        /\ ran.err = "none" => node.type # "file" /\ ran.m[path] = filled
    BY <1>3, <1>4 DEF Within
  <1>6. ran.err = "none" =>
          m[path].type # "file" /\ ran.m[path].type = "directory" /\ data \subseteq ran.m[path].data
    BY <1>1, <1>5
  <1> QED
    BY <1>5, <1>6, Zenon DEF UnpacksWell, ran

\* A later state of the same resource.
Follows(state, s, now) ==
  /\ s.triggers.lastChanged \in {now, state.triggers.lastChanged}
  /\ state.drifted \subseteq s.drifted

\* What updateStateDrifted makes of the state: set properties are remembered.
DriftsWell(args, state, props, now) ==
  LET s == F!updateStateDrifted(args, state, props, now)
  IN /\ s.args = args /\ s.stat = state.stat /\ Follows(state, s, now)
     /\ s.drifted = state.drifted \cup {p \in props : args[p] # Unset}
     /\ props # {} => s.triggers.lastChanged = now

\* file.go: updateStateDrifted remembers what the inputs set, and stamps.
LEMMA FileDrifts ==
  ASSUME NEW args, NEW state, NEW props, NEW now
  PROVE  DriftsWell(args, state, props, now)
  BY DEF DriftsWell, Follows, F!updateStateDrifted, F!updateFile, F!FileState, F!updateState, F!UpdateTriggerState

\* What a step of createOrUpdate makes of a task.
AftersWell(task, args, state, props, now, makes) ==
  LET w == F!After(task, args, state, props, now, makes)
  IN /\ w.m = task.m /\ w.err = task.err /\ w.makes = makes
     /\ w.s.stat = state.stat /\ Follows(state, w.s, now)
     /\ state.args = args => w.s.args = args
     /\ task.err = "none" => {p \in props : args[p] # Unset} \subseteq w.s.drifted

\* file.go: what a task that went well changed is drift.
LEMMA FileAfters ==
  ASSUME NEW task, NEW args, NEW state, NEW props, NEW now, NEW makes
  PROVE  AftersWell(task, args, state, props, now, makes)
  <1> DEFINE told == F!updateStateDrifted(args, state, props, now)
             w == F!After(task, args, state, props, now, makes)
  <1>1. /\ told.args = args /\ told.stat = state.stat /\ Follows(state, told, now)
        /\ told.drifted = state.drifted \cup {p \in props : args[p] # Unset}
    BY FileDrifts DEF DriftsWell
  <1>2. /\ w.m = task.m /\ w.err = task.err /\ w.makes = makes
        /\ w.s = IF task.err = "none" /\ props # {} THEN told ELSE state
    BY DEF F!After, F!Step
  <1> HIDE DEF told, w
  <1>3. /\ w.s.stat = state.stat /\ Follows(state, w.s, now)
        /\ state.args = args => w.s.args = args
        /\ task.err = "none" => {p \in props : args[p] # Unset} \subseteq w.s.drifted
    BY <1>1, <1>2 DEF Follows
  <1> QED
    BY <1>2, <1>3, Zenon DEF AftersWell, w

\* What a source step makes of the path.
Ready(args, m, w) ==
  /\ ~F!HasSource(args) => w.m = m /\ w.makes = "none"
  /\ args.content # Unset =>
       /\ w.makes = "file"
       /\ m[args.path].type # "directory" =>
            w.m[args.path].type = "file" /\ w.m[args.path].data = {args.content}
  /\ args.source # Unset =>
       /\ w.makes = "directory" /\ m[args.path].type # "file"
       /\ w.m[args.path].type = "directory" /\ args.source \subseteq w.m[args.path].data
  /\ args.remoteSource # Unset =>
       w.makes \in {"file", "directory"} /\ (args.ensure = Unset => w.makes = "file")

\* What it says of it in check mode.
Checked(args, w) ==
  /\ ~F!HasSource(args) => w.makes = "none"
  /\ args.content # Unset => w.makes = "file"
  /\ args.source # Unset => w.makes = "directory"
  /\ args.remoteSource # Unset =>
       w.makes \in {"none", "file", "directory"} /\ (args.ensure = Unset => w.makes # "directory")

\* A difference that the source step sees is remembered.
Noticed(args, state, m, s) ==
  /\ args.content # Unset =>
       (m[args.path].type = "file" /\ m[args.path].data = {args.content}) \/ s.drifted # {}
  /\ args.source # Unset /\ Recalls(args.source, state) =>
       \/ m[args.path].type = "directory" /\ args.source \subseteq m[args.path].data
       \/ s.drifted # {}

\* What every source step promises, in check mode and outside.
SourcesWell(args, state, dry, m, trouble, now, w) ==
  /\ Within(args.path, m, w.m)
  /\ Follows(state, w.s, now)
  /\ w.err = "none" /\ ~dry => Ready(args, m, w)
  /\ dry => w.m = m
  /\ dry /\ w.err = "none" => Checked(args, w)
  /\ dry /\ args.source # Unset /\ Recalls(args.source, state) => Recalls(args.source, w.s)
  /\ dry /\ w.err = "none" /\ trouble = NoTrouble => Noticed(args, state, m, w.s)

\* file.go: copyNetworkSource of a file.
LEMMA FileDownloads ==
  ASSUME NEW args, FileInput(args), args.remoteSource \in Data, args.remoteSource # Unset,
         NEW state, NEW dry, NEW m \in FileMachines, NEW trouble, trouble.kind \in Outcomes, NEW now
  PROVE  SourcesWell(args, state, dry, m, trouble, now,
                     F!copyNetworkSourceFile(args, state, dry, m, trouble, now))
  <1> DEFINE call == F!Outcome(trouble, "put")
             node == m[args.path]
             keeps == node.type = "file" /\ args.force # TRUE
             goal == IF keeps THEN node ELSE F!Put(node, args, {args.remoteSource})
             got == F!Turn(m, args.path, goal, dry, call)
             props == F!Changed(got, {"mode", "remoteSource"})
             w == F!copyNetworkSourceFile(args, state, dry, m, trouble, now)
  <1>1. call.kind \in Outcomes
    BY DEF F!Outcome, F!NoTrouble, Outcomes
  <1>2. node \in FileNodes /\ args.path \in Paths
    BY DEF FileMachines, FileInput
  <1>3. goal \in FileNodes
    <2>1. {args.remoteSource} \in SUBSET Data
      OBVIOUS
    <2>2. F!Put(node, args, {args.remoteSource}) \in FileNodes
      BY <1>2, <2>1, FilePut
    <2> QED
      BY <1>2, <2>2
  <1>4. w = F!After(got, args, state, props, now, "file")
    BY DEF F!copyNetworkSourceFile, F!GetUrl
  <1>5. dry => got.m = m
    BY DEF F!Turn, F!Ran
  <1> HIDE DEF call, goal
  <1>6. TurnsWell(m, args.path, goal, dry, call)
    BY <1>1, <1>2, <1>3, FileTurns, Zenon
  <1>7. Within(args.path, m, got.m)
    BY <1>6 DEF TurnsWell
  <1>8. AftersWell(got, args, state, props, now, "file")
    BY FileAfters, Zenon
  <1> HIDE DEF got, props
  <1>9. w.m = got.m /\ w.makes = "file" /\ Follows(state, w.s, now)
    BY <1>4, <1>8 DEF AftersWell
  <1> HIDE DEF w
  <1>10. args.content = Unset /\ args.source = Unset
    BY DEF FileInput, OneSource
  <1>11. Ready(args, m, w) /\ (dry => Checked(args, w)) /\ Noticed(args, state, m, w.s)
    BY <1>5, <1>9, <1>10 DEF Ready, Checked, Noticed, F!HasSource
  <1>12. SourcesWell(args, state, dry, m, trouble, now, w)
    BY <1>5, <1>7, <1>9, <1>10, <1>11 DEF SourcesWell
  <1> QED
    BY <1>12, Zenon DEF w

\* file.go: copyRemoteSource from another path.
LEMMA FileCopies ==
  ASSUME NEW args, FileInput(args), args.remoteSource \in Paths, args.remoteSource # Unset,
         NEW state, NEW dry, NEW m \in FileMachines, NEW trouble, trouble.kind \in Outcomes, NEW now
  PROVE  SourcesWell(args, state, dry, m, trouble, now,
                     F!copyRemoteSourceFile(args, state, dry, m, trouble, now))
  <1> DEFINE call == F!Outcome(trouble, "put")
             looked == F!Outcome(trouble, "fetch")
             node == m[args.path]
             source == m[args.remoteSource]
             goal == F!Put(node, args, source.data)
             got == F!Turn(m, args.path, goal, dry, call)
             props == F!Changed(got, {"mode", "remoteSource"})
             after == F!After(got, args, state, props, now, "file")
             fresh == F!updateFile(args, state, TRUE, now)
             w == F!copyRemoteSourceFile(args, state, dry, m, trouble, now)
  <1>1. call.kind \in Outcomes /\ looked.kind \in Outcomes
    BY DEF F!Outcome, F!NoTrouble, Outcomes
  <1>2. node \in FileNodes /\ args.path \in Paths /\ source.data \in SUBSET Data
    BY DEF FileMachines, FileInput, FileNodes
  <1>3. goal \in FileNodes
    BY <1>2, FilePut
  <1>4. /\ looked.kind # "ok" => w.m = m /\ w.s = state /\ w.err # "none"
        /\ looked.kind = "ok" /\ source.type = "absent" /\ dry =>
             w.m = m /\ w.s = fresh /\ w.err = "none" /\ w.makes = "none"
        /\ looked.kind = "ok" /\ source.type = "absent" /\ ~dry =>
             w.m = m /\ w.s = state /\ w.err # "none"
        /\ looked.kind = "ok" /\ source.type # "absent" =>
             w.m = after.m /\ w.s = after.s /\ w.makes = after.makes
    BY <1>1 DEF F!copyRemoteSourceFile, F!Copy, F!Step, F!After, Outcomes
  <1>5. dry => got.m = m
    BY DEF F!Turn, F!Ran
  <1>6. Follows(state, fresh, now)
    BY DEF Follows, F!updateFile, F!FileState, F!updateState, F!UpdateTriggerState
  <1> HIDE DEF call, goal
  <1>7. TurnsWell(m, args.path, goal, dry, call)
    BY <1>1, <1>2, <1>3, FileTurns, Zenon
  <1>8. Within(args.path, m, got.m)
    BY <1>7 DEF TurnsWell
  <1>9. AftersWell(got, args, state, props, now, "file")
    BY FileAfters, Zenon
  <1> HIDE DEF got, props
  <1>10. after.m = got.m /\ after.makes = "file" /\ Follows(state, after.s, now)
    BY <1>9 DEF AftersWell
  <1> HIDE DEF w, after, looked, source, fresh
  <1>11. args.content = Unset /\ args.source = Unset
    BY DEF FileInput, OneSource
  <1>12. Within(args.path, m, w.m) /\ Follows(state, w.s, now)
    BY <1>4, <1>6, <1>8, <1>10 DEF Within, Follows
  <1>13. w.err = "none" /\ ~dry => w.makes = "file"
    BY <1>4, <1>10
  <1>14. dry => w.m = m
    BY <1>4, <1>5, <1>10
  <1>15. dry /\ w.err = "none" => w.makes \in {"none", "file"}
    BY <1>4, <1>10
  <1>16. /\ w.err = "none" /\ ~dry => Ready(args, m, w)
         /\ dry => w.m = m
         /\ dry /\ w.err = "none" => Checked(args, w)
         /\ Noticed(args, state, m, w.s)
    BY <1>11, <1>13, <1>14, <1>15 DEF Ready, Checked, Noticed, F!HasSource
  <1>17. SourcesWell(args, state, dry, m, trouble, now, w)
    BY <1>11, <1>12, <1>16 DEF SourcesWell
  <1> QED
    BY <1>17, Zenon DEF w

\* file.go: copyLocalSource of an archive.
LEMMA FileUntars ==
  ASSUME NEW args, FileInput(args), args.source # Unset,
         NEW state, NEW dry, NEW m \in FileMachines, NEW trouble, trouble.kind \in Outcomes, NEW now
  PROVE  SourcesWell(args, state, dry, m, trouble, now,
                     F!copyLocalSourceArchive(args, state, dry, m, trouble, now))
  <1> DEFINE call == F!Outcome(trouble, "put")
             staged == F!Outcome(trouble, "fetch")
             node == m[args.path]
             is == F!Checksum(node)
             seen == is # Unset /\ state.stat # Unset
             told == F!updateStateDrifted(args, state, {"source"}, now)
             same == seen /\ is = state.stat
             compared == IF same THEN state ELSE told
             untarred == F!Unpack(m, args.path, args.source, call)
             after == F!After(untarred, args, state, {"source"}, now, "directory")
             w == F!copyLocalSourceArchive(args, state, dry, m, trouble, now)
  <1>1. call.kind \in Outcomes /\ staged.kind \in Outcomes
    BY DEF F!Outcome, F!NoTrouble, Outcomes
  <1>2. node \in FileNodes /\ args.path \in Paths
    BY DEF FileMachines, FileInput
  <1>3. /\ dry => /\ w.m = m /\ w.makes = "directory"
                  /\ w.s.drifted = compared.drifted /\ w.s.triggers = compared.triggers
                  /\ w.s.stat = IF seen THEN is ELSE compared.stat
        /\ ~dry /\ staged.kind # "ok" => w.m = m /\ w.s = state /\ w.err = staged.kind
        /\ ~dry /\ staged.kind = "ok" => w = after
    BY DEF F!copyLocalSourceArchive, F!Step, F!FileState
  <1>4. /\ told.args = args /\ told.stat = state.stat /\ Follows(state, told, now)
        /\ told.drifted # {}
    <2>1. DriftsWell(args, state, {"source"}, now)
      BY FileDrifts, Zenon
    <2> QED
      BY <2>1 DEF DriftsWell
  <1>5. UnpacksWell(m, args.path, args.source, call)
    BY <1>1, <1>2, FileUnpacks DEF FileInput
  <1>6. /\ Within(args.path, m, untarred.m)
        /\ untarred.err = "none" =>
             /\ node.type # "file" /\ untarred.m[args.path].type = "directory"
             /\ args.source \subseteq untarred.m[args.path].data
    BY <1>5 DEF UnpacksWell
  <1>7. AftersWell(untarred, args, state, {"source"}, now, "directory")
    BY FileAfters, Zenon
  <1> HIDE DEF untarred
  <1>8. /\ after.m = untarred.m /\ after.err = untarred.err /\ after.makes = "directory"
        /\ Follows(state, after.s, now)
    BY <1>7 DEF AftersWell
  <1>9. is # Unset => node.type # "absent" /\ is.type = node.type /\ is.data = node.data
    <2>1. node.type = "absent" => is = Unset
      BY DEF F!Checksum
    <2>2. node.type # "absent" => is.type = node.type /\ is.data = node.data
      BY DEF F!Checksum
    <2> QED
      BY <2>1, <2>2
  <1> HIDE DEF w, after, told, is, staged
  <1>10. args.content = Unset /\ args.remoteSource = Unset
    BY DEF FileInput, OneSource
  <1>12. dry => /\ Follows(state, w.s, now)
                /\ Recalls(args.source, state) => Recalls(args.source, w.s)
                /\ Noticed(args, state, m, w.s)
    <2> SUFFICES ASSUME dry
                 PROVE  /\ Follows(state, w.s, now)
                        /\ Recalls(args.source, state) => Recalls(args.source, w.s)
                        /\ Noticed(args, state, m, w.s)
      OBVIOUS
    <2>1. CASE same
      <3>1. /\ w.s.drifted = state.drifted /\ w.s.stat = state.stat
            /\ w.s.triggers = state.triggers /\ state.stat = is /\ is # Unset
        BY <1>3, <2>1
      <3> QED
        BY <1>9, <1>10, <2>1, <3>1 DEF Follows, Recalls, Noticed
    <2>2. CASE ~same
      <3>1. w.s.drifted = told.drifted /\ w.s.triggers = told.triggers
        BY <1>3, <2>2
      <3> QED
        BY <1>4, <1>10, <3>1 DEF Follows, Recalls, Noticed
    <2> QED
      BY <2>1, <2>2
  <1>13. ~dry => Within(args.path, m, w.m) /\ Follows(state, w.s, now)
    BY <1>3, <1>6, <1>8 DEF Within, Follows
  <1>14. w.err = "none" /\ ~dry => Ready(args, m, w)
    <2>1. w.err = "none" /\ ~dry => w = after
      BY <1>1, <1>3 DEF Outcomes
    <2> QED
      BY <1>6, <1>8, <1>10, <2>1 DEF Ready, F!HasSource
  <1>15. dry => Within(args.path, m, w.m) /\ Checked(args, w)
    BY <1>3, <1>10 DEF Within, Checked, F!HasSource
  <1>16. SourcesWell(args, state, dry, m, trouble, now, w)
    BY <1>3, <1>12, <1>13, <1>14, <1>15 DEF SourcesWell
  <1> QED
    BY <1>16, Zenon DEF w

\* file.go: copyLocalSource of content.
LEMMA FileAssets ==
  ASSUME NEW args, FileInput(args), args.content # Unset,
         NEW state, NEW dry, NEW m \in FileMachines, NEW trouble, trouble.kind \in Outcomes, NEW now
  PROVE  SourcesWell(args, state, dry, m, trouble, now,
                     F!copyLocalSourceAsset(args, state, dry, m, trouble, now))
  <1> DEFINE call == F!Outcome(trouble, "put")
             staged == F!Outcome(trouble, "fetch")
             node == m[args.path]
             is == F!Checksum(node)
             told == F!updateStateDrifted(args, state, {"content"}, now)
             same == is = [type |-> "file", data |-> {args.content}]
             compared == IF same THEN state ELSE told
             goal == F!Put(node, args, {args.content})
             copied == F!Turn(m, args.path, goal, dry, call)
             props == F!Changed(copied, {"content", "mode"})
             after == F!After(copied, args, state, props, now, "file")
             w == F!copyLocalSourceAsset(args, state, dry, m, trouble, now)
  <1>1. call.kind \in Outcomes /\ staged.kind \in Outcomes
    BY DEF F!Outcome, F!NoTrouble, Outcomes
  <1>2. node \in FileNodes /\ args.path \in Paths /\ {args.content} \in SUBSET Data
    BY DEF FileMachines, FileInput
  <1>3. /\ goal \in FileNodes
        /\ node.type # "directory" => goal.type = "file" /\ goal.data = {args.content}
        /\ goal.type # "absent"
    BY <1>2, FilePut
  <1>4. /\ dry /\ is # Unset =>
             /\ w.m = m /\ w.makes = "file" /\ w.err = "none"
             /\ w.s.drifted = compared.drifted /\ w.s.triggers = compared.triggers
        /\ ~(dry /\ is # Unset) /\ staged.kind # "ok" =>
             w.m = m /\ w.s = state /\ w.makes = "file" /\ w.err = staged.kind
        /\ ~(dry /\ is # Unset) /\ staged.kind = "ok" => w = after
    BY DEF F!copyLocalSourceAsset, F!Step, F!Copy, F!FileState
  <1>5. Follows(state, told, now) /\ told.drifted # {}
    <2>1. DriftsWell(args, state, {"content"}, now)
      BY FileDrifts, Zenon
    <2> QED
      BY <2>1 DEF DriftsWell
  <1>6. dry => copied.m = m
    BY DEF F!Turn, F!Ran
  <1>7. /\ is = Unset => node.type = "absent"
        /\ same => node.type = "file" /\ node.data = {args.content}
    BY <1>2, UnsetAssumption DEF F!Checksum, FileNodes
  <1>8. props = IF copied.changed THEN {"content", "mode"} ELSE {}
    BY DEF F!Changed
  <1> HIDE DEF call, goal, is, told
  <1>9. TurnsWell(m, args.path, goal, dry, call)
    BY <1>1, <1>2, <1>3, FileTurns, Zenon
  <1>10. /\ Within(args.path, m, copied.m)
         /\ copied.err = "none" /\ ~dry => copied.m[args.path] = goal
         /\ copied.changed <=> goal # node
    BY <1>9 DEF TurnsWell
  <1>11. AftersWell(copied, args, state, props, now, "file")
    BY FileAfters, Zenon
  <1> HIDE DEF copied, props
  <1>12. /\ after.m = copied.m /\ after.err = copied.err /\ after.makes = "file"
         /\ Follows(state, after.s, now)
         /\ copied.err = "none" => {p \in props : args[p] # Unset} \subseteq after.s.drifted
    BY <1>11 DEF AftersWell
  <1>13. args.source = Unset /\ args.remoteSource = Unset
    BY DEF FileInput, OneSource
  <1> HIDE DEF w, after, staged
  <1>14. is = Unset /\ after.err = "none" => after.s.drifted # {}
    <2>1. is = Unset => copied.changed
      BY <1>3, <1>7, <1>10
    <2>2. copied.changed => "content" \in {p \in props : args[p] # Unset}
      BY <1>8
    <2> QED
      BY <1>12, <2>1, <2>2
  <1> HIDE DEF same
  <1>15. compared.drifted \in {state.drifted, told.drifted} /\ (~same => compared.drifted = told.drifted)
         /\ Follows(state, compared, now)
    BY <1>5 DEF Follows
  <1> HIDE DEF compared
  <1>16. Follows(state, w.s, now)
    BY <1>4, <1>12, <1>15 DEF Follows
  <1>17. Within(args.path, m, w.m) /\ (dry => w.m = m)
    BY <1>4, <1>6, <1>10, <1>12 DEF Within
  <1>18. w.makes = "file"
    BY <1>4, <1>12
  <1>19. dry /\ w.err = "none" => Noticed(args, state, m, w.s)
    <2>1. CASE is # Unset
      <3>1. dry => w.s.drifted = compared.drifted
        BY <1>4, <2>1
      <3> QED
        BY <1>5, <1>7, <1>13, <1>15, <3>1 DEF Noticed
    <2>2. CASE is = Unset
      <3>1. w.err = "none" => w = after
        BY <1>1, <1>4, <2>2 DEF Outcomes
      <3> QED
        BY <1>13, <1>14, <2>2, <3>1 DEF Noticed
    <2> QED
      BY <2>1, <2>2
  <1>20. w.err = "none" /\ ~dry => Ready(args, m, w)
    <2>1. w.err = "none" /\ ~dry => w = after
      BY <1>1, <1>4 DEF Outcomes
    <2> QED
      BY <1>3, <1>10, <1>12, <1>13, <2>1 DEF Ready, F!HasSource
  <1>21. Checked(args, w)
    BY <1>13, <1>18 DEF Checked, F!HasSource
  <1>22. SourcesWell(args, state, dry, m, trouble, now, w)
    BY <1>13, <1>16, <1>17, <1>19, <1>20, <1>21 DEF SourcesWell
  <1> QED
    BY <1>22, Zenon DEF w

\* file.go: copyNetworkSource of a directory.
LEMMA FileTarballs ==
  ASSUME NEW args, FileInput(args), args.remoteSource \in Data \ Paths, args.remoteSource # Unset,
         args.ensure = "directory",
         NEW state, NEW dry, NEW m \in FileMachines, NEW trouble, trouble.kind \in Outcomes, NEW now
  PROVE  SourcesWell(args, state, dry, m, trouble, now,
                     F!copyNetworkSourceDirectory(args, state, dry, m, trouble, now))
  <1> DEFINE put == F!Outcome(trouble, "put")
             fetch == F!Outcome(trouble, "fetch")
             nothing == F!Step(m, state, "none", "directory")
             mkdir == F!File(m, args, "directory", dry, put)
             created == F!After(mkdir, args, state, mkdir.differs, now, "directory")
             made == IF m[args.path].type = "absent" THEN created ELSE nothing
             filled == F!Unpack(made.m, args.path, {args.remoteSource}, fetch)
             drifted == F!updateStateDrifted(args, made.s, {"mode", "remoteSource"}, now)
             told == F!Step(made.m, drifted, "none", "directory")
             full == F!After(filled, args, made.s, {"remoteSource"}, now, "directory")
             w == F!copyNetworkSourceDirectory(args, state, dry, m, trouble, now)
  <1>1. put.kind \in Outcomes /\ fetch.kind \in Outcomes
    BY DEF F!Outcome, F!NoTrouble, Outcomes
  <1>2. args.path \in Paths /\ {args.remoteSource} \in SUBSET Data
    BY DEF FileInput
  <1>3. args.force # TRUE
    BY DEF FileInput, Overwrites
  <1>4. w = IF made.err # "none" THEN made ELSE IF dry THEN told ELSE full
    BY <1>3 DEF F!copyNetworkSourceDirectory, F!Step
  <1>5. nothing.m = m /\ nothing.s = state /\ nothing.makes = "directory" /\ nothing.err = "none"
    BY DEF F!Step
  <1>6. told.m = made.m /\ told.s = drifted /\ told.makes = "directory"
    BY DEF F!Step
  <1> HIDE DEF put, fetch
  <1>7. Within(args.path, m, mkdir.m)
    <2>1. FilesWell(m, args, "directory", dry, put)
      BY <1>1, FileFiles
    <2> QED
      BY <2>1 DEF FilesWell
  <1>8. dry => mkdir.m = m
    BY DEF F!File, F!Turn, F!Ran, F!RanInVain
  <1>9. AftersWell(mkdir, args, state, mkdir.differs, now, "directory")
    BY FileAfters, Zenon
  <1> HIDE DEF mkdir, nothing
  <1>10. created.m = mkdir.m /\ created.makes = "directory" /\ Follows(state, created.s, now)
    BY <1>9 DEF AftersWell
  <1> HIDE DEF created
  <1>11. /\ Within(args.path, m, made.m) /\ made.makes = "directory" /\ Follows(state, made.s, now)
         /\ dry => made.m = m
    BY <1>5, <1>7, <1>8, <1>10 DEF Within, Follows
  <1> HIDE DEF made
  <1>12. Within(args.path, made.m, filled.m)
    <2>1. UnpacksWell(made.m, args.path, {args.remoteSource}, fetch)
      BY <1>1, <1>2, <1>11, FileUnpacks DEF Within
    <2> QED
      BY <2>1 DEF UnpacksWell
  <1>13. AftersWell(filled, args, made.s, {"remoteSource"}, now, "directory")
    BY FileAfters, Zenon
  <1>14. Follows(made.s, drifted, now)
    <2>1. DriftsWell(args, made.s, {"mode", "remoteSource"}, now)
      BY FileDrifts, Zenon
    <2> QED
      BY <2>1 DEF DriftsWell
  <1> HIDE DEF filled, drifted
  <1>15. full.m = filled.m /\ full.makes = "directory" /\ Follows(made.s, full.s, now)
    BY <1>13 DEF AftersWell
  <1> HIDE DEF full, told, w
  <1>16. /\ Within(args.path, m, w.m) /\ w.makes = "directory" /\ Follows(state, w.s, now)
         /\ dry => w.m = m
    BY <1>4, <1>6, <1>11, <1>12, <1>14, <1>15 DEF Within, Follows
  <1>17. args.content = Unset /\ args.source = Unset /\ args.ensure # Unset
    BY UnsetAssumption DEF FileInput, OneSource
  <1>18. Ready(args, m, w) /\ Checked(args, w) /\ Noticed(args, state, m, w.s)
    BY <1>16, <1>17 DEF Ready, Checked, Noticed, F!HasSource
  <1>19. SourcesWell(args, state, dry, m, trouble, now, w)
    BY <1>16, <1>17, <1>18 DEF SourcesWell
  <1> QED
    BY <1>19, Zenon DEF w

\* file.go: the source step that createOrUpdate takes, or none.
LEMMA FileSources ==
  ASSUME NEW args, FileInput(args), NEW state, NEW dry, NEW m \in FileMachines,
         NEW trouble, trouble.kind \in Outcomes, NEW now
  PROVE  SourcesWell(args, state, dry, m, trouble, now, F!Sourced(args, state, dry, m, trouble, now))
  <1> DEFINE w == F!Sourced(args, state, dry, m, trouble, now)
  <1>1. CASE args.remoteSource # Unset /\ args.remoteSource \in Paths
    <2>1. w = F!copyRemoteSourceFile(args, state, dry, m, trouble, now)
      BY <1>1 DEF F!Sourced, F!copyRemoteSource
    <2> QED
      BY <1>1, <2>1, FileCopies, Zenon
  <1>2. CASE args.remoteSource # Unset /\ args.remoteSource \notin Paths /\ args.ensure = "directory"
    <2>1. w = F!copyNetworkSourceDirectory(args, state, dry, m, trouble, now)
      BY <1>2 DEF F!Sourced, F!copyRemoteSource
    <2>2. args.remoteSource \in Data \ Paths
      BY <1>2 DEF FileInput
    <2> QED
      BY <1>2, <2>1, <2>2, FileTarballs, Zenon
  <1>3. CASE args.remoteSource # Unset /\ args.remoteSource \notin Paths /\ args.ensure # "directory"
    <2>1. w = F!copyNetworkSourceFile(args, state, dry, m, trouble, now)
      BY <1>3 DEF F!Sourced, F!copyRemoteSource
    <2>2. args.remoteSource \in Data
      BY <1>3 DEF FileInput
    <2> QED
      BY <1>3, <2>1, <2>2, FileDownloads, Zenon
  <1>4. CASE args.remoteSource = Unset /\ args.source # Unset
    <2>1. w = F!copyLocalSourceArchive(args, state, dry, m, trouble, now)
      BY <1>4 DEF F!Sourced
    <2> QED
      BY <1>4, <2>1, FileUntars, Zenon
  <1>5. CASE args.remoteSource = Unset /\ args.source = Unset /\ args.content # Unset
    <2>1. w = F!copyLocalSourceAsset(args, state, dry, m, trouble, now)
      BY <1>5 DEF F!Sourced
    <2> QED
      BY <1>5, <2>1, FileAssets, Zenon
  <1>6. CASE ~F!HasSource(args)
    <2>1. args.content = Unset /\ args.source = Unset /\ args.remoteSource = Unset
      BY <1>6 DEF F!HasSource
    <2>2. w.m = m /\ w.s = state /\ w.err = "none" /\ w.makes = "none"
      BY <2>1 DEF F!Sourced, F!Step
    <2> HIDE DEF w
    <2>3. Within(args.path, m, w.m) /\ Follows(state, w.s, now)
      BY <2>2 DEF Within, Follows
    <2>4. Ready(args, m, w) /\ Checked(args, w) /\ Noticed(args, state, m, w.s)
      BY <1>6, <2>1, <2>2 DEF Ready, Checked, Noticed
    <2>5. SourcesWell(args, state, dry, m, trouble, now, w)
      BY <2>1, <2>2, <2>3, <2>4 DEF SourcesWell
    <2> QED
      BY <2>5, Zenon DEF w
  <1> QED
    BY <1>1, <1>2, <1>3, <1>4, <1>5, <1>6 DEF F!HasSource

\* What is to be at the path in the end.
Wanted(args) ==
  IF args.ensure # Unset THEN args.ensure ELSE IF args.source # Unset THEN "directory" ELSE "file"

\* What AnsibleState asks for is what is wanted.
WantsWell(args, makes, was) ==
  LET want == F!AnsibleState(args, makes, was)
  IN /\ want \in {"absent", "file", "directory", "touch"}
     /\ Wanted(args) = IF want = "touch" THEN "file" ELSE want
     /\ want = "touch" => makes = "none"

\* file.go: the state asked of the module file, with what the source step made.
LEMMA FileWants ==
  ASSUME NEW args, FileInput(args), NEW w, Checked(args, w), NEW was
  PROVE  WantsWell(args, w.makes, was)
  BY UnsetAssumption DEF WantsWell, Wanted, F!AnsibleState, Checked, FileInput, F!HasSource

\* After a source step outside check mode the same is known as in check mode.
LEMMA FileReady ==
  ASSUME NEW args, FileInput(args), NEW m, NEW w, Ready(args, m, w)
  PROVE  Checked(args, w)
  BY UnsetAssumption DEF Ready, Checked

\* What executeFile promises of the machine and the state.
ExecutesWell(w, args, want, dry, trouble, now) ==
  LET filed == F!executeFile(w, args, want, dry, trouble, now)
      node == w.m[args.path]
      done == filed.m[args.path]
  IN /\ Within(args.path, w.m, filed.m) /\ (dry => filed.m = w.m)
     /\ Follows(w.s, filed.s, now) /\ filed.s.stat = w.s.stat
     /\ filed.err = "none" => filed.s.args = args
     /\ filed.err = "none" /\ want # "absent" /\ args.mode # Unset /\ node.mode # args.mode =>
          filed.s.drifted # {}
     /\ filed.err = "none" /\ ~dry =>
          /\ want = "absent" => done.type = "absent"
          /\ want \in {"file", "directory"} => done.type = want
          /\ want = "touch" /\ node.type # "directory" => done.type = "file"
          /\ want # "absent" => done.data = node.data
          /\ want # "absent" /\ args.mode # Unset => done.mode = args.mode

\* file.go: the last task of createOrUpdate.
LEMMA FileExecutes ==
  ASSUME NEW args, FileInput(args), NEW w, w.m \in FileMachines,
         NEW want \in {"absent", "file", "directory", "touch"},
         NEW dry, NEW trouble, trouble.kind \in Outcomes, NEW now
  PROVE  ExecutesWell(w, args, want, dry, trouble, now)
  <1> DEFINE call == F!Outcome(trouble, "file")
             ran == F!File(w.m, args, want, dry, call)
             state == IF ran.err = "none" THEN F!updateFile(args, w.s, FALSE, now) ELSE w.s
             filed == F!executeFile(w, args, want, dry, trouble, now)
             node == w.m[args.path]
             done == filed.m[args.path]
  <1>1. call.kind \in Outcomes
    BY DEF F!Outcome, F!NoTrouble, Outcomes
  <1>2. filed = F!After(ran, args, state, ran.differs, now, w.makes)
    BY Zenon DEF F!executeFile
  <1>3. dry => ran.m = w.m
    BY DEF F!File, F!Turn, F!Ran, F!RanInVain
  <1> HIDE DEF call
  <1>4. FilesWell(w.m, args, want, dry, call)
    BY <1>1, FileFiles
  <1>5. /\ Within(args.path, w.m, ran.m)
        /\ ran.err = "none" /\ ~dry =>
          /\ want = "absent" => ran.m[args.path].type = "absent"
          /\ want \in {"file", "directory"} => ran.m[args.path].type = want
          /\ want = "touch" /\ node.type # "directory" => ran.m[args.path].type = "file"
          /\ want # "absent" => ran.m[args.path].data = node.data
          /\ want # "absent" /\ args.mode # Unset => ran.m[args.path].mode = args.mode
        /\ want # "absent" /\ args.mode # Unset /\ node.mode # args.mode => "mode" \in ran.differs
    BY <1>4, Zenon DEF FilesWell
  <1> HIDE DEF ran
  <1>6. /\ Follows(w.s, state, now) /\ state.stat = w.s.stat /\ state.drifted = w.s.drifted
        /\ state.triggers.lastChanged = w.s.triggers.lastChanged
        /\ ran.err = "none" => state.args = args
    BY DEF Follows, F!updateFile, F!FileState, F!updateState, F!UpdateTriggerState
  <1> HIDE DEF state
  <1>7. AftersWell(ran, args, state, ran.differs, now, w.makes)
    BY FileAfters, Zenon
  <1>8. /\ filed.m = ran.m /\ filed.err = ran.err
        /\ filed.s.stat = state.stat /\ Follows(state, filed.s, now)
        /\ state.args = args => filed.s.args = args
        /\ ran.err = "none" => {p \in ran.differs : args[p] # Unset} \subseteq filed.s.drifted
    BY <1>2, <1>7 DEF AftersWell
  <1> HIDE DEF filed
  <1>9. Follows(w.s, filed.s, now)
    BY <1>6, <1>8 DEF Follows
  <1>10. ran.err = "none" /\ want # "absent" /\ args.mode # Unset /\ node.mode # args.mode =>
           filed.s.drifted # {}
    <2>1. "mode" \in ran.differs /\ args.mode # Unset => "mode" \in {p \in ran.differs : args[p] # Unset}
      OBVIOUS
    <2> QED
      BY <1>5, <1>8, <2>1
  <1>11. filed.err = "none" /\ ~dry =>
          /\ want = "absent" => done.type = "absent"
          /\ want \in {"file", "directory"} => done.type = want
          /\ want = "touch" /\ node.type # "directory" => done.type = "file"
          /\ want # "absent" => done.data = node.data
          /\ want # "absent" /\ args.mode # Unset => done.mode = args.mode
    BY <1>5, <1>8
  <1>12. /\ Within(args.path, w.m, filed.m) /\ (dry => filed.m = w.m)
         /\ filed.s.stat = w.s.stat
         /\ filed.err = "none" => filed.s.args = args
         /\ filed.err = "none" /\ want # "absent" /\ args.mode # Unset /\ node.mode # args.mode =>
              filed.s.drifted # {}
    BY <1>3, <1>5, <1>6, <1>8, <1>10
  <1> HIDE DEF done, node
  <1> QED
    BY <1>9, <1>11, <1>12, Zenon DEF ExecutesWell, filed, done, node

\* Outside check mode: as asked when there is no error.
ConvergesWell(args, m, w, trouble, now) ==
  LET done == F!Converged(w, args, m[args.path].type, FALSE, trouble, now)
  IN /\ Within(args.path, w.m, done.m) /\ Follows(w.s, done.s, now)
     /\ done.err = "none" => done.s.args = args /\ F!AsAsked(args, done.m)

\* file.go: from what was at the path to what is wanted, through touch or remove if need be.
LEMMA FileConverges ==
  ASSUME NEW args, FileInput(args), NEW m \in FileMachines, NEW w, w.m \in FileMachines, IsStep(w),
         w.err = "none", Ready(args, m, w), NEW trouble, trouble.kind \in Outcomes, NEW now
  PROVE  ConvergesWell(args, m, w, trouble, now)
  <1> DEFINE was == m[args.path].type
             want == F!AnsibleState(args, w.makes, was)
             desired == IF want = "touch" THEN "file" ELSE want
             filed == F!executeFile(w, args, want, FALSE, trouble, now)
             told == F!updateStateDrifted(args, filed.s, {"ensure"}, now)
             gone == F!Turn(w.m, args.path, F!Absent, FALSE, F!Outcome(trouble, "remove"))
             cleared == F!Step(gone.m, w.s, w.err, w.makes)
             again == IF want = "file" THEN "touch" ELSE want
             refiled == F!executeFile(cleared, args, again, FALSE, trouble, now)
             retold == F!updateStateDrifted(args, refiled.s, {"ensure"}, now)
             node == w.m[args.path]
             done == F!Converged(w, args, was, FALSE, trouble, now)
  <1>1. /\ want \in {"absent", "file", "directory", "touch"}
        /\ Wanted(args) = desired
        /\ want = "touch" => w.makes = "none"
    <2>1. WantsWell(args, w.makes, was)
      BY FileReady, FileWants
    <2> QED
      BY <2>1 DEF WantsWell
  <1>2. args.path \in Paths /\ was \in {"absent", "file", "directory"} /\ node \in FileNodes
    BY DEF FileInput, FileMachines, FileNodes
  <1>3. /\ was = desired => done = filed
        /\ was # desired /\ (desired = "absent" \/ was = "absent") =>
             done.m = filed.m /\ done.err = filed.err /\ done.s = told
        /\ was # desired /\ desired # "absent" /\ was # "absent" /\ args.force = TRUE =>
             /\ done.m = refiled.m /\ done.s = retold
             /\ done.err = IF gone.err # "none" THEN gone.err ELSE refiled.err
        /\ was # desired /\ desired # "absent" /\ was # "absent" /\ args.force # TRUE =>
             done.m = w.m /\ done.s = w.s /\ done.err = "failed"
    <2>1. was = desired => done = filed
      BY DEF F!Converged
    <2>2. was # desired /\ (desired = "absent" \/ was = "absent") =>
             done.m = filed.m /\ done.err = filed.err /\ done.s = told
      BY DEF F!Converged, F!Drifts, F!executeFile, F!After, F!Step
    <2>3. [w EXCEPT !.m = gone.m] = cleared
      <3> DEFINE there == gone.m
      <3>1. cleared = F!Step(there, w.s, w.err, w.makes)
        OBVIOUS
      <3> HIDE DEF there, cleared
      <3>2. [w EXCEPT !.m = there] = cleared
        BY <3>1 DEF IsStep, F!Step
      <3> QED
        BY <3>2, Zenon DEF there
    <2>4. was # desired /\ desired # "absent" /\ was # "absent" /\ args.force = TRUE =>
             done = F!Drifts(F!Forced(w, args, want, trouble, now), args, {"ensure"}, now)
      BY DEF F!Converged
    <2>5. F!Forced(w, args, want, trouble, now)
            = [refiled EXCEPT !.err = IF gone.err # "none" THEN gone.err ELSE @]
      BY <2>3, Zenon DEF F!Forced, F!Remove
    <2>6. IsStep(refiled)
      BY DEF F!executeFile, F!After, F!Step, IsStep
    <2> HIDE DEF refiled, gone, cleared
    <2>7. was # desired /\ desired # "absent" /\ was # "absent" /\ args.force = TRUE =>
             /\ done.m = refiled.m /\ done.s = retold
             /\ done.err = IF gone.err # "none" THEN gone.err ELSE refiled.err
      BY <2>4, <2>5, <2>6 DEF F!Drifts, IsStep, F!Step
    <2>8. was # desired /\ desired # "absent" /\ was # "absent" /\ args.force # TRUE =>
             done.m = w.m /\ done.s = w.s /\ done.err = "failed"
      BY DEF F!Converged, IsStep, F!Step
    <2> QED
      BY <2>1, <2>2, <2>7, <2>8
  <1>4. ExecutesWell(w, args, want, FALSE, trouble, now)
    BY <1>1, FileExecutes
  <1>5. Within(args.path, w.m, gone.m) /\ (gone.err = "none" => gone.m[args.path] = F!Absent)
    <2>1. F!Outcome(trouble, "remove").kind \in Outcomes
      BY DEF F!Outcome, F!NoTrouble, Outcomes
    <2>2. TurnsWell(w.m, args.path, F!Absent, FALSE, F!Outcome(trouble, "remove"))
      BY <1>2, <2>1, FileTurns, FileNothing
    <2> QED
      BY <2>2 DEF TurnsWell
  <1>6. cleared.m = gone.m /\ cleared.s = w.s
    BY DEF F!Step
  <1>7. ExecutesWell(cleared, args, again, FALSE, trouble, now)
    <2>1. again \in {"absent", "file", "directory", "touch"}
      BY <1>1
    <2>2. cleared.m \in FileMachines
      BY <1>5, <1>6 DEF Within
    <2> QED
      BY <2>1, <2>2, FileExecutes
  <1>8. /\ DriftsWell(args, filed.s, {"ensure"}, now)
        /\ DriftsWell(args, refiled.s, {"ensure"}, now)
    BY FileDrifts, Zenon
  <1>9. /\ told.args = args /\ Follows(filed.s, told, now)
        /\ retold.args = args /\ Follows(refiled.s, retold, now)
    BY <1>8 DEF DriftsWell
  <1> HIDE DEF want, filed, told, gone, cleared, refiled, retold, done
  <1>10. /\ Within(args.path, w.m, filed.m) /\ Follows(w.s, filed.s, now)
         /\ filed.err = "none" => filed.s.args = args
         /\ filed.err = "none" =>
              /\ want = "absent" => filed.m[args.path].type = "absent"
              /\ want \in {"file", "directory"} => filed.m[args.path].type = want
              /\ want = "touch" /\ node.type # "directory" => filed.m[args.path].type = "file"
              /\ want # "absent" => filed.m[args.path].data = node.data
              /\ want # "absent" /\ args.mode # Unset => filed.m[args.path].mode = args.mode
    BY <1>4, Zenon DEF ExecutesWell, filed
  <1>11. /\ Within(args.path, cleared.m, refiled.m) /\ Follows(cleared.s, refiled.s, now)
         /\ refiled.err = "none" =>
              /\ again \in {"file", "directory"} => refiled.m[args.path].type = again
              /\ again = "touch" /\ cleared.m[args.path].type # "directory" =>
                   refiled.m[args.path].type = "file"
              /\ again # "absent" /\ args.mode # Unset => refiled.m[args.path].mode = args.mode
    BY <1>7, Zenon DEF ExecutesWell, refiled
  <1>12. Within(args.path, w.m, done.m)
    <2>1. Within(args.path, w.m, refiled.m) /\ Within(args.path, w.m, w.m)
      BY <1>5, <1>6, <1>11 DEF Within
    <2>2. done.m \in {filed.m, refiled.m, w.m}
      BY <1>3
    <2> QED
      BY <1>10, <2>1, <2>2
  <1>13. Follows(w.s, done.s, now)
    BY <1>3, <1>6, <1>9, <1>10, <1>11 DEF Follows
  <1>14. done.err = "none" => done.s.args = args
    BY <1>3, <1>9, <1>10
  <1>15. ASSUME done.err = "none"
         PROVE  F!AsAsked(args, done.m)
    <2> DEFINE now_ == done.m[args.path]
    <2>1. CASE was = desired \/ desired = "absent" \/ was = "absent"
      <3>1. done.m = filed.m /\ filed.err = "none"
        BY <1>3, <1>15, <2>1
      <3>2. want = "touch" => node.type # "directory"
        <4>1. want = "touch" => w.m = m
          BY <1>1 DEF Ready, F!HasSource
        <4> QED
          BY <1>2, <2>1, <4>1
      <3>3. now_.type = desired /\ (want # "absent" => now_.data = node.data)
            /\ (want # "absent" /\ args.mode # Unset => now_.mode = args.mode)
        BY <1>1, <1>10, <3>1, <3>2
      <3>4. args.content # Unset => desired = "file"
        BY <1>1, UnsetAssumption DEF Wanted, FileInput, OneSource, F!HasSource
      <3>5. args.content # Unset => node.data = {args.content}
        BY <2>1, <3>4 DEF Ready
      <3>6. args.source # Unset => desired # "absent" /\ args.source \subseteq node.data
        BY <1>1, UnsetAssumption DEF Wanted, FileInput, Ready, F!HasSource
      <3> QED
        BY <1>1, <3>3, <3>4, <3>5, <3>6 DEF F!AsAsked, Wanted
    <2>2. CASE was # desired /\ desired # "absent" /\ was # "absent" /\ args.force = TRUE
      <3>1. done.m = refiled.m /\ gone.err = "none" /\ refiled.err = "none"
        BY <1>3, <1>15, <2>2
      <3>2. cleared.m[args.path].type = "absent"
        BY <1>5, <1>6, <3>1, FileNothing
      <3>3. now_.type = desired /\ (args.mode # Unset => now_.mode = args.mode)
        BY <1>1, <1>11, <2>2, <3>1, <3>2
      <3>4. args.source = Unset
        <4>1. args.source # Unset => desired = "directory"
          BY <1>1, <2>2, UnsetAssumption DEF Wanted, FileInput
        <4>2. args.source # Unset => was # "file"
          BY DEF Ready
        <4> QED
          BY <1>2, <2>2, <4>1, <4>2
      <3> QED
        BY <1>1, <2>2, <3>3, <3>4 DEF F!AsAsked, Wanted
    <2> QED
      BY <1>3, <1>15, <2>1, <2>2
  <1> QED
    BY <1>12, <1>13, <1>14, <1>15, Zenon DEF ConvergesWell, done

\* In check mode: what differs in type or mode is remembered or stamped.
ComparesWell(args, w, was, trouble, now) ==
  LET done == F!Converged(w, args, was, TRUE, trouble, now)
      node == w.m[args.path]
      asks == args.mode # Unset \/ args.remoteSource # Unset \/ args.ensure = "absent"
  IN /\ Follows(w.s, done.s, now) /\ done.s.stat = w.s.stat
     /\ done.err = "none" /\ was # Wanted(args) =>
          done.s.triggers.lastChanged = now /\ (asks => done.s.drifted # {})
     /\ done.err = "none" /\ was = Wanted(args) /\ was # "absent" /\ args.mode # Unset =>
          node.mode = args.mode \/ done.s.drifted # {}

\* file.go: in check mode the last steps take note of what is not as asked.
LEMMA FileCompares ==
  ASSUME NEW args, FileInput(args), NEW w, w.m \in FileMachines, IsStep(w), Checked(args, w),
         NEW was, NEW trouble, trouble.kind \in Outcomes, NEW now
  PROVE  ComparesWell(args, w, was, trouble, now)
  <1> DEFINE want == F!AnsibleState(args, w.makes, was)
             desired == IF want = "touch" THEN "file" ELSE want
             filed == F!executeFile(w, args, want, TRUE, trouble, now)
             told == F!updateStateDrifted(args, filed.s, {"ensure"}, now)
             moved == F!updateStateDrifted(args, w.s, {"mode", "remoteSource"}, now)
             node == w.m[args.path]
             asks == args.mode # Unset \/ args.remoteSource # Unset \/ args.ensure = "absent"
             done == F!Converged(w, args, was, TRUE, trouble, now)
  <1>1. /\ want \in {"absent", "file", "directory", "touch"}
        /\ Wanted(args) = desired
    <2>1. WantsWell(args, w.makes, was)
      BY FileWants
    <2> QED
      BY <2>1 DEF WantsWell
  <1>2. /\ was = desired => done = filed
        /\ was # desired /\ desired = "absent" => done.err = filed.err /\ done.s = told
        /\ was # desired /\ desired # "absent" => done.s = moved
    BY DEF F!Converged, F!Drifts, F!executeFile, F!After, F!Step, IsStep
  <1>3. ExecutesWell(w, args, want, TRUE, trouble, now)
    BY <1>1, FileExecutes
  <1>4. /\ DriftsWell(args, filed.s, {"ensure"}, now)
        /\ DriftsWell(args, w.s, {"mode", "remoteSource"}, now)
    BY FileDrifts, Zenon
  <1>5. /\ told.stat = filed.s.stat /\ Follows(filed.s, told, now) /\ told.triggers.lastChanged = now
        /\ told.drifted = filed.s.drifted \cup {p \in {"ensure"} : args[p] # Unset}
        /\ moved.stat = w.s.stat /\ Follows(w.s, moved, now) /\ moved.triggers.lastChanged = now
        /\ moved.drifted = w.s.drifted \cup {p \in {"mode", "remoteSource"} : args[p] # Unset}
    BY <1>4 DEF DriftsWell
  <1> HIDE DEF want, filed, told, moved, done
  <1>6. /\ Follows(w.s, filed.s, now) /\ filed.s.stat = w.s.stat
        /\ filed.err = "none" /\ want # "absent" /\ args.mode # Unset /\ node.mode # args.mode =>
             filed.s.drifted # {}
    BY <1>3, Zenon DEF ExecutesWell, filed, node
  <1>7. Follows(w.s, done.s, now) /\ done.s.stat = w.s.stat
    BY <1>2, <1>5, <1>6 DEF Follows
  <1>8. ASSUME was # Wanted(args)
        PROVE  done.s.triggers.lastChanged = now /\ (asks => done.s.drifted # {})
    <2>1. CASE desired = "absent"
      <3>1. args.ensure = "absent"
        BY <1>1, <2>1 DEF Wanted
      <3>2. "ensure" \in told.drifted
        BY <1>5, <3>1, UnsetAssumption
      <3> QED
        BY <1>1, <1>2, <1>5, <1>8, <2>1, <3>2
    <2>2. CASE desired # "absent"
      <3>1. done.s = moved
        BY <1>1, <1>2, <1>8, <2>2
      <3>2. args.ensure # "absent"
        BY <1>1, <2>2, UnsetAssumption DEF Wanted
      <3>3. asks => "mode" \in moved.drifted \/ "remoteSource" \in moved.drifted
        BY <1>5, <3>2
      <3> QED
        BY <1>5, <3>1, <3>3
    <2> QED
      BY <2>1, <2>2
  <1>9. done.err = "none" /\ was = Wanted(args) /\ was # "absent" /\ args.mode # Unset =>
          node.mode = args.mode \/ done.s.drifted # {}
    BY <1>1, <1>2, <1>6
  <1> HIDE DEF node, asks
  <1> QED
    BY <1>7, <1>8, <1>9, Zenon DEF ComparesWell, done, node, asks

\* And whichever way leads from there to what is wanted.
LEMMA FileStepsOn ==
  ASSUME NEW args, NEW w, IsStep(w), NEW was, NEW dry, NEW trouble, NEW now
  PROVE  IsStep(F!Converged(w, args, was, dry, trouble, now))
  <1>1. ASSUME NEW v, IsStep(v), NEW err
        PROVE  IsStep([v EXCEPT !.err = err])
    BY <1>1 DEF IsStep, F!Step
  <1>2. ASSUME NEW v, IsStep(v), NEW props
        PROVE  IsStep(F!Drifts(v, args, props, now))
    BY <1>2 DEF IsStep, F!Step, F!Drifts
  <1>3. ASSUME NEW v, NEW want, NEW real
        PROVE  IsStep(F!executeFile(v, args, want, real, trouble, now))
    BY DEF F!executeFile, F!After, F!Step, IsStep
  <1>4. ASSUME NEW v, NEW want
        PROVE  IsStep(F!Forced(v, args, want, trouble, now))
    <2> DEFINE gone == F!Remove(v.m, args.path, F!Outcome(trouble, "remove"))
               filed == F!executeFile([v EXCEPT !.m = gone.m], args, IF want = "file" THEN "touch" ELSE want,
                                      FALSE, trouble, now)
               err == IF gone.err # "none" THEN gone.err ELSE filed.err
    <2>1. IsStep(filed)
      BY <1>3, Zenon
    <2>2. F!Forced(v, args, want, trouble, now) = [filed EXCEPT !.err = IF gone.err # "none" THEN gone.err ELSE @]
      BY Zenon DEF F!Forced
    <2> HIDE DEF filed, gone
    <2>3. F!Forced(v, args, want, trouble, now) = [filed EXCEPT !.err = err]
      BY <2>2
    <2> HIDE DEF err
    <2>4. IsStep([filed EXCEPT !.err = err])
      BY <1>1, <2>1
    <2> QED
      BY <2>3, <2>4, Zenon
  <1> QED
    BY <1>1, <1>2, <1>3, <1>4 DEF F!Converged

\* The time in a state is that of now or of the state before.
Dated(state, s, now) == s.triggers.lastChanged \in {now, state.triggers.lastChanged}

\* createOrUpdate outside check mode: as asked when there is no error, and the state
\* remembers what an archive left.
MakesWell(args, state, m, trouble, now) ==
  LET made == F!createOrUpdate(args, state, FALSE, m, trouble, now)
  IN /\ Within(args.path, m, made.m) /\ Dated(state, made.s, now)
     /\ made.err = "none" =>
          /\ made.s.args = args /\ F!AsAsked(args, made.m)
          /\ args.source # Unset => Recalls(args.source, made.s)

\* file.go: createOrUpdate outside check mode, from whatever is at the path.
LEMMA FileMakes ==
  ASSUME NEW args, FileInput(args), NEW state, NEW m \in FileMachines,
         NEW trouble, trouble.kind \in Outcomes, NEW now
  PROVE  MakesWell(args, state, m, trouble, now)
  <1> DEFINE looked == F!Outcome(trouble, "stat")
             again == F!Outcome(trouble, "restat")
             w == F!Sourced(args, state, FALSE, m, trouble, now)
             done == F!Converged(w, args, m[args.path].type, FALSE, trouble, now)
             node == done.m[args.path]
             settled == F!FileState(done.s, {}, F!Checksum(node))
             made == F!createOrUpdate(args, state, FALSE, m, trouble, now)
  <1>1. IsStep(w) /\ IsStep(done)
    BY FileSteps, FileStepsOn, Zenon
  <1>2. SourcesWell(args, state, FALSE, m, trouble, now, w)
    BY FileSources
  <1> HIDE DEF w
  <1>3. /\ Within(args.path, m, w.m) /\ Follows(state, w.s, now)
        /\ w.err = "none" => Ready(args, m, w)
    BY <1>2 DEF SourcesWell
  <1>4. w.err = "none" => ConvergesWell(args, m, w, trouble, now)
    BY <1>1, <1>3, FileConverges DEF Within
  <1>5. w.err = "none" =>
          /\ Within(args.path, w.m, done.m) /\ Follows(w.s, done.s, now)
          /\ done.err = "none" => done.s.args = args /\ F!AsAsked(args, done.m)
    BY <1>4, Zenon DEF ConvergesWell
  <1> HIDE DEF done
  <1>6. /\ looked.kind # "ok" => made.m = m /\ made.s = state /\ made.err # "none"
        /\ looked.kind = "ok" /\ w.err # "none" => made = w
        /\ looked.kind = "ok" /\ w.err = "none" /\ done.err # "none" => made = done
        /\ looked.kind = "ok" /\ w.err = "none" /\ done.err = "none" =>
             /\ made.m = done.m
             /\ again.kind # "ok" => made.s = done.s /\ made.err # "none"
             /\ again.kind = "ok" => made.s = settled
    <2>1. looked.kind \in Outcomes /\ again.kind \in Outcomes
      BY DEF F!Outcome, F!NoTrouble, Outcomes
    <2> HIDE DEF looked, again
    <2>2. made = IF looked.kind # "ok" THEN F!Step(m, state, looked.kind, "none")
                 ELSE IF w.err # "none" THEN w
                 ELSE IF done.err # "none" THEN done
                 ELSE F!Settled(done, args, trouble)
      BY DEF F!createOrUpdate, w, done, looked
    <2>3. F!Settled(done, args, trouble)
            = IF again.kind # "ok" THEN [done EXCEPT !.err = again.kind]
              ELSE [done EXCEPT !.s = F!FileState(@, {}, F!Checksum(node))]
      BY Zenon DEF F!Settled, again
    <2> HIDE DEF made
    <2>4. /\ [done EXCEPT !.err = again.kind] = F!Step(done.m, done.s, again.kind, done.makes)
          /\ [done EXCEPT !.s = F!FileState(@, {}, F!Checksum(node))]
               = F!Step(done.m, settled, done.err, done.makes)
      <3> DEFINE stat == F!Checksum(node)
      <3> HIDE DEF stat
      <3>1. [done EXCEPT !.s = F!FileState(@, {}, stat)]
              = F!Step(done.m, F!FileState(done.s, {}, stat), done.err, done.makes)
        BY <1>1 DEF IsStep, F!Step
      <3>2. [done EXCEPT !.err = again.kind] = F!Step(done.m, done.s, again.kind, done.makes)
        BY <1>1 DEF IsStep, F!Step
      <3> QED
        BY <3>1, <3>2, Zenon DEF stat
    <2> HIDE DEF settled
    <2> QED
      BY <2>1, <2>2, <2>3, <2>4 DEF F!Step, Outcomes
  <1>7. settled.drifted = {} /\ settled.stat = F!Checksum(node) /\ settled.args = done.s.args
        /\ settled.triggers = done.s.triggers
    BY DEF F!FileState
  <1> HIDE DEF made, settled, looked, again
  <1>8. Within(args.path, m, made.m)
    BY <1>3, <1>5, <1>6 DEF Within
  <1>9. Dated(state, made.s, now)
    <2>1. Dated(state, w.s, now) /\ (w.err = "none" => Dated(w.s, done.s, now))
      BY <1>3, <1>5 DEF Follows, Dated
    <2> QED
      BY <1>6, <1>7, <2>1 DEF Dated
  <1>10. ASSUME made.err = "none"
         PROVE  /\ made.s.args = args /\ F!AsAsked(args, made.m)
                /\ args.source # Unset => Recalls(args.source, made.s)
    <2>1. /\ w.err = "none" /\ done.err = "none" /\ made.s = settled /\ made.m = done.m
      BY <1>6, <1>10
    <2>2. done.s.args = args /\ F!AsAsked(args, done.m)
      BY <1>5, <2>1
    <2>3. args.source # Unset => node.type = "directory" /\ args.source \subseteq node.data
      BY <2>2, UnsetAssumption DEF F!AsAsked, FileInput, F!HasSource
    <2>4. args.source # Unset => Recalls(args.source, settled)
      BY <1>7, <2>3 DEF Recalls, F!Checksum
    <2> QED
      BY <1>7, <2>1, <2>2, <2>4
  <1> QED
    BY <1>8, <1>9, <1>10, Zenon DEF MakesWell, made

\* createOrUpdate in check mode: what is not as asked is stamped or remembered.
ObservesWell(args, state, m, trouble, now) ==
  LET found == F!createOrUpdate(args, state, TRUE, m, trouble, now)
      right == F!AsAsked(args, m)
      asks == F!HasSource(args) \/ args.mode # Unset \/ args.ensure = "absent"
      recalls == args.source # Unset => Recalls(args.source, state)
  IN found.err = "none" =>
       /\ Dated(state, found.s, now)
       /\ args.source # Unset /\ recalls => Recalls(args.source, found.s)
       /\ trouble = NoTrouble /\ recalls =>
            /\ right \/ found.s.triggers.lastChanged = now \/ found.s.drifted # {}
            /\ Check /\ asks => right \/ found.s.drifted # {}

\* file.go: createOrUpdate in check mode, for any machine and state.
LEMMA FileObserves ==
  ASSUME NEW args, FileInput(args), NEW state, NEW m \in FileMachines,
         NEW trouble, trouble.kind \in Outcomes, NEW now
  PROVE  ObservesWell(args, state, m, trouble, now)
  <1> DEFINE looked == F!Outcome(trouble, "stat")
             probed == F!Outcome(trouble, "probe")
             node == m[args.path]
             w == F!Sourced(args, state, TRUE, m, trouble, now)
             done == F!Converged(w, args, node.type, TRUE, trouble, now)
             fresh == F!updateFile(args, state, TRUE, now)
             found == F!createOrUpdate(args, state, TRUE, m, trouble, now)
             right == F!AsAsked(args, m)
             asks == F!HasSource(args) \/ args.mode # Unset \/ args.ensure = "absent"
             recalls == args.source # Unset => Recalls(args.source, state)
  <1>1. IsStep(w)
    BY FileSteps, Zenon
  <1>2. SourcesWell(args, state, TRUE, m, trouble, now, w)
    BY FileSources
  <1>3. /\ trouble = NoTrouble => looked.kind = "ok" /\ probed.kind = "ok"
        /\ looked.kind # "none"
    BY DEF F!Outcome, F!NoTrouble, NoTrouble, Outcomes
  <1>4. found = IF ~Check \/ probed.kind # "ok" THEN F!Step(m, fresh, "none", "none")
                ELSE IF looked.kind # "ok" THEN F!Step(m, state, looked.kind, "none")
                ELSE IF w.err # "none" THEN w
                ELSE done
    BY DEF F!createOrUpdate
  <1> HIDE DEF w, looked, probed, found
  <1>5. /\ Follows(state, w.s, now) /\ w.m = m
        /\ w.err = "none" => Checked(args, w)
        /\ args.source # Unset /\ recalls => Recalls(args.source, w.s)
        /\ w.err = "none" /\ trouble = NoTrouble => Noticed(args, state, m, w.s)
    BY <1>2 DEF SourcesWell
  <1>6. w.err = "none" => ComparesWell(args, w, node.type, trouble, now)
    BY <1>1, <1>5, FileCompares
  <1>7. w.err = "none" =>
          /\ Follows(w.s, done.s, now) /\ done.s.stat = w.s.stat
          /\ done.err = "none" /\ node.type # Wanted(args) =>
               /\ done.s.triggers.lastChanged = now
               /\ args.mode # Unset \/ args.remoteSource # Unset \/ args.ensure = "absent" =>
                    done.s.drifted # {}
          /\ done.err = "none" /\ node.type = Wanted(args) /\ node.type # "absent" /\ args.mode # Unset =>
               node.mode = args.mode \/ done.s.drifted # {}
    <2> HIDE DEF done
    <2>1. w.m[args.path] = node
      BY <1>5
    <2> QED
      BY <1>6, <2>1, Zenon DEF ComparesWell, done
  <1>8. /\ fresh.triggers.lastChanged = now /\ fresh.drifted = state.drifted /\ fresh.stat = state.stat
    BY DEF F!updateFile, F!FileState, F!updateState, F!UpdateTriggerState
  <1> HIDE DEF done, fresh
  <1>9. ASSUME found.err = "none"
        PROVE  \/ found.s = fresh /\ (trouble = NoTrouble => ~Check)
               \/ found.s = done.s /\ done.err = "none" /\ w.err = "none"
    BY <1>3, <1>4, <1>9 DEF F!Step
  <1>10. ASSUME found.err = "none"
         PROVE  /\ Dated(state, found.s, now)
                /\ args.source # Unset /\ recalls => Recalls(args.source, found.s)
    <2>1. CASE found.s = fresh
      BY <1>8, <2>1 DEF Dated, Recalls
    <2>2. CASE found.s = done.s /\ w.err = "none"
      BY <1>5, <1>7, <2>2 DEF Dated, Recalls, Follows
    <2> QED
      BY <1>9, <1>10, <2>1, <2>2
  <1>11. ASSUME found.err = "none", trouble = NoTrouble, recalls
         PROVE  /\ right \/ found.s.triggers.lastChanged = now \/ found.s.drifted # {}
                /\ Check /\ asks => right \/ found.s.drifted # {}
    <2>1. CASE found.s = fresh /\ ~Check
      BY <1>8, <2>1
    <2>2. CASE found.s = done.s /\ done.err = "none" /\ w.err = "none"
      <3>1. Noticed(args, state, m, w.s)
        BY <1>5, <1>11, <2>2
      <3>2. w.s.drifted # {} => done.s.drifted # {}
        BY <1>7, <2>2 DEF Follows
      <3>3. \/ done.s.drifted # {}
            \/ /\ args.content # Unset => node.type = "file" /\ node.data = {args.content}
               /\ args.source # Unset => node.type = "directory" /\ args.source \subseteq node.data
        BY <1>11, <3>1, <3>2 DEF Noticed
      <3>4. CASE node.type # Wanted(args)
        <4>1. args.content # Unset => Wanted(args) = "file"
          BY UnsetAssumption DEF Wanted, FileInput, OneSource, F!HasSource
        <4>2. args.source # Unset => Wanted(args) = "directory"
          BY UnsetAssumption DEF Wanted, FileInput, F!HasSource
        <4> QED
          BY <1>7, <2>2, <3>3, <3>4, <4>1, <4>2 DEF F!HasSource
      <3>5. CASE node.type = Wanted(args)
        BY <1>7, <2>2, <3>3, <3>5 DEF F!AsAsked, Wanted
      <3> QED
        BY <3>4, <3>5
    <2> QED
      BY <1>9, <1>11, <2>1, <2>2
  <1> HIDE DEF recalls, right, asks
  <1> QED
    BY <1>10, <1>11, Zenon DEF ObservesWell, found, recalls, right, asks

\* A create starts from a state that is stamped.
Anew(args, now) == F!FileState(F!updateState(args, F!NoState, TRUE, now), {}, Unset)

\* file.go: Create that returns no error has done what was asked, and is stamped.
LEMMA FileCreates ==
  ASSUME NEW args, FileInput(args), NEW m \in FileMachines, NEW trouble, trouble.kind \in Outcomes, NEW now
  PROVE  CreatesWell("File", args, m, trouble, now)
  <1> DEFINE was == Create("File", args, FALSE, m, trouble, now)
  <1>1. was = F!createOrUpdate(args, Anew(args, now), FALSE, m, trouble, now)
    BY Zenon DEF Create, F!Create, Anew
  <1>2. MakesWell(args, Anew(args, now), m, trouble, now)
    BY FileMakes
  <1> HIDE DEF was
  <1>3. /\ Within(args.path, m, was.m) /\ Dated(Anew(args, now), was.s, now)
        /\ was.err = "none" => F!AsAsked(args, was.m)
    BY <1>1, <1>2 DEF MakesWell
  <1>4. was.s.triggers.lastChanged = now
    BY <1>3 DEF Dated, Anew, F!FileState, F!updateState, F!UpdateTriggerState
  <1>5. was.m \in Shapes("File")
    BY <1>3 DEF Shapes, Machines, Within
  <1>6. was.err = "none" =>
          /\ AsAsked("File", args, "create", was.m) /\ AsAsked("File", args, "replace", was.m)
          /\ Kept("File", args, m, was) /\ was.s.triggers.lastChanged = now
    BY <1>3, <1>4 DEF AsAsked, Kept, Clears
  <1> QED
    BY <1>5, <1>6, Zenon DEF was, CreatesWell

\* file.go: Update that returns no error has done what was asked.
LEMMA FileUpdates ==
  ASSUME NEW args, FileInput(args), NEW state, ~F!Diff(args, state).replace, NEW m \in FileMachines,
         NEW trouble, trouble.kind \in Outcomes, NEW now
  PROVE  UpdatesWell("File", args, state, m, trouble, now)
  <1> DEFINE was == Update("File", args, state, FALSE, m, trouble, now)
  <1>1. was = F!createOrUpdate(args, state, FALSE, m, trouble, now)
    BY DEF Update, F!Update
  <1>2. MakesWell(args, state, m, trouble, now)
    BY FileMakes
  <1>3. args.path = state.args.path
    BY DEF F!Diff, F!Merged
  <1> HIDE DEF was
  <1>4. /\ Within(args.path, m, was.m) /\ Dated(state, was.s, now)
        /\ was.err = "none" => F!AsAsked(args, was.m)
    BY <1>1, <1>2 DEF MakesWell
  <1>5. was.m \in Shapes("File")
    BY <1>4 DEF Shapes, Machines, Within
  <1>6. was.err = "none" =>
          /\ AsAsked("File", args, "update", was.m) /\ Shed("File", args, state.args, "update", was.m)
          /\ Kept("File", args, m, was) /\ was.s.triggers.lastChanged \in {now, state.triggers.lastChanged}
    BY <1>3, <1>4 DEF AsAsked, Kept, Clears, Shed, Dated
  <1> QED
    BY <1>5, <1>6, Zenon DEF was, UpdatesWell

\* What a delete does to the machine.
RemovesWell(state, m, trouble) ==
  LET gone == Delete("File", state, m, trouble)
  IN /\ Within(state.args.path, m, gone.m)
     /\ gone.err = "none" /\ trouble.kind # "unreachable" => gone.m[state.args.path].type = "absent"

\* file.go: Delete takes away what is at the path, and nothing else.
LEMMA FileRemoves ==
  ASSUME NEW state, FileInput(state.args), NEW m \in FileMachines, NEW trouble, trouble.kind \in Outcomes
  PROVE  RemovesWell(state, m, trouble)
  <1> DEFINE call == F!Outcome(trouble, "remove")
             path == state.args.path
             task == F!Turn(m, path, F!Absent, FALSE, call)
             gone == Delete("File", state, m, trouble)
  <1>1. call.kind \in Outcomes /\ (call.kind = "unreachable" => trouble.kind = "unreachable")
    BY DEF F!Outcome, F!NoTrouble, Outcomes
  <1>2. path \in Paths
    BY DEF FileInput
  <1>3. gone.m = task.m /\ (gone.err = "none" => task.err \in {"none", "unreachable"})
    BY DEF Delete, F!Delete, F!Deleted, F!Remove
  <1>4. task.err = "unreachable" => call.kind = "unreachable"
    BY <1>1 DEF F!Turn, F!Ran, Outcomes
  <1> HIDE DEF call
  <1>5. TurnsWell(m, path, F!Absent, FALSE, call)
    BY <1>1, <1>2, FileTurns, FileNothing
  <1>6. Within(path, m, task.m) /\ (task.err = "none" => task.m[path] = F!Absent)
    BY <1>5 DEF TurnsWell
  <1> HIDE DEF task, gone
  <1>7. /\ Within(path, m, gone.m)
        /\ gone.err = "none" /\ trouble.kind # "unreachable" => gone.m[path].type = "absent"
    BY <1>1, <1>3, <1>4, <1>6, FileNothing
  <1> QED
    BY <1>7, Zenon DEF RemovesWell, gone

\* file.go: Delete that reaches the machine and returns no error leaves nothing.
LEMMA FileDeletes ==
  ASSUME NEW state, FileInput(state.args), NEW m \in FileMachines, NEW trouble, trouble.kind \in Outcomes
  PROVE  DeletesWell("File", state, m, trouble)
  <1> DEFINE gone == Delete("File", state, m, trouble)
  <1>1. RemovesWell(state, m, trouble)
    BY FileRemoves
  <1> HIDE DEF gone
  <1>2. /\ Within(state.args.path, m, gone.m)
        /\ gone.err = "none" /\ trouble.kind # "unreachable" => gone.m[state.args.path].type = "absent"
    BY <1>1, Zenon DEF RemovesWell, gone
  <1>3. gone.m \in Shapes("File") /\ Clears("File", state, gone.m)
    BY <1>2 DEF Shapes, Machines, Within, Clears
  <1>4. gone.err = "none" /\ trouble.kind # "unreachable" => Gone("File", state.args, gone.m)
    BY <1>2 DEF Gone, F!Gone
  <1> QED
    BY <1>3, <1>4, Zenon DEF gone, DeletesWell

\* file.go: Read that reaches the machine sees what is not as asked, and stamps it
\* unless it remembers it already.
LEMMA FileReads ==
  ASSUME NEW state, FileInput(state.args), Remembers("File", state), NEW m \in FileMachines,
         NEW trouble, trouble.kind \in Outcomes, NEW now
  PROVE  ReadsWell("File", state, m, trouble, now)
  <1> DEFINE args == state.args
             found == Read("File", args, state, m, trouble, now)
             right == F!AsAsked(args, m)
             asks == F!HasSource(args) \/ args.mode # Unset \/ args.ensure = "absent"
  <1>1. found = F!createOrUpdate(args, state, TRUE, m, trouble, now)
    BY DEF Read, F!Read
  <1>2. ObservesWell(args, state, m, trouble, now)
    BY FileObserves
  <1>3. args.source # Unset => Recalls(args.source, state)
    BY DEF Remembers
  <1> HIDE DEF found
  <1>4. found.err = "none" =>
          /\ Dated(state, found.s, now)
          /\ trouble = NoTrouble =>
               /\ right \/ found.s.triggers.lastChanged = now \/ found.s.drifted # {}
               /\ Check /\ asks => right \/ found.s.drifted # {}
    BY <1>1, <1>2, <1>3, Zenon DEF ObservesWell
  <1>5. /\ Clears("File", found.s, m) /\ Bounces("File", args)
        /\ Tells("File", args) => Check /\ asks
        /\ AsAsked("File", args, "refresh", m) <=> right
    BY DEF Clears, Bounces, Tells, AsAsked
  <1>6. found.s.drifted # {} => Diff("File", args, found.s).changes
    BY DEF Diff, F!Diff, F!Merged
  <1> HIDE DEF right, asks
  <1>7. found.err = "none" =>
          /\ found.s.triggers.lastChanged \in {now, state.triggers.lastChanged}
          /\ trouble = NoTrouble =>
               /\ Tells("File", args) => AsAsked("File", args, "refresh", m) \/ Diff("File", args, found.s).changes
               /\ AsAsked("File", args, "refresh", m) \/ found.s.triggers.lastChanged = now \/ found.s.drifted # {}
    BY <1>4, <1>5, <1>6 DEF Dated
  <1> QED
    BY <1>5, <1>7, Zenon DEF found, ReadsWell

\* What the engine keeps remembers: the state of a create, an update and a refresh.
RemembersWell(k, args, state, m, trouble, now) ==
  LET created == Create(k, args, FALSE, m, trouble, now)
      updated == Update(k, args, state, FALSE, m, trouble, now)
      found == Read(k, args, state, m, trouble, now)
  IN /\ created.err = "none" => Remembers(k, created.s)
     /\ updated.err = "none" => Remembers(k, updated.s)
     /\ found.err = "none" /\ args = state.args /\ Remembers(k, state) => Remembers(k, found.s)

\* file.go: what the state keeps of the path is what an archive left there, or drifted.
LEMMA FileRemembers ==
  ASSUME NEW args, FileInput(args), NEW state, NEW m \in FileMachines, NEW trouble, trouble.kind \in Outcomes, NEW now
  PROVE  RemembersWell("File", args, state, m, trouble, now)
  <1> DEFINE created == Create("File", args, FALSE, m, trouble, now)
             updated == Update("File", args, state, FALSE, m, trouble, now)
             found == Read("File", args, state, m, trouble, now)
  <1>1. /\ created = F!createOrUpdate(args, Anew(args, now), FALSE, m, trouble, now)
        /\ updated = F!createOrUpdate(args, state, FALSE, m, trouble, now)
        /\ found = F!createOrUpdate(args, state, TRUE, m, trouble, now)
    BY Zenon DEF Create, F!Create, Anew, Update, F!Update, Read, F!Read
  <1> HIDE DEF created, updated, found
  <1>2. /\ created.err = "none" =>
             created.s.args = args /\ (args.source # Unset => Recalls(args.source, created.s))
        /\ updated.err = "none" =>
             updated.s.args = args /\ (args.source # Unset => Recalls(args.source, updated.s))
    <2>1. MakesWell(args, state, m, trouble, now) /\ MakesWell(args, Anew(args, now), m, trouble, now)
      BY FileMakes
    <2> QED
      BY <1>1, <2>1, Zenon DEF MakesWell
  <1>3. found.s.args \in {args, state.args}
    <2>1. Returns(args, state, TRUE, m, trouble, now)
      BY FileReturns, Zenon
    <2> QED
      BY <1>1, <2>1 DEF Returns
  <1>4. found.err = "none" /\ args.source # Unset /\ Recalls(args.source, state) => Recalls(args.source, found.s)
    <2>1. ObservesWell(args, state, m, trouble, now)
      BY FileObserves
    <2> QED
      BY <1>1, <2>1, Zenon DEF ObservesWell
  <1>5. /\ created.err = "none" => Remembers("File", created.s)
        /\ updated.err = "none" => Remembers("File", updated.s)
        /\ found.err = "none" /\ args = state.args /\ Remembers("File", state) => Remembers("File", found.s)
    BY <1>2, <1>3, <1>4 DEF Remembers
  <1> QED
    BY <1>5, Zenon DEF RemembersWell, created, updated, found


-----------------------------------------------------------------------------
(* Any of these kinds. *)

\* A group or user that is gone is not brought back for another name.
Spares(k, args, old, m, trouble, now) ==
  args.name # old.name /\ Gone(k, old, m) => Gone(k, old, Create(k, args, FALSE, m, trouble, now).m)

\* group.go: creating under one name does not bring back another that is gone.
LEMMA GroupSpares ==
  ASSUME NEW args, GroupInput(args), NEW old, GroupInput(old), NEW m \in G!Machines,
         NEW trouble, trouble.kind \in Outcomes, NEW now
  PROVE  Spares("Group", args, old, m, trouble, now)
  <1> DEFINE call == G!Outcome(trouble, 1)
             task == G!Task(m, args, FALSE, call)
             made == Create("Group", args, FALSE, m, trouble, now)
  <1>1. call.kind \in Outcomes
    BY DEF G!Outcome, G!NoTrouble, Outcomes
  <1> HIDE DEF call
  <1>2. GroupRuns(m, args, call)
    BY <1>1, GroupTask
  <1>3. made.m = task.m
    BY DEF Create, G!Create, G!Created, G!Response, call
  <1>4. \A h \in Groups \ {args.name} : task.m[h] = m[h]
    BY <1>2 DEF GroupRuns
  <1> HIDE DEF task, made
  <1>5. args.name # old.name /\ Gone("Group", old, m) => Gone("Group", old, made.m)
    BY <1>3, <1>4 DEF GroupInput, Gone, G!Gone
  <1> QED
    BY <1>5, Zenon DEF made, Spares

\* user.go: creating under one name does not bring back another that is gone.
LEMMA UserSpares ==
  ASSUME NEW args, UserInput(args), NEW old, UserInput(old), NEW m \in U!Machines,
         NEW trouble, trouble.kind \in Outcomes, NEW now
  PROVE  Spares("User", args, old, m, trouble, now)
  <1> DEFINE call == U!Outcome(trouble, 1)
             task == U!Task(m, args, FALSE, call)
             made == Create("User", args, FALSE, m, trouble, now)
  <1>1. call.kind \in Outcomes
    BY DEF U!Outcome, U!NoTrouble, Outcomes
  <1> HIDE DEF call
  <1>2. UserRuns(m, args, call)
    BY <1>1, UserTask
  <1>3. made.m = task.m
    BY DEF Create, U!Create, U!Created, U!Response, call
  <1>4. \A v \in Users \ {args.name} : task.m.accounts[v] = m.accounts[v]
    BY <1>2 DEF UserRuns
  <1> HIDE DEF task, made
  <1>5. args.name # old.name /\ Gone("User", old, m) => Gone("User", old, made.m)
    BY <1>3, <1>4 DEF UserInput, Gone, U!Gone
  <1> QED
    BY <1>5, Zenon DEF made, Spares

\* The kinds whose inputs can be sound.
LEMMA SoundKinds ==
  ASSUME NEW k, NEW args, Sound(k, args)
  PROVE  \/ k = "Package" /\ PackageInput(args)
         \/ k = "Apt" /\ AptInput(args)
         \/ k = "Group" /\ GroupInput(args)
         \/ k = "User" /\ UserInput(args)
         \/ k = "Service" /\ ServiceInput(args)
         \/ k = "Exec" /\ ExecInput(args)
         \/ k = "File" /\ FileInput(args)
  BY DEF Sound

\* The trouble that a call of these kinds meets.
LEMMA TroubleKinds ==
  ASSUME NEW k, NEW args, Sound(k, args), NEW trouble \in TroublesOf(k)
  PROVE  trouble.kind \in Outcomes
  <1>1. ASSUME NEW calls, NEW parts, trouble \in Troubles(calls, parts)
        PROVE  trouble.kind \in Outcomes
    BY <1>1 DEF Troubles, NoTrouble, Outcomes
  <1> QED
    BY <1>1, SoundKinds, Zenon DEF TroublesOf

\* Create of every such kind.
LEMMA Creating ==
  ASSUME NEW k, NEW args, Sound(k, args), NEW m \in Shapes(k), NEW trouble, trouble.kind \in Outcomes, NEW now
  PROVE  CreatesWell(k, args, m, trouble, now)
  BY SoundKinds, PackageCreates, AptCreates, GroupCreates, UserCreates, ServiceCreates, ExecCreates,
     FileCreates DEF Shapes, Machines

\* Update of every such kind.
LEMMA Updating ==
  ASSUME NEW k, NEW args, Sound(k, args), NEW state, Sound(k, state.args), ~Diff(k, args, state).replace,
         NEW m \in Shapes(k), NEW trouble, trouble.kind \in Outcomes, NEW now
  PROVE  UpdatesWell(k, args, state, m, trouble, now)
  <1>1. CASE k = "Package"
    BY <1>1, SoundKinds, PackageUpdates DEF Shapes, Machines
  <1>2. CASE k = "Apt"
    BY <1>2, SoundKinds, AptUpdates DEF Shapes, Machines
  <1>3. CASE k = "Group"
    BY <1>3, SoundKinds, GroupUpdates DEF Shapes, Machines, Diff
  <1>4. CASE k = "User"
    BY <1>4, SoundKinds, UserUpdates DEF Shapes, Machines, Diff
  <1>5. CASE k = "Service"
    BY <1>5, SoundKinds, ServiceUpdates DEF Shapes, Machines, Diff
  <1>6. CASE k = "Exec"
    BY <1>6, SoundKinds, ExecUpdates DEF Shapes, Machines
  <1>7. CASE k = "File"
    BY <1>7, SoundKinds, FileUpdates DEF Shapes, Machines, Diff
  <1> QED
    BY <1>1, <1>2, <1>3, <1>4, <1>5, <1>6, <1>7, SoundKinds

\* Delete of every such kind.
LEMMA Deleting ==
  ASSUME NEW k, NEW state, Sound(k, state.args), NEW m \in Shapes(k), NEW trouble, trouble.kind \in Outcomes
  PROVE  DeletesWell(k, state, m, trouble)
  BY SoundKinds, PackageDeletes, AptDeletes, GroupDeletes, UserDeletes, ServiceDeletes, ExecDeletes,
     FileDeletes DEF Shapes, Machines

\* Read of every such kind.
LEMMA Reading ==
  ASSUME NEW k, NEW state, Sound(k, state.args), Remembers(k, state), NEW m \in Shapes(k), NEW trouble, trouble.kind \in Outcomes,
         NEW now
  PROVE  ReadsWell(k, state, m, trouble, now)
  BY SoundKinds, PackageReads, AptReads, GroupReads, UserReads, ServiceReads, ExecReads,
     FileReads DEF Shapes, Machines

\* The machines there are at first are such machines.
LEMMA Shaping == \A k : Machines(k) \subseteq Shapes(k)
  <1>1. F!Machines \subseteq FileMachines
    <2>1. F!Nodes \subseteq FileNodes
      BY FileNothing DEF F!Nodes, F!Files, F!Directories, FileNodes
    <2> QED
      BY <2>1 DEF F!Machines, FileMachines
  <1>2. Machines("File") = F!Machines
    BY DEF Machines
  <1> QED
    BY <1>1, <1>2 DEF Shapes, Machines

\* What every such kind remembers.
LEMMA Remembering ==
  ASSUME NEW k, NEW args, Sound(k, args), NEW state, NEW m \in Shapes(k),
         NEW trouble, trouble.kind \in Outcomes, NEW now
  PROVE  RemembersWell(k, args, state, m, trouble, now)
  <1>1. CASE k = "File"
    BY <1>1, SoundKinds, FileRemembers DEF Shapes, Machines
  <1>2. CASE k # "File"
    BY <1>2, Zenon DEF RemembersWell, Remembers
  <1> QED
    BY <1>1, <1>2

\* Creating a replacement spares what its forerunner left cleared.
LEMMA Sparing ==
  ASSUME NEW k \in {"Group", "User"}, NEW args, Sound(k, args), NEW old, Sound(k, old),
         NEW m \in Shapes(k), NEW trouble, trouble.kind \in Outcomes, NEW now
  PROVE  Spares(k, args, old, m, trouble, now)
  BY SoundKinds, GroupSpares, UserSpares DEF Shapes, Machines
=============================================================================
