-------------------------------- MODULE File --------------------------------
(***************************************************************************)
(* The handlers of the File resource (provider/resource/file.go).          *)
(*                                                                         *)
(* The machine gives what is at each path: nothing, a file with its        *)
(* content (at most one piece of data, none when empty) or a directory     *)
(* with the data in it, and a mode, which stands for every attribute.      *)
(* Parent directories exist, there are no links, and a source that is a    *)
(* path of the machine is a file.  A URL is the data it serves.            *)
(***************************************************************************)
EXTENDS Handlers

CONSTANTS
  Paths,       \* paths on the machine
  Data,        \* what files contain, archives hold and URLs serve
  Modes,       \* modes of files and directories
  DefaultMode  \* the mode of what is created without asking for one

Absent == [type |-> "absent", data |-> {}, mode |-> DefaultMode]
Files == [type : {"file"}, data : {{}} \cup {{d} : d \in Data}, mode : Modes]
Directories == [type : {"directory"}, data : SUBSET Data, mode : Modes]
Nodes == {Absent} \cup Files \cup Directories
Machines == [Paths -> Nodes]

Parts == {"work"}

(* The calls of a handler: the probe of a preview, the stats before and     *)
(* after, those that fetch a source (download, stage or look at it), put it *)
(* in place, remove what is in the way, and set type and mode.              *)
Looks == {"probe", "stat", "restat"}
Works == {"fetch", "put", "remove", "file"}

-----------------------------------------------------------------------------
(* Ansible modules and agent calls: what they make of the node at a path.   *)

\* A call that turns the node at a path into another.
Turn(m, path, node, dry, call) ==
  LET goal == [m EXCEPT ![path] = node]
  IN Ran(m, goal, IF call.done = {} THEN m ELSE goal, dry, call)

ModeOf(args, node) == IF args.mode = Unset THEN node.mode ELSE args.mode

\* copy puts the data into a directory that is in the way.
Put(node, args, data) ==
  IF node.type = "directory" THEN [node EXCEPT !.data = @ \cup data]
  ELSE [type |-> "file", data |-> data, mode |-> ModeOf(args, node)]

Copy(m, args, data, dry, call) ==
  Turn(m, args.path, Put(m[args.path], args, data), dry, call)

\* get_url leaves a file alone that is newer than what the URL serves, unless
\* it is forced; here every file is.
GetUrl(m, args, dry, call) ==
  LET node == m[args.path]
      keeps == node.type = "file" /\ args.force # TRUE
  IN Turn(m, args.path, IF keeps THEN node ELSE Put(node, args, {args.remoteSource}), dry, call)

\* The agent's Untar and the module unarchive add to a directory, which Untar
\* makes if need be: entries that only an older archive had stay, and so does
\* the tail of one that got shorter.
Unpack(m, path, data, call) ==
  LET node == m[path]
      filled == [node EXCEPT !.type = "directory", !.data = @ \cup data]
  IN IF node.type = "file" /\ call.kind # "unreachable" THEN RanInVain(m)
     ELSE Turn(m, path, filled, FALSE, call)

Remove(m, path, call) == Turn(m, path, Absent, FALSE, call)

\* The module "file" with state want; differs are the attributes in its diff.
File(m, args, want, dry, call) ==
  LET node == m[args.path]
      given == [node EXCEPT !.mode = ModeOf(args, node)]
      refuses == \/ want = "file" /\ node.type # "file"
                 \/ want = "directory" /\ node.type = "file"
      becomes == CASE want = "absent" -> Absent
                   [] want = "touch" /\ node.type = "absent" -> [given EXCEPT !.type = "file"]
                   [] want = "directory" -> [given EXCEPT !.type = "directory"]
                   [] OTHER -> given
      ran == IF refuses /\ call.kind # "unreachable" THEN RanInVain(m)
             ELSE Turn(m, args.path, becomes, dry, call)
  IN [ m |-> ran.m, err |-> ran.err,
       differs |-> (IF want # node.type THEN {"ensure"} ELSE {})
                     \cup (IF becomes.mode # node.mode THEN {"mode"} ELSE {}) ]

-----------------------------------------------------------------------------
(* The state also has the properties found drifted and the stat of the file *)
(* when it was last seen (of which only the checksum is used).              *)

FileState(state, drifted, stat) ==
  [args |-> state.args, triggers |-> state.triggers, drifted |-> drifted, stat |-> stat]

Checksum(node) == IF node.type = "absent" THEN Unset ELSE [type |-> node.type, data |-> node.data]

updateFile(args, state, changed, now) ==
  FileState(updateState(args, state, changed, now), state.drifted, state.stat)

\* Only properties that the inputs set are remembered as drifted.
updateStateDrifted(args, state, props, now) ==
  [updateFile(args, state, props # {}, now)
     EXCEPT !.drifted = @ \cup {p \in props : args[p] # Unset}]

Diff(args, state) ==
  Merged(state.drifted # {} \/ Differs(args, state.args, {}),
         args.path # state.args.path, args.path = state.args.path, args, state)

-----------------------------------------------------------------------------
(* createOrUpdate, in steps: each takes the machine and the state so far    *)
(* and the error, and the source steps also say what they make of the path. *)

Step(m, state, err, makes) == [m |-> m, s |-> state, err |-> err, makes |-> makes]

\* After a task: what it changed is drift if it went well.
After(task, args, state, props, now, makes) ==
  Step(task.m,
       IF task.err = "none" /\ props # {} THEN updateStateDrifted(args, state, props, now) ELSE state,
       task.err, makes)

Changed(task, props) == IF task.changed THEN props ELSE {}

\* For a tarball or the like from the network.  What is in the way is removed,
\* in a preview too.
copyNetworkSourceDirectory(args, state, dry, m, trouble, now) ==
  LET call(c) == Outcome(trouble, c)
      way == args.force = TRUE /\ m[args.path].type = "file"
      cleared == IF way THEN After(Remove(m, args.path, call("remove")), args, state, {"ensure"}, now, "directory")
                 ELSE Step(m, state, "none", "directory")
      mkdir == File(cleared.m, args, "directory", dry, call("put"))
      made == IF cleared.err = "none" /\ (way \/ m[args.path].type = "absent")
              THEN After(mkdir, args, cleared.s, mkdir.differs, now, "directory") ELSE cleared
      filled == Unpack(made.m, args.path, {args.remoteSource}, call("fetch"))
  IN IF made.err # "none" THEN made
     ELSE IF dry THEN Step(made.m, updateStateDrifted(args, made.s, {"mode", "remoteSource"}, now), "none", "directory")
     ELSE After(filled, args, made.s, {"remoteSource"}, now, "directory")

copyNetworkSourceFile(args, state, dry, m, trouble, now) ==
  LET got == GetUrl(m, args, dry, Outcome(trouble, "put"))
  IN After(got, args, state, Changed(got, {"mode", "remoteSource"}), now, "file")

\* From another path of the machine, a file.  The error of the copy is dropped:
\* it is assigned to another err than the one tested.
copyRemoteSourceFile(args, state, dry, m, trouble, now) ==
  LET looked == Outcome(trouble, "fetch")
      source == m[args.remoteSource]
      copied == Copy(m, args, source.data, dry, Outcome(trouble, "put"))
      after == After(copied, args, state, Changed(copied, {"mode", "remoteSource"}), now, "file")
  IN IF looked.kind # "ok" THEN Step(m, state, looked.kind, "none")
     ELSE IF source.type = "absent" /\ dry THEN Step(m, updateFile(args, state, TRUE, now), "none", "none")
     ELSE IF source.type = "absent" THEN Step(m, state, "failed", "none")
     ELSE [after EXCEPT !.err = "none"]

copyRemoteSource(args, state, dry, m, trouble, now) ==
  IF args.remoteSource \in Paths THEN copyRemoteSourceFile(args, state, dry, m, trouble, now)
  ELSE IF args.ensure = "directory" THEN copyNetworkSourceDirectory(args, state, dry, m, trouble, now)
  ELSE copyNetworkSourceFile(args, state, dry, m, trouble, now)

\* A preview compares the checksum of the directory with the one in the state.
FaultCopyLocalSourceArchive(args, state, dry, m, trouble, now) ==
  LET untarred == Unpack(m, args.path, args.source, Outcome(trouble, "put"))
  IN IF dry THEN Step(m, [state EXCEPT !.stat = Checksum(m[args.path])], "none", "directory")
     ELSE After(untarred, args, state, {"source"}, now, "directory")

copyLocalSourceArchive(args, state, dry, m, trouble, now) ==
  LET is == Checksum(m[args.path])
      seen == is # Unset /\ state.stat # Unset
      compared == IF seen /\ is = state.stat THEN state
                  ELSE updateStateDrifted(args, state, {"source"}, now)
      staged == Outcome(trouble, "fetch")
      untarred == Unpack(m, args.path, args.source, Outcome(trouble, "put"))
  IN IF dry THEN Step(m, IF seen THEN FileState(compared, compared.drifted, is) ELSE compared, "none", "directory")
     ELSE IF staged.kind # "ok" THEN Step(m, state, staged.kind, "directory")
     ELSE After(untarred, args, state, {"source"}, now, "directory")

\* A preview compares the checksum of what is there with that of the content.
copyLocalSourceAsset(args, state, dry, m, trouble, now) ==
  LET is == Checksum(m[args.path])
      compared == IF is = [type |-> "file", data |-> {args.content}] THEN state
                  ELSE updateStateDrifted(args, state, {"content"}, now)
      staged == Outcome(trouble, "fetch")
      copied == Copy(m, args, {args.content}, dry, Outcome(trouble, "put"))
  IN IF dry /\ is # Unset THEN Step(m, FileState(compared, compared.drifted, is), "none", "file")
     ELSE IF staged.kind # "ok" THEN Step(m, state, staged.kind, "file")
     ELSE After(copied, args, state, Changed(copied, {"content", "mode"}), now, "file")

Sourced(args, state, dry, m, trouble, now) ==
  IF args.remoteSource # Unset THEN copyRemoteSource(args, state, dry, m, trouble, now)
  ELSE IF args.source # Unset THEN copyLocalSourceArchive(args, state, dry, m, trouble, now)
  ELSE IF args.content # Unset THEN copyLocalSourceAsset(args, state, dry, m, trouble, now)
  ELSE Step(m, state, "none", "none")

\* The state to ask of the module "file": a file that no source makes is
\* touched.
AnsibleState(args, makes, was) ==
  LET first == IF args.ensure # Unset THEN args.ensure
               ELSE IF makes # "none" THEN makes
               ELSE "touch"
  IN IF makes = "none" /\ was = "absent" /\ first = "file" THEN "touch" ELSE first

executeFile(w, args, want, dry, trouble, now) ==
  LET ran == File(w.m, args, want, dry, Outcome(trouble, "file"))
      state == updateFile(args, w.s, FALSE, now)
  IN After(ran, args, IF ran.err = "none" THEN state ELSE w.s, ran.differs, now, w.makes)

\* Removing what is in the way and touching a file loses the content that a
\* source has just put there.
Forced(w, args, want, trouble, now) ==
  LET gone == Remove(w.m, args.path, Outcome(trouble, "remove"))
      filed == executeFile([w EXCEPT !.m = gone.m], args, IF want = "file" THEN "touch" ELSE want,
                           FALSE, trouble, now)
  IN [filed EXCEPT !.err = IF gone.err # "none" THEN gone.err ELSE @]

Drifts(w, args, props, now) == [w EXCEPT !.s = updateStateDrifted(args, @, props, now)]

\* From what was at the path to what is wanted there.
Converged(w, args, was, dry, trouble, now) ==
  LET want == AnsibleState(args, w.makes, was)
      desired == IF want = "touch" THEN "file" ELSE want
      filed == executeFile(w, args, want, dry, trouble, now)
  IN IF was = desired THEN filed
     ELSE IF desired = "absent" \/ (was = "absent" /\ ~dry) THEN Drifts(filed, args, {"ensure"}, now)
     ELSE IF dry THEN Drifts(w, args, {"mode", "remoteSource"}, now)
     ELSE IF args.force = TRUE THEN Drifts(Forced(w, args, want, trouble, now), args, {"ensure"}, now)
     ELSE [w EXCEPT !.err = "failed"]

\* The last stat; nothing has drifted after an up.
Settled(w, args, trouble) ==
  LET looked == Outcome(trouble, "restat")
  IN IF looked.kind # "ok" THEN [w EXCEPT !.err = looked.kind]
     ELSE [w EXCEPT !.s = FileState(@, {}, Checksum(w.m[args.path]))]

createOrUpdate(args, state, dry, m, trouble, now) ==
  LET looked == Outcome(trouble, "stat")
      w == Sourced(args, state, dry, m, trouble, now)
      done == Converged(w, args, m[args.path].type, dry, trouble, now)
  IN IF dry /\ (~Check \/ Outcome(trouble, "probe").kind # "ok") THEN
            Step(m, updateFile(args, state, TRUE, now), "none", "none")
     ELSE IF looked.kind # "ok" THEN Step(m, state, looked.kind, "none")
     ELSE IF w.err # "none" THEN w
     ELSE IF done.err # "none" \/ dry THEN done
     ELSE Settled(done, args, trouble)

Create(args, dry, m, trouble, now) ==
  LET state == FileState(updateState(args, NoState, TRUE, now), {}, Unset)
  IN createOrUpdate(args, state, dry, m, trouble, now)

Read(args, state, m, trouble, now) == createOrUpdate(args, state, TRUE, m, trouble, now)

Update(args, state, dry, m, trouble, now) == createOrUpdate(args, state, dry, m, trouble, now)

Delete(state, m, trouble) ==
  Deleted(state, Remove(m, state.args.path, Outcome(trouble, "remove")))

-----------------------------------------------------------------------------
HasSource(args) == args.content # Unset \/ args.source # Unset \/ args.remoteSource # Unset

\* What a remote source has is not promised: the failure of a copy is dropped,
\* and a file that is there is not downloaded again.  Nor is content that comes
\* with force, which Forced loses when a directory is in the way.
AsAsked(args, m) ==
  LET node == m[args.path]
      type == IF args.ensure # Unset THEN args.ensure
              ELSE IF args.source # Unset THEN "directory"
              ELSE "file"
  IN /\ node.type = type
     /\ args.mode # Unset /\ type # "absent" => node.mode = args.mode
     /\ args.content # Unset /\ args.force # TRUE => node.data = {args.content}
     /\ args.source # Unset => args.source \subseteq node.data

Gone(args, m) == m[args.path].type = "absent"
=============================================================================
