------------------------ MODULE MCResourceLifecycle -------------------------
(* Small instances of ResourceLifecycle for TLC. *)
EXTENDS ResourceLifecycle

Trigger(refresh, replace) == [refresh |-> refresh, replace |-> replace]
SomeTriggers == {Trigger(1, r) : r \in {1, 2}}

\* One package by name, with triggers that come and go; lists, present, absent
\* and newest.
PackageArgs(name, names, ensure, triggers) ==
  [name |-> name, names |-> names, ensure |-> ensure, triggers |-> triggers]
PackagePrograms ==
  {PackageArgs("a", Unset, e, Unset) : e \in {"present", "absent"}}
    \cup {PackageArgs("a", Unset, "present", t) : t \in SomeTriggers}
    \cup {PackageArgs(Unset, Packages, e, Unset) : e \in {"present", "absent", "latest"}}
    \cup {PackageArgs(Unset, {"b"}, "present", Unset)}

\* Packages by name, debs, and upkeep.
AptArgs(names, ensure, deb, upkeep, triggers) ==
  [ name |-> Unset, names |-> names, ensure |-> ensure, deb |-> deb, upkeep |-> upkeep,
    triggers |-> triggers ]
AptPrograms ==
  LET Deb(p, v) == [package |-> p, version |-> v]
  IN {AptArgs({"a"}, e, Unset, Unset, Unset) : e \in {"present", "absent"}}
       \cup {AptArgs({"a"}, "present", Unset, Unset, t) : t \in SomeTriggers}
       \cup {AptArgs(Packages, e, Unset, Unset, Unset) : e \in {"absent", "latest"}}
       \cup {AptArgs({"b"}, "present", Unset, Unset, Unset)}
       \cup {AptArgs(Unset, Unset, d, Unset, Unset) :
                d \in {Deb("a", "outdated"), Deb("a", "newest"), Deb("b", "newest")}}
       \cup {AptArgs(Unset, Unset, Unset, u, Unset) : u \in {"upgrade", "clean"}}

\* Two groups that may ask for the same id.
GroupPrograms ==
  [name : Groups, ensure : {Unset, "absent"}, gid : {Unset, 1}, triggers : {Unset}]
    \cup [name : {"g"}, ensure : {Unset}, gid : {Unset}, triggers : SomeTriggers]

UserPrograms ==
  LET User(ensure, groups, exclusive, home, manage) ==
        [ name |-> "u", ensure |-> ensure, groups |-> groups, groupsExclusive |-> exclusive,
          home |-> home, manageHome |-> manage, triggers |-> Unset ]
  IN { User(Unset, Unset, Unset, Unset, Unset), User("present", {"g"}, Unset, "home", TRUE),
       User("present", {"g"}, TRUE, "other", TRUE), User("absent", Unset, Unset, Unset, TRUE) }

ServicePrograms ==
  [state : {Unset, "started", "stopped", "restarted"}, enabled : {Unset, TRUE, FALSE}, triggers : {Unset}]
    \cup [state : {"started"}, enabled : {TRUE}, triggers : SomeTriggers]

\* A command or task leaves x, an update leaves y instead, a delete neither.
Command(puts, drops) == [puts |-> puts, drops |-> drops]
ExecPrograms ==
  LET Exec(updates, deletes, first, triggers) ==
        [ create |-> Command({"x"}, {}), update |-> updates, delete |-> deletes,
          deleteBeforeReplace |-> first, triggers |-> triggers ]
      Instead == Command({"y"}, {"x"})
      Undo == Command({}, Marks)
  IN {Exec(u, d, Unset, Unset) : u \in {Unset, Instead}, d \in {Unset, Undo}}
       \cup {Exec(Instead, d, f, t) : d \in {Unset, Undo}, f \in {Unset, TRUE}, t \in SomeTriggers}

Task(puts, drops, ignoring) == [puts |-> puts, drops |-> drops, ignoreErrors |-> ignoring]
TaskListPrograms ==
  LET Tasks(ignoring, updates, deletes, triggers) ==
        [ tasks |-> [ create |-> <<Task({"x"}, {}, ignoring), Task({"y"}, {}, FALSE)>>,
                      update |-> updates, delete |-> deletes ],
          triggers |-> triggers ]
      Instead == <<Task({"y"}, {"x"}, FALSE)>>
      Undo == <<Task({}, {"x"}, FALSE), Task({}, {"y"}, FALSE)>>
  IN {Tasks(i, Unset, Undo, Unset) : i \in BOOLEAN} \cup {Tasks(FALSE, Instead, Unset, Unset)}
       \cup {Tasks(FALSE, Instead, Undo, t) : t \in SomeTriggers}

FileArgs(path, ensure, content, source, remote, force, mode) ==
  [ path |-> path, ensure |-> ensure, content |-> content, source |-> source, remoteSource |-> remote,
    force |-> force, mode |-> mode, triggers |-> Unset ]
\* Files by content at one path or the other, an archive, a copy of the other
\* path, a download, and inputs with no source.
FilePrograms ==
  {FileArgs(p, Unset, "x", Unset, Unset, Unset, Unset) : p \in Paths}
    \cup {FileArgs("f", "file", "y", Unset, Unset, Unset, "given")}
    \cup {FileArgs("f", Unset, Unset, {d}, Unset, Unset, Unset) : d \in Data}
    \cup {FileArgs("f", Unset, Unset, Unset, r, Unset, Unset) : r \in {"g", "x"}}
    \cup {FileArgs("f", "file", "x", Unset, Unset, TRUE, Unset),
          FileArgs("f", "directory", Unset, Unset, Unset, TRUE, "given")}
    \cup {FileArgs("f", "absent", Unset, Unset, Unset, Unset, Unset),
          FileArgs("f", Unset, Unset, Unset, Unset, Unset, Unset)}

AllPrograms ==
  [ Package |-> PackagePrograms, Apt |-> AptPrograms, Group |-> GroupPrograms, User |-> UserPrograms,
    Service |-> ServicePrograms, Exec |-> ExecPrograms, AnsibleTaskList |-> TaskListPrograms,
    File |-> FilePrograms ]
AllOps ==
  [ Package |-> 4, Apt |-> 3, Group |-> 4, User |-> 3, Service |-> 3, Exec |-> 3, AnsibleTaskList |-> 3, File |-> 3 ]
GidNumbers == 1 .. 2

\* Files: the other path, which may be a source, has a file or nothing, and the
\* modes vary only where the path of the programs has a file.
AllGiven ==
  [ k \in DOMAIN AllPrograms |->
      IF k = "File" THEN
        {m \in Machines(k) :
           /\ m["f"].mode = "given" => m["f"].type = "file" /\ m["f"].data = {"x"}
           /\ m["g"] \in {F!Absent, [type |-> "file", data |-> {"y"}, mode |-> DefaultMode]} }
      ELSE Machines(k) ]

\* The program of tests/integration/resource_package_test.go: a name, no ensure.
NameOnly == [Package |-> {PackageArgs(n, Unset, Unset, Unset) : n \in Packages}]
NameOnlyOps == [Package |-> 4]
NameOnlyGiven == [Package |-> Machines("Package")]

\* A tarball from the network over whatever is at a path.
Tarball == [File |-> {FileArgs("f", "directory", Unset, Unset, "x", TRUE, Unset)}]
TarballOps == [File |-> 1]
TarballGiven == [File |-> Machines("File")]
=============================================================================
