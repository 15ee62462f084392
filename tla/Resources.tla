------------------------------ MODULE Resources ------------------------------
(***************************************************************************)
(* The resources behind one interface, as infer dispatches a request to    *)
(* the resource it names (provider/provider.go, pkg/providerfw/infer): the *)
(* inputs a program gives a resource name its kind, and each kind has a    *)
(* machine of its own.                                                     *)
(***************************************************************************)
EXTENDS Handlers

CONSTANTS
  Packages, Groups, Gids, Users, Homes, DefaultHome, Marks,
  Paths, Data, Modes, DefaultMode

\* Unset is none of the inputs.
ASSUME UnsetAssumption ==
  /\ Unset \notin BOOLEAN
  /\ Unset \notin {"present", "absent", "latest", "stopped", "upgrade", "clean",
                "file", "directory"}
  /\ \A names \in SUBSET Packages : names # Unset
  /\ \A type \in {"file", "directory"}, data \in SUBSET Data : [type |-> type, data |-> data] # Unset

ASSUME DefaultsAssumption ==
  DefaultHome \in Homes /\ Unset \notin Homes /\ DefaultMode \in Modes

P == INSTANCE Package
A == INSTANCE Apt
G == INSTANCE Group
U == INSTANCE User
S == INSTANCE Service
E == INSTANCE Exec
L == INSTANCE AnsibleTaskList
F == INSTANCE File

\* There is an id for a group that has none.
ASSUME IdsAssumption ==
  /\ 0 \notin Gids /\ Unset \notin Gids
  /\ \A m \in G!Machines, g \in Groups : m[g] = 0 => \E gid \in Gids : \A h \in Groups : m[h] # gid

Kinds == {"Package", "Apt", "Group", "User", "Service", "Exec", "AnsibleTaskList", "File"}

Machines(kind) ==
  CASE kind = "Package" -> P!Machines
    [] kind = "Apt" -> A!Machines
    [] kind = "Group" -> G!Machines
    [] kind = "User" -> U!Machines
    [] kind = "Service" -> S!Machines
    [] kind = "Exec" -> E!Machines
    [] kind = "AnsibleTaskList" -> L!Machines
    [] kind = "File" -> F!Machines

TroublesOf(kind) ==
  CASE kind = "Package" -> Troubles(1 .. 2, P!Parts)
    [] kind = "Apt" -> Troubles(1 .. 2, A!Parts)
    [] kind = "Group" -> Troubles({1}, G!Parts)
    [] kind = "User" -> Troubles({1}, U!Parts)
    [] kind = "Service" -> Troubles({1}, S!Parts)
    [] kind = "Exec" -> Troubles({1}, Marks)
    [] kind = "AnsibleTaskList" -> Troubles(1 .. 3, Marks)
    [] kind = "File" -> Troubles(F!Looks, {}) \cup Troubles(F!Works, F!Parts)

Diff(kind, args, state) ==
  CASE kind = "Package" -> P!Diff(args, state)
    [] kind = "Apt" -> A!Diff(args, state)
    [] kind = "Group" -> G!Diff(args, state)
    [] kind = "User" -> U!Diff(args, state)
    [] kind = "Service" -> S!Diff(args, state)
    [] kind = "Exec" -> E!Diff(args, state)
    [] kind = "AnsibleTaskList" -> L!Diff(args, state)
    [] kind = "File" -> F!Diff(args, state)

Create(kind, args, dry, m, trouble, now) ==
  CASE kind = "Package" -> P!Create(args, dry, m, trouble, now)
    [] kind = "Apt" -> A!Create(args, dry, m, trouble, now)
    [] kind = "Group" -> G!Create(args, dry, m, trouble, now)
    [] kind = "User" -> U!Create(args, dry, m, trouble, now)
    [] kind = "Service" -> S!Create(args, dry, m, trouble, now)
    [] kind = "Exec" -> E!Create(args, dry, m, trouble, now)
    [] kind = "AnsibleTaskList" -> L!Create(args, dry, m, trouble, now)
    [] kind = "File" -> F!Create(args, dry, m, trouble, now)

\* Exec and AnsibleTaskList have no Read; infer returns what it was given.
Read(kind, args, state, m, trouble, now) ==
  CASE kind = "Package" -> P!Read(args, state, m, trouble, now)
    [] kind = "Apt" -> A!Read(args, state, m, trouble, now)
    [] kind = "Group" -> G!Read(args, state, m, trouble, now)
    [] kind = "User" -> U!Read(args, state, m, trouble, now)
    [] kind = "Service" -> S!Read(args, state, m, trouble, now)
    [] kind \in {"Exec", "AnsibleTaskList"} -> Quiet(m, state)
    [] kind = "File" -> F!Read(args, state, m, trouble, now)

Update(kind, args, state, dry, m, trouble, now) ==
  CASE kind = "Package" -> P!Update(args, state, dry, m, trouble, now)
    [] kind = "Apt" -> A!Update(args, state, dry, m, trouble, now)
    [] kind = "Group" -> G!Update(args, state, dry, m, trouble, now)
    [] kind = "User" -> U!Update(args, state, dry, m, trouble, now)
    [] kind = "Service" -> S!Update(args, state, dry, m, trouble, now)
    [] kind = "Exec" -> E!Update(args, state, dry, m, trouble, now)
    [] kind = "AnsibleTaskList" -> L!Update(args, state, dry, m, trouble, now)
    [] kind = "File" -> F!Update(args, state, dry, m, trouble, now)

Delete(kind, state, m, trouble) ==
  CASE kind = "Package" -> P!Delete(state, m, trouble)
    [] kind = "Apt" -> A!Delete(state, m, trouble)
    [] kind = "Group" -> G!Delete(state, m, trouble)
    [] kind = "User" -> U!Delete(state, m, trouble)
    [] kind = "Service" -> S!Delete(state, m, trouble)
    [] kind = "Exec" -> E!Delete(state, m, trouble)
    [] kind = "AnsibleTaskList" -> L!Delete(state, m, trouble)
    [] kind = "File" -> F!Delete(state, m, trouble)

-----------------------------------------------------------------------------
(* What the properties ask of a kind. *)

\* The machine is as a program asks; for commands, as the last of them that
\* ran was to leave it.
AsAsked(kind, args, op, m) ==
  CASE kind = "Package" -> P!AsAsked(args, m)
    [] kind = "Apt" -> A!AsAsked(args, m)
    [] kind = "Group" -> G!AsAsked(args, m)
    [] kind = "User" -> U!AsAsked(args, m)
    [] kind = "Service" -> S!AsAsked(args, m)
    [] kind = "Exec" -> E!AsAsked(args, op, m)
    [] kind = "AnsibleTaskList" -> L!AsAsked(args, op, m)
    [] kind = "File" -> F!AsAsked(args, m)

\* Nothing that a resource with these inputs brought is left.
Gone(kind, args, m) ==
  CASE kind = "Package" -> P!Gone(args, m)
    [] kind = "Apt" -> A!Gone(args, m)
    [] kind = "Group" -> G!Gone(args, m)
    [] kind = "User" -> U!Gone(args, m)
    [] kind = "Service" -> S!Gone(args, m)
    [] kind = "Exec" -> E!Gone(args, m)
    [] kind = "AnsibleTaskList" -> L!Gone(args, m)
    [] kind = "File" -> F!Gone(args, m)

\* What the old inputs were about and the new ones are not is gone; for a group
\* or user that was to be absent there was nothing to do.
Shed(kind, args, old, op, m) ==
  CASE kind = "Package" -> op = "update" => P!Dropped(args, old, m)
    [] kind = "Apt" -> op = "update" => A!Dropped(args, old, m)
    [] kind \in {"Group", "User"} -> args.name # old.name /\ old.ensure # "absent" => Gone(kind, old, m)
    [] kind = "File" -> args.path # old.path => Gone(kind, old, m)
    [] OTHER -> TRUE

\* Read takes note of what it finds: not for a package that is to be the latest,
\* nor for a file of which the inputs say only that it is there, or when previews
\* ask nothing (then it is stamped each time); Apt only for
\* packages that are to be absent.
Tells(kind, args) ==
  \/ kind = "Package" /\ args.ensure # "latest"
  \/ kind = "Apt" /\ args.ensure = "absent"
  \/ kind = "File" /\ Check /\ (F!HasSource(args) \/ args.mode # Unset \/ args.ensure = "absent")

\* A refresh may stamp a change where nothing is wrong.
Bounces(kind, args) ==
  \/ kind = "File"
  \/ kind = "Service" /\ S!Bounces(args)
  \/ kind = "Apt" /\ args.upkeep = "clean"

\* The task for a deb that it finds installed tracks nothing.
Forgets(kind, args) == kind = "Apt" /\ args.deb # Unset

\* Read leaves a state of which Delete does not remove everything that is there.
Misreads(kind, args, m) == Forgets(kind, args) \/ (kind = "Package" /\ P!Misreads(args, m))
=============================================================================
