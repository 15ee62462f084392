-------------------------------- MODULE User --------------------------------
(***************************************************************************)
(* The handlers of the User resource (provider/resource/user.go).  The     *)
(* machine has accounts, each with the groups it is in and its home, and   *)
(* the home directories that exist.                                        *)
(***************************************************************************)
EXTENDS Handlers

CONSTANTS
  Users,      \* names of users
  Groups,     \* names of groups, all of which exist
  Homes,      \* home directories
  DefaultHome \* where useradd puts the home of a user

NoAccount == [groups |-> {}, home |-> Unset]
Accounts == {NoAccount} \cup [groups : SUBSET Groups, home : Homes]
Machines == [accounts : [Users -> Accounts], homes : SUBSET Homes]
Parts == {"account", "home"}

-----------------------------------------------------------------------------
(* The Ansible module "user" with the parameters of argsToTaskParameters:   *)
(* groups are appended unless groupsExclusive, and manageHome is the        *)
(* module's create_home (TRUE by default), move_home and remove.            *)

Account(m, args) ==
  LET is == m.accounts[args.name]
      also == IF args.groupsExclusive = TRUE THEN {} ELSE is.groups
  IN IF args.ensure = "absent" THEN NoAccount
     ELSE [ groups |-> IF args.groups = Unset THEN is.groups ELSE args.groups \cup also,
            home   |-> IF args.home # Unset THEN args.home
                       ELSE IF is = NoAccount THEN DefaultHome
                       ELSE is.home ]

Goal(m, args) ==
  LET is == m.accounts[args.name]
      will == Account(m, args)
      moved == IF args.manageHome = TRUE /\ is # NoAccount /\ is.home # will.home
               THEN {is.home} ELSE {}
      made == IF will # NoAccount /\ args.manageHome # FALSE THEN {will.home} ELSE {}
  IN [ accounts |-> [m.accounts EXCEPT ![args.name] = will],
       homes    |-> (m.homes \ moved) \cup made ]

\* The account is changed before its home directory.
Half(m, goal, done) ==
  IF Parts \subseteq done THEN goal
  ELSE IF "account" \in done THEN [goal EXCEPT !.homes = m.homes]
  ELSE m

Task(m, args, dry, call) ==
  LET goal == Goal(m, args) IN Ran(m, goal, Half(m, goal, call.done), dry, call)

-----------------------------------------------------------------------------
\* User.Diff: another name is another user.
Diff(args, state) ==
  Merged(Differs(args, state.args, {}), args.name # state.args.name, TRUE, args, state)

Create(args, dry, m, trouble, now) ==
  Created(updateState(args, NoState, TRUE, now), dry, m, Task(m, args, dry, Outcome(trouble, 1)))

\* User.Read: the state keeps the inputs, whatever the machine has.
Read(args, state, m, trouble, now) ==
  ReadBack(args, state, Task(m, args, TRUE, Outcome(trouble, 1)), now)

Update(args, state, dry, m, trouble, now) ==
  Updated(args, state, dry, m, Task(m, args, dry, Outcome(trouble, 1)), now)

Delete(state, m, trouble) ==
  IF state.args.ensure = "absent" THEN Quiet(m, state)
  ELSE Deleted(state, Task(m, [state.args EXCEPT !.ensure = "absent"], FALSE, Outcome(trouble, 1)))

-----------------------------------------------------------------------------
AsAsked(args, m) ==
  LET is == m.accounts[args.name]
      has == IF is = NoAccount \/ args.groups = Unset THEN {} ELSE args.groups
  IN IF args.ensure = "absent" THEN is = NoAccount
     ELSE /\ is # NoAccount
          /\ has \subseteq is.groups
          /\ args.groupsExclusive = TRUE /\ args.groups # Unset => is.groups = args.groups
          /\ args.home \in {Unset, is.home}
          /\ args.manageHome # FALSE => is.home \in m.homes

Gone(args, m) == m.accounts[args.name] = NoAccount
=============================================================================
