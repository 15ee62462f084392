---------------------------- MODULE AgentInstall ----------------------------
(***************************************************************************)
(* Several providers install, start and use the agent on one machine       *)
(* (agent/agent.go: Connect, InstallAgent, StageFile).  They share the     *)
(* directory .mid: the binary mid-agent, the file install.lock and the     *)
(* directory staging.  Every remote command and every SFTP request is a    *)
(* step of its own, and between two of them the others go on, the link may *)
(* break and the provider may die.                                         *)
(***************************************************************************)
EXTENDS Naturals

CONSTANTS
  Providers,   \* processes, or connections of one process, to the machine
  Versions,    \* versions of the agent the providers carry
  Matches,     \* <<v, w>>: the line "mid-agent version w" contains "mid-agent version v"
  NoFile,
  MaxTests,    \* tests of the lock by one Connect; 10 in the code
  MaxConnects, \* bound: Connects of one provider
  MaxTroubles  \* bound: commands that fail, providers that die

ASSUME InstallAssumption ==
  /\ MaxTests \in Nat \ {0} /\ MaxConnects \in Nat /\ MaxTroubles \in Nat
  /\ \A v \in Versions : <<v, v>> \in Matches

VARIABLES
  version,  \* the version of the agent that each provider carries
  files,    \* "mid-agent", and each provider's own upload mid-agent.<uuid>
  lock,     \* whether .mid/install.lock exists
  staging,  \* the providers whose file is in .mid/staging, and whether it is whole
  pc,       \* where each provider is in Connect or StageFile
  tests,    \* the failed tests of the lock in this Connect
  good,     \* whether InstallAgent is going to return no error
  connects, \* Connects so far
  troubles, \* failures so far
  replaced, \* history: providers under whom another has replaced the binary
  left,     \* history: somebody has had to leave the lock behind
  undisturbed \* history: providers that started an agent that suits everybody while
              \* nobody installed, and since then nothing has failed

vars == <<version, files, lock, staging, pc, tests, good, connects, troubles, replaced, left, undisturbed>>
machine == <<files, lock, staging>>

\* A binary: its version, who has it open for writing, whether it is complete,
\* whether it has been made executable.
Binary == [version : Versions, writer : Providers \cup {NoFile}, whole : BOOLEAN, exec : BOOLEAN]

\* Names of files and the mark for none are no providers.
ASSUME NamesAssumption == "mid-agent" \notin Providers /\ NoFile \notin Providers \cup Binary

Old(v) == [version |-> v, writer |-> NoFile, whole |-> TRUE, exec |-> TRUE]

Places == {"mid-agent"} \cup Providers

\* Steps of InstallAgent after the touch of the lock, to its deferred end.
Installing == {"upload", "copy", "rename", "chmod", "clean", "unlock"}
Init ==
  /\ version \in [Providers -> Versions]
  /\ files \in {[f \in Places |-> IF f = "mid-agent" THEN b ELSE NoFile] :
                  b \in {NoFile} \cup {Old(v) : v \in Versions}}
  /\ lock = FALSE
  /\ staging = [p \in Providers |-> "none"]
  /\ pc = [p \in Providers |-> "idle"]
  /\ tests = [p \in Providers |-> 0]
  /\ good = [p \in Providers |-> FALSE]
  /\ connects = [p \in Providers |-> 0]
  /\ troubles = 0
  /\ replaced = {}
  /\ left = FALSE
  /\ undisturbed = {}

-----------------------------------------------------------------------------
Goto(p, to) == pc' = [pc EXCEPT ![p] = to]
At(p, from) == pc[p] = from

Smooth == UNCHANGED <<troubles, undisturbed>>
Trouble ==
  /\ troubles < MaxTroubles /\ troubles' = troubles + 1
  /\ undisturbed' = {}

\* The deferred calls of InstallAgent run on every return after the touch.
Leave(p, ok) ==
  /\ Goto(p, "unlock")
  /\ good' = [good EXCEPT ![p] = ok]

\* A failed request of InstallAgent, with or without its effect.
GiveUp(p) == Trouble /\ Leave(p, FALSE)

\* An exec of the binary succeeds: text that is open for writing is busy.
Runs(b) == b # NoFile /\ b.whole /\ b.exec /\ b.writer = NoFile

\* The deferred dest.Close, or the end of the provider's sessions.
Close(p) ==
  files' = [f \in Places |-> IF files[f] # NoFile /\ files[f].writer = p
                             THEN [files[f] EXCEPT !.writer = NoFile] ELSE files[f]]

\* Connect: mkdir -p .mid.  SetupAgent comes back after a Connect that failed.
Begin(p) ==
  /\ pc[p] \in {"idle", "failed"} /\ connects[p] < MaxConnects
  /\ connects' = [connects EXCEPT ![p] = @ + 1]
  /\ tests' = [tests EXCEPT ![p] = 0]
  /\ \/ Smooth /\ Goto(p, "lock")
     \/ Trouble /\ Goto(p, "failed")
  /\ UNCHANGED <<machine, version, good, replaced, left>>

FaultWait(p) ==
  /\ Goto(p, "lock")
  /\ UNCHANGED tests

FaultWaitOnce(p) ==
  /\ tests' = [tests EXCEPT ![p] = @ + 1]
  /\ Goto(p, IF tests[p] = MaxTests THEN "failed" ELSE "lock")

\* After the last test Connect bails out.
Wait(p) ==
  /\ tests' = [tests EXCEPT ![p] = @ + 1]
  /\ Goto(p, IF tests[p] + 1 = MaxTests THEN "failed" ELSE "lock")

\* A test that fails counts like one that finds the lock.
TestLock(p) ==
  /\ At(p, "lock")
  /\ \/ lock /\ Smooth /\ Wait(p)
     \/ Trouble /\ Wait(p)
     \/ ~lock /\ Smooth /\ Goto(p, "check") /\ UNCHANGED tests
  /\ UNCHANGED <<machine, version, good, connects, replaced, left>>

FaultIsCurrent(p, b) == Runs(b)

\* file .mid/mid-agent && .mid/mid-agent --version, of which the output is
\* searched for the provider's version.
IsCurrent(p, b) == Runs(b) /\ <<version[p], b.version>> \in Matches

FaultCheckVersion(p) ==
  /\ At(p, "check")
  /\ Smooth /\ Goto(p, "touch")
  /\ replaced' = replaced \ {p}
  /\ UNCHANGED <<machine, version, tests, good, connects, left>>

CheckVersion(p) ==
  /\ At(p, "check")
  /\ \/ IsCurrent(p, files["mid-agent"]) /\ Smooth /\ Goto(p, "start")
     \/ ~IsCurrent(p, files["mid-agent"]) /\ Smooth /\ Goto(p, "touch")
     \/ Trouble /\ Goto(p, "touch")
  /\ replaced' = replaced \ {p}
  /\ UNCHANGED <<machine, version, tests, good, connects, left>>

(* InstallAgent *)

\* touch .mid/install.lock && uname -m.  When the touch has happened but uname,
\* or the answer, fails, the deferred rm is not set up yet and the lock stays.
Touch(p) ==
  /\ At(p, "touch")
  /\ lock' \in {lock, TRUE}
  /\ \/ lock' = TRUE /\ Smooth /\ Goto(p, "upload")
     \/ Trouble /\ Goto(p, "failed")
  /\ left' = (left \/ (lock' /\ pc'[p] = "failed"))
  /\ UNCHANGED <<files, staging, version, tests, good, connects, replaced>>

FaultOpenUpload(p) ==
  /\ At(p, "upload")
  /\ files' = [files EXCEPT !["mid-agent"] =
                 [version |-> version[p], writer |-> p, whole |-> FALSE, exec |-> TRUE]]
  /\ Smooth /\ Goto(p, "chmod") /\ UNCHANGED good
  /\ UNCHANGED <<lock, staging, version, tests, connects, replaced, left>>

\* An unknown architecture, no binary for it, no SFTP client: nothing is
\* uploaded.  A new file, named by a new UUID, is not executable.
OpenUpload(p) ==
  /\ At(p, "upload")
  /\ \/ /\ files' = [files EXCEPT ![p] =
                       [version |-> version[p], writer |-> p, whole |-> FALSE, exec |-> FALSE]]
        /\ Smooth /\ Goto(p, "copy") /\ UNCHANGED good
     \/ GiveUp(p) /\ UNCHANGED files
  /\ UNCHANGED <<lock, staging, version, tests, connects, replaced, left>>

\* io.Copy: after an error the part that was written stays, nothing removes it.
CopyUpload(p) ==
  /\ At(p, "copy")
  /\ \/ /\ files' = [files EXCEPT ![p].whole = TRUE]
        /\ Smooth /\ Goto(p, "rename") /\ UNCHANGED good
     \/ GiveUp(p) /\ UNCHANGED files
  /\ UNCHANGED <<lock, staging, version, tests, connects, replaced, left>>

\* Those who have found or put their own binary there.
Relying == {p \in Providers : pc[p] \in {"chmod", "clean", "unlock", "start"}}

\* PosixRename replaces the old binary in one step.
Rename(p) ==
  /\ At(p, "rename")
  /\ files' \in {files, [files EXCEPT !["mid-agent"] = files[p], ![p] = NoFile]}
  /\ \/ files' # files /\ Smooth /\ Goto(p, "chmod") /\ UNCHANGED good
     \/ GiveUp(p)
  /\ replaced' = IF files' = files THEN replaced ELSE (replaced \cup Relying) \ {p}
  /\ UNCHANGED <<lock, staging, version, tests, connects, left>>

\* Chmod names the path: it is the binary of whoever renamed last.
Chmod(p) ==
  /\ At(p, "chmod")
  /\ files' \in {files, [files EXCEPT !["mid-agent"].exec = TRUE]}
  /\ \/ files'["mid-agent"].exec /\ Smooth /\ Goto(p, "clean") /\ UNCHANGED good
     \/ GiveUp(p)
  /\ UNCHANGED <<lock, staging, version, tests, connects, replaced, left>>

\* rm -rf .mid/staging/*, whose error is only traced.
Clean(p) ==
  /\ At(p, "clean")
  /\ staging' \in {staging, [q \in Providers |-> "none"]}
  /\ \/ staging' = [q \in Providers |-> "none"] /\ Smooth
     \/ Trouble
  /\ Leave(p, TRUE)
  /\ UNCHANGED <<files, lock, version, tests, connects, replaced, left>>

FaultUnlock(p) ==
  /\ At(p, "unlock")
  /\ lock' = IF good[p] THEN FALSE ELSE lock
  /\ Smooth
  /\ Close(p)
  /\ Goto(p, IF good[p] THEN "start" ELSE "failed")
  /\ UNCHANGED <<staging, version, tests, good, connects, replaced, left>>

\* The deferred ends: the binary is closed, then rm -f .mid/install.lock, whose
\* error is dropped.
Unlock(p) ==
  /\ At(p, "unlock")
  /\ lock' \in {lock, FALSE}
  /\ (~lock' /\ Smooth) \/ Trouble
  /\ left' = (left \/ lock')
  /\ Close(p)
  /\ Goto(p, IF good[p] THEN "start" ELSE "failed")
  /\ UNCHANGED <<staging, version, tests, good, connects, replaced>>

-----------------------------------------------------------------------------
\* The binary that stands there suits everybody, and nobody is about to replace it.
Settled ==
  \A q \in Providers : IsCurrent(q, files["mid-agent"]) /\ pc[q] \notin {"touch"} \cup Installing

\* The rest of Connect: a new session runs the binary; when it cannot, or the
\* link breaks, the first ping fails.
Start(p) ==
  /\ At(p, "start")
  /\ \/ /\ Runs(files["mid-agent"]) /\ Goto(p, "up") /\ UNCHANGED troubles
        /\ undisturbed' = IF Settled THEN undisturbed \cup {p} ELSE undisturbed \ {p}
     \/ ~Runs(files["mid-agent"]) /\ Smooth /\ Goto(p, "failed")
     \/ Trouble /\ Goto(p, "failed")
  /\ UNCHANGED <<machine, version, tests, good, connects, replaced, left>>

(* StageFile: each of its three commands is tried up to nine times. *)

\* mkdir, realpath and the opening of the file.
StageOpen(p) ==
  /\ At(p, "up")
  /\ \/ /\ staging' = [staging EXCEPT ![p] = "part"]
        /\ Smooth /\ Goto(p, "staging")
     \/ Trouble /\ UNCHANGED <<staging, pc>>
  /\ UNCHANGED <<files, lock, version, tests, good, connects, replaced, left>>

\* io.Copy.  Each try reads on where the last one stopped, into the truncated
\* file, which the try creates again if it is gone.
StageCopy(p) ==
  /\ At(p, "staging")
  /\ \/ /\ staging[p] # "none" /\ Smooth
        /\ staging' = [staging EXCEPT ![p] = "whole"]
        /\ Goto(p, "staged")
     \/ /\ staging[p] = "none" /\ Smooth
        /\ Goto(p, "staged") /\ UNCHANGED staging
     \/ /\ Trouble
        /\ staging' = [staging EXCEPT ![p] = "rest"]
        /\ pc' \in {[pc EXCEPT ![p] = "staged"], [pc EXCEPT ![p] = "up"]}
  /\ UNCHANGED <<files, lock, version, tests, good, connects, replaced, left>>

\* The task that uses the file; nothing removes it afterwards.
UseStaged(p) ==
  /\ At(p, "staged") /\ Smooth /\ Goto(p, "up")
  /\ UNCHANGED <<machine, version, tests, good, connects, replaced, left>>

\* The provider process ends, and with it its sessions.
Die(p) ==
  /\ pc[p] # "dead"
  /\ Trouble /\ Goto(p, "dead")
  /\ left' = (left \/ pc[p] \in Installing)
  /\ Close(p)
  /\ UNCHANGED <<lock, staging, version, tests, good, connects, replaced>>

\* The provider has no more to do, and disconnects.
Leaving(p) ==
  /\ At(p, "up") /\ Smooth /\ Goto(p, "idle")
  /\ UNCHANGED <<machine, version, tests, good, connects, replaced, left>>

ConnectStep(p) ==
  \/ TestLock(p) \/ CheckVersion(p) \/ Touch(p) \/ OpenUpload(p) \/ CopyUpload(p)
  \/ Rename(p) \/ Chmod(p) \/ Clean(p) \/ Unlock(p) \/ Start(p)

Next ==
  \E p \in Providers :
    \/ Begin(p) \/ ConnectStep(p) \/ Leaving(p)
    \/ StageOpen(p) \/ StageCopy(p) \/ UseStaged(p) \/ Die(p)

\* Every command comes back, with an answer or an error.
Spec == Init /\ [][Next]_vars /\ \A p \in Providers : WF_vars(ConnectStep(p))

-----------------------------------------------------------------------------
(* Properties. *)

TypeOK ==
  /\ version \in [Providers -> Versions]
  /\ files \in [Places -> Binary \cup {NoFile}]
  /\ lock \in BOOLEAN
  /\ staging \in [Providers -> {"none", "part", "rest", "whole"}]
  /\ pc \in [Providers -> Installing \cup
               {"idle", "lock", "check", "touch", "start", "up", "staging", "staged", "failed", "dead"}]
  /\ tests \in [Providers -> 0 .. MaxTests]
  /\ good \in [Providers -> BOOLEAN]
  /\ connects \in [Providers -> 0 .. MaxConnects]
  /\ troubles \in 0 .. MaxTroubles
  /\ replaced \subseteq Providers
  /\ left \in BOOLEAN /\ undisturbed \subseteq Providers

\* However many providers install at once, and wherever they or their links
\* break off, what is at .mid/mid-agent is a complete binary (InstallAgent's
\* upload under a name of its own and PosixRename).
InstalledIsWhole == files["mid-agent"] # NoFile => files["mid-agent"].whole

\* A provider that gets as far as starting the agent starts one of its own
\* version (or of one that begins with it: v0.0.2 finds itself in v0.0.20 and
\* starts that), unless another provider has put its binary there since this one
\* looked or put its own (Connect's version check, InstallAgent).
StartsOwnAgent ==
  \A p \in Providers :
    At(p, "start") /\ p \notin replaced =>
      Runs(files["mid-agent"]) /\ <<version[p], files["mid-agent"].version>> \in Matches

\* The lock is there only while somebody installs: every return of InstallAgent
\* takes it away, but for a provider that dies, a touch whose command fails
\* after it and an rm that fails (the deferred rm, set up after the touch).
LockHasOwner == lock => left \/ \E p \in Providers : pc[p] \in Installing

\* A provider that starts an agent which suits everybody, at a moment when
\* nobody installs, keeps the files it stages from then on: whoever connects
\* later, whenever it looked at the lock and at the version, finds that agent and
\* does not install, so that nobody empties .mid/staging, until something fails
\* (InstallAgent's rm -rf .mid/staging/*, behind Connect's version check).
StagedStays ==
  \A p \in undisturbed : At(p, "staged") => staging[p] = "whole"

\* Every Connect comes to its end, also when the lock stays for ever.
ConnectEnds ==
  \A p \in Providers : At(p, "lock") ~> pc[p] \in {"up", "failed", "dead"}
=============================================================================
