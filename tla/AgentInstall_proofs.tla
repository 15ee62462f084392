------------------------- MODULE AgentInstall_proofs -------------------------
(***************************************************************************)
(* Proofs, for any number of providers, versions, Connects and failures,   *)
(* of the safety of the agent's installation.                              *)
(*                                                                         *)
(* The inductive invariant follows one upload on its way to mid-agent: it  *)
(* belongs to its provider until it is renamed, it is whole by then, and   *)
(* what the provider has put there is its own until another is recorded to *)
(* have replaced it.                                                       *)
(***************************************************************************)
EXTENDS AgentInstall, TLAPS

\* A provider that goes on testing the lock has tests left.
TestsLeft == \A p \in Providers : At(p, "lock") => tests[p] < MaxTests

\* An upload is open, and complete when it comes to the rename.
UploadIsOwn ==
  \A p \in Providers :
    pc[p] \in {"copy", "rename"} =>
      /\ files[p] # NoFile
      /\ files[p].version = version[p] /\ files[p].writer = p
      /\ pc[p] = "rename" => files[p].whole

\* InstallAgent has renamed, and will return no error.
HasPlaced(p) == pc[p] \in {"chmod", "clean"} \/ (pc[p] = "unlock" /\ good[p])

\* What it has placed is there, still open for writing and executable after the
\* chmod, unless somebody has put another binary in its place.
PlacedIsOwn ==
  \A p \in Providers :
    HasPlaced(p) =>
      /\ files["mid-agent"] # NoFile
      /\ p \notin replaced =>
           /\ files["mid-agent"].version = version[p] /\ files["mid-agent"].writer = p
           /\ pc[p] # "chmod" => files["mid-agent"].exec

\* Once a provider is undisturbed the agent that stands there suits everybody and
\* nobody installs, so that what it has staged stays.
StaysSettled ==
  \A p \in undisturbed :
    /\ Settled
    /\ pc[p] = "staging" => staging[p] # "none"
    /\ pc[p] = "staged" => staging[p] = "whole"

IInv ==
  /\ TypeOK
  /\ TestsLeft
  /\ LockHasOwner
  /\ UploadIsOwn
  /\ InstalledIsWhole
  /\ PlacedIsOwn
  /\ StartsOwnAgent
  /\ StaysSettled

-----------------------------------------------------------------------------
LEMMA InitInv == Init => IInv
  <1> SUFFICES ASSUME Init
               PROVE  IInv
    OBVIOUS
  <1> USE DEF Init
  <1>1. PICK b \in {NoFile} \cup {Old(v) : v \in Versions} :
          files = [f \in Places |-> IF f = "mid-agent" THEN b ELSE NoFile]
    OBVIOUS
  <1>2. b \in Binary \cup {NoFile} /\ (b # NoFile => b.whole)
    <2>1. CASE b = NoFile
      BY <2>1
    <2>2. CASE \E v \in Versions : b = Old(v)
      BY <2>2, NamesAssumption DEF Old, Binary
    <2> QED
      BY <2>1, <2>2
  <1>3. files["mid-agent"] = b
    BY <1>1 DEF Places
  <1>4. TypeOK
    <2>1. files \in [Places -> Binary \cup {NoFile}]
      BY <1>1, <1>2
    <2>2. undisturbed \subseteq Providers /\ left \in BOOLEAN /\ lock \in BOOLEAN
      OBVIOUS
    <2> QED
      BY <2>1, <2>2, InstallAssumption DEF TypeOK
  <1>5. TestsLeft
    BY DEF TestsLeft, At
  <1>6. LockHasOwner /\ UploadIsOwn /\ PlacedIsOwn /\ StartsOwnAgent
    BY DEF LockHasOwner, UploadIsOwn, PlacedIsOwn, HasPlaced, StartsOwnAgent, At
  <1>7. InstalledIsWhole
    BY <1>2, <1>3 DEF InstalledIsWhole
  <1>8. StaysSettled
    BY DEF StaysSettled
  <1> QED
    BY <1>4, <1>5, <1>6, <1>7, <1>8 DEF IInv

-----------------------------------------------------------------------------
(* What the steps have in common. *)

\* Closing what a provider has open for writing changes nothing else.
LEMMA CloseLemma ==
  ASSUME TypeOK, NEW p \in Providers, Close(p)
  PROVE  /\ files' \in [Places -> Binary \cup {NoFile}]
         /\ \A f \in Places :
              /\ files'[f] = NoFile <=> files[f] = NoFile
              /\ files[f] # NoFile =>
                   /\ files'[f].version = files[f].version
                   /\ files'[f].whole = files[f].whole
                   /\ files'[f].exec = files[f].exec
                   /\ files'[f].writer = IF files[f].writer = p THEN NoFile ELSE files[f].writer
                   /\ files[f].writer # p => files'[f] = files[f]
  <1> SUFFICES ASSUME NEW f \in Places
               PROVE  /\ files'[f] \in Binary \cup {NoFile}
                      /\ files'[f] = NoFile <=> files[f] = NoFile
                      /\ files[f] # NoFile =>
                           /\ files'[f].version = files[f].version
                           /\ files'[f].whole = files[f].whole
                           /\ files'[f].exec = files[f].exec
                           /\ files'[f].writer = IF files[f].writer = p THEN NoFile ELSE files[f].writer
                           /\ files[f].writer # p => files'[f] = files[f]
    BY DEF Close
  <1>1. files[f] \in Binary \cup {NoFile}
    BY DEF TypeOK
  <1>2. CASE files[f] = NoFile
    BY <1>2 DEF Close
  <1>3. CASE files[f] # NoFile /\ files[f].writer # p
    BY <1>1, <1>3 DEF Close
  <1>4. CASE files[f] # NoFile /\ files[f].writer = p
    <2>1. files[f] \in Binary
      BY <1>1, <1>4
    <2>2. files'[f] = [files[f] EXCEPT !.writer = NoFile]
      BY <1>4 DEF Close
    <2>3. files'[f] \in Binary /\ files'[f] # NoFile
      BY <2>1, <2>2, NamesAssumption DEF Binary
    <2> QED
      BY <1>4, <2>1, <2>2, <2>3 DEF Binary
  <1> QED
    BY <1>2, <1>3, <1>4

\* A request of InstallAgent that changes files: it succeeds, or the provider
\* gives up.
LEMMA RequestLemma ==
  ASSUME TypeOK, TestsLeft, NEW p \in Providers,
         NEW to \in {"copy", "rename", "chmod", "clean"},
         (Goto(p, to) /\ UNCHANGED <<good, troubles, undisturbed>>) \/ GiveUp(p),
         files' \in [Places -> Binary \cup {NoFile}], replaced' \subseteq Providers,
         UNCHANGED <<version, lock, staging, tests, connects, left>>
  PROVE  TypeOK' /\ TestsLeft'
  <1>1. CASE Goto(p, to) /\ UNCHANGED <<good, troubles, undisturbed>>
    BY <1>1 DEF Goto, TypeOK, TestsLeft, At, Installing
  <1>2. CASE GiveUp(p)
    <2>1. /\ pc' = [pc EXCEPT ![p] = "unlock"]
          /\ good' = [good EXCEPT ![p] = FALSE]
          /\ troubles' \in 0 .. MaxTroubles /\ undisturbed' = {}
      BY <1>2, InstallAssumption DEF GiveUp, Trouble, Leave, Goto, TypeOK
    <2> QED
      BY <2>1 DEF TypeOK, TestsLeft, At, Installing
  <1> QED
    BY <1>1, <1>2

LEMMA TypeStep ==
  ASSUME TypeOK, TestsLeft, UploadIsOwn, PlacedIsOwn, [Next]_vars
  PROVE  TypeOK' /\ TestsLeft'
  <1> USE InstallAssumption DEF TypeOK, TestsLeft, Goto, At, Smooth, Trouble, GiveUp, Leave, Wait,
                                machine, Installing
  <1>1. ASSUME NEW p \in Providers, Begin(p)
        PROVE  TypeOK' /\ TestsLeft'
    BY <1>1 DEF Begin
  <1>2. ASSUME NEW p \in Providers, TestLock(p)
        PROVE  TypeOK' /\ TestsLeft'
    BY <1>2 DEF TestLock
  <1>3. ASSUME NEW p \in Providers, CheckVersion(p)
        PROVE  TypeOK' /\ TestsLeft'
    BY <1>3 DEF CheckVersion
  <1>4. ASSUME NEW p \in Providers, Touch(p)
        PROVE  TypeOK' /\ TestsLeft'
    <2>1. left' \in BOOLEAN /\ lock' \in BOOLEAN
      BY <1>4 DEF Touch
    <2>2. pc' = [pc EXCEPT ![p] = "upload"] \/ pc' = [pc EXCEPT ![p] = "failed"]
      BY <1>4 DEF Touch
    <2> QED
      BY <1>4, <2>1, <2>2 DEF Touch
  <1>5. ASSUME NEW p \in Providers, OpenUpload(p)
        PROVE  TypeOK' /\ TestsLeft'
    <2>1. files' \in [Places -> Binary \cup {NoFile}]
      <3>1. [version |-> version[p], writer |-> p, whole |-> FALSE, exec |-> FALSE] \in Binary
        BY DEF Binary
      <3> QED
        BY <1>5, <3>1 DEF OpenUpload
    <2>2. /\ (Goto(p, "copy") /\ UNCHANGED <<good, troubles, undisturbed>>) \/ GiveUp(p)
          /\ UNCHANGED <<version, lock, staging, tests, connects, replaced, left>>
      BY <1>5 DEF OpenUpload
    <2> QED
      BY <2>1, <2>2, RequestLemma
  <1>6. ASSUME NEW p \in Providers, CopyUpload(p)
        PROVE  TypeOK' /\ TestsLeft'
    <2>1. files' \in [Places -> Binary \cup {NoFile}]
      <3>1. files[p] \in Binary /\ p \in Places
        BY <1>6 DEF CopyUpload, UploadIsOwn, Places
      <3>2. [files[p] EXCEPT !.whole = TRUE] \in Binary
        BY <3>1 DEF Binary
      <3> QED
        BY <1>6, <3>1, <3>2 DEF CopyUpload
    <2>2. /\ (Goto(p, "rename") /\ UNCHANGED <<good, troubles, undisturbed>>) \/ GiveUp(p)
          /\ UNCHANGED <<version, lock, staging, tests, connects, replaced, left>>
      BY <1>6 DEF CopyUpload
    <2> QED
      BY <2>1, <2>2, RequestLemma
  <1>7. ASSUME NEW p \in Providers, Rename(p)
        PROVE  TypeOK' /\ TestsLeft'
    <2>1. files' \in [Places -> Binary \cup {NoFile}]
      <3>1. p \in Places /\ "mid-agent" \in Places
        BY DEF Places
      <3> QED
        BY <1>7, <3>1 DEF Rename
    <2>2. replaced' \subseteq Providers
      BY <1>7 DEF Rename, Relying
    <2>3. /\ (Goto(p, "chmod") /\ UNCHANGED <<good, troubles, undisturbed>>) \/ GiveUp(p)
          /\ UNCHANGED <<version, lock, staging, tests, connects, left>>
      BY <1>7 DEF Rename
    <2> QED
      BY <2>1, <2>2, <2>3, RequestLemma
  <1>8. ASSUME NEW p \in Providers, Chmod(p)
        PROVE  TypeOK' /\ TestsLeft'
    <2>1. files' \in [Places -> Binary \cup {NoFile}]
      <3>1. files["mid-agent"] \in Binary /\ "mid-agent" \in Places
        BY <1>8 DEF Chmod, PlacedIsOwn, HasPlaced, Places
      <3>2. [files["mid-agent"] EXCEPT !.exec = TRUE] \in Binary
        BY <3>1 DEF Binary
      <3> QED
        BY <1>8, <3>1, <3>2 DEF Chmod
    <2>2. /\ (Goto(p, "clean") /\ UNCHANGED <<good, troubles, undisturbed>>) \/ GiveUp(p)
          /\ UNCHANGED <<version, lock, staging, tests, connects, replaced, left>>
      BY <1>8 DEF Chmod
    <2> QED
      BY <2>1, <2>2, RequestLemma
  <1>9. ASSUME NEW p \in Providers, Clean(p)
        PROVE  TypeOK' /\ TestsLeft'
    BY <1>9 DEF Clean
  <1>10. ASSUME NEW p \in Providers, Unlock(p)
        PROVE  TypeOK' /\ TestsLeft'
    <2>1. files' \in [Places -> Binary \cup {NoFile}]
      BY <1>10, CloseLemma DEF Unlock
    <2>2. lock' \in BOOLEAN /\ left' \in BOOLEAN
      BY <1>10 DEF Unlock
    <2> QED
      BY <1>10, <2>1, <2>2 DEF Unlock
  <1>11. ASSUME NEW p \in Providers, Start(p)
        PROVE  TypeOK' /\ TestsLeft'
    BY <1>11 DEF Start
  <1>12. ASSUME NEW p \in Providers, StageOpen(p)
        PROVE  TypeOK' /\ TestsLeft'
    BY <1>12 DEF StageOpen
  <1>13. ASSUME NEW p \in Providers, StageCopy(p)
        PROVE  TypeOK' /\ TestsLeft'
    BY <1>13 DEF StageCopy
  <1>14. ASSUME NEW p \in Providers, UseStaged(p)
        PROVE  TypeOK' /\ TestsLeft'
    BY <1>14 DEF UseStaged
  <1>15. ASSUME NEW p \in Providers, Die(p)
        PROVE  TypeOK' /\ TestsLeft'
    <2>1. files' \in [Places -> Binary \cup {NoFile}]
      BY <1>15, CloseLemma DEF Die
    <2>2. left' \in BOOLEAN
      BY <1>15 DEF Die
    <2> QED
      BY <1>15, <2>1, <2>2 DEF Die
  <1>16. ASSUME NEW p \in Providers, Leaving(p)
        PROVE  TypeOK' /\ TestsLeft'
    BY <1>16 DEF Leaving
  <1>17. CASE UNCHANGED vars
    BY <1>17 DEF vars
  <1> QED
    BY <1>1, <1>2, <1>3, <1>4, <1>5, <1>6, <1>7, <1>8, <1>9, <1>10, <1>11, <1>12, <1>13, <1>14, <1>15, <1>16, <1>17 DEF Next, ConnectStep

LEMMA LockStep ==
  ASSUME TypeOK, LockHasOwner, [Next]_vars
  PROVE  LockHasOwner'
  <1> USE DEF TypeOK, LockHasOwner, Installing, Goto, At, Smooth, Trouble, GiveUp, Leave, Wait, machine
  <1>1. ASSUME NEW p \in Providers, Begin(p)
        PROVE  LockHasOwner'
    BY <1>1 DEF Begin
  <1>2. ASSUME NEW p \in Providers, TestLock(p)
        PROVE  LockHasOwner'
    BY <1>2 DEF TestLock
  <1>3. ASSUME NEW p \in Providers, CheckVersion(p)
        PROVE  LockHasOwner'
    BY <1>3 DEF CheckVersion
  <1>4. ASSUME NEW p \in Providers, Touch(p)
        PROVE  LockHasOwner'
    BY <1>4 DEF Touch
  <1>5. ASSUME NEW p \in Providers, OpenUpload(p)
        PROVE  LockHasOwner'
    BY <1>5 DEF OpenUpload
  <1>6. ASSUME NEW p \in Providers, CopyUpload(p)
        PROVE  LockHasOwner'
    BY <1>6 DEF CopyUpload
  <1>7. ASSUME NEW p \in Providers, Rename(p)
        PROVE  LockHasOwner'
    BY <1>7 DEF Rename
  <1>8. ASSUME NEW p \in Providers, Chmod(p)
        PROVE  LockHasOwner'
    BY <1>8 DEF Chmod
  <1>9. ASSUME NEW p \in Providers, Clean(p)
        PROVE  LockHasOwner'
    BY <1>9 DEF Clean
  <1>10. ASSUME NEW p \in Providers, Unlock(p)
        PROVE  LockHasOwner'
    BY <1>10 DEF Unlock
  <1>11. ASSUME NEW p \in Providers, Start(p)
        PROVE  LockHasOwner'
    BY <1>11 DEF Start
  <1>12. ASSUME NEW p \in Providers, StageOpen(p)
        PROVE  LockHasOwner'
    BY <1>12 DEF StageOpen
  <1>13. ASSUME NEW p \in Providers, StageCopy(p)
        PROVE  LockHasOwner'
    BY <1>13 DEF StageCopy
  <1>14. ASSUME NEW p \in Providers, UseStaged(p)
        PROVE  LockHasOwner'
    BY <1>14 DEF UseStaged
  <1>15. ASSUME NEW p \in Providers, Die(p)
        PROVE  LockHasOwner'
    BY <1>15 DEF Die
  <1>16. ASSUME NEW p \in Providers, Leaving(p)
        PROVE  LockHasOwner'
    BY <1>16 DEF Leaving
  <1>17. CASE UNCHANGED vars
    BY <1>17 DEF vars
  <1> QED
    BY <1>1, <1>2, <1>3, <1>4, <1>5, <1>6, <1>7, <1>8, <1>9, <1>10, <1>11, <1>12, <1>13, <1>14, <1>15, <1>16, <1>17 DEF Next, ConnectStep

LEMMA SettledStep ==
  ASSUME TypeOK, StaysSettled, [Next]_vars
  PROVE  StaysSettled'
  <1> USE DEF TypeOK, StaysSettled, Settled, IsCurrent, Installing, Goto, At, Smooth, Trouble, GiveUp, Leave, Wait, machine
  <1>1. ASSUME NEW p \in Providers, Begin(p)
        PROVE  StaysSettled'
    BY <1>1 DEF Begin
  <1>2. ASSUME NEW p \in Providers, TestLock(p)
        PROVE  StaysSettled'
    BY <1>2 DEF TestLock
  <1>3. ASSUME NEW p \in Providers, CheckVersion(p)
        PROVE  StaysSettled'
    BY <1>3 DEF CheckVersion
  <1>4. ASSUME NEW p \in Providers, Touch(p)
        PROVE  StaysSettled'
    BY <1>4 DEF Touch
  <1>5. ASSUME NEW p \in Providers, OpenUpload(p)
        PROVE  StaysSettled'
    BY <1>5 DEF OpenUpload
  <1>6. ASSUME NEW p \in Providers, CopyUpload(p)
        PROVE  StaysSettled'
    BY <1>6 DEF CopyUpload
  <1>7. ASSUME NEW p \in Providers, Rename(p)
        PROVE  StaysSettled'
    BY <1>7 DEF Rename
  <1>8. ASSUME NEW p \in Providers, Chmod(p)
        PROVE  StaysSettled'
    BY <1>8 DEF Chmod
  <1>9. ASSUME NEW p \in Providers, Clean(p)
        PROVE  StaysSettled'
    BY <1>9 DEF Clean
  <1>10. ASSUME NEW p \in Providers, Unlock(p)
        PROVE  StaysSettled'
    BY <1>10 DEF Unlock
  <1>11. ASSUME NEW p \in Providers, Start(p)
        PROVE  StaysSettled'
    BY <1>11 DEF Start
  <1>12. ASSUME NEW p \in Providers, StageOpen(p)
        PROVE  StaysSettled'
    BY <1>12 DEF StageOpen
  <1>13. ASSUME NEW p \in Providers, StageCopy(p)
        PROVE  StaysSettled'
    BY <1>13 DEF StageCopy
  <1>14. ASSUME NEW p \in Providers, UseStaged(p)
        PROVE  StaysSettled'
    BY <1>14 DEF UseStaged
  <1>15. ASSUME NEW p \in Providers, Die(p)
        PROVE  StaysSettled'
    BY <1>15 DEF Die
  <1>16. ASSUME NEW p \in Providers, Leaving(p)
        PROVE  StaysSettled'
    BY <1>16 DEF Leaving
  <1>17. CASE UNCHANGED vars
    BY <1>17 DEF vars
  <1> QED
    BY <1>1, <1>2, <1>3, <1>4, <1>5, <1>6, <1>7, <1>8, <1>9, <1>10, <1>11, <1>12, <1>13, <1>14, <1>15, <1>16, <1>17 DEF Next, ConnectStep

LEMMA UploadStep ==
  ASSUME TypeOK, UploadIsOwn, [Next]_vars
  PROVE  UploadIsOwn'
  <1> USE DEF TypeOK, UploadIsOwn, Goto, At, Smooth, Trouble, GiveUp, Leave, Wait, machine
  <1>1. ASSUME NEW p \in Providers, Begin(p)
        PROVE  UploadIsOwn'
    BY <1>1 DEF Begin
  <1>2. ASSUME NEW p \in Providers, TestLock(p)
        PROVE  UploadIsOwn'
    BY <1>2 DEF TestLock
  <1>3. ASSUME NEW p \in Providers, CheckVersion(p)
        PROVE  UploadIsOwn'
    BY <1>3 DEF CheckVersion
  <1>4. ASSUME NEW p \in Providers, Touch(p)
        PROVE  UploadIsOwn'
    BY <1>4 DEF Touch
  <1>5. ASSUME NEW p \in Providers, OpenUpload(p)
        PROVE  UploadIsOwn'
    <2> DEFINE new == [version |-> version[p], writer |-> p, whole |-> FALSE, exec |-> FALSE]
    <2>1. p \in Places /\ \A q \in Providers : q # p => q \in Places /\ (pc'[q] = pc[q])
      BY <1>5 DEF OpenUpload, Places
    <2>2. UNCHANGED version
      BY <1>5 DEF OpenUpload
    <2>3. CASE files' = [files EXCEPT ![p] = new]
      <3>1. files'[p] = new /\ \A q \in Providers : q # p => files'[q] = files[q]
        BY <2>1, <2>3
      <3>2. new # NoFile
        <4>1. new \in Binary
          BY DEF Binary
        <4> QED
          BY <4>1, NamesAssumption
      <3>3. pc'[p] # "rename"
        BY <1>5 DEF OpenUpload
      <3> QED
        BY <2>1, <2>2, <3>1, <3>2, <3>3
    <2>4. CASE GiveUp(p) /\ UNCHANGED files
      BY <2>2, <2>4
    <2> QED
      BY <1>5, <2>3, <2>4 DEF OpenUpload
  <1>6. ASSUME NEW p \in Providers, CopyUpload(p)
        PROVE  UploadIsOwn'
    <2>1. p \in Places /\ \A q \in Providers : q # p => q \in Places /\ (pc'[q] = pc[q])
      BY <1>6 DEF CopyUpload, Places
    <2>2. UNCHANGED version /\ files[p] \in Binary /\ files[p] # NoFile
          /\ files[p].version = version[p] /\ files[p].writer = p
      BY <1>6, <2>1 DEF CopyUpload
    <2>3. CASE files' = [files EXCEPT ![p].whole = TRUE]
      <3>1. files'[p] = [files[p] EXCEPT !.whole = TRUE]
            /\ \A q \in Providers : q # p => files'[q] = files[q]
        BY <2>1, <2>3
      <3>2. files'[p] \in Binary /\ files'[p].whole
            /\ files'[p].version = version[p] /\ files'[p].writer = p
        BY <2>2, <3>1 DEF Binary
      <3>3. files'[p] # NoFile
        BY <3>2, NamesAssumption
      <3>4. ASSUME NEW q \in Providers, pc'[q] \in {"copy", "rename"}
            PROVE  /\ files'[q] # NoFile /\ files'[q].version = version'[q] /\ files'[q].writer = q
                   /\ pc'[q] = "rename" => files'[q].whole
        <4>1. CASE q = p
          BY <2>2, <3>2, <3>3, <4>1
        <4>2. CASE q # p
          BY <2>1, <2>2, <3>1, <3>4, <4>2
        <4> QED
          BY <4>1, <4>2
      <3> QED
        BY <3>4
    <2>4. CASE GiveUp(p) /\ UNCHANGED files
      BY <2>2, <2>4
    <2> QED
      BY <1>6, <2>3, <2>4 DEF CopyUpload
  <1>7. ASSUME NEW p \in Providers, Rename(p)
        PROVE  UploadIsOwn'
    <2>1. \A q \in Providers : q # p => files'[q] = files[q] /\ pc'[q] = pc[q]
      BY <1>7, NamesAssumption DEF Rename, Places
    <2>2. pc'[p] \in {"chmod", "unlock"} /\ UNCHANGED version
      BY <1>7 DEF Rename
    <2> QED
      BY <2>1, <2>2
  <1>8. ASSUME NEW p \in Providers, Chmod(p)
        PROVE  UploadIsOwn'
    <2>1. \A q \in Providers : files'[q] = files[q]
      BY <1>8, NamesAssumption DEF Chmod, Places
    <2>2. UNCHANGED version /\ \A q \in Providers : pc'[q] \in {pc[q], "clean", "unlock"}
      BY <1>8 DEF Chmod
    <2> QED
      BY <2>1, <2>2
  <1>9. ASSUME NEW p \in Providers, Clean(p)
        PROVE  UploadIsOwn'
    BY <1>9 DEF Clean
  <1>10. ASSUME NEW p \in Providers, Unlock(p)
        PROVE  UploadIsOwn'
    <2>1. pc'[p] \notin {"copy", "rename"} /\ UNCHANGED version
          /\ \A q \in Providers : q # p => pc'[q] = pc[q]
      BY <1>10 DEF Unlock
    <2>2. ASSUME NEW q \in Providers, q # p, pc[q] \in {"copy", "rename"}
          PROVE  files'[q] = files[q]
      <3>1. Close(p)
        BY <1>10 DEF Unlock
      <3>2. q \in Places /\ files[q] # NoFile /\ files[q].writer = q
        BY <2>2 DEF Places
      <3> HIDE DEF TypeOK
      <3> QED
        BY <2>2, <3>1, <3>2, CloseLemma
    <2> QED
      BY <2>1, <2>2
  <1>11. ASSUME NEW p \in Providers, Start(p)
        PROVE  UploadIsOwn'
    BY <1>11 DEF Start
  <1>12. ASSUME NEW p \in Providers, StageOpen(p)
        PROVE  UploadIsOwn'
    BY <1>12 DEF StageOpen
  <1>13. ASSUME NEW p \in Providers, StageCopy(p)
        PROVE  UploadIsOwn'
    BY <1>13 DEF StageCopy
  <1>14. ASSUME NEW p \in Providers, UseStaged(p)
        PROVE  UploadIsOwn'
    BY <1>14 DEF UseStaged
  <1>15. ASSUME NEW p \in Providers, Die(p)
        PROVE  UploadIsOwn'
    <2>1. pc'[p] \notin {"copy", "rename"} /\ UNCHANGED version
          /\ \A q \in Providers : q # p => pc'[q] = pc[q]
      BY <1>15 DEF Die
    <2>2. ASSUME NEW q \in Providers, q # p, pc[q] \in {"copy", "rename"}
          PROVE  files'[q] = files[q]
      <3>1. Close(p)
        BY <1>15 DEF Die
      <3>2. q \in Places /\ files[q] # NoFile /\ files[q].writer = q
        BY <2>2 DEF Places
      <3> HIDE DEF TypeOK
      <3> QED
        BY <2>2, <3>1, <3>2, CloseLemma
    <2> QED
      BY <2>1, <2>2
  <1>16. ASSUME NEW p \in Providers, Leaving(p)
        PROVE  UploadIsOwn'
    BY <1>16 DEF Leaving
  <1>17. CASE UNCHANGED vars
    BY <1>17 DEF vars
  <1> QED
    BY <1>1, <1>2, <1>3, <1>4, <1>5, <1>6, <1>7, <1>8, <1>9, <1>10, <1>11, <1>12, <1>13, <1>14, <1>15, <1>16, <1>17 DEF Next, ConnectStep

\* What is at mid-agent before and after the steps that write files.
LEMMA MidAgentLemma ==
  ASSUME TypeOK, PlacedIsOwn, NEW p \in Providers
  PROVE  /\ OpenUpload(p) \/ CopyUpload(p) => files'["mid-agent"] = files["mid-agent"]
         /\ Rename(p) => files' = files \/ files'["mid-agent"] = files[p]
         /\ Chmod(p) =>
              /\ files["mid-agent"] # NoFile /\ files'["mid-agent"] # NoFile
              /\ files'["mid-agent"].version = files["mid-agent"].version
              /\ files'["mid-agent"].writer = files["mid-agent"].writer
              /\ files'["mid-agent"].whole = files["mid-agent"].whole
              /\ files["mid-agent"].exec \/ pc'[p] = "clean" => files'["mid-agent"].exec
  <1>1. "mid-agent" \in Places /\ p \in Places /\ p # "mid-agent" /\ files \in [Places -> Binary \cup {NoFile}]
    BY NamesAssumption DEF Places, TypeOK
  <1>2. ASSUME OpenUpload(p) \/ CopyUpload(p)
        PROVE  files'["mid-agent"] = files["mid-agent"]
    BY <1>1, <1>2 DEF OpenUpload, CopyUpload
  <1>3. ASSUME Rename(p)
        PROVE  files' = files \/ files'["mid-agent"] = files[p]
    BY <1>1, <1>3 DEF Rename
  <1>4. ASSUME Chmod(p)
        PROVE  /\ files["mid-agent"] # NoFile /\ files'["mid-agent"] # NoFile
               /\ files'["mid-agent"].version = files["mid-agent"].version
               /\ files'["mid-agent"].writer = files["mid-agent"].writer
               /\ files'["mid-agent"].whole = files["mid-agent"].whole
               /\ files["mid-agent"].exec \/ pc'[p] = "clean" => files'["mid-agent"].exec
    <2>1. files["mid-agent"] \in Binary /\ files["mid-agent"] # NoFile
      BY <1>1, <1>4 DEF Chmod, At, PlacedIsOwn, HasPlaced
    <2>2. \/ UNCHANGED files
          \/ files' = [files EXCEPT !["mid-agent"].exec = TRUE]
      BY <1>4 DEF Chmod
    <2>3. pc'[p] = "clean" => files'["mid-agent"].exec
      <3>1. files'["mid-agent"].exec \/ GiveUp(p)
        BY <1>4 DEF Chmod
      <3>2. GiveUp(p) => pc'[p] # "clean"
        BY DEF GiveUp, Leave, Goto, TypeOK
      <3> QED
        BY <3>1, <3>2
    <2>4. CASE files' = [files EXCEPT !["mid-agent"].exec = TRUE]
      <3>1. files'["mid-agent"] = [files["mid-agent"] EXCEPT !.exec = TRUE]
        BY <1>1, <2>4
      <3>2. /\ files'["mid-agent"] \in Binary /\ files'["mid-agent"].exec
            /\ files'["mid-agent"].version = files["mid-agent"].version
            /\ files'["mid-agent"].writer = files["mid-agent"].writer
            /\ files'["mid-agent"].whole = files["mid-agent"].whole
        BY <2>1, <3>1 DEF Binary
      <3>3. files'["mid-agent"] # NoFile
        BY <3>2, NamesAssumption
      <3> QED
        BY <2>1, <3>2, <3>3
    <2> QED
      BY <2>1, <2>2, <2>3, <2>4
  <1> QED
    BY <1>2, <1>3, <1>4

LEMMA WholeStep ==
  ASSUME TypeOK, UploadIsOwn, PlacedIsOwn, InstalledIsWhole, [Next]_vars
  PROVE  InstalledIsWhole'
  <1> USE DEF InstalledIsWhole
  <1>1. ASSUME NEW p \in Providers, Begin(p)
        PROVE  InstalledIsWhole'
    BY <1>1 DEF Begin, machine
  <1>2. ASSUME NEW p \in Providers, TestLock(p)
        PROVE  InstalledIsWhole'
    BY <1>2 DEF TestLock, machine
  <1>3. ASSUME NEW p \in Providers, CheckVersion(p)
        PROVE  InstalledIsWhole'
    BY <1>3 DEF CheckVersion, machine
  <1>4. ASSUME NEW p \in Providers, Touch(p)
        PROVE  InstalledIsWhole'
    BY <1>4 DEF Touch, machine
  <1>5. ASSUME NEW p \in Providers, OpenUpload(p)
        PROVE  InstalledIsWhole'
    BY <1>5, MidAgentLemma
  <1>6. ASSUME NEW p \in Providers, CopyUpload(p)
        PROVE  InstalledIsWhole'
    BY <1>6, MidAgentLemma
  <1>7. ASSUME NEW p \in Providers, Rename(p)
        PROVE  InstalledIsWhole'
    <2>1. files[p] # NoFile /\ files[p].whole
      BY <1>7 DEF Rename, At, UploadIsOwn
    <2> QED
      BY <1>7, <2>1, MidAgentLemma
  <1>8. ASSUME NEW p \in Providers, Chmod(p)
        PROVE  InstalledIsWhole'
    BY <1>8, MidAgentLemma
  <1>9. ASSUME NEW p \in Providers, Clean(p)
        PROVE  InstalledIsWhole'
    BY <1>9 DEF Clean, machine
  <1>10. ASSUME NEW p \in Providers, Unlock(p)
        PROVE  InstalledIsWhole'
    <2>1. Close(p)
      BY <1>10 DEF Unlock
    <2>2. "mid-agent" \in Places
      BY DEF Places
    <2> QED
      BY <2>1, <2>2, CloseLemma
  <1>11. ASSUME NEW p \in Providers, Start(p)
        PROVE  InstalledIsWhole'
    BY <1>11 DEF Start, machine
  <1>12. ASSUME NEW p \in Providers, StageOpen(p)
        PROVE  InstalledIsWhole'
    BY <1>12 DEF StageOpen, machine
  <1>13. ASSUME NEW p \in Providers, StageCopy(p)
        PROVE  InstalledIsWhole'
    BY <1>13 DEF StageCopy, machine
  <1>14. ASSUME NEW p \in Providers, UseStaged(p)
        PROVE  InstalledIsWhole'
    BY <1>14 DEF UseStaged, machine
  <1>15. ASSUME NEW p \in Providers, Die(p)
        PROVE  InstalledIsWhole'
    <2>1. Close(p)
      BY <1>15 DEF Die
    <2>2. "mid-agent" \in Places
      BY DEF Places
    <2> QED
      BY <2>1, <2>2, CloseLemma
  <1>16. ASSUME NEW p \in Providers, Leaving(p)
        PROVE  InstalledIsWhole'
    BY <1>16 DEF Leaving, machine
  <1>17. CASE UNCHANGED vars
    BY <1>17 DEF vars
  <1> QED
    BY <1>1, <1>2, <1>3, <1>4, <1>5, <1>6, <1>7, <1>8, <1>9, <1>10, <1>11, <1>12, <1>13, <1>14, <1>15, <1>16, <1>17 DEF Next, ConnectStep

LEMMA PlacedStep ==
  ASSUME TypeOK, UploadIsOwn, PlacedIsOwn, [Next]_vars
  PROVE  PlacedIsOwn'
  <1> USE DEF TypeOK, PlacedIsOwn, HasPlaced, Goto, At, Smooth, Trouble, GiveUp, Leave, Wait, machine
  <1>1. ASSUME NEW p \in Providers, Begin(p)
        PROVE  PlacedIsOwn'
    BY <1>1 DEF Begin
  <1>2. ASSUME NEW p \in Providers, TestLock(p)
        PROVE  PlacedIsOwn'
    BY <1>2 DEF TestLock
  <1>3. ASSUME NEW p \in Providers, CheckVersion(p)
        PROVE  PlacedIsOwn'
    BY <1>3 DEF CheckVersion
  <1>4. ASSUME NEW p \in Providers, Touch(p)
        PROVE  PlacedIsOwn'
    BY <1>4 DEF Touch
  <1>5. ASSUME NEW p \in Providers, OpenUpload(p)
        PROVE  PlacedIsOwn'
    <2>1. files'["mid-agent"] = files["mid-agent"]
      BY <1>5, MidAgentLemma
    <2>2. /\ UNCHANGED <<version, replaced>>
          /\ ~HasPlaced(p)'
          /\ \A q \in Providers : q # p => pc'[q] = pc[q] /\ good'[q] = good[q]
      BY <1>5 DEF OpenUpload
    <2> QED
      BY <2>1, <2>2
  <1>6. ASSUME NEW p \in Providers, CopyUpload(p)
        PROVE  PlacedIsOwn'
    <2>1. files'["mid-agent"] = files["mid-agent"]
      BY <1>6, MidAgentLemma
    <2>2. /\ UNCHANGED <<version, replaced>>
          /\ ~HasPlaced(p)'
          /\ \A q \in Providers : q # p => pc'[q] = pc[q] /\ good'[q] = good[q]
      BY <1>6 DEF CopyUpload
    <2> QED
      BY <2>1, <2>2
  <1>7. ASSUME NEW p \in Providers, Rename(p)
        PROVE  PlacedIsOwn'
    <2>1. files[p] # NoFile /\ files[p].version = version[p] /\ files[p].writer = p
      BY <1>7 DEF Rename, UploadIsOwn
    <2>2. /\ UNCHANGED version
          /\ HasPlaced(p)' => files' # files /\ pc'[p] = "chmod"
          /\ \A q \in Providers : q # p => pc'[q] = pc[q] /\ good'[q] = good[q]
      BY <1>7 DEF Rename
    <2>3. CASE files' = files
      <3>1. replaced' = replaced
        BY <1>7, <2>3 DEF Rename
      <3> QED
        BY <2>2, <2>3, <3>1
    <2>4. CASE files' # files
      <3>1. files'["mid-agent"] = files[p]
        BY <1>7, <2>4, MidAgentLemma
      <3>2. \A q \in Providers : q # p /\ HasPlaced(q) => q \in replaced'
        BY <1>7, <2>4 DEF Rename, Relying
      <3> QED
        BY <2>1, <2>2, <3>1, <3>2
    <2> QED
      BY <2>3, <2>4
  <1>8. ASSUME NEW p \in Providers, Chmod(p)
        PROVE  PlacedIsOwn'
    <2>1. /\ UNCHANGED <<version, replaced>>
          /\ HasPlaced(p)' => pc'[p] = "clean"
          /\ \A q \in Providers : q # p => pc'[q] = pc[q] /\ good'[q] = good[q]
      BY <1>8 DEF Chmod
    <2>2. HasPlaced(p)
      BY <1>8 DEF Chmod
    <2> HIDE DEF TypeOK
    <2>3. /\ files["mid-agent"] # NoFile /\ files'["mid-agent"] # NoFile
          /\ files'["mid-agent"].version = files["mid-agent"].version
          /\ files'["mid-agent"].writer = files["mid-agent"].writer
          /\ files["mid-agent"].exec \/ pc'[p] = "clean" => files'["mid-agent"].exec
      BY <1>8, MidAgentLemma
    <2> QED
      BY <2>1, <2>2, <2>3
  <1>9. ASSUME NEW p \in Providers, Clean(p)
        PROVE  PlacedIsOwn'
    BY <1>9 DEF Clean
  <1>10. ASSUME NEW p \in Providers, Unlock(p)
        PROVE  PlacedIsOwn'
    <2>1. Close(p) /\ "mid-agent" \in Places
      BY <1>10 DEF Unlock, Places
    <2>2. /\ UNCHANGED <<version, replaced, good>> /\ ~HasPlaced(p)'
          /\ \A q \in Providers : q # p => pc'[q] = pc[q]
      BY <1>10 DEF Unlock
    <2> HIDE DEF TypeOK
    <2>3. /\ files'["mid-agent"] = NoFile <=> files["mid-agent"] = NoFile
          /\ files["mid-agent"] # NoFile /\ files["mid-agent"].writer # p =>
               files'["mid-agent"] = files["mid-agent"]
      BY <2>1, CloseLemma
    <2> QED
      BY <2>2, <2>3
  <1>11. ASSUME NEW p \in Providers, Start(p)
        PROVE  PlacedIsOwn'
    BY <1>11 DEF Start
  <1>12. ASSUME NEW p \in Providers, StageOpen(p)
        PROVE  PlacedIsOwn'
    BY <1>12 DEF StageOpen
  <1>13. ASSUME NEW p \in Providers, StageCopy(p)
        PROVE  PlacedIsOwn'
    BY <1>13 DEF StageCopy
  <1>14. ASSUME NEW p \in Providers, UseStaged(p)
        PROVE  PlacedIsOwn'
    BY <1>14 DEF UseStaged
  <1>15. ASSUME NEW p \in Providers, Die(p)
        PROVE  PlacedIsOwn'
    <2>1. Close(p) /\ "mid-agent" \in Places
      BY <1>15 DEF Die, Places
    <2>2. /\ UNCHANGED <<version, replaced, good>> /\ ~HasPlaced(p)'
          /\ \A q \in Providers : q # p => pc'[q] = pc[q]
      BY <1>15 DEF Die
    <2> HIDE DEF TypeOK
    <2>3. /\ files'["mid-agent"] = NoFile <=> files["mid-agent"] = NoFile
          /\ files["mid-agent"] # NoFile /\ files["mid-agent"].writer # p =>
               files'["mid-agent"] = files["mid-agent"]
      BY <2>1, CloseLemma
    <2> QED
      BY <2>2, <2>3
  <1>16. ASSUME NEW p \in Providers, Leaving(p)
        PROVE  PlacedIsOwn'
    BY <1>16 DEF Leaving
  <1>17. CASE UNCHANGED vars
    BY <1>17 DEF vars
  <1> QED
    BY <1>1, <1>2, <1>3, <1>4, <1>5, <1>6, <1>7, <1>8, <1>9, <1>10, <1>11, <1>12, <1>13, <1>14, <1>15, <1>16, <1>17 DEF Next, ConnectStep

LEMMA StartsStep ==
  ASSUME TypeOK, PlacedIsOwn, InstalledIsWhole, StartsOwnAgent, [Next]_vars
  PROVE  StartsOwnAgent'
  <1> USE DEF TypeOK, StartsOwnAgent, Goto, At, Smooth, Trouble, GiveUp, Leave, Wait, machine
  <1>1. ASSUME NEW p \in Providers, Begin(p)
        PROVE  StartsOwnAgent'
    BY <1>1 DEF Begin
  <1>2. ASSUME NEW p \in Providers, TestLock(p)
        PROVE  StartsOwnAgent'
    BY <1>2 DEF TestLock
  <1>3. ASSUME NEW p \in Providers, CheckVersion(p)
        PROVE  StartsOwnAgent'
    <2>1. /\ UNCHANGED <<version, files>> /\ replaced' = replaced \ {p}
          /\ pc'[p] = "start" => IsCurrent(p, files["mid-agent"])
          /\ \A q \in Providers : q # p => pc'[q] = pc[q]
      BY <1>3 DEF CheckVersion
    <2> QED
      BY <2>1 DEF IsCurrent
  <1>4. ASSUME NEW p \in Providers, Touch(p)
        PROVE  StartsOwnAgent'
    BY <1>4 DEF Touch
  <1>5. ASSUME NEW p \in Providers, OpenUpload(p)
        PROVE  StartsOwnAgent'
    <2>1. files'["mid-agent"] = files["mid-agent"]
      BY <1>5, MidAgentLemma
    <2>2. /\ UNCHANGED <<version, replaced>>
          /\ \A q \in Providers : pc'[q] = "start" => pc[q] = "start"
      BY <1>5 DEF OpenUpload
    <2> QED
      BY <2>1, <2>2
  <1>6. ASSUME NEW p \in Providers, CopyUpload(p)
        PROVE  StartsOwnAgent'
    <2>1. files'["mid-agent"] = files["mid-agent"]
      BY <1>6, MidAgentLemma
    <2>2. /\ UNCHANGED <<version, replaced>>
          /\ \A q \in Providers : pc'[q] = "start" => pc[q] = "start"
      BY <1>6 DEF CopyUpload
    <2> QED
      BY <2>1, <2>2
  <1>7. ASSUME NEW p \in Providers, Rename(p)
        PROVE  StartsOwnAgent'
    <2>1. /\ UNCHANGED version /\ pc'[p] # "start"
          /\ \A q \in Providers : q # p => pc'[q] = pc[q]
      BY <1>7 DEF Rename
    <2>2. CASE files' = files
      <3>1. replaced' = replaced
        BY <1>7, <2>2 DEF Rename
      <3> QED
        BY <2>1, <2>2, <3>1
    <2>3. CASE files' # files
      <3>1. \A q \in Providers : q # p /\ pc[q] = "start" => q \in replaced'
        BY <1>7, <2>3 DEF Rename, Relying
      <3> QED
        BY <2>1, <3>1
    <2> QED
      BY <2>2, <2>3
  <1>8. ASSUME NEW p \in Providers, Chmod(p)
        PROVE  StartsOwnAgent'
    <2>1. /\ UNCHANGED <<version, replaced>>
          /\ \A q \in Providers : pc'[q] = "start" => pc[q] = "start"
      BY <1>8 DEF Chmod
    <2> HIDE DEF TypeOK
    <2>2. /\ files["mid-agent"] # NoFile /\ files'["mid-agent"] # NoFile
          /\ files'["mid-agent"].version = files["mid-agent"].version
          /\ files'["mid-agent"].writer = files["mid-agent"].writer
          /\ files'["mid-agent"].whole = files["mid-agent"].whole
          /\ files["mid-agent"].exec => files'["mid-agent"].exec
      BY <1>8, MidAgentLemma
    <2> QED
      BY <2>1, <2>2 DEF Runs
  <1>9. ASSUME NEW p \in Providers, Clean(p)
        PROVE  StartsOwnAgent'
    BY <1>9 DEF Clean
  <1>10. ASSUME NEW p \in Providers, Unlock(p)
        PROVE  StartsOwnAgent'
    <2>1. Close(p) /\ "mid-agent" \in Places
      BY <1>10 DEF Unlock, Places
    <2>2. UNCHANGED <<version, replaced>> /\ \A q \in Providers : q # p => pc'[q] = pc[q]
      BY <1>10 DEF Unlock
    <2>3. ASSUME NEW q \in Providers, q # p, pc[q] = "start", q \notin replaced
          PROVE  files'["mid-agent"] = files["mid-agent"]
      <3>1. files["mid-agent"] # NoFile /\ files["mid-agent"].writer # p
        BY <2>3, NamesAssumption DEF Runs
      <3> HIDE DEF TypeOK
      <3> QED
        BY <2>1, <3>1, CloseLemma
    <2>4. ASSUME pc'[p] = "start", p \notin replaced
          PROVE  Runs(files'["mid-agent"]) /\ <<version[p], files'["mid-agent"].version>> \in Matches
      <3>1. HasPlaced(p) /\ pc[p] # "chmod"
        BY <1>10, <2>4 DEF Unlock, HasPlaced
      <3>2. /\ files["mid-agent"] # NoFile /\ files["mid-agent"].exec /\ files["mid-agent"].whole
            /\ files["mid-agent"].version = version[p] /\ files["mid-agent"].writer = p
        BY <2>4, <3>1 DEF PlacedIsOwn, InstalledIsWhole
      <3>3. <<version[p], version[p]>> \in Matches
        BY InstallAssumption
      <3> HIDE DEF TypeOK
      <3> QED
        BY <2>1, <3>2, <3>3, CloseLemma DEF Runs
    <2> QED
      BY <2>2, <2>3, <2>4
  <1>11. ASSUME NEW p \in Providers, Start(p)
        PROVE  StartsOwnAgent'
    BY <1>11 DEF Start
  <1>12. ASSUME NEW p \in Providers, StageOpen(p)
        PROVE  StartsOwnAgent'
    BY <1>12 DEF StageOpen
  <1>13. ASSUME NEW p \in Providers, StageCopy(p)
        PROVE  StartsOwnAgent'
    BY <1>13 DEF StageCopy
  <1>14. ASSUME NEW p \in Providers, UseStaged(p)
        PROVE  StartsOwnAgent'
    BY <1>14 DEF UseStaged
  <1>15. ASSUME NEW p \in Providers, Die(p)
        PROVE  StartsOwnAgent'
    <2>1. Close(p) /\ "mid-agent" \in Places
      BY <1>15 DEF Die, Places
    <2>2. UNCHANGED <<version, replaced>> /\ \A q \in Providers : q # p => pc'[q] = pc[q]
      BY <1>15 DEF Die
    <2>3. ASSUME NEW q \in Providers, q # p, pc[q] = "start", q \notin replaced
          PROVE  files'["mid-agent"] = files["mid-agent"]
      <3>1. files["mid-agent"] # NoFile /\ files["mid-agent"].writer # p
        BY <2>3, NamesAssumption DEF Runs
      <3> HIDE DEF TypeOK
      <3> QED
        BY <2>1, <3>1, CloseLemma
    <2>4. pc'[p] # "start"
      BY <1>15 DEF Die
    <2> QED
      BY <2>2, <2>3, <2>4
  <1>16. ASSUME NEW p \in Providers, Leaving(p)
        PROVE  StartsOwnAgent'
    BY <1>16 DEF Leaving
  <1>17. CASE UNCHANGED vars
    BY <1>17 DEF vars
  <1> QED
    BY <1>1, <1>2, <1>3, <1>4, <1>5, <1>6, <1>7, <1>8, <1>9, <1>10, <1>11, <1>12, <1>13, <1>14, <1>15, <1>16, <1>17 DEF Next, ConnectStep

-----------------------------------------------------------------------------
\* The invariant is inductive.
LEMMA NextInv == IInv /\ [Next]_vars => IInv'
  BY TypeStep, LockStep, SettledStep, UploadStep, WholeStep, PlacedStep, StartsStep DEF IInv

\* An upload is its provider's own, whole when it is renamed, and recorded as
\* replaced when another one takes its place.
THEOREM InstallInvariant == Spec => []IInv
  BY InitInv, NextInv, PTL DEF Spec

\* Type correctness.
THEOREM TypeCorrect == Spec => []TypeOK
  <1>1. IInv => TypeOK
    BY DEF IInv
  <1> QED
    BY <1>1, InstallInvariant, PTL

\* What is at .mid/mid-agent is a complete binary, however many providers install
\* at once and wherever they break off.
THEOREM BinaryIsWhole == Spec => []InstalledIsWhole
  <1>1. IInv => InstalledIsWhole
    BY DEF IInv
  <1> QED
    BY <1>1, InstallInvariant, PTL

\* Whoever starts the agent starts one of its own version, unless another
\* provider has replaced it meanwhile.
THEOREM OwnAgentStarts == Spec => []StartsOwnAgent
  <1>1. IInv => StartsOwnAgent
    BY DEF IInv
  <1> QED
    BY <1>1, InstallInvariant, PTL

\* A lock without somebody who installs was left behind by a failure.
THEOREM LockIsOwned == Spec => []LockHasOwner
  <1>1. IInv => LockHasOwner
    BY DEF IInv
  <1> QED
    BY <1>1, InstallInvariant, PTL

\* What a provider stages stays, once it has started an agent that suits everybody
\* while nobody installed, until something fails.
THEOREM StagedFilesStay == Spec => []StagedStays
  <1>1. IInv => StagedStays
    BY DEF IInv, StaysSettled, StagedStays, At
  <1> QED
    BY <1>1, InstallInvariant, PTL
=============================================================================
