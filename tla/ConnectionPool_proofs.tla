----------------------- MODULE ConnectionPool_proofs -----------------------
(***************************************************************************)
(* Proofs, for any number of goroutines, hosts and ConnectionStates, that  *)
(* the executor's pool keeps its safety properties.                        *)
(*                                                                         *)
(* The inductive invariant says who owns what.  A goroutine that dials or  *)
(* connects in SetupAgent holds SetupAgentMutex of its state, and the      *)
(* state has no running agent until Connect has started the new one; the   *)
(* goroutine of DisconnectAll holds the same mutex before it takes an      *)
(* agent away.  So live[s] is the number that the state of the agent says. *)
(***************************************************************************)
EXTENDS ConnectionPool, TLAPS

(* A goroutine has a state exactly while it does a job. *)
HeldWhenBusy ==
  \A t \in Tasks : pc[t] \in {"idle", "start"} <=> held[t] = NoState

(* SetupAgent works under its mutex on a state without a running agent. *)
SetupExclusive ==
  \A t \in Tasks :
    pc[t] \in {"setupDial", "connecting"} =>
      /\ setupMutex[held[t]] = t
      /\ agent[held[t]] # "running"

(* DisconnectAll takes an agent away under the same mutex. *)
ExitExclusive ==
  exit \in {"oneLock", "bothLocks"} =>
    /\ exiting \in States
    /\ setupMutex[exiting] = Exit

(* The history variable live counts what agent says. *)
LiveIsRunning ==
  \A s \in States : live[s] = IF agent[s] = "running" THEN 1 ELSE 0

(* Before the provider exits a state that is held is the one of its host. *)
HeldIsPooled ==
  exit = "off" =>
    \A t \in Tasks : held[t] # NoState => pool[job[t].host] = held[t]

IInv ==
  /\ TypeOK
  /\ HeldWhenBusy
  /\ SetupExclusive
  /\ ExitExclusive
  /\ LiveIsRunning
  /\ HeldIsPooled
  /\ CallFindsAgent

-----------------------------------------------------------------------------
LEMMA InitInv == Init => IInv
  <1> SUFFICES ASSUME Init
               PROVE  IInv
    OBVIOUS
  <1> USE DEF Init
  <1>1. TypeOK
    <2>1. job \in [Tasks -> Jobs]
      BY DEF Jobs
    <2> QED
      BY <2>1, PoolAssumption DEF TypeOK, Places
  <1> QED
    BY <1>1 DEF IInv, HeldWhenBusy, SetupExclusive, ExitExclusive, LiveIsRunning,
                HeldIsPooled, CallFindsAgent

-----------------------------------------------------------------------------
(* Every step keeps the types; live is a number as LiveIsRunning says. *)
LEMMA TypeStep == IInv /\ [Next]_vars => TypeOK'
  <1> SUFFICES ASSUME IInv, [Next]_vars
               PROVE  TypeOK'
    OBVIOUS
  <1> USE PoolAssumption DEF IInv, TypeOK, Goto, Conclude, Lock, Unlock, SetFlags, StartAgent,
          vars, poolVars, agentVars, flagVars, limitVars, mutexVars, taskVars, exitVars
  <1>1. ASSUME NEW t \in Tasks, Acquire(t)
       PROVE  TypeOK'
    <2>1. job' \in [Tasks -> Jobs]
      <3>1. job[t].host \in Hosts
        BY DEF Jobs
      <3>2. \A k \in Kinds, p \in BOOLEAN :
              [kind |-> k, preview |-> p, host |-> job[t].host] \in Jobs
        BY <3>1 DEF Jobs
      <3> QED
        BY <1>1, <3>2 DEF Acquire, ChooseJob
    <2>2. job[t].host \in Hosts
      BY DEF Jobs
    <2>3. pool' \in [Hosts -> States \cup {NoState}] /\ used' \in SUBSET States
      BY <1>1, <2>2 DEF Acquire, Load, Store
    <2>4. held' \in [Tasks -> States \cup {NoState}] /\ pc' \in [Tasks -> Places]
      BY <1>1, <2>2 DEF Acquire, Load, Store, Places
    <2> QED
      BY <1>1, <2>1, <2>3, <2>4 DEF Acquire
  <1>2. ASSUME NEW t \in Tasks, Finish(t)
       PROVE  TypeOK'
    <2>1. job' \in [Tasks -> Jobs]
      <3>1. job[t].host \in Hosts
        BY DEF Jobs
      <3>2. [kind |-> "call", preview |-> FALSE, host |-> job[t].host] \in Jobs
        BY <3>1 DEF Jobs
      <3> QED
        BY <1>2, <3>2 DEF Finish
    <2>2. taskCount' \in [States -> Nat]
      <3>1. \A n \in Nat : (IF n > 0 THEN n - 1 ELSE 0) \in Nat
        OBVIOUS
      <3>2. \A s \in States : taskCount'[s] \in Nat
        BY <1>2, <3>1 DEF Finish
      <3> QED
        BY <1>2, <3>2 DEF Finish
    <2> QED
      BY <1>2, <2>1, <2>2 DEF Finish, Places
  <1>3. ASSUME NEW t \in Tasks, ProbeCached(t)
       PROVE  TypeOK'
    BY <1>3 DEF ProbeCached, Places
  <1>4. ASSUME NEW t \in Tasks, ProbeDial(t)
       PROVE  TypeOK'
    BY <1>4 DEF ProbeDial, Places
  <1>5. ASSUME NEW t \in Tasks, ProbeDialed(t)
       PROVE  TypeOK'
    <2>1. PICK ok \in BOOLEAN :
            /\ Conclude(t, "probeDial", IF ok THEN "reachable" ELSE "unreachable")
            /\ SetFlags(held[t], ok, ~ok)
      BY <1>5 DEF ProbeDialed
    <2>2. (IF ok THEN "reachable" ELSE "unreachable")
            \in {"none", "reachable", "unreachable", "ok", "error"}
      OBVIOUS
    <2>3. /\ reachable' \in [States -> BOOLEAN]
          /\ unreachable' \in [States -> BOOLEAN]
      BY <2>1
    <2>4. /\ pc' \in [Tasks -> Places]
          /\ verdict' \in [Tasks -> {"none", "reachable", "unreachable", "ok", "error"}]
      BY <2>1, <2>2 DEF Places
    <2> QED
      BY <1>5, <2>3, <2>4 DEF ProbeDialed
  <1>6. ASSUME NEW t \in Tasks, CallUnreachable(t)
       PROVE  TypeOK'
    BY <1>6 DEF CallUnreachable, Places
  <1>7. ASSUME NEW t \in Tasks, WantAgent(t)
       PROVE  TypeOK'
    BY <1>7 DEF WantAgent, Places
  <1>8. ASSUME NEW t \in Tasks, SetupRunning(t)
       PROVE  TypeOK'
    BY <1>8 DEF SetupRunning, Places
  <1>9. ASSUME NEW t \in Tasks, SetupUnreachable(t)
       PROVE  TypeOK'
    BY <1>9 DEF SetupUnreachable, Places
  <1>10. ASSUME NEW t \in Tasks, SetupDial(t)
       PROVE  TypeOK'
    BY <1>10 DEF SetupDial, Places
  <1>11. ASSUME NEW t \in Tasks, SetupDialFailed(t)
       PROVE  TypeOK'
    BY <1>11 DEF SetupDialFailed, Places
  <1>12. ASSUME NEW t \in Tasks, SetupDialed(t)
       PROVE  TypeOK'
    BY <1>12 DEF SetupDialed, Places
  <1>13. ASSUME NEW t \in Tasks, ConnectFailed(t)
       PROVE  TypeOK'
    BY <1>13 DEF ConnectFailed, Places, LiveIsRunning, HeldWhenBusy
  <1>14. ASSUME NEW t \in Tasks, Connected(t)
       PROVE  TypeOK'
    <2>1. maxParallel' \in [States -> Int]
      <3>1. \A i \in Int : (IF i = 0 /\ pc'[t] = "calling" THEN NProc ELSE i) \in Int
        OBVIOUS
      <3> QED
        BY <1>14, <3>1 DEF Connected
    <2>2. live' \in [States -> Nat] /\ agent' \in [States -> {"nil", "made", "running", "dead"}]
      <3>1. \A n \in Nat : n + 1 \in Nat
        OBVIOUS
      <3> QED
        BY <1>14, <3>1 DEF Connected
    <2>3. /\ pc' \in [Tasks -> Places]
          /\ verdict' \in [Tasks -> {"none", "reachable", "unreachable", "ok", "error"}]
      BY <1>14 DEF Connected, Places
    <2> QED
      BY <1>14, <2>1, <2>2, <2>3 DEF Connected
  <1>15. ASSUME NEW t \in Tasks, Call(t)
       PROVE  TypeOK'
    BY <1>15 DEF Call, Places
  <1>16. ASSUME NEW t \in Tasks, CallReturn(t)
       PROVE  TypeOK'
    BY <1>16 DEF CallReturn, Places
  <1>17. ASSUME NEW s \in States, AgentDies(s)
       PROVE  TypeOK'
    BY <1>17 DEF AgentDies, LiveIsRunning
  <1>18. ASSUME ExitStart
       PROVE  TypeOK'
    BY <1>18 DEF ExitStart
  <1>19. ASSUME NEW h \in Hosts, ExitLockSetup(h)
       PROVE  TypeOK'
    BY <1>19 DEF ExitLockSetup
  <1>20. ASSUME ExitLockCan
       PROVE  TypeOK'
    BY <1>20 DEF ExitLockCan
  <1>21. ASSUME ExitPanic
       PROVE  TypeOK'
    BY <1>21 DEF ExitPanic
  <1>22. ASSUME ExitDisconnect
       PROVE  TypeOK'
    <2>1. exiting \in States
      BY <1>22 DEF ExitDisconnect, ExitExclusive
    <2>2. live' \in [States -> Nat]
      <3>1. agent[exiting] = "running" => live[exiting] = 1
        BY <2>1 DEF LiveIsRunning
      <3>2. (IF agent[exiting] = "running" THEN live[exiting] - 1 ELSE live[exiting]) \in Nat
        BY <2>1, <3>1
      <3> QED
        BY <1>22, <3>2 DEF ExitDisconnect
    <2> QED
      BY <1>22, <2>2 DEF ExitDisconnect
  <1>23. ASSUME ExitDone
       PROVE  TypeOK'
    BY <1>23 DEF ExitDone
  <1>24. ASSUME NEW t \in Tasks, SetLimit(t)
       PROVE  TypeOK'
    BY <1>24 DEF SetLimit, Places
  <1>25. ASSUME NEW t \in Tasks, SetupConfigFailed(t)
       PROVE  TypeOK'
    BY <1>25 DEF SetupConfigFailed, Places
  <1>26. CASE UNCHANGED vars
    BY <1>26 DEF vars
  <1> QED
    BY <1>1, <1>2, <1>3, <1>4, <1>5, <1>6, <1>7, <1>8, <1>9, <1>10, <1>11, <1>12,
       <1>13, <1>14, <1>15, <1>16, <1>17, <1>18, <1>19, <1>20, <1>21, <1>22, <1>23, <1>24,
       <1>25, <1>26
    DEF Next, TaskStep, ExitStep

(* Every step keeps who owns what. *)
LEMMA OwnStep ==
  IInv /\ [Next]_vars =>
    /\ HeldWhenBusy' /\ SetupExclusive' /\ ExitExclusive'
    /\ LiveIsRunning' /\ HeldIsPooled' /\ CallFindsAgent'
  <1> DEFINE Goal == /\ HeldWhenBusy' /\ SetupExclusive' /\ ExitExclusive'
                     /\ LiveIsRunning' /\ HeldIsPooled' /\ CallFindsAgent'
  <1> SUFFICES ASSUME IInv, [Next]_vars
               PROVE  Goal
    OBVIOUS
  <1> USE PoolAssumption DEF IInv, TypeOK, Goto, Conclude, Lock, Unlock, SetFlags, StartAgent,
          HeldWhenBusy, SetupExclusive, ExitExclusive, LiveIsRunning, HeldIsPooled, CallFindsAgent,
          vars, poolVars, agentVars, flagVars, limitVars, mutexVars, taskVars, exitVars
  <1>1. ASSUME NEW t \in Tasks, Acquire(t)
       PROVE  Goal
    <2>1. /\ pc[t] \in {"idle", "start"}
          /\ \E place \in {"stored", "acquired"} : pc' = [pc EXCEPT ![t] = place]
          /\ job[t].host \in Hosts
      BY <1>1 DEF Acquire, Load, Store, ChooseJob, Jobs
    <2>2. \A u \in Tasks : job'[u].host = job[u].host
      BY <1>1 DEF Acquire, ChooseJob
    <2>3. \E s \in States :
            /\ held' = [held EXCEPT ![t] = s]
            /\ \/ s = pool[job[t].host] /\ pool' = pool
               \/ pool[job[t].host] = NoState /\ pool' = [pool EXCEPT ![job[t].host] = s]
      BY <1>1, <2>1 DEF Acquire, Load, Store
    <2>4. UNCHANGED <<agent, live, died, setupMutex, exit, exiting>>
      BY <1>1 DEF Acquire
    <2> HIDE DEF Goal
    <2>5. HeldWhenBusy'
      BY <2>1, <2>3
    <2>6. SetupExclusive' /\ CallFindsAgent'
      BY <2>1, <2>3, <2>4
    <2>7. ExitExclusive' /\ LiveIsRunning'
      BY <2>4
    <2>8. HeldIsPooled'
      <3> SUFFICES ASSUME exit' = "off", NEW u \in Tasks, held'[u] # NoState
                   PROVE  pool'[job'[u].host] = held'[u]
        OBVIOUS
      <3>1. CASE u = t
        BY <3>1, <2>1, <2>2, <2>3
      <3>2. CASE u # t
        <4>1. held'[u] = held[u] /\ held[u] # NoState
          BY <3>2, <2>3
        <4>2. pool[job[u].host] = held[u]
          BY <4>1, <2>4
        <4>3. job[u].host # job[t].host \/ pool' = pool
          BY <4>1, <4>2, <2>3
        <4>4. pool'[job[u].host] = pool[job[u].host]
          <5>1. job[u].host \in Hosts
            BY DEF Jobs
          <5> QED
            BY <5>1, <4>3, <2>3
        <4> QED
          BY <4>1, <4>2, <4>4, <2>2
      <3> QED
        BY <3>1, <3>2
    <2> QED
      BY <2>5, <2>6, <2>7, <2>8 DEF Goal
  <1>2. ASSUME NEW t \in Tasks, Finish(t)
       PROVE  Goal
    BY <1>2 DEF Finish
  <1>3. ASSUME NEW t \in Tasks, ProbeCached(t)
       PROVE  Goal
    BY <1>3 DEF ProbeCached
  <1>4. ASSUME NEW t \in Tasks, ProbeDial(t)
       PROVE  Goal
    BY <1>4 DEF ProbeDial
  <1>5. ASSUME NEW t \in Tasks, ProbeDialed(t)
       PROVE  Goal
    BY <1>5 DEF ProbeDialed
  <1>6. ASSUME NEW t \in Tasks, CallUnreachable(t)
       PROVE  Goal
    BY <1>6 DEF CallUnreachable
  <1>7. ASSUME NEW t \in Tasks, WantAgent(t)
       PROVE  Goal
    BY <1>7 DEF WantAgent
  <1>8. ASSUME NEW t \in Tasks, SetupRunning(t)
       PROVE  Goal
    BY <1>8 DEF SetupRunning
  <1>9. ASSUME NEW t \in Tasks, SetupUnreachable(t)
       PROVE  Goal
    BY <1>9 DEF SetupUnreachable
  <1>10. ASSUME NEW t \in Tasks, SetupDial(t)
       PROVE  Goal
    BY <1>10 DEF SetupDial
  <1>11. ASSUME NEW t \in Tasks, SetupDialFailed(t)
       PROVE  Goal
    BY <1>11 DEF SetupDialFailed
  <1>12. ASSUME NEW t \in Tasks, SetupDialed(t)
       PROVE  Goal
    BY <1>12 DEF SetupDialed
  <1>13. ASSUME NEW t \in Tasks, ConnectFailed(t)
       PROVE  Goal
    BY <1>13 DEF ConnectFailed
  <1>14. ASSUME NEW t \in Tasks, Connected(t)
       PROVE  Goal
    BY <1>14 DEF Connected
  <1>15. ASSUME NEW t \in Tasks, Call(t)
       PROVE  Goal
    BY <1>15 DEF Call
  <1>16. ASSUME NEW t \in Tasks, CallReturn(t)
       PROVE  Goal
    BY <1>16 DEF CallReturn
  <1>17. ASSUME NEW s \in States, AgentDies(s)
       PROVE  Goal
    BY <1>17 DEF AgentDies
  <1>18. ASSUME ExitStart
       PROVE  Goal
    BY <1>18 DEF ExitStart
  <1>19. ASSUME NEW h \in Hosts, ExitLockSetup(h)
       PROVE  Goal
    BY <1>19 DEF ExitLockSetup
  <1>20. ASSUME ExitLockCan
       PROVE  Goal
    BY <1>20 DEF ExitLockCan
  <1>21. ASSUME ExitPanic
       PROVE  Goal
    BY <1>21 DEF ExitPanic
  <1>22. ASSUME ExitDisconnect
       PROVE  Goal
    BY <1>22 DEF ExitDisconnect
  <1>23. ASSUME ExitDone
       PROVE  Goal
    BY <1>23 DEF ExitDone
  <1>24. ASSUME NEW t \in Tasks, SetLimit(t)
       PROVE  Goal
    BY <1>24 DEF SetLimit
  <1>25. ASSUME NEW t \in Tasks, SetupConfigFailed(t)
       PROVE  Goal
    BY <1>25 DEF SetupConfigFailed
  <1>26. CASE UNCHANGED vars
    BY <1>26
  <1> QED
    BY <1>1, <1>2, <1>3, <1>4, <1>5, <1>6, <1>7, <1>8, <1>9, <1>10, <1>11, <1>12,
       <1>13, <1>14, <1>15, <1>16, <1>17, <1>18, <1>19, <1>20, <1>21, <1>22, <1>23, <1>24,
       <1>25, <1>26
    DEF Next, TaskStep, ExitStep

-----------------------------------------------------------------------------
(* The inductive invariant holds in every reachable state of the pool.     *)
THEOREM PoolInvariant == Spec => []IInv
  <1>1. IInv /\ [Next]_vars => IInv'
    BY TypeStep, OwnStep DEF IInv
  <1> QED
    BY InitInv, <1>1, PTL DEF Spec

(* The fields of every ConnectionState and the places of every goroutine   *)
(* keep their types; in particular FinishedTask never takes TaskCount      *)
(* below zero.                                                             *)
THEOREM TypeCorrect == Spec => []TypeOK
  <1>1. IInv => TypeOK
    BY DEF IInv
  <1> QED
    BY PoolInvariant, <1>1, PTL

(* SetupAgent starts no second agent beside one that runs, however many    *)
(* goroutines find it missing or dead and whenever DisconnectAll comes.    *)
THEOREM AtMostOneAgent == Spec => []OneLiveAgent
  <1>1. IInv => OneLiveAgent
    BY DEF IInv, TypeOK, LiveIsRunning, OneLiveAgent
  <1> QED
    BY PoolInvariant, <1>1, PTL

(* Goroutines that work on one host at the same time hold the same         *)
(* ConnectionState as long as DisconnectAll has not begun (Acquire).       *)
THEOREM StateIsShared == Spec => []OneStatePerHost
  <1>1. IInv => OneStatePerHost
    BY DEF IInv, HeldIsPooled, OneStatePerHost
  <1> QED
    BY PoolInvariant, <1>1, PTL

(* CallAgent, which reads the state's agent without the mutex, finds the   *)
(* running one as long as none has died and DisconnectAll has not begun.   *)
THEOREM CallsReachTheAgent == Spec => []CallFindsAgent
  <1>1. IInv => CallFindsAgent
    BY DEF IInv
  <1> QED
    BY PoolInvariant, <1>1, PTL
=============================================================================
