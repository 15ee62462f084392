--------------------------- MODULE ConnectionPool ---------------------------
(***************************************************************************)
(* The executor's pool of connections                                      *)
(* (provider/executor/agent_executor.go): one ConnectionState per remote   *)
(* host, shared by all resource operations, that dials the host, sets up   *)
(* its agent once and remembers whether the host can be reached.           *)
(*                                                                         *)
(* A job is one call of CanConnect ("probe", from PreviewUnreachable), of  *)
(* AnsibleExecute ("ansible": a probe, then a call), of CallAgent ("call") *)
(* or of StageFile ("stage").  SetupAgent and CanConnect write the same    *)
(* two flags under two different mutexes, and CallAgent reads the state's  *)
(* agent under none.  What an agent does once it runs is module AgentRPC;  *)
(* here it may die at any moment.  A job for a connection without a host   *)
(* fails before it touches the pool and is left out.                       *)
(***************************************************************************)
EXTENDS Integers, FiniteSets

CONSTANTS
  Tasks,      \* goroutines of resource operations
  Hosts,      \* hash values of the connections they use
  States,     \* the addresses of ConnectionStates
  Kinds,      \* the kinds of jobs they do
  Parallel,   \* ResourceConfig.GetParallel: -1, 0 or a limit
  NProc,      \* what nproc prints on the remote host
  MayDie,     \* whether agents may die
  NoState,    \* no ConnectionState is stored for a host
  NoTask,     \* nobody holds a mutex
  Exit        \* the goroutine of DisconnectAll as the holder of a mutex

ASSUME PoolAssumption ==
  /\ Kinds \subseteq {"probe", "ansible", "call", "stage"}
  /\ Parallel \in Int /\ Parallel >= -1
  /\ NProc \in Nat \ {0}
  /\ MayDie \in BOOLEAN
  /\ NoState \notin States
  /\ {NoTask, Exit} \cap Tasks = {} /\ NoTask # Exit

VARIABLES
  pool,        \* AgentPool: the state stored for each host
  used,        \* the states allocated so far
  agent,       \* ConnectionState.Agent: nil, made but never started, running, dead
  reachable,   \* ConnectionState.Reachable
  unreachable, \* ConnectionState.Unreachable
  maxParallel, \* ConnectionState.MaxParallel
  taskCount,   \* ConnectionState.TaskCount
  setupMutex,  \* ConnectionState.SetupAgentMutex: its holder
  canMutex,    \* ConnectionState.CanConnectMutex: its holder
  live,        \* history: how many agents made for a state are running
  died,        \* history: the states an agent of which has died
  pc,          \* where each task is
  job,         \* the job it does: its kind, whether in a preview, its host
  held,        \* the state Acquire gave it
  verdict,     \* what its job came to
  exit,        \* where DisconnectAll is
  exiting,     \* the state DisconnectAll looks at
  unvisited,   \* the hosts its range over the map has not come to
  provider     \* whether the process has panicked

flagVars == <<reachable, unreachable>>
limitVars == <<maxParallel, taskCount>>
mutexVars == <<setupMutex, canMutex>>
agentVars == <<agent, live, died>>
poolVars == <<pool, used>>
taskVars == <<pc, job, held, verdict>>
exitVars == <<exit, exiting, unvisited, provider>>
vars == <<poolVars, agentVars, flagVars, limitVars, mutexVars, taskVars, exitVars>>

Jobs == [kind : Kinds \cup {"call"}, preview : BOOLEAN, host : Hosts]
Places == {"idle", "start", "stored", "acquired", "probeDial", "setup", "setupDial",
           "connecting", "calling", "inCall", "finishing"}

TypeOK ==
  /\ pool \in [Hosts -> States \cup {NoState}]
  /\ used \in SUBSET States
  /\ agent \in [States -> {"nil", "made", "running", "dead"}]
  /\ reachable \in [States -> BOOLEAN]
  /\ unreachable \in [States -> BOOLEAN]
  /\ maxParallel \in [States -> Int]
  /\ taskCount \in [States -> Nat]
  /\ setupMutex \in [States -> Tasks \cup {Exit, NoTask}]
  /\ canMutex \in [States -> Tasks \cup {Exit, NoTask}]
  /\ live \in [States -> Nat]
  /\ died \in SUBSET States
  /\ pc \in [Tasks -> Places]
  /\ job \in [Tasks -> Jobs]
  /\ held \in [Tasks -> States \cup {NoState}]
  /\ verdict \in [Tasks -> {"none", "reachable", "unreachable", "ok", "error"}]
  /\ exit \in {"off", "looking", "oneLock", "bothLocks", "done"}
  /\ exiting \in States \cup {NoState}
  /\ unvisited \in SUBSET Hosts
  /\ provider \in {"up", "panicked"}

Init ==
  /\ pool = [h \in Hosts |-> NoState]
  /\ used = {}
  /\ agent = [s \in States |-> "nil"]
  /\ reachable = [s \in States |-> FALSE]
  /\ unreachable = [s \in States |-> FALSE]
  /\ maxParallel = [s \in States |-> 0]
  /\ taskCount = [s \in States |-> 0]
  /\ setupMutex = [s \in States |-> NoTask]
  /\ canMutex = [s \in States |-> NoTask]
  /\ live = [s \in States |-> 0]
  /\ died = {}
  /\ pc = [t \in Tasks |-> "idle"]
  /\ job \in [Tasks -> [kind : {"call"}, preview : {FALSE}, host : Hosts]]
  /\ held = [t \in Tasks |-> NoState]
  /\ verdict = [t \in Tasks |-> "none"]
  /\ exit = "off"
  /\ exiting = NoState
  /\ unvisited = Hosts
  /\ provider = "up"

-----------------------------------------------------------------------------
Goto(t, from, to) == pc[t] = from /\ pc' = [pc EXCEPT ![t] = to]

(* The job fails or succeeds, its mutexes being released. *)
Conclude(t, from, v) ==
  /\ Goto(t, from, "finishing")
  /\ verdict' = [verdict EXCEPT ![t] = v]

Probes(t) == job[t].kind \in {"probe", "ansible"}

Lock(mutex, s, who) == mutex[s] = NoTask /\ mutex' = [mutex EXCEPT ![s] = who]
Unlock(mutex, s) == mutex' = [mutex EXCEPT ![s] = NoTask]

SetFlags(s, r, u) ==
  /\ reachable' = [reachable EXCEPT ![s] = r]
  /\ unreachable' = [unreachable EXCEPT ![s] = u]

-----------------------------------------------------------------------------
(* Acquire *)

(* A task begins a job, or AnsibleExecute goes on to its call. *)
ChooseJob(t) ==
  \/ pc[t] = "start" /\ UNCHANGED job
  \/ /\ pc[t] = "idle"
     /\ \E k \in Kinds, p \in BOOLEAN :
          /\ p => k \in {"probe", "ansible"}
          /\ job' = [job EXCEPT ![t] = [kind |-> k, preview |-> p, host |-> @.host]]

(* The spin on TaskCount, once there is an agent and a limit, ends.        *)
LetsThrough(s, limit) == agent[s] # "nil" /\ limit > 0 => taskCount[s] <= limit

(* LoadOrStore finds a state for the host. *)
Load(t) ==
  LET s == pool[job[t].host]
  IN /\ s # NoState
     /\ LetsThrough(s, maxParallel[s])
     /\ pc' = [pc EXCEPT ![t] = "acquired"]
     /\ held' = [held EXCEPT ![t] = s]
     /\ UNCHANGED poolVars

(* LoadOrStore stores a new one.                                           *)
Store(t, s) ==
  /\ s \notin used
  /\ pc' = [pc EXCEPT ![t] = "stored"]
  /\ pool' = [pool EXCEPT ![job[t].host] = s]
  /\ used' = used \cup {s}
  /\ held' = [held EXCEPT ![t] = s]

(* Fault: what Load found is not looked at. *)
FaultAcquire(t) ==
  /\ ChooseJob(t)
  /\ \E s \in States : Store(t, s)
  /\ verdict' = [verdict EXCEPT ![t] = "none"]
  /\ UNCHANGED <<agentVars, flagVars, limitVars, mutexVars, exitVars>>

Acquire(t) ==
  /\ ChooseJob(t)
  /\ \/ Load(t)
     \/ pool[job[t].host] = NoState /\ \E s \in States : Store(t, s)
  /\ verdict' = [verdict EXCEPT ![t] = "none"]
  /\ UNCHANGED <<agentVars, flagVars, limitVars, mutexVars, exitVars>>

(* The goroutine that stored a state gives it its limit, unless another    *)
(* has already set up its agent and asked nproc.                           *)
SetLimit(t) ==
  LET s == held[t]
      limit == IF maxParallel[s] = 0 THEN Parallel ELSE maxParallel[s]
  IN /\ Goto(t, "stored", "acquired")
     /\ LetsThrough(s, limit)
     /\ maxParallel' = [maxParallel EXCEPT ![s] = limit]
     /\ UNCHANGED <<poolVars, agentVars, flagVars, taskCount, mutexVars, job, held, verdict, exitVars>>

(* Fault: the count is not kept from going below zero. *)
FaultFinish(t) ==
  LET s == held[t]
  IN /\ Goto(t, "finishing", "idle")
     /\ taskCount' = [taskCount EXCEPT ![s] = @ - 1]
     /\ held' = [held EXCEPT ![t] = NoState]
     /\ verdict' = [verdict EXCEPT ![t] = "none"]
     /\ UNCHANGED <<poolVars, agentVars, flagVars, maxParallel, mutexVars, job, exitVars>>

(* FinishedTask, deferred by every job; AnsibleExecute goes on to its call *)
(* unless this is a preview and the host cannot be reached.                *)
Finish(t) ==
  LET s == held[t]
      goesOn == job[t].kind = "ansible" /\ (verdict[t] = "reachable" \/ ~job[t].preview)
  IN /\ Goto(t, "finishing", IF goesOn THEN "start" ELSE "idle")
     /\ taskCount' = [taskCount EXCEPT ![s] = IF @ > 0 THEN @ - 1 ELSE 0]
     /\ job' = [job EXCEPT ![t] = [kind |-> "call", preview |-> FALSE, host |-> @.host]]
     /\ held' = [held EXCEPT ![t] = NoState]
     /\ verdict' = [verdict EXCEPT ![t] = "none"]
     /\ UNCHANGED <<poolVars, agentVars, flagVars, maxParallel, mutexVars, exitVars>>

-----------------------------------------------------------------------------
(* CanConnect *)

(* With the mutex, a cached verdict is returned at once. *)
ProbeCached(t) ==
  LET s == held[t]
  IN /\ Conclude(t, "acquired", IF unreachable[s] THEN "unreachable" ELSE "reachable")
     /\ Probes(t)
     /\ canMutex[s] = NoTask
     /\ unreachable[s] \/ reachable[s]
     /\ UNCHANGED <<poolVars, agentVars, flagVars, limitVars, mutexVars, job, held, exitVars>>

ProbeDial(t) ==
  LET s == held[t]
  IN /\ Goto(t, "acquired", "probeDial")
     /\ Probes(t)
     /\ Lock(canMutex, s, t)
     /\ ~unreachable[s] /\ ~reachable[s]
     /\ UNCHANGED <<poolVars, agentVars, flagVars, limitVars, setupMutex, job, held, verdict, exitVars>>

(* The dial, and the session on it, succeed or fail. *)
ProbeDialed(t) ==
  LET s == held[t]
  IN /\ \E ok \in BOOLEAN :
          /\ Conclude(t, "probeDial", IF ok THEN "reachable" ELSE "unreachable")
          /\ SetFlags(s, ok, ~ok)
     /\ Unlock(canMutex, s)
     /\ UNCHANGED <<poolVars, agentVars, limitVars, setupMutex, job, held, exitVars>>

-----------------------------------------------------------------------------
(* CallAgent, StageFile and SetupAgent *)

(* CallAgent, unlike StageFile, looks at the flag before it goes on. *)
CallUnreachable(t) ==
  /\ Conclude(t, "acquired", "unreachable")
  /\ job[t].kind = "call"
  /\ unreachable[held[t]]
  /\ UNCHANGED <<poolVars, agentVars, flagVars, limitVars, mutexVars, job, held, exitVars>>

WantAgent(t) ==
  /\ Goto(t, "acquired", "setup")
  /\ job[t].kind = "stage" \/ (job[t].kind = "call" /\ ~unreachable[held[t]])
  /\ UNCHANGED <<poolVars, agentVars, flagVars, limitVars, mutexVars, job, held, verdict, exitVars>>

(* Fault: any agent is taken for a running one. *)
FaultSetupRunning(t) ==
  LET s == held[t]
  IN /\ Goto(t, "setup", "calling")
     /\ setupMutex[s] = NoTask
     /\ agent[s] # "nil"
     /\ UNCHANGED <<poolVars, agentVars, flagVars, limitVars, mutexVars, job, held, verdict, exitVars>>

SetupRunning(t) ==
  LET s == held[t]
  IN /\ Goto(t, "setup", "calling")
     /\ setupMutex[s] = NoTask
     /\ agent[s] = "running"
     /\ UNCHANGED <<poolVars, agentVars, flagVars, limitVars, mutexVars, job, held, verdict, exitVars>>

SetupUnreachable(t) ==
  LET s == held[t]
  IN /\ Conclude(t, "setup", "unreachable")
     /\ setupMutex[s] = NoTask
     /\ agent[s] # "running"
     /\ unreachable[s]
     /\ UNCHANGED <<poolVars, agentVars, flagVars, limitVars, mutexVars, job, held, exitVars>>

(* The SSH configuration cannot be built: a key does not parse, or nobody  *)
(* listens on the SSH agent's socket.  Neither flag is set.                *)
SetupConfigFailed(t) ==
  LET s == held[t]
  IN /\ Conclude(t, "setup", "error")
     /\ setupMutex[s] = NoTask
     /\ agent[s] # "running"
     /\ ~unreachable[s]
     /\ UNCHANGED <<poolVars, agentVars, flagVars, limitVars, mutexVars, job, held, exitVars>>

(* Fault: Running was looked at before the mutex was waited for. *)
FaultSetupDial(t) ==
  LET s == held[t]
  IN /\ Goto(t, "setup", "setupDial")
     /\ Lock(setupMutex, s, t)
     /\ ~unreachable[s]
     /\ UNCHANGED <<poolVars, agentVars, flagVars, limitVars, canMutex, job, held, verdict, exitVars>>

SetupDial(t) ==
  LET s == held[t]
  IN /\ Goto(t, "setup", "setupDial")
     /\ Lock(setupMutex, s, t)
     /\ agent[s] # "running"
     /\ ~unreachable[s]
     /\ UNCHANGED <<poolVars, agentVars, flagVars, limitVars, canMutex, job, held, verdict, exitVars>>

(* Fault: the mutex is not released on this way out. *)
FaultSetupDialFailed(t) ==
  LET s == held[t]
  IN /\ Conclude(t, "setupDial", "unreachable")
     /\ SetFlags(s, FALSE, TRUE)
     /\ UNCHANGED <<poolVars, agentVars, limitVars, mutexVars, job, held, exitVars>>

SetupDialFailed(t) ==
  LET s == held[t]
  IN /\ Conclude(t, "setupDial", "unreachable")
     /\ SetFlags(s, FALSE, TRUE)
     /\ Unlock(setupMutex, s)
     /\ UNCHANGED <<poolVars, agentVars, limitVars, canMutex, job, held, exitVars>>

(* The state's agent is replaced before Connect has started the new one. *)
SetupDialed(t) ==
  LET s == held[t]
  IN /\ Goto(t, "setupDial", "connecting")
     /\ agent' = [agent EXCEPT ![s] = "made"]
     /\ UNCHANGED <<poolVars, live, died, flagVars, limitVars, mutexVars, job, held, verdict, exitVars>>

StartAgent(s) ==
  /\ agent' = [agent EXCEPT ![s] = "running"]
  /\ live' = [live EXCEPT ![s] = @ + 1]
  /\ UNCHANGED died

(* Connect fails, before the agent runs or, if its ping fails, after. *)
ConnectFailed(t) ==
  LET s == held[t]
  IN /\ Conclude(t, "connecting", "error")
     /\ StartAgent(s) \/ UNCHANGED agentVars
     /\ Unlock(setupMutex, s)
     /\ UNCHANGED <<poolVars, flagVars, limitVars, canMutex, job, held, exitVars>>

(* Connect succeeds; Unreachable is not cleared.  Without a configured     *)
(* limit nproc is run, which may fail.                                     *)
Connected(t) ==
  LET s == held[t]
  IN /\ \/ Goto(t, "connecting", "calling") /\ UNCHANGED verdict
        \/ Conclude(t, "connecting", "error") /\ maxParallel[s] = 0
     /\ StartAgent(s)
     /\ reachable' = [reachable EXCEPT ![s] = TRUE]
     /\ maxParallel' = [maxParallel EXCEPT ![s] = IF @ = 0 /\ pc'[t] = "calling" THEN NProc ELSE @]
     /\ Unlock(setupMutex, s)
     /\ UNCHANGED <<poolVars, unreachable, taskCount, canMutex, job, held, exitVars>>

(* cs.Agent is read again.  The process panics without an agent, and in a  *)
(* call, which needs the encoder, with one that was never started.         *)
Call(t) ==
  LET useless == {"nil"} \cup (IF job[t].kind = "stage" THEN {} ELSE {"made"})
  IN /\ Goto(t, "calling", "inCall")
     /\ provider' = IF agent[held[t]] \in useless THEN "panicked" ELSE provider
     /\ UNCHANGED <<poolVars, agentVars, flagVars, limitVars, mutexVars, job, held, verdict, exit, exiting, unvisited>>

CallReturn(t) ==
  /\ \E v \in {"ok", "error"} : Conclude(t, "inCall", v)
  /\ UNCHANGED <<poolVars, agentVars, flagVars, limitVars, mutexVars, job, held, exitVars>>

(* Running is unset: a Disconnect of module AgentRPC. *)
AgentDies(s) ==
  /\ MayDie
  /\ agent[s] = "running"
  /\ agent' = [agent EXCEPT ![s] = "dead"]
  /\ live' = [live EXCEPT ![s] = @ - 1]
  /\ died' = died \cup {s}
  /\ UNCHANGED <<poolVars, flagVars, limitVars, mutexVars, taskVars, exitVars>>

-----------------------------------------------------------------------------
(* DisconnectAll, deferred by main; operations may still be under way. *)

ExitStart ==
  /\ exit = "off"
  /\ exit' = "looking"
  /\ UNCHANGED <<poolVars, agentVars, flagVars, limitVars, mutexVars, taskVars, exiting, unvisited, provider>>

ExitLockSetup(h) ==
  /\ exit = "looking"
  /\ h \in unvisited /\ pool[h] # NoState
  /\ unvisited' = unvisited \ {h}
  /\ Lock(setupMutex, pool[h], Exit)
  /\ exit' = "oneLock"
  /\ exiting' = pool[h]
  /\ UNCHANGED <<poolVars, agentVars, flagVars, limitVars, canMutex, taskVars, provider>>

ExitLockCan ==
  /\ exit = "oneLock"
  /\ Lock(canMutex, exiting, Exit)
  /\ exit' = "bothLocks"
  /\ UNCHANGED <<poolVars, agentVars, flagVars, limitVars, setupMutex, taskVars, exiting, unvisited, provider>>

(* Disconnect of a nil agent panics, and so does that of an agent that was *)
(* never started, whose encoder is nil.                                    *)
ExitPanic ==
  /\ exit = "bothLocks"
  /\ agent[exiting] \in {"nil", "made"}
  /\ provider' = "panicked"
  /\ UNCHANGED <<poolVars, agentVars, flagVars, limitVars, mutexVars, taskVars, exit, exiting, unvisited>>

(* Fault: the first mutex is not released. *)
FaultExitDisconnect ==
  LET s == exiting
  IN /\ exit = "bothLocks"
     /\ agent[s] \in {"running", "dead"}
     /\ agent' = [agent EXCEPT ![s] = "nil"]
     /\ live' = [live EXCEPT ![s] = IF agent[s] = "running" THEN @ - 1 ELSE @]
     /\ reachable' = [reachable EXCEPT ![s] = FALSE]
     /\ Unlock(canMutex, s)
     /\ pool' = [h \in Hosts |-> IF pool[h] = s THEN NoState ELSE pool[h]]
     /\ exit' = "looking"
     /\ exiting' = NoState
     /\ UNCHANGED <<used, died, unreachable, limitVars, setupMutex, taskVars, unvisited, provider>>

ExitDisconnect ==
  LET s == exiting
  IN /\ exit = "bothLocks"
     /\ agent[s] \in {"running", "dead"}
     /\ agent' = [agent EXCEPT ![s] = "nil"]
     /\ live' = [live EXCEPT ![s] = IF agent[s] = "running" THEN @ - 1 ELSE @]
     /\ reachable' = [reachable EXCEPT ![s] = FALSE]
     /\ Unlock(canMutex, s)
     /\ Unlock(setupMutex, s)
     /\ pool' = [h \in Hosts |-> IF pool[h] = s THEN NoState ELSE pool[h]]
     /\ exit' = "looking"
     /\ exiting' = NoState
     /\ UNCHANGED <<used, died, unreachable, limitVars, taskVars, unvisited, provider>>

(* The range over the map ends; it comes to no host twice. *)
ExitDone ==
  /\ exit = "looking"
  /\ \A h \in unvisited : pool[h] = NoState
  /\ exit' = "done"
  /\ UNCHANGED <<poolVars, agentVars, flagVars, limitVars, mutexVars, taskVars, exiting, unvisited, provider>>

-----------------------------------------------------------------------------
TaskStep(t) ==
  \/ SetLimit(t) \/ Finish(t) \/ ProbeCached(t) \/ ProbeDial(t) \/ ProbeDialed(t)
  \/ CallUnreachable(t) \/ WantAgent(t)
  \/ SetupRunning(t) \/ SetupUnreachable(t) \/ SetupConfigFailed(t) \/ SetupDial(t)
  \/ SetupDialFailed(t) \/ SetupDialed(t) \/ ConnectFailed(t) \/ Connected(t)
  \/ Call(t) \/ CallReturn(t)

ExitStep ==
  \/ \E h \in Hosts : ExitLockSetup(h)
  \/ ExitLockCan \/ ExitPanic \/ ExitDisconnect \/ ExitDone

(* A panic ends the process. *)
Next ==
  /\ provider = "up"
  /\ \/ \E t \in Tasks : Acquire(t) \/ TaskStep(t)
     \/ \E s \in States : AgentDies(s)
     \/ ExitStart \/ ExitStep

(* Goroutines that can run do run, dials and calls return, and the mutexes *)
(* of package sync are granted in the end.                                 *)
Fairness ==
  /\ \A t \in Tasks :
       /\ WF_vars(provider = "up" /\ pc[t] = "start" /\ Acquire(t))
       /\ SF_vars(provider = "up" /\ TaskStep(t))
  /\ SF_vars(provider = "up" /\ ExitStep)

Spec == Init /\ [][Next]_vars /\ Fairness

-----------------------------------------------------------------------------
(* Properties *)

(* Of the agents made for one state at most one runs, however many jobs    *)
(* find it dead, or its Connect failed half-way, at the same time.         *)
OneLiveAgent == \A s \in States : live[s] <= 1

(* Before the provider exits all jobs for a host share one state, and with *)
(* it the agent and the verdict on the host.                               *)
OneStatePerHost ==
  exit = "off" =>
    \A t1, t2 \in Tasks :
      job[t1].host = job[t2].host /\ held[t1] # NoState /\ held[t2] # NoState
        => held[t1] = held[t2]

(* CallAgent reads the agent after it released the mutex.  As long as no   *)
(* agent of the state has died and the provider does not exit, what it     *)
(* finds is the running agent that SetupAgent left or found.  (An agent    *)
(* that has died may be replaced by one without an encoder in between.)    *)
CallFindsAgent ==
  \A t \in Tasks :
    pc[t] = "calling" /\ exit = "off" /\ held[t] \notin died => agent[held[t]] = "running"

(* Every job ends, also when DisconnectAll takes both mutexes under it,    *)
(* unless the process has panicked.                                        *)
JobsEnd == \A t \in Tasks : pc[t] # "idle" ~> pc[t] = "idle" \/ provider = "panicked"

(* DisconnectAll comes to its end. *)
ExitEnds == exit # "off" ~> exit = "done" \/ provider = "panicked"

-----------------------------------------------------------------------------
(* What the documentation says, and the code does not do.                  *)

(* midtypes/config.go:15-17 "Parallel sets the maximum number of parallel  *)
(* tasks to execute against the remote system".                            *)
ParallelIsTheMaximum ==
  \A s \in States :
    maxParallel[s] > 0 =>
      Cardinality({t \in Tasks : held[t] = s /\ pc[t] = "inCall"}) <= maxParallel[s]
=============================================================================
