# A TLA+ model of mid

mid is a Pulumi provider that manages Linux machines over SSH. It copies an
agent to the machine, starts it, and sends it calls over the session's stdin and
stdout. Resources (packages, lines of files, services, ...) map Pulumi's
create, update, read and delete to such calls, most of which run an Ansible
module on the machine. This directory holds TLA+ modules that model mid, the TLC
configurations that check them, and proofs for TLAPS. Paths below are relative to
the repository.

1. [The system](#1-the-system)
2. [Modules and code](#2-modules-and-code)
3. [Runs](#3-runs)
4. [Fairness](#4-fairness)
5. [Proofs](#5-proofs)
6. [Where code and documents disagree](#6-where-code-and-documents-disagree)
7. [Limits of the code that the models show](#7-limits-of-the-code-that-the-models-show)
8. [Not modelled](#8-not-modelled)
9. [Plan](#9-plan)

## 1. The system

```
 Pulumi engine
   |  gRPC: Check, Diff, Create, Read, Update, Delete, Cancel     (concurrent)
   v
 provider framework       pkg/providerfw          cancel middleware -> evict.Pool
   v
 resource handlers        provider/resource       Package, FileLine, SystemdService, ...
   |                        with triggers         provider/midtypes
   v
 executor                 provider/executor       one ConnectionState per host
   v
 agent client             agent/agent.go          Connect, Call, Heartbeat, Disconnect
   |  JSON over the stdin and stdout of an SSH session
   v
 agent server             agent/rpc/server        on the remote machine
   v
 Ansible modules, files, processes
```

| Component | State it keeps | Operations | What is hard | What makes it correct |
|---|---|---|---|---|
| Eviction pool (`evict/pool.go`) | slots with revisions, free list, closed | Insert, Evict, Close | late and repeated Evicts of reused slots, Close that releases callers which Evict | a value is evicted once; a handle never reaches another tenant; nothing is stranded |
| Cancel middleware (`cancel.go`) | contexts of running operations | an operation's begin and end, Cancel | Cancel between the making of a context and its insertion | no early cancellation without a request, nothing live after one |
| Agent client and server (`agent.go`, `server.go`) | running, in-flight calls, encoder lock, session | Call, RunLocal, Heartbeat, Disconnect; the server's loop | three Disconnects at once, blocked pipes, torn streams, results out of order, crash | a call gets its own result or an error, once; every Disconnect ends; a dead server is noticed |
| Connection pool (`agent_executor.go`) | state per host, agent, reachability flags, task count, two mutexes | Acquire, SetupAgent, CanConnect, CallAgent, StageFile, DisconnectAll | flags under two mutexes, an agent read under none, exit under running jobs | one agent per host, the calls reach it, jobs and exit end |
| Agent installation (`agent.go`) | files and a lock on the remote machine | Connect's version check, InstallAgent, StageFile | several providers, a lock that is tested and taken in two commands, crashes | the agent that is started is complete and of the provider's version |
| Resources (`provider/resource`) | none between requests; the engine keeps inputs and outputs | Check, Diff, Create, Read, Update, Delete | calls that fail half-way, drift, previews before anything exists, lost answers | an up leads to what is asked, a refresh tells the truth, looking changes nothing |
| Triggers (`midtypes`) | lastChanged and the values that triggered | DiffTriggers, UpdateTriggerState | a change whose answer is lost | dependents hear of every change |
| Property diffs (`pkg/pdiff`), framework (`pkg/providerfw`) | none between requests | translation, diffs | reflection | the handlers see what the engine sent |
| Agent handlers (`agent/rpc`), untar | none | run a process, look at a file | | |

Interactions: the engine calls handlers concurrently, one goroutine per request;
each request's context comes from the cancel middleware. Handlers share the
connection pool, which calls `agent.Connect`, `agent.Call`, `agent.StageFile` and,
when the provider exits, `Disconnect`. One session carries the calls of all goroutines.
Resources meet on the remote machine and through the engine, which passes the
outputs of one (such as `triggers.lastChanged`) as inputs to another.

## 2. Modules and code

| Module | Models | Uses |
|---|---|---|
| `EvictPool` | `pkg/providerfw/middleware/cancel/evict/pool.go` | |
| `DrainSet` | what the pool promises (abstract) | |
| `CancelMiddleware` | `pkg/providerfw/middleware/cancel/cancel.go` on the pool | extends `EvictPool` |
| `AgentRPC` | `agent/agent.go` (Call, RunLocal, Ping, Heartbeat, Disconnect, the end of Connect), `agent/rpc/server/server.go` | |
| `RemoteCalls` | what a caller is promised of its calls (abstract) | |
| `ConnectionPool` | `provider/executor/agent_executor.go` | |
| `AgentInstall` | `agent/agent.go` (the lock and version steps of Connect, InstallAgent, StageFile) | |
| `Triggers` | what every Diff compares: `provider/midtypes/triggers.go`, `diff.go`, and the properties (`pkg/pdiff`) | |
| `Handlers` | what the handlers of all resources share: responses, outcomes of calls | extends `Triggers` |
| `Package`, `Apt`, `Group`, `User`, `Service`, `Exec`, `AnsibleTaskList`, `File` | handlers of `provider/resource/*.go` as operators, with the Ansible modules and agent calls they make | extend `Handlers`; `Apt` has an instance of `Package` |
| `Resources` | the eight behind one interface, as `infer` dispatches a request | instances of them |
| `ResourceLifecycle` | the engine, `pkg/providerfw/infer/resource.go` and one resource of any of the kinds | extends `Resources` |
| `FileLine`, `SystemdService` | handlers of `provider/resource/file_line.go`, `systemd_service.go` | instances of `Triggers` |
| `ServiceChain` | the engine and a FileLine whose change restarts a SystemdService | instances of both |
| `EvictPool_proofs`, `AgentRPC_proofs`, `ConnectionPool_proofs`, `AgentInstall_proofs`, `ServiceChain_proofs` | proofs | extend their module |
| `CancelMiddleware_proofs` | proofs | extends `CancelMiddleware` and `EvictPool_proofs` |
| `Resources_proofs` | lemmas: what the handlers of each kind do | extends `Resources` |
| `ResourceLifecycle_proofs` | proofs | extends `ResourceLifecycle` and `Resources_proofs` |
| `MCAgentInstall`, `MCAgentRPC`, `MCConnectionPool`, `MCResourceLifecycle`, `MCServiceChain` | small instances | extend their module |

Operators named `Fault...` are plausible bugs in the operation that follows them
(a dropped guard, a missing reset, a swapped order). They are part of no specification;
each property was seen to fail when one of them takes the operation's place.

### EvictPool and CancelMiddleware

`Insert` and `Evict` hold the pool's mutex from beginning to end and are one step each.
`Close` holds it too, but it calls `OnEvict` slot by slot, and what `OnEvict` does (cancel
a context) is seen at once by goroutines that do not need the mutex; so `CloseStart`, each
`CloseSlot` and `CloseFinish` are steps. `entries` and `emptyEntries` are the
slice and the free list of the code; a handle is the slot's index and revision. `evictions`
is a history variable. Users may call `Evict` at any time and again.

`CancelMiddleware` gives the values a meaning: they are gRPC operations, `MakeContext`,
`Insert`, `Return` and `End` are the steps of the closure in `Wrap` (lines 40 to 70), and a
Cancel request is the `Close` of the pool. A timeout below one second truncates to
a context that is born expired, as `time.Duration(timeout)` does.

### AgentRPC

Every call, that is each user's call, the two pings and the three Close calls of Disconnect,
goes through `idle`, `ready` (SetupAgent found the agent), `registered`
(in `InFlight`), `encoding` (holds `EncoderMutex`) and `waiting`, and returns as `ok`, `sent`
or `failed`. `stdin` and `stdout` are pipes that hold `PipeSize` messages, and the writer of a
full one blocks. `Disconnect` may be run at once by RunLocal (end of the stream), by the
heartbeat (a failed ping) and by DisconnectAll; the model has one process
for each. RunLocal and the heartbeat look at `Running` (`DecodeEOF`, `HeartbeatFailed`) some time before
they unset it inside `Disconnect`, so that all three can overlap; RunLocal looks at it between
two results only (`Loop`), and leaves unread what comes later. Disconnect(wait=true) goes through `InFlight` one call after the other (`todo`,
`visiting`) and blocks on each; the others start a goroutine for each call (`senders`). The range
over a `sync.Map` is no snapshot: a call that registers meanwhile may be visited or not
(`MaybeVisited`). `Break`, `ServerCrash` and `DisconnectAll` come at any
time, if `Events` allows them; a broken link may leave half a result in
the stream (`torn`), on which the decoder fails with an error other than `io.EOF`.

The contract `RemoteCalls` says what a resource may rely on: one outcome per call, at most
one execution, an answer only from the call's own execution, and that a call given up
may nevertheless be executed. The refinement mapping (`Promise`) reads the status off `pc`
and the executed calls off `accepted \ handlers`.

### ConnectionPool

A job is one call of `CanConnect`, `AnsibleExecute`, `CallAgent` or `StageFile`; its steps
are the stretches between the places where the code takes or releases a mutex or does
network I/O; `Acquire`'s `LoadOrStore` and the setting of the limit that follows it are two. Agent
and configuration of SSH can fail before anything is dialled (`SetupConfigFailed`). `agent` is the field of the state (nil, made but not started, running, dead). An
agent may die at any time; what it does while it lives is `AgentRPC`. `live` and `died` are
history variables.

### AgentInstall

Several providers, of one release or of different ones, work on one machine and share its
directory `.mid`: the binary, `install.lock` and `staging`. Each remote command and each SFTP
request is a step, so that others act between the test of the lock and its touch, and between the
touch, the upload, the rename, the chmod and the removal of the lock. A command may fail with or
without its effect, and a provider may die anywhere (`MaxTroubles` bounds both together). A binary
is its version, who has it open for writing, and whether it is complete and executable; `Runs` is
when an exec of it succeeds. `Matches` is the text search of the version check, in which `v0.0.2`
is found in the line of `v0.0.20`. `replaced`, `left` and `undisturbed` are history variables: under whom
somebody else has put a binary, whether somebody had to leave the lock behind, and
who has started an agent that suits everybody at a moment when nobody installed, without a
failure since. Links of `.mid` to other releases, the
architecture and the transport of the bytes are left out.

### Handlers, the resources and ResourceLifecycle

The handlers keep no state of their own, so they are operators: from the request, the machine and
the outcomes of the calls they make to the machine afterwards (`m`), the state
returned (`s`) and the error (`err`). Early returns, previews (`DryRun`, with or without
the `check` setting) and unreachable hosts are the code's. `Handlers` has what they share: a trouble
names the call of the handler that goes wrong, how (`unreachable`, `failed`) and which parts of
its work it did before; all of them when only its answer was lost. A list of triggers is one opaque value;
a time is the number of the engine's operation.

Each kind has a machine of its own, as small as its handlers can tell apart:

| Kind | The machine |
|---|---|
| Package, Apt | the version of each package: absent, outdated, newest |
| Group | the id of each group, if it exists |
| User | the account with its groups and its home, and the homes that exist |
| Service | whether the service runs and is enabled |
| Exec, AnsibleTaskList | marks that commands or tasks put and drop |
| File | at each path nothing, a file or a directory, its data and a mode |
| FileLine, SystemdService | the line of a file that matches; a unit that exists, runs, is enabled, has loaded its file |

The Ansible modules are modelled from their source in `ansible/modules` for
Linux: what they make of such a machine, when they refuse, and whether they
report a change; silent in check mode. `Exec` and `AnsibleTaskList` run what the user gave them, so a command is
the marks it puts and drops.

`ResourceLifecycle` is the engine with one such resource. It creates, updates, replaces (deleting
first, or later and then with a `pending` old state that `Retire` deletes),
previews, refreshes and destroys by Pulumi's rules: a failed handler leaves the
old state, a failed creation none. `Given` are the machines there are at first and
after a drift, which may come between any two operations. `last` is
history: the operation, its outcome, the inputs it was about (`args`, `held`) and whether
the state agrees with the machine as far as the engine can know (`fresh`). `Observant` are
the kinds whose Read puts what it finds into the state; the others only stamp `lastChanged`.

`ServiceChain` is the engine with two resources: an up applies the line and then the service, and
others may edit the file, stop the unit or take it away in between. The engine keeps each resource's last `inputs`
beside its state: Diff compares the state with what the inputs set and with nothing else, so that a property that
a program drops stays as it was in the state, and Read is given both. Its history variables
say whether the file changed behind the state's back (`unseen`), whether the unit still
has to load a change made by the provider (`owed`), and which program
was applied last without anything happening since (`settled`; none, if the state holds more than the
program asks). `ResourceLifecycle` keeps one record for both, as its Reads use the state's inputs.

## 3. Runs

Every variable that could grow has a bound: `MaxOps` operations of the engine in the resource
models, `PipeSize` messages in a pipe, one insertion per value, one state allocation
per element of `States`. `CHECK_DEADLOCK FALSE` is given where
the modelled part does stop: all operations done, the provider gone, `MaxOps` reached.

| Run | Configuration | Question | Bounds |
|---|---|---|---|
| `cancel_middleware` | `CancelMiddleware.cfg` | Is nothing cancelled early, and nothing left live after Cancel? Do operations end? Do the pool's invariants hold under it, and does it implement `DrainSet`? | 3 operations, 1 Cancel: one before, one during, one after it; a slot can have three tenants |
| `agent_install` | `AgentInstall.cfg` | Is what is started complete and of the provider's version, whose is the lock, do staged files stay, does Connect end? | 2 providers, 2 releases, 2 Connects each, 1 trouble, 2 tests of the lock |
| `agent_rpc` | `AgentRPC.cfg` | Do results reach their own calls, is no answer lost, does Disconnect(wait) wait, is `RemoteCalls` implemented? | 1 user call beside 2 pings and 3 Close calls, pipes of 1, all events |
| `agent_rpc_callers` | `AgentRPCCallers.cfg` | Does a call that a Disconnect finds waiting return, without a deadline? | as above, exit only: Disconnect(wait) and the heartbeat's overlap |
| `agent_rpc_shutdown` | `AgentRPCShutdown.cfg` | Does every Disconnect return, is a death noticed, does the agent end? | pings and Close calls only, all events |
| `connection_pool` | `ConnectionPool.cfg` | One state per host, one agent per state, do calls find it? | 2 goroutines on 1 host, 2 addresses, dying agents, exit |
| `connection_pool_ends` | `ConnectionPoolEnds.cfg` | Do jobs and DisconnectAll end? | 2 goroutines, the job with most steps, no death |
| `resources` | `Resources.cfg` | For each of eight kinds: does an up apply, a refresh see and stamp, a destroy remove, and a look leave alone? | 2 packages, groups, marks and paths, 1 user; 3 operations (Package and Group 4), any call failing half-way |
| `service_chain` | `ServiceChain.cfg` | The same for a chain: restart on change, quiet second up, previews before anything exists | 2 lines, 4 programs, which change, drop and take up properties; 3 operations |
| `connection_pool_parallel` | `ConnectionPoolParallel.cfg` | Is `parallel` the maximum? **No** | limit 1, 2 goroutines |
| `package_unset` | `PackageUnset.cfg` | Does an up without `ensure` install? **Not after a refresh that found it missing** | 2 packages, no failures |
| `file_preview` | `FilePreview.cfg` | Does a preview leave the machine alone? **Not with an archive from the network, force and a file in the way** | 1 program, 1 operation |

Why the bounds are enough to be worth something:

- The pool's hazards need a handle whose slot has a new tenant, while a Close is half-way.
  Three values allow a slot with three tenants, or two slots of which one is reused. The proofs
  remove the bound.
- `agent_install` needs two installers inside the lock, which two providers that tested it at once
  give; a third would do what the second does. One trouble is a death or a lost answer
  at any one step, and a second Connect of the same or the other provider finds what
  it left. The code tests the lock ten times, the instance twice; nothing but the count differs.
- In `AgentRPC` contention comes from the calls the protocol itself makes: with
  pipes of one message and six calls, writers block one another, the server blocks on
  `stdout` and three Disconnects queue for `EncoderMutex`. Users' calls are alike and
  only add to these. The proofs remove the bound for safety. Liveness with several
  large user calls is not covered. `agent_rpc_callers` leaves out crash and break: a broken
  connection only releases writers that are blocked. What happens to the answers then is
  in `agent_rpc`, what happens to the Disconnects in `agent_rpc_shutdown`.
- `SYMMETRY` is used in `connection_pool`, for goroutines and addresses: they are only
  compared for equality and no CHOOSE ranges over them. The run checks no liveness.
- `connection_pool` has one host because states of different hosts share nothing; two
  addresses let a second state be allocated in the race of `LoadOrStore`.
  Jobs come again and again, so two goroutines give sequences of jobs of any length.
- In the resource models failures that matter are up, up that fails, refresh or drift,
  and the up after it: drift takes no operation, so three or four reach them. A destroy
  after a failed replacement is the third.
  Package names matter only as members of the old or the new list: with two
  packages each is in either, both or none. Groups and paths are two for the same reason.
  Of the machines with files, `AllGiven` leaves out those in which the mode of a
  directory, or of a path that no program manages, varies.

What the properties are about:

- `ImplementsDrainSet`, `EvictedAtMostOnce`, `FreeListExact`, `TenantHasItsHandle`,
  `HandleReachesOnlyOwn`: see the pool's row above. `FreeListExact` is what the assertion of
  `pool.go:103` rests on.
- `PoolHoldsRunning` (no leak), `CancelledLeavesNoneLive`, `CancelledOnlyOnRequest`, `CancelDrains`.
- `OkIsOwnResult`, `NoAnswerLost` (while a call waits somebody holds its answer, is about to read it, or tells it that
  there is none), `WaitLeavesNoneBehind`, `WaitingCallsReturn`, `DisconnectReturns`,
  `DeathIsNoticed`, `AgentEnds`, `ImplementsRemoteCalls`.
- `OneLiveAgent`, `OneStatePerHost`, `CallFindsAgent`, `JobsEnd`, `ExitEnds`.
- `InstalledIsWhole`, `StartsOwnAgent`, `LockHasOwner`, `StagedStays`, `ConnectEnds` for the installation.
- `UpApplies` (also that what only the old inputs named is gone), `RefreshSeesDrift`,
  `RefreshStampsDrift`, `DestroyLeavesNothing`, `LookingIsFree` for each of the eight kinds;
  `UpSetsTheLine`, `RestartOnChange`, `SecondUpIsQuiet`, `PreviewBeforeAnything`,
  `DestroyStops` for the chain.

Where the code does not do what such a property asks, and no document says it should, the exemption has a name
and is in section 7: `Undone` (a replacement that creates first), `Tells`, `Known`
and `Bounces` (what a refresh says), `Forgets` (a deb that a task found installed), `Misreads` (a refresh that found a part of
a list of packages missing),
`AsAsked` of a file from a remote source.

Run one with `tlc -config AgentRPC.cfg MCAgentRPC` in this directory (`CancelMiddleware`
has no MC module). The longest takes less than four minutes, those that end with a counterexample a few seconds.

## 4. Fairness

Safety does not depend on it. For liveness:

- **Goroutines run**, each by itself: every user's call, RunLocal, the heartbeat with its Disconnect and DisconnectAll
  with its own have a condition of their own, as have the goroutines that hand over a result or an
  error (`HandOver`), each handler and the server's loop. The Go scheduler does not starve a runnable goroutine.
- **`sync.Mutex` is taken at last** (SF on the goroutines that lock `EncoderMutex`, and on the steps of jobs and
  DisconnectAll in `ConnectionPool`): Go's mutexes hand themselves over
  to a waiter that has starved for a millisecond.
- **The network moves or is gone**: a result that is under way arrives, or the link breaks (`stdout # <<>> /\ Break` as
  an alternative among RunLocal's steps, and likewise for the server's stdin and the closing of a session).
  TCP gives no more than this. Breaks and crashes beyond that happen only if `Events` has them.
- **The server ends unattended**: its heartbeat check (`server.go:26-37`) panics when no ping has
  come for its period; fair only when no ping can come any more (`Unattended`). A handler that writes to a stdout
  that is closed kills it as well.
- **Handlers end** (WF on `HandlerDone`): without it `AgentEnds` is false, since a
  server that got Close waits for its handlers and has stopped its heartbeat check.
- **Pings have a deadline** (WF on `CtxDone` for pings): `Connect` (`agent.go:658`) and `Heartbeat` make a context with a timeout.
  Users' calls have none that the model may rely on.
- **`CancelMiddleware`**: an operation whose context is done returns; nothing
  else makes it return, so that `CancelDrains` rests on cancellation alone.
- **Remote commands come back** (WF on `ConnectStep` in `AgentInstall`): with an answer, an error or
  because the link broke. `RunRemoteCommand` has no timeout of its own, so this is
  what `ConnectEnds` assumes of SSH. The lock needs no fairness: a Connect gives up after ten tests.
- `Begin`, the start of DisconnectAll, drift and jobs are never fair, nor are crash and break but as said: nothing must happen.

## 5. Proofs

All proofs are for every value of the constants, under the assumptions that the modules name:
names are distinct (`NobodyAssumption`, `AgentAssumption`, `NamesAssumption`), a pipe holds
at least one message, parallel is at least -1 (`PoolAssumption`), the programs of the chain
give the two resources what their input structs allow (`ProgramsAssumption`), calls end in one of the
modelled ways (`ChainAssumption`), a property that is not set is none of the values it could have
(`UnsetAssumption`, `DefaultsAssumption`), and a machine has an id to give to a group that has none
(`IdsAssumption`). TLC evaluates them in the runs, and TLC has checked each inductive invariant on the
instances above (`LifeInv` on the seven kinds it is about). Some theorems have a hypothesis of their own, named below.
Check with `tlapm AgentRPC_proofs.tla`.

| Theorem | Says |
|---|---|
| `EvictPool_proofs!PoolTypeCorrect` | `PoolSpec => []PoolTypeOK` |
| `EvictPool_proofs!PoolSafety` | the four invariants of the pool |
| `EvictPool_proofs!PoolImplementsDrainSet` | `PoolSpec => ImplementsDrainSet` |
| `ConnectionPool_proofs!TypeCorrect`, `AtMostOneAgent`, `StateIsShared`, `CallsReachTheAgent` | `[]TypeOK`, `[]OneLiveAgent`, `[]OneStatePerHost`, `[]CallFindsAgent` |
| `AgentRPC_proofs!TypeCorrect`, `AnswersAreOwn`, `NothingIsLost` | `[]TypeOK`, `[]OkIsOwnResult`, `[]NoAnswerLost` |
| `AgentRPC_proofs!NoneLeftBehind` | the action property `WaitLeavesNoneBehind` |
| `AgentRPC_proofs!ConnectionImplementsRemoteCalls` | `SafetySpec => ImplementsRemoteCalls` |
| `CancelMiddleware_proofs!MiddlewareUsesPool`, `MiddlewareImplementsDrainSet` | the middleware implements `PoolSpec`, and so `DrainSet` |
| `CancelMiddleware_proofs!FreeListStaysExact`, `CancelledAtMostOnce`, `TenantsAreReachable`, `HandlesAreSafe` | what the pool promises, under the middleware |
| `CancelMiddleware_proofs!PoolOfRunning`, `CancelReachesAll` | `[]PoolHoldsRunning`, `[]CancelledLeavesNoneLive` |
| `CancelMiddleware_proofs!NoStrayCancel` | the action property `CancelledOnlyOnRequest` |
| `AgentInstall_proofs!TypeCorrect`, `BinaryIsWhole`, `OwnAgentStarts`, `LockIsOwned`, `StagedFilesStay` | `[]TypeOK`, `[]InstalledIsWhole`, `[]StartsOwnAgent`, `[]LockHasOwner`, `[]StagedStays` |
| `ServiceChain_proofs!ChainInvariant` | the engine's states account for the machine |
| `ServiceChain_proofs!LineIsSet`, `DestroyLeavesOff` | `[]UpSetsTheLine`, `[]DestroyStops` |
| `ServiceChain_proofs!RestartsOnChange` | `[]RestartOnChange`, if `"lost" \notin LineCalls` |
| `ServiceChain_proofs!PreviewsSucceed` | `[]PreviewBeforeAnything`, if `TextsGiven` |
| `ServiceChain_proofs!SecondUpQuiet` | the action property `SecondUpIsQuiet` |
| `ResourceLifecycle_proofs!LooksAreFree` | the action property `LookingIsFree`, all eight kinds, if `NoneOverwrites` |
| `ResourceLifecycle_proofs!LifeIsKept` | `[](LifeInv /\ Promises)`, if `ProgramsSound` |
| `ResourceLifecycle_proofs!UpsApply`, `DestroysClear`, `RefreshesSee`, `RefreshesStamp` | `[]UpApplies`, `[]DestroyLeavesNothing`, `[]RefreshSeesDrift`, `[]RefreshStampsDrift`, if `ProgramsSound` |

Each module has one inductive invariant (`IInv`; `Inv` in `CancelMiddleware_proofs`, `LifeInv` in `ResourceLifecycle_proofs`), one lemma for the initial states, and lemmas
for the steps with one case per action.

- **EvictPool.** None of the safety properties is inductive: that a handle cannot reach a
  stranger needs the history of the slot. `HandleState` gives it: a value was never inserted, or is inside
  and its handle names its slot at the present revision, or has been evicted
  once and the slot's revision has moved past the handle's. Revisions only
  grow, so the last is for ever. `ClosePrefixEmpty` (the slots Close has passed are empty until it is done)
  is what the refinement needs when Close ends: nothing is held.
- **ConnectionPool.** `OneLiveAgent` needs to know who may start an agent: the
  goroutine that dials or connects owns `SetupAgentMutex` of its state, and that state has no running
  agent (`SetupExclusive`); DisconnectAll takes agents away under the same mutex
  (`ExitExclusive`). `HeldIsPooled` says that before the exit the state a job holds is the one stored for its
  host, which gives `OneStatePerHost`. `CallFindsAgent` is inductive beside these, although the
  agent is read without the mutex: until an agent of the state has died nobody replaces it.
- **AgentRPC.** The invariant follows a user's call: not on the other side before it
  is written (`NotSentYet`), on its way at most once (`SentOnce`) and not accepted
  while on its way (`UnreadIsNew`), on its way back only after its handler ended
  (`ResultsExecuted`). `NothingIsLost` counts a result in stdout only as long as RunLocal has not stopped; once it has,
  the call must have returned, be in the hands of a goroutine or of a Disconnect, or be about to be found by one. From the last comes `OkIsOwnResult`; the first three make
  the execution happen at most once, which the refinement needs (`HandlerDone` must find the call
  not yet executed). `NothingToTell` (no call is in `todo` before Disconnect has looked) is needed for
  `NoneLeftBehind`. The refinement (`PromiseStep`) maps `Register` to `Issue`, `Deliver` to
  `Answer`, `HandlerDone` to `Execute`; the four ways to lose hope (`EncodeError`, `CtxDone`, `Send`, `Tell`) to
  `GiveUp`; and every other step to a stutter.
- **CancelMiddleware.** `StepUsesPool` shows that a step of the middleware is a step of `PoolSpec`
  or leaves the pool alone; so the pool's theorems and its `IInv` hold here as they stand. `Inv` adds
  where an operation is when its handle is in the pool (`HandleFollowsOp`), that what the pool evicted
  is cancelled (`EvictedNotLive`), and that a closed pool is empty but for the slots that the
  Close under way has not reached (`ClosedIsEmpty`). For `CancelReachesAll` that is the point: an
  operation inserts its cancel function before it runs, and insertion into a closed pool evicts.
- **AgentInstall.** The properties need the way of one upload: it is its provider's and open for writing until it is
  renamed, and complete by then (`UploadIsOwn`), so that a rename puts only complete binaries
  at `.mid/mid-agent`; and what a provider has placed is there, its own and executable after
  the chmod, unless another is on record as having replaced it (`PlacedIsOwn`), from which
  `StartsOwnAgent` follows. `StaysSettled` says that from the moment when a provider is undisturbed the
  binary goes on suiting everybody and nobody gets past the version check into an installation, hence that nobody
  clears the staging directory.
- **ServiceChain.** Lemmas say what each handler answers whatever its calls come to (`LineUpdated`,
  `ServiceDeleted`, ...), and action summaries (`LineApplied`, `ServiceApplied`, ...) what each operation of
  the engine does by them; the invariant is about those alone. `RestartOnChange` needs
  `DebtIsSeen`: as long as the unit has not loaded a change, the trigger that the service was last given differs
  from the line's `lastChanged`, which `ClocksAgree` (times are of the past) makes sure of for every
  new time. It is false with calls that change the file and report an error (section 7), so the
  theorem excludes exactly those. `PreviewsSucceed` assumes `TextsGiven`: a present line has a text, without which
  the module refuses in check mode as well. `SecondUpIsQuiet` follows from `SettledIsSame` (what
  was applied and left alone is what the state and the inputs hold). `LineIsSet` rests on `LineKnown` (the file is as the
  state says, or the difference is on record) and `HalfDone` (between the halves of an up the line's
  state holds what the program sets, perhaps more, and no drift).
- **ResourceLifecycle.** `Resources_proofs` says of each kind what its handlers do, whatever trouble
  their calls meet: first of the module's task (`PackageTask`, `UserTask`, ...: a task that does not fail brings the
  machine to its goal, one that fails leaves part of the way), from these of the handlers (`CreatesWell`,
  `UpdatesWell`, `DeletesWell`, `ReadsWell`). `ResourceLifecycle_proofs` knows of the
  handlers only that, and has one lemma for each operation of the engine. `LifeInv` relates the engine's
  state to the machine: a state comes from inputs of a program, it is stamped with a time of the past, only a command
  or a file that moved is ever left to be deleted later, and if the state is fresh a delete would clear what it is about (`Clears`: a group
  whose state says absent is gone, a deb is tracked by its state, ...); without the last, `DestroyLeavesNothing` is not
  inductive, as the Deletes of Group, User, Package and Apt do nothing for a state whose ensure is absent.
  For a file `createOrUpdate` is taken step by step: each source step leaves the path ready for the module `file`
  (`SourcesWell`), which takes it from what was there to what is wanted (`FileConverges`), and in check mode each
  notes what it sees (`Noticed`, `FileCompares`). A refresh of an archive compares checksums only, so
  `RefreshSeesDrift` needs to know that the checksum in the engine's state is of a directory
  that has all of the archive, unless drift is on record already (`Remembers`, a part of `LifeInv`).
  `LooksAreFree` needs only `ArgsKnown` and that tasks in check mode are silent. Its hypothesis `NoneOverwrites` keeps
  out the programs of the run `file_preview`, for which it is false. `ProgramsSound` says that programs use the kinds
  Package, Apt, Group, User, Service, Exec and File with inputs of the shape (`Sound`) that their schema, Check and
  module accept: for a package one of name and names and an `ensure` (without, `UpApplies` is false, run
  `package_unset`); for Apt names, a deb or upkeep; a command that does not drop the mark it
  puts; for a file at most one source that suits its `ensure`, and no tarball over what is there. Every program of the
  run `resources` of these kinds is sound.

Only model-checked: all liveness (`CancelDrains`, `WaitingCallsReturn`, `DisconnectReturns`,
`DeathIsNoticed`, `AgentEnds`, `JobsEnd`, `ExitEnds`, `ConnectEnds`), for the prover has no rules for
fairness and ENABLED. The promises of `ResourceLifecycle` but `LookingIsFree` for one kind: AnsibleTaskList, whose
handler folds over the user's tasks, so that what it leaves is an induction over data and out of the
prover's reach. RECURSIVE
operators are out of reach as well; no module has any.

## 6. Where code and documents disagree

Each is a run that ends with a counterexample.

- **`parallel` limits nothing** (`connection_pool_parallel`). `Acquire` waits while
  `TaskCount > MaxParallel`, `FinishedTask` decrements, and nothing increments
  (`agent_executor.go:154`, `:212`). `midtypes/config.go:15` promises "the maximum number of parallel tasks".
- **An up removes a package it should install** (`package_unset`). `ensure` unset means present
  (`package.go:62`), but `Update` takes an unset one from the state (line 317), where a refresh of
  a package that somebody removed has put `absent` (line 241). The up reports success.
- **A preview deletes a file** (`file_preview`). With a URL as source, `ensure` directory, `force` and
  a file at the path, `copyNetworkSourceDirectory` removes that file with check mode off, whatever the
  caller wants (`file.go:408`). Refresh goes the same way.
  `midtypes/config.go:21-23` describes what previews do as "checks and dry-runs".

## 7. Limits of the code that the models show

No document promises otherwise; the properties are stated so as to exclude them, and the models
reach them.

- A call that passes SetupAgent before a Disconnect, registers after its broadcast and encodes before the session
  closes is told nothing; without a deadline it waits for ever. `EncoderMutex` and `Encode` look at no context.
- RunLocal stops at its first look at `Running` after a Disconnect has begun. An answer that comes later stays
  unread, and its call gets an error although it was executed.
- A call caught in `Encode` may miss the one second for which a sender waits for it.
- `Connect` that fails at its ping leaves `Running` set, without a heartbeat; SetupAgent then takes the agent for running.
- A handler that hangs lets the agent outlive the provider.
- `CallAgent` may read an agent that is not yet connected, after an earlier one died, and panics for
  want of an encoder; `DisconnectAll` panics on a state that was only probed. A failed probe may set
  `Unreachable` on a host whose agent runs. An SSH client leaks when `Connect` fails.
- `Package.Read` never reports that a package under `latest` is outdated. If one package of a list
  is missing it records the whole list as absent, and a destroy then leaves the others.
- Apt: a refresh reports no package that is missing or outdated, only one that should be absent and is there
  (`apt.go:416`), and of an unreachable host it stamps `lastChanged`. Delete of a deb removes the packages
  that its last task was about to install (`apt.go:664`), and a refresh is such a task
  (`apt.go:407`): after one that found the deb installed, a destroy leaves it. An update from
  names to a deb or to upkeep leaves what was there (`apt.go:485`), one in the other direction
  panics (`apt.go:551`). `clean` empties the cache in check mode as well.
- A creation that fails half-way leaves things that the engine does not know of.
- `Group`, `User`, `Service` and `SystemdService` return their inputs as state from Read: a drift stamps
  `lastChanged`, and no later up repairs it until the inputs change. A service with
  state restarted or reloaded, and a file that is touched, are stamped at each refresh.
- A property taken out of a program makes no difference (`pdiff.go:40` walks the inputs).
- A rename of a SystemdService leaves the old unit running (`systemd_service.go:241`). With `check` off
  `FileLine.Read` bumps `lastChanged`.
- A change of FileLine whose answer is lost is repeated by a call that finds nothing to do: `lastChanged`
  stays and a service with the line as trigger is not restarted (`file_line.go:435`).
  `RestartOnChange` is stated for calls that reach the machine and come back, or do not reach it.
  `lastChanged` has a resolution of one second (`diff.go:55`).
- A replacement of an Exec without `deleteBeforeReplace` runs the old delete after the new create (`exec.go:205`).
- A task list whose host becomes unreachable in the middle of a delete is forgotten with
  `deleteUnreachable`. A `userdel` that is killed may leave the home.
- File: one that has only `ensure` or nothing is not missed by a refresh, nor any with `check` off, which stamps
  `lastChanged` each time (`file.go:1147`); a directory in the way of
  content is removed after the content was copied into it, and what is left is an empty file
  (`file.go:1370-1392`); the error of a copy from another path is dropped (line 802); a refresh of an unreachable
  host stamps `lastChanged` (1153-1157); archives only add, and an entry that got shorter keeps its
  old tail (`untar.go`); a URL is fetched again only with `force`. Checksums of nothing are
  dereferenced at lines 830 and 870.
- Installation: two providers may both find no lock and install at once, which `InstalledIsWhole` survives but
  `staging` does not: an installer that is past the version check takes away what others have staged, and
  `StagedStays` says only from when on nobody is; a lock whose owner died stays for ever, and each Connect to that host then fails after ten
  tests; a retried copy of a staged file goes on reading where the last try stopped (`agent.go:918`),
  so that the file may be the rest only and count as staged.

## 8. Not modelled

- Dialling with retries: a bounded loop, in `ConnectionPool` an outcome.
- The provider functions.
- Of the framework everything but the cancel middleware and the four handlers of the resource controller; of property
  diffs the detailed kinds; of the agent's handlers those that the modelled resources do not call. They keep no
  state between requests. Reflection and encoding are not what these models are about.
- Of File: a directory as remote source (`copyRemoteSourceDirectory`), links, assets without
  contents, missing parent directories, Check, and attributes other than the mode.
- Of Apt: options besides names, `ensure`, `deb`, `upgrade` and `clean`; dependencies, the name `*` and the cache.
- Of SystemdService: masking, scopes, daemon-reload and an invalid `refreshAction`. Of Service: arguments,
  patterns and runlevels. Of User and Group: attributes besides groups, home and id. Of
  all resources: the choice of connection and configuration (constants).
- Vendored Ansible is 153 000 lines of Python. Of its 219 modules the provider runs ten by itself, and those are
  modelled as far as its resources depend on them, on Linux; all others are reached only through
  tasks that a user writes, which are opaque here, and what they do is not mid's logic.
- Generated Ansible bindings, SDKs, telemetry, logging, build files, tests.
- SSH and TCP are modelled by how the code uses them: ordered bytes until a break.

`PROJECT.json` lists the parts with their state, the lines behind every definition, the hazards with
the line where each bites and the properties that watch it, and the theorems.

## 9. Plan

Done, in this order: `EvictPool` with `DrainSet` and `CancelMiddleware`; `AgentRPC` with
`RemoteCalls`; `ConnectionPool`; `ServiceChain`; proofs of the three protocol modules; `AgentInstall`;
`Handlers` with the eight kinds of resource, `Resources` and `ResourceLifecycle`; proofs of `CancelMiddleware`,
`AgentInstall`, `ServiceChain` and `ResourceLifecycle`.

Next, most important first:

1. A contract of which `AgentInstall` is the detail, and the proof that it is.
2. Two FileLine resources in one file (`file_line.go:252`), which needs a file of several lines.
3. `copyRemoteSourceDirectory` and links in `File`.
