------------------------------ MODULE AgentRPC ------------------------------
(***************************************************************************)
(* One connection between the provider and the agent it started on a       *)
(* remote machine: agent/agent.go (RunLocal, Disconnect, Ping, Heartbeat,  *)
(* RunHeartbeat, Call and the end of Connect) and agent/rpc/server.        *)
(*                                                                         *)
(* Calls go down the session's stdin one JSON value after another, under   *)
(* EncoderMutex, and results come back up its stdout in any order.  Both   *)
(* directions are pipes that hold PipeSize messages: a writer blocks while *)
(* the pipe is full.  RunLocal decodes results and hands each, in a        *)
(* goroutine of its own, to the channel the call registered in InFlight.   *)
(*                                                                         *)
(* A connection is given up by Disconnect, which up to three goroutines    *)
(* may be in at once: RunLocal when it reads the end of the stream, the    *)
(* heartbeat when a ping fails, and DisconnectAll.  The first two test     *)
(* Running before they call it, and Disconnect unsets it: two steps, with  *)
(* room for the others in between.  The server may crash and the link may  *)
(* break at any moment, in the middle of a message too.                    *)
(***************************************************************************)
EXTENDS Naturals, Sequences, SequencesExt

CONSTANTS
  Users,      \* the calls of resource operations (executor.CallAgent)
  PipeSize,   \* how many messages fit into stdin, and into stdout
  Events,     \* what may happen: "crash" of the server, "break" of the link,
              \* "exit" of the provider
  NoCall      \* nobody holds EncoderMutex; the loop is between two calls

(* The three callers of Disconnect; each name also stands for the RPCClose *)
(* call that this Disconnect makes.                                        *)
Disconnecters == {"eof", "heartbeat", "all"}

(* The ping of Connect and the ping of the heartbeat. *)
Pings == {"connectPing", "ping"}

Calls == Users \cup Pings \cup Disconnecters

ASSUME AgentAssumption ==
  /\ PipeSize \in Nat \ {0}
  /\ Events \subseteq {"crash", "break", "exit"}
  /\ Users \cap (Pings \cup Disconnecters) = {}
  /\ NoCall \notin Calls

VARIABLES
  running,   \* Agent.Running
  keeper,    \* Connect's ping, then the heartbeat goroutine that follows it
  pc,        \* where each call is; where it returned, with which outcome
  encoder,   \* the call that holds EncoderMutex
  stdin,     \* the calls on their way to the server
  stdout,    \* the results on their way back
  torn,      \* the stream of results ends in the middle of one
  link,      \* the SSH session: up, closed (Session.Close), or down
  local,     \* the goroutine RunLocal
  results,   \* the calls for which RunLocal has a result to hand over
  disc,      \* where each Disconnect is
  todo,      \* the in-flight calls that Disconnect(wait) has yet to tell
  visiting,  \* the one of them its loop is at
  senders,   \* the in-flight calls that goroutines of the other Disconnects tell
  server,    \* the server's main loop
  handlers,  \* the calls the server is executing
  accepted   \* history: the users' calls the server has begun to execute

callVars == <<pc, encoder>>
pipeVars == <<stdin, stdout, torn, link>>
localVars == <<local, results>>
rangeVars == <<todo, visiting>>
discVars == <<disc, rangeVars, senders>>
serverVars == <<server, handlers, accepted>>
vars == <<running, keeper, callVars, pipeVars, localVars, discVars, serverVars>>

(* A result; nothing, for a Close call; or an error: of the encoder, of    *)
(* the context, or ErrAgentShutDown.                                       *)
Outcomes == {"ok", "sent", "failed"}

TypeOK ==
  /\ running \in BOOLEAN
  /\ keeper \in {"connecting", "failed", "resting", "pinging", "disconnecting", "stopped"}
  /\ pc \in [Calls -> {"idle", "ready", "registered", "encoding", "waiting"} \cup Outcomes]
  /\ encoder \in Calls \cup {NoCall}
  /\ stdin \in Seq(Calls) /\ Len(stdin) <= PipeSize
  /\ stdout \in Seq(Calls) /\ Len(stdout) <= PipeSize
  /\ torn \in BOOLEAN
  /\ link \in {"up", "closed", "down"}
  /\ local \in {"looping", "decoding", "disconnecting", "stopped"}
  /\ results \in SUBSET Calls
  /\ disc \in [Disconnecters -> {"off", "calling", "telling", "session", "client", "joining", "done"}]
  /\ todo \in SUBSET Calls
  /\ visiting \in Calls \cup {NoCall}
  /\ senders \in SUBSET Calls
  /\ server \in {"up", "closing", "exited", "crashed"}
  /\ handlers \in SUBSET Calls
  /\ accepted \in SUBSET Users

(* The state in which Connect has started the session, set Running, begun  *)
(* RunLocal and is about to ping.                                          *)
Init ==
  /\ running = TRUE
  /\ keeper = "connecting"
  /\ pc = [c \in Calls |-> IF c = "connectPing" THEN "registered" ELSE "idle"]
  /\ encoder = NoCall
  /\ stdin = <<>>
  /\ stdout = <<>>
  /\ torn = FALSE
  /\ link = "up"
  /\ local = "looping"
  /\ results = {}
  /\ disc = [d \in Disconnecters |-> "off"]
  /\ todo = {}
  /\ visiting = NoCall
  /\ senders = {}
  /\ server = "up"
  /\ handlers = {}
  /\ accepted = {}

-----------------------------------------------------------------------------
Returned(c) == pc[c] \in Outcomes

(* The calls whose entry in InFlight holds an open channel.  Entries are   *)
(* never deleted; sending on the closed channel of a call that has         *)
(* returned panics, is recovered and changes nothing.                      *)
Listening == {c \in Calls : pc[c] \in {"registered", "encoding", "waiting"}}

Dead == server \in {"exited", "crashed"}

Goto(c, from, to) == pc[c] = from /\ pc' = [pc EXCEPT ![c] = to]

DiscGoto(d, from, to) == disc[d] = from /\ disc' = [disc EXCEPT ![d] = to]

(* A Disconnect(wait) that is going through InFlight may or may not come   *)
(* across a new entry (the range over a sync.Map is no snapshot).          *)
MaybeVisited(c) ==
  /\ todo' \in IF disc["all"] = "telling" THEN {todo, todo \cup {c}} ELSE {todo}
  /\ UNCHANGED visiting

-----------------------------------------------------------------------------
(* Call *)

(* A resource operation passes SetupAgent, which returns at once while     *)
(* Running is set and waits for its mutex while Connect has it.            *)
Begin(u) ==
  /\ keeper # "connecting"
  /\ running
  /\ Goto(u, "idle", "ready")
  /\ UNCHANGED <<running, keeper, encoder, pipeVars, localVars, discVars, serverVars>>

(* The call puts its channel into InFlight. *)
Register(c) ==
  /\ Goto(c, "ready", "registered")
  /\ MaybeVisited(c)
  /\ UNCHANGED <<running, keeper, encoder, pipeVars, localVars, disc, senders, serverVars>>

LockEncoder(c) ==
  /\ encoder = NoCall
  /\ Goto(c, "registered", "encoding")
  /\ encoder' = c
  /\ UNCHANGED <<running, keeper, pipeVars, localVars, discVars, serverVars>>

(* The call is written; a Close call does not wait for a result. *)
Encode(c) ==
  /\ link = "up"
  /\ Len(stdin) < PipeSize
  /\ Goto(c, "encoding", IF c \in Disconnecters THEN "sent" ELSE "waiting")
  /\ encoder' = NoCall
  /\ stdin' = Append(stdin, c)
  /\ UNCHANGED <<running, keeper, stdout, torn, link, localVars, discVars, serverVars>>

(* The write fails, at once or after it blocked; the server's death is     *)
(* noticed only when the session's close message has arrived.              *)
EncodeError(c) ==
  /\ link # "up" \/ Dead
  /\ Goto(c, "encoding", "failed")
  /\ encoder' = NoCall
  /\ UNCHANGED <<running, keeper, pipeVars, localVars, discVars, serverVars>>

(* Fault: a call whose context is done is sent again. *)
FaultCtxDone(c) ==
  /\ Goto(c, "waiting", "registered")
  /\ UNCHANGED <<running, keeper, encoder, pipeVars, localVars, discVars, serverVars>>

(* The context of the call is done: a deadline for pings, a deadline or a  *)
(* cancellation, which may never come, for resource operations.            *)
CtxDone(c) ==
  /\ Goto(c, "waiting", "failed")
  /\ UNCHANGED <<running, keeper, encoder, pipeVars, localVars, discVars, serverVars>>

-----------------------------------------------------------------------------
(* Disconnect *)

(* Running is unset and the Close call begins.  Whoever calls Disconnect   *)
(* may have looked at Running before, but it looks no more.                *)
Disconnect(d) ==
  /\ DiscGoto(d, "off", "calling")
  /\ Goto(d, "idle", "ready")
  /\ running' = FALSE
  /\ UNCHANGED <<keeper, encoder, pipeVars, localVars, rangeVars, senders, serverVars>>

EOFDisconnect == local = "disconnecting" /\ Disconnect("eof")

HeartbeatDisconnect == keeper = "disconnecting" /\ Disconnect("heartbeat")

(* At the end of the provider, after Connect (it takes SetupAgentMutex).   *)
DisconnectAll ==
  /\ "exit" \in Events
  /\ keeper # "connecting"
  /\ Disconnect("all")

(* Disconnect(wait=false): a goroutine for each call in flight; those for  *)
(* Close calls, which receive nothing, have no effect.                     *)
Broadcast(d) ==
  /\ d # "all"
  /\ Returned(d)
  /\ DiscGoto(d, "calling", "session")
  /\ senders' = senders \cup (Listening \ Disconnecters)
  /\ UNCHANGED <<running, keeper, callVars, pipeVars, localVars, rangeVars, serverVars>>

BroadcastWait ==
  /\ Returned("all")
  /\ DiscGoto("all", "calling", "telling")
  /\ todo' = Listening
  /\ UNCHANGED <<running, keeper, callVars, pipeVars, localVars, visiting, senders, serverVars>>

(* Disconnect(wait=true): one call after the other, in no particular       *)
(* order.                                                                  *)
Visit(c) ==
  /\ disc["all"] = "telling" /\ visiting = NoCall
  /\ c \in todo
  /\ visiting' = c
  /\ UNCHANGED <<running, keeper, callVars, pipeVars, localVars, disc, todo, senders, serverVars>>

(* Fault: a call that cannot take the message now is passed over. *)
FaultTell(c) ==
  /\ visiting = c
  /\ pc' = IF pc[c] = "waiting" THEN [pc EXCEPT ![c] = "failed"] ELSE pc
  /\ todo' = todo \ {c} /\ visiting' = NoCall
  /\ UNCHANGED <<running, keeper, encoder, pipeVars, localVars, disc, senders, serverVars>>

(* The loop blocks until the call takes the message or has closed its      *)
(* channel, which panics and is recovered.                                 *)
Tell(c) ==
  /\ visiting = c
  /\ pc[c] = "waiting" \/ Returned(c)
  /\ pc' = IF pc[c] = "waiting" THEN [pc EXCEPT ![c] = "failed"] ELSE pc
  /\ todo' = todo \ {c} /\ visiting' = NoCall
  /\ UNCHANGED <<running, keeper, encoder, pipeVars, localVars, disc, senders, serverVars>>

TellDone ==
  /\ todo = {}
  /\ DiscGoto("all", "telling", "session")
  /\ UNCHANGED <<running, keeper, callVars, pipeVars, localVars, rangeVars, senders, serverVars>>

(* A goroutine of Disconnect(wait=false) meets its call in the select. *)
Send(c) ==
  /\ c \in senders
  /\ Goto(c, "waiting", "failed")
  /\ senders' = senders \ {c}
  /\ UNCHANGED <<running, keeper, encoder, pipeVars, localVars, disc, rangeVars, serverVars>>

(* Fault: it does not wait at all. *)
FaultSendExpire(c) ==
  /\ c \in senders
  /\ senders' = senders \ {c}
  /\ UNCHANGED <<running, keeper, callVars, pipeVars, localVars, disc, rangeVars, serverVars>>

(* Or it ends: its channel is closed, or the call has not come to its      *)
(* select for a second.                                                    *)
SendExpire(c) ==
  /\ c \in senders
  /\ pc[c] # "waiting"
  /\ senders' = senders \ {c}
  /\ UNCHANGED <<running, keeper, callVars, pipeVars, localVars, disc, rangeVars, serverVars>>

SessionClose(d) ==
  /\ DiscGoto(d, "session", "client")
  /\ link' = IF link = "up" THEN "closed" ELSE link
  /\ UNCHANGED <<running, keeper, callVars, stdin, stdout, torn, localVars, rangeVars, senders, serverVars>>

(* The TCP connection ends.  Of each pipe a prefix still arrives, and what *)
(* follows the results that arrive may be half of the next one.            *)
LoseLink ==
  /\ link # "down"
  /\ link' = "down"
  /\ stdin' \in Prefixes(stdin)
  /\ stdout' \in Prefixes(stdout)
  /\ torn' \in IF stdout' = stdout THEN {torn} ELSE BOOLEAN

ClientClose(d) ==
  /\ DiscGoto(d, "client", IF d = "all" THEN "joining" ELSE "done")
  /\ IF link = "down" THEN UNCHANGED pipeVars ELSE LoseLink
  /\ UNCHANGED <<running, keeper, callVars, localVars, rangeVars, senders, serverVars>>

(* Disconnect(wait=true) waits for RunLocal; DisconnectAll's context never *)
(* ends.                                                                   *)
Join ==
  /\ DiscGoto("all", "joining", "done")
  /\ local = "stopped"
  /\ UNCHANGED <<running, keeper, callVars, pipeVars, localVars, rangeVars, senders, serverVars>>

-----------------------------------------------------------------------------
(* RunLocal *)

(* The loop looks at Running between results only. *)
Loop ==
  /\ local = "looping"
  /\ local' = IF running THEN "decoding" ELSE "stopped"
  /\ UNCHANGED <<running, keeper, callVars, pipeVars, results, discVars, serverVars>>

(* Fault: the goroutines share the variable that results are decoded into. *)
FaultDecode ==
  /\ local = "decoding"
  /\ stdout # <<>>
  /\ results' = {Head(stdout)}
  /\ stdout' = Tail(stdout)
  /\ local' = "looping"
  /\ UNCHANGED <<running, keeper, callVars, stdin, torn, link, discVars, serverVars>>

(* A result is decoded and a goroutine begun to hand it over. *)
Decode ==
  /\ local = "decoding"
  /\ stdout # <<>>
  /\ results' = results \cup {Head(stdout)}
  /\ stdout' = Tail(stdout)
  /\ local' = "looping"
  /\ UNCHANGED <<running, keeper, callVars, stdin, torn, link, discVars, serverVars>>

StreamEnded == stdout = <<>> /\ (Dead \/ link # "up")

(* The stream ended while the agent should run: RunLocal will disconnect.  *)
DecodeEOF ==
  /\ local = "decoding"
  /\ StreamEnded
  /\ running
  /\ ~torn
  /\ local' = "disconnecting"
  /\ UNCHANGED <<running, keeper, callVars, pipeVars, results, discVars, serverVars>>

(* Fault: an error while Running is unset is not looked at. *)
FaultDecodeStop ==
  /\ local = "disconnecting" /\ disc["eof"] = "done"
  /\ local' = "stopped"
  /\ UNCHANGED <<running, keeper, callVars, pipeVars, results, discVars, serverVars>>

(* RunLocal returns: after its Disconnect, or because Decode failed and    *)
(* the agent should not be running.  While it should, a stream that ended  *)
(* inside a result is no EOF: the error repeats and the loop spins.        *)
DecodeStop ==
  /\ \/ local = "disconnecting" /\ disc["eof"] = "done"
     \/ local = "decoding" /\ StreamEnded /\ ~running
  /\ local' = "stopped"
  /\ UNCHANGED <<running, keeper, callVars, pipeVars, results, discVars, serverVars>>

(* Fault: the result is given to whichever call waits. *)
FaultDeliver(c) ==
  /\ c \in results
  /\ \E w \in Calls : Goto(w, "waiting", "ok")
  /\ results' = results \ {c}
  /\ UNCHANGED <<running, keeper, encoder, pipeVars, local, discVars, serverVars>>

Deliver(c) ==
  /\ c \in results
  /\ Goto(c, "waiting", "ok")
  /\ results' = results \ {c}
  /\ UNCHANGED <<running, keeper, encoder, pipeVars, local, discVars, serverVars>>

(* The call has given up: sending on its closed channel panics, which is   *)
(* recovered.                                                              *)
DropResult(c) ==
  /\ c \in results
  /\ Returned(c)
  /\ results' = results \ {c}
  /\ UNCHANGED <<running, keeper, callVars, pipeVars, local, discVars, serverVars>>

-----------------------------------------------------------------------------
(* Connect's ping, and the heartbeat *)

(* After the ping Connect either begins the heartbeat or returns an error; *)
(* it leaves Running set and the session open in both cases.               *)
ConnectDone ==
  /\ keeper = "connecting"
  /\ Returned("connectPing")
  /\ keeper' = IF pc["connectPing"] = "ok" THEN "resting" ELSE "failed"
  /\ UNCHANGED <<running, callVars, pipeVars, localVars, discVars, serverVars>>

(* A new round: the same name stands for the ping of each. *)
Heartbeat ==
  /\ keeper = "resting"
  /\ running
  /\ keeper' = "pinging"
  /\ pc' = [pc EXCEPT !["ping"] = "ready"]
  /\ UNCHANGED <<running, encoder, pipeVars, localVars, discVars, serverVars>>

HeartbeatOk ==
  /\ keeper = "pinging"
  /\ running
  /\ pc["ping"] = "ok"
  /\ keeper' = "resting"
  /\ UNCHANGED <<running, callVars, pipeVars, localVars, discVars, serverVars>>

(* Fault: the error of a ping is only logged. *)
FaultHeartbeatFailed ==
  /\ keeper = "pinging"
  /\ running
  /\ pc["ping"] \in Outcomes \ {"ok"}
  /\ keeper' = "resting"
  /\ UNCHANGED <<running, callVars, pipeVars, localVars, discVars, serverVars>>

HeartbeatFailed ==
  /\ keeper = "pinging"
  /\ running
  /\ pc["ping"] \in Outcomes \ {"ok"}
  /\ keeper' = "disconnecting"
  /\ UNCHANGED <<running, callVars, pipeVars, localVars, discVars, serverVars>>

HeartbeatStop ==
  /\ \/ keeper = "resting" /\ ~running
     \/ keeper = "pinging" /\ ~running /\ Returned("ping")
     \/ keeper = "disconnecting" /\ disc["heartbeat"] = "done"
  /\ keeper' = "stopped"
  /\ UNCHANGED <<running, callVars, pipeVars, localVars, discVars, serverVars>>

-----------------------------------------------------------------------------
(* The server *)

ServerRead ==
  /\ server = "up"
  /\ stdin # <<>>
  /\ stdin' = Tail(stdin)
  /\ IF Head(stdin) \in Disconnecters
     THEN server' = "closing" /\ UNCHANGED <<handlers, accepted>>
     ELSE /\ handlers' = handlers \cup {Head(stdin)}
          /\ accepted' = accepted \cup ({Head(stdin)} \cap Users)
          /\ UNCHANGED server
  /\ UNCHANGED <<running, keeper, callVars, stdout, torn, link, localVars, discVars>>

(* Fault: the write does not wait for room. *)
FaultHandlerDone(c) ==
  /\ c \in handlers
  /\ ~Dead
  /\ link # "down"
  /\ stdout' = Append(stdout, c)
  /\ handlers' = handlers \ {c}
  /\ UNCHANGED <<running, keeper, callVars, stdin, torn, link, localVars, discVars, server, accepted>>

(* A handler ends: its result is written under the server's mutex. *)
HandlerDone(c) ==
  /\ c \in handlers
  /\ ~Dead
  /\ Len(stdout) < PipeSize
  /\ link # "down"
  /\ stdout' = Append(stdout, c)
  /\ handlers' = handlers \ {c}
  /\ UNCHANGED <<running, keeper, callVars, stdin, torn, link, localVars, discVars, server, accepted>>

(* Fault: the server answers the Close call before it exits. *)
FaultServerExitAnswering ==
  /\ server = "closing"
  /\ handlers = {}
  /\ link = "up"
  /\ server' = "exited"
  /\ UNCHANGED <<running, keeper, callVars, pipeVars, localVars, discVars, handlers, accepted>>

(* After a Close call: wg.Wait, then the process ends. *)
ServerExit ==
  /\ server = "closing"
  /\ handlers = {}
  /\ server' = "exited"
  /\ UNCHANGED <<running, keeper, callVars, pipeVars, localVars, discVars, handlers, accepted>>

(* The server dies: killed, by its own heartbeat panic, or by SIGPIPE on a *)
(* stdout nobody reads.  It may be in the middle of writing a result; the  *)
(* handlers it was running stay unfinished.                                *)
ServerCrash ==
  /\ "crash" \in Events
  /\ ~Dead
  /\ server' = "crashed"
  /\ torn' \in IF handlers = {} THEN {torn} ELSE BOOLEAN
  /\ UNCHANGED <<running, keeper, callVars, stdin, stdout, link, localVars, discVars, handlers, accepted>>

(* The network fails. *)
Break ==
  /\ "break" \in Events
  /\ LoseLink
  /\ UNCHANGED <<running, keeper, callVars, localVars, discVars, serverVars>>

-----------------------------------------------------------------------------
Next ==
  \/ \E u \in Users : Begin(u)
  \/ \E c \in Calls : Register(c) \/ LockEncoder(c) \/ Encode(c) \/ EncodeError(c)
  \/ \E c \in Users \cup Pings : \/ CtxDone(c) \/ Send(c) \/ SendExpire(c)
                                 \/ Deliver(c) \/ DropResult(c) \/ HandlerDone(c)
  \/ \E c \in Calls : Visit(c) \/ Tell(c)
  \/ \E d \in Disconnecters : Broadcast(d) \/ SessionClose(d) \/ ClientClose(d)
  \/ EOFDisconnect \/ HeartbeatDisconnect \/ DisconnectAll
  \/ BroadcastWait \/ TellDone \/ Join
  \/ Loop \/ Decode \/ DecodeEOF \/ DecodeStop
  \/ ConnectDone \/ Heartbeat \/ HeartbeatOk \/ HeartbeatFailed \/ HeartbeatStop
  \/ ServerRead \/ ServerExit \/ ServerCrash \/ Break

Cut == link # "up"

(* No ping will reach the server any more: within two minutes its          *)
(* heartbeat check panics.  The reading loop of a server whose stdin has   *)
(* ended writes errors to a stdout nobody reads until then.                *)
Unattended ==
  /\ server = "up"
  /\ keeper \in {"failed", "disconnecting", "stopped"} \/ (Cut /\ stdin = <<>>)

(* The steps of each goroutine.  A Disconnect closes the session, or the    *)
(* link breaks first; a result that is under way arrives, or the link      *)
(* breaks.  Pings have a deadline.                                         *)
CallStep(c) == Register(c) \/ LockEncoder(c) \/ Encode(c) \/ EncodeError(c)

DisconnectStep(d) ==
  \/ CallStep(d) \/ Broadcast(d) \/ SessionClose(d) \/ ClientClose(d)
  \/ disc[d] = "session" /\ Break

AllStep ==
  \/ BroadcastWait \/ (\E c \in Calls : Visit(c) \/ Tell(c)) \/ TellDone \/ Join
  \/ DisconnectStep("all")

KeeperStep ==
  \/ ConnectDone \/ Heartbeat \/ HeartbeatOk \/ HeartbeatFailed \/ HeartbeatStop
  \/ \E p \in Pings : CallStep(p) \/ CtxDone(p)
  \/ HeartbeatDisconnect \/ DisconnectStep("heartbeat")

RunLocalStep ==
  \/ Loop \/ Decode \/ DecodeEOF \/ DecodeStop
  \/ local = "decoding" /\ stdout # <<>> /\ Break
  \/ EOFDisconnect \/ DisconnectStep("eof")

ServerStep == ServerRead \/ ServerExit \/ (server = "up" /\ stdin # <<>> /\ Break)

(* The goroutines that hold a message for the call. *)
HandOver(c) == Send(c) \/ SendExpire(c) \/ Deliver(c) \/ DropResult(c)

(* Goroutines that can run do run.  A goroutine that asks for EncoderMutex *)
(* gets it when it is free again and again, hence the strong fairness; no  *)
(* other step of theirs is disabled by what others do.  Every handler      *)
(* comes to its end, and then writes its result, or is killed by writing   *)
(* to a stdout that is closed.                                             *)
Fairness ==
  /\ \A u \in Users : SF_vars(CallStep(u))
  /\ SF_vars(AllStep) /\ SF_vars(KeeperStep) /\ SF_vars(RunLocalStep)
  /\ \A c \in Users \cup Pings : WF_vars(HandOver(c)) /\ WF_vars(HandlerDone(c))
  /\ WF_vars(ServerStep)
  /\ WF_vars((Unattended \/ (Cut /\ handlers # {})) /\ ServerCrash)

SafetySpec == Init /\ [][Next]_vars

Spec == SafetySpec /\ Fairness

-----------------------------------------------------------------------------
(* Properties *)

(* A result reaches the call it belongs to: results arrive in any order,   *)
(* and a goroutine hands each over long after it was decoded.              *)
OkIsOwnResult ==
  \A u \in Users : pc[u] = "ok" => u \in accepted \ handlers

(* No call the server has accepted is forgotten.  Until it returns, its    *)
(* result is in the hands of RunLocal, a Disconnect tells it or is about   *)
(* to look for it, or RunLocal still reads: the result, which comes, or    *)
(* the end of the stream.                                                  *)
NoAnswerLost ==
  \A c \in accepted :
    \/ Returned(c) \/ c \in results
    \/ c \in senders \cup todo \/ \E d \in Disconnecters : disc[d] = "calling"
    \/ local # "stopped" /\ \/ c \in handlers \cup ToSet(stdout)
                            \/ server = "crashed" \/ link # "up"

(* Disconnect(wait=true) passes a call it found in flight, and so gets to  *)
(* closing the session, only once the call has returned.                   *)
WaitLeavesNoneBehind ==
  [][\A c \in todo \ todo' : Returned(c)']_vars

(* A call that waits for its result when a Disconnect begins, or is told   *)
(* by one, returns, also when its context never ends: no Disconnect is     *)
(* held up for ever by the pipes, by the other calls or by another         *)
(* Disconnect before it comes to this call.                                *)
WaitingCallsReturn ==
  \A u \in Users :
    /\ pc[u] = "waiting"
    /\ u \in senders \cup todo \/ \E d \in Disconnecters : disc[d] = "calling"
    ~> Returned(u)

(* Disconnect returns, for each of its three callers and when they         *)
(* overlap.                                                                *)
DisconnectReturns ==
  \A d \in Disconnecters : disc[d] # "off" ~> disc[d] = "done"

(* The death of the server is noticed, by the end of its stream or by a    *)
(* failed ping, so that SetupAgent does not go on handing out the agent.   *)
DeathIsNoticed ==
  Dead /\ keeper \in {"resting", "pinging"} ~> ~running

(* Once the provider has disconnected, the agent process ends. *)
AgentEnds == disc["all"] = "done" ~> Dead

(* The protocol implements RemoteCalls. *)
Promise == INSTANCE RemoteCalls WITH
  Callers <- Users,
  status <- [u \in Users |->
               CASE pc[u] \in {"idle", "ready"} -> "idle"
                 [] pc[u] \in {"registered", "encoding", "waiting"} -> "pending"
                 [] pc[u] = "ok" -> "answered"
                 [] OTHER -> "aborted"],
  executed <- {u \in Users : u \in accepted \ handlers}

ImplementsRemoteCalls == Promise!Spec
=============================================================================
