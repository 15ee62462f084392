--------------------------- MODULE AgentRPC_proofs ---------------------------
(***************************************************************************)
(* Proofs, for any number of calls, pipes of any size and any set of       *)
(* events, that results find their calls and that none is lost.            *)
(*                                                                         *)
(* The inductive invariant follows a user's call along its way: it is      *)
(* written to stdin once, is no longer there when the server has accepted  *)
(* it, and its name is on the way back only after its handler has ended.   *)
(* That no call is forgotten needs more: once some Disconnect has looked   *)
(* into InFlight, every call that the server has accepted, or will read    *)
(* before a Close call, has returned or is told.                           *)
(***************************************************************************)
EXTENDS AgentRPC, SequenceTheorems, TLAPS

(* A call that has not been written is nowhere on the other side. *)
NotSentYet ==
  \A u \in Users :
    pc[u] \in {"idle", "ready", "registered", "encoding"} =>
      u \notin ToSet(stdin) /\ u \notin accepted

(* A call that is on its way has not been accepted. *)
UnreadIsNew == \A u \in Users : u \in ToSet(stdin) => u \notin accepted

(* It is on its way once. *)
SentOnce ==
  \A i, j \in 1..Len(stdin) : stdin[i] = stdin[j] /\ stdin[i] \in Users => i = j

(* The server executes what it has accepted. *)
HandlersAccepted == \A u \in Users : u \in handlers => u \in accepted

(* What is on the way back, or decoded, was executed to its end. *)
ResultsExecuted ==
  \A u \in Users : u \in ToSet(stdout) \cup results => u \in accepted \ handlers

(* Disconnect(wait) has nobody to tell before it has looked. *)
NothingToTell == disc["all"] \in {"off", "calling"} => todo = {}

(* Running is unset by the first Disconnect, and only then does RunLocal   *)
(* leave its loop.                                                         *)
DisconnectStops ==
  /\ running <=> \A d \in Disconnecters : disc[d] = "off"
  /\ local = "stopped" => ~running

(* A Disconnect looks into InFlight after its Close call, which waits for  *)
(* no result.                                                              *)
ClosesFirst ==
  \A d \in Disconnecters :
    /\ pc[d] # "waiting"
    /\ disc[d] \in {"off", "calling"} \/ Returned(d)

(* Some Disconnect has looked. *)
Looked == \E d \in Disconnecters : disc[d] \notin {"off", "calling"}

Told(c) == Returned(c) \/ c \in senders \cup todo

(* After a Close call nothing that is written will be read. *)
CloseIsWritten ==
  server = "up" /\ link = "up" /\ (\E d \in Disconnecters : Returned(d))
    => \E i \in 1..Len(stdin) : stdin[i] \in Disconnecters

(* The calls that were there when a Disconnect looked are told. *)
AcceptedAreTold == Looked => \A c \in accepted : Told(c)

UnreadAreTold ==
  Looked /\ server = "up" =>
    \A j \in 1..Len(stdin) :
      stdin[j] \in Users => \/ Told(stdin[j])
                           \/ \E i \in 1..j : stdin[i] \in Disconnecters

(* While the server lives and the link holds, what was accepted is being   *)
(* executed or on its way back.                                            *)
OnTheWay ==
  server # "crashed" /\ link = "up" =>
    \A c \in accepted : Returned(c) \/ c \in handlers \cup results \cup ToSet(stdout)

IInv ==
  /\ TypeOK
  /\ NotSentYet
  /\ UnreadIsNew
  /\ SentOnce
  /\ HandlersAccepted
  /\ ResultsExecuted
  /\ NothingToTell
  /\ OkIsOwnResult
  /\ OnTheWay
  /\ DisconnectStops
  /\ ClosesFirst
  /\ CloseIsWritten
  /\ AcceptedAreTold
  /\ UnreadAreTold

-----------------------------------------------------------------------------
(* Sequences and the sets of their elements. *)

LEMMA InToSet ==
  ASSUME NEW S, NEW s \in Seq(S)
  PROVE  \A x : x \in ToSet(s) <=> \E i \in 1..Len(s) : s[i] = x
  <1>1. DOMAIN s = 1..Len(s)
    BY LenProperties
  <1> QED
    BY <1>1 DEF ToSet

LEMMA ToSetAppend ==
  ASSUME NEW S, NEW s \in Seq(S), NEW e \in S
  PROVE  ToSet(Append(s, e)) = ToSet(s) \cup {e}
  <1> DEFINE t == Append(s, e)
  <1>1. /\ t \in Seq(S) /\ Len(t) = Len(s) + 1 /\ Len(s) \in Nat
        /\ \A i \in 1..Len(s) : t[i] = s[i]
        /\ t[Len(s) + 1] = e
    OBVIOUS
  <1> HIDE DEF t
  <1>2. /\ \A x : x \in ToSet(s) <=> \E i \in 1..Len(s) : s[i] = x
        /\ \A x : x \in ToSet(t) <=> \E i \in 1..Len(t) : t[i] = x
    BY <1>1, InToSet
  <1>3. \A i \in 1..Len(t) : i \in 1..Len(s) \/ i = Len(s) + 1
    BY <1>1
  <1>4. \A i \in 1..Len(s) + 1 : i \in 1..Len(t)
    BY <1>1
  <1>5. \A x \in ToSet(t) : x \in ToSet(s) \/ x = e
    BY <1>1, <1>2, <1>3
  <1>6. \A x \in ToSet(s) : x \in ToSet(t)
    BY <1>1, <1>2, <1>4
  <1>7. e \in ToSet(t)
    BY <1>1, <1>2, <1>4
  <1> QED
    BY <1>5, <1>6, <1>7 DEF t

LEMMA ToSetTail ==
  ASSUME NEW S, NEW s \in Seq(S), s # <<>>
  PROVE  /\ Head(s) \in S
         /\ Tail(s) \in Seq(S)
         /\ Len(Tail(s)) < Len(s)
         /\ ToSet(s) = ToSet(Tail(s)) \cup {Head(s)}
  <1>1. Head(s) = s[1] /\ Len(s) \in Nat /\ Len(s) >= 1
    OBVIOUS
  <1>2. Tail(s) \in Seq(S) /\ Len(Tail(s)) = Len(s) - 1
    OBVIOUS
  <1>3. \A i \in 1..Len(Tail(s)) : Tail(s)[i] = s[i + 1]
    OBVIOUS
  <1>4. ToSet(s) = ToSet(Tail(s)) \cup {Head(s)}
    <2>1. ASSUME NEW i \in 1..Len(s), i # 1
          PROVE  i - 1 \in 1..Len(Tail(s)) /\ Tail(s)[i - 1] = s[i]
      BY <2>1, <1>1, <1>2, <1>3
    <2>0. /\ \A x : x \in ToSet(s) <=> \E i \in 1..Len(s) : s[i] = x
          /\ \A x : x \in ToSet(Tail(s)) <=> \E i \in 1..Len(Tail(s)) : Tail(s)[i] = x
      BY <1>2, InToSet
    <2>2. \A x \in ToSet(s) : x = Head(s) \/ x \in ToSet(Tail(s))
      BY <2>0, <2>1, <1>1
    <2>3. \A i \in 1..Len(Tail(s)) : i + 1 \in 1..Len(s)
      BY <1>1, <1>2
    <2>4. \A x \in ToSet(Tail(s)) : x \in ToSet(s)
      BY <2>0, <2>3, <1>3
    <2>5. Head(s) \in ToSet(s)
      BY <2>0, <1>1
    <2> QED
      BY <2>2, <2>4, <2>5
  <1> QED
    BY <1>1, <1>2, <1>4

LEMMA PrefixLemma ==
  ASSUME NEW S, NEW s \in Seq(S), NEW p \in Prefixes(s)
  PROVE  /\ p \in Seq(S)
         /\ Len(p) \in Nat /\ Len(p) <= Len(s)
         /\ \A i \in 1..Len(p) : p[i] = s[i]
         /\ ToSet(p) \subseteq ToSet(s)
  <1>1. PICK l \in 0..Len(s) : p = SubSeq(s, 1, l)
    BY DEF Prefixes
  <1>2. /\ p \in Seq(S) /\ Len(p) = l
        /\ \A i \in 1..l : p[i] = s[i]
    BY <1>1, SubSeqProperties
  <1>3. ToSet(p) \subseteq ToSet(s)
    <2>1. \A i \in 1..l : i \in 1..Len(s)
      BY <1>1
    <2> QED
      BY <1>2, <2>1, InToSet
  <1> QED
    BY <1>1, <1>2, <1>3

-----------------------------------------------------------------------------
(* Every step keeps the types. *)
LEMMA TypeStep == TypeOK /\ [Next]_vars => TypeOK'
  <1> SUFFICES ASSUME TypeOK, [Next]_vars
               PROVE  TypeOK'
    OBVIOUS
  <1> USE AgentAssumption DEF TypeOK, Goto, DiscGoto, MaybeVisited, Calls, Pings, Disconnecters,
          Outcomes, Returned, Listening, Dead,
          vars, callVars, pipeVars, localVars, discVars, rangeVars, serverVars
  <1>1. ASSUME NEW u \in Users, Begin(u)
       PROVE  TypeOK'
    BY <1>1 DEF Begin
  <1>2. ASSUME NEW c \in Calls, Register(c)
       PROVE  TypeOK'
    BY <1>2 DEF Register
  <1>3. ASSUME NEW c \in Calls, LockEncoder(c)
       PROVE  TypeOK'
    BY <1>3 DEF LockEncoder
  <1>4. ASSUME NEW c \in Calls, Encode(c)
       PROVE  TypeOK'
    BY <1>4 DEF Encode
  <1>5. ASSUME NEW c \in Calls, EncodeError(c)
       PROVE  TypeOK'
    BY <1>5 DEF EncodeError
  <1>6. ASSUME NEW c \in Users \cup Pings, CtxDone(c)
       PROVE  TypeOK'
    BY <1>6 DEF CtxDone
  <1>7. ASSUME NEW c \in Users \cup Pings, Send(c)
       PROVE  TypeOK'
    BY <1>7 DEF Send
  <1>8. ASSUME NEW c \in Users \cup Pings, SendExpire(c)
       PROVE  TypeOK'
    BY <1>8 DEF SendExpire
  <1>9. ASSUME NEW c \in Users \cup Pings, Deliver(c)
       PROVE  TypeOK'
    BY <1>9 DEF Deliver
  <1>10. ASSUME NEW c \in Users \cup Pings, DropResult(c)
       PROVE  TypeOK'
    BY <1>10 DEF DropResult
  <1>11. ASSUME NEW c \in Users \cup Pings, HandlerDone(c)
       PROVE  TypeOK'
    BY <1>11 DEF HandlerDone
  <1>12. ASSUME NEW c \in Calls, Tell(c)
       PROVE  TypeOK'
    BY <1>12 DEF Tell
  <1>32. ASSUME NEW c \in Calls, Visit(c)
       PROVE  TypeOK'
    BY <1>32 DEF Visit
  <1>13. ASSUME NEW d \in Disconnecters, Broadcast(d)
       PROVE  TypeOK'
    BY <1>13 DEF Broadcast
  <1>14. ASSUME NEW d \in Disconnecters, SessionClose(d)
       PROVE  TypeOK'
    BY <1>14 DEF SessionClose
  <1>15. ASSUME NEW d \in Disconnecters, ClientClose(d)
       PROVE  TypeOK'
    <2>1. CASE link = "down"
      BY <1>15, <2>1 DEF ClientClose
    <2>2. CASE link # "down"
      <3>1. stdin \in Seq(Calls) /\ stdout \in Seq(Calls)
        OBVIOUS
      <3>2. /\ stdin' \in Seq(Calls) /\ Len(stdin') <= PipeSize
            /\ stdout' \in Seq(Calls) /\ Len(stdout') <= PipeSize
        <4>1. /\ stdin' \in Seq(Calls) /\ Len(stdin') \in Nat /\ Len(stdin') <= Len(stdin)
              /\ stdout' \in Seq(Calls) /\ Len(stdout') \in Nat /\ Len(stdout') <= Len(stdout)
          BY <1>15, <2>2, <3>1, PrefixLemma DEF ClientClose, LoseLink
        <4> QED
          BY <4>1, <3>1
      <3> QED
        BY <1>15, <2>2, <3>2 DEF ClientClose, LoseLink
    <2> QED
      BY <2>1, <2>2
  <1>16. ASSUME NEW d \in Disconnecters, Disconnect(d)
       PROVE  TypeOK'
    <2>1. /\ pc' = [pc EXCEPT ![d] = "ready"]
          /\ disc' = [disc EXCEPT ![d] = "calling"]
      BY <1>16 DEF Disconnect
    <2>2. /\ pc' \in [Calls -> {"idle", "ready", "registered", "encoding", "waiting"} \cup Outcomes]
          /\ disc' \in [Disconnecters -> {"off", "calling", "telling", "session", "client", "joining", "done"}]
      BY <2>1
    <2>3. running' \in BOOLEAN
      BY <1>16 DEF Disconnect
    <2> QED
      BY <1>16, <2>2, <2>3 DEF Disconnect
  <1>17. ASSUME BroadcastWait
       PROVE  TypeOK'
    BY <1>17 DEF BroadcastWait
  <1>18. ASSUME TellDone
       PROVE  TypeOK'
    BY <1>18 DEF TellDone
  <1>19. ASSUME Join
       PROVE  TypeOK'
    BY <1>19 DEF Join
  <1>20. ASSUME Decode
       PROVE  TypeOK'
    BY <1>20 DEF Decode
  <1>21. ASSUME DecodeEOF
       PROVE  TypeOK'
    BY <1>21 DEF DecodeEOF
  <1>22. ASSUME DecodeStop
       PROVE  TypeOK'
    BY <1>22 DEF DecodeStop
  <1>23. ASSUME ConnectDone
       PROVE  TypeOK'
    BY <1>23 DEF ConnectDone
  <1>24. ASSUME Heartbeat
       PROVE  TypeOK'
    BY <1>24 DEF Heartbeat
  <1>25. ASSUME HeartbeatOk
       PROVE  TypeOK'
    BY <1>25 DEF HeartbeatOk
  <1>26. ASSUME HeartbeatFailed
       PROVE  TypeOK'
    BY <1>26 DEF HeartbeatFailed
  <1>27. ASSUME HeartbeatStop
       PROVE  TypeOK'
    BY <1>27 DEF HeartbeatStop
  <1>28. ASSUME ServerRead
       PROVE  TypeOK'
    BY <1>28 DEF ServerRead
  <1>29. ASSUME ServerExit
       PROVE  TypeOK'
    BY <1>29 DEF ServerExit
  <1>30. ASSUME ServerCrash
       PROVE  TypeOK'
    BY <1>30 DEF ServerCrash
  <1>31. ASSUME Break
       PROVE  TypeOK'
    <2>1. stdin \in Seq(Calls) /\ stdout \in Seq(Calls)
      OBVIOUS
    <2>2. /\ stdin' \in Seq(Calls) /\ Len(stdin') <= PipeSize
          /\ stdout' \in Seq(Calls) /\ Len(stdout') <= PipeSize
      <3>1. /\ stdin' \in Seq(Calls) /\ Len(stdin') \in Nat /\ Len(stdin') <= Len(stdin)
            /\ stdout' \in Seq(Calls) /\ Len(stdout') \in Nat /\ Len(stdout') <= Len(stdout)
        BY <1>31, <2>1, PrefixLemma DEF Break, LoseLink
      <3> QED
        BY <3>1, <2>1
    <2> QED
      BY <1>31, <2>2 DEF Break, LoseLink
  <1>34. ASSUME Loop
       PROVE  TypeOK'
    BY <1>34 DEF Loop
  <1>33. CASE UNCHANGED vars
    BY <1>33
  <1> HIDE DEF TypeOK, Goto, DiscGoto, MaybeVisited, Returned, Listening, Dead, vars
  <1> QED
    BY <1>1, <1>2, <1>3, <1>4, <1>5, <1>6, <1>7, <1>8, <1>9, <1>10, <1>11, <1>12,
       <1>13, <1>14, <1>15, <1>16, <1>17, <1>18, <1>19, <1>20, <1>21, <1>22, <1>23, <1>24,
       <1>25, <1>26, <1>27, <1>28, <1>29, <1>30, <1>31, <1>32, <1>33, <1>34
    DEF Next, EOFDisconnect, HeartbeatDisconnect, DisconnectAll

(* Every step keeps the calls on their way. *)
LEMMA WayStep ==
  IInv /\ [Next]_vars =>
    /\ NotSentYet' /\ UnreadIsNew' /\ SentOnce' /\ HandlersAccepted' /\ ResultsExecuted'
    /\ NothingToTell' /\ OkIsOwnResult' /\ OnTheWay'
  <1> DEFINE Goal ==
        /\ NotSentYet' /\ UnreadIsNew' /\ SentOnce' /\ HandlersAccepted' /\ ResultsExecuted'
        /\ NothingToTell' /\ OkIsOwnResult' /\ OnTheWay'
  <1> SUFFICES ASSUME IInv, [Next]_vars
               PROVE  Goal
    OBVIOUS
  <1> USE AgentAssumption DEF IInv, TypeOK, NotSentYet, UnreadIsNew, SentOnce, HandlersAccepted,
          ResultsExecuted, NothingToTell, OkIsOwnResult, OnTheWay,
          Goto, DiscGoto, MaybeVisited, Calls, Pings, Disconnecters,
          Outcomes, Returned, Listening, Dead,
          vars, callVars, pipeVars, localVars, discVars, rangeVars, serverVars
  <1>1. ASSUME NEW u \in Users, Begin(u)
       PROVE  Goal
    BY <1>1 DEF Begin
  <1>2. ASSUME NEW c \in Calls, Register(c)
       PROVE  Goal
    BY <1>2 DEF Register
  <1>3. ASSUME NEW c \in Calls, LockEncoder(c)
       PROVE  Goal
    BY <1>3 DEF LockEncoder
  <1>4. ASSUME NEW c \in Calls, Encode(c)
       PROVE  Goal
    <2>1. /\ c \in Calls /\ stdin \in Seq(Calls)
          /\ stdin' = Append(stdin, c) /\ pc[c] = "encoding"
          /\ UNCHANGED <<stdout, results, handlers, accepted, server, disc, todo>>
      BY <1>4 DEF Encode
    <2>2. ToSet(stdin') = ToSet(stdin) \cup {c}
      BY <2>1, ToSetAppend
    <2>3. pc' = [pc EXCEPT ![c] = IF c \in Disconnecters THEN "sent" ELSE "waiting"]
      BY <1>4 DEF Encode
    <2>4. SentOnce'
      <3> SUFFICES ASSUME NEW i \in 1..Len(stdin'), NEW j \in 1..Len(stdin'),
                          stdin'[i] = stdin'[j], stdin'[i] \in Users
                   PROVE  i = j
        OBVIOUS
      <3>1. /\ Len(stdin') = Len(stdin) + 1 /\ Len(stdin) \in Nat
            /\ \A k \in 1..Len(stdin) : stdin'[k] = stdin[k]
            /\ stdin'[Len(stdin) + 1] = c
        BY <2>1
      <3>2. \A k \in 1..Len(stdin) : stdin[k] \in ToSet(stdin)
        BY <2>1, InToSet
      <3>3. c \in Users => c \notin ToSet(stdin)
        BY <2>1
      <3>4. /\ i \in 1..Len(stdin) \/ i = Len(stdin) + 1
            /\ j \in 1..Len(stdin) \/ j = Len(stdin) + 1
        BY <3>1
      <3> QED
        BY <3>1, <3>2, <3>3, <3>4
    <2>5. NotSentYet' /\ UnreadIsNew' /\ HandlersAccepted' /\ ResultsExecuted'
      BY <2>1, <2>2, <2>3
    <2>6. NothingToTell' /\ OkIsOwnResult'
      BY <2>1, <2>3
    <2>7. OnTheWay'
      BY <1>4, <2>1, <2>3 DEF Encode
    <2> QED
      BY <2>4, <2>5, <2>6, <2>7
  <1>5. ASSUME NEW c \in Calls, EncodeError(c)
       PROVE  Goal
    BY <1>5 DEF EncodeError
  <1>6. ASSUME NEW c \in Users \cup Pings, CtxDone(c)
       PROVE  Goal
    BY <1>6 DEF CtxDone
  <1>7. ASSUME NEW c \in Users \cup Pings, Send(c)
       PROVE  Goal
    BY <1>7 DEF Send
  <1>8. ASSUME NEW c \in Users \cup Pings, SendExpire(c)
       PROVE  Goal
    BY <1>8 DEF SendExpire
  <1>9. ASSUME NEW c \in Users \cup Pings, Deliver(c)
       PROVE  Goal
    BY <1>9 DEF Deliver
  <1>10. ASSUME NEW c \in Users \cup Pings, DropResult(c)
       PROVE  Goal
    BY <1>10 DEF DropResult
  <1>11. ASSUME NEW c \in Users \cup Pings, HandlerDone(c)
       PROVE  Goal
    <2>0. stdout \in Seq(Calls) /\ c \in Calls /\ stdout' = Append(stdout, c)
      BY <1>11 DEF HandlerDone
    <2>1. ToSet(stdout') = ToSet(stdout) \cup {c}
      BY <2>0, ToSetAppend
    <2> QED
      BY <1>11, <2>1 DEF HandlerDone
  <1>12. ASSUME NEW c \in Calls, Tell(c)
       PROVE  Goal
    BY <1>12 DEF Tell
  <1>32. ASSUME NEW c \in Calls, Visit(c)
       PROVE  Goal
    BY <1>32 DEF Visit
  <1>13. ASSUME NEW d \in Disconnecters, Broadcast(d)
       PROVE  Goal
    BY <1>13 DEF Broadcast
  <1>14. ASSUME NEW d \in Disconnecters, SessionClose(d)
       PROVE  Goal
    BY <1>14 DEF SessionClose
  <1>15. ASSUME NEW d \in Disconnecters, ClientClose(d)
       PROVE  Goal
    <2>1. CASE link = "down"
      BY <1>15, <2>1 DEF ClientClose
    <2>2. CASE link # "down"
      <3>1. /\ stdin \in Seq(Calls) /\ stdin' \in Prefixes(stdin)
            /\ stdout \in Seq(Calls) /\ stdout' \in Prefixes(stdout)
            /\ link' = "down"
            /\ UNCHANGED <<pc, results, handlers, accepted, server, todo>>
            /\ disc'["all"] \in {"off", "calling"} => disc["all"] \in {"off", "calling"}
        BY <1>15, <2>2 DEF ClientClose, LoseLink
      <3>2. /\ ToSet(stdin') \subseteq ToSet(stdin) /\ ToSet(stdout') \subseteq ToSet(stdout)
            /\ Len(stdin') \in Nat /\ Len(stdin') <= Len(stdin)
            /\ \A i \in 1..Len(stdin') : stdin'[i] = stdin[i]
        BY <3>1, PrefixLemma
      <3>3. NotSentYet' /\ UnreadIsNew' /\ HandlersAccepted' /\ ResultsExecuted'
        BY <3>1, <3>2
      <3>4. SentOnce'
        <4>1. \A i \in 1..Len(stdin') : i \in 1..Len(stdin)
          BY <3>1, <3>2
        <4> QED
          BY <3>2, <4>1
      <3>5. NothingToTell' /\ OkIsOwnResult' /\ OnTheWay'
        BY <3>1
      <3> QED
        BY <3>3, <3>4, <3>5
    <2> QED
      BY <2>1, <2>2
  <1>16. ASSUME NEW d \in Disconnecters, Disconnect(d)
       PROVE  Goal
    BY <1>16 DEF Disconnect
  <1>17. ASSUME BroadcastWait
       PROVE  Goal
    BY <1>17 DEF BroadcastWait
  <1>18. ASSUME TellDone
       PROVE  Goal
    BY <1>18 DEF TellDone
  <1>19. ASSUME Join
       PROVE  Goal
    BY <1>19 DEF Join
  <1>20. ASSUME Decode
       PROVE  Goal
    <2>1. ToSet(stdout) = ToSet(stdout') \cup {Head(stdout)}
      BY <1>20, ToSetTail DEF Decode
    <2> QED
      BY <1>20, <2>1 DEF Decode
  <1>21. ASSUME DecodeEOF
       PROVE  Goal
    BY <1>21 DEF DecodeEOF
  <1>22. ASSUME DecodeStop
       PROVE  Goal
    BY <1>22 DEF DecodeStop
  <1>23. ASSUME ConnectDone
       PROVE  Goal
    BY <1>23 DEF ConnectDone
  <1>24. ASSUME Heartbeat
       PROVE  Goal
    BY <1>24 DEF Heartbeat
  <1>25. ASSUME HeartbeatOk
       PROVE  Goal
    BY <1>25 DEF HeartbeatOk
  <1>26. ASSUME HeartbeatFailed
       PROVE  Goal
    BY <1>26 DEF HeartbeatFailed
  <1>27. ASSUME HeartbeatStop
       PROVE  Goal
    BY <1>27 DEF HeartbeatStop
  <1>28. ASSUME ServerRead
       PROVE  Goal
    <2>1. /\ stdin \in Seq(Calls) /\ stdin # <<>> /\ stdin' = Tail(stdin)
          /\ UNCHANGED <<pc, stdout, results, link, disc, todo>>
      BY <1>28 DEF ServerRead
    <2>2. /\ ToSet(stdin) = ToSet(stdin') \cup {Head(stdin)}
          /\ Head(stdin) \in Calls /\ stdin' \in Seq(Calls)
      BY <2>1, ToSetTail
    <2>3. Head(stdin) \in Users => Head(stdin) \notin ToSet(stdin')
      <3>1. /\ Head(stdin) = stdin[1] /\ Len(stdin) \in Nat /\ Len(stdin') = Len(stdin) - 1
            /\ \A i \in 1..Len(stdin') : stdin'[i] = stdin[i + 1] /\ i + 1 \in 1..Len(stdin)
        BY <2>1
      <3>2. \A x \in ToSet(stdin') : \E i \in 1..Len(stdin') : stdin'[i] = x
        BY <2>2, InToSet
      <3>3. \A i \in 1..Len(stdin') : stdin[1] \in Users => stdin[i + 1] # stdin[1]
        BY <3>1
      <3> QED
        BY <3>1, <3>2, <3>3
    <2>4. SentOnce'
      <3>1. /\ Len(stdin) \in Nat /\ Len(stdin') = Len(stdin) - 1
            /\ \A i \in 1..Len(stdin') : stdin'[i] = stdin[i + 1] /\ i + 1 \in 1..Len(stdin)
        BY <2>1
      <3> QED
        BY <3>1
    <2>5. \/ /\ Head(stdin) \in Disconnecters /\ UNCHANGED <<handlers, accepted>>
             /\ server' = "closing"
          \/ /\ handlers' = handlers \cup {Head(stdin)}
             /\ accepted' = accepted \cup ({Head(stdin)} \cap Users)
             /\ UNCHANGED server
      BY <1>28 DEF ServerRead
    <2>6. Head(stdin) \in Users => Head(stdin) \notin accepted
      BY <2>2
    <2>7. NotSentYet' /\ UnreadIsNew'
      BY <2>1, <2>2, <2>3, <2>5
    <2>8. HandlersAccepted' /\ ResultsExecuted' /\ OkIsOwnResult' /\ NothingToTell'
      BY <2>1, <2>2, <2>5, <2>6
    <2>9. OnTheWay'
      BY <1>28, <2>1, <2>5 DEF ServerRead
    <2> QED
      BY <2>4, <2>7, <2>8, <2>9
  <1>29. ASSUME ServerExit
       PROVE  Goal
    BY <1>29 DEF ServerExit
  <1>30. ASSUME ServerCrash
       PROVE  Goal
    BY <1>30 DEF ServerCrash
  <1>31. ASSUME Break
       PROVE  Goal
    <2>1. /\ stdin \in Seq(Calls) /\ stdin' \in Prefixes(stdin)
          /\ stdout \in Seq(Calls) /\ stdout' \in Prefixes(stdout)
          /\ link' = "down"
          /\ UNCHANGED <<pc, results, handlers, accepted, server, todo>>
          /\ disc'["all"] \in {"off", "calling"} => disc["all"] \in {"off", "calling"}
      BY <1>31 DEF Break, LoseLink
    <2>2. /\ ToSet(stdin') \subseteq ToSet(stdin) /\ ToSet(stdout') \subseteq ToSet(stdout)
          /\ Len(stdin') \in Nat /\ Len(stdin') <= Len(stdin)
          /\ \A i \in 1..Len(stdin') : stdin'[i] = stdin[i]
      BY <2>1, PrefixLemma
    <2>3. NotSentYet' /\ UnreadIsNew' /\ HandlersAccepted' /\ ResultsExecuted'
      BY <2>1, <2>2
    <2>4. SentOnce'
      <3>1. \A i \in 1..Len(stdin') : i \in 1..Len(stdin)
        BY <2>1, <2>2
      <3> QED
        BY <2>2, <3>1
    <2>5. NothingToTell' /\ OkIsOwnResult' /\ OnTheWay'
      BY <2>1
    <2> QED
      BY <2>3, <2>4, <2>5
  <1>34. ASSUME Loop
       PROVE  Goal
    BY <1>34 DEF Loop
  <1>33. CASE UNCHANGED vars
    BY <1>33
  <1> HIDE DEF Goal, TypeOK, Goto, DiscGoto, MaybeVisited, Returned, Listening, Dead, vars, IInv
  <1> QED
    BY <1>1, <1>2, <1>3, <1>4, <1>5, <1>6, <1>7, <1>8, <1>9, <1>10, <1>11, <1>12,
       <1>13, <1>14, <1>15, <1>16, <1>17, <1>18, <1>19, <1>20, <1>21, <1>22, <1>23, <1>24,
       <1>25, <1>26, <1>27, <1>28, <1>29, <1>30, <1>31, <1>32, <1>33, <1>34
    DEF Next, EOFDisconnect, HeartbeatDisconnect, DisconnectAll

(* Running, RunLocal and the Close calls. *)
LEMMA ControlStep == IInv /\ [Next]_vars => DisconnectStops' /\ ClosesFirst'
  <1> DEFINE Goal == DisconnectStops' /\ ClosesFirst'
  <1> SUFFICES ASSUME IInv, [Next]_vars
               PROVE  Goal
    OBVIOUS
  <1> USE AgentAssumption DEF IInv, TypeOK, DisconnectStops, ClosesFirst,
          Goto, DiscGoto, MaybeVisited, Calls, Pings, Disconnecters, Outcomes, Returned, Listening,
          vars, callVars, pipeVars, localVars, discVars, rangeVars, serverVars
  <1>1. ASSUME NEW u \in Users, Begin(u)
       PROVE  Goal
    BY <1>1 DEF Begin
  <1>2. ASSUME NEW c \in Calls, Register(c)
       PROVE  Goal
    BY <1>2 DEF Register
  <1>3. ASSUME NEW c \in Calls, LockEncoder(c)
       PROVE  Goal
    BY <1>3 DEF LockEncoder
  <1>4. ASSUME NEW c \in Calls, Encode(c)
       PROVE  Goal
    BY <1>4 DEF Encode
  <1>5. ASSUME NEW c \in Calls, EncodeError(c)
       PROVE  Goal
    BY <1>5 DEF EncodeError
  <1>6. ASSUME NEW c \in Users \cup Pings, CtxDone(c)
       PROVE  Goal
    BY <1>6 DEF CtxDone
  <1>7. ASSUME NEW c \in Users \cup Pings, Send(c)
       PROVE  Goal
    BY <1>7 DEF Send
  <1>8. ASSUME NEW c \in Users \cup Pings, SendExpire(c)
       PROVE  Goal
    BY <1>8 DEF SendExpire
  <1>9. ASSUME NEW c \in Users \cup Pings, Deliver(c)
       PROVE  Goal
    BY <1>9 DEF Deliver
  <1>10. ASSUME NEW c \in Users \cup Pings, DropResult(c)
       PROVE  Goal
    BY <1>10 DEF DropResult
  <1>11. ASSUME NEW c \in Users \cup Pings, HandlerDone(c)
       PROVE  Goal
    BY <1>11 DEF HandlerDone
  <1>12. ASSUME NEW c \in Calls, Tell(c)
       PROVE  Goal
    BY <1>12 DEF Tell
  <1>32. ASSUME NEW c \in Calls, Visit(c)
       PROVE  Goal
    BY <1>32 DEF Visit
  <1>13. ASSUME NEW d \in Disconnecters, Broadcast(d)
       PROVE  Goal
    BY <1>13 DEF Broadcast
  <1>14. ASSUME NEW d \in Disconnecters, SessionClose(d)
       PROVE  Goal
    BY <1>14 DEF SessionClose
  <1>15. ASSUME NEW d \in Disconnecters, ClientClose(d)
       PROVE  Goal
    BY <1>15 DEF ClientClose, LoseLink
  <1>16. ASSUME NEW d \in Disconnecters, Disconnect(d)
       PROVE  Goal
    BY <1>16 DEF Disconnect
  <1>17. ASSUME BroadcastWait
       PROVE  Goal
    BY <1>17 DEF BroadcastWait
  <1>18. ASSUME TellDone
       PROVE  Goal
    BY <1>18 DEF TellDone
  <1>19. ASSUME Join
       PROVE  Goal
    BY <1>19 DEF Join
  <1>20. ASSUME Decode
       PROVE  Goal
    BY <1>20 DEF Decode
  <1>21. ASSUME DecodeEOF
       PROVE  Goal
    BY <1>21 DEF DecodeEOF
  <1>22. ASSUME DecodeStop
       PROVE  Goal
    BY <1>22 DEF DecodeStop
  <1>23. ASSUME ConnectDone
       PROVE  Goal
    BY <1>23 DEF ConnectDone
  <1>24. ASSUME Heartbeat
       PROVE  Goal
    BY <1>24 DEF Heartbeat
  <1>25. ASSUME HeartbeatOk
       PROVE  Goal
    BY <1>25 DEF HeartbeatOk
  <1>26. ASSUME HeartbeatFailed
       PROVE  Goal
    BY <1>26 DEF HeartbeatFailed
  <1>27. ASSUME HeartbeatStop
       PROVE  Goal
    BY <1>27 DEF HeartbeatStop
  <1>28. ASSUME ServerRead
       PROVE  Goal
    BY <1>28 DEF ServerRead
  <1>29. ASSUME ServerExit
       PROVE  Goal
    BY <1>29 DEF ServerExit
  <1>30. ASSUME ServerCrash
       PROVE  Goal
    BY <1>30 DEF ServerCrash
  <1>31. ASSUME Break
       PROVE  Goal
    BY <1>31 DEF Break, LoseLink
  <1>34. ASSUME Loop
       PROVE  Goal
    BY <1>34 DEF Loop
  <1>33. CASE UNCHANGED vars
    BY <1>33
  <1> HIDE DEF Goal, TypeOK, Goto, DiscGoto, MaybeVisited, Returned, Listening, vars, IInv
  <1> QED
    BY <1>1, <1>2, <1>3, <1>4, <1>5, <1>6, <1>7, <1>8, <1>9, <1>10, <1>11, <1>12,
       <1>13, <1>14, <1>15, <1>16, <1>17, <1>18, <1>19, <1>20, <1>21, <1>22, <1>23, <1>24,
       <1>25, <1>26, <1>27, <1>28, <1>29, <1>30, <1>31, <1>32, <1>33, <1>34
    DEF Next, EOFDisconnect, HeartbeatDisconnect, DisconnectAll

(* A step that brings nothing to the server, in which no Disconnect looks  *)
(* and that leaves every call told that was.                               *)
Quiet ==
  /\ UNCHANGED <<stdin, accepted>>
  /\ server' = "up" => server = "up"
  /\ link' = "up" => link = "up"
  /\ Looked' => Looked
  /\ server' = "up" /\ link' = "up" => \A d \in Disconnecters : Returned(d)' => Returned(d)
  /\ \A u \in Users : pc[u] \in {"waiting"} \cup Outcomes /\ Told(u) => Told(u)'

LEMMA QuietStep ==
  ASSUME IInv, Quiet
  PROVE  CloseIsWritten' /\ AcceptedAreTold' /\ UnreadAreTold'
  <1> USE DEF Quiet, IInv
  <1>1. CloseIsWritten'
    BY DEF CloseIsWritten
  <1>2. \A u \in Users : u \in accepted \cup ToSet(stdin) => pc[u] \in {"waiting"} \cup Outcomes
    BY DEF TypeOK, NotSentYet, Calls
  <1>3. AcceptedAreTold'
    BY <1>2 DEF AcceptedAreTold, TypeOK
  <1>4. \A j \in 1..Len(stdin) : stdin[j] \in ToSet(stdin)
    BY InToSet DEF TypeOK
  <1>5. UnreadAreTold'
    BY <1>2, <1>4 DEF UnreadAreTold
  <1> QED
    BY <1>1, <1>3, <1>5

(* When a Disconnect looks, every call that was written is in flight or    *)
(* has returned.                                                           *)
LEMMA LookStep ==
  ASSUME IInv, UNCHANGED <<pc, stdin, accepted, server, link>>,
         NEW d \in Disconnecters, Returned(d),
         \A u \in Users : Told(u) \/ pc[u] = "waiting" => Told(u)'
  PROVE  CloseIsWritten' /\ AcceptedAreTold' /\ UnreadAreTold'
  <1> USE DEF IInv
  <1>1. CloseIsWritten'
    BY DEF CloseIsWritten, Returned
  <1>2. \A u \in Users : u \in accepted \cup ToSet(stdin) => pc[u] \in {"waiting"} \cup Outcomes
    BY DEF TypeOK, NotSentYet, Calls
  <1>3. \A u \in Users : u \in accepted \cup ToSet(stdin) => Told(u)'
    BY <1>2 DEF Told, Returned
  <1>4. AcceptedAreTold'
    BY <1>3 DEF AcceptedAreTold, TypeOK
  <1>5. \A j \in 1..Len(stdin) : stdin[j] \in ToSet(stdin)
    BY InToSet DEF TypeOK
  <1>6. UnreadAreTold'
    BY <1>3, <1>5 DEF UnreadAreTold
  <1> QED
    BY <1>1, <1>4, <1>6

(* What the link still brings is a prefix of what was on its way.          *)
LEMMA LoseStep ==
  ASSUME IInv, LoseLink, UNCHANGED <<pc, accepted, server, senders, todo>>, Looked' => Looked
  PROVE  CloseIsWritten' /\ AcceptedAreTold' /\ UnreadAreTold'
  <1> USE DEF IInv, LoseLink
  <1>1. stdin \in Seq(Calls)
    BY DEF TypeOK
  <1>2. /\ Len(stdin') \in Nat /\ Len(stdin') <= Len(stdin) /\ Len(stdin) \in Nat
        /\ \A i \in 1..Len(stdin') : stdin'[i] = stdin[i]
    BY <1>1, PrefixLemma
  <1>3. \A c \in Calls : Told(c)' <=> Told(c)
    BY DEF Told, Returned
  <1>4. CloseIsWritten'
    BY DEF CloseIsWritten
  <1>5. AcceptedAreTold'
    BY <1>3 DEF AcceptedAreTold, TypeOK, Calls
  <1>6. UnreadAreTold'
    <2> SUFFICES ASSUME Looked', server' = "up", NEW j \in 1..Len(stdin'),
                        NEW x \in Users, x = stdin'[j]
                 PROVE  Told(x)' \/ \E i \in 1..j : stdin'[i] \in Disconnecters
      BY DEF UnreadAreTold
    <2>1. j \in 1..Len(stdin) /\ stdin[j] = x /\ x \in Calls
      BY <1>2 DEF Calls
    <2>2. Told(x) \/ \E i \in 1..j : stdin[i] \in Disconnecters
      BY <2>1 DEF UnreadAreTold
    <2>3. \A i \in 1..j : i \in 1..Len(stdin')
      BY <1>2
    <2>4. CASE Told(x)
      BY <1>3, <2>1, <2>4
    <2>5. CASE \E i \in 1..j : stdin[i] \in Disconnecters
      BY <1>2, <2>3, <2>5
    <2> QED
      BY <2>2, <2>4, <2>5
  <1> QED
    BY <1>4, <1>5, <1>6

(* Every step keeps the calls told. *)
LEMMA ToldStep == IInv /\ [Next]_vars => CloseIsWritten' /\ AcceptedAreTold' /\ UnreadAreTold'
  <1> DEFINE Goal == CloseIsWritten' /\ AcceptedAreTold' /\ UnreadAreTold'
  <1> SUFFICES ASSUME IInv, [Next]_vars
               PROVE  Goal
    OBVIOUS
  <1>0. TypeOK /\ ClosesFirst /\ NothingToTell
    BY DEF IInv
  <1> USE <1>0, AgentAssumption DEF TypeOK, ClosesFirst, Quiet, Looked, Told,
          Goto, DiscGoto, MaybeVisited, Calls, Pings, Disconnecters, Outcomes, Returned, Listening, Dead,
          vars, callVars, pipeVars, localVars, discVars, rangeVars, serverVars
  <1> HIDE DEF Goal
  <1>1. ASSUME NEW u \in Users, Begin(u)
       PROVE  Goal
    <2>1. Quiet
      BY <1>1 DEF Begin
    <2> QED
      BY <2>1, QuietStep DEF Goal
  <1>2. ASSUME NEW c \in Calls, Register(c)
       PROVE  Goal
    <2>1. Quiet
      BY <1>2 DEF Register
    <2> QED
      BY <2>1, QuietStep DEF Goal
  <1>3. ASSUME NEW c \in Calls, LockEncoder(c)
       PROVE  Goal
    <2>1. Quiet
      BY <1>3 DEF LockEncoder
    <2> QED
      BY <2>1, QuietStep DEF Goal
  <1>4. ASSUME NEW c \in Calls, Encode(c)
       PROVE  Goal
    <2> HIDE DEF Looked, Told
    <2>1. /\ c \in Calls /\ stdin \in Seq(Calls)
          /\ stdin' = Append(stdin, c) /\ pc[c] = "encoding" /\ link = "up"
          /\ pc' = [pc EXCEPT ![c] = IF c \in Disconnecters THEN "sent" ELSE "waiting"]
          /\ UNCHANGED <<link, accepted, server, disc, todo, senders>>
      BY <1>4 DEF Encode
    <2>2. /\ Len(stdin') = Len(stdin) + 1 /\ Len(stdin) \in Nat
          /\ \A k \in 1..Len(stdin) : stdin'[k] = stdin[k]
          /\ stdin'[Len(stdin) + 1] = c
      BY <2>1
    <2>3. \A u \in Users : u # c => (Told(u)' <=> Told(u))
      BY <2>1 DEF Told
    <2>4. c \notin accepted /\ (c \in Users => c \notin ToSet(stdin))
      BY <2>1 DEF IInv, NotSentYet
    <2>5. Looked' <=> Looked
      BY <2>1 DEF Looked
    <2>6. AcceptedAreTold'
      BY <2>1, <2>3, <2>4, <2>5 DEF IInv, AcceptedAreTold
    <2>7. ASSUME server = "up", Looked \/ c \in Disconnecters \/ \E d \in Disconnecters : Returned(d)
          PROVE  \E i \in 1..Len(stdin') : stdin'[i] \in Disconnecters
      <3>1. CASE c \in Disconnecters
        <4>1. Len(stdin) + 1 \in 1..Len(stdin')
          BY <2>2
        <4> QED
          BY <2>2, <3>1, <4>1
      <3>2. CASE c \notin Disconnecters
        <4>1. \E d \in Disconnecters : Returned(d)
          BY <2>7, <3>2 DEF Looked
        <4>2. PICK i \in 1..Len(stdin) : stdin[i] \in Disconnecters
          BY <2>1, <2>7, <4>1 DEF IInv, CloseIsWritten
        <4>3. i \in 1..Len(stdin')
          BY <2>2
        <4> QED
          BY <2>2, <4>2, <4>3
      <3> QED
        BY <3>1, <3>2
    <2>8. CloseIsWritten'
      <3>1. \A d \in Disconnecters : Returned(d)' => d = c \/ Returned(d)
        BY <2>1
      <3> QED
        BY <2>1, <2>7, <3>1 DEF CloseIsWritten
    <2>9. UnreadAreTold'
      <3> SUFFICES ASSUME Looked', server' = "up", NEW j \in 1..Len(stdin'),
                          NEW x \in Users, x = stdin'[j]
                   PROVE  Told(x)' \/ \E i \in 1..j : stdin'[i] \in Disconnecters
        BY DEF UnreadAreTold
      <3>1. CASE j = Len(stdin')
        <4>1. \E i \in 1..Len(stdin') : stdin'[i] \in Disconnecters
          BY <2>1, <2>5, <2>7
        <4> QED
          BY <3>1, <4>1
      <3>2. CASE j # Len(stdin')
        <4>1. j \in 1..Len(stdin) /\ stdin[j] = x
          BY <2>2, <3>2
        <4>2. x \in ToSet(stdin)
          BY <2>1, <4>1, InToSet
        <4>3. Told(x) \/ \E i \in 1..j : stdin[i] \in Disconnecters
          BY <2>1, <2>5, <4>1 DEF IInv, UnreadAreTold
        <4>4. Told(x) => Told(x)'
          BY <2>3, <2>4, <4>2
        <4>5. \A i \in 1..j : stdin'[i] = stdin[i]
          BY <2>2, <4>1
        <4> QED
          BY <4>3, <4>4, <4>5
      <3> QED
        BY <3>1, <3>2
    <2> QED
      BY <2>6, <2>8, <2>9 DEF Goal
  <1>5. ASSUME NEW c \in Calls, EncodeError(c)
       PROVE  Goal
    <2>1. Quiet
      BY <1>5 DEF EncodeError
    <2> QED
      BY <2>1, QuietStep DEF Goal
  <1>6. ASSUME NEW c \in Users \cup Pings, CtxDone(c)
       PROVE  Goal
    <2>1. Quiet
      BY <1>6 DEF CtxDone
    <2> QED
      BY <2>1, QuietStep DEF Goal
  <1>7. ASSUME NEW c \in Users \cup Pings, Send(c)
       PROVE  Goal
    <2>1. Quiet
      BY <1>7 DEF Send
    <2> QED
      BY <2>1, QuietStep DEF Goal
  <1>8. ASSUME NEW c \in Users \cup Pings, SendExpire(c)
       PROVE  Goal
    <2>1. Quiet
      BY <1>8 DEF SendExpire
    <2> QED
      BY <2>1, QuietStep DEF Goal
  <1>9. ASSUME NEW c \in Users \cup Pings, Deliver(c)
       PROVE  Goal
    <2>1. Quiet
      BY <1>9 DEF Deliver
    <2> QED
      BY <2>1, QuietStep DEF Goal
  <1>10. ASSUME NEW c \in Users \cup Pings, DropResult(c)
       PROVE  Goal
    <2>1. Quiet
      BY <1>10 DEF DropResult
    <2> QED
      BY <2>1, QuietStep DEF Goal
  <1>11. ASSUME NEW c \in Users \cup Pings, HandlerDone(c)
       PROVE  Goal
    <2>1. Quiet
      BY <1>11 DEF HandlerDone
    <2> QED
      BY <2>1, QuietStep DEF Goal
  <1>12. ASSUME NEW c \in Calls, Tell(c)
       PROVE  Goal
    <2>1. Quiet
      BY <1>12 DEF Tell
    <2> QED
      BY <2>1, QuietStep DEF Goal
  <1>32. ASSUME NEW c \in Calls, Visit(c)
       PROVE  Goal
    <2>1. Quiet
      BY <1>32 DEF Visit
    <2> QED
      BY <2>1, QuietStep DEF Goal
  <1>13. ASSUME NEW d \in Disconnecters, Broadcast(d)
       PROVE  Goal
    <2>1. /\ UNCHANGED <<pc, stdin, accepted, server, link>> /\ Returned(d)
          /\ \A u \in Users : Told(u) \/ pc[u] = "waiting" => Told(u)'
      BY <1>13 DEF Broadcast
    <2> QED
      BY <2>1, LookStep DEF Goal
  <1>14. ASSUME NEW d \in Disconnecters, SessionClose(d)
       PROVE  Goal
    <2>1. Quiet
      BY <1>14 DEF SessionClose
    <2> QED
      BY <2>1, QuietStep DEF Goal
  <1>15. ASSUME NEW d \in Disconnecters, ClientClose(d)
       PROVE  Goal
    <2>1. UNCHANGED <<pc, accepted, server, senders, todo>> /\ (Looked' => Looked)
      BY <1>15 DEF ClientClose
    <2>2. CASE link = "down"
      <3>1. Quiet
        BY <1>15, <2>1, <2>2 DEF ClientClose
      <3> QED
        BY <3>1, QuietStep DEF Goal
    <2>3. CASE link # "down"
      BY <1>15, <2>1, <2>3, LoseStep DEF ClientClose, Goal
    <2> QED
      BY <2>2, <2>3
  <1>16. ASSUME NEW d \in Disconnecters, Disconnect(d)
       PROVE  Goal
    <2>1. Quiet
      BY <1>16 DEF Disconnect
    <2> QED
      BY <2>1, QuietStep DEF Goal
  <1>17. ASSUME BroadcastWait
       PROVE  Goal
    <2>1. todo = {}
      BY <1>17 DEF BroadcastWait, NothingToTell
    <2>2. /\ UNCHANGED <<pc, stdin, accepted, server, link>> /\ Returned("all")
          /\ \A u \in Users : Told(u) \/ pc[u] = "waiting" => Told(u)'
      BY <1>17, <2>1 DEF BroadcastWait
    <2> QED
      BY <2>2, LookStep DEF Goal
  <1>18. ASSUME TellDone
       PROVE  Goal
    <2>1. Quiet
      BY <1>18 DEF TellDone
    <2> QED
      BY <2>1, QuietStep DEF Goal
  <1>19. ASSUME Join
       PROVE  Goal
    <2>1. Quiet
      BY <1>19 DEF Join
    <2> QED
      BY <2>1, QuietStep DEF Goal
  <1>20. ASSUME Decode
       PROVE  Goal
    <2>1. Quiet
      BY <1>20 DEF Decode
    <2> QED
      BY <2>1, QuietStep DEF Goal
  <1>21. ASSUME DecodeEOF
       PROVE  Goal
    <2>1. Quiet
      BY <1>21 DEF DecodeEOF
    <2> QED
      BY <2>1, QuietStep DEF Goal
  <1>22. ASSUME DecodeStop
       PROVE  Goal
    <2>1. Quiet
      BY <1>22 DEF DecodeStop
    <2> QED
      BY <2>1, QuietStep DEF Goal
  <1>23. ASSUME ConnectDone
       PROVE  Goal
    <2>1. Quiet
      BY <1>23 DEF ConnectDone
    <2> QED
      BY <2>1, QuietStep DEF Goal
  <1>24. ASSUME Heartbeat
       PROVE  Goal
    <2>1. Quiet
      BY <1>24 DEF Heartbeat
    <2> QED
      BY <2>1, QuietStep DEF Goal
  <1>25. ASSUME HeartbeatOk
       PROVE  Goal
    <2>1. Quiet
      BY <1>25 DEF HeartbeatOk
    <2> QED
      BY <2>1, QuietStep DEF Goal
  <1>26. ASSUME HeartbeatFailed
       PROVE  Goal
    <2>1. Quiet
      BY <1>26 DEF HeartbeatFailed
    <2> QED
      BY <2>1, QuietStep DEF Goal
  <1>27. ASSUME HeartbeatStop
       PROVE  Goal
    <2>1. Quiet
      BY <1>27 DEF HeartbeatStop
    <2> QED
      BY <2>1, QuietStep DEF Goal
  <1>28. ASSUME ServerRead
       PROVE  Goal
    <2> HIDE DEF Looked, Told
    <2>1. /\ stdin \in Seq(Calls) /\ stdin # <<>> /\ stdin' = Tail(stdin) /\ server = "up"
          /\ UNCHANGED <<pc, link, disc, todo, senders>>
          /\ \/ Head(stdin) \in Disconnecters /\ accepted' = accepted /\ server' = "closing"
             \/ /\ Head(stdin) \notin Disconnecters /\ UNCHANGED server
                /\ accepted' = accepted \cup ({Head(stdin)} \cap Users)
      BY <1>28 DEF ServerRead
    <2>2. /\ Head(stdin) = stdin[1] /\ Len(stdin) \in Nat /\ Len(stdin) >= 1
          /\ Len(stdin') = Len(stdin) - 1
          /\ \A i \in 1..Len(stdin') : stdin'[i] = stdin[i + 1] /\ i + 1 \in 1..Len(stdin)
      BY <2>1
    <2>3. /\ Looked' <=> Looked
          /\ \A c : Told(c)' <=> Told(c)
      BY <2>1 DEF Looked, Told
    <2>4. \A i \in 1..Len(stdin) : i # 1 => i - 1 \in 1..Len(stdin') /\ stdin'[i - 1] = stdin[i]
      BY <2>2
    <2>5. CloseIsWritten'
      <3> SUFFICES ASSUME server' = "up", link' = "up", \E d \in Disconnecters : Returned(d)'
                   PROVE  \E i \in 1..Len(stdin') : stdin'[i] \in Disconnecters
        BY DEF CloseIsWritten
      <3>1. PICK i \in 1..Len(stdin) : stdin[i] \in Disconnecters
        BY <2>1 DEF IInv, CloseIsWritten
      <3>2. i # 1
        BY <2>1, <2>2, <3>1
      <3> QED
        BY <2>4, <3>1, <3>2
    <2>6. AcceptedAreTold'
      <3> SUFFICES ASSUME Looked', NEW c \in accepted'
                   PROVE  Told(c)'
        BY DEF AcceptedAreTold
      <3>1. CASE c \in accepted
        BY <2>3, <3>1 DEF IInv, AcceptedAreTold
      <3>2. CASE c \notin accepted
        <4>0. c \in accepted'
          OBVIOUS
        <4>1. c = stdin[1] /\ c \in Users
          BY <2>1, <2>2, <3>2, <4>0
        <4>2. Told(c) \/ \E i \in 1..1 : stdin[i] \in Disconnecters
          <5>1. 1 \in 1..Len(stdin)
            BY <2>2
          <5> QED
            BY <2>1, <2>3, <4>1, <5>1 DEF IInv, UnreadAreTold
        <4>3. c \notin Disconnecters
          BY <4>1
        <4> QED
          BY <2>3, <4>1, <4>2, <4>3
      <3> QED
        BY <3>1, <3>2
    <2>7. UnreadAreTold'
      <3> SUFFICES ASSUME Looked', server' = "up", NEW j \in 1..Len(stdin'),
                          NEW x \in Users, x = stdin'[j]
                   PROVE  Told(x)' \/ \E i \in 1..j : stdin'[i] \in Disconnecters
        BY DEF UnreadAreTold
      <3>1. x = stdin[j + 1] /\ j + 1 \in 1..Len(stdin)
        BY <2>2
      <3>2. Told(x) \/ \E i \in 1..j + 1 : stdin[i] \in Disconnecters
        BY <2>1, <2>3, <3>1 DEF IInv, UnreadAreTold
      <3>3. CASE Told(x)
        BY <2>3, <3>3
      <3>4. ASSUME NEW i \in 1..j + 1, stdin[i] \in Disconnecters
            PROVE  \E k \in 1..j : stdin'[k] \in Disconnecters
        <4>1. i # 1
          BY <2>1, <2>2, <3>4
        <4>2. i \in 1..Len(stdin) /\ i - 1 \in 1..j
          BY <3>1, <4>1
        <4> QED
          BY <2>4, <3>4, <4>1, <4>2
      <3> QED
        BY <3>2, <3>3, <3>4
    <2> QED
      BY <2>5, <2>6, <2>7 DEF Goal
  <1>29. ASSUME ServerExit
       PROVE  Goal
    <2>1. Quiet
      BY <1>29 DEF ServerExit
    <2> QED
      BY <2>1, QuietStep DEF Goal
  <1>30. ASSUME ServerCrash
       PROVE  Goal
    <2>1. Quiet
      BY <1>30 DEF ServerCrash
    <2> QED
      BY <2>1, QuietStep DEF Goal
  <1>31. ASSUME Break
       PROVE  Goal
    <2>1. LoseLink /\ UNCHANGED <<pc, accepted, server, senders, todo>> /\ (Looked' => Looked)
      BY <1>31 DEF Break
    <2> QED
      BY <2>1, LoseStep DEF Goal
  <1>34. ASSUME Loop
       PROVE  Goal
    <2>1. Quiet
      BY <1>34 DEF Loop
    <2> QED
      BY <2>1, QuietStep DEF Goal
  <1>33. CASE UNCHANGED vars
    <2>1. Quiet
      BY <1>33
    <2> QED
      BY <2>1, QuietStep DEF Goal
  <1> HIDE DEF TypeOK, Goto, DiscGoto, MaybeVisited, Returned, Listening, vars, IInv
  <1> QED
    BY <1>1, <1>2, <1>3, <1>4, <1>5, <1>6, <1>7, <1>8, <1>9, <1>10, <1>11, <1>12,
       <1>13, <1>14, <1>15, <1>16, <1>17, <1>18, <1>19, <1>20, <1>21, <1>22, <1>23, <1>24,
       <1>25, <1>26, <1>27, <1>28, <1>29, <1>30, <1>31, <1>32, <1>33, <1>34
    DEF Next, EOFDisconnect, HeartbeatDisconnect, DisconnectAll

LEMMA InitInv == Init => IInv
  <1> SUFFICES ASSUME Init
               PROVE  IInv
    OBVIOUS
  <1> USE AgentAssumption DEF Init
  <1>1. stdin \in Seq(Calls) /\ Len(stdin) = 0 /\ stdout \in Seq(Calls) /\ Len(stdout) = 0
    OBVIOUS
  <1>2. ToSet(stdin) = {} /\ ToSet(stdout) = {}
    BY <1>1 DEF ToSet
  <1>3. TypeOK
    <2>1. /\ pc \in [Calls -> {"idle", "ready", "registered", "encoding", "waiting"} \cup Outcomes]
          /\ disc \in [Disconnecters -> {"off", "calling", "telling", "session", "client", "joining", "done"}]
      OBVIOUS
    <2>2. /\ stdin \in Seq(Calls) /\ Len(stdin) <= PipeSize
          /\ stdout \in Seq(Calls) /\ Len(stdout) <= PipeSize
      BY <1>1
    <2> QED
      BY <2>1, <2>2 DEF TypeOK
  <1>4. SentOnce
    BY <1>1 DEF SentOnce
  <1> QED
    BY <1>2, <1>3, <1>4 DEF IInv, NotSentYet, UnreadIsNew, HandlersAccepted, ResultsExecuted,
       NothingToTell, OkIsOwnResult, OnTheWay, DisconnectStops, ClosesFirst, CloseIsWritten,
       AcceptedAreTold, UnreadAreTold, Looked, Returned, Outcomes, Calls, Pings, Disconnecters

-----------------------------------------------------------------------------
(* The inductive invariant holds in every reachable state.                 *)
THEOREM ConnectionInvariant == SafetySpec => []IInv
  <1>1. IInv /\ [Next]_vars => IInv'
    <2>1. IInv /\ [Next]_vars => TypeOK'
      BY TypeStep DEF IInv
    <2> QED
      BY <2>1, WayStep, ControlStep, ToldStep DEF IInv
  <1> QED
    BY InitInv, <1>1, PTL DEF SafetySpec

(* The agent's fields, the pipes and every goroutine keep their types; the *)
(* pipes never hold more than fits.                                        *)
THEOREM TypeCorrect == SafetySpec => []TypeOK
  <1>1. IInv => TypeOK
    BY DEF IInv
  <1> QED
    BY ConnectionInvariant, <1>1, PTL

(* A call that succeeds has got the result of its own execution, however   *)
(* results, deadlines, Disconnects, crashes and link failures interleave   *)
(* (RunLocal, Call).                                                       *)
THEOREM AnswersAreOwn == SafetySpec => []OkIsOwnResult
  <1>1. IInv => OkIsOwnResult
    BY DEF IInv
  <1> QED
    BY ConnectionInvariant, <1>1, PTL

(* No call the server has accepted is forgotten, whatever crashes or       *)
(* breaks: until it returns, somebody holds or still reads its result, or  *)
(* a Disconnect tells it or is about to (Server.Start, RunLocal,           *)
(* Disconnect).                                                            *)
THEOREM NothingIsLost == SafetySpec => []NoAnswerLost
  <1>1. ASSUME IInv
        PROVE  NoAnswerLost
    <2> USE <1>1 DEF IInv
    <2>1. ASSUME NEW c \in accepted, ~Returned(c), c \notin senders \cup todo,
                 \A d \in Disconnecters : disc[d] # "calling"
          PROVE  \/ c \in results
                 \/ local # "stopped" /\ \/ c \in handlers \cup ToSet(stdout)
                                         \/ server = "crashed" \/ link # "up"
      <3>1. ~Looked
        BY <2>1 DEF AcceptedAreTold, Told
      <3>2. \A d \in Disconnecters : disc[d] = "off"
        BY <2>1, <3>1 DEF Looked
      <3>3. local # "stopped"
        BY <3>2 DEF DisconnectStops
      <3> QED
        BY <2>1, <3>3 DEF OnTheWay
    <2> QED
      BY <2>1 DEF NoAnswerLost
  <1> QED
    BY ConnectionInvariant, <1>1, PTL

-----------------------------------------------------------------------------
(* Disconnect(wait=true) passes a call it found in flight, and so gets to  *)
(* closing the session, only once the call has returned (Disconnect).      *)
THEOREM NoneLeftBehind == SafetySpec => WaitLeavesNoneBehind
  <1> DEFINE AllReturned == \A c \in todo \ todo' : Returned(c)'
  <1>1. IInv /\ [Next]_vars => [AllReturned]_vars
    <2> SUFFICES ASSUME IInv, Next
                 PROVE  \A c \in todo \ todo' : Returned(c)'
      OBVIOUS
    <2>1. ASSUME NEW c \in Calls, Tell(c)
          PROVE  \A b \in todo \ todo' : Returned(b)'
      BY <2>1 DEF IInv, TypeOK, Tell, Returned, Outcomes
    <2>2. ASSUME BroadcastWait
          PROVE  todo \subseteq todo'
      BY <2>2 DEF IInv, NothingToTell, BroadcastWait, DiscGoto
    <2>3. CASE todo \subseteq todo'
      BY <2>3
    <2>4. ASSUME ~ (todo \subseteq todo')
          PROVE  BroadcastWait \/ \E c \in Calls : Tell(c)
      BY <2>4 DEF Next, pipeVars, callVars, localVars, discVars, rangeVars, serverVars, MaybeVisited, Visit,
         Begin, Register, LockEncoder, Encode, EncodeError, CtxDone, Send, SendExpire, Deliver,
         DropResult, HandlerDone, Broadcast, SessionClose, ClientClose, EOFDisconnect, HeartbeatDisconnect, DisconnectAll,
         Disconnect, TellDone, Join, Loop, Decode, DecodeEOF, DecodeStop, ConnectDone, Heartbeat, HeartbeatOk,
         HeartbeatFailed, HeartbeatStop, ServerRead, ServerExit, ServerCrash, Break
    <2> QED
      BY <2>1, <2>2, <2>3, <2>4
  <1> QED
    <2>1. [][AllReturned]_vars => WaitLeavesNoneBehind
      BY DEF WaitLeavesNoneBehind
    <2> HIDE DEF AllReturned
    <2> QED
      BY ConnectionInvariant, <1>1, <2>1, PTL DEF SafetySpec

-----------------------------------------------------------------------------
(* The refinement mapping of Promise, by its parts. *)

StatusOf(p) ==
  CASE p \in {"idle", "ready"} -> "idle"
    [] p \in {"registered", "encoding", "waiting"} -> "pending"
    [] p = "ok" -> "answered"
    [] OTHER -> "aborted"

status == [u \in Users |-> StatusOf(pc[u])]

executed == {u \in Users : u \in accepted \ handlers}

(* A step of the call c of the abstract specification. *)
AbstractStep(c, from, to) ==
  status[c] = from /\ status' = [status EXCEPT ![c] = to] /\ executed' = executed

LEMMA PromiseParts ==
  /\ Promise!vars = <<status, executed>>
  /\ \A c \in Users :
       /\ AbstractStep(c, "idle", "pending") => Promise!Next
       /\ AbstractStep(c, "pending", "aborted") => Promise!Next
       /\ c \in executed /\ AbstractStep(c, "pending", "answered") => Promise!Next
       /\ /\ status[c] \in {"pending", "aborted"} /\ c \notin executed
          /\ executed' = executed \cup {c} /\ status' = status
          => Promise!Next
  BY DEF Promise!vars, Promise!Next, Promise!Issue, Promise!GiveUp, Promise!Answer, Promise!Execute,
     Promise!Step, AbstractStep, StatusOf, status, executed

(* What a step of one call changes in the abstract state. *)
LEMMA OneCallMoves ==
  ASSUME TypeOK, NEW c \in Calls, NEW p, pc' = [pc EXCEPT ![c] = p]
  PROVE  /\ c \in Users => status' = [status EXCEPT ![c] = StatusOf(p)]
         /\ c \in Users => status[c] = StatusOf(pc[c])
         /\ c \notin Users => status' = status
         /\ StatusOf(p) = StatusOf(pc[c]) => status' = status
  <1>1. \A u \in Users : u \in Calls
    BY DEF Calls
  <1> QED
    BY <1>1 DEF TypeOK, status

(* The abstract steps of a caller, by the states its call goes through. *)
LEMMA CallerMoves ==
  ASSUME TypeOK, NEW c \in Users, executed' = executed
  PROVE  /\ pc[c] = "idle" /\ pc' = [pc EXCEPT ![c] = "ready"] => status' = status
         /\ pc[c] = "ready" /\ pc' = [pc EXCEPT ![c] = "registered"]
            => AbstractStep(c, "idle", "pending")
         /\ pc[c] = "registered" /\ pc' = [pc EXCEPT ![c] = "encoding"] => status' = status
         /\ pc[c] \in {"encoding", "waiting"} /\ pc' = [pc EXCEPT ![c] = "failed"]
            => AbstractStep(c, "pending", "aborted")
         /\ pc[c] = "waiting" /\ pc' = [pc EXCEPT ![c] = "ok"]
            => AbstractStep(c, "pending", "answered")
  <1>0. c \in Calls /\ \A u \in Users : u \in Calls
    BY DEF Calls
  <1>1. ASSUME pc[c] = "idle", pc' = [pc EXCEPT ![c] = "ready"]
        PROVE  status' = status
    BY <1>0, <1>1 DEF TypeOK, status, StatusOf
  <1>2. ASSUME pc[c] = "ready", pc' = [pc EXCEPT ![c] = "registered"]
        PROVE  AbstractStep(c, "idle", "pending")
    <2>1. status[c] = "idle"
      BY <1>2 DEF status, StatusOf
    <2>2. status' = [status EXCEPT ![c] = "pending"]
      BY <1>0, <1>2 DEF TypeOK, status, StatusOf
    <2> QED
      BY <2>1, <2>2 DEF AbstractStep
  <1>3. ASSUME pc[c] = "registered", pc' = [pc EXCEPT ![c] = "encoding"]
        PROVE  status' = status
    BY <1>0, <1>3 DEF TypeOK, status, StatusOf
  <1>4. ASSUME pc[c] \in {"encoding", "waiting"}, pc' = [pc EXCEPT ![c] = "failed"]
        PROVE  AbstractStep(c, "pending", "aborted")
    <2>1. status[c] = "pending"
      BY <1>4 DEF status, StatusOf
    <2>2. status' = [status EXCEPT ![c] = "aborted"]
      BY <1>0, <1>4 DEF TypeOK, status, StatusOf
    <2> QED
      BY <2>1, <2>2 DEF AbstractStep
  <1>5. ASSUME pc[c] = "waiting", pc' = [pc EXCEPT ![c] = "ok"]
        PROVE  AbstractStep(c, "pending", "answered")
    <2>1. status[c] = "pending"
      BY <1>5 DEF status, StatusOf
    <2>2. status' = [status EXCEPT ![c] = "answered"]
      BY <1>0, <1>5 DEF TypeOK, status, StatusOf
    <2> QED
      BY <2>1, <2>2 DEF AbstractStep
  <1> QED
    BY <1>1, <1>2, <1>3, <1>4, <1>5

(* Every step of a connection is a step of RemoteCalls or changes nothing  *)
(* of it.                                                                  *)
LEMMA PromiseStep == IInv /\ [Next]_vars => [Promise!Next]_(Promise!vars)
  <1> DEFINE Maps == Promise!Next \/ UNCHANGED <<status, executed>>
  <1>a. UNCHANGED <<status, executed>> => UNCHANGED Promise!vars
    BY DEF Promise!vars, status, executed, StatusOf
  <1> SUFFICES ASSUME IInv, [Next]_vars
               PROVE  Maps
    BY <1>a
  <1> USE AgentAssumption DEF IInv, Calls, Pings, Disconnecters,
          vars, callVars, pipeVars, localVars, discVars, rangeVars, serverVars
  <1>0. TypeOK /\ Users \subseteq Calls
    OBVIOUS
  <1>1. ASSUME NEW u \in Users, Begin(u)
       PROVE  Maps
    <2>1. pc[u] = "idle" /\ pc' = [pc EXCEPT ![u] = "ready"] /\ executed' = executed
      BY <1>1 DEF Begin, Goto, executed
    <2> QED
      BY <1>0, <2>1, CallerMoves
  <1>2. ASSUME NEW c \in Calls, Register(c)
       PROVE  Maps
    <2>1. pc[c] = "ready" /\ pc' = [pc EXCEPT ![c] = "registered"] /\ executed' = executed
      BY <1>2 DEF Register, Goto, executed
    <2>2. c \in Users => AbstractStep(c, "idle", "pending")
      BY <1>0, <2>1, CallerMoves
    <2>3. c \notin Users => status' = status
      BY <1>0, <1>2, <2>1, OneCallMoves
    <2> QED
      BY <2>1, <2>2, <2>3, PromiseParts
  <1>3. ASSUME NEW c \in Calls, LockEncoder(c)
       PROVE  Maps
    <2>1. pc[c] = "registered" /\ pc' = [pc EXCEPT ![c] = "encoding"] /\ executed' = executed
      BY <1>3 DEF LockEncoder, Goto, executed
    <2> QED
      BY <1>0, <1>3, <2>1, OneCallMoves, CallerMoves
  <1>4. ASSUME NEW c \in Calls, Encode(c)
       PROVE  Maps
    <2> DEFINE p == IF c \in Disconnecters THEN "sent" ELSE "waiting"
    <2>1. pc[c] = "encoding" /\ pc' = [pc EXCEPT ![c] = p] /\ executed' = executed
      BY <1>4 DEF Encode, Goto, executed
    <2>2. c \in Users => StatusOf(p) = StatusOf(pc[c])
      BY <2>1 DEF StatusOf
    <2> HIDE DEF p
    <2> QED
      BY <1>0, <1>4, <2>1, <2>2, OneCallMoves
  <1>5. ASSUME NEW c \in Calls, EncodeError(c)
       PROVE  Maps
    <2>1. pc[c] = "encoding" /\ pc' = [pc EXCEPT ![c] = "failed"] /\ executed' = executed
      BY <1>5 DEF EncodeError, Goto, executed
    <2>2. c \in Users => AbstractStep(c, "pending", "aborted")
      BY <1>0, <2>1, CallerMoves
    <2>3. c \notin Users => status' = status
      BY <1>0, <1>5, <2>1, OneCallMoves
    <2> QED
      BY <2>1, <2>2, <2>3, PromiseParts
  <1>6. ASSUME NEW c \in Users \cup Pings, CtxDone(c)
       PROVE  Maps
    <2>1. pc[c] = "waiting" /\ pc' = [pc EXCEPT ![c] = "failed"] /\ executed' = executed
      BY <1>6 DEF CtxDone, Goto, executed
    <2>2. c \in Users => AbstractStep(c, "pending", "aborted")
      BY <1>0, <2>1, CallerMoves
    <2>3. c \notin Users => status' = status
      BY <1>0, <1>6, <2>1, OneCallMoves
    <2> QED
      BY <2>1, <2>2, <2>3, PromiseParts
  <1>7. ASSUME NEW c \in Users \cup Pings, Send(c)
       PROVE  Maps
    <2>1. pc[c] = "waiting" /\ pc' = [pc EXCEPT ![c] = "failed"] /\ executed' = executed
      BY <1>7 DEF Send, Goto, executed
    <2>2. c \in Users => AbstractStep(c, "pending", "aborted")
      BY <1>0, <2>1, CallerMoves
    <2>3. c \notin Users => status' = status
      BY <1>0, <1>7, <2>1, OneCallMoves
    <2> QED
      BY <2>1, <2>2, <2>3, PromiseParts
  <1>8. ASSUME NEW c \in Users \cup Pings, SendExpire(c)
       PROVE  Maps
    BY <1>8 DEF SendExpire, status, executed
  <1>9. ASSUME NEW c \in Users \cup Pings, Deliver(c)
       PROVE  Maps
    <2>1. pc[c] = "waiting" /\ pc' = [pc EXCEPT ![c] = "ok"] /\ executed' = executed
      BY <1>9 DEF Deliver, Goto, executed
    <2>2. c \in Users => c \in executed
      BY <1>9 DEF Deliver, ResultsExecuted, executed
    <2>3. c \in Users => AbstractStep(c, "pending", "answered")
      BY <1>0, <2>1, CallerMoves
    <2>4. c \notin Users => status' = status
      BY <1>0, <1>9, <2>1, OneCallMoves
    <2> QED
      BY <2>1, <2>2, <2>3, <2>4, PromiseParts
  <1>10. ASSUME NEW c \in Users \cup Pings, DropResult(c)
       PROVE  Maps
    BY <1>10 DEF DropResult, status, executed
  <1>11. ASSUME NEW c \in Users \cup Pings, HandlerDone(c)
       PROVE  Maps
    <2>1. status' = status
      BY <1>11 DEF HandlerDone, status
    <2>2. c \notin Users => executed' = executed
      BY <1>11 DEF HandlerDone, executed
    <2>3. ASSUME c \in Users
          PROVE  /\ status[c] \in {"pending", "aborted"}
                 /\ c \notin executed /\ executed' = executed \cup {c}
      <3>1. c \in handlers /\ c \in accepted
        BY <1>11, <2>3 DEF HandlerDone, HandlersAccepted
      <3>2. pc[c] \in {"waiting", "sent", "failed"}
        BY <1>0, <2>3, <3>1 DEF TypeOK, Outcomes, NotSentYet, OkIsOwnResult
      <3>3. status[c] \in {"pending", "aborted"}
        BY <2>3, <3>2 DEF StatusOf, status
      <3> QED
        BY <1>11, <2>3, <3>1, <3>3 DEF HandlerDone, executed
    <2> QED
      BY <2>1, <2>2, <2>3, PromiseParts
  <1>12. ASSUME NEW c \in Calls, Tell(c)
       PROVE  Maps
    <2>1. CASE pc[c] = "waiting"
      <3>1. pc' = [pc EXCEPT ![c] = "failed"] /\ executed' = executed
        BY <1>12, <2>1 DEF Tell, executed
      <3>2. c \in Users => AbstractStep(c, "pending", "aborted")
        BY <1>0, <2>1, <3>1, CallerMoves
      <3>3. c \notin Users => status' = status
        BY <1>0, <1>12, <3>1, OneCallMoves
      <3> QED
        BY <3>1, <3>2, <3>3, PromiseParts
    <2>2. CASE pc[c] # "waiting"
      BY <1>12, <2>2 DEF Tell, status, executed
    <2> QED
      BY <2>1, <2>2
  <1>32. ASSUME NEW c \in Calls, Visit(c)
       PROVE  Maps
    BY <1>32 DEF Visit, status, executed
  <1>13. ASSUME NEW d \in Disconnecters, Broadcast(d)
       PROVE  Maps
    BY <1>13 DEF Broadcast, status, executed
  <1>14. ASSUME NEW d \in Disconnecters, SessionClose(d)
       PROVE  Maps
    BY <1>14 DEF SessionClose, status, executed
  <1>15. ASSUME NEW d \in Disconnecters, ClientClose(d)
       PROVE  Maps
    BY <1>15 DEF ClientClose, LoseLink, status, executed
  <1>16. ASSUME NEW d \in Disconnecters, Disconnect(d)
       PROVE  Maps
    <2>1. pc' = [pc EXCEPT ![d] = "ready"] /\ executed' = executed
      BY <1>16 DEF Disconnect, Goto, executed
    <2>2. d \in Calls /\ d \notin Users
      OBVIOUS
    <2> QED
      BY <1>0, <2>1, <2>2, OneCallMoves
  <1>17. ASSUME BroadcastWait
       PROVE  Maps
    BY <1>17 DEF BroadcastWait, status, executed
  <1>18. ASSUME TellDone
       PROVE  Maps
    BY <1>18 DEF TellDone, status, executed
  <1>19. ASSUME Join
       PROVE  Maps
    BY <1>19 DEF Join, status, executed
  <1>20. ASSUME Decode
       PROVE  Maps
    BY <1>20 DEF Decode, status, executed
  <1>21. ASSUME DecodeEOF
       PROVE  Maps
    BY <1>21 DEF DecodeEOF, status, executed
  <1>22. ASSUME DecodeStop
       PROVE  Maps
    BY <1>22 DEF DecodeStop, status, executed
  <1>23. ASSUME ConnectDone
       PROVE  Maps
    BY <1>23 DEF ConnectDone, status, executed
  <1>24. ASSUME Heartbeat
       PROVE  Maps
    <2>1. pc' = [pc EXCEPT !["ping"] = "ready"] /\ executed' = executed
      BY <1>24 DEF Heartbeat, Goto, executed
    <2>2. "ping" \in Calls /\ "ping" \notin Users
      OBVIOUS
    <2> QED
      BY <1>0, <2>1, <2>2, OneCallMoves
  <1>25. ASSUME HeartbeatOk
       PROVE  Maps
    BY <1>25 DEF HeartbeatOk, status, executed
  <1>26. ASSUME HeartbeatFailed
       PROVE  Maps
    BY <1>26 DEF HeartbeatFailed, status, executed
  <1>27. ASSUME HeartbeatStop
       PROVE  Maps
    BY <1>27 DEF HeartbeatStop, status, executed
  <1>28. ASSUME ServerRead
       PROVE  Maps
    <2>1. /\ stdin \in Seq(Calls) /\ stdin # <<>>
          /\ UNCHANGED pc
          /\ \/ UNCHANGED <<handlers, accepted>>
             \/ /\ handlers' = handlers \cup {Head(stdin)}
                /\ accepted' = accepted \cup ({Head(stdin)} \cap Users)
      BY <1>28 DEF ServerRead, TypeOK
    <2>2. Head(stdin) \in ToSet(stdin)
      BY <2>1, ToSetTail
    <2>3. Head(stdin) \in Users => Head(stdin) \notin accepted
      BY <2>2 DEF UnreadIsNew
    <2> QED
      BY <2>1, <2>3 DEF status, executed
  <1>29. ASSUME ServerExit
       PROVE  Maps
    BY <1>29 DEF ServerExit, status, executed
  <1>30. ASSUME ServerCrash
       PROVE  Maps
    BY <1>30 DEF ServerCrash, status, executed
  <1>31. ASSUME Break
       PROVE  Maps
    BY <1>31 DEF Break, LoseLink, status, executed
  <1>34. ASSUME Loop
       PROVE  Maps
    BY <1>34 DEF Loop, status, executed
  <1>33. CASE UNCHANGED vars
    BY <1>33 DEF status, executed
  <1> HIDE DEF Maps, IInv, vars
  <1> QED
    BY <1>1, <1>2, <1>3, <1>4, <1>5, <1>6, <1>7, <1>8, <1>9, <1>10, <1>11, <1>12,
       <1>13, <1>14, <1>15, <1>16, <1>17, <1>18, <1>19, <1>20, <1>21, <1>22, <1>23, <1>24,
       <1>25, <1>26, <1>27, <1>28, <1>29, <1>30, <1>31, <1>32, <1>33, <1>34
    DEF Next, EOFDisconnect, HeartbeatDisconnect, DisconnectAll

(* The protocol implements the contract of RemoteCalls: every call has one *)
(* outcome, is executed at most once and is answered only with the result  *)
(* of its own execution.                                                   *)
THEOREM ConnectionImplementsRemoteCalls == SafetySpec => ImplementsRemoteCalls
  <1>1. Init => Promise!Init
    <2>1. Init => status = [u \in Users |-> "idle"] /\ executed = {}
      BY AgentAssumption DEF Init, status, executed, StatusOf, Calls, Pings, Disconnecters
    <2> QED
      BY <2>1 DEF Promise!Init, status, executed, StatusOf
  <1> QED
    BY <1>1, ConnectionInvariant, PromiseStep, PTL DEF SafetySpec, ImplementsRemoteCalls, Promise!Spec
=============================================================================
