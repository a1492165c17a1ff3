----------------------------- MODULE AgentSession -----------------------------
(***************************************************************************)
(* The session of connectOnce (cmd/docker/agent.go) once it is online: the *)
(* read loop, the goroutine of every Docker stream, the map streams they   *)
(* share, the heartbeat that closes a silent connection, and the deferred  *)
(* clean-up.  The API is at the other end of the WebSocket, Docker at the  *)
(* other end of every stream.                                              *)
(*                                                                         *)
(* The API opens every stream ID once and waits for stream_ready before it *)
(* goes on with it.  Requests, which are answered by goroutines of their   *)
(* own and touch nothing here, are AgentRequests; the data that flows from *)
(* Docker to the API is left out.                                          *)
(***************************************************************************)
EXTENDS Naturals, Sequences

CONSTANTS
    Ids,          \* stream IDs
    None,         \* no stream
    MaxInbox,     \* bound on the messages underway to the agent
    MaxData       \* bound on the stream_data messages of one stream

ASSUME SessionAssumption ==
    /\ None \notin Ids
    /\ MaxInbox \in Nat
    /\ MaxData \in Nat

VARIABLES
    conn,         \* the WebSocket: "open" or "closed"
    silent,       \* the API does not acknowledge heartbeats any more
    inbox,        \* messages from the API, in order
    api,          \* api[i]: how far the API knows stream i
    posted,       \* posted[i]: stream_data messages sent
    loop,         \* the read loop: "read", "write", "over"
    writing,      \* the stream the read loop writes to
    streams,      \* the IDs in the map streams
    opener,       \* opener[i]: the goroutine that stream_open started
    socket,       \* socket[i]: the agent's end of the Docker connection
    docker,       \* docker[i]: Docker's end of it
    dropped,      \* history: dropped[i]: stream_data for which nothing was found
    late          \* history: streams whose opener was still at work at the clean-up

connVars == <<conn, silent, inbox, api, posted>>
loopVars == <<loop, writing>>
streamVars == <<streams, opener, socket, docker>>
historyVars == <<dropped, late>>
vars == <<connVars, loopVars, streamVars, historyVars>>

Message == [type : {"open", "data", "close"}, id : Ids]

TypeOK ==
    /\ conn \in {"open", "closed"}
    /\ silent \in BOOLEAN
    /\ inbox \in Seq(Message) /\ Len(inbox) <= MaxInbox
    /\ api \in [Ids -> {"unused", "asked", "ready", "closing", "ended"}]
    /\ posted \in [Ids -> 0..MaxData]
    /\ loop \in {"read", "write", "over"}
    /\ writing \in Ids \union {None}
    /\ streams \in SUBSET Ids
    /\ opener \in [Ids -> {"none", "open", "register", "announce", "pump", "forget", "end"}]
    /\ socket \in [Ids -> {"none", "open", "closed"}]
    /\ docker \in [Ids -> {"none", "reading", "stalled", "gone"}]
    /\ dropped \in [Ids -> 0..MaxData]
    /\ late \in SUBSET Ids

Init ==
    /\ conn = "open"
    /\ silent = FALSE
    /\ inbox = <<>>
    /\ api = [i \in Ids |-> "unused"]
    /\ posted = [i \in Ids |-> 0]
    /\ loop = "read"
    /\ writing = None
    /\ streams = {}
    /\ opener = [i \in Ids |-> "none"]
    /\ socket = [i \in Ids |-> "none"]
    /\ docker = [i \in Ids |-> "none"]
    /\ dropped = [i \in Ids |-> 0]
    /\ late = {}

-----------------------------------------------------------------------------
(* The API.                                                                *)

Post(type, i) ==
    /\ conn = "open"
    /\ ~ silent
    /\ Len(inbox) < MaxInbox
    /\ inbox' = Append(inbox, [type |-> type, id |-> i])

ApiOpen(i) ==
    /\ api[i] = "unused"
    /\ Post("open", i)
    /\ api' = [api EXCEPT ![i] = "asked"]
    /\ UNCHANGED <<conn, silent, posted, loopVars, streamVars, historyVars>>

ApiData(i) ==
    /\ api[i] = "ready"
    /\ posted[i] < MaxData
    /\ Post("data", i)
    /\ posted' = [posted EXCEPT ![i] = @ + 1]
    /\ UNCHANGED <<conn, silent, api, loopVars, streamVars, historyVars>>

ApiClose(i) ==
    /\ api[i] = "ready"
    /\ Post("close", i)
    /\ api' = [api EXCEPT ![i] = "closing"]
    /\ UNCHANGED <<conn, silent, posted, loopVars, streamVars, historyVars>>

\* The API hangs; a proxy may keep the TCP connection and the pings alive.
ApiSilent ==
    /\ ~ silent
    /\ silent' = TRUE
    /\ UNCHANGED <<conn, inbox, api, posted, loopVars, streamVars, historyVars>>

\* The agent tells the API about stream i, if it still can.
Tell(i, from, to) ==
    api' = IF conn = "open" /\ api[i] \in from THEN [api EXCEPT ![i] = to] ELSE api

-----------------------------------------------------------------------------
(* The read loop.                                                          *)

\* The next message, if it is of the type.  What conn has buffered is read even
\* after it was closed.
Take(type, i) ==
    /\ loop = "read"
    /\ inbox # <<>>
    /\ Head(inbox) = [type |-> type, id |-> i]
    /\ inbox' = Tail(inbox)

ReceiveOpen(i) ==
    /\ Take("open", i)
    /\ opener' = [opener EXCEPT ![i] = "open"]
    /\ UNCHANGED <<conn, silent, api, posted, loopVars, streams, socket, docker,
                   historyVars>>

\* stream.write is called by the read loop itself; data for an ID that is not
\* in the map is dropped.
ReceiveData(i) ==
    /\ Take("data", i)
    /\ IF i \in streams
         THEN /\ loop' = "write"
              /\ writing' = i
              /\ UNCHANGED dropped
         ELSE /\ dropped' = [dropped EXCEPT ![i] = @ + 1]
              /\ UNCHANGED loopVars
    /\ UNCHANGED <<conn, silent, api, posted, streamVars, late>>

\* Variant for the mutation runs: the stream is forgotten but not closed.
ReceiveCloseForgets(i) ==
    /\ Take("close", i)
    /\ streams' = streams \ {i}
    /\ UNCHANGED <<conn, silent, api, posted, loopVars, opener, socket, docker,
                   historyVars>>

ReceiveClose(i) ==
    /\ Take("close", i)
    /\ streams' = streams \ {i}
    /\ socket' = [socket EXCEPT ![i] = IF i \in streams THEN "closed" ELSE @]
    /\ UNCHANGED <<conn, silent, api, posted, loopVars, opener, docker, historyVars>>

\* The write returns when Docker takes the data or either end is closed; it
\* has no deadline.
WriteReturns ==
    /\ loop = "write"
    /\ socket[writing] = "closed" \/ docker[writing] \in {"reading", "gone"}
    /\ loop' = "read"
    /\ writing' = None
    /\ UNCHANGED <<connVars, streamVars, historyVars>>

\* Variant for the mutation runs: the deferred function does not close streams.
ReadFailsKeepingStreams ==
    /\ loop = "read"
    /\ conn = "closed"
    /\ loop' = "over"
    /\ late' = {i \in Ids : opener[i] \in {"open", "register"}}
    /\ UNCHANGED <<connVars, writing, streamVars, dropped>>

\* conn.ReadJSON fails, connectOnce returns and its deferred function closes
\* what is in the map at that moment.
ReadFails ==
    /\ loop = "read"
    /\ conn = "closed"
    /\ loop' = "over"
    /\ socket' = [i \in Ids |-> IF i \in streams THEN "closed" ELSE socket[i]]
    /\ late' = {i \in Ids : opener[i] \in {"open", "register"}}
    /\ UNCHANGED <<connVars, writing, streams, opener, docker, dropped>>

-----------------------------------------------------------------------------
(* The goroutine of a stream.                                              *)

\* openLocalDockerStream: dial, request, status line and headers.
OpenStream(i) ==
    /\ opener[i] = "open"
    /\ \/ /\ socket' = [socket EXCEPT ![i] = "open"]
          /\ docker' = [docker EXCEPT ![i] = "reading"]
          /\ opener' = [opener EXCEPT ![i] = "register"]
          /\ UNCHANGED api
       \/ /\ Tell(i, {"asked", "closing"}, "ended")
          /\ opener' = [opener EXCEPT ![i] = "end"]
          /\ UNCHANGED <<socket, docker>>
    /\ UNCHANGED <<conn, silent, inbox, posted, loopVars, streams, historyVars>>

\* Variant for the mutation runs: stream_ready is sent before the stream can
\* be found.
RegisterAfterReady(i) ==
    /\ opener[i] = "register"
    /\ Tell(i, {"asked"}, "ready")
    /\ opener' = [opener EXCEPT ![i] = "announce"]
    /\ UNCHANGED <<conn, silent, inbox, posted, loopVars, streams, socket,
                   docker, historyVars>>

Register(i) ==
    /\ opener[i] = "register"
    /\ streams' = streams \union {i}
    /\ opener' = [opener EXCEPT ![i] = "announce"]
    /\ UNCHANGED <<connVars, loopVars, socket, docker, historyVars>>

\* stream_ready.
Announce(i) ==
    /\ opener[i] = "announce"
    /\ Tell(i, {"asked"}, "ready")
    /\ opener' = [opener EXCEPT ![i] = "pump"]
    /\ UNCHANGED <<conn, silent, inbox, posted, loopVars, streams, socket,
                   docker, historyVars>>

\* pump ends when the body does: stream_closed is sent, the stream closed.
PumpEnds(i) ==
    /\ opener[i] = "pump"
    /\ socket[i] = "closed" \/ docker[i] = "gone"
    /\ Tell(i, {"asked", "ready", "closing"}, "ended")
    /\ socket' = [socket EXCEPT ![i] = "closed"]
    /\ opener' = [opener EXCEPT ![i] = "forget"]
    /\ UNCHANGED <<conn, silent, inbox, posted, loopVars, streams, docker,
                   historyVars>>

Forget(i) ==
    /\ opener[i] = "forget"
    /\ streams' = streams \ {i}
    /\ opener' = [opener EXCEPT ![i] = "end"]
    /\ UNCHANGED <<connVars, loopVars, socket, docker, historyVars>>

-----------------------------------------------------------------------------
(* The heartbeat, the network and Docker.                                  *)

\* Variant for the mutation runs: a pong counts as an acknowledgement.
HeartbeatTimeoutOfWrites ==
    /\ conn = "open"
    /\ loop = "write"
    /\ conn' = "closed"
    /\ UNCHANGED <<silent, inbox, api, posted, loopVars, streamVars, historyVars>>

\* No acknowledgement was read for agentHeartbeatTimeout: the API is silent, or
\* the read loop is stuck in a write.
HeartbeatTimeout ==
    /\ conn = "open"
    /\ silent \/ loop = "write"
    /\ conn' = "closed"
    /\ UNCHANGED <<silent, inbox, api, posted, loopVars, streamVars, historyVars>>

\* The network fails, a ping or the health check fails, the API sends an error,
\* or the context ends.
Disconnect ==
    /\ conn = "open"
    /\ conn' = "closed"
    /\ UNCHANGED <<silent, inbox, api, posted, loopVars, streamVars, historyVars>>

DockerEnds(i) ==
    /\ docker[i] \in {"reading", "stalled"}
    /\ docker' = [docker EXCEPT ![i] = "gone"]
    /\ UNCHANGED <<connVars, loopVars, streams, opener, socket, historyVars>>

\* The container does not read its standard input, and the buffers are full.
DockerStalls(i) ==
    /\ docker[i] = "reading"
    /\ docker' = [docker EXCEPT ![i] = "stalled"]
    /\ UNCHANGED <<connVars, loopVars, streams, opener, socket, historyVars>>

DockerResumes(i) ==
    /\ docker[i] = "stalled"
    /\ docker' = [docker EXCEPT ![i] = "reading"]
    /\ UNCHANGED <<connVars, loopVars, streams, opener, socket, historyVars>>

Receive(i) == ReceiveOpen(i) \/ ReceiveData(i) \/ ReceiveClose(i)

Loop == (\E i \in Ids : Receive(i)) \/ WriteReturns \/ ReadFails

Stream(i) == Register(i) \/ Announce(i) \/ PumpEnds(i) \/ Forget(i)

Next ==
    \/ Loop
    \/ \E i \in Ids : OpenStream(i) \/ Stream(i)
    \/ \E i \in Ids : ApiOpen(i) \/ ApiData(i) \/ ApiClose(i)
    \/ \E i \in Ids : DockerEnds(i) \/ DockerStalls(i) \/ DockerResumes(i)
    \/ ApiSilent \/ HeartbeatTimeout \/ Disconnect

Spec == Init /\ [][Next]_vars

\* The goroutines of the process run; the network, the API and Docker may
\* stop for good.  A stream has a few steps and ends, so that one condition is
\* enough for all of them.
Fairness ==
    /\ WF_vars(Loop)
    /\ WF_vars(HeartbeatTimeout)
    /\ WF_vars(\E i \in Ids : Stream(i))

FairSpec == Spec /\ Fairness

\* A container that stops reading its input takes it up again sooner or later.
\* SF, because what it has read may be followed by more.
DrainingFairness ==
    /\ Fairness
    /\ \A i \in Ids : WF_vars(DockerResumes(i))
    /\ SF_vars(WriteReturns)

-----------------------------------------------------------------------------
(* Properties.                                                             *)

\* A stream whose goroutine runs and whose socket is open is in the map, where
\* stream_data and stream_close look for it.
OpenStreamIsFound ==
    \A i \in Ids :
        opener[i] \in {"announce", "pump"} /\ socket[i] = "open" => i \in streams

\* No data is dropped while the stream is open.
ReadyStreamLosesNothing ==
    [][\A i \in Ids : dropped'[i] # dropped[i] => socket[i] = "closed"]_vars

\* After connectOnce has returned no stream is left open, but for those whose
\* goroutine was still opening them (which nobody closes any more).
CleanupComplete ==
    loop = "over" => \A i \in Ids : socket[i] = "open" => i \in late

\* A stream that the API closed, or was told is over, ends: its socket is closed
\* and its goroutine returns, or the session ends; even while the read loop is
\* held by a write to another stream.  (Its end is final, hence "infinitely
\* often" is enough.)
CloseIsHonoured ==
    []<>(\/ loop = "over"
         \/ \A i \in Ids : api[i] \in {"closing", "ended"} => socket[i] # "open" /\ opener[i] = "end")

\* agent.go: "服务器心跳超时，主动断开并重连": a session whose heartbeats are
\* not acknowledged ends, so that runConnection can connect again.
SilenceEndsSession == silent ~> loop = "over"

=============================================================================
