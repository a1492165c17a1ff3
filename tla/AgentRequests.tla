----------------------------- MODULE AgentRequests -----------------------------
(***************************************************************************)
(* The requests that the Galaxy API has Docker answer through a session of *)
(* the agent (connectOnce, remoteExecutor, cmd/docker/agent.go): each is   *)
(* executed by a goroutine of its own, and so is the health check.  They   *)
(* share the connections to the Docker socket, of which there are a few,   *)
(* and the WebSocket.  The read loop and the streams are AgentSession.     *)
(***************************************************************************)
EXTENDS Naturals, FiniteSets

CONSTANTS
    RequestIds,   \* requests and domain commands, by their IDs
    Slow,         \* those that Docker answers when it pleases: logs, events
    PoolSize      \* MaxConnsPerHost, 4 in the code

ASSUME RequestsAssumption ==
    /\ Slow \subseteq RequestIds
    /\ PoolSize \in Nat \ {0}
    /\ "health check" \notin RequestIds

VARIABLES
    link,         \* the WebSocket: "open", "broken" (a write failed), "closed"
    daemon,       \* Docker: "up" or "hung"
    handler,      \* handler[r]: where the goroutine of r is
    result,       \* result[r]: whose answer it has got
    reply,        \* reply[r]: what the API received with the ID r
    pulse,        \* the health check: "wait", "queue", "ask", "over"
    pool          \* who holds a connection to the socket

requestVars == <<link, daemon, handler, result, reply, pulse, pool>>

Pulse == "health check"
NoAnswer == "none"
Failure == "error"

RequestsInit ==
    /\ link = "open"
    /\ daemon = "up"
    /\ handler = [r \in RequestIds |-> "none"]
    /\ result = [r \in RequestIds |-> NoAnswer]
    /\ reply = [r \in RequestIds |-> NoAnswer]
    /\ pulse = "wait"
    /\ pool = {}

-----------------------------------------------------------------------------
(* A request.                                                              *)

Goes(r, p) == handler' = [handler EXCEPT ![r] = p]

\* The goroutine of r has its result.  The answer to a domain command carries
\* an error too when its status says so; it is an answer still.
Has(r, a) ==
    /\ Goes(r, "answer")
    /\ result' = [result EXCEPT ![r] = a]

ApiSends(r) ==
    /\ handler[r] = "none"
    /\ link = "open"
    /\ Goes(r, "sent")
    /\ UNCHANGED <<link, daemon, result, reply, pulse, pool>>

\* The read loop starts a goroutine.  A body that is no base64, a request that
\* is no request and an unknown domain command are answered at once.
Accept(r) ==
    /\ handler[r] = "sent"
    /\ link # "closed"
    /\ \/ Goes(r, "queue") /\ UNCHANGED result
       \/ Has(r, Failure)
    /\ UNCHANGED <<link, daemon, reply, pulse, pool>>

Full == Cardinality(pool) >= PoolSize

Connects(r) ==
    /\ handler[r] = "queue"
    /\ ~ Full
    /\ Goes(r, "ask")
    /\ pool' = pool \union {r}
    /\ UNCHANGED <<link, daemon, result, reply, pulse>>

\* Variant for the mutation runs: the body of the answer is not closed.
DockerAnswersUnclosed(r) ==
    /\ handler[r] = "ask"
    /\ \/ daemon = "up" /\ Has(r, r)
       \/ Has(r, Failure)
    /\ UNCHANGED <<link, daemon, reply, pulse, pool>>

\* The answer was read, up to 64 MiB of it, or the exchange has failed; the
\* connection is free again.
DockerAnswers(r) ==
    /\ handler[r] = "ask"
    /\ \/ daemon = "up" /\ Has(r, r)
       \/ Has(r, Failure)
    /\ pool' = pool \ {r}
    /\ UNCHANGED <<link, daemon, reply, pulse>>

\* Variant for the mutation runs: only ResponseHeaderTimeout.
TimesOutOfHeaders(r) ==
    /\ \/ handler[r] = "queue" /\ Full
       \/ handler[r] = "ask" /\ daemon = "hung"
    /\ Has(r, Failure)
    /\ pool' = pool \ {r}
    /\ UNCHANGED <<link, daemon, reply, pulse>>

\* httpClient.Timeout, which includes the wait for a connection.
TimesOut(r) ==
    /\ \/ handler[r] = "queue" /\ Full
       \/ handler[r] = "ask" /\ (daemon = "hung" \/ r \in Slow)
    /\ Has(r, Failure)
    /\ pool' = pool \ {r}
    /\ UNCHANGED <<link, daemon, reply, pulse>>

\* Variant for the mutation runs: the goroutine sees the variable of the loop,
\* which has got the next request by then.
RespondToLast(r) ==
    /\ handler[r] = "answer"
    /\ Goes(r, "end")
    /\ \/ /\ link = "open"
          /\ \E s \in RequestIds :
                /\ handler[s] # "none"
                /\ reply' = [reply EXCEPT ![s] = result[r]]
          /\ UNCHANGED link
       \/ /\ link = "open"
          /\ link' = "broken"
          /\ UNCHANGED reply
       \/ link # "open" /\ UNCHANGED <<link, reply>>
    /\ UNCHANGED <<daemon, result, pulse, pool>>

\* writeMessage.  After a write that failed, for example at its deadline, no
\* other one succeeds; the error is ignored here.
Respond(r) ==
    /\ handler[r] = "answer"
    /\ Goes(r, "end")
    /\ \/ /\ link = "open"
          /\ reply' = [reply EXCEPT ![r] = result[r]]
          /\ UNCHANGED link
       \/ /\ link = "open"
          /\ link' = "broken"
          /\ UNCHANGED reply
       \/ link # "open" /\ UNCHANGED <<link, reply>>
    /\ UNCHANGED <<daemon, result, pulse, pool>>

-----------------------------------------------------------------------------
(* The goroutines that keep the session alive, or end it.                    *)

Pulses(from, to) == pulse = from /\ pulse' = to

\* The ticker of the health check.
PulseStarts ==
    /\ link # "closed"
    /\ Pulses("wait", "queue")
    /\ UNCHANGED <<link, daemon, handler, result, reply, pool>>

PulseConnects ==
    /\ ~ Full
    /\ Pulses("queue", "ask")
    /\ pool' = pool \union {Pulse}
    /\ UNCHANGED <<link, daemon, handler, result, reply>>

PulseAnswered ==
    /\ daemon = "up"
    /\ Pulses("ask", "wait")
    /\ pool' = pool \ {Pulse}
    /\ UNCHANGED <<link, daemon, handler, result, reply>>

\* Variant for the mutation runs: the failure is only printed.
PulseFailsQuietly ==
    /\ \/ Pulses("queue", "wait") /\ Full
       \/ Pulses("ask", "wait") /\ daemon = "hung"
    /\ pool' = pool \ {Pulse}
    /\ UNCHANGED <<link, daemon, handler, result, reply>>

\* No answer of /_ping in time: "docker target offline".
PulseFails ==
    /\ \/ Pulses("queue", "over") /\ Full
       \/ Pulses("ask", "over") /\ daemon = "hung"
    /\ pool' = pool \ {Pulse}
    /\ link' = "closed"
    /\ UNCHANGED <<daemon, handler, result, reply>>

\* The heartbeat cannot be written.
HeartbeatFails ==
    /\ link = "broken"
    /\ link' = "closed"
    /\ UNCHANGED <<daemon, handler, result, reply, pulse, pool>>

\* The session ends for another reason (AgentSession).
LinkLost ==
    /\ link # "closed"
    /\ link' = "closed"
    /\ UNCHANGED <<daemon, handler, result, reply, pulse, pool>>

DaemonHangs ==
    /\ daemon = "up"
    /\ daemon' = "hung"
    /\ UNCHANGED <<link, handler, result, reply, pulse, pool>>

DaemonRecovers ==
    /\ daemon = "hung"
    /\ daemon' = "up"
    /\ UNCHANGED <<link, handler, result, reply, pulse, pool>>

Handle(r) == Accept(r) \/ Connects(r) \/ TimesOut(r) \/ Respond(r)

HealthCheck == PulseStarts \/ PulseConnects \/ PulseAnswered \/ PulseFails

RequestsNext ==
    \/ \E r \in RequestIds : ApiSends(r) \/ Handle(r) \/ DockerAnswers(r)
    \/ HealthCheck \/ HeartbeatFails \/ LinkLost
    \/ DaemonHangs \/ DaemonRecovers

\* Goroutines run, timers fire, and Docker, while it is up, answers what is not
\* slow; it may stay hung for ever.  One condition for all requests is enough,
\* because each takes a few steps and ends.
Proceeds ==
    \E r \in RequestIds : Handle(r) \/ (r \notin Slow /\ daemon = "up" /\ DockerAnswers(r))

RequestsFairness ==
    WF_requestVars(Proceeds) /\ WF_requestVars(HealthCheck) /\ WF_requestVars(HeartbeatFails)

RequestsSpec == RequestsInit /\ [][RequestsNext]_requestVars /\ RequestsFairness

-----------------------------------------------------------------------------
(* Properties.                                                             *)

\* A reply never belongs to another request.
OwnReplies ==
    [][\A r \in RequestIds : reply'[r] # reply[r] => reply'[r] \in {r, Failure}]_requestVars

\* "Docker 健康检查失败": the session ends although Docker may be well only when
\* requests under way hold all connections; the end of a request frees its own.
HealthyIsKept ==
    [][pulse' = "over" /\ pulse # "over" /\ daemon = "up" =>
          Cardinality({r \in RequestIds : handler[r] = "ask"}) >= PoolSize]_requestVars

\* connectOnce, "request", "domain_command" and "Docker 健康检查失败": through a
\* Docker that hangs, slow requests that hold all connections, and writes that
\* fail, every request is answered under its own ID, and a Docker that hangs
\* does not go unnoticed; or else the session ends, which the API notices.
\* (What was answered stays so, hence "infinitely often" is enough.)
EndsOrAnswers ==
    []<>(\/ link = "closed"
         \/ /\ daemon = "up"
            /\ \A r \in RequestIds : handler[r] # "none" => reply[r] \in {r, Failure})

AgentAnswers == OwnReplies /\ HealthyIsKept /\ EndsOrAnswers

=============================================================================
