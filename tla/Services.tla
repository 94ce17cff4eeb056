------------------------------- MODULE Services -------------------------------
(***************************************************************************)
(* How the services start, what they hold at RabbitMQ, and how the gateway *)
(* stops (gateway/cmd/main.go, internal/server, internal/infra,            *)
(* internal/watcher; repo/cmd/main.go; vcodec/src/main.rs, rmq.rs,         *)
(* rpc.rs).                                                                *)
(*                                                                         *)
(* A service connects to what it needs one after the other and exits at    *)
(* the first that fails; docker-compose.yaml restarts none of them, an     *)
(* operator does.  The gateway declares the queue notify.q durable, vcodec *)
(* declares it not durable, and RabbitMQ refuses a declaration that        *)
(* differs from the queue that exists.                                     *)
(***************************************************************************)
EXTENDS Integers, Sequences

CONSTANTS None,
          MaxOutages,  \* bound: outages of a dependency, and failed calls
          MaxStops,    \* bound: signals and kills
          MaxRequests  \* bound: HTTP requests in the gateway at a time

ASSUME ServicesAssumption ==
    /\ MaxOutages \in Nat /\ MaxStops \in Nat /\ MaxRequests \in Nat
    /\ None \notin {"durable", "transient"}

Services == {"gateway", "repo", "vcodec"}
Users == {"gateway", "vcodec"}       \* of notify.q
Deps == {"redis", "rabbit", "minio", "postgres"}
Settings == {"gateway", "repo", "kafka"}  \* environments; KAFKA_HOST is read late

VARIABLES
    up,         \* the dependencies that answer
    configured, \* the settings that are set
    phase,      \* per service: down, starting, serving; closing, draining
    at,         \* per service, the next step of its start
    linked,     \* services whose RabbitMQ connection is alive
    attached,   \* services consuming from notify.q or able to publish to it
    deaf,       \* services that lost the connection they were attached by
    queue,      \* notify.q: "durable", "transient" or None
    inflight,   \* requests the gateway is handling
    outages, stops

vars == <<up, configured, phase, at, linked, attached, deaf, queue, inflight,
          outages, stops>>
serviceVars == <<phase, at, linked, attached, deaf>>

Init ==
    /\ up = Deps
    /\ configured \in {Settings} \cup {Settings \ {missing} : missing \in Settings}
    /\ phase = [p \in Services |-> "down"]
    /\ at = [p \in Services |-> 1]
    /\ linked = {}
    /\ attached = {}
    /\ deaf = {}
    /\ queue = None
    /\ inflight = 0
    /\ outages = 0
    /\ stops = 0

Goto(p, state) == phase' = [phase EXCEPT ![p] = state]

-----------------------------------------------------------------------------
(* Starting.                                                               *)

\* gateway main: environment, Redis, RabbitMQ, MinIO, then NewServer, whose
\* Kafka writer and gRPC client connect later: NewWatcher connects to RabbitMQ
\* again, Start declares and consumes.
GatewaySteps == <<"env", "redis", "rabbit", "minio", "kafka", "rabbit", "declare">>
RepoSteps == <<"env", "minio", "postgres">>
VcodecSteps == <<"repo", "rabbit", "declare">>

Steps(p) == CASE p = "gateway" -> GatewaySteps
              [] p = "repo" -> RepoSteps
              [] p = "vcodec" -> VcodecSteps

EnvSet(p) == p \in configured
KafkaHostSet == "kafka" \in configured
RedisAnswers == "redis" \in up
RabbitAnswers == "rabbit" \in up
MinioAnswers == "minio" \in up
PostgresAnswers == "postgres" \in up
RepoListens == phase["repo"] = "serving"

\* What each declares notify.q to be.
KindOf(p) == IF p = "gateway" THEN "durable" ELSE "transient"

\* RabbitMQ accepts a declaration on a live connection of a new queue or of the
\* same one.
Accepted(p) == p \in linked /\ queue \in {None, KindOf(p)}

\* Whether a step has all it needs.
Succeeds(p, step) ==
    CASE step = "env" -> EnvSet(p)
      [] step = "kafka" -> KafkaHostSet
      [] step = "redis" -> RedisAnswers
      [] step = "rabbit" -> RabbitAnswers
      [] step = "minio" -> MinioAnswers
      [] step = "postgres" -> PostgresAnswers
      [] step = "repo" -> RepoListens
      [] step = "declare" -> Accepted(p)

\* docker compose up, or an operator.
Start(p) ==
    /\ phase[p] = "down"
    /\ Goto(p, "starting")
    /\ at' = [at EXCEPT ![p] = 1]
    /\ UNCHANGED <<up, configured, linked, attached, deaf, queue, inflight,
                   outages, stops>>

\* One step of the start succeeds.
Advance(p) ==
    /\ phase[p] = "starting"
    /\ at[p] <= Len(Steps(p))
    /\ LET step == Steps(p)[at[p]] IN
       /\ Succeeds(p, step)
       /\ linked' = IF step = "rabbit" THEN linked \cup {p} ELSE linked
       /\ IF step = "declare"
          THEN queue' = KindOf(p) /\ attached' = attached \cup {p}
          ELSE UNCHANGED <<queue, attached>>
    /\ at' = [at EXCEPT ![p] = @ + 1]
    /\ UNCHANGED <<up, configured, phase, deaf, inflight, outages, stops>>

\* The process is gone, and with it its connections and its consumer.
Detached(p) == attached \ {p}
Lingering(p) == attached            \* faulty: the consumer outlives its connection

LeftAttached(p) == Detached(p)

Gone(p) ==
    /\ Goto(p, "down")
    /\ linked' = linked \ {p}
    /\ attached' = LeftAttached(p)
    /\ deaf' = deaf \ {p}
    /\ UNCHANGED at

\* What a service does when a step of its start fails: log.Fatal, panic, os.Exit
\* or an error out of main.
Exits(p) == Gone(p)
GoesOn(p) ==                        \* faulty: the error is only logged
    /\ at' = [at EXCEPT ![p] = @ + 1]
    /\ UNCHANGED <<phase, linked, attached, deaf>>

OnFailure(p) == Exits(p)

StepFails(p) ==
    /\ phase[p] = "starting"
    /\ at[p] <= Len(Steps(p))
    /\ ~Succeeds(p, Steps(p)[at[p]])
    /\ OnFailure(p)
    /\ UNCHANGED <<up, configured, queue, inflight, outages, stops>>

\* A call fails although its dependency answers: the bucket is not to be had, a
\* channel is refused, the port is taken.  A declaration may have been made when
\* one of the calls after it fails (Qos, Consume): the queue stays.
CallFails(p) ==
    /\ phase[p] = "starting"
    /\ outages < MaxOutages
    /\ outages' = outages + 1
    /\ LET step == IF at[p] <= Len(Steps(p)) THEN Steps(p)[at[p]] ELSE "listen" IN
       /\ step # "env"
       /\ \/ UNCHANGED queue
          \/ step = "declare" /\ Accepted(p) /\ queue' = KindOf(p)
    /\ OnFailure(p)
    /\ UNCHANGED <<up, configured, inflight, stops>>

\* ListenAndServe, Serve, the receive loop.
Serve(p) ==
    /\ phase[p] = "starting"
    /\ at[p] > Len(Steps(p))
    /\ Goto(p, "serving")
    /\ UNCHANGED <<up, configured, at, linked, attached, deaf, queue, inflight,
                   outages, stops>>

-----------------------------------------------------------------------------
(* Outages.                                                                *)

\* With RabbitMQ go the connections and a queue that is not durable.  The
\* watcher's loop over msgs ends, vcodec's publishes fail and are ignored;
\* neither connects again.
Outage(d) ==
    /\ d \in up
    /\ outages < MaxOutages
    /\ outages' = outages + 1
    /\ up' = up \ {d}
    /\ IF d = "rabbit"
       THEN /\ linked' = {}
            /\ attached' = {}
            /\ deaf' = deaf \cup attached
            /\ queue' = IF queue = "durable" THEN queue ELSE None
       ELSE UNCHANGED <<linked, attached, deaf, queue>>
    /\ UNCHANGED <<configured, phase, at, inflight, stops>>

Recover(d) ==
    /\ d \notin up
    /\ up' = up \cup {d}
    /\ UNCHANGED <<configured, serviceVars, queue, inflight, outages, stops>>

-----------------------------------------------------------------------------
(* The gateway's requests and its end.                                     *)

\* Until Shutdown closes the listener.
Listening == phase["gateway"] \in {"serving", "closing"}

Request ==
    /\ Listening
    /\ inflight < MaxRequests
    /\ inflight' = inflight + 1
    /\ UNCHANGED <<up, configured, serviceVars, queue, outages, stops>>

Reply ==
    /\ inflight > 0
    /\ inflight' = inflight - 1
    /\ UNCHANGED <<up, configured, serviceVars, queue, outages, stops>>

\* SIGINT or SIGTERM: the watcher closes its channel and connection.
Signal ==
    /\ phase["gateway"] = "serving"
    /\ stops < MaxStops
    /\ stops' = stops + 1
    /\ Goto("gateway", "closing")
    /\ linked' = linked \ {"gateway"}
    /\ attached' = LeftAttached("gateway")
    /\ UNCHANGED <<up, configured, at, deaf, queue, inflight, outages>>

\* srv.Shutdown closes the listener and waits.
Shutdown ==
    /\ phase["gateway"] = "closing"
    /\ Goto("gateway", "draining")
    /\ UNCHANGED <<up, configured, at, linked, attached, deaf, queue, inflight,
                   outages, stops>>

\* What Shutdown waits for before the process ends.
Drained == inflight = 0

\* The context of Shutdown.
WithDeadline == TRUE
WithoutDeadline == FALSE            \* faulty: context.Background()

HasDeadline == WithDeadline

\* The gateway ends; requests in flight end with it.
Ends ==
    /\ Gone("gateway")
    /\ inflight' = 0
    /\ UNCHANGED <<up, configured, queue, outages>>

Stop ==
    /\ phase["gateway"] = "draining"
    /\ Drained \/ HasDeadline
    /\ Ends
    /\ UNCHANGED stops

\* A process is killed.
Kill(p) ==
    /\ phase[p] # "down"
    /\ stops < MaxStops
    /\ stops' = stops + 1
    /\ IF p = "gateway"
       THEN Ends
       ELSE Gone(p) /\ UNCHANGED <<up, configured, queue, inflight, outages>>

-----------------------------------------------------------------------------
Step(p) == Advance(p) \/ StepFails(p) \/ Serve(p)

Next ==
    \/ \E p \in Services : Start(p) \/ Step(p) \/ CallFails(p) \/ Kill(p)
    \/ \E d \in Deps : Outage(d) \/ Recover(d)
    \/ Request \/ Reply \/ Signal \/ Shutdown \/ Stop

Spec == Init /\ [][Next]_vars

\* A process that runs goes on, a stopped service is started again and an
\* outage ends.  A handler need not ever reply.
FairSpec ==
    /\ Spec
    /\ \A p \in Services : WF_vars(Step(p)) /\ WF_vars(Start(p))
    /\ \A d \in Deps : WF_vars(Recover(d))
    /\ WF_vars(Shutdown) /\ WF_vars(Stop)

-----------------------------------------------------------------------------
\* Services are in a phase of theirs, and a service attached to the queue is so
\* over a connection that is alive.
TypeOK ==
    /\ up \subseteq Deps
    /\ configured \subseteq Settings
    /\ phase \in [Services -> {"down", "starting", "serving", "closing", "draining"}]
    /\ \A p \in Services : at[p] \in 1..(Len(Steps(p)) + 1)
    /\ linked \subseteq Services
    /\ attached \subseteq Users \cap linked
    /\ deaf \subseteq Users
    /\ queue \in {"durable", "transient", None}
    /\ inflight \in 0..MaxRequests
    /\ outages \in 0..MaxOutages
    /\ stops \in 0..MaxStops

\* A gateway or vcodec that serves is attached to notify.q, unless RabbitMQ went
\* away since it attached: the refused declaration never leaves a service that
\* runs without the queue.
ServingIsAttached ==
    \A p \in Users : phase[p] = "serving" => p \in attached \cup deaf

\* A start ends in service or in an exit, and a signalled gateway stops even if
\* a handler never returns.
PhasesEnd ==
    /\ \A p \in Services : phase[p] = "starting" ~> phase[p] \in {"serving", "down"}
    /\ phase["gateway"] = "closing" ~> phase["gateway"] = "down"

\* README.md:88: "Message Queues (Kafka & RabbitMQ): Facilitate communication
\* and task distribution between services": with everything up and configured,
\* and started again whenever they end, gateway and vcodec come to share the
\* queue.
TheyMeet == configured = Settings => <>(attached = Users)
=============================================================================
