--------------------------- MODULE NotificationHub ---------------------------
(***************************************************************************)
(* The gateway's notification path (gateway/internal/watcher): RabbitMQ    *)
(* queue notify.q -> Watcher.processMessage -> Hub.Run -> one writePump    *)
(* goroutine per WebSocket client.                                         *)
(*                                                                         *)
(* Every goroutine is a process with its own control state.  The channels  *)
(* register, unregister and broadcast are unbuffered (hub.go:28-33), so a  *)
(* send and its receive are ONE step, taken when the sender is at its send *)
(* and Run is at its select.  A client's Send channel is a sequence of at  *)
(* most SendCap notifications (256 in websocket.go:47) with a closed flag. *)
(*                                                                         *)
(* Hub.clients maps a user to the slice of the user's clients; a client is *)
(* appended once, so the model keeps the set of registered clients and     *)
(* lets a broadcast visit the user's clients in any order.                 *)
(***************************************************************************)
EXTENDS Integers, Sequences, FiniteSets

CONSTANTS Users,         \* user ids, the keys of Hub.clients
          Clients,       \* WebSocket connections; each one connects once
          UserOf,        \* the user id in the path of the connection's URL
          SendCap,       \* capacity of Client.Send
          Malformed,     \* a message body that json.Unmarshal rejects
          MaxMessages,   \* bound: messages the other services publish
          MaxCrashes     \* bound: crashes of the gateway process

ASSUME HubAssumption ==
    /\ UserOf \in [Clients -> Users]
    /\ SendCap \in Nat \ {0}
    /\ Malformed \notin Users
    /\ MaxMessages \in Nat
    /\ MaxCrashes \in Nat

VARIABLES
    queue,       \* notify.q: messages not yet taken by the watcher
    published,   \* number of messages published so far; also their ids
    watcher,     \* "idle", "sending" (at h.broadcast <- n) or "acking"
    wmsg,        \* the delivery processMessage works on, unacknowledged
    hub,         \* Run: "select", "fanout" (broadcastToUser) or "blocked"
    hmsg,        \* the notification broadcastToUser was called with
    fan,         \* clients its loop has not visited yet
    registered,  \* the clients in Hub.clients
    send,        \* Client.Send: buffered notifications
    closed,      \* whether close(client.Send) has run
    handler,     \* HandleWebSocket: "idle", "registering", "done"
    reader,      \* its ReadMessage goroutine
    pump,        \* writePump
    pmsg,        \* the notification writePump is writing
    conn,        \* "none", "open", "gone" (peer left), "closed" (by the hub)
    panicked,    \* a send on, or a second close of, a closed channel
    crashes,     \* crashes so far
    handed,      \* history: ids taken by the hub from the broadcast channel
    offered,     \* history: per user, broadcasts since the process started
    rejected,    \* history: ids refused with Nack(false, false)
    delivered    \* history: ids written to the client's socket, in order

clientVars == <<send, closed, handler, reader, pump, pmsg, conn, delivered>>
brokerVars == <<queue, published>>
watcherVars == <<watcher, wmsg, rejected>>
hubVars == <<hub, hmsg, fan, registered, handed, offered>>
vars == <<brokerVars, watcherVars, hubVars, clientVars, panicked, crashes>>

Ids == 1..MaxMessages
Message == [id : Ids, user : Users \cup {Malformed}]
NoMessage == [id |-> 0, user |-> Malformed]

-----------------------------------------------------------------------------
Init ==
    /\ queue = <<>>
    /\ published = 0
    /\ watcher = "idle"
    /\ wmsg = NoMessage
    /\ hub = "select"
    /\ hmsg = NoMessage
    /\ fan = {}
    /\ registered = {}
    /\ send = [c \in Clients |-> <<>>]
    /\ closed = [c \in Clients |-> FALSE]
    /\ handler = [c \in Clients |-> "idle"]
    /\ reader = [c \in Clients |-> "none"]
    /\ pump = [c \in Clients |-> "none"]
    /\ pmsg = [c \in Clients |-> NoMessage]
    /\ conn = [c \in Clients |-> "none"]
    /\ panicked = FALSE
    /\ crashes = 0
    /\ handed = {}
    /\ offered = [u \in Users |-> 0]
    /\ rejected = {}
    /\ delivered = [c \in Clients |-> <<>>]

-----------------------------------------------------------------------------
(* The environment: publishers, browsers, process crashes.                 *)

\* Another service publishes a notification for user u (or garbage).
Publish(u) ==
    /\ published < MaxMessages
    /\ published' = published + 1
    /\ queue' = Append(queue, [id |-> published + 1, user |-> u])
    /\ UNCHANGED <<watcherVars, hubVars, clientVars, panicked, crashes>>

\* The peer of an open connection goes away.
PeerGone(c) ==
    /\ conn[c] = "open"
    /\ conn' = [conn EXCEPT ![c] = "gone"]
    /\ UNCHANGED <<brokerVars, watcherVars, hubVars, send, closed, handler,
                   reader, pump, pmsg, delivered, panicked, crashes>>

\* Whether the broker still holds a delivery the gateway has not acknowledged:
\* Consume asks for manual acknowledgement, processMessage acknowledges last.
HeldUntilAck == watcher # "idle"
AutoAcked == FALSE                   \* faulty: Consume with auto-ack
NeverAcked == TRUE                   \* faulty: the Ack is missing

Unacked == HeldUntilAck

\* When the gateway's connection dies the broker puts such a delivery back, in
\* front of the others.
Requeued == IF Unacked THEN <<wmsg>> \o queue ELSE queue

\* The gateway process dies and is started again: every goroutine and every
\* connection is lost, and the unacknowledged delivery returns to the queue.
Crash ==
    /\ crashes < MaxCrashes
    /\ crashes' = crashes + 1
    /\ queue' = Requeued
    /\ watcher' = "idle"
    /\ wmsg' = NoMessage
    /\ hub' = "select"
    /\ hmsg' = NoMessage
    /\ fan' = {}
    /\ registered' = {}
    /\ offered' = [u \in Users |-> 0]
    /\ send' = [c \in Clients |-> <<>>]
    /\ closed' = [c \in Clients |-> FALSE]
    /\ handler' = [c \in Clients |-> IF conn[c] = "none" THEN "idle" ELSE "done"]
    /\ reader' = [c \in Clients |-> "none"]
    /\ pump' = [c \in Clients |-> "none"]
    /\ pmsg' = [c \in Clients |-> NoMessage]
    /\ conn' = [c \in Clients |-> IF conn[c] = "none" THEN "none" ELSE "closed"]
    /\ UNCHANGED <<published, panicked, handed, rejected, delivered>>

-----------------------------------------------------------------------------
(* Watcher.processMessage, run by one goroutine over the deliveries.       *)

\* The body parses: block on h.broadcast, unacknowledged.
Receive ==
    /\ watcher = "idle"
    /\ queue # <<>>
    /\ Head(queue).user # Malformed
    /\ watcher' = "sending"
    /\ wmsg' = Head(queue)
    /\ queue' = Tail(queue)
    /\ UNCHANGED <<published, rejected, hubVars, clientVars, panicked, crashes>>

\* It does not parse: Nack(false, false) drops it for good.
Reject ==
    /\ watcher = "idle"
    /\ queue # <<>>
    /\ Head(queue).user = Malformed
    /\ rejected' = rejected \cup {Head(queue).id}
    /\ queue' = Tail(queue)
    /\ UNCHANGED <<published, watcher, wmsg, hubVars, clientVars, panicked, crashes>>

\* SendNotification has returned: msg.Ack(false).
Ack ==
    /\ watcher = "acking"
    /\ watcher' = "idle"
    /\ wmsg' = NoMessage
    /\ UNCHANGED <<brokerVars, rejected, hubVars, clientVars, panicked, crashes>>

-----------------------------------------------------------------------------
(* HandleWebSocket and its reader goroutine.                               *)

\* The upgrade succeeds; the handler blocks on h.register <- client.
Connect(c) ==
    /\ handler[c] = "idle"
    /\ handler' = [handler EXCEPT ![c] = "registering"]
    /\ conn' = [conn EXCEPT ![c] = "open"]
    /\ UNCHANGED <<brokerVars, watcherVars, hubVars, send, closed, reader,
                   pump, pmsg, delivered, panicked, crashes>>

\* ReadMessage fails: the deferred h.unregister <- client is reached.
ReaderDefers == "unreg"
ReaderReturns == "done"              \* faulty: no deferred unregister

AfterReadError == ReaderDefers

ReadError(c) ==
    /\ reader[c] = "reading"
    /\ conn[c] \in {"gone", "closed"}
    /\ reader' = [reader EXCEPT ![c] = AfterReadError]
    /\ UNCHANGED <<brokerVars, watcherVars, hubVars, send, closed, handler,
                   pump, pmsg, conn, delivered, panicked, crashes>>

-----------------------------------------------------------------------------
(* writePump: for notification := range client.Send { WriteJSON }.         *)

PumpTake(c) ==
    /\ pump[c] = "ranging"
    /\ send[c] # <<>>
    /\ pump' = [pump EXCEPT ![c] = "writing"]
    /\ pmsg' = [pmsg EXCEPT ![c] = Head(send[c])]
    /\ send' = [send EXCEPT ![c] = Tail(@)]
    /\ UNCHANGED <<brokerVars, watcherVars, hubVars, closed, handler, reader,
                   conn, delivered, panicked, crashes>>

\* WriteJSON returns nil.  There is no write deadline: it may never return.
WriteOk(c) ==
    /\ pump[c] = "writing"
    /\ conn[c] # "closed"
    /\ pump' = [pump EXCEPT ![c] = "ranging"]
    /\ delivered' = [delivered EXCEPT ![c] = Append(@, pmsg[c])]
    /\ pmsg' = [pmsg EXCEPT ![c] = NoMessage]
    /\ UNCHANGED <<brokerVars, watcherVars, hubVars, send, closed, handler,
                   reader, conn, panicked, crashes>>

\* The loop ends, on a write error or because Send is closed and drained:
\* the deferred h.unregister <- client is reached.
PumpExit(c) ==
    /\ \/ pump[c] = "writing" /\ conn[c] \in {"gone", "closed"}
       \/ pump[c] = "ranging" /\ send[c] = <<>> /\ closed[c]
    /\ pump' = [pump EXCEPT ![c] = "unreg"]
    /\ pmsg' = [pmsg EXCEPT ![c] = NoMessage]
    /\ UNCHANGED <<brokerVars, watcherVars, hubVars, send, closed, handler,
                   reader, conn, delivered, panicked, crashes>>

-----------------------------------------------------------------------------
(* Hub.Run.                                                                *)

\* case client := <-h.register: registerClient, which starts writePump; the
\* handler resumes and starts the reader goroutine.
HubRegister(c) ==
    /\ hub = "select"
    /\ handler[c] = "registering"
    /\ registered' = registered \cup {c}
    /\ handler' = [handler EXCEPT ![c] = "done"]
    /\ pump' = [pump EXCEPT ![c] = "ranging"]
    /\ reader' = [reader EXCEPT ![c] = "reading"]
    /\ UNCHANGED <<brokerVars, watcherVars, hub, hmsg, fan, handed, offered, send,
                   closed, pmsg, conn, delivered, panicked, crashes>>

\* unregisterClient closes Send and the socket of a client only if it finds
\* that very client in the user's slice.
FoundInSlice(c) == c \in registered
FoundAlways(c) == TRUE                       \* faulty: `c == client` dropped

Found(c) == FoundInSlice(c)

UnregisterClient(c) ==
    /\ registered' = registered \ {c}
    /\ closed' = [closed EXCEPT ![c] = @ \/ Found(c)]
    /\ conn' = [conn EXCEPT ![c] = IF Found(c) THEN "closed" ELSE @]
    /\ panicked' = (panicked \/ (Found(c) /\ closed[c]))

\* case client := <-h.unregister, sent by the reader goroutine ...
HubUnregisterReader(c) ==
    /\ hub = "select"
    /\ reader[c] = "unreg"
    /\ reader' = [reader EXCEPT ![c] = "done"]
    /\ UnregisterClient(c)
    /\ UNCHANGED <<brokerVars, watcherVars, hub, hmsg, fan, handed, offered, send,
                   handler, pump, pmsg, delivered, crashes>>

\* ... or by writePump.
HubUnregisterPump(c) ==
    /\ hub = "select"
    /\ pump[c] = "unreg"
    /\ pump' = [pump EXCEPT ![c] = "done"]
    /\ UnregisterClient(c)
    /\ UNCHANGED <<brokerVars, watcherVars, hub, hmsg, fan, handed, offered, send,
                   handler, reader, pmsg, delivered, crashes>>

\* The clients a notification goes to: h.clients[notification.UserID].
AudienceOf(m) == {c \in registered : UserOf[c] = m.user}
AudienceAll(m) == registered                 \* faulty: not keyed by the user

Audience(m) == AudienceOf(m)

\* case notification := <-h.broadcast: the watcher's send completes.
HubBroadcast ==
    /\ hub = "select"
    /\ watcher = "sending"
    /\ hub' = "fanout"
    /\ hmsg' = wmsg
    /\ fan' = Audience(wmsg)
    /\ handed' = handed \cup {wmsg.id}
    /\ offered' = [offered EXCEPT ![wmsg.user] = @ + 1]
    /\ watcher' = "acking"
    /\ UNCHANGED <<brokerVars, wmsg, rejected, registered, clientVars,
                   panicked, crashes>>

\* A buffered channel refuses a send when it holds SendCap elements.
FullAtCap(c) == Len(send[c]) >= SendCap
FullEarly(c) == Len(send[c]) >= SendCap - 1  \* faulty: off by one

Full(c) == FullAtCap(c)

\* One iteration of the loop, the send taken: select { case Send <- n: ... }.
FanOutSend(c) ==
    /\ hub = "fanout"
    /\ c \in fan
    /\ closed[c] \/ ~Full(c)
    /\ panicked' = (panicked \/ closed[c])
    /\ send' = [send EXCEPT ![c] = IF closed[c] THEN @ ELSE Append(@, hmsg)]
    /\ fan' = fan \ {c}
    /\ UNCHANGED <<brokerVars, watcherVars, hub, hmsg, registered, handed, offered,
                   closed, handler, reader, pump, pmsg, conn, delivered, crashes>>

\* One iteration, Send full: `default: h.unregister <- client`.  Only Run
\* receives from h.unregister, and Run is the goroutine that sends.
FanOutFull(c) ==
    /\ hub = "fanout"
    /\ c \in fan
    /\ ~closed[c]
    /\ Full(c)
    /\ hub' = "blocked"
    /\ fan' = {c}
    /\ UNCHANGED <<brokerVars, watcherVars, hmsg, registered, handed, offered,
                   clientVars, panicked, crashes>>

FanOutDone ==
    /\ hub = "fanout"
    /\ fan = {}
    /\ hub' = "select"
    /\ hmsg' = NoMessage
    /\ UNCHANGED <<brokerVars, watcherVars, fan, registered, handed, offered,
                   clientVars, panicked, crashes>>

-----------------------------------------------------------------------------
Watch == Receive \/ Reject \/ Ack
Run == HubBroadcast \/ FanOutDone
          \/ \E c \in Clients : \/ HubRegister(c) \/ HubUnregisterReader(c)
                                \/ HubUnregisterPump(c)
                                \/ FanOutSend(c) \/ FanOutFull(c)
Browser(c) == Connect(c) \/ PeerGone(c)
Client(c) == ReadError(c) \/ PumpTake(c) \/ WriteOk(c) \/ PumpExit(c)

Next ==
    \/ \E u \in Users \cup {Malformed} : Publish(u)
    \/ Crash
    \/ Watch
    \/ Run
    \/ \E c \in Clients : Browser(c) \/ Client(c)

Spec == Init /\ [][Next]_vars

(***************************************************************************)
(* Every goroutine that can run is eventually scheduled, and a select      *)
(* picks each ready case eventually (the Go runtime chooses uniformly).    *)
(* WriteOk is not fair: a socket without a write deadline may block its    *)
(* writePump forever.  Publishers, browsers and crashes are not fair.      *)
(***************************************************************************)
Fairness ==
    /\ WF_vars(Watch)
    /\ WF_vars(HubBroadcast)
    /\ WF_vars(FanOutDone)
    /\ \A c \in Clients :
          /\ WF_vars(HubRegister(c))
          /\ WF_vars(HubUnregisterReader(c))
          /\ WF_vars(HubUnregisterPump(c))
          /\ WF_vars(FanOutSend(c))
          /\ WF_vars(FanOutFull(c))
          /\ WF_vars(ReadError(c))
          /\ WF_vars(PumpTake(c))
          /\ WF_vars(PumpExit(c))

FairSpec == Spec /\ Fairness

-----------------------------------------------------------------------------
(* Properties.                                                             *)

\* Every goroutine is at one of its control points, and queues, channels and
\* sockets carry notifications only.
TypeOK ==
    /\ queue \in Seq(Message)
    /\ published \in 0..MaxMessages
    /\ watcher \in {"idle", "sending", "acking"}
    /\ wmsg \in Message \cup {NoMessage}
    /\ hub \in {"select", "fanout", "blocked"}
    /\ hmsg \in Message \cup {NoMessage}
    /\ fan \subseteq Clients
    /\ registered \subseteq Clients
    /\ send \in [Clients -> Seq(Message)]
    /\ closed \in [Clients -> BOOLEAN]
    /\ handler \in [Clients -> {"idle", "registering", "done"}]
    /\ reader \in [Clients -> {"none", "reading", "unreg", "done"}]
    /\ pump \in [Clients -> {"none", "ranging", "writing", "unreg", "done"}]
    /\ pmsg \in [Clients -> Message \cup {NoMessage}]
    /\ conn \in [Clients -> {"none", "open", "gone", "closed"}]
    /\ panicked \in BOOLEAN
    /\ crashes \in 0..MaxCrashes
    /\ handed \subseteq Ids
    /\ offered \in [Users -> Nat]
    /\ rejected \subseteq Ids
    /\ delivered \in [Clients -> Seq(Message)]

\* No goroutine ever sends on a closed Send channel or closes it twice, in
\* spite of both the reader and writePump unregistering every client.
NoPanic == ~panicked

\* A message leaves notify.q for good only after the hub took it or because
\* it does not parse: no crash between delivery and hand-off loses one.
NothingLost ==
    \A n \in 1..published :
        \/ \E i \in DOMAIN queue : queue[i].id = n
        \/ watcher # "idle" /\ wmsg.id = n
        \/ n \in handed \cup rejected

\* One connection sees the notifications of its own user only, in the order
\* they were published, none twice -- whatever was redelivered to others.
DeliveredInOrder ==
    \A c \in Clients :
        /\ \A i \in DOMAIN delivered[c] : delivered[c][i].user = UserOf[c]
        /\ \A i, j \in DOMAIN delivered[c] :
              i < j => delivered[c][i].id < delivered[c][j].id

\* Run can block on its own unregister channel only after more broadcasts
\* to one user than a Send channel holds.
BlockedOnlyPastCapacity ==
    hub = "blocked" => \A c \in fan : offered[UserOf[c]] > SendCap

\* A client that left is eventually out of the hub and both its goroutines
\* have ended (no goroutine leak), unless Run got stuck on its own channel.
GoneIsForgotten ==
    \A c \in Clients :
        (conn[c] = "gone" /\ handler[c] = "done")
            ~> (\/ /\ c \notin registered
                   /\ reader[c] \in {"none", "done"}
                   /\ pump[c] \in {"none", "done"}
                \/ hub = "blocked")

\* Every published message is eventually taken by the hub or rejected, through
\* crashes and redeliveries, unless Run got stuck on its own channel.
EveryMessageLeavesQueue ==
    \A n \in Ids :
        (published >= n) ~> (n \in handed \cup rejected \/ hub = "blocked")

\* hub.go:99: "Client's send channel is full, disconnect them".
SlowClientIsDisconnected ==
    \A c \in Clients :
        (hub = "blocked" /\ c \in fan) ~> (c \notin registered)
=============================================================================
