-------------------------- MODULE NotificationHubProofs --------------------------
(***************************************************************************)
(* Safety of the notification path for any number of users, clients,       *)
(* messages and crashes and any channel capacity.  The properties are not  *)
(* inductive: they need to know what each goroutine holds while it is in   *)
(* mid-operation (Held), that a client in Hub.clients has an open channel  *)
(* and that a fan-out in progress only visits such clients (Registration), *)
(* and that a Send channel never holds more than was offered to its user   *)
(* (Counted).  That nothing overtakes on the way is an order on all the    *)
(* places between the queue and the client (Ordered): the messages of a    *)
(* user at each place are sorted, and whatever is at a later place came    *)
(* before what is at an earlier one.                                       *)
(***************************************************************************)
EXTENDS NotificationHub, TLAPS

Held ==
    /\ watcher # "idle" => wmsg \in Message /\ wmsg.user \in Users
    /\ hub = "fanout" => hmsg \in Message
    /\ \A c \in Clients : pump[c] = "writing" => pmsg[c] \in Message

Registration ==
    /\ hub = "select" => fan = {}
    /\ fan \subseteq registered
    /\ \A c \in Clients : c \in registered => ~closed[c] /\ handler[c] = "done"
    /\ \A c \in Clients :
          handler[c] # "done" => reader[c] = "none" /\ pump[c] = "none" /\ ~closed[c]

Pending(c) == IF hub = "fanout" /\ c \in fan THEN 1 ELSE 0

Counted ==
    \A c \in Clients : Len(send[c]) + Pending(c) <= offered[UserOf[c]]

Typed == TypeOK /\ Held

\* Every goroutine's state has its type, and each goroutine that is in the
\* middle of handling a notification holds a real one (processMessage never
\* hands on a message that did not parse).
LEMMA TypedInvariant == Spec => []Typed
<1> USE HubAssumption
<1>1. Init => Typed
  <2> SUFFICES ASSUME Init PROVE Typed
    OBVIOUS
  <2>1. <<>> \in Seq(Message)
    OBVIOUS
  <2>2. [c \in Clients |-> NoMessage] \in [Clients -> Message \cup {NoMessage}]
    OBVIOUS
  <2>3. [c \in Clients |-> <<>>] \in [Clients -> Seq(Message)]
    BY <2>1
  <2>4. queue \in Seq(Message) /\ send \in [Clients -> Seq(Message)]
        /\ delivered \in [Clients -> Seq(Message)]
    BY <2>1, <2>3 DEF Init
  <2>5. TypeOK
    <3>1. /\ published \in 0..MaxMessages
          /\ crashes \in 0..MaxCrashes
          /\ offered \in [Users -> Nat]
          /\ pmsg \in [Clients -> Message \cup {NoMessage}]
      BY <2>2 DEF Init
    <3>2. /\ closed \in [Clients -> BOOLEAN]
          /\ handler \in [Clients -> {"idle", "registering", "done"}]
          /\ reader \in [Clients -> {"none", "reading", "unreg", "done"}]
          /\ pump \in [Clients -> {"none", "ranging", "writing", "unreg", "done"}]
          /\ conn \in [Clients -> {"none", "open", "gone", "closed"}]
      BY DEF Init
    <3> QED
      BY <2>4, <3>1, <3>2 DEF Init, TypeOK
  <2>6. Held
    BY DEF Init, Held
  <2> QED
    BY <2>5, <2>6 DEF Typed
<1>2. Typed /\ [Next]_vars => Typed'
  <2> SUFFICES ASSUME Typed, [Next]_vars PROVE Typed'
    OBVIOUS
  <2> USE DEF Typed, TypeOK, Held
  <2>1. ASSUME NEW u \in Users \cup {Malformed}, Publish(u) PROVE Typed'
    <3>1. [id |-> published + 1, user |-> u] \in Message
      BY <2>1 DEF Publish, Message, Ids
    <3> QED
      BY <2>1, <3>1 DEF Publish, watcherVars, hubVars, clientVars
  <2>2. CASE Crash
    <3>1. Requeued \in Seq(Message)
      BY DEF Requeued, Unacked, HeldUntilAck
    <3> QED
      BY <2>2, <3>1 DEF Crash
  <2>3. CASE Receive
    <3>1. Head(queue) \in Message /\ Tail(queue) \in Seq(Message)
      BY <2>3 DEF Receive
    <3>2. Head(queue).user \in Users
      BY <2>3, <3>1 DEF Receive, Message
    <3> QED
      BY <2>3, <3>1, <3>2 DEF Receive, hubVars, clientVars
  <2>4. CASE Reject
    <3>1. Head(queue) \in Message /\ Tail(queue) \in Seq(Message)
      BY <2>4 DEF Reject
    <3>2. Head(queue).id \in Ids
      BY <3>1 DEF Message
    <3> QED
      BY <2>4, <3>1, <3>2 DEF Reject, hubVars, clientVars
  <2>5. CASE Ack
    BY <2>5 DEF Ack, brokerVars, hubVars, clientVars
  <2>6. CASE HubBroadcast
    <3>1. wmsg \in Message /\ wmsg.id \in Ids
      BY <2>6 DEF HubBroadcast, Message
    <3>2. Audience(wmsg) \subseteq Clients
      BY DEF Audience, AudienceOf
    <3> QED
      BY <2>6, <3>1, <3>2 DEF HubBroadcast, brokerVars, clientVars
  <2>7. CASE FanOutDone
    BY <2>7 DEF FanOutDone, brokerVars, watcherVars, clientVars
  <2>8. ASSUME NEW c \in Clients, HubRegister(c) PROVE Typed'
    BY <2>8 DEF HubRegister, brokerVars, watcherVars
  <2>9. ASSUME NEW c \in Clients, HubUnregisterReader(c) PROVE Typed'
    BY <2>9 DEF HubUnregisterReader, UnregisterClient, Found, FoundInSlice,
                brokerVars, watcherVars
  <2>10. ASSUME NEW c \in Clients, HubUnregisterPump(c) PROVE Typed'
    BY <2>10 DEF HubUnregisterPump, UnregisterClient, Found, FoundInSlice,
                 brokerVars, watcherVars
  <2>11. ASSUME NEW c \in Clients, FanOutSend(c) PROVE Typed'
    <3>1. Append(send[c], hmsg) \in Seq(Message)
      BY <2>11 DEF FanOutSend
    <3> QED
      BY <2>11, <3>1 DEF FanOutSend, brokerVars, watcherVars
  <2>12. ASSUME NEW c \in Clients, FanOutFull(c) PROVE Typed'
    BY <2>12 DEF FanOutFull, brokerVars, watcherVars, clientVars
  <2>13. ASSUME NEW c \in Clients, Browser(c) PROVE Typed'
    BY <2>13 DEF Browser, Connect, PeerGone, brokerVars, watcherVars, hubVars
  <2>14. ASSUME NEW c \in Clients, ReadError(c) PROVE Typed'
    BY <2>14 DEF ReadError, AfterReadError, ReaderDefers, brokerVars, watcherVars, hubVars
  <2>15. ASSUME NEW c \in Clients, PumpTake(c) PROVE Typed'
    <3>1. Head(send[c]) \in Message /\ Tail(send[c]) \in Seq(Message)
      BY <2>15 DEF PumpTake
    <3> QED
      BY <2>15, <3>1 DEF PumpTake, brokerVars, watcherVars, hubVars
  <2>16. ASSUME NEW c \in Clients, WriteOk(c) PROVE Typed'
    <3>1. Append(delivered[c], pmsg[c]) \in Seq(Message)
      BY <2>16 DEF WriteOk
    <3> QED
      BY <2>16, <3>1 DEF WriteOk, brokerVars, watcherVars, hubVars
  <2>17. ASSUME NEW c \in Clients, PumpExit(c) PROVE Typed'
    BY <2>17 DEF PumpExit, brokerVars, watcherVars, hubVars
  <2>18. CASE UNCHANGED vars
    BY <2>18 DEF vars, brokerVars, watcherVars, hubVars, clientVars
  <2> QED
    BY <2>1, <2>2, <2>3, <2>4, <2>5, <2>6, <2>7, <2>8, <2>9, <2>10, <2>11,
       <2>12, <2>13, <2>14, <2>15, <2>16, <2>17, <2>18
       DEF Next, Watch, Run, Client
<1> QED
  BY <1>1, <1>2, PTL DEF Spec

\* The type invariant of the goroutines, queues, channels and sockets.
THEOREM TypeSafety == Spec => []TypeOK
  BY TypedInvariant, PTL DEF Typed

\* A registered client's channel is open, and Run only fans out to registered
\* clients: what NoPanic rests on.
LEMMA RegistrationInvariant == Spec => [](Registration /\ NoPanic)
<1> USE HubAssumption
<1>1. Init => Registration /\ NoPanic
  BY DEF Init, Registration, NoPanic
<1>2. Typed /\ Registration /\ NoPanic /\ [Next]_vars => Registration' /\ NoPanic'
  <2> SUFFICES ASSUME Typed, Registration, NoPanic, [Next]_vars
               PROVE  Registration' /\ NoPanic'
    OBVIOUS
  <2> USE DEF Typed, TypeOK, Registration, NoPanic
  <2>1. ASSUME NEW u \in Users \cup {Malformed}, Publish(u)
        PROVE  Registration' /\ NoPanic'
    BY <2>1 DEF Publish, hubVars, clientVars
  <2>2. CASE Crash
    BY <2>2 DEF Crash
  <2>3. CASE Watch
    BY <2>3 DEF Watch, Receive, Reject, Ack, hubVars, clientVars
  <2>4. CASE HubBroadcast
    BY <2>4 DEF HubBroadcast, Audience, AudienceOf, clientVars
  <2>5. CASE FanOutDone
    BY <2>5 DEF FanOutDone, clientVars
  <2>6. ASSUME NEW c \in Clients, HubRegister(c) PROVE Registration' /\ NoPanic'
    BY <2>6 DEF HubRegister
  <2>7. ASSUME NEW c \in Clients, HubUnregisterReader(c) PROVE Registration' /\ NoPanic'
    BY <2>7 DEF HubUnregisterReader, UnregisterClient, Found, FoundInSlice
  <2>8. ASSUME NEW c \in Clients, HubUnregisterPump(c) PROVE Registration' /\ NoPanic'
    BY <2>8 DEF HubUnregisterPump, UnregisterClient, Found, FoundInSlice
  <2>9. ASSUME NEW c \in Clients, FanOutSend(c) PROVE Registration' /\ NoPanic'
    BY <2>9 DEF FanOutSend
  <2>10. ASSUME NEW c \in Clients, FanOutFull(c) PROVE Registration' /\ NoPanic'
    BY <2>10 DEF FanOutFull, clientVars
  <2>11. ASSUME NEW c \in Clients, Browser(c) PROVE Registration' /\ NoPanic'
    BY <2>11 DEF Browser, Connect, PeerGone, hubVars
  <2>12. ASSUME NEW c \in Clients, Client(c) PROVE Registration' /\ NoPanic'
    BY <2>12 DEF Client, ReadError, PumpTake, WriteOk, PumpExit, hubVars
  <2>13. CASE UNCHANGED vars
    BY <2>13 DEF vars, hubVars, clientVars
  <2> QED
    BY <2>1, <2>2, <2>3, <2>4, <2>5, <2>6, <2>7, <2>8, <2>9, <2>10, <2>11,
       <2>12, <2>13 DEF Next, Run
<1> QED
  BY <1>1, <1>2, TypedInvariant, PTL DEF Spec

\* However the reader goroutine, writePump and the broadcasts interleave, Run
\* never sends on a closed Send channel and never closes one twice.
THEOREM ChannelsAreSafe == Spec => []NoPanic
  BY RegistrationInvariant, PTL

\* The self-deadlock of Run (a send on its own unregister channel) needs more
\* than SendCap broadcasts to one user: a Send channel is filled by broadcasts
\* to its user only, one each.
THEOREM BlockNeedsFullChannel == Spec => []BlockedOnlyPastCapacity
<1> USE HubAssumption
<1>1. Init => Counted /\ BlockedOnlyPastCapacity
  BY DEF Init, Counted, Pending, BlockedOnlyPastCapacity
<1>2. Typed /\ Registration /\ Counted /\ BlockedOnlyPastCapacity /\ [Next]_vars
        => Counted' /\ BlockedOnlyPastCapacity'
  <2> SUFFICES ASSUME Typed, Registration, Counted, BlockedOnlyPastCapacity, [Next]_vars
               PROVE  Counted' /\ BlockedOnlyPastCapacity'
    OBVIOUS
  <2> USE DEF Typed, TypeOK, Counted, Pending, BlockedOnlyPastCapacity
  <2>1. ASSUME NEW u \in Users \cup {Malformed}, Publish(u)
        PROVE  Counted' /\ BlockedOnlyPastCapacity'
    BY <2>1 DEF Publish, hubVars, clientVars
  <2>2. CASE Crash
    BY <2>2 DEF Crash
  <2>3. CASE Watch
    BY <2>3 DEF Watch, Receive, Reject, Ack, hubVars, clientVars
  <2>4. CASE HubBroadcast
    <3>1. wmsg.user \in Users /\ fan = {} /\ hub' = "fanout"
      BY <2>4 DEF HubBroadcast, Held, Registration
    <3>2. \A c \in fan' : UserOf[c] = wmsg.user
      BY <2>4 DEF HubBroadcast, Audience, AudienceOf
    <3> QED
      BY <2>4, <3>1, <3>2 DEF HubBroadcast, clientVars
  <2>5. CASE FanOutDone
    BY <2>5 DEF FanOutDone, clientVars
  <2>6. ASSUME NEW c \in Clients, HubRegister(c)
        PROVE  Counted' /\ BlockedOnlyPastCapacity'
    BY <2>6 DEF HubRegister
  <2>7. ASSUME NEW c \in Clients, HubUnregisterReader(c)
        PROVE  Counted' /\ BlockedOnlyPastCapacity'
    BY <2>7 DEF HubUnregisterReader
  <2>8. ASSUME NEW c \in Clients, HubUnregisterPump(c)
        PROVE  Counted' /\ BlockedOnlyPastCapacity'
    BY <2>8 DEF HubUnregisterPump
  <2>9. ASSUME NEW c \in Clients, FanOutSend(c)
        PROVE  Counted' /\ BlockedOnlyPastCapacity'
    <3>1. hmsg \in Message /\ c \in fan /\ hub' = "fanout" /\ fan' = fan \ {c}
      BY <2>9 DEF FanOutSend, Held
    <3>2. Len(Append(send[c], hmsg)) = Len(send[c]) + 1
      BY <3>1
    <3>3. Len(send'[c]) <= Len(send[c]) + 1
      BY <2>9, <3>2 DEF FanOutSend
    <3>4. \A d \in Clients \ {c} : send'[d] = send[d]
      BY <2>9 DEF FanOutSend
    <3>5. offered' = offered /\ hub = "fanout"
      BY <2>9 DEF FanOutSend
    <3>6. send' \in [Clients -> Seq(Message)]
      BY <2>9, <3>1 DEF FanOutSend
    <3>7. Len(send'[c]) + 0 <= offered[UserOf[c]]
      BY <3>1, <3>3, <3>5, <3>6
    <3>8. \A d \in Clients \ {c} : Len(send'[d]) + Pending(d) <= offered[UserOf[d]]
      BY <3>4
    <3>9. \A d \in Clients : (d \in fan') <=> (d \in fan /\ d # c)
      BY <3>1
    <3> QED
      BY <3>1, <3>5, <3>7, <3>8, <3>9
  <2>10. ASSUME NEW c \in Clients, FanOutFull(c)
         PROVE  Counted' /\ BlockedOnlyPastCapacity'
    <3>1. Len(send[c]) >= SendCap /\ c \in fan /\ hub = "fanout"
      BY <2>10 DEF FanOutFull, Full, FullAtCap
    <3>2. offered[UserOf[c]] > SendCap
      BY <3>1
    <3>3. hub' = "blocked" /\ fan' = {c} /\ offered' = offered /\ send' = send
      BY <2>10 DEF FanOutFull, clientVars
    <3>4. \A d \in Clients : Len(send[d]) \in Nat /\ offered[UserOf[d]] \in Nat
      OBVIOUS
    <3>5. ASSUME NEW d \in Clients PROVE Len(send[d]) <= offered[UserOf[d]]
      <4>1. Len(send[d]) + Pending(d) <= offered[UserOf[d]] /\ Pending(d) \in {0, 1}
        OBVIOUS
      <4>2. Len(send[d]) \in Nat /\ offered[UserOf[d]] \in Nat
        BY <3>4
      <4> HIDE DEF Pending
      <4> QED
        BY <4>1, <4>2
    <3> QED
      BY <3>2, <3>3, <3>4, <3>5
  <2>11. ASSUME NEW c \in Clients, Browser(c)
         PROVE  Counted' /\ BlockedOnlyPastCapacity'
    BY <2>11 DEF Browser, Connect, PeerGone, hubVars
  <2>12. ASSUME NEW c \in Clients, PumpTake(c)
         PROVE  Counted' /\ BlockedOnlyPastCapacity'
    <3>1. Len(Tail(send[c])) <= Len(send[c]) /\ send[c] \in Seq(Message)
      BY <2>12 DEF PumpTake
    <3>2. send' \in [Clients -> Seq(Message)] /\ send'[c] = Tail(send[c])
      BY <2>12, <3>1 DEF PumpTake
    <3>3. \A d \in Clients : Len(send'[d]) <= Len(send[d])
      BY <2>12, <3>1, <3>2 DEF PumpTake
    <3>4. \A d \in Clients : Len(send'[d]) \in Nat /\ Len(send[d]) \in Nat
      BY <3>2
    <3>5. UNCHANGED <<hub, fan, offered>>
      BY <2>12 DEF PumpTake, hubVars
    <3>6. \A d \in Clients : Pending(d)' = Pending(d) /\ Pending(d) \in {0, 1}
                              /\ offered[UserOf[d]] \in Nat
      BY <3>5
    <3>7. BlockedOnlyPastCapacity'
      BY <3>5
    <3>8. \A d \in Clients : Len(send[d]) + Pending(d) <= offered[UserOf[d]]
      OBVIOUS
    <3>9. Counted'
      <4> SUFFICES ASSUME NEW d \in Clients
                   PROVE  Len(send'[d]) + Pending(d)' <= offered'[UserOf[d]]
        BY DEF Counted
      <4> HIDE DEF Pending, Typed, TypeOK, Counted, BlockedOnlyPastCapacity
      <4>1. Len(send'[d]) <= Len(send[d]) /\ Len(send'[d]) \in Nat /\ Len(send[d]) \in Nat
        BY <3>3, <3>4
      <4>2. Pending(d)' = Pending(d) /\ Pending(d) \in Nat /\ offered[UserOf[d]] \in Nat
        BY <3>6
      <4>3. Len(send[d]) + Pending(d) <= offered[UserOf[d]]
        BY <3>8
      <4>4. offered' = offered
        BY <3>5
      <4> QED
        BY <4>1, <4>2, <4>3, <4>4
    <3> QED
      BY <3>7, <3>9
  <2>13. ASSUME NEW c \in Clients, ReadError(c) \/ WriteOk(c) \/ PumpExit(c)
         PROVE  Counted' /\ BlockedOnlyPastCapacity'
    BY <2>13 DEF ReadError, WriteOk, PumpExit, hubVars
  <2>14. CASE UNCHANGED vars
    BY <2>14 DEF vars, hubVars, clientVars
  <2> QED
    BY <2>1, <2>2, <2>3, <2>4, <2>5, <2>6, <2>7, <2>8, <2>9, <2>10, <2>11,
       <2>12, <2>13, <2>14 DEF Next, Run, Client
<1> QED
  BY <1>1, <1>2, TypedInvariant, RegistrationInvariant, PTL DEF Spec

InQueue(n) == \E i \in DOMAIN queue : queue[i].id = n

AckedWasHanded == watcher = "acking" => wmsg.id \in handed

\* Between the broker, the watcher and the hub no published message is ever
\* lost: whatever the gateway's crashes interrupt is redelivered.
THEOREM NothingIsLost == Spec => []NothingLost
<1> DEFINE IInv == NothingLost /\ AckedWasHanded
<1> USE HubAssumption
<1>1. Init => IInv
  BY DEF Init, NothingLost, AckedWasHanded
<1>2. Typed /\ IInv /\ [Next]_vars => IInv'
  <2> SUFFICES ASSUME Typed, IInv, [Next]_vars PROVE IInv'
    OBVIOUS
  <2> DEFINE Safe(n) == \/ InQueue(n)
                        \/ watcher # "idle" /\ wmsg.id = n
                        \/ n \in handed \cup rejected
  <2>0. /\ queue \in Seq(Message) /\ published \in Nat
        /\ \A n \in 1..published : Safe(n)
    BY DEF Typed, TypeOK, NothingLost, InQueue
  <2>a. ASSUME published' = published, \A n \in 1..published : Safe(n)'
        PROVE  NothingLost'
    BY <2>a DEF NothingLost, InQueue
  <2> HIDE DEF Safe
  <2>1. ASSUME NEW u \in Users \cup {Malformed}, Publish(u) PROVE IInv'
    <3> DEFINE m == [id |-> published + 1, user |-> u]
    <3>1. /\ published' = published + 1
          /\ queue' = Append(queue, m)
          /\ UNCHANGED <<watcher, wmsg, handed, rejected>>
      BY <2>1 DEF Publish, watcherVars, hubVars
    <3>2. /\ \A i \in DOMAIN queue : i \in DOMAIN queue' /\ queue'[i] = queue[i]
          /\ Len(queue) + 1 \in DOMAIN queue' /\ queue'[Len(queue) + 1] = m
      BY <2>0, <3>1
    <3>3. \A n \in 1..published : Safe(n)'
      BY <2>0, <3>1, <3>2 DEF Safe, InQueue
    <3>4. ASSUME NEW n, n = published + 1 PROVE Safe(n)'
      BY <3>2, <3>4 DEF Safe, InQueue
    <3>5. NothingLost'
      <4> SUFFICES ASSUME NEW n \in 1..published' PROVE Safe(n)'
        BY DEF NothingLost, Safe, InQueue
      <4>1. n \in 1..published \/ n = published + 1
        BY <2>0, <3>1
      <4> QED
        BY <4>1, <3>3, <3>4
    <3> QED
      BY <3>1, <3>5 DEF AckedWasHanded
  <2>2. CASE Crash
    <3>1. /\ UNCHANGED <<published, handed, rejected>>
          /\ watcher' = "idle"
          /\ queue' = IF watcher = "idle" THEN queue ELSE <<wmsg>> \o queue
      BY <2>2 DEF Crash, Requeued, Unacked, HeldUntilAck
    <3>2. ASSUME NEW n \in 1..published PROVE Safe(n)'
      <4>1. CASE watcher = "idle"
        BY <2>0, <3>1, <4>1 DEF Safe, InQueue
      <4>2. CASE watcher # "idle"
        <5>1. /\ 1 \in DOMAIN queue' /\ queue'[1] = wmsg
              /\ \A i \in DOMAIN queue : i + 1 \in DOMAIN queue' /\ queue'[i + 1] = queue[i]
          BY <2>0, <3>1, <4>2
        <5> QED
          BY ZenonT(60), <2>0, <3>1, <5>1 DEF Safe, InQueue
      <4> QED
        BY <4>1, <4>2
    <3> QED
      BY <2>a, <3>1, <3>2 DEF AckedWasHanded
  <2>3. CASE Receive \/ Reject
    <3>1. /\ watcher = "idle" /\ queue # <<>> /\ queue' = Tail(queue)
          /\ UNCHANGED <<published, handed>>
          /\ \/ watcher' = "sending" /\ wmsg' = Head(queue) /\ UNCHANGED rejected
             \/ watcher' = "idle" /\ rejected' = rejected \cup {Head(queue).id}
      BY <2>3 DEF Receive, Reject, hubVars
    <3>2. /\ queue[1] = Head(queue)
          /\ \A i \in DOMAIN queue : i # 1 =>
                i - 1 \in DOMAIN queue' /\ queue'[i - 1] = queue[i]
      BY <2>0, <3>1
    <3>3. ASSUME NEW n \in 1..published PROVE Safe(n)'
      <4>1. CASE InQueue(n)
        <5>1. PICK i \in DOMAIN queue : queue[i].id = n
          BY <4>1 DEF InQueue
        <5>2. CASE i = 1
          BY <3>1, <3>2, <5>1, <5>2 DEF Safe
        <5>3. CASE i # 1
          BY <3>2, <5>1, <5>3 DEF Safe, InQueue
        <5> QED
          BY <5>2, <5>3
      <4>2. CASE n \in handed \cup rejected
        BY <3>1, <4>2 DEF Safe
      <4> QED
        BY <2>0, <3>1, <4>1, <4>2 DEF Safe
    <3> QED
      BY <2>a, <3>1, <3>3 DEF AckedWasHanded
  <2>4. CASE Ack
    <3>1. /\ UNCHANGED <<queue, published, handed, rejected>>
          /\ watcher' = "idle" /\ wmsg.id \in handed
      BY <2>4 DEF Ack, AckedWasHanded, brokerVars, hubVars
    <3> QED
      BY <2>0, <2>a, <3>1 DEF Safe, InQueue, AckedWasHanded
  <2>5. CASE HubBroadcast
    <3>1. /\ UNCHANGED <<queue, published, wmsg, rejected>>
          /\ watcher' = "acking" /\ handed' = handed \cup {wmsg.id}
      BY <2>5 DEF HubBroadcast, brokerVars
    <3> QED
      BY <2>0, <2>a, <3>1 DEF Safe, InQueue, AckedWasHanded
  <2>6. ASSUME UNCHANGED <<queue, published, watcher, wmsg, handed, rejected>>
        PROVE  IInv'
    BY <2>6 DEF NothingLost, AckedWasHanded
  <2>7. CASE FanOutDone \/ UNCHANGED vars
    BY <2>6, <2>7 DEF FanOutDone, vars, brokerVars, watcherVars, hubVars
  <2>8. ASSUME NEW c \in Clients,
               HubRegister(c) \/ HubUnregisterReader(c) \/ HubUnregisterPump(c)
                   \/ FanOutSend(c) \/ FanOutFull(c)
        PROVE  IInv'
    BY <2>6, <2>8 DEF HubRegister, HubUnregisterReader, HubUnregisterPump,
                      FanOutSend, FanOutFull, brokerVars, watcherVars
  <2>9. ASSUME NEW c \in Clients, Browser(c) \/ Client(c) PROVE IInv'
    BY <2>6, <2>9 DEF Browser, Client, Connect, PeerGone, ReadError, PumpTake,
                      WriteOk, PumpExit, brokerVars, watcherVars, hubVars
  <2> QED
    BY <2>1, <2>2, <2>3, <2>4, <2>5, <2>7, <2>8, <2>9 DEF Next, Watch, Run
<1>3. IInv => NothingLost
  OBVIOUS
<1> QED
  BY <1>1, <1>2, <1>3, TypedInvariant, PTL DEF Spec

-----------------------------------------------------------------------------
(* The order of publication.  A notification passes through the queue, the *)
(* watcher, the fan-out, a Send channel and writePump; the ids at each of  *)
(* these places are above those at the next.                               *)

Sorted(s) == \A i, j \in DOMAIN s : i < j => s[i].id < s[j].id

\* Ids not yet broadcast: with the broker or in the watcher's hand.
Coming == {queue[i].id : i \in DOMAIN queue}
              \cup (IF watcher = "sending" THEN {wmsg.id} ELSE {})

\* What a client was given: written, buffered or being written.
Given(c) == {delivered[c][i] : i \in DOMAIN delivered[c]}
                \cup {send[c][j] : j \in DOMAIN send[c]}
                \cup (IF pump[c] = "writing" THEN {pmsg[c]} ELSE {})

\* ... in the order in which it was given.
Line(c) ==
    /\ Sorted(delivered[c])
    /\ Sorted(send[c])
    /\ \A i \in DOMAIN delivered[c] : \A j \in DOMAIN send[c] :
          delivered[c][i].id < send[c][j].id
    /\ pump[c] = "writing" =>
          /\ \A i \in DOMAIN delivered[c] : delivered[c][i].id < pmsg[c].id
          /\ \A j \in DOMAIN send[c] : pmsg[c].id < send[c][j].id

\* A connection that was not registered yet has been given nothing.
Fresh ==
    \A c \in Clients :
        /\ conn[c] = "none" => handler[c] = "idle"
        /\ handler[c] # "done" => delivered[c] = <<>> /\ send[c] = <<>>

\* Messages wait in the order of publication, what is fanned out comes before
\* them, and what a client that is still registered was given before both.
Waiting ==
    /\ Sorted(queue)
    /\ watcher # "idle" => \A i \in DOMAIN queue : wmsg.id < queue[i].id
    /\ hub = "fanout" => \A n \in Coming : hmsg.id < n

Earlier ==
    /\ \A c \in registered : \A m \in Given(c) : \A n \in Coming : m.id < n
    /\ hub = "fanout" => \A c \in fan : \A m \in Given(c) : m.id < hmsg.id

\* No id is beyond the last one published.
Known ==
    /\ \A n \in Coming : n <= published
    /\ watcher # "idle" => wmsg.id <= published
    /\ hub = "fanout" => hmsg.id <= published
    /\ \A c \in Clients : \A m \in Given(c) : m.id <= published

\* A client is given its own user's messages only.
OwnUser ==
    /\ \A c \in Clients : \A m \in Given(c) : m.user = UserOf[c]
    /\ hub = "fanout" => \A c \in fan : UserOf[c] = hmsg.user

Ordered == Fresh /\ (\A c \in Clients : Line(c)) /\ Waiting /\ Earlier /\ Known /\ OwnUser

LEMMA SortedTail ==
    ASSUME NEW s \in Seq(Message), s # <<>>, Sorted(s)
    PROVE  /\ Sorted(Tail(s))
           /\ \A i \in DOMAIN Tail(s) : Head(s).id < Tail(s)[i].id
           /\ \A i \in DOMAIN Tail(s) : \E j \in DOMAIN s : Tail(s)[i] = s[j]
           /\ 1 \in DOMAIN s /\ Head(s) = s[1]
<1>1. /\ Tail(s) \in Seq(Message)
      /\ Len(s) \in Nat \ {0} /\ DOMAIN s = 1..Len(s)
      /\ DOMAIN Tail(s) = 1..(Len(s) - 1)
      /\ Head(s) = s[1]
      /\ \A i \in 1..(Len(s) - 1) : Tail(s)[i] = s[i + 1]
  OBVIOUS
<1>2. \A i \in 1..(Len(s) - 1) : i + 1 \in DOMAIN s /\ 1 < i + 1
  BY <1>1
<1>3. Sorted(Tail(s))
  BY <1>1, <1>2 DEF Sorted
<1>4. \A i \in DOMAIN Tail(s) : Head(s).id < Tail(s)[i].id
  BY <1>1, <1>2 DEF Sorted
<1> QED
  BY <1>1, <1>2, <1>3, <1>4

LEMMA SortedAppend ==
    ASSUME NEW s \in Seq(Message), NEW m \in Message, Sorted(s),
           \A i \in DOMAIN s : s[i].id < m.id
    PROVE  Sorted(Append(s, m))
<1>1. /\ Len(s) \in Nat /\ DOMAIN s = 1..Len(s)
      /\ DOMAIN Append(s, m) = 1..(Len(s) + 1)
      /\ Append(s, m)[Len(s) + 1] = m
      /\ \A i \in 1..Len(s) : Append(s, m)[i] = s[i]
  OBVIOUS
<1>2. SUFFICES ASSUME NEW i \in 1..(Len(s) + 1), NEW j \in 1..(Len(s) + 1), i < j
               PROVE  Append(s, m)[i].id < Append(s, m)[j].id
  BY <1>1 DEF Sorted
<1>3. i \in 1..Len(s)
  BY <1>1, <1>2
<1>4. CASE j = Len(s) + 1
  BY <1>1, <1>3, <1>4
<1>5. CASE j \in 1..Len(s)
  BY <1>1, <1>2, <1>3, <1>5 DEF Sorted
<1> QED
  BY <1>1, <1>4, <1>5

LEMMA SortedCons ==
    ASSUME NEW s \in Seq(Message), NEW m \in Message, Sorted(s),
           \A i \in DOMAIN s : m.id < s[i].id
    PROVE  /\ Sorted(<<m>> \o s)
           /\ \A i \in DOMAIN (<<m>> \o s) :
                 (<<m>> \o s)[i] = m \/ \E j \in DOMAIN s : (<<m>> \o s)[i] = s[j]
<1>1. /\ Len(s) \in Nat /\ DOMAIN s = 1..Len(s)
      /\ DOMAIN (<<m>> \o s) = 1..(Len(s) + 1)
      /\ (<<m>> \o s)[1] = m
      /\ \A i \in 2..(Len(s) + 1) : i - 1 \in 1..Len(s) /\ (<<m>> \o s)[i] = s[i - 1]
  OBVIOUS
<1>2. \A i \in 1..(Len(s) + 1) : i = 1 \/ i \in 2..(Len(s) + 1)
  BY <1>1
<1>3. SUFFICES ASSUME NEW i \in 1..(Len(s) + 1), NEW j \in 1..(Len(s) + 1), i < j
               PROVE  (<<m>> \o s)[i].id < (<<m>> \o s)[j].id
  BY <1>1, <1>2 DEF Sorted
<1>4. j \in 2..(Len(s) + 1)
  BY <1>1, <1>3
<1>5. CASE i = 1
  BY <1>1, <1>4, <1>5
<1>6. CASE i \in 2..(Len(s) + 1)
  <2>1. i - 1 < j - 1
    BY <1>3
  <2> QED
    BY <1>1, <1>4, <1>6, <2>1 DEF Sorted
<1> QED
  BY <1>2, <1>5, <1>6

\* Everything given to a client is a message.
LEMMA GivenType ==
    ASSUME Typed, NEW c \in Clients
    PROVE  Given(c) \subseteq Message
  BY DEF Typed, TypeOK, Held, Given

\* Ids of messages are natural numbers.
LEMMA IdsAreNat == \A m \in Message : m.id \in Nat
  BY HubAssumption DEF Message, Ids

\* A step that leaves a client's channel, pump and socket alone.
LEMMA SameClient ==
    ASSUME NEW c \in Clients, send'[c] = send[c], delivered'[c] = delivered[c],
           pump'[c] = pump[c], pmsg'[c] = pmsg[c]
    PROVE  Given(c)' = Given(c) /\ (Line(c) => Line(c)')
  BY DEF Given, Line, Sorted

\* One that ends its pump, or starts it with an empty channel.
LEMMA PumpTurns ==
    ASSUME NEW c \in Clients, send'[c] = send[c], delivered'[c] = delivered[c],
           pump'[c] # "writing"
    PROVE  Given(c)' \subseteq Given(c) /\ (Line(c) => Line(c)')
  BY DEF Given, Line, Sorted

LEMMA TakeStep ==
    ASSUME Typed, NEW c \in Clients, Line(c), PumpTake(c)
    PROVE  Given(c)' \subseteq Given(c) /\ Line(c)'
<1>1. /\ send[c] \in Seq(Message) /\ send[c] # <<>> /\ Sorted(send[c])
      /\ \A i \in DOMAIN delivered[c] : \A j \in DOMAIN send[c] :
            delivered[c][i].id < send[c][j].id
  BY DEF Typed, TypeOK, PumpTake, Line
<1>2. /\ send'[c] = Tail(send[c]) /\ pmsg'[c] = Head(send[c]) /\ pump'[c] = "writing"
      /\ delivered' = delivered
  BY DEF Typed, TypeOK, PumpTake
<1>3. /\ Sorted(Tail(send[c]))
      /\ \A i \in DOMAIN Tail(send[c]) : Head(send[c]).id < Tail(send[c])[i].id
      /\ \A i \in DOMAIN Tail(send[c]) : \E j \in DOMAIN send[c] : Tail(send[c])[i] = send[c][j]
      /\ 1 \in DOMAIN send[c] /\ Head(send[c]) = send[c][1]
  BY <1>1, SortedTail
<1>4. Line(c)'
  BY <1>1, <1>2, <1>3 DEF Line, Sorted
<1>5. Given(c)' \subseteq Given(c)
  BY <1>2, <1>3 DEF Given
<1> QED
  BY <1>4, <1>5

LEMMA WriteStep ==
    ASSUME Typed, NEW c \in Clients, Line(c), WriteOk(c)
    PROVE  Given(c)' \subseteq Given(c) /\ Line(c)'
<1> DEFINE old == delivered[c]
           m == pmsg[c]
<1>1. /\ old \in Seq(Message) /\ m \in Message /\ Sorted(old) /\ Sorted(send[c])
      /\ \A i \in DOMAIN old : old[i].id < m.id
      /\ \A j \in DOMAIN send[c] : m.id < send[c][j].id
      /\ \A i \in DOMAIN old : \A j \in DOMAIN send[c] : old[i].id < send[c][j].id
  BY DEF Typed, TypeOK, Held, WriteOk, Line
<1>2. /\ delivered'[c] = Append(old, m) /\ send' = send /\ pump'[c] = "ranging"
      /\ pump[c] = "writing"
  BY DEF Typed, TypeOK, WriteOk
<1>3. Sorted(Append(old, m))
  BY <1>1, SortedAppend
<1>4. \A i \in DOMAIN Append(old, m) :
         Append(old, m)[i] = m \/ \E k \in DOMAIN old : Append(old, m)[i] = old[k]
  BY <1>1
<1> HIDE DEF old, m
<1>5. Line(c)'
  BY <1>1, <1>2, <1>3, <1>4 DEF Line, Sorted
<1>6. Given(c)' \subseteq Given(c)
  BY <1>2, <1>4 DEF Given, old, m
<1> QED
  BY <1>5, <1>6

LEMMA SendStep ==
    ASSUME Typed, NoPanic, NEW c \in Clients, Line(c), FanOutSend(c),
           \A m \in Given(c) : m.id < hmsg.id
    PROVE  Given(c)' \subseteq Given(c) \cup {hmsg} /\ Line(c)'
<1> DEFINE new == Append(send[c], hmsg)
<1>1. /\ send[c] \in Seq(Message) /\ hmsg \in Message /\ Sorted(send[c])
      /\ \A j \in DOMAIN send[c] : send[c][j].id < hmsg.id
      /\ \A i \in DOMAIN delivered[c] : delivered[c][i].id < hmsg.id
      /\ pump[c] = "writing" => pmsg[c].id < hmsg.id
  BY DEF Typed, TypeOK, Held, FanOutSend, Line, Given
<1>2. /\ send'[c] \in {send[c], new}
      /\ UNCHANGED <<delivered, pump, pmsg>>
  BY DEF Typed, TypeOK, FanOutSend
<1>3. Sorted(new)
  BY <1>1, SortedAppend
<1>4. \A i \in DOMAIN new : new[i] = hmsg \/ \E k \in DOMAIN send[c] : new[i] = send[c][k]
  BY <1>1
<1> HIDE DEF new
<1>5. Line(c)'
  BY <1>1, <1>2, <1>3, <1>4 DEF Line, Sorted
<1>6. Given(c)' \subseteq Given(c) \cup {hmsg}
  BY <1>2, <1>4 DEF Given
<1> QED
  BY <1>5, <1>6

\* What the steps of the system do to one client's line.
LEMMA GivenSteps ==
    ASSUME Typed, Registration, NoPanic, Fresh, Earlier, [Next]_vars,
           NEW c \in Clients, Line(c)
    PROVE  /\ Line(c)'
           /\ \/ Given(c)' \subseteq Given(c)
              \/ FanOutSend(c) /\ Given(c)' \subseteq Given(c) \cup {hmsg}
<1> USE DEF Typed, TypeOK
<1>1. CASE UNCHANGED <<send, pump, pmsg, delivered>>
  BY <1>1, SameClient
<1>2. CASE Crash
  BY <1>2 DEF Crash, Line, Sorted, Given
<1>3. ASSUME NEW d \in Clients, HubRegister(d) PROVE Line(c)' /\ Given(c)' \subseteq Given(c)
  <2>1. send' = send /\ delivered' = delivered /\ pmsg' = pmsg
        /\ pump'[d] = "ranging" /\ (c # d => pump'[c] = pump[c])
    BY <1>3 DEF HubRegister
  <2> QED
    BY <2>1, SameClient, PumpTurns
<1>4. ASSUME NEW d \in Clients, HubUnregisterPump(d) PROVE Line(c)' /\ Given(c)' \subseteq Given(c)
  <2>1. send' = send /\ delivered' = delivered /\ pmsg' = pmsg
        /\ pump'[d] = "done" /\ (c # d => pump'[c] = pump[c])
    BY <1>4 DEF HubUnregisterPump
  <2> QED
    BY <2>1, SameClient, PumpTurns
<1>5. ASSUME NEW d \in Clients, PumpExit(d) PROVE Line(c)' /\ Given(c)' \subseteq Given(c)
  <2>1. send' = send /\ delivered' = delivered /\ (c # d => pmsg'[c] = pmsg[c])
        /\ pump'[d] = "unreg" /\ (c # d => pump'[c] = pump[c])
    BY <1>5 DEF PumpExit
  <2> QED
    BY <2>1, SameClient, PumpTurns
<1>6. ASSUME NEW d \in Clients, PumpTake(d) PROVE Line(c)' /\ Given(c)' \subseteq Given(c)
  <2>1. c # d => send'[c] = send[c] /\ delivered'[c] = delivered[c]
                 /\ pmsg'[c] = pmsg[c] /\ pump'[c] = pump[c]
    BY <1>6 DEF PumpTake
  <2> QED
    BY <1>6, <2>1, SameClient, TakeStep
<1>7. ASSUME NEW d \in Clients, WriteOk(d) PROVE Line(c)' /\ Given(c)' \subseteq Given(c)
  <2>1. c # d => send'[c] = send[c] /\ delivered'[c] = delivered[c]
                 /\ pmsg'[c] = pmsg[c] /\ pump'[c] = pump[c]
    BY <1>7 DEF WriteOk
  <2> QED
    BY <1>7, <2>1, SameClient, WriteStep
<1>8. ASSUME NEW d \in Clients, FanOutSend(d)
      PROVE  /\ Line(c)'
             /\ \/ Given(c)' \subseteq Given(c)
                \/ FanOutSend(c) /\ Given(c)' \subseteq Given(c) \cup {hmsg}
  <2>1. c # d => send'[c] = send[c] /\ delivered'[c] = delivered[c]
                 /\ pmsg'[c] = pmsg[c] /\ pump'[c] = pump[c]
    BY <1>8 DEF FanOutSend
  <2>2. \A m \in Given(d) : m.id < hmsg.id
    BY <1>8 DEF FanOutSend, Earlier
  <2>3. CASE c = d
    BY <1>8, <2>2, <2>3, SendStep
  <2> QED
    BY <2>1, <2>3, SameClient
<1>9. ASSUME NEW u \in Users \cup {Malformed}, Publish(u)
      PROVE  UNCHANGED <<send, pump, pmsg, delivered>>
  BY <1>9 DEF Publish, clientVars
<1>10. CASE Watch \/ HubBroadcast \/ FanOutDone
  <2>1. UNCHANGED <<send, pump, pmsg, delivered>>
    BY <1>10 DEF Watch, Receive, Reject, Ack, HubBroadcast, FanOutDone, clientVars
  <2> QED
    BY <1>1, <2>1
<1>11. ASSUME NEW d \in Clients,
              HubUnregisterReader(d) \/ FanOutFull(d) \/ Browser(d) \/ ReadError(d)
       PROVE  UNCHANGED <<send, pump, pmsg, delivered>>
  BY <1>11 DEF HubUnregisterReader, FanOutFull, Browser, Connect, PeerGone, ReadError, clientVars
<1>12. CASE UNCHANGED vars
  <2>1. UNCHANGED <<send, pump, pmsg, delivered>>
    BY <1>12 DEF vars, clientVars
  <2> QED
    BY <1>1, <2>1
<1> QED
  BY <1>1, <1>2, <1>3, <1>4, <1>5, <1>6, <1>7, <1>8, <1>9, <1>10, <1>11, <1>12
     DEF Next, Run, Client

\* A connection is given something only once it is registered.
LEMMA FreshStep ==
    ASSUME Typed, Registration, Fresh, [Next]_vars
    PROVE  Fresh'
<1> USE DEF Typed, TypeOK, Fresh
<1>1. ASSUME UNCHANGED <<conn, handler, delivered, send>> PROVE Fresh'
  BY <1>1
<1>2. ASSUME NEW u \in Users \cup {Malformed}, Publish(u) PROVE Fresh'
  BY <1>2 DEF Publish, clientVars
<1>3. CASE Crash
  BY <1>3 DEF Crash
<1>4. CASE Watch \/ HubBroadcast \/ FanOutDone \/ UNCHANGED vars
  <2>1. UNCHANGED <<conn, handler, delivered, send>>
    BY <1>4 DEF Watch, Receive, Reject, Ack, HubBroadcast, FanOutDone, vars, clientVars
  <2> QED
    BY <1>1, <2>1
<1>5. ASSUME NEW d \in Clients, HubRegister(d) PROVE Fresh'
  BY <1>5 DEF HubRegister
<1>6. ASSUME NEW d \in Clients, HubUnregisterReader(d) \/ HubUnregisterPump(d) PROVE Fresh'
  BY <1>6 DEF HubUnregisterReader, HubUnregisterPump, UnregisterClient
<1>7. ASSUME NEW d \in Clients, FanOutSend(d) PROVE Fresh'
  <2>1. d \in registered /\ handler[d] = "done"
    BY <1>7 DEF FanOutSend, Registration
  <2> QED
    BY <1>7, <2>1 DEF FanOutSend
<1>8. ASSUME NEW d \in Clients, FanOutFull(d) \/ ReadError(d) PROVE Fresh'
  BY <1>8 DEF FanOutFull, ReadError, clientVars
<1>9. ASSUME NEW d \in Clients, Browser(d) PROVE Fresh'
  BY <1>9 DEF Browser, Connect, PeerGone
<1>10. ASSUME NEW d \in Clients, PumpTake(d) \/ WriteOk(d) \/ PumpExit(d) PROVE Fresh'
  <2>1. handler[d] = "done"
    BY <1>10 DEF PumpTake, WriteOk, PumpExit, Registration
  <2> QED
    BY <1>10, <2>1 DEF PumpTake, WriteOk, PumpExit
<1> QED
  BY <1>2, <1>3, <1>4, <1>5, <1>6, <1>7, <1>8, <1>9, <1>10 DEF Next, Run, Client

\* Order is kept by a step that gives no client anything and brings nothing new
\* into the queue, the watcher's hand or the fan-out.
LEMMA OrderStays ==
    ASSUME Typed, Waiting, Earlier, Known, OwnUser,
           Sorted(queue'), Coming' \subseteq Coming, UNCHANGED published,
           watcher' # "idle" => /\ wmsg'.id <= published
                                /\ \A i \in DOMAIN queue' : wmsg'.id < queue'[i].id,
           hub' = "fanout" => /\ hub = "fanout" /\ UNCHANGED hmsg /\ fan' \subseteq fan
                              /\ fan' \subseteq Clients,
           registered' \subseteq registered, registered \subseteq Clients,
           \A c \in Clients : Given(c)' \subseteq Given(c)
    PROVE  Waiting' /\ Earlier' /\ Known' /\ OwnUser'
<1>1. Waiting'
  BY DEF Waiting
<1>2. Earlier'
  BY DEF Earlier
<1>3. Known'
  BY DEF Known
<1>4. OwnUser'
  BY DEF OwnUser
<1> QED
  BY <1>1, <1>2, <1>3, <1>4

\* Publishing brings a new, higher id to the end of the queue.
LEMMA PublishKeepsOrder ==
    ASSUME Typed, Registration, Ordered, NEW u \in Users \cup {Malformed}, Publish(u)
    PROVE  Waiting' /\ Earlier' /\ Known' /\ OwnUser'
<1> DEFINE m == [id |-> published + 1, user |-> u]
<1>1. /\ m \in Message /\ m.id = published + 1 /\ published \in Nat
      /\ queue' = Append(queue, m) /\ published' = published + 1
      /\ UNCHANGED <<watcher, wmsg, hub, hmsg, fan, registered>>
      /\ UNCHANGED <<send, pump, pmsg, delivered>>
  <2>1. published + 1 \in Ids /\ published \in Nat
    BY HubAssumption DEF Publish, Typed, TypeOK, Ids
  <2> QED
    BY <2>1 DEF Publish, Message, watcherVars, hubVars, clientVars
<1>2. \A c \in Clients : Given(c)' = Given(c) /\ Given(c) \subseteq Message
  BY <1>1, SameClient, GivenType
<1>3. /\ queue \in Seq(Message) /\ queue' \in Seq(Message)
      /\ \A i \in DOMAIN queue' :
            \/ i \in DOMAIN queue /\ queue'[i] = queue[i]
            \/ queue'[i] = m
  BY <1>1 DEF Typed, TypeOK
<1>4. /\ watcher # "idle" => wmsg.id \in Nat
      /\ hub = "fanout" => hmsg.id \in Nat
      /\ \A i \in DOMAIN queue : queue[i].id \in Nat
  BY <1>3, IdsAreNat DEF Typed, TypeOK, Held
<1>5. Coming' \subseteq Coming \cup {published + 1}
  BY <1>1, <1>3 DEF Coming
<1>6. \A n \in Coming : n \in Nat /\ n <= published
  BY <1>4 DEF Ordered, Known, Coming
<1>7. \A i \in DOMAIN queue : queue[i].id < m.id
  BY <1>1, <1>4, <1>6 DEF Coming
<1>8. Sorted(queue')
  BY <1>1, <1>3, <1>7, SortedAppend DEF Ordered, Waiting
<1> HIDE DEF m
<1>9. Waiting'
  <2>1. watcher # "idle" => \A i \in DOMAIN queue' : wmsg.id < queue'[i].id
    BY <1>1, <1>3, <1>4 DEF Ordered, Waiting, Known
  <2>2. hub = "fanout" => \A n \in Coming' : hmsg.id < n
    BY <1>1, <1>4, <1>5 DEF Ordered, Waiting, Known
  <2> QED
    BY <1>1, <1>8, <2>1, <2>2 DEF Waiting
<1>10. Earlier'
  <2>1. \A c \in registered : \A g \in Given(c) : g.id \in Nat /\ g.id <= published
    BY <1>2, IdsAreNat DEF Ordered, Known, Typed, TypeOK
  <2>2. \A c \in registered : \A g \in Given(c) : \A n \in Coming' : g.id < n
    BY <1>1, <1>5, <2>1 DEF Ordered, Earlier
  <2> QED
    BY <1>1, <1>2, <2>2 DEF Ordered, Earlier, Typed, TypeOK
<1>11. Known'
  <2>1. \A n \in Coming' : n <= published + 1
    BY <1>1, <1>5, <1>6
  <2>2. \A c \in Clients : \A g \in Given(c) : g.id <= published + 1
    BY <1>1, <1>2, IdsAreNat DEF Ordered, Known
  <2>3. /\ watcher # "idle" => wmsg.id <= published + 1
        /\ hub = "fanout" => hmsg.id <= published + 1
    BY <1>1, <1>4 DEF Ordered, Known
  <2> QED
    BY <1>1, <1>2, <2>1, <2>2, <2>3 DEF Known
<1>12. OwnUser'
  BY <1>1, <1>2 DEF Ordered, OwnUser, Typed, TypeOK
<1> QED
  BY <1>9, <1>10, <1>11, <1>12

\* The redelivered message goes in front of those behind it.
LEMMA CrashKeepsOrder ==
    ASSUME Typed, Registration, Ordered, Crash,
           \A c \in Clients : Given(c)' \subseteq Given(c)
    PROVE  Waiting' /\ Earlier' /\ Known' /\ OwnUser'
<1>1. /\ queue' = IF watcher = "idle" THEN queue ELSE <<wmsg>> \o queue
      /\ watcher' = "idle" /\ hub' = "select" /\ fan' = {} /\ registered' = {}
      /\ UNCHANGED published
  BY DEF Crash, Requeued, Unacked, HeldUntilAck
<1>2. /\ queue \in Seq(Message) /\ Sorted(queue)
      /\ watcher # "idle" => /\ wmsg \in Message /\ wmsg.id <= published
                             /\ \A i \in DOMAIN queue : wmsg.id < queue[i].id
      /\ \A i \in DOMAIN queue : queue[i].id <= published
  BY DEF Typed, TypeOK, Held, Ordered, Waiting, Known, Coming
<1>3. /\ Sorted(queue')
      /\ \A i \in DOMAIN queue' : queue'[i].id <= published
  <2>1. CASE watcher = "idle"
    BY <1>1, <1>2, <2>1
  <2>2. CASE watcher # "idle"
    <3>1. /\ Sorted(<<wmsg>> \o queue)
          /\ \A i \in DOMAIN (<<wmsg>> \o queue) :
                \/ (<<wmsg>> \o queue)[i] = wmsg
                \/ \E j \in DOMAIN queue : (<<wmsg>> \o queue)[i] = queue[j]
      BY <1>2, <2>2, SortedCons
    <3> QED
      BY <1>1, <1>2, <2>2, <3>1
  <2> QED
    BY <2>1, <2>2
<1>4. \A n \in Coming' : n <= published
  BY <1>1, <1>3 DEF Coming
<1> QED
  BY <1>1, <1>3, <1>4 DEF Waiting, Earlier, Known, OwnUser, Ordered

\* The watcher takes the head of the queue, or rejects it.
LEMMA WatchKeepsOrder ==
    ASSUME Typed, Registration, Ordered, Watch,
           \A c \in Clients : Given(c)' \subseteq Given(c)
    PROVE  Waiting' /\ Earlier' /\ Known' /\ OwnUser'
<1>1. /\ UNCHANGED <<published, hub, hmsg, fan, registered>>
      /\ registered \subseteq Clients /\ fan \subseteq Clients
  BY DEF Watch, Receive, Reject, Ack, brokerVars, hubVars, Typed, TypeOK
<1>2. CASE Ack
  <2>1. UNCHANGED queue /\ watcher' = "idle" /\ Coming' \subseteq Coming /\ Sorted(queue')
    BY <1>2 DEF Ack, brokerVars, Coming, Ordered, Waiting
  <2> QED
    BY <1>1, <2>1, OrderStays DEF Ordered
<1>3. CASE Receive \/ Reject
  <2>1. /\ queue \in Seq(Message) /\ queue # <<>> /\ queue' = Tail(queue) /\ Sorted(queue)
        /\ \/ watcher' = "idle"
           \/ watcher' = "sending" /\ wmsg' = Head(queue)
    BY <1>3 DEF Receive, Reject, Typed, TypeOK, Ordered, Waiting
  <2>2. /\ Sorted(Tail(queue))
        /\ \A i \in DOMAIN Tail(queue) : Head(queue).id < Tail(queue)[i].id
        /\ \A i \in DOMAIN Tail(queue) : \E j \in DOMAIN queue : Tail(queue)[i] = queue[j]
        /\ 1 \in DOMAIN queue /\ Head(queue) = queue[1]
    BY <2>1, SortedTail
  <2>3. Coming' \subseteq Coming
    BY <2>1, <2>2 DEF Coming
  <2>4. Head(queue).id \in Coming /\ Head(queue).id <= published
    BY <2>2 DEF Coming, Ordered, Known
  <2> QED
    BY <1>1, <2>1, <2>2, <2>3, <2>4, OrderStays DEF Ordered
<1> QED
  BY <1>2, <1>3 DEF Watch

\* The message the watcher held is the next to be fanned out.
LEMMA BroadcastKeepsOrder ==
    ASSUME Typed, Registration, Ordered, HubBroadcast
    PROVE  Waiting' /\ Earlier' /\ Known' /\ OwnUser'
<1>1. /\ watcher = "sending" /\ watcher' = "acking" /\ hub' = "fanout" /\ hmsg' = wmsg
      /\ UNCHANGED <<queue, published, wmsg, registered>>
      /\ UNCHANGED <<send, pump, pmsg, delivered>>
      /\ fan' = {c \in registered : UserOf[c] = wmsg.user}
      /\ registered \subseteq Clients
  BY DEF HubBroadcast, Audience, AudienceOf, brokerVars, clientVars, Typed, TypeOK
<1>2. \A c \in Clients : Given(c)' = Given(c)
  BY <1>1, SameClient
<1>3. /\ Coming' \subseteq Coming /\ wmsg.id \in Coming
      /\ \A n \in Coming' : \E i \in DOMAIN queue : n = queue[i].id
  BY <1>1 DEF Coming
<1>4. Waiting'
  BY <1>1, <1>3 DEF Ordered, Waiting
<1>5. Earlier'
  BY <1>1, <1>2, <1>3 DEF Ordered, Earlier
<1>6. Known'
  BY <1>1, <1>2, <1>3 DEF Ordered, Known
<1>7. OwnUser'
  BY <1>1, <1>2 DEF Ordered, OwnUser
<1> QED
  BY <1>4, <1>5, <1>6, <1>7

\* A client that registers has been given nothing yet.
LEMMA RegisterKeepsOrder ==
    ASSUME Typed, Registration, Ordered, NEW d \in Clients, HubRegister(d),
           \A c \in Clients : Given(c)' \subseteq Given(c)
    PROVE  Waiting' /\ Earlier' /\ Known' /\ OwnUser'
<1>1. /\ UNCHANGED <<queue, published, watcher, wmsg, hub, hmsg, fan>>
      /\ hub = "select" /\ registered' = registered \cup {d}
      /\ handler[d] # "done"
  BY DEF HubRegister, brokerVars, watcherVars
<1>2. Given(d) = {}
  BY <1>1 DEF Given, Ordered, Fresh, Registration
<1>3. Coming' = Coming
  BY <1>1 DEF Coming
<1>4. Waiting' /\ Known' /\ OwnUser'
  BY <1>1, <1>3 DEF Ordered, Waiting, Known, OwnUser
<1>5. Earlier'
  BY <1>1, <1>2, <1>3 DEF Ordered, Earlier, Typed, TypeOK
<1> QED
  BY <1>4, <1>5

\* What is sent to a client is above what it was given and below what waits.
LEMMA SendKeepsOrder ==
    ASSUME Typed, Registration, Ordered, NEW d \in Clients, FanOutSend(d),
           \A c \in Clients : \/ Given(c)' \subseteq Given(c)
                              \/ c = d /\ Given(c)' \subseteq Given(c) \cup {hmsg}
    PROVE  Waiting' /\ Earlier' /\ Known' /\ OwnUser'
<1>1. /\ UNCHANGED <<queue, published, watcher, wmsg, hub, hmsg, registered>>
      /\ hub = "fanout" /\ d \in fan /\ fan' = fan \ {d}
      /\ registered \subseteq Clients /\ fan \subseteq registered
  BY DEF FanOutSend, brokerVars, watcherVars, Typed, TypeOK, Registration
<1>2. Coming' = Coming
  BY <1>1 DEF Coming
<1>3. Waiting'
  BY <1>1, <1>2 DEF Ordered, Waiting
<1>4. Earlier'
  BY <1>1, <1>2 DEF Ordered, Earlier, Waiting
<1>5. Known'
  BY <1>1, <1>2 DEF Ordered, Known
<1>6. OwnUser'
  BY <1>1 DEF Ordered, OwnUser
<1> QED
  BY <1>3, <1>4, <1>5, <1>6

LEMMA OrderInvariant == Spec => []Ordered
<1> USE HubAssumption
<1>1. Init => Ordered
  <2> SUFFICES ASSUME Init PROVE Ordered
    OBVIOUS
  <2>1. \A c \in Clients : Given(c) = {} /\ Line(c)
    BY DEF Init, Given, Line, Sorted
  <2>2. Coming = {}
    BY DEF Init, Coming
  <2>3. Fresh /\ Waiting
    BY <2>2 DEF Init, Fresh, Waiting, Sorted
  <2>4. Earlier /\ Known /\ OwnUser
    BY <2>1, <2>2 DEF Init, Earlier, Known, OwnUser
  <2> QED
    BY <2>1, <2>3, <2>4 DEF Ordered
<1>2. Typed /\ Registration /\ NoPanic /\ Ordered /\ [Next]_vars => Ordered'
  <2> SUFFICES ASSUME Typed, Registration, NoPanic, Ordered, [Next]_vars
               PROVE  Ordered'
    OBVIOUS
  <2>1. \A c \in Clients : /\ Line(c)'
                           /\ \/ Given(c)' \subseteq Given(c)
                              \/ FanOutSend(c) /\ Given(c)' \subseteq Given(c) \cup {hmsg}
    BY GivenSteps DEF Ordered
  <2>2. Fresh'
    BY FreshStep DEF Ordered
  <2> DEFINE Rest == Waiting /\ Earlier /\ Known /\ OwnUser
  <2>3. ASSUME UNCHANGED <<queue, published, watcher, wmsg>>,
               hub' = "fanout" => hub = "fanout" /\ UNCHANGED <<hmsg, fan>>,
               registered' \subseteq registered
        PROVE  Rest'
    <3>1. \A c \in Clients : Given(c)' \subseteq Given(c)
      <4> SUFFICES ASSUME NEW c \in Clients, FanOutSend(c) PROVE FALSE
        BY <2>1
      <4>1. fan' = fan \ {c} /\ c \in fan /\ hub' = hub /\ hub = "fanout"
        BY DEF FanOutSend
      <4> QED
        BY <2>3, <4>1
    <3>2. /\ Sorted(queue) /\ Coming' = Coming
          /\ registered \subseteq Clients /\ fan \subseteq Clients
          /\ watcher # "idle" => /\ wmsg.id <= published
                                 /\ \A i \in DOMAIN queue : wmsg.id < queue[i].id
      BY <2>3 DEF Coming, Ordered, Waiting, Known, Typed, TypeOK
    <3> QED
      BY <2>3, <3>1, <3>2, OrderStays DEF Ordered
  <2>4. ASSUME NEW u \in Users \cup {Malformed}, Publish(u) PROVE Rest'
    BY <2>4, PublishKeepsOrder
  <2>5. ASSUME Crash PROVE Rest'
    <3>1. \A c \in Clients : Given(c)' \subseteq Given(c)
      BY <2>1, <2>5 DEF Crash, FanOutSend
    <3> QED
      BY <2>5, <3>1, CrashKeepsOrder
  <2>6. ASSUME Watch PROVE Rest'
    <3>1. \A c \in Clients : Given(c)' = Given(c)
      BY <2>6, SameClient DEF Watch, Receive, Reject, Ack, clientVars
    <3> QED
      BY <2>6, <3>1, WatchKeepsOrder
  <2>7. ASSUME HubBroadcast PROVE Rest'
    BY <2>7, BroadcastKeepsOrder
  <2>8. ASSUME FanOutDone \/ UNCHANGED vars PROVE Rest'
    BY <2>3, <2>8 DEF FanOutDone, vars, brokerVars, watcherVars, hubVars
  <2>9. ASSUME NEW d \in Clients, HubRegister(d) PROVE Rest'
    <3>1. \A c \in Clients : Given(c)' \subseteq Given(c)
      BY <2>1, <2>9 DEF HubRegister, FanOutSend
    <3> QED
      BY <2>9, <3>1, RegisterKeepsOrder
  <2>10. ASSUME NEW d \in Clients, HubUnregisterReader(d) \/ HubUnregisterPump(d) PROVE Rest'
    BY <2>3, <2>10 DEF HubUnregisterReader, HubUnregisterPump, UnregisterClient,
                       brokerVars, watcherVars
  <2>11. ASSUME NEW d \in Clients, FanOutSend(d) PROVE Rest'
    <3>1. d \in fan /\ fan' = fan \ {d}
      BY <2>11 DEF FanOutSend
    <3>2. \A c \in Clients : FanOutSend(c) => c = d
      BY <3>1 DEF FanOutSend
    <3> QED
      BY <2>1, <2>11, <3>2, SendKeepsOrder
  <2>12. ASSUME NEW d \in Clients, FanOutFull(d) PROVE Rest'
    BY <2>3, <2>12 DEF FanOutFull, brokerVars, watcherVars
  <2>13. ASSUME NEW d \in Clients, Browser(d) \/ Client(d) PROVE Rest'
    BY <2>3, <2>13 DEF Browser, Client, Connect, PeerGone, ReadError, PumpTake,
                       WriteOk, PumpExit, brokerVars, watcherVars, hubVars
  <2>14. Rest'
    BY <2>4, <2>5, <2>6, <2>7, <2>8, <2>9, <2>10, <2>11, <2>12, <2>13 DEF Next, Run
  <2> QED
    BY <2>1, <2>2, <2>14 DEF Ordered
<1> QED
  BY <1>1, <1>2, TypedInvariant, RegistrationInvariant, PTL DEF Spec

\* Whatever is redelivered after a crash, a connection is written notifications
\* of its own user only, each once and in the order of publication.
THEOREM DeliveryIsInOrder == Spec => []DeliveredInOrder
<1>1. Ordered => DeliveredInOrder
  BY DEF Ordered, Line, Sorted, OwnUser, Given, DeliveredInOrder
<1> QED
  BY <1>1, OrderInvariant, PTL
=====
