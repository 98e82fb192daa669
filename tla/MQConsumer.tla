----------------------------- MODULE MQConsumer -----------------------------
(***************************************************************************)
(* The RabbitMQ path of the task handlers: internal/pkg/mq/rabbitmq.go     *)
(* (the client with one connection, one channel and a goroutine that       *)
(* reconnects), internal/pkg/mq/consumer.go (one goroutine per queue that  *)
(* handles, retries and dead-letters deliveries) and the submission and    *)
(* registration code of internal/service/task_handlers.go.                 *)
(*                                                                         *)
(* The broker is external: durable queues, persistent messages, unacked    *)
(* deliveries back at the head of their queue when the channel dies.  What *)
(* the process publishes and acknowledges travels on one connection, in    *)
(* order (wire); a lost connection loses what is on it.  At most the       *)
(* newest connection is alive, so an older channel is just "closed".       *)
(***************************************************************************)
EXTENDS Naturals, Sequences, FiniteSets, SequencesExt

CONSTANTS
    Queues,       \* the queues with a registered handler
    Msgs,         \* message identities; at most one submission of each
    QueueOf,      \* the queue a message is submitted to
    Malformed,    \* bodies that do not unmarshal (foreign publishers)
    Prefetch,     \* Qos of the channel: 10
    MaxDials,     \* Config.MaxRetries: 10
    MaxDrops,     \* bound: lost connections plus restarts of the process
    MaxOutage     \* bound: dials that fail

MQAssumption ==
    /\ QueueOf \in [Msgs -> Queues]
    /\ Malformed \subseteq Msgs
    /\ Prefetch \in Nat \ {0}
    /\ MaxDials \in Nat \ {0}
    /\ MaxDrops \in Nat
    /\ MaxOutage \in Nat

VARIABLES
    \* the broker
    ready,        \* per queue: the messages to deliver
    unacked,      \* per queue: delivered and not yet acknowledged
    dead,         \* the messages in the dead-letter queues
    \* the connection
    wire,         \* frames the process sent and the broker has not read
    inbox,        \* per queue: deliveries buffered in the client library
    \* the process
    channel,      \* Client.channel: usable, of a dead connection, or nil
    watcher,      \* watchConnection: watching, dialling, or spinning on nil
    starting,     \* queues Consumer.Start has still to subscribe
    consumer,     \* per queue: the goroutine of startQueueConsumer
    \* observers
    submitted,    \* messages handed to Publish
    accepted,     \* messages the broker ever received
    effects,      \* how often the handler of a message succeeded
    failures,     \* how often it failed
    redelivered,  \* messages that were unacked when a connection ended
    drops, outage \* what is used of MaxDrops and of MaxOutage

broker == <<ready, unacked, dead>>
process == <<channel, watcher, starting, consumer>>
mqObservers == <<submitted, accepted, effects, failures, redelivered, drops, outage>>
mqVars == <<broker, wire, inbox, process, mqObservers>>

RetryLimit == 3

Message == [id : Msgs, retry : 0 .. RetryLimit - 1]
Frame == [op : {"publish", "ack", "nack"}, msg : Message]

NoMessage == [id |-> "none", retry |-> 0]

\* held: the delivery in hand; subscribed: its channel is still usable.
Consumer == [at : {"absent", "receiving", "handling", "retrying", "acking",
                   "nacking", "sleeping", "stopped"},
             held : Message \cup {NoMessage}, subscribed : BOOLEAN]

Absent == [at |-> "absent", held |-> NoMessage, subscribed |-> FALSE]
Receiving == [at |-> "receiving", held |-> NoMessage, subscribed |-> TRUE]

(* newMQClient: the first dial succeeds, or the process goes without a     *)
(* client, and without consumers; its tasks then take the database queue.  *)
WithClient(ch, w, st) ==
    ch = "open" /\ w = [at |-> "watching", dials |-> 0] /\ st = Queues

WithoutClient(ch, w, st) ==
    ch = "nil" /\ w = [at |-> "none", dials |-> 0] /\ st = {}

MQInit ==
    /\ ready = [q \in Queues |-> <<>>]
    /\ unacked = [q \in Queues |-> <<>>]
    /\ dead = {}
    /\ wire = <<>>
    /\ inbox = [q \in Queues |-> <<>>]
    /\ \/ WithClient(channel, watcher, starting)
       \/ WithoutClient(channel, watcher, starting)
    /\ consumer = [q \in Queues |-> Absent]
    /\ submitted = {}
    /\ accepted = {}
    /\ effects = [m \in Msgs |-> 0]
    /\ failures = [m \in Msgs |-> 0]
    /\ redelivered = {}
    /\ drops \in 0 .. MaxDrops
    /\ outage = 0

-----------------------------------------------------------------------------
(* Client.Publish: the frame goes out on the client's channel if that is   *)
(* usable; otherwise the call returns an error and nothing is sent.        *)
Publish(m) ==
    wire' = IF channel = "open"
            THEN Append(wire, [op |-> "publish", msg |-> m]) ELSE wire

(* SubmitEnvCreateTask and its siblings, with a client that can publish.   *)
Submit(id) ==
    /\ id \notin submitted
    /\ channel = "open"
    /\ submitted' = submitted \cup {id}
    /\ Publish([id |-> id, retry |-> 0])
    /\ UNCHANGED <<broker, inbox, process, accepted, effects, failures, redelivered,
                   drops, outage>>

(* Consumer.Start: a queue that cannot be subscribed ends the whole start, *)
(* and the error of the goroutine it runs in is seen by nobody.            *)
Start(q) ==
    /\ q \in starting
    /\ IF channel = "open"
       THEN /\ starting' = starting \ {q}
            /\ consumer' = [consumer EXCEPT ![q] = Receiving]
       ELSE /\ starting' = {}
            /\ UNCHANGED consumer
    /\ UNCHANGED <<broker, wire, inbox, channel, watcher, mqObservers>>

-----------------------------------------------------------------------------
(* The broker reads a frame.  An acknowledgement settles one delivery, a   *)
(* nack without requeue dead-letters it, a publish is routed to its queue. *)
BrokerReads ==
    /\ wire # <<>>
    /\ LET f == Head(wire)
           q == QueueOf[f.msg.id]
       IN  /\ ready' = IF f.op = "publish"
                       THEN [ready EXCEPT ![q] = Append(@, f.msg)] ELSE ready
           /\ accepted' = IF f.op = "publish" THEN accepted \cup {f.msg.id} ELSE accepted
           /\ unacked' = IF f.op = "publish" THEN unacked
                         ELSE [unacked EXCEPT ![q] = RemoveFirst(@, f.msg)]
           /\ dead' = IF f.op = "nack" THEN dead \cup {f.msg.id} ELSE dead
    /\ wire' = Tail(wire)
    /\ UNCHANGED <<inbox, process, submitted, effects, failures, redelivered,
                   drops, outage>>

(* The broker delivers to the subscribed consumer, up to the prefetch.     *)
Deliver(q) ==
    /\ ready[q] # <<>>
    /\ consumer[q].subscribed
    /\ Len(unacked[q]) < Prefetch
    /\ unacked' = [unacked EXCEPT ![q] = Append(@, Head(ready[q]))]
    /\ inbox' = [inbox EXCEPT ![q] = Append(@, Head(ready[q]))]
    /\ ready' = [ready EXCEPT ![q] = Tail(@)]
    /\ UNCHANGED <<dead, wire, process, mqObservers>>

(* What the end of a connection does to the broker and to the library.     *)
Disconnect ==
    /\ ready' = [q \in Queues |-> unacked[q] \o ready[q]]
    /\ unacked' = [q \in Queues |-> <<>>]
    /\ wire' = <<>>
    /\ drops < MaxDrops
    /\ drops' = drops + 1
    /\ redelivered' = redelivered \cup
           UNION {{m.id : m \in ToSet(unacked[q])} : q \in Queues}
    /\ UNCHANGED <<dead, submitted, accepted, effects, failures, outage>>

(* The connection drops: every channel of the process is closed.           *)
Drop ==
    /\ channel = "open"
    /\ Disconnect
    /\ channel' = "closed"
    /\ consumer' = [q \in Queues |-> [consumer[q] EXCEPT !.subscribed = FALSE]]
    /\ UNCHANGED <<inbox, watcher, starting>>

(* The process stops, or dies, and starts again.                           *)
Restart ==
    /\ Disconnect
    /\ inbox' = [q \in Queues |-> <<>>]
    /\ consumer' = [q \in Queues |-> Absent]
    /\ \/ WithClient(channel', watcher', starting')
       \/ WithoutClient(channel', watcher', starting')

-----------------------------------------------------------------------------
(* watchConnection: NotifyClose fires, at once if the connection is gone.  *)
NoticeClosed ==
    /\ watcher.at = "watching" /\ channel # "open"
    /\ watcher' = [at |-> "dialling", dials |-> 0]
    /\ UNCHANGED <<broker, wire, inbox, channel, starting, consumer, mqObservers>>

Reconnect ==
    /\ watcher.at = "dialling"
    /\ channel' = "open"
    /\ watcher' = [at |-> "watching", dials |-> 0]
    /\ UNCHANGED <<broker, wire, inbox, starting, consumer, mqObservers>>

(* connect fails: the dial leaves a nil conn and the old, closed channel;  *)
(* opening the channel leaves a closed conn and a nil channel.  After      *)
(* MaxDials failures the loop goes back to the top, where a nil conn is    *)
(* waited for and never dialled again.                                     *)
DialFails(stage) ==
    /\ watcher.at = "dialling"
    /\ channel' = IF stage = "channel" THEN "nil" ELSE channel
    /\ watcher' =
           IF watcher.dials + 1 < MaxDials THEN [watcher EXCEPT !.dials = @ + 1]
           ELSE [at |-> IF stage = "channel" THEN "watching" ELSE "abandoned",
                 dials |-> 0]
    /\ outage < MaxOutage
    /\ outage' = outage + 1
    /\ UNCHANGED <<broker, wire, inbox, starting, consumer, submitted, accepted,
                   effects, failures, redelivered, drops>>

-----------------------------------------------------------------------------
\* Mutant: a body that does not unmarshal is skipped, and not rejected.
ReceiveSkipping(q) ==
    /\ consumer[q].at = "receiving" /\ inbox[q] # <<>>
    /\ inbox' = [inbox EXCEPT ![q] = Tail(@)]
    /\ consumer' = IF Head(inbox[q]).id \in Malformed THEN consumer
                   ELSE [consumer EXCEPT ![q].held = Head(inbox[q]), ![q].at = "handling"]
    /\ UNCHANGED <<broker, wire, channel, watcher, starting, mqObservers>>

(* The goroutine of a queue.  Its select may still hand over a delivery    *)
(* buffered before the channel closed.                                     *)
Receive(q) ==
    /\ consumer[q].at = "receiving" /\ inbox[q] # <<>>
    /\ inbox' = [inbox EXCEPT ![q] = Tail(@)]
    /\ consumer' = [consumer EXCEPT
           ![q].held = Head(inbox[q]),
           ![q].at = IF Head(inbox[q]).id \in Malformed THEN "nacking" ELSE "handling"]
    /\ UNCHANGED <<broker, wire, channel, watcher, starting, mqObservers>>

(* The handler returns nil.  The acknowledgement is a step of its own: the *)
(* connection may end between the two.                                     *)
HandlerSucceeds(q) ==
    /\ consumer[q].at = "handling"
    /\ effects' = [effects EXCEPT ![consumer[q].held.id] = @ + 1]
    /\ consumer' = [consumer EXCEPT ![q].at = "acking"]
    /\ UNCHANGED <<broker, wire, inbox, channel, watcher, starting, submitted,
                   accepted, failures, redelivered, drops, outage>>

\* Mutants: off by one, one attempt too few or too many.
MayRetryOnce(m) == m.retry + 2 < RetryLimit
MayRetryOnceMore(m) == m.retry < RetryLimit

MayRetry(m) == m.retry + 1 < RetryLimit

(* The handler returns an error.                                           *)
HandlerFails(q) ==
    /\ consumer[q].at = "handling"
    /\ failures' = [failures EXCEPT ![consumer[q].held.id] = @ + 1]
    /\ consumer' = [consumer EXCEPT ![q].at =
           IF MayRetry(consumer[q].held) THEN "retrying" ELSE "nacking"]
    /\ UNCHANGED <<broker, wire, inbox, channel, watcher, starting, submitted,
                   accepted, effects, redelivered, drops, outage>>

\* Mutant: the delivery is acknowledged before its retry is published.
RepublishAfterAck(q) ==
    /\ consumer[q].at = "retrying"
    /\ wire' = IF channel = "open" /\ consumer[q].subscribed
               THEN wire \o <<[op |-> "ack", msg |-> consumer[q].held],
                              [op |-> "publish",
                               msg |-> [consumer[q].held EXCEPT !.retry = @ + 1]]>>
               ELSE wire
    /\ consumer' = [consumer EXCEPT ![q].at = "receiving", ![q].held = NoMessage]
    /\ UNCHANGED <<broker, inbox, channel, watcher, starting, mqObservers>>

(* The retry is published on the client's channel of now, its error        *)
(* dropped; the acknowledgement of the old delivery follows.               *)
Republish(q) ==
    /\ consumer[q].at = "retrying"
    /\ Publish([consumer[q].held EXCEPT !.retry = @ + 1])
    /\ consumer' = [consumer EXCEPT ![q].at = "acking"]
    /\ UNCHANGED <<broker, inbox, channel, watcher, starting, mqObservers>>

(* Delivery.Ack and Nack use the channel the delivery came from; on a      *)
(* closed one they fail, and the error is dropped.                         *)
Answer(q) ==
    /\ consumer[q].at \in {"acking", "nacking"}
    /\ LET op == IF consumer[q].at = "acking" THEN "ack" ELSE "nack"
       IN  wire' = IF consumer[q].subscribed
                   THEN Append(wire, [op |-> op, msg |-> consumer[q].held]) ELSE wire
    /\ consumer' = [consumer EXCEPT ![q].at = "receiving", ![q].held = NoMessage]
    /\ UNCHANGED <<broker, inbox, channel, watcher, starting, mqObservers>>

(* The delivery channel is closed; what it still buffered is gone.         *)
SeeClosed(q) ==
    /\ consumer[q].at = "receiving" /\ ~consumer[q].subscribed
    /\ consumer' = [consumer EXCEPT ![q].at = "sleeping"]
    /\ inbox' = [inbox EXCEPT ![q] = <<>>]
    /\ UNCHANGED <<broker, wire, channel, watcher, starting, mqObservers>>

(* After five seconds the goroutine calls startQueueConsumer once, drops   *)
(* its error, and ends.                                                    *)
Resubscribe(q) ==
    /\ consumer[q].at = "sleeping"
    /\ consumer' = [consumer EXCEPT ![q] =
           IF channel = "open" THEN Receiving ELSE [Absent EXCEPT !.at = "stopped"]]
    /\ UNCHANGED <<broker, wire, inbox, channel, watcher, starting, mqObservers>>

-----------------------------------------------------------------------------
ConsumerStep(q) ==
    \/ Start(q)
    \/ Receive(q)
    \/ HandlerSucceeds(q)
    \/ HandlerFails(q)
    \/ Republish(q)
    \/ Answer(q)
    \/ SeeClosed(q)
    \/ Resubscribe(q)

WatcherStep ==
    \/ NoticeClosed
    \/ Reconnect
    \/ \E stage \in {"dial", "channel"} : DialFails(stage)

MQNext ==
    \/ \E id \in Msgs : Submit(id)
    \/ \E q \in Queues : Deliver(q) \/ ConsumerStep(q)
    \/ WatcherStep
    \/ BrokerReads
    \/ Drop
    \/ Restart

MQSpec == MQInit /\ [][MQNext]_mqVars

(***************************************************************************)
(* The goroutines of the consumers and of the watcher run, handlers        *)
(* return, and a live broker reads and delivers.  Nothing forces a         *)
(* submission, a fault, or the success of a handler.  MaxOutage makes      *)
(* every outage of the broker end.                                         *)
(***************************************************************************)
MQFairness ==
    /\ \A q \in Queues : WF_mqVars(ConsumerStep(q)) /\ WF_mqVars(Deliver(q))
    /\ WF_mqVars(WatcherStep)
    /\ WF_mqVars(BrokerReads)

MQFairSpec == MQSpec /\ MQFairness

-----------------------------------------------------------------------------
(* Type correctness.                                                       *)
MQTypeOK ==
    /\ ready \in [Queues -> Seq(Message)]
    /\ unacked \in [Queues -> Seq(Message)]
    /\ inbox \in [Queues -> Seq(Message)]
    /\ wire \in Seq(Frame)
    /\ channel \in {"open", "closed", "nil"}
    /\ watcher \in [at : {"watching", "dialling", "abandoned", "none"},
                    dials : 0 .. MaxDials - 1]
    /\ starting \subseteq Queues
    /\ consumer \in [Queues -> Consumer]
    /\ dead \cup redelivered \subseteq accepted
    /\ accepted \subseteq submitted
    /\ submitted \subseteq Msgs
    /\ effects \in [Msgs -> Nat]
    /\ failures \in [Msgs -> Nat]
    /\ drops \in 0 .. MaxDrops
    /\ outage \in 0 .. MaxOutage

AtBroker(id) ==
    \E m \in ToSet(ready[QueueOf[id]]) \cup ToSet(unacked[QueueOf[id]]) : m.id = id

(* At least once: whatever drops, restarts and failed dials do, a message  *)
(* the broker has received is still there, or was handled, or is in the    *)
(* dead-letter queue -- because the retry goes out before the              *)
(* acknowledgement, on the same connection or on a newer one.              *)
NothingLost ==
    \A id \in accepted : AtBroker(id) \/ id \in dead \/ effects[id] > 0

(* Three attempts: only a message whose handler failed three times is      *)
(* dead-lettered, and only a message that was unacked when a connection    *)
(* ended is ever handled twice, handled after it failed three times, or    *)
(* both handled and dead-lettered.                                         *)
AttemptsAccounted ==
    /\ \A id \in dead \ Malformed : failures[id] >= RetryLimit
    /\ \A id \in Msgs \ redelivered :
        /\ effects[id] <= 1
        /\ failures[id] <= RetryLimit
        /\ id \in dead => effects[id] = 0

OutOfService(q) ==
    \/ consumer[q].at = "stopped"
    \/ consumer[q].at = "absent" /\ q \notin starting

(* A message the broker has received is eventually handled or              *)
(* dead-lettered, unless the consumer of its queue has ended for good.     *)
(* (Faults are bounded: a queue is out of service for good or not at all.) *)
EveryMessageSettles ==
    <>[](\A id \in accepted :
            id \in dead \/ effects[id] > 0 \/ OutOfService(QueueOf[id]))
=============================================================================
