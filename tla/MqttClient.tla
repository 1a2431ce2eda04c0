------------------------------ MODULE MqttClient ------------------------------
(***************************************************************************)
(* The MQTT client (esp-mqtt: mqtt_client.c, mqtt_outbox.c) as the firmware *)
(* uses it: its task, the API calls of the sender (publish, destroy) and of *)
(* the handler of the modem's address (stop, start), the outbox, a          *)
(* connection that breaks and loses what is under way, and the broker.      *)
(*                                                                         *)
(* Publishing is QoS 1 and the session is kept (disable_clean_session).     *)
(* A step is a section under api_lock, or a part of one that ends where the *)
(* network is asked: the task holds the lock at "resend" and "keepalive",   *)
(* and API calls wait.  A task that was created runs its first lines before *)
(* anybody stops it.  Message ids are drawn at random out of 65535; here it *)
(* is one that is neither in the outbox nor on the wire.                    *)
(*                                                                         *)
(* Time goes by in units of 30 seconds, after which a message in the outbox *)
(* is expired (OUTBOX_EXPIRED_TIMEOUT_MS) and a ping is due (keepalive / 2).*)
(* Shorter timeouts (1 s for a retransmission, 10 s for a reconnection) may *)
(* run out at any time.  The commands of the server are QoS 0, and leave    *)
(* nothing behind in the client.                                            *)
(***************************************************************************)
EXTENDS Naturals, Sequences, FiniteSets, SequencesExt

CONSTANTS
    MaxMessages, \* how many the sender publishes
    Ids,         \* message ids told apart
    MaxOutbox,   \* items for which there is memory
    MaxCount,    \* bound of pending_msg_count, where it stays
    MaxWire      \* packets a connection holds in each direction

ASSUME MqttClientAssumption ==
    /\ MaxMessages \in Nat
    /\ MaxOutbox \in Nat \ {0} /\ MaxWire \in Nat \ {0}
    /\ MaxCount \in Nat /\ MaxCount >= MaxOutbox
    /\ IsFiniteSet(Ids) /\ Cardinality(Ids) > MaxOutbox + 2 * MaxWire

Messages == 1..MaxMessages
None == 0            \* a subscription

VARIABLES
    state,             \* client->state
    run,               \* client->run
    STOPPED_BIT,
    task,              \* where the client's task is
    wait_for_ping_resp,
    pingDue,           \* nothing was sent for half the keepalive time
    outbox,
    pending_msg_count,
    connected,         \* the transport's connection works
    toBroker, toClient,
    mqtt_status,       \* the firmware's view, from the client's events
    handler,           \* the handler of the modem's address: stop, start
    sender,            \* the task that publishes, and destroys for an update
    published,         \* the last message esp_mqtt_client_publish was given
    received,          \* messages the broker has got
    confirmed          \* messages with an MQTT_EVENT_PUBLISHED

client == <<state, run, STOPPED_BIT, task, wait_for_ping_resp>>
store == <<outbox, pending_msg_count>>
wire == <<connected, toBroker, toClient>>
callers == <<handler, sender>>
history == <<published, received, confirmed>>
vars == <<client, pingDue, store, wire, mqtt_status, callers, history>>

Items == [id : Ids, msg : Messages \cup {None}, pending : {"QUEUED", "TRANSMITTED"},
          expired : BOOLEAN]
Requests == [type : {"PUBLISH", "SUBSCRIBE"}, id : Ids, msg : Messages \cup {None}]
Answers == [type : {"PUBACK", "SUBACK"}, id : Ids, msg : Messages \cup {None}]
ToBroker == Requests \cup [type : {"PINGREQ", "DISCONNECT"}]
ToClient == Answers \cup [type : {"PINGRESP"}]

\* A ping or a disconnect message has no message id.
HasId(packet) == "id" \in DOMAIN packet

TypeOK ==
    /\ state \in {"INIT", "DISCONNECTED", "CONNECTED", "WAIT_RECONNECT"}
    /\ run \in BOOLEAN /\ STOPPED_BIT \in BOOLEAN
    /\ task \in {"none", "loop", "resend", "keepalive", "poll", "ending"}
    /\ wait_for_ping_resp \in BOOLEAN /\ pingDue \in BOOLEAN
    /\ outbox \in Seq(Items) /\ Len(outbox) <= MaxOutbox
    /\ pending_msg_count \in 0..MaxCount
    /\ connected \in BOOLEAN
    /\ toBroker \in Seq(ToBroker) /\ Len(toBroker) <= MaxWire
    /\ toClient \in Seq(ToClient) /\ Len(toClient) <= MaxWire
    /\ mqtt_status \in BOOLEAN
    /\ handler \in {"idle", "stopping", "stopped"}
    /\ sender \in {"idle", "stopping", "destroyed"}
    /\ published \in 0..MaxMessages
    /\ received \subseteq Messages /\ confirmed \subseteq Messages

\* mqtt_app_start has created the client and started it.
Init ==
    /\ state = "INIT" /\ run = TRUE /\ STOPPED_BIT = FALSE /\ task = "loop"
    /\ wait_for_ping_resp = FALSE /\ pingDue = FALSE
    /\ outbox = <<>> /\ pending_msg_count = 0
    /\ connected = FALSE /\ toBroker = <<>> /\ toClient = <<>>
    /\ mqtt_status = FALSE
    /\ handler = "idle" /\ sender = "idle"
    /\ published = 0 /\ received = {} /\ confirmed = {}

-----------------------------------------------------------------------------
(* The outbox.                                                              *)

First(positions) == CHOOSE k \in positions : \A j \in positions : k <= j

\* outbox_get, then outbox_set_pending or outbox_set_tick: the first with that id.
SetTransmitted(items, id) ==
    LET at == {k \in DOMAIN items : items[k].id = id}
    IN  IF at = {} THEN items
        ELSE [items EXCEPT ![First(at)].pending = "TRANSMITTED",
                           ![First(at)].expired = FALSE]

\* The place of k in the ascending order of the positions.
Rank(positions, k) == Cardinality({j \in positions : j <= k})

\* The items at these positions, in their order.
Only(items, positions) ==
    [n \in 1..Cardinality(positions) |->
        items[CHOOSE k \in positions : Rank(positions, k) = n]]

Unexpired(items) == Only(items, {k \in DOMAIN items : ~items[k].expired})

IdsIn(packets) == {packets[k].id : k \in {j \in DOMAIN packets : HasId(packets[j])}}
InUse == IdsIn(outbox) \cup IdsIn(toBroker) \cup IdsIn(toClient)

FreshId == CHOOSE id \in Ids : id \notin InUse

Fewer(n) == IF pending_msg_count < n THEN 0 ELSE pending_msg_count - n
More == IF pending_msg_count < MaxCount THEN pending_msg_count + 1 ELSE MaxCount

\* Variant: the count goes by the messages looked at.
DeleteExpired_CountsAll(items) ==
    /\ outbox' = Unexpired(items)
    /\ pending_msg_count' = Fewer(Len(items))

\* mqtt_delete_expired_messages
DeleteExpired(items) ==
    /\ outbox' = Unexpired(items)
    /\ pending_msg_count' = Fewer(Len(items) - Len(Unexpired(items)))

Item(id, msg) == [id |-> id, msg |-> msg, pending |-> "QUEUED", expired |-> FALSE]

TypeOf(item) == IF item.msg = None THEN "SUBSCRIBE" ELSE "PUBLISH"
Packet(item) == [type |-> TypeOf(item), id |-> item.id, msg |-> item.msg]

(* The transport.                                                           *)

\* A write succeeds: it goes through, or into a connection that is already broken.
Sent(packet) ==
    /\ IF connected
       THEN Len(toBroker) < MaxWire /\ toBroker' = Append(toBroker, packet)
       ELSE UNCHANGED toBroker
    /\ pingDue' = FALSE
    /\ UNCHANGED <<connected, toClient>>

\* A write or a read can fail once the connection is broken; one that takes no more
\* for 10 s counts as broken.
CanFail == ~connected

Close == connected' = FALSE /\ toBroker' = <<>> /\ toClient' = <<>>

\* esp_mqtt_abort_connection
Abort ==
    /\ Close
    /\ state' = "WAIT_RECONNECT"
    /\ wait_for_ping_resp' = FALSE
    /\ mqtt_status' = FALSE

\* The lock is given back, and the connection polled without it.
Unlock == task' = IF state = "CONNECTED" THEN "poll" ELSE "loop"

Locked == task \in {"resend", "keepalive"}

-----------------------------------------------------------------------------
(* esp_mqtt_task                                                            *)

\* The connection is made and accepted; the handler of MQTT_EVENT_CONNECTED
\* subscribes to the commands, within the same section.
ConnectOk ==
    /\ task = "loop" /\ run /\ state = "INIT"
    /\ state' = "CONNECTED"
    /\ task' = "poll"
    /\ wait_for_ping_resp' = FALSE
    /\ mqtt_status' = TRUE
    /\ connected' = TRUE /\ toClient' = <<>>
    /\ pending_msg_count' = More
    /\ \/ /\ Len(outbox) < MaxOutbox
          /\ outbox' = SetTransmitted(Append(outbox, Item(FreshId, None)), FreshId)
          /\ toBroker' = <<Packet(Item(FreshId, None))>>
          /\ pingDue' = FALSE
       \/ UNCHANGED <<outbox, pingDue>> /\ toBroker' = <<>>
    /\ UNCHANGED <<run, STOPPED_BIT, callers, history>>

ConnectFails ==
    /\ task = "loop" /\ run /\ state = "INIT"
    /\ Abort
    /\ task' = "loop"
    /\ UNCHANGED <<run, STOPPED_BIT, pingDue, store, callers, history>>

WaitOver ==
    /\ task = "loop" /\ run /\ state = "WAIT_RECONNECT"
    /\ state' = "INIT"
    /\ task' = "loop"
    /\ UNCHANGED <<run, STOPPED_BIT, wait_for_ping_resp, pingDue, store, wire,
                   mqtt_status, callers, history>>

ReceiveNothing ==
    /\ task = "loop" /\ run /\ state = "CONNECTED"
    /\ toClient = <<>>
    /\ task' = "resend"
    /\ UNCHANGED <<state, run, STOPPED_BIT, wait_for_ping_resp, pingDue, store, wire,
                   mqtt_status, callers, history>>

ReceiveFails ==
    /\ task = "loop" /\ run /\ state = "CONNECTED"
    /\ ~connected
    /\ Abort
    /\ task' = "loop"
    /\ UNCHANGED <<run, STOPPED_BIT, pingDue, store, callers, history>>

Acknowledges == [PUBLISH |-> "PUBACK", SUBSCRIBE |-> "SUBACK"]

\* is_valid_mqtt_msg: the items an acknowledgement takes from the outbox, none
\* when nothing is counted as pending.
AcknowledgedBy(packet) ==
    {k \in DOMAIN outbox : /\ pending_msg_count > 0
                           /\ outbox[k].id = packet.id
                           /\ Acknowledges[TypeOf(outbox[k])] = packet.type}

\* Variant: the acknowledged item is the oldest one.
ReceiveAck_Oldest ==
    /\ task = "loop" /\ run /\ state = "CONNECTED"
    /\ toClient # <<>> /\ HasId(Head(toClient))
    /\ toClient' = Tail(toClient)
    /\ IF outbox = <<>> THEN UNCHANGED <<store, confirmed>>
       ELSE /\ outbox' = Tail(outbox)
            /\ pending_msg_count' = Fewer(1)
            /\ confirmed' = confirmed \cup ({Head(outbox).msg} \ {None})
    /\ task' = "resend"
    /\ UNCHANGED <<state, run, STOPPED_BIT, wait_for_ping_resp, pingDue, connected,
                   toBroker, mqtt_status, callers, published, received>>

\* PUBACK, SUBACK
ReceiveAck ==
    /\ task = "loop" /\ run /\ state = "CONNECTED"
    /\ toClient # <<>> /\ HasId(Head(toClient))
    /\ toClient' = Tail(toClient)
    /\ LET items == AcknowledgedBy(Head(toClient))
       IN  IF items = {} THEN UNCHANGED <<store, confirmed>>
           ELSE /\ outbox' = RemoveAt(outbox, First(items))
                /\ pending_msg_count' = pending_msg_count - 1
                /\ confirmed' = confirmed \cup ({outbox[First(items)].msg} \ {None})
    /\ task' = "resend"
    /\ UNCHANGED <<state, run, STOPPED_BIT, wait_for_ping_resp, pingDue, connected,
                   toBroker, mqtt_status, callers, published, received>>

ReceivePingResp ==
    /\ task = "loop" /\ run /\ state = "CONNECTED"
    /\ toClient # <<>> /\ ~HasId(Head(toClient))
    /\ toClient' = Tail(toClient)
    /\ wait_for_ping_resp' = FALSE
    /\ task' = "resend"
    /\ UNCHANGED <<state, run, STOPPED_BIT, pingDue, store, connected, toBroker,
                   mqtt_status, callers, history>>

\* The item that is sent next once the expired ones are deleted: the first that is
\* QUEUED, or without one the first that is TRANSMITTED.
NextItem(items) ==
    LET queued == {k \in DOMAIN items : items[k].pending = "QUEUED"}
    IN  IF queued # {} THEN First(queued) ELSE 1

\* Nothing to send, or no retransmission is due.
ResendNothing ==
    /\ task = "resend"
    /\ \A k \in DOMAIN Unexpired(outbox) : Unexpired(outbox)[k].pending = "TRANSMITTED"
    /\ DeleteExpired(outbox)
    /\ task' = "keepalive"
    /\ UNCHANGED <<state, run, STOPPED_BIT, wait_for_ping_resp, pingDue, wire,
                   mqtt_status, callers, history>>

\* Variant: an item that was sent once is taken for delivered.
Resend_Forgets ==
    /\ task = "resend"
    /\ LET items == Unexpired(outbox)
           k == NextItem(items)
       IN  /\ items # <<>>
           /\ Sent(Packet(items[k]))
           /\ outbox' = RemoveAt(items, k)
           /\ pending_msg_count' = Fewer(Len(outbox) - Len(items) + 1)
    /\ task' = "keepalive"
    /\ UNCHANGED <<state, run, STOPPED_BIT, wait_for_ping_resp, mqtt_status, callers,
                   history>>

\* mqtt_resend_queued
Resend ==
    /\ task = "resend"
    /\ LET items == Unexpired(outbox)
           k == NextItem(items)
       IN  /\ items # <<>>
           /\ Sent(Packet(items[k]))
           /\ outbox' = [items EXCEPT ![k].pending = "TRANSMITTED"]
           /\ pending_msg_count' = Fewer(Len(outbox) - Len(items))
    /\ task' = "keepalive"
    /\ UNCHANGED <<state, run, STOPPED_BIT, wait_for_ping_resp, mqtt_status, callers,
                   history>>

\* It aborts the connection by itself, and the task goes on to its ping.
ResendFails ==
    /\ task = "resend"
    /\ CanFail
    /\ Unexpired(outbox) # <<>>
    /\ DeleteExpired(outbox)
    /\ Abort
    /\ task' = "keepalive"
    /\ UNCHANGED <<run, STOPPED_BIT, pingDue, callers, history>>

KeepaliveNotDue ==
    /\ task = "keepalive" /\ ~pingDue
    /\ Unlock
    /\ UNCHANGED <<state, run, STOPPED_BIT, wait_for_ping_resp, pingDue, store, wire,
                   mqtt_status, callers, history>>

KeepalivePing ==
    /\ task = "keepalive" /\ pingDue /\ ~wait_for_ping_resp
    /\ Sent([type |-> "PINGREQ"])
    /\ wait_for_ping_resp' = TRUE
    /\ Unlock
    /\ UNCHANGED <<state, run, STOPPED_BIT, store, mqtt_status, callers, history>>

\* No answer to the last ping, or this one cannot be sent.
KeepaliveFails ==
    /\ task = "keepalive" /\ pingDue
    /\ wait_for_ping_resp \/ CanFail
    /\ Abort
    /\ task' = "loop"
    /\ UNCHANGED <<run, STOPPED_BIT, pingDue, store, callers, history>>

\* Up to a second without the lock.
PollOk ==
    /\ task = "poll"
    /\ task' = "loop"
    /\ UNCHANGED <<state, run, STOPPED_BIT, wait_for_ping_resp, pingDue, store, wire,
                   mqtt_status, callers, history>>

\* Whatever was done to the state meanwhile.
PollFails ==
    /\ task = "poll" /\ ~connected
    /\ Abort
    /\ task' = "loop"
    /\ UNCHANGED <<run, STOPPED_BIT, pingDue, store, callers, history>>

\* The task has been told to stop: it closes the connection and, both without the
\* lock, drops all messages, those published in between included.
TaskCloses ==
    /\ task = "loop" /\ ~run
    /\ Close
    /\ task' = "ending"
    /\ UNCHANGED <<state, run, STOPPED_BIT, wait_for_ping_resp, pingDue, store,
                   mqtt_status, callers, history>>

TaskEnds ==
    /\ task = "ending"
    /\ outbox' = <<>>
    /\ STOPPED_BIT' = TRUE
    /\ task' = "none"
    /\ UNCHANGED <<state, run, wait_for_ping_resp, pingDue, pending_msg_count, wire,
                   mqtt_status, callers, history>>

-----------------------------------------------------------------------------
(* The API.                                                                 *)

Callable == ~Locked /\ sender # "destroyed"

\* The message finds no memory in the outbox.
PublishNoMemory(m) ==
    /\ sender = "idle" /\ Callable /\ m = published + 1
    /\ published' = m
    /\ pending_msg_count' = More
    /\ UNCHANGED <<client, pingDue, outbox, wire, mqtt_status, callers, received,
                   confirmed>>

\* Connected and sent ...
PublishSent(m) ==
    /\ sender = "idle" /\ Callable /\ m = published + 1
    /\ Len(outbox) < MaxOutbox
    /\ state = "CONNECTED"
    /\ Sent(Packet(Item(FreshId, m)))
    /\ outbox' = SetTransmitted(Append(outbox, Item(FreshId, m)), FreshId)
    /\ pending_msg_count' = More
    /\ published' = m
    /\ UNCHANGED <<client, mqtt_status, callers, received, confirmed>>

\* ... or not sent: -1 is returned, but the message stays in the outbox ...
PublishFails(m) ==
    /\ sender = "idle" /\ Callable /\ m = published + 1
    /\ Len(outbox) < MaxOutbox
    /\ state = "CONNECTED" /\ CanFail
    /\ Abort
    /\ outbox' = Append(outbox, Item(FreshId, m))
    /\ pending_msg_count' = More
    /\ published' = m
    /\ UNCHANGED <<run, STOPPED_BIT, task, pingDue, callers, received, confirmed>>

\* ... or not connected, when old messages make room for later ones.
PublishOffline(m) ==
    /\ sender = "idle" /\ Callable /\ m = published + 1
    /\ Len(outbox) < MaxOutbox
    /\ state # "CONNECTED"
    /\ outbox' = Append(Unexpired(outbox), Item(FreshId, m))
    /\ pending_msg_count' =
          LET deleted == Len(outbox) - Len(Unexpired(outbox))
          IN  IF More < deleted THEN 0 ELSE More - deleted
    /\ published' = m
    /\ UNCHANGED <<client, pingDue, wire, mqtt_status, callers, received, confirmed>>

\* esp_mqtt_client_stop up to its wait: TRUE if there is something to wait for.
\* The disconnect message is sent, or not.
StopRequest ==
    /\ run
    /\ run' = FALSE
    /\ state' = "DISCONNECTED"
    /\ \/ state = "CONNECTED" /\ Sent([type |-> "DISCONNECT"])
       \/ UNCHANGED <<wire, pingDue>>
    /\ UNCHANGED <<STOPPED_BIT, task, wait_for_ping_resp>>

HandlerStop ==
    /\ handler = "idle" /\ sender = "idle" /\ Callable
    /\ StopRequest
    /\ handler' = "stopping"
    /\ UNCHANGED <<store, mqtt_status, sender, history>>

HandlerStopped ==
    /\ handler = "stopping" /\ STOPPED_BIT
    /\ handler' = "stopped"
    /\ UNCHANGED <<client, pingDue, store, wire, mqtt_status, sender, history>>

\* esp_mqtt_client_start, with the first lines of the new task.
HandlerStart ==
    /\ handler = "stopped" /\ Callable
    /\ IF state \in {"INIT", "DISCONNECTED"}
       THEN task' = "loop" /\ run' = TRUE /\ state' = "INIT" /\ STOPPED_BIT' = FALSE
       ELSE UNCHANGED <<task, run, state, STOPPED_BIT>>
    /\ handler' = "idle"
    /\ UNCHANGED <<wait_for_ping_resp, pingDue, store, wire, mqtt_status, sender,
                   history>>

\* JOB_REQUESTED_OTA, while the network is not being switched.
SenderStop ==
    /\ sender = "idle" /\ handler = "idle" /\ Callable
    /\ \/ StopRequest
       \/ ~run /\ UNCHANGED <<client, wire, pingDue>>
    /\ sender' = "stopping"
    /\ UNCHANGED <<store, mqtt_status, handler, history>>

\* Variant: the memory is freed at once.
SenderDestroy_NoWait ==
    /\ sender = "stopping"
    /\ sender' = "destroyed"
    /\ outbox' = <<>>
    /\ UNCHANGED <<client, pingDue, pending_msg_count, wire, mqtt_status, handler,
                   history>>

\* The rest of esp_mqtt_client_destroy; a client that was not running is not waited for.
SenderDestroy ==
    /\ sender = "stopping"
    /\ STOPPED_BIT
    /\ sender' = "destroyed"
    /\ outbox' = <<>>
    /\ UNCHANGED <<client, pingDue, pending_msg_count, wire, mqtt_status, handler,
                   history>>

-----------------------------------------------------------------------------
(* The world.                                                               *)

Break ==
    /\ connected
    /\ Close
    /\ UNCHANGED <<client, pingDue, store, mqtt_status, callers, history>>

BrokerGets ==
    /\ connected /\ toBroker # <<>>
    /\ toBroker' = Tail(toBroker)
    /\ LET packet == Head(toBroker)
       IN  CASE packet.type = "DISCONNECT" ->
                  UNCHANGED <<toClient, received>>
             [] packet.type = "PINGREQ" ->
                  /\ Len(toClient) < MaxWire
                  /\ toClient' = Append(toClient, [type |-> "PINGRESP"])
                  /\ UNCHANGED received
             [] packet.type \in DOMAIN Acknowledges ->
                  /\ Len(toClient) < MaxWire
                  /\ toClient' = Append(toClient,
                                        [packet EXCEPT !.type = Acknowledges[@]])
                  /\ received' = received \cup ({packet.msg} \ {None})
    /\ UNCHANGED <<client, pingDue, store, connected, mqtt_status, callers, published,
                   confirmed>>

\* Thirty seconds go by.
Tick ==
    /\ outbox' = [k \in DOMAIN outbox |-> [outbox[k] EXCEPT !.expired = TRUE]]
    /\ pingDue' = TRUE
    /\ UNCHANGED <<client, pending_msg_count, wire, mqtt_status, callers, history>>

-----------------------------------------------------------------------------
Receive == ReceiveNothing \/ ReceiveFails \/ ReceiveAck \/ ReceivePingResp
Keepalive == KeepaliveNotDue \/ KeepalivePing \/ KeepaliveFails
Poll == PollOk \/ PollFails

Task ==
    \/ WaitOver
    \/ ConnectOk
    \/ ConnectFails
    \/ Receive
    \/ ResendNothing
    \/ Resend
    \/ ResendFails
    \/ Keepalive
    \/ Poll
    \/ TaskCloses
    \/ TaskEnds

Publish(m) ==
    \/ PublishNoMemory(m)
    \/ PublishSent(m)
    \/ PublishFails(m)
    \/ PublishOffline(m)

Handler == HandlerStop \/ HandlerStopped \/ HandlerStart
Destroy == SenderStop \/ SenderDestroy

Next ==
    \/ Task
    \/ \E m \in Messages : Publish(m)
    \/ Handler
    \/ Destroy
    \/ Break
    \/ BrokerGets
    \/ Tick

\* The task runs, and a retransmission comes due again and again; the broker reads
\* and answers; calls that have begun go on; a connection can be made at times, and a
\* broken one is noticed in the end.
Fairness ==
    /\ WF_vars(Task)
    /\ SF_vars(ConnectOk) /\ SF_vars(ReceiveFails) /\ SF_vars(Resend)
    /\ WF_vars(BrokerGets)
    /\ WF_vars(HandlerStopped \/ HandlerStart) /\ WF_vars(SenderDestroy)

Spec == Init /\ [][Next]_vars /\ Fairness

-----------------------------------------------------------------------------
\* No acknowledgement is ignored for want of pending messages: every item in the
\* outbox is counted, whatever was expired, dropped or found no memory.
PendingCovers == Len(outbox) <= pending_msg_count

\* Once the client is destroyed nobody works with its memory: its task has ended,
\* also when it was told to stop in the middle of a connection attempt.
FreedUnused == sender = "destroyed" => task = "none" /\ handler = "idle"

Holds(m) == \E k \in DOMAIN outbox : outbox[k].msg = m

\* What a caller of publish may rely on (Delivery): a message is confirmed only when
\* the broker has it, and is kept until then unless it is dropped for good.
Promise == INSTANCE Delivery WITH
    kept <- {m \in Messages : Holds(m)},
    ended <- {m \in 1..published : ~Holds(m)}

Delivered == Promise!Spec

Waits(m) == \E k \in DOMAIN outbox : outbox[k].msg = m /\ ~outbox[k].expired
Expired(m) == \E k \in DOMAIN outbox : outbox[k].msg = m /\ outbox[k].expired

\* Once the link stays up, every message in the outbox is confirmed unless 30 seconds
\* go by or the client is stopped: however many items wait before it, and wherever
\* the last connection broke.
AllConfirmed ==
    <>[][~Break]_vars
        => \A m \in Messages :
              Waits(m) ~> (m \in confirmed \/ Expired(m) \/ task = "none")

\* Stopping ends: the task leaves its loop from whatever it waits for, and the
\* handler of the modem's address comes back to the event loop it blocks.
StopReturns == handler = "stopping" ~> handler = "idle"

\* The client's work comes to its end, with the broker or without.
ClientProgress == AllConfirmed /\ StopReturns
=============================================================================
