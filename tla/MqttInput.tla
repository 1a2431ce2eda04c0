------------------------------ MODULE MqttInput ------------------------------
(***************************************************************************)
(* What the MQTT client reads: in_buffer, filled from a connection that      *)
(* gives the bytes in pieces (mqtt_message_receive, mqtt_process_receive,    *)
(* deliver_publish, deliver_suback and esp_mqtt_connect in mqtt_client.c).   *)
(*                                                                         *)
(* The task polls: mqtt_message_receive takes what is there and goes on in  *)
(* its next call where it stopped; only the rest of a publish longer than   *)
(* in_buffer is waited for ("delivering").  Bytes that arrive during a call *)
(* act as if they had arrived before or after it.  The broker is correct    *)
(* and, as it writes with the same format, writes with MqttMessages.        *)
(***************************************************************************)
EXTENDS MqttMessages

CONSTANTS
    in_buffer_length,
    BrokerMessages,   \* what the broker may write
    MaxSent           \* how much of it on one connection

VARIABLES
    mode,            \* "closed", "connecting", "polling" or "delivering"
    in_buffer,       \* what was read of a message: in_buffer_read_len bytes
    message,         \* the publish whose data is being delivered
    stream,          \* bytes the broker wrote that were not read
    arrived,         \* how many of them are there
    sent,            \* history: messages of the broker, on this connection
    delivered,       \* history: messages that were acted on
    reason,          \* why the client closed the last connection
    swallowed        \* history: a byte of the next message was taken for a length

inputVars == <<mode, in_buffer, message, stream, arrived, sent, delivered, reason, swallowed>>
brokers == <<sent, stream>>
histories == <<delivered, swallowed>>

Idle == [type |-> "none"]

InputInit ==
    /\ mode = "closed" /\ in_buffer = <<>> /\ message = Idle
    /\ stream = <<>> /\ arrived = 0
    /\ sent = <<>> /\ delivered = <<>> /\ reason = "none" /\ swallowed = FALSE

-----------------------------------------------------------------------------
(* The broker.                                                              *)

Bytes(m) ==
    LET write(qos, body) == Message(TypeByte(m.type, 0, qos, 0), body, Len(body))
    IN  CASE m.type = "PUBLISH" -> write(m.qos, PublishBody(m.topic, m.qos, m.id) \o m.data)
          [] m.type = "PUBREL" -> write(1, IdBody(m.id))
          [] m.type \in {"PUBACK", "PUBREC", "PUBCOMP", "UNSUBACK"} -> write(0, IdBody(m.id))
          [] m.type = "SUBACK" -> write(0, IdBody(m.id) \o m.data)
          [] m.type = "CONNACK" -> write(0, <<0, m.code>>)
          [] m.type = "PINGRESP" -> write(0, <<>>)

\* A PUBLISH says at least to what topic; its topic finds room in in_buffer, behind a fixed
\* header as long as one may be, and no message is longer than four digits can tell.
\* Answers are short.
BrokerFormats ==
    [type : {"PUBLISH"}, topic : Texts \ {<<>>}, data : Texts, qos : 0..2, id : TwoByteNumbers]
    \cup [type : {"PUBACK", "PUBREC", "PUBREL", "PUBCOMP", "UNSUBACK"}, id : TwoByteNumbers]
    \cup [type : {"SUBACK"}, id : TwoByteNumbers, data : Texts \ {<<>>}]
    \cup [type : {"CONNACK"}, code : Nat] \cup [type : {"PINGRESP"}]

ASSUME InputAssumption ==
    /\ LengthBase \in 4..128
    /\ in_buffer_length \in Nat /\ in_buffer_length > MQTT_MAX_FIXED_HEADER_SIZE
    /\ BrokerMessages \subseteq BrokerFormats
    /\ \A m \in BrokerMessages :
          /\ Bytes(m) # NoMessage
          /\ m.type = "PUBLISH" =>
                /\ Len(m.topic) \in TwoByteNumbers
                /\ m.qos = 0 => m.id = 0
                /\ MQTT_MAX_FIXED_HEADER_SIZE + Len(PublishBody(m.topic, m.qos, m.id))
                       <= in_buffer_length
          /\ m.type = "SUBACK" =>
                2 + Len(m.data) < LengthBase /\ 4 + Len(m.data) <= in_buffer_length

BrokerWrites ==
    /\ mode # "closed" /\ Len(sent) < MaxSent
    /\ \E m \in BrokerMessages :
          /\ sent = <<>> <=> m.type = "CONNACK"
          /\ sent' = Append(sent, m)
          /\ stream' = stream \o Bytes(m)
    /\ UNCHANGED <<mode, in_buffer, message, arrived, delivered, reason, swallowed>>

Arrive ==
    /\ \E n \in (arrived + 1)..Len(stream) : arrived' = n
    /\ UNCHANGED <<mode, in_buffer, message, stream, sent, delivered, reason, swallowed>>

-----------------------------------------------------------------------------
(* mqtt_message_receive.  b is what was read before the call, all that and   *)
(* what is there now.                                                        *)

Failed(why) == [result |-> "failed", reason |-> why, length |-> 0]
Unfinished(n) == [result |-> "unfinished", length |-> n]
Received(n) == [result |-> "received", length |-> n]

\* Where the bytes of the length end: before b if it does not look for them, or behind
\* the last that continues, after the sixth byte at the latest.
LengthEnds(b, all) ==
    IF Len(b) > 1 /\ ~(Len(b) < 6 /\ Continues(Last(b))) THEN {Len(b)}
    ELSE {n \in (IF b = <<>> THEN 2 ELSE Len(b) + 1)..Len(all) : n >= 6 \/ ~Continues(all[n])}

\* How much is read of a message in one piece: of a publish longer than the buffer
\* what fits, if its topic does.
Wanted(head, total) ==
    IF total <= in_buffer_length THEN Received(total)
    ELSE IF get_type(head) # "PUBLISH" THEN Failed("too big")
    ELSE IF Len(head) < FixedSize(head) + 2 THEN Unfinished(Len(head))
    ELSE IF FixedSize(head) + Number(head, FixedSize(head) + 1) + Flag(get_qos(head) > 0, 2)
                > in_buffer_length
         THEN Failed("too big")
         ELSE Received(in_buffer_length)

\* The topic's length is read first: of a publish that was not longer, all of it.
MessageReceive(b, all) ==
    IF all = <<>> THEN Unfinished(0)
    ELSE IF b = <<>> /\ ~has_valid_msg_hdr(all[1]) THEN Failed("header")
    ELSE IF LengthEnds(b, all) = {} THEN Unfinished(Len(all))
    ELSE LET n == Min(LengthEnds(b, all))
             total == get_total_length(SubSeq(all, 1, n))
             wanted == Wanted(IF total > in_buffer_length THEN all ELSE SubSeq(all, 1, n), total)
         IN  IF wanted.result # "received" THEN wanted
             ELSE IF n >= wanted.length THEN Received(n)
             ELSE IF Len(all) < wanted.length THEN Unfinished(Len(all))
             ELSE wanted

-----------------------------------------------------------------------------
(* The client's task.                                                       *)

Take(n) ==
    /\ stream' = SubSeq(stream, n + 1, Len(stream))
    /\ arrived' = arrived - n

CloseFor(why) == mode' = "closed" /\ reason' = why
Stay == mode' = "polling" /\ UNCHANGED reason

\* The publish at the start of in_buffer, with as much of its data as is there.
PublishIn(b) ==
    [type |-> "PUBLISH", topic |-> get_publish_topic(b).text, data |-> get_publish_data(b).text,
     qos |-> get_qos(b), id |-> get_id(b, get_total_length(b))]

\* The other messages, as the cases of mqtt_process_receive look at them.
OtherIn(b) ==
    CASE get_type(b) = "SUBACK" ->
            [type |-> "SUBACK", id |-> get_id(b, Len(b)), data |-> get_suback_data(b).text]
      [] get_type(b) = "PINGRESP" -> [type |-> "PINGRESP"]
      [] get_type(b) = "CONNACK" -> [type |-> "CONNACK", code |-> get_connect_return_code(b)]
      [] OTHER -> [type |-> get_type(b), id |-> get_id(b, Len(b))]

\* A publish is answered; at QoS 0 the code asks all the same whether the message built
\* last, whatever it was, could be built.
Answered(m) ==
    /\ delivered' = Append(delivered, m)
    /\ \/ Stay
       \/ CloseFor(IF m.qos > 0 THEN "write" ELSE "built")

Deliver(b) ==
    LET m == PublishIn(b)
        rest == get_total_length(b) - Len(b)
    IN  IF ~get_publish_topic(b).found
        THEN CloseFor("topic") /\ in_buffer' = b /\ UNCHANGED <<message, delivered>>
        ELSE IF rest > 0
        THEN /\ mode' = "delivering" /\ in_buffer' = <<>>
             /\ message' = [publish |-> m, rest |-> rest, total |-> Len(m.data) + rest]
             /\ UNCHANGED <<delivered, reason>>
        ELSE in_buffer' = <<>> /\ UNCHANGED message /\ Answered(m)

\* mqtt_process_receive
Process(b) ==
    IF get_type(b) = "PUBLISH" THEN Deliver(b)
    ELSE /\ in_buffer' = <<>> /\ UNCHANGED message
         /\ delivered' = Append(delivered, OtherIn(b))
         /\ IF get_type(b) = "SUBACK" /\ ~get_suback_data(b).found THEN CloseFor("suback") ELSE Stay

\* What esp_mqtt_connect does with the first message.
Connected(b) ==
    /\ UNCHANGED message
    /\ IF get_type(b) = "CONNACK"
       THEN /\ in_buffer' = <<>> /\ delivered' = Append(delivered, OtherIn(b))
            /\ IF get_connect_return_code(b) = 0 THEN Stay ELSE CloseFor("refused")
       ELSE in_buffer' = b /\ CloseFor("no CONNACK") /\ UNCHANGED delivered

ReadMessage ==
    /\ mode \in {"connecting", "polling"}
    /\ LET all == in_buffer \o SubSeq(stream, 1, arrived)
       IN  \E got \in {MessageReceive(in_buffer, all)} :
              /\ Take(IF got.result = "failed" THEN arrived ELSE got.length - Len(in_buffer))
              /\ CASE got.result = "failed" ->
                        /\ CloseFor(got.reason)
                        /\ UNCHANGED <<in_buffer, message, delivered, swallowed>>
                   [] got.result = "unfinished" ->
                        /\ in_buffer' = SubSeq(all, 1, got.length)
                        /\ UNCHANGED <<mode, message, delivered, reason, swallowed>>
                   [] got.result = "received" ->
                        \E b \in {SubSeq(all, 1, got.length)} :
                            /\ swallowed' = (swallowed \/ Len(b) > get_total_length(b))
                            /\ IF mode = "connecting" THEN Connected(b) ELSE Process(b)
    /\ UNCHANGED sent

\* Variant: as much is read as the buffer takes.
DeliverMore_FillsBuffer ==
    /\ mode = "delivering" /\ arrived > 0
    /\ LET n == Min({arrived, in_buffer_length})
           m == [message.publish EXCEPT !.data = @ \o SubSeq(stream, 1, n)]
       IN  /\ Take(n)
           /\ IF n < message.rest
              THEN /\ message' = [message EXCEPT !.publish = m, !.rest = @ - n]
                   /\ UNCHANGED <<mode, delivered, reason>>
              ELSE message' = Idle /\ Answered(m)
    /\ UNCHANGED <<in_buffer, sent, swallowed>>

\* deliver_publish reads on.
DeliverMore ==
    /\ mode = "delivering" /\ arrived > 0
    /\ LET n == Min({arrived, message.rest, in_buffer_length})
           m == [message.publish EXCEPT !.data = @ \o SubSeq(stream, 1, n)]
       IN  /\ Take(n)
           /\ IF n < message.rest
              THEN /\ message' = [message EXCEPT !.publish = m, !.rest = @ - n]
                   /\ UNCHANGED <<mode, delivered, reason>>
              ELSE message' = Idle /\ Answered(m)
    /\ UNCHANGED <<in_buffer, sent, swallowed>>

\* A read fails, or what is waited for (the rest of a publish, a CONNACK) does not come.
GiveUp ==
    /\ mode # "closed"
    /\ CloseFor("transport")
    /\ UNCHANGED <<in_buffer, message, brokers, arrived, histories>>

\* esp_mqtt_connect has written its CONNECT.
Open ==
    /\ mode = "closed"
    /\ mode' = "connecting" /\ reason' = "none"
    /\ message' = Idle /\ in_buffer' = <<>>
    /\ stream' = <<>> /\ arrived' = 0
    /\ sent' = <<>> /\ delivered' = <<>> /\ swallowed' = FALSE

InputNext == BrokerWrites \/ Arrive \/ ReadMessage \/ DeliverMore \/ GiveUp \/ Open

InputSpec == InputInit /\ [][InputNext]_inputVars

-----------------------------------------------------------------------------
\* However the bytes of the broker's messages are cut into pieces, the client acts on
\* them in their order, each as it was written, hands a publish on with its data in its
\* place and its total length, and never takes what it reads for a bad message.  Not
\* claimed once a byte was swallowed: after a message of at most five bytes was read in
\* pieces, its last byte so far one of 128 or more, mqtt_message_receive takes that for
\* a byte of the length and reads another.
InputRead ==
    swallowed \/ /\ IsPrefix(delivered, sent)
                 /\ reason \notin {"header", "topic", "too big", "suback", "no CONNACK"}
                 /\ mode = "delivering" =>
                       LET m == sent[Len(delivered) + 1]
                       IN  /\ IsPrefix(message.publish.data, m.data)
                           /\ message.total = Len(m.data)
                           /\ message.rest = Len(m.data) - Len(message.publish.data)
=============================================================================
