----------------------------- MODULE MqttOutput -----------------------------
(***************************************************************************)
(* What the MQTT client writes: the buffer it builds messages in, and a     *)
(* publish that is longer than the buffer and goes out in fragments         *)
(* (mqtt_msg.c; esp_mqtt_client_publish, _subscribe, _unsubscribe and the   *)
(* answers of mqtt_process_receive in mqtt_client.c).                       *)
(*                                                                         *)
(* The calls hold api_lock, so that a step is a call; what they share is    *)
(* the description of the last message, of which only the fields below      *)
(* outlive the call.  Whatever fragmented_msg_data_offset has below zero    *)
(* (an unsigned number that has wrapped) acts as zero does.                 *)
(***************************************************************************)
EXTENDS MqttMessages, Integers

CONSTANTS
    MessageIds,     \* message ids that are drawn or acknowledged
    Publishes,      \* topic, data, qos and retain of what is published
    SubscribeTopics, ConnectInfos

\* A byte of a length tells whether another follows; no string of a message needs more
\* than two bytes for its length.
ASSUME OutputAssumption ==
    /\ LengthBase \in 2..128
    /\ buffer_length \in TwoByteNumbers
    /\ MessageIds \in SUBSET TwoByteNumbers
    /\ Publishes \in SUBSET [topic : Texts, data : Texts, qos : 0..2, retain : 0..1]
    /\ SubscribeTopics \in SUBSET Texts
    /\ ConnectInfos \in SUBSET
           [protocol : {"3.1", "3.1.1"}, clean_session : BOOLEAN, client_id : Texts,
            will_topic : Texts, will_message : Texts, will_qos : 0..2, will_retain : BOOLEAN,
            username : Texts, password : Texts, keepalive : TwoByteNumbers]

VARIABLES
    fragmented_msg_total_length,
    fragmented_msg_data_offset,
    written,  \* the bytes the last call wrote
    asked,    \* the message it was to write
    unsent    \* history: a fragmented publish was built and not sent, and none since

outputVars == <<fragmented_msg_total_length, fragmented_msg_data_offset, written, asked, unsent>>

Nothing == [type |-> "none"]

OutputInit ==
    /\ fragmented_msg_total_length = 0 /\ fragmented_msg_data_offset = 0
    /\ written = NoMessage /\ asked = Nothing /\ unsent = FALSE

Beyond(n, m) == IF n > m THEN n - m ELSE 0

Wrote(bytes, message) ==
    /\ written' = bytes
    /\ asked' = message

\* clean: nothing of an earlier message is in the way.
Plain(type, id, body) ==
    [type |-> type, id |-> id, body |-> body, clean |-> fragmented_msg_total_length = 0]

\* The length fini_message writes: that of a fragmented message, if there is one.
FullLength(body, fragmented) ==
    IF fragmented # 0 THEN fragmented - MQTT_MAX_FIXED_HEADER_SIZE ELSE Len(body)

-----------------------------------------------------------------------------
\* A message that is no publish, and the write that follows.
Write(type, qos, id, body) ==
    LET length == FullLength(body, fragmented_msg_total_length)
        built == Message(TypeByte(type, 0, qos, 0), body, length)
    IN  /\ UNCHANGED <<fragmented_msg_total_length, unsent>>
        /\ IF Fits(body) /\ built # NoMessage
           THEN /\ fragmented_msg_data_offset' =
                        Beyond(fragmented_msg_data_offset, HeaderOffset(length))
                /\ \/ Wrote(built, Plain(type, id, body))
                   \/ Wrote(NoMessage, Plain(type, id, body))  \* the write fails
           ELSE /\ Wrote(NoMessage, Plain(type, id, body))
                /\ UNCHANGED fragmented_msg_data_offset

Answer(type, id) == Write(type, IF type = "PUBREL" THEN 1 ELSE 0, id, IdBody(id))

Ping == Write("PINGREQ", 0, 0, <<>>)
Disconnect == Write("DISCONNECT", 0, 0, <<>>)

Subscribe(topic, qos, id) == Write("SUBSCRIBE", 1, id, SubscribeBody(topic, qos, id))
Unsubscribe(topic, id) == Write("UNSUBSCRIBE", 1, id, UnsubscribeBody(topic, id))

\* The task connects again.
Connect(info) == Write("CONNECT", 0, 0, ConnectBody(info))

-----------------------------------------------------------------------------
(* A publish.  "stored" and "noMemory" are what becomes of its copy in the   *)
(* outbox (QoS 1 and 2); "offline", "fails" and "cut" are ways of not being  *)
(* sent: no connection, the first write fails, a later one does.             *)

Publishing(topic, data, qos, retain, id) ==
    [type |-> "PUBLISH", topic |-> topic, data |-> data, qos |-> qos, retain |-> retain,
     id |-> IF qos > 0 THEN id ELSE 0, clean |-> TRUE]

\* What remains of data after n bytes; where n is negative it starts before the data.
After(data, n) ==
    IF n >= 0 THEN SubSeq(data, n + 1, Len(data)) ELSE [k \in 1..(Len(data) - n) |-> 0]

\* Variant: a message that fits leaves what is told of a fragmented one.
BuildPublish_KeepTotal(topic, data, qos, retain, id) ==
    LET body == PublishBody(topic, qos, id)
        start == MQTT_MAX_FIXED_HEADER_SIZE + Len(body)
        over == start + Len(data) > buffer_length
        total == IF over THEN start + Len(data) ELSE fragmented_msg_total_length
        offset == IF over THEN start ELSE fragmented_msg_data_offset
        text == body \o (IF over THEN SubSeq(data, 1, buffer_length - start) ELSE data)
        length == FullLength(text, total)
    IN  [total |-> total, offset |-> offset, header |-> HeaderOffset(length), over |-> over,
         bytes |-> Message(TypeByte("PUBLISH", 0, qos, retain), text, length)]

\* mqtt_msg_publish: the offset and total it leaves, and the message.
BuildPublish(topic, data, qos, retain, id) ==
    LET body == PublishBody(topic, qos, id)
        start == MQTT_MAX_FIXED_HEADER_SIZE + Len(body)
        over == start + Len(data) > buffer_length
        total == IF over THEN start + Len(data) ELSE 0
        offset == IF over THEN start ELSE fragmented_msg_data_offset
        text == body \o (IF over THEN SubSeq(data, 1, buffer_length - start) ELSE data)
        length == FullLength(text, total)
    IN  [total |-> total, offset |-> offset, header |-> HeaderOffset(length), over |-> over,
         bytes |-> Message(TypeByte("PUBLISH", 0, qos, retain), text, length)]

PublishRefused(topic, data, qos, retain, id) ==
    /\ topic = <<>> \/ ~Fits(PublishBody(topic, qos, id))
    /\ Wrote(NoMessage, Publishing(topic, data, qos, retain, id))
    /\ UNCHANGED <<fragmented_msg_total_length, fragmented_msg_data_offset, unsent>>

\* All of it is written: what was built, then the rest in blocks of the buffer.
PublishWritten(topic, data, qos, retain, id) ==
    /\ topic # <<>> /\ Fits(PublishBody(topic, qos, id))
    /\ \E built \in {BuildPublish(topic, data, qos, retain, id)} :
          LET rest == After(data, Len(built.bytes) + built.header - built.offset)
          IN  /\ built.bytes # NoMessage
              /\ Wrote(built.bytes \o rest, [Publishing(topic, data, qos, retain, id) EXCEPT
                                             !.clean = built.over \/ fragmented_msg_data_offset = 0])
              /\ fragmented_msg_total_length' = 0 /\ fragmented_msg_data_offset' = 0
              /\ unsent' = FALSE

\* The outbox has no memory for the copy: the call returns at once.
PublishNotStored(topic, data, qos, retain, id) ==
    /\ qos > 0 /\ topic # <<>> /\ Fits(PublishBody(topic, qos, id))
    /\ \E built \in {BuildPublish(topic, data, qos, retain, id)} :
          /\ built.bytes # NoMessage
          /\ fragmented_msg_total_length' = built.total
          /\ fragmented_msg_data_offset' = Beyond(built.offset, built.header)
          /\ unsent' = (unsent \/ built.over)
    /\ Wrote(NoMessage, Publishing(topic, data, qos, retain, id))

\* No connection, or the first write fails.
PublishNotSent(topic, data, qos, retain, id) ==
    /\ topic # <<>> /\ Fits(PublishBody(topic, qos, id))
    /\ \E built \in {BuildPublish(topic, data, qos, retain, id)} :
          /\ built.bytes # NoMessage
          /\ fragmented_msg_total_length' = 0
          /\ fragmented_msg_data_offset' = Beyond(built.offset, built.header)
          /\ unsent' = (unsent \/ built.over)
    /\ Wrote(NoMessage, Publishing(topic, data, qos, retain, id))

\* A write after the first fails.
PublishCut(topic, data, qos, retain, id) ==
    /\ topic # <<>> /\ Fits(PublishBody(topic, qos, id))
    /\ BuildPublish(topic, data, qos, retain, id).over
    /\ fragmented_msg_total_length' = 0 /\ fragmented_msg_data_offset' = 0
    /\ unsent' = FALSE
    /\ Wrote(NoMessage, Publishing(topic, data, qos, retain, id))

WritePublish ==
    \E p \in Publishes, id \in MessageIds :
        \/ PublishRefused(p.topic, p.data, p.qos, p.retain, id)
        \/ PublishWritten(p.topic, p.data, p.qos, p.retain, id)
        \/ PublishNotStored(p.topic, p.data, p.qos, p.retain, id)
        \/ PublishNotSent(p.topic, p.data, p.qos, p.retain, id)
        \/ PublishCut(p.topic, p.data, p.qos, p.retain, id)

OutputNext ==
    \/ WritePublish
    \/ \E type \in {"PUBACK", "PUBREC", "PUBREL", "PUBCOMP"}, id \in MessageIds : Answer(type, id)
    \/ \E topic \in SubscribeTopics, id \in MessageIds :
          \/ \E qos \in 0..2 : Subscribe(topic, qos, id)
          \/ Unsubscribe(topic, id)
    \/ Ping
    \/ Disconnect
    \/ \E info \in ConnectInfos : Connect(info)

OutputSpec == OutputInit /\ [][OutputNext]_outputVars

-----------------------------------------------------------------------------
(* What a CONNECT says to who reads it in the order of MQTT 3.1.1: the flags *)
(* tell which strings follow.                                                *)

StringAt(b, k) == SubSeq(b, k + 2, k + 1 + Number(b, k))
Behind(b, k) == k + 2 + Number(b, k)

ConnectSays(b, info) ==
    LET names == FixedSize(b) + (IF info.protocol = "3.1" THEN 9 ELSE 7)
        flags == b[names + 1]
        has(flag) == (flags \div flag) % 2 = 1
        client == names + 4
        topic == Behind(b, client)
        text == IF has(4) THEN Behind(b, topic) ELSE topic
        user == IF has(4) THEN Behind(b, text) ELSE text
        secret == IF has(128) THEN Behind(b, user) ELSE user
        end == IF has(64) THEN Behind(b, secret) ELSE secret
    IN  /\ Number(b, names + 2) = info.keepalive
        /\ StringAt(b, client) = info.client_id
        /\ has(4) => /\ StringAt(b, topic) = info.will_topic
                     /\ StringAt(b, text) = info.will_message
                     /\ (flags \div 8) % 4 = info.will_qos /\ has(32) = info.will_retain
        /\ has(128) => StringAt(b, user) = info.username
        /\ has(64) => StringAt(b, secret) = info.password
        /\ end = Len(b) + 1
        /\ has(2) = info.clean_session
        /\ has(4) = (info.will_topic # <<>>)
        /\ has(64) = (info.password # <<>>)
        /\ has(128) = (has(64) \/ info.username # <<>>)

\* b is one whole message that says what was asked.
Says(b, message) ==
    /\ has_valid_msg_hdr(b[1])
    /\ get_type(b) = message.type
    /\ get_total_length(b) = Len(b)
    /\ IF message.type = "PUBLISH"
       THEN /\ get_publish_topic(b).text = message.topic
            /\ get_publish_data(b).text = message.data
            /\ get_id(b, Len(b)) = message.id
            /\ get_qos(b) = message.qos /\ get_retain(b) = message.retain
       ELSE /\ SubSeq(b, FixedSize(b) + 1, Len(b)) = message.body
            /\ FixedSize(b) = 2 => get_id(b, Len(b)) = message.id
            /\ message.type = "CONNECT" =>
                  \E info \in ConnectInfos : ConnectBody(info) = message.body /\ ConnectSays(b, info)

\* Whatever the client writes is one message that is read as what was asked, with its
\* fragments behind it, and says its own length: also after messages that were built and
\* not sent, unless one of them was longer than the buffer.
OutputRight ==
    /\ written # NoMessage /\ asked.clean => Says(written, asked)
    /\ fragmented_msg_total_length # 0 \/ fragmented_msg_data_offset > 0 => unsent
=============================================================================
