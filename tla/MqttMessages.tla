---------------------------- MODULE MqttMessages ----------------------------
(***************************************************************************)
(* The messages of MQTT as esp-mqtt writes and reads them (mqtt_msg.c).     *)
(*                                                                         *)
(* A message is the sequence of its bytes.  The base of the remaining      *)
(* length, 128 in the code, is LengthBase, and a byte is one of            *)
(* 2 * LengthBase; the first byte of a message, the version, the name and  *)
(* the flags of a CONNECT have their values of the code.  A string is its   *)
(* bytes, and an absent one is empty, as the code takes it.                 *)
(***************************************************************************)
EXTENDS Naturals, Sequences, SequencesExt

CONSTANTS
    LengthBase,    \* 128
    buffer_length  \* of the buffer messages are built in

Texts == Seq(Nat)
TwoByteNumbers == 0..(4 * LengthBase * LengthBase - 1)

MQTT_MAX_FIXED_HEADER_SIZE == 5

Types == [CONNECT |-> 1, CONNACK |-> 2, PUBLISH |-> 3, PUBACK |-> 4, PUBREC |-> 5,
          PUBREL |-> 6, PUBCOMP |-> 7, SUBSCRIBE |-> 8, SUBACK |-> 9, UNSUBSCRIBE |-> 10,
          UNSUBACK |-> 11, PINGREQ |-> 12, PINGRESP |-> 13, DISCONNECT |-> 14]

TypeByte(type, dup, qos, retain) == 16 * Types[type] + 8 * dup + 2 * qos + retain

get_type(b) == CHOOSE type \in DOMAIN Types : Types[type] = b[1] \div 16
get_dup(b) == (b[1] \div 8) % 2
get_qos(b) == (b[1] \div 2) % 4
get_retain(b) == b[1] % 2

-----------------------------------------------------------------------------
(* Building.  What is built follows the bytes kept for the fixed header.    *)

Flag(set, value) == IF set THEN value ELSE 0

TwoBytes(n) == <<n \div (2 * LengthBase), n % (2 * LengthBase)>>

String(s) == TwoBytes(Len(s)) \o s

Fits(body) == MQTT_MAX_FIXED_HEADER_SIZE + Len(body) <= buffer_length

\* The length in base LengthBase, least digit first, all but the last marked; more than
\* four digits, which find no room, are five here.
LengthBytes(n) ==
    LET shifted(m) == m \div LengthBase
        rest == <<n, shifted(n), shifted(shifted(n)), shifted(shifted(shifted(n))),
                  shifted(shifted(shifted(shifted(n))))>>
        count == Min({k \in 1..4 : rest[k + 1] = 0} \cup {5})
    IN  [k \in 1..count |-> (rest[k] % LengthBase) + Flag(k < count, LengthBase)]

\* How many of the bytes kept for the header are not used.
HeaderOffset(length) == MQTT_MAX_FIXED_HEADER_SIZE - 1 - Len(LengthBytes(length))

\* Either no message, or what fini_message puts together of the body; the length is
\* that of the whole message.
NoMessage == <<>>
Message(typeByte, body, length) ==
    IF Len(LengthBytes(length)) + 1 > MQTT_MAX_FIXED_HEADER_SIZE THEN NoMessage
    ELSE <<typeByte>> \o LengthBytes(length) \o body

IdBody(id) == TwoBytes(id)

SubscribeBody(topic, qos, id) == TwoBytes(id) \o String(topic) \o <<qos>>

UnsubscribeBody(topic, id) == TwoBytes(id) \o String(topic)

\* What comes before the data.
PublishBody(topic, qos, id) == String(topic) \o (IF qos > 0 THEN TwoBytes(id) ELSE <<>>)

ProtocolHeader(protocol) ==
    IF protocol = "3.1" THEN <<0, 6, 77, 81, 73, 115, 100, 112, 3>>   \* MQIsdp
                        ELSE <<0, 4, 77, 81, 84, 84, 4>>              \* MQTT

ConnectFlags(info) ==
    Flag(info.clean_session, 2)
        + (IF info.will_topic = <<>> THEN 0
           ELSE 4 + 8 * (info.will_qos % 4) + Flag(info.will_retain, 32))
        + Flag(info.username # <<>> \/ info.password # <<>>, 128)
        + Flag(info.password # <<>>, 64)

ConnectStrings(info) ==
    String(info.client_id)
        \o (IF info.will_topic = <<>> THEN <<>>
            ELSE String(info.will_topic) \o String(info.will_message))
        \o (IF info.username = <<>> /\ info.password = <<>> THEN <<>> ELSE String(info.username))
        \o (IF info.password = <<>> THEN <<>> ELSE String(info.password))

ConnectBody(info) ==
    ProtocolHeader(info.protocol) \o <<ConnectFlags(info)>> \o TwoBytes(info.keepalive)
        \o ConnectStrings(info)

-----------------------------------------------------------------------------
(* Reading.  b is what has been read of a message.                          *)

\* Another byte of the length follows.
Continues(byte) == byte \in LengthBase..(2 * LengthBase - 1) \/ byte >= 128

\* How many bytes the fixed header has.
FixedSize(b) ==
    LET ends == {k \in 2..Len(b) : ~Continues(b[k])}
    IN  IF ends = {} THEN Len(b) ELSE Min(ends)

\* The client looks for no more than five bytes of a length.
get_total_length(b) ==
    LET digit(k) == IF k <= FixedSize(b) THEN b[k] % LengthBase ELSE 0
    IN  FixedSize(b) + digit(2)
            + LengthBase * (digit(3)
            + LengthBase * (digit(4)
            + LengthBase * (digit(5)
            + LengthBase * digit(6))))

\* Two bytes as a number.
Number(b, k) == b[k] * 2 * LengthBase + b[k + 1]

Missing == [found |-> FALSE, text |-> <<>>]
Found(text) == [found |-> TRUE, text |-> text]

get_publish_topic(b) ==
    LET fixed == FixedSize(b)
    IN  IF fixed + 2 >= Len(b) THEN Missing
        ELSE LET end == fixed + 2 + Number(b, fixed + 1)
             IN  IF end > Len(b) THEN Missing ELSE Found(SubSeq(b, fixed + 3, end))

get_publish_data(b) ==
    LET fixed == FixedSize(b)
        total == get_total_length(b)
    IN  IF fixed + 2 >= Len(b) THEN Missing
        ELSE LET topicEnd == fixed + 2 + Number(b, fixed + 1)
                 start == topicEnd + Flag(get_qos(b) > 0, 2)
             IN  IF \/ topicEnd >= Len(b)
                    \/ get_qos(b) > 0 /\ start >= Len(b)
                    \/ total < start
                 THEN Missing
                 ELSE Found(SubSeq(b, start + 1, IF total <= Len(b) THEN total ELSE Len(b)))

get_suback_data(b) == IF Len(b) > 4 THEN Found(SubSeq(b, 5, Len(b))) ELSE Missing

\* length is the one the caller gives.
get_id(b, length) ==
    CASE get_type(b) = "PUBLISH" ->
            LET fixed == FixedSize(b)
            IN  IF fixed + 2 >= length THEN 0
                ELSE LET topicEnd == fixed + 2 + Number(b, fixed + 1)
                     IN  IF topicEnd > length \/ get_qos(b) = 0 \/ topicEnd + 2 > length THEN 0
                         ELSE Number(b, topicEnd + 1)
      [] get_type(b) \in {"PUBACK", "PUBREC", "PUBREL", "PUBCOMP", "SUBACK", "UNSUBACK",
                          "SUBSCRIBE", "UNSUBSCRIBE"} ->
            IF length >= 4 /\ ~Continues(b[2]) THEN Number(b, 3) ELSE 0
      [] OTHER -> 0

has_valid_msg_hdr(byte) ==
    /\ byte \div 16 \in {Types[type] : type \in DOMAIN Types}
    /\ LET type == get_type(<<byte>>)
       IN  CASE type = "PUBLISH" ->
                    get_qos(<<byte>>) < 3 /\ (get_qos(<<byte>>) > 0 \/ get_dup(<<byte>>) = 0)
             [] type \in {"PUBREL", "SUBSCRIBE", "UNSUBSCRIBE"} -> byte % 16 = 2
             [] OTHER -> byte % 16 = 0

get_connect_return_code(b) == b[4]
=============================================================================
