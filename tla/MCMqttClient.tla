---------------------------- MODULE MCMqttClient ----------------------------
(* The MQTT client with its outbox ("client"), the messages it writes         *)
(* ("output") and those it reads ("input").  The variables of one rest while  *)
(* another runs.                                                              *)
EXTENDS MqttClient, MqttOutput, MqttInput

VARIABLE part

\* 255 is the id whose bytes are both the greatest.
Data(n) == [k \in 1..n |-> (3 * k) % 16]
Topic == <<1>>
LongTopic == <<15, 1, 2, 3, 4, 5>>

SomePublishes ==
    {[topic |-> t, data |-> Data(n), qos |-> q, retain |-> q % 2] :
        t \in {Topic, LongTopic}, n \in {0, 15, 70}, q \in 0..1}
    \cup {[topic |-> <<>>, data |-> Data(1), qos |-> 0, retain |-> 0],
          [topic |-> Data(40), data |-> Data(1), qos |-> 2, retain |-> 0]}

Will(topic, text, qos, retain) == [topic |-> topic, text |-> text, qos |-> qos, retain |-> retain]
SomeInfos ==
    {[protocol |-> IF u = <<>> THEN "3.1" ELSE "3.1.1", clean_session |-> p = <<>>, client_id |-> Data(1),
      will_topic |-> w.topic, will_message |-> w.text, will_qos |-> w.qos,
      will_retain |-> w.retain, username |-> u, password |-> p, keepalive |-> 60] :
        u \in {<<>>, <<3>>}, p \in {<<>>, <<4>>},
        w \in {Will(<<>>, <<1>>, 1, TRUE), Will(Topic, <<>>, 2, TRUE), Will(Topic, <<1>>, 0, FALSE)}}

SomeTopics == {Topic, Data(40)}

PublishOf(n, qos, id) ==
    [type |-> "PUBLISH", topic |-> Topic, data |-> Data(n), qos |-> qos, id |-> id]
SomeMessages ==
    {PublishOf(0, 0, 0), PublishOf(1, 1, 255), PublishOf(12, 2, 1), PublishOf(8, 0, 0)}
    \cup {[type |-> "PUBACK", id |-> 255], [type |-> "PUBREL", id |-> 1]}
    \cup {[type |-> "SUBACK", id |-> 255, data |-> <<8>>], [type |-> "PINGRESP"],
          [type |-> "CONNACK", code |-> 0], [type |-> "CONNACK", code |-> 5]}

allVars == <<part, vars, outputVars, inputVars>>

ClientInit ==
    /\ part \in {"client", "output", "input"}
    /\ Init /\ OutputInit /\ InputInit

InClient(A) == part = "client" /\ A /\ UNCHANGED <<part, outputVars, inputVars>>

ClientNext ==
    \/ InClient(Next)
    \/ part = "output" /\ OutputNext /\ UNCHANGED <<part, vars, inputVars>>
    \/ part = "input" /\ InputNext /\ UNCHANGED <<part, vars, outputVars>>

ClientFairness ==
    /\ WF_allVars(InClient(Task))
    /\ SF_allVars(InClient(ConnectOk))
    /\ SF_allVars(InClient(ReceiveFails))
    /\ SF_allVars(InClient(Resend))
    /\ WF_allVars(InClient(BrokerGets))
    /\ WF_allVars(InClient(HandlerStopped \/ HandlerStart))
    /\ WF_allVars(InClient(SenderDestroy))

ClientSpec == ClientInit /\ [][ClientNext]_allVars /\ ClientFairness

-----------------------------------------------------------------------------
\* MqttOutput: what is written is read as what was asked, fragments included.
MessagesWritten == OutputRight

\* MqttInput: the broker's messages are acted on in their order, however they are cut.
MessagesRead == InputRead
=============================================================================
