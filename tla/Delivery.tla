------------------------------- MODULE Delivery -------------------------------
(***************************************************************************)
(* What an MQTT client promises to a caller that publishes with QoS 1: it   *)
(* keeps a message until the broker has it and has said so, unless it drops *)
(* it for good.  It never confirms what the broker does not have, and never *)
(* takes up again what it has ended.                                        *)
(***************************************************************************)
CONSTANT Messages

VARIABLES
    kept,        \* the client is responsible for them
    ended,       \* it no longer is
    received,    \* the broker has them
    confirmed    \* the caller was told so

vars == <<kept, ended, received, confirmed>>

Init == kept = {} /\ ended = {} /\ received = {} /\ confirmed = {}

\* A message is taken, and older ones are given up for it.
Accept(m, dropped) ==
    /\ m \notin kept \cup ended
    /\ kept' = (kept \ dropped) \cup {m}
    /\ ended' = ended \cup dropped
    /\ UNCHANGED <<received, confirmed>>

Refuse(m) ==
    /\ m \notin kept \cup ended
    /\ ended' = ended \cup {m}
    /\ UNCHANGED <<kept, received, confirmed>>

\* Again perhaps, or after the client has given the message up.
Receive(m) ==
    /\ m \in kept \cup ended
    /\ received' = received \cup {m}
    /\ UNCHANGED <<kept, ended, confirmed>>

Confirm(m) ==
    /\ m \in kept \cap received
    /\ kept' = kept \ {m}
    /\ ended' = ended \cup {m}
    /\ confirmed' = confirmed \cup {m}
    /\ UNCHANGED received

Drop(dropped) ==
    /\ kept' = kept \ dropped
    /\ ended' = ended \cup dropped
    /\ UNCHANGED <<received, confirmed>>

Next ==
    \/ \E m \in Messages : Refuse(m) \/ Receive(m) \/ Confirm(m)
    \/ \E dropped \in SUBSET kept :
          Drop(dropped) \/ \E m \in Messages : Accept(m, dropped)

Spec == Init /\ [][Next]_vars
=============================================================================
