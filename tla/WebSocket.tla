------------------------------ MODULE WebSocket ------------------------------
(* MQTT over web sockets: the frames transport_ws writes and reads, and what  *)
(* it answers by itself.  Numbers are small: a byte is a digit below Digit, a *)
(* key has two bytes, and the three forms of a length change at SmallLimit    *)
(* (125 in the code) and Digit * Digit (65536).                               *)
(*                                                                            *)
(* The server does not mask its frames and sends a header in one piece; its   *)
(* control frames are short.  The one user is the MQTT task: it closes the    *)
(* connection when a call fails, and does not ask for control frames.         *)
EXTENDS Integers, Sequences

CONSTANTS
    Fields,             \* the optional parts of the upgrade request
    Messages,           \* the payloads of either side
    AppLen,             \* the length of the user's buffer
    MaxWire             \* bound: the server waits while more bytes are not yet read

ASSUME WebSocketAssumption ==
    /\ \A m \in Messages : m \in Seq(0..1) /\ Len(m) < 8    \* the length has three digits
    /\ AppLen \in Nat \ {0}

VARIABLES
    ws,                 \* the transport exists
    given,              \* the fields that are set
    conn,               \* the connection: closed, open or failed
    frame_state,
    toClient,           \* the bytes sent by the server and not yet read
    due,                \* the data bytes the server sent and the user has not got
    masked,             \* the message whose memory _ws_write left masked, if any
    misframed,          \* the reader lost the place where frames begin
    written,            \* the bytes of the frame the last call wrote
    asked,              \* what the server should find in them
    received,           \* the bytes the last call read for its user
    wanted              \* the bytes that were due then

wsVars == <<ws, given, conn, frame_state, toClient, due, masked, misframed, written, asked,
            received, wanted>>

WS_OPCODE_BINARY == 2
WS_OPCODE_CLOSE == 8
WS_OPCODE_PING == 9
WS_OPCODE_PONG == 10
WS_FIN == 16
IsControl(opcode) == opcode >= 8

Digit == 2
SmallLimit == 2
WS_SIZE16 == SmallLimit + 1
WS_SIZE64 == SmallLimit + 2
WS_MASK == 8
NoFrame == [opcode |-> 0, payload_len |-> 0, bytes_remaining |-> 0, header_received |-> FALSE]

Nothing == [opcode |-> 0, payload |-> <<>>]
NothingWritten == written' = <<>> /\ asked' = Nothing
NothingRead == received' = <<>> /\ wanted' = <<>>
Quiet == NothingWritten /\ NothingRead

WebSocketInit ==
    /\ ws = FALSE /\ given = {} /\ conn = "closed" /\ frame_state = NoFrame
    /\ toClient = <<>> /\ due = <<>> /\ masked = {} /\ misframed = FALSE
    /\ written = <<>> /\ asked = Nothing /\ received = <<>> /\ wanted = <<>>

-----------------------------------------------------------------------------
(* Frames. *)

\* Variant: the short form one byte too long.
LengthField_OffByOne(len, mask) ==
    CASE len <= SmallLimit + 1 -> <<len + mask>>
      [] len > SmallLimit + 1 /\ len < Digit * Digit ->
             <<WS_SIZE16 + mask, len \div Digit, len % Digit>>
      [] OTHER -> <<WS_SIZE64 + mask, 0, len \div (Digit * Digit), (len \div Digit) % Digit,
                    len % Digit>>

\* The length field, in the three forms of _ws_write.
LengthField(len, mask) ==
    CASE len <= SmallLimit -> <<len + mask>>
      [] len > SmallLimit /\ len < Digit * Digit ->
             <<WS_SIZE16 + mask, len \div Digit, len % Digit>>
      [] OTHER -> <<WS_SIZE64 + mask, 0, len \div (Digit * Digit), (len \div Digit) % Digit,
                    len % Digit>>

\* XOR with the key, byte by byte.
Masked(bytes, key) ==
    [i \in DOMAIN bytes |-> (bytes[i] + key[((i - 1) % Len(key)) + 1]) % Digit]

\* The length a header says, and the bytes it takes: ws_read_header.
Lengths(bytes) ==
    LET len == bytes[2] % WS_MASK
    IN CASE len = WS_SIZE16 -> [len |-> (bytes[3] * Digit) + bytes[4], size |-> 4]
         [] len = WS_SIZE64 /\ bytes[3] # 0 -> [len |-> -1, size |-> 6]
         [] len = WS_SIZE64 /\ bytes[3] = 0 ->
                [len |-> (bytes[4] * Digit * Digit) + (bytes[5] * Digit) + bytes[6], size |-> 6]
         [] OTHER -> [len |-> len, size |-> 2]

\* A frame of the transport, with its key.
ClientFrame(opcode, bytes, key) ==
    <<opcode + WS_FIN>> \o LengthField(Len(bytes), WS_MASK) \o key \o Masked(bytes, key)

\* What a server reads in it, by the protocol.
ServerReads(frame) ==
    LET size == Lengths(frame).size
        rest == SubSeq(frame, size + 3, Len(frame))
    IN [opcode |-> frame[1] % WS_FIN,
        payload |-> IF Len(rest) = Lengths(frame).len
                    THEN Masked(rest, SubSeq(frame, size + 1, size + 2)) ELSE <<-1>>]

ServerFrame(opcode, bytes) ==
    <<opcode + WS_FIN>> \o LengthField(Len(bytes), 0) \o bytes

\* getrandom: any key.
Key == <<1, 0>>

-----------------------------------------------------------------------------
(* Making, configuring and connecting. *)

WsInit ==
    /\ ~ws /\ ws' = TRUE /\ given' = {"path"} /\ frame_state' = NoFrame
    /\ Quiet /\ UNCHANGED <<conn, toClient, due, masked, misframed>>

\* The functions that set a field free the old text; without memory the field stays empty.
SetField(f) ==
    /\ ws /\ conn = "closed"
    /\ given' \in {given \cup {f}, given \ {f}}
    /\ Quiet /\ UNCHANGED <<ws, conn, frame_state, toClient, due, masked, misframed>>

WsDestroy ==
    /\ ws /\ conn = "closed"
    /\ ws' = FALSE /\ given' = {}
    /\ Quiet /\ UNCHANGED <<conn, frame_state, toClient, due, masked, misframed>>

\* The request must fit its buffer, and the answer hold the right key.  frame_state is not
\* reset: a frame that was not read to its end in the last connection goes on in this one.
WsConnect ==
    /\ ws /\ conn = "closed"
    /\ conn' \in {"open", "failed"}
    /\ misframed' = (frame_state.bytes_remaining > 0)
    /\ Quiet /\ UNCHANGED <<ws, given, frame_state, toClient, due, masked>>

WsClose ==
    /\ conn \in {"open", "failed"}
    /\ conn' = "closed" /\ toClient' = <<>> /\ due' = <<>> /\ misframed' = FALSE
    /\ Quiet /\ UNCHANGED <<ws, given, frame_state, masked>>

\* Whoever takes the parent transport to read frames directly makes the next ws_read begin
\* with a header.
GetPayloadTransport ==
    /\ ws /\ conn = "closed"
    /\ frame_state' = [frame_state EXCEPT !.bytes_remaining = 0]
    /\ Quiet /\ UNCHANGED <<ws, given, conn, toClient, due, masked, misframed>>

Fails == conn' = "failed"

-----------------------------------------------------------------------------
(* Writing. *)

\* _ws_write of a whole frame; a frame cut short is not modelled further.
Written(opcode, payload) ==
    /\ written' = ClientFrame(opcode, payload, Key)
    /\ asked' = [opcode |-> opcode, payload |-> payload]

WsWrite(m) ==
    /\ conn = "open"
    /\ \/ /\ m \notin masked /\ UNCHANGED <<conn, masked>>
          /\ Written(IF m = <<>> THEN WS_OPCODE_PING ELSE WS_OPCODE_BINARY, m)
       \* Nothing was written, or the payload in part; a masked message says something else.
       \/ NothingWritten /\ Fails /\ UNCHANGED masked
       \/ NothingWritten /\ m \in masked /\ UNCHANGED <<conn, masked>>
       \* The header could not be written: the message stays masked.
       \/ NothingWritten /\ Fails /\ m # <<>> /\ masked' = {m}
    /\ NothingRead /\ UNCHANGED <<ws, given, frame_state, toClient, due, misframed>>

\* The user is done with the message.
Forget(m) ==
    /\ m \in masked /\ masked' = masked \ {m}
    /\ Quiet /\ UNCHANGED <<ws, given, conn, frame_state, toClient, due, misframed>>

-----------------------------------------------------------------------------
(* The server. *)

ServerSends ==
    /\ conn = "open" /\ ~misframed /\ Len(toClient) <= MaxWire
    /\ \/ \E m \in Messages :
              /\ toClient' = toClient \o ServerFrame(WS_OPCODE_BINARY, m)
              /\ due' = due \o m
       \/ \E opcode \in {WS_OPCODE_CLOSE, WS_OPCODE_PING, WS_OPCODE_PONG},
             m \in {p \in Messages : Len(p) <= SmallLimit} :
              /\ toClient' = toClient \o ServerFrame(opcode, m)
              /\ due' = due
    /\ Quiet /\ UNCHANGED <<ws, given, conn, frame_state, masked, misframed>>

-----------------------------------------------------------------------------
(* Reading. *)

Begun ==
    [opcode |-> toClient[1] % WS_FIN, payload_len |-> Lengths(toClient).len,
     bytes_remaining |-> Lengths(toClient).len, header_received |-> TRUE]

Behind == SubSeq(toClient, Lengths(toClient).size + 1, Len(toClient))

Dropped(bytes, n) == SubSeq(bytes, n + 1, Len(bytes))

\* The bytes that follow mean nothing to the reader.
Lost == misframed' = TRUE /\ toClient' = <<>> /\ due' = <<>>

\* Nothing to read: poll_read says 0 or an error.
ReadNothing ==
    /\ frame_state.bytes_remaining = 0 /\ toClient = <<>>
    /\ frame_state' = [frame_state EXCEPT !.header_received = FALSE]
    /\ conn' \in {conn, "failed"}
    /\ Quiet /\ UNCHANGED <<toClient, due, misframed>>

\* ws_read_payload of the frame f, whose payload is at the head of bytes: a time-out between a
\* header and its payload makes the reader forget the frame.
ReadPayload(f, bytes) ==
    /\ \/ \E n \in 1 .. (IF f.bytes_remaining > AppLen THEN AppLen ELSE f.bytes_remaining) :
              /\ toClient' = Dropped(bytes, n)
              /\ received' = SubSeq(bytes, 1, n)
              /\ wanted' = SubSeq(due, 1, n) /\ due' = Dropped(due, n)
              /\ frame_state' = [f EXCEPT !.bytes_remaining = f.bytes_remaining - n]
              /\ UNCHANGED <<conn, misframed>>
       \/ /\ Lost /\ NothingRead /\ conn' \in {conn, "failed"}
          /\ frame_state' = [f EXCEPT !.bytes_remaining = 0]
    /\ NothingWritten

ReadOn == frame_state.bytes_remaining > 0 /\ ReadPayload(frame_state, toClient)

ReadData ==
    /\ frame_state.bytes_remaining = 0 /\ toClient # <<>> /\ ~IsControl(Begun.opcode)
    /\ \/ Begun.payload_len > 0 /\ ReadPayload(Begun, Behind)
       \/ /\ Begun.payload_len = 0
          /\ frame_state' = Begun /\ toClient' = Behind
          /\ Quiet /\ UNCHANGED <<conn, due, misframed>>

\* A control frame that cannot be read: no memory, or its payload does not come.
ControlLost ==
    /\ Begun.payload_len > 0
    /\ \E left \in 1 .. Begun.payload_len : frame_state' = [Begun EXCEPT !.bytes_remaining = left]
    /\ Lost /\ Fails /\ NothingWritten

\* A PING is answered with its payload, and a CLOSE without one; what the code takes for an
\* answer that was written is also a time-out before an empty one.  The user is told of a
\* failure, and of a connection that is not closed after its CLOSE.
ControlHandled ==
    LET payload == SubSeq(Behind, 1, Begun.payload_len)
        read == [Begun EXCEPT !.bytes_remaining = 0]
        handled == [read EXCEPT !.header_received = FALSE]
        Answer(opcode, bytes) ==
            \/ Written(opcode, bytes) /\ conn' = conn /\ frame_state' = handled
            \/ bytes = <<>> /\ NothingWritten /\ conn' = conn /\ frame_state' = handled
            \/ NothingWritten /\ Fails /\ frame_state' = read
    IN /\ toClient' = Dropped(Behind, Begun.payload_len)
       /\ UNCHANGED <<due, misframed>>
       /\ \/ Begun.opcode = WS_OPCODE_PING /\ Answer(WS_OPCODE_PONG, payload)
          \/ Begun.opcode = WS_OPCODE_CLOSE /\ Answer(WS_OPCODE_CLOSE, <<>>)
          \/ /\ Begun.opcode = WS_OPCODE_CLOSE /\ Fails /\ frame_state' = handled
             /\ NothingWritten \/ Written(WS_OPCODE_CLOSE, <<>>)
          \/ /\ Begun.opcode = WS_OPCODE_PONG /\ conn' = conn /\ frame_state' = handled
             /\ NothingWritten

ReadControl ==
    /\ frame_state.bytes_remaining = 0 /\ toClient # <<>> /\ IsControl(Begun.opcode)
    /\ ControlLost \/ ControlHandled
    /\ NothingRead

\* A reader that lost its place takes any bytes for a header.
ReadLost ==
    /\ \E left \in {0, 1} :
           frame_state' = [NoFrame EXCEPT !.bytes_remaining = left, !.payload_len = left]
    /\ conn' \in {conn, "failed"}
    /\ Quiet /\ UNCHANGED <<toClient, due, misframed>>

WsRead ==
    /\ conn = "open"
    /\ \/ ~misframed /\ (ReadNothing \/ ReadOn \/ ReadData \/ ReadControl)
       \/ misframed /\ ReadLost
    /\ UNCHANGED <<ws, given, masked>>

WebSocketNext ==
    \/ WsInit \/ WsDestroy \/ WsConnect \/ WsClose \/ WsRead \/ ServerSends
    \/ GetPayloadTransport
    \/ \E f \in Fields : SetField(f)
    \/ \E m \in Messages : WsWrite(m) \/ Forget(m)

-----------------------------------------------------------------------------
(* Properties. *)

\* While the reader knows where frames begin, it gives its user the bytes the server sent, in
\* order, whatever the sizes of the reads and the control frames between: all of them when
\* nothing is left to read.
BytesInOrder == received = wanted /\ (toClient = <<>> => due = <<>>)

\* The server finds in a frame what the user or an answer said.
FramesRight == written # <<>> => ServerReads(written) = asked

WebSocketSound == BytesInOrder /\ FramesRight
=============================================================================
