------------------------------ MODULE Transport ------------------------------
(* The transports that connect to a server by TCP or TLS: the context a       *)
(* transport has of its own or shares with the others of its list, and who    *)
(* owns sockets and TLS objects.                                              *)
(*                                                                            *)
(* esp_tls is external: a TLS object opens a socket and closes it when it is  *)
(* destroyed.  The user connects only transports of the list (the others have *)
(* no place for errors), one of a context at a time, and closes a connection  *)
(* before another kind of connection is tried with the context.               *)
EXTENDS Naturals

CONSTANTS
    Tcp, Ssl,           \* the transports made by esp_transport_tcp_init, esp_transport_ssl_init
    Base,               \* the context of the list
    MaxFd               \* the numbers of sockets are 1..MaxFd

VARIABLES
    made,               \* the list exists
    list,               \* its transports
    live,               \* the transports that exist
    data,               \* transport -> its context or None
    ssl,                \* context -> its transport_esp_tls
    tls,                \* TLS object -> its socket; the objects that exist are its domain
    sockets,            \* the sockets that are open
    last_error,         \* the list's error handle
    user,               \* transport -> what its user does with it
    opted               \* the transports whose user gave a certificate

transportVars == <<made, list, live, data, ssl, tls, sockets, last_error, user, opted>>

Transports == Tcp \cup Ssl
Contexts == Transports \cup {Base}
NoContext == "none"
INVALID_SOCKET == 0
NULL == 0
ESP_OK == "ok"

ASSUME TransportAssumption ==
    /\ Tcp \cap Ssl = {} /\ Base \notin Transports /\ NoContext \notin Contexts
    /\ MaxFd \in Nat

Freed == [live |-> FALSE, tls |-> NULL, cert |-> FALSE, ssl_initialized |-> FALSE,
          conn_state |-> "init", sockfd |-> INVALID_SOCKET]
Created == [Freed EXCEPT !.live = TRUE]
Unused == [mode |-> "none", step |-> "idle"]

TransportInit ==
    /\ made = FALSE /\ list = {} /\ live = {}
    /\ data = [t \in Transports |-> NoContext]
    /\ ssl = [c \in Contexts |-> Freed]
    /\ tls = [o \in {} |-> NULL] /\ sockets = {} /\ last_error = ESP_OK
    /\ user = [t \in Transports |-> Unused] /\ opted = {}

-----------------------------------------------------------------------------
(* The context of a transport: its own, else the list's, else a new one. *)

\* The transport's own context has the transport's name.
ContextOf(t) == IF data[t] # NoContext THEN data[t] ELSE IF t \in list THEN Base ELSE t
SslOf(t) == IF ssl[ContextOf(t)].live THEN ssl[ContextOf(t)] ELSE Created

WithContext(t, s) ==
    /\ data' = [data EXCEPT ![t] = ContextOf(t)]
    /\ ssl' = [ssl EXCEPT ![ContextOf(t)] = s]

\* A new socket, and a new TLS object, takes the lowest number that is free.
Lowest(numbers) == {n \in numbers : \A m \in numbers : n <= m}
FreeFds == Lowest((1 .. MaxFd) \ sockets)
NewTls == Lowest((1 .. MaxFd) \ DOMAIN tls)

SetTls(o, fd) == [x \in DOMAIN tls \cup {o} |-> IF x = o THEN fd ELSE tls[x]]
WithoutTls(freed) == [x \in DOMAIN tls \ freed |-> tls[x]]

-----------------------------------------------------------------------------
(* Making and listing. *)

ListInit ==
    /\ ~made
    /\ made' = TRUE
    /\ ssl' = [ssl EXCEPT ![Base] = Created] /\ last_error' = ESP_OK
    /\ UNCHANGED <<list, live, data, tls, sockets, user, opted>>

InitTransport(t) ==
    /\ t \notin live
    /\ live' = live \cup {t}
    /\ UNCHANGED <<made, list, data, ssl, tls, sockets, last_error, user, opted>>

\* Without memory for the scheme the transport stays outside.
ListAdd(t) ==
    /\ made /\ t \in live \ list
    /\ list' = list \cup {t}
    /\ UNCHANGED <<made, live, data, ssl, tls, sockets, last_error, user, opted>>

\* One of the functions that set an option of the configuration.
SetCertData(t) ==
    /\ t \in live /\ user[t].step = "idle"
    /\ WithContext(t, [SslOf(t) EXCEPT !.cert = TRUE])
    /\ opted' = opted \cup {t}
    /\ UNCHANGED <<made, list, live, tls, sockets, last_error, user>>

-----------------------------------------------------------------------------
(* Connecting. *)

\* Who may connect now: nobody else uses the context, and a failure is tried again in the
\* way that failed.
MayConnect(t, mode) ==
    /\ t \in list
    /\ \A u \in list \ {t} : ContextOf(u) = ContextOf(t) => user[u] = Unused
    /\ user[t] = Unused \/ user[t] = [mode |-> mode, step |-> "failed"]

Uses(t, mode, step) == user' = [user EXCEPT ![t] = [mode |-> mode, step |-> step]]

TcpConnect(t) ==
    /\ t \in Tcp /\ MayConnect(t, "sync")
    /\ \/ /\ \E fd \in FreeFds :
                 /\ WithContext(t, [SslOf(t) EXCEPT !.sockfd = fd])
                 /\ sockets' = sockets \cup {fd}
          /\ Uses(t, "sync", "connected") /\ UNCHANGED last_error
       \/ /\ WithContext(t, [SslOf(t) EXCEPT !.sockfd = INVALID_SOCKET])
          /\ last_error' = "failed" /\ Uses(t, "sync", "failed")
          /\ UNCHANGED sockets
    /\ UNCHANGED <<made, list, live, tls, opted>>

\* After a failure ssl_initialized stays set, with no TLS object.
SslConnect(t) ==
    /\ t \in Ssl /\ MayConnect(t, "sync")
    /\ \/ /\ WithContext(t, [SslOf(t) EXCEPT !.ssl_initialized = TRUE, !.tls = NULL])
          /\ last_error' = "no_mem" /\ Uses(t, "sync", "failed")
          /\ UNCHANGED <<tls, sockets>>
       \/ /\ WithContext(t, [SslOf(t) EXCEPT !.ssl_initialized = TRUE, !.tls = NULL,
                                             !.sockfd = INVALID_SOCKET])
          /\ last_error' = "failed" /\ Uses(t, "sync", "failed")
          /\ UNCHANGED <<tls, sockets>>
       \/ /\ \E fd \in FreeFds, o \in NewTls :
                 /\ WithContext(t, [SslOf(t) EXCEPT !.ssl_initialized = TRUE, !.tls = o,
                                                    !.sockfd = fd])
                 /\ tls' = SetTls(o, fd) /\ sockets' = sockets \cup {fd}
          /\ Uses(t, "sync", "connected") /\ UNCHANGED last_error
    /\ UNCHANGED <<made, list, live, opted>>

\* The first call of connect_async: esp_tls_init, and the first call of esp_tls_conn_new_async,
\* which fails with or without a socket, makes progress or is done.
ConnectAsyncStarts(t) ==
    /\ MayConnect(t, "async") /\ SslOf(t).conn_state = "init"
    /\ \/ /\ WithContext(t, [SslOf(t) EXCEPT !.ssl_initialized = TRUE, !.tls = NULL])
          /\ Uses(t, "async", "failed") /\ UNCHANGED <<tls, sockets>>
       \/ \E fd \in FreeFds \cup {INVALID_SOCKET}, o \in NewTls :
              /\ WithContext(t, [SslOf(t) EXCEPT !.ssl_initialized = TRUE, !.tls = o,
                                 !.conn_state = "connecting", !.sockfd = INVALID_SOCKET])
              /\ tls' = SetTls(o, fd) /\ sockets' = sockets \cup ({fd} \ {INVALID_SOCKET})
              /\ Uses(t, "async", "failed")
       \/ \E fd \in FreeFds, o \in NewTls, step \in {"connecting", "connected"} :
              /\ WithContext(t, [SslOf(t) EXCEPT !.ssl_initialized = TRUE, !.tls = o,
                                 !.conn_state = "connecting", !.sockfd = fd])
              /\ tls' = SetTls(o, fd) /\ sockets' = sockets \cup {fd}
              /\ Uses(t, "async", step)
    /\ UNCHANGED <<made, list, live, last_error, opted>>

\* A later call goes on with the same object.
ConnectAsyncGoesOn(t) ==
    /\ t \in list /\ SslOf(t).conn_state = "connecting"
    /\ user[t].mode = "async" /\ user[t].step \in {"connecting", "failed"}
    /\ \/ /\ user[t].step = "connecting"
          /\ WithContext(t, [SslOf(t) EXCEPT !.sockfd = tls[SslOf(t).tls]])
          /\ \E step \in {"connecting", "connected"} : Uses(t, "async", step)
       \/ /\ Uses(t, "async", "failed")
          /\ UNCHANGED <<data, ssl>>
    /\ UNCHANGED <<made, list, live, tls, sockets, last_error, opted>>

-----------------------------------------------------------------------------
(* Reading and writing, as far as they change the error handle. *)

\* A socket that polls readable and reads nothing was closed by the peer.
TransportRead(t) ==
    /\ user[t].step = "connected"
    /\ \E step \in {"connected", "error", "closed"} :
           /\ Uses(t, user[t].mode, step)
           /\ last_error' = CASE step = "closed" -> "closed_fin"
                              [] step = "error" /\ t \in Ssl -> "failed"
                              [] OTHER -> last_error
    /\ UNCHANGED <<made, list, live, data, ssl, tls, sockets, opted>>

TransportWrite(t) ==
    /\ user[t].step = "connected"
    /\ Uses(t, user[t].mode, "error")
    /\ last_error' \in IF t \in Ssl THEN {last_error, "failed"} ELSE {last_error}
    /\ UNCHANGED <<made, list, live, data, ssl, tls, sockets, opted>>

-----------------------------------------------------------------------------
(* Closing and destroying. *)

\* base_close of a context with the state s: what it leaves of it, and what it frees.
ClosedSsl(s) ==
    IF s.ssl_initialized
    THEN [s EXCEPT !.tls = NULL, !.conn_state = "init", !.ssl_initialized = FALSE,
                   !.sockfd = INVALID_SOCKET]
    ELSE [s EXCEPT !.sockfd = INVALID_SOCKET]

FreedTls(s) == IF s.ssl_initialized THEN {s.tls} \ {NULL} ELSE {}

\* Variant: only the TLS object's socket is closed.
SocketOf_TlsOnly(s) ==
    IF s.ssl_initialized /\ s.tls # NULL THEN tls[s.tls] ELSE INVALID_SOCKET

\* The socket of a context with the state s: the TLS object's, or its own.
SocketOf(s) ==
    IF ~s.ssl_initialized THEN s.sockfd ELSE IF s.tls = NULL THEN INVALID_SOCKET ELSE tls[s.tls]

Close(t) ==
    /\ t \in list /\ user[t] # Unused
    /\ WithContext(t, ClosedSsl(SslOf(t)))
    /\ tls' = WithoutTls(FreedTls(SslOf(t)))
    /\ sockets' = sockets \ {SocketOf(SslOf(t))}
    /\ user' = [user EXCEPT ![t] = Unused]
    /\ UNCHANGED <<made, list, live, last_error, opted>>

\* base_destroy frees the context unless it is the list's.
DestroyOutside(t) ==
    /\ t \in live \ list
    /\ live' = live \ {t} /\ opted' = opted \ {t}
    /\ data' = [data EXCEPT ![t] = NoContext]
    /\ ssl' = [ssl EXCEPT ![t] = Freed]
    /\ UNCHANGED <<made, list, tls, sockets, last_error, user>>

\* esp_transport_list_clean destroys every transport of the list: the contexts they use are
\* closed, and their own ones freed.
CleanedContexts == {ContextOf(t) : t \in list}

Cleaned(freed) ==
    /\ made /\ list' = {}
    /\ live' = live \ list /\ opted' = opted \ list
    /\ data' = [t \in Transports |-> IF t \in list THEN NoContext ELSE data[t]]
    /\ ssl' = [c \in Contexts |->
                  IF c \in freed \cup (CleanedContexts \ {Base}) THEN Freed
                  ELSE IF c \in CleanedContexts THEN ClosedSsl(ssl[c])
                  ELSE ssl[c]]
    /\ tls' = WithoutTls(UNION {FreedTls(ssl[c]) : c \in CleanedContexts})
    /\ sockets' = sockets \ {SocketOf(ssl[c]) : c \in CleanedContexts}
    /\ user' = [t \in Transports |-> Unused]

ListClean == Cleaned({}) /\ list # {} /\ UNCHANGED <<made, last_error>>
ListDestroy == Cleaned({Base}) /\ made' = FALSE /\ last_error' = ESP_OK

TransportNext ==
    \/ ListInit \/ ListClean \/ ListDestroy
    \/ \E t \in Transports :
          \/ InitTransport(t) \/ ListAdd(t) \/ SetCertData(t)
          \/ TcpConnect(t) \/ SslConnect(t) \/ ConnectAsyncStarts(t) \/ ConnectAsyncGoesOn(t)
          \/ TransportRead(t) \/ TransportWrite(t) \/ Close(t) \/ DestroyOutside(t)

TransportSpec == TransportInit /\ [][TransportNext]_transportVars

-----------------------------------------------------------------------------
(* Properties. *)

Holds(c) == SocketOf(ssl[c])

\* Every open socket and every TLS object belongs to one context that exists: nothing is lost,
\* nothing is freed twice.
SocketsOwned ==
    LET liveContexts == {c \in Contexts : ssl[c].live}
    IN /\ {ssl[c].tls : c \in liveContexts} \ {NULL} = DOMAIN tls
       /\ {Holds(c) : c \in liveContexts} \ {INVALID_SOCKET} = sockets
       /\ \A c, d \in liveContexts :
              c # d => /\ ssl[c].tls # NULL => ssl[c].tls # ssl[d].tls
                       /\ Holds(c) # INVALID_SOCKET => Holds(c) # Holds(d)

\* A transport's context exists, and whoever is connected reads and writes an open socket.
ContextsLive ==
    /\ \A t \in live : data[t] # NoContext => ssl[data[t]].live
    /\ \A t \in Transports :
           user[t].step \in {"connected", "connecting"} => SslOf(t).sockfd \in sockets

\* A certificate that was set is used by every later connection of that transport.
OptionsKept == \A t \in opted : ssl[data[t]].cert

\* Whoever failed to connect, or found the connection closed by its peer, finds an error in
\* the list's error handle, which another transport of the list may have written over.
ErrorTold ==
    \A t \in list :
        user[t].step = "closed" \/ user[t] = [mode |-> "sync", step |-> "failed"] =>
            last_error # ESP_OK

TransportSound == SocketsOwned /\ ContextsLive /\ OptionsKept /\ ErrorTold
=============================================================================
