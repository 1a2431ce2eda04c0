--------------------------- MODULE ConnectionProofs ---------------------------
(***************************************************************************)
(* The credentials of Provisioning for any issues and pair keys, the        *)
(* sockets of Transport for any transports and numbers of sockets, and the *)
(* frames of WebSocket for any messages, buffer and number of bytes.       *)
(*                                                                         *)
(* Credentials.  The key's file is the witness: it is made last, so that   *)
(* whoever finds it finds an id and a certificate that go with it          *)
(* (KeyIsLast), and while an activation is under way it is not there       *)
(* (Fetching).  From there the files follow what is in RAM (Progress), and *)
(* a gateway that is activated has in RAM what is in the files (Activated).*)
(*                                                                         *)
(* Sockets.  SocketsOwned speaks of the contexts only, and what a step     *)
(* does to a context hangs on the transport that uses it.  TransportInv    *)
(* says where a transport's context is (Placed), that it has one user at   *)
(* most (Sole), what that user's last call left in it (AllFit), and that a *)
(* context without a user has nothing (Idles).  Owned is SocketsOwned for  *)
(* all contexts, those that do not exist included.                         *)
(*                                                                         *)
(* Frames.  What may be on the wire is the least set of byte sequences,    *)
(* each with the data in it, that has the empty one and with each also the *)
(* one with a frame in front (Wire).  Facts about all of it come from      *)
(* closed sets that contain it, without induction: it begins with a frame  *)
(* (WireBegins), and a frame may follow (WireGrows).  WebInv says that the *)
(* reader is in place: what is left of its payload, then whole frames.     *)
(***************************************************************************)
EXTENDS MCConnection, SequenceTheorems, TLAPS

-----------------------------------------------------------------------------
(* Credentials. *)

AtFetch ==
    {"post", "openId", "writeId", "getCert", "openCert", "writeCert",
     "getKey", "openKey", "writeKey"}

KeyIsLast ==
    keyFile # Missing =>
        /\ idFile \in Issues
        /\ certFile \in {idFile, Bad}
        /\ keyFile \in {idFile, Bad, Empty}

Fetching ==
    /\ plan \in AtFetch => get_active_start = FALSE
    /\ plan \in AtFetch \ {"writeKey"} => keyFile = Missing
    /\ plan = "writeKey" => keyFile = Empty
    /\ plan \in {"boot", "verify"} /\ get_active_start = FALSE => keyFile = Missing

Progress ==
    /\ plan \in AtFetch \ {"post"} => answer \in Issues
    /\ plan \in AtFetch \ {"post", "openId", "writeId"} => idFile = answer
    /\ plan \in {"openCert", "writeCert", "getKey", "openKey", "writeKey"} =>
          cert \in {answer, Bad}
    /\ plan \in {"getKey", "openKey", "writeKey"} => certFile = cert
    /\ plan \in {"openKey", "writeKey"} => key \in {answer, Bad}

Activated ==
    \/ plan \in {"activate", "download", "wait"}
    \/ plan \in {"boot", "verify"} /\ get_active_start = TRUE
    => /\ keyFile # Missing
       /\ cert \in {idFile, Bad}
       /\ key \in {idFile, Bad, Empty}

ClientWaits ==
    client # None => plan = "wait" /\ ClientOfOneIssue

\* There is a pair key to save, and one was saved when it is read back.
PairSaved ==
    /\ bleTask \in {"open", "write", "read"} => token \in Tokens
    /\ bleTask = "read" => pairFile \in Tokens

IInv ==
    /\ TypeOK /\ KeyIsLast /\ Fetching /\ Progress /\ Activated
    /\ ClientWaits /\ PairSaved

\* The Boolean variables, apart from the rest: their values are also formulas,
\* which needs another prover than the sets.
Booleans ==
    /\ get_active_start \in BOOLEAN /\ mqtt_status \in BOOLEAN
    /\ ble \in BOOLEAN /\ letter \in BOOLEAN
    /\ has_pair_key \in BOOLEAN /\ failBit \in BOOLEAN
    /\ ssid \in BOOLEAN /\ connected \in BOOLEAN

\* Every step leaves Booleans in the Boolean variables.
LEMMA BooleansKept == TypeOK /\ [Next]_vars => Booleans'
<1> SUFFICES ASSUME TypeOK, [Next]_vars PROVE Booleans'
    OBVIOUS
<1>0. Booleans
      BY Zenon DEF TypeOK, Booleans
<1> USE <1>0 DEF Booleans, planVars, mqtt, bleVars, credentials, flash
<1>1. CASE Restart
      BY <1>1, Zenon DEF Restart
<1>2. CASE Booted
      BY <1>2, Zenon DEF Booted, WifiTried
<1>3. CASE PhoneWrites
      BY <1>3, Zenon DEF PhoneWrites
<1>4. CASE BleReceive
      BY <1>4, Zenon DEF BleReceive
<1>5. CASE PairOpen
      BY <1>5, Zenon DEF PairOpen
<1>6. CASE PairWrite
      BY <1>6, Zenon DEF PairWrite
<1>7. CASE PairRead
      BY <1>7, Zenon DEF PairRead
<1>8. CASE WifiConfigured
      BY <1>8, Zenon DEF WifiConfigured
<1>9. CASE BleOff
      BY <1>9, Zenon DEF BleOff
<1>10. CASE Verify
      BY <1>10, Zenon DEF Verify, Goes
<1>11. CASE Accepted
      BY <1>11, Zenon DEF Accepted, Goes
<1>12. CASE Failed
      BY <1>12, Zenon DEF Failed, Goes
<1>13. CASE IdOpen \/ IdWrite \/ GetCert
      BY <1>13, Zenon DEF IdOpen, IdWrite, GetCert, Goes
<1>14. CASE CertOpen \/ CertWrite \/ GetKey
      BY <1>14, Zenon DEF CertOpen, CertWrite, GetKey, Goes
<1>15. CASE KeyOpen \/ KeyWrite
      BY <1>15, Zenon DEF KeyOpen, KeyWrite, Goes
<1>16. CASE ClientStart
      BY <1>16, Zenon DEF ClientStart
<1>17. CASE UpdateBegins \/ UpdateFails
      BY <1>17, Zenon DEF UpdateBegins, UpdateFails, Goes
<1>18. CASE ClientConnected
      BY <1>18, Zenon DEF ClientConnected
<1>19. CASE ClientDisconnected
      BY <1>19, Zenon DEF ClientDisconnected
<1>20. CASE EraseNvs
      BY <1>20, Zenon DEF EraseNvs
<1>21. CASE EraseFiles
      BY <1>21, Zenon DEF EraseFiles
<1>22. CASE Link
      BY <1>22, Zenon DEF Link
<1>23. CASE UNCHANGED vars
      BY <1>23, Zenon DEF vars
<1>24. QED
      BY <1>1, <1>2, <1>3, <1>4, <1>5, <1>6, <1>7, <1>8, <1>9, <1>10, <1>11,
         <1>12, <1>13, <1>14, <1>15, <1>16, <1>17, <1>18, <1>19, <1>20,
         <1>21, <1>22, <1>23
      DEF Next, PowerCut, ForcedRestart, UpdateDone, BleTask, PlanTask

\* The initial states satisfy the strengthened invariant.
LEMMA InitIInv == Init => IInv
<1> SUFFICES ASSUME Init PROVE IInv
    OBVIOUS
<1>1. Booleans
      BY Zenon DEF Init, Booleans
<1>2. QED
      BY <1>1, ProvisioningAssumption
      DEF Init, IInv, TypeOK, Booleans, KeyIsLast, Fetching, Progress,
          Activated, ClientWaits, PairSaved, AtFetch, PlanPoints, Files, Contents, None

\* Going down at any point preserves it: app_main finds an activation only
\* if there is a key, and then all that goes with it.
LEMMA RestartIInv == IInv /\ Booleans' /\ Restart => IInv'
<1> SUFFICES ASSUME IInv, Booleans', Restart PROVE IInv'
    OBVIOUS
<1> USE ProvisioningAssumption
    DEF IInv, Booleans, Restart, flash
<1>1. TypeOK'
      BY DEF TypeOK, PlanPoints, Files, Contents, Read, None
<1>2. KeyIsLast' /\ Progress'
      BY DEF KeyIsLast, Progress, AtFetch
<1>3. get_active_start' = TRUE => keyFile # Missing
      BY Zenon
<1>4. get_active_start' = FALSE => keyFile = Missing
  <2> SUFFICES ASSUME keyFile # Missing PROVE get_active_start' = TRUE
      BY DEF TypeOK
  <2>1. Missing \notin {idFile, certFile, keyFile}
        BY DEF KeyIsLast, Contents
  <2>2. QED
        BY <2>1, Zenon
<1>5. Fetching'
      BY <1>4 DEF Fetching, AtFetch
<1>6. Activated'
      BY <1>3 DEF Activated, KeyIsLast, Read, Contents
<1>7. ClientWaits' /\ PairSaved'
      BY DEF ClientWaits, PairSaved
<1>8. QED
      BY <1>1, <1>2, <1>5, <1>6, <1>7

\* The phone, the handling of its message and BLE's end touch the pair key
\* and the Wi-Fi's name only.
LEMMA BleIInv ==
    IInv /\ Booleans' /\ (PhoneWrites \/ BleTask \/ BleOff) => IInv'
<1> SUFFICES ASSUME IInv, Booleans', PhoneWrites \/ BleTask \/ BleOff
             PROVE IInv'
    OBVIOUS
<1> USE DEF IInv, Booleans, planVars, mqtt, credentials, flash
<1>1. UNCHANGED <<planVars, mqtt, credentials>>
      BY DEF PhoneWrites, BleTask, BleReceive, PairOpen, PairWrite, PairRead,
             WifiConfigured, BleOff
<1>2. TypeOK' /\ PairSaved'
  <2> USE <1>1, ProvisioningAssumption DEF TypeOK, PairSaved
  <2>1. CASE PhoneWrites
        BY <2>1 DEF PhoneWrites
  <2>2. CASE BleReceive
        BY <2>2 DEF BleReceive
  <2>3. CASE PairOpen
        BY <2>3 DEF PairOpen
  <2>4. CASE PairWrite
        BY <2>4 DEF PairWrite
  <2>5. CASE PairRead
        BY <2>5 DEF PairRead
  <2>6. CASE WifiConfigured
        BY <2>6 DEF WifiConfigured
  <2>7. CASE BleOff
        BY <2>7 DEF BleOff
  <2>8. QED
        BY <2>1, <2>2, <2>3, <2>4, <2>5, <2>6, <2>7 DEF BleTask
<1>3. KeyIsLast' /\ Fetching' /\ Progress' /\ Activated'
      BY <1>1 DEF KeyIsLast, Fetching, Progress, Activated
<1>4. ClientWaits'
      BY <1>1 DEF ClientWaits, ClientOfOneIssue
<1>5. QED
      BY <1>2, <1>3, <1>4

\* The steps of the plan task preserve it: the files are written in the
\* order id, certificate, key, each from the answer that RAM holds.
LEMMA PlanIInv ==
    /\ IInv /\ Booleans'
    /\ PlanTask \/ Accepted \/ Failed \/ GetCert \/ GetKey \/ UpdateFails
    => IInv'
<1> SUFFICES ASSUME IInv, Booleans',
                    PlanTask \/ Accepted \/ Failed \/ GetCert \/ GetKey
                        \/ UpdateFails
             PROVE IInv'
    OBVIOUS
<1> USE ProvisioningAssumption
    DEF IInv, Booleans, TypeOK, KeyIsLast, Fetching, Progress, Activated,
        ClientWaits, ClientOfOneIssue, PairSaved, AtFetch, PlanPoints, Files,
        Contents, None, Goes, planVars, mqtt, bleVars, credentials, flash
<1>1. CASE Verify
      BY <1>1 DEF Verify
<1>2. CASE Accepted
      BY <1>2 DEF Accepted
<1>3. CASE Failed
      BY <1>3 DEF Failed
<1>4. CASE IdOpen
      BY <1>4 DEF IdOpen
<1>5. CASE IdWrite
      BY <1>5 DEF IdWrite
<1>6. CASE GetCert
      BY <1>6 DEF GetCert
<1>7. CASE CertOpen
      BY <1>7 DEF CertOpen
<1>8. CASE CertWrite
      BY <1>8 DEF CertWrite
<1>9. CASE GetKey
      BY <1>9 DEF GetKey
<1>10. CASE KeyOpen
      BY <1>10 DEF KeyOpen
<1>11. CASE KeyWrite
      BY <1>11 DEF KeyWrite
<1>12. CASE ClientStart
      BY <1>12 DEF ClientStart
<1>13. CASE UpdateBegins
      BY <1>13 DEF UpdateBegins
<1>14. CASE UpdateFails
      BY <1>14 DEF UpdateFails
<1>15. QED
      BY <1>1, <1>2, <1>3, <1>4, <1>5, <1>6, <1>7, <1>8, <1>9, <1>10, <1>11,
         <1>12, <1>13, <1>14
      DEF PlanTask

\* Booting, the client's connection, the button and the links preserve it.
LEMMA OtherIInv ==
    /\ IInv /\ Booleans'
    /\ \/ Booted \/ ClientConnected \/ ClientDisconnected
       \/ EraseNvs \/ EraseFiles \/ Link \/ UNCHANGED vars
    => IInv'
<1> SUFFICES ASSUME IInv, Booleans',
                    Booted \/ ClientConnected \/ ClientDisconnected
                        \/ EraseNvs \/ EraseFiles \/ Link \/ UNCHANGED vars
             PROVE IInv'
    OBVIOUS
<1> USE ProvisioningAssumption
    DEF IInv, Booleans, TypeOK, KeyIsLast, Fetching, Progress, Activated,
        ClientWaits, ClientOfOneIssue, PairSaved, AtFetch, PlanPoints, Files,
        Contents, None, planVars, mqtt, bleVars, credentials, flash
<1>1. CASE Booted
      BY <1>1 DEF Booted, WifiTried
<1>2. CASE ClientConnected
  <2>1. client # None
        BY <1>2 DEF ClientConnected, Genuine
  <2>2. QED
        BY <1>2, <2>1 DEF ClientConnected
<1>3. CASE ClientDisconnected
      BY <1>3 DEF ClientDisconnected
<1>4. CASE EraseNvs
      BY <1>4 DEF EraseNvs
<1>5. CASE EraseFiles
      BY <1>5 DEF EraseFiles
<1>6. CASE Link
      BY <1>6 DEF Link
<1>7. CASE UNCHANGED vars
      BY <1>7 DEF vars
<1>8. QED
      BY <1>1, <1>2, <1>3, <1>4, <1>5, <1>6, <1>7

\* Every step preserves it.
LEMMA StepIInv == IInv /\ [Next]_vars => IInv'
<1> SUFFICES ASSUME IInv, [Next]_vars PROVE IInv'
    OBVIOUS
<1>1. Booleans'
      BY BooleansKept DEF IInv
<1>2. QED
      BY <1>1, RestartIInv, BleIInv, PlanIInv, OtherIInv
      DEF Next, PowerCut, ForcedRestart, UpdateDone

\* What it says of the files and of the client.
LEMMA InvFiles == IInv => FilesOfOneIssue
BY DEF IInv, KeyIsLast, FilesOfOneIssue

\* The client has what belongs together.
LEMMA InvClient == IInv => ClientOfOneIssue
BY DEF IInv, ClientWaits, ClientOfOneIssue

\* IInv is inductive.
THEOREM Inductive == Spec => []IInv
BY InitIInv, StepIInv, PTL DEF Spec

\* The variables keep their types.
THEOREM TypeCorrect == Spec => []TypeOK
<1>1. IInv => TypeOK
      BY DEF IInv
<1>2. QED
      BY Inductive, <1>1, PTL

\* Whatever the gateway finds at boot in place of all three files comes from
\* one activation, wherever the one before was cut off.
THEOREM FilesCorrect == Spec => []FilesOfOneIssue
BY Inductive, InvFiles, PTL

\* The client gets its id from the file and the rest from RAM, and they
\* belong together.
THEOREM ClientCorrect == Spec => []ClientOfOneIssue
BY Inductive, InvClient, PTL

\* A full set of credentials survives everything but the button.
THEOREM FullSetKept == Spec => CredentialsKept
<1>1. IInv /\ [Next]_vars
        => [FullSet => UNCHANGED credentials \/ EraseFiles]_vars
  <2> SUFFICES ASSUME IInv, Next, FullSet, ~EraseFiles
               PROVE UNCHANGED credentials
      BY DEF vars
  <2>1. keyFile \notin {Missing, Empty}
        BY ProvisioningAssumption DEF FullSet, Contents
  <2>2. ~(IdOpen \/ IdWrite \/ CertOpen \/ CertWrite \/ KeyOpen \/ KeyWrite)
        BY <2>1 DEF IInv, Fetching, AtFetch, IdOpen, IdWrite, CertOpen,
                    CertWrite, KeyOpen, KeyWrite, Goes
  <2>3. QED
        BY <2>2
        DEF Next, PowerCut, ForcedRestart, UpdateDone, BleTask, PlanTask,
            Restart, Booted, PhoneWrites, BleReceive, PairOpen, PairWrite,
            PairRead, WifiConfigured, BleOff, Verify, Accepted, Failed,
            GetCert, GetKey, ClientStart, UpdateBegins, UpdateFails,
            ClientConnected, ClientDisconnected, EraseNvs, Link, flash,
            credentials, planVars
<1>2. QED
      BY Inductive, <1>1, PTL DEF Spec, CredentialsKept

-----------------------------------------------------------------------------
(* Sockets and TLS objects. *)

Fds == 1 .. MaxFd
Esp == [live : BOOLEAN, tls : Fds \cup {NULL}, cert : BOOLEAN, ssl_initialized : BOOLEAN,
        conn_state : {"init", "connecting"}, sockfd : Fds \cup {INVALID_SOCKET}]
Modes == {"none", "sync", "async"}
Steps == {"idle", "failed", "connecting", "connected", "error", "closed"}

EspTypes == ssl \in [Contexts -> Esp]
ListTypes ==
    /\ list \subseteq live /\ live \subseteq Transports /\ opted \subseteq live
    /\ data \in [Transports -> Contexts \cup {NoContext}]
UserTypes == user \in [Transports -> [mode : Modes, step : Steps]]
TlsTypes ==
    /\ tls \in [DOMAIN tls -> Fds \cup {INVALID_SOCKET}]
    /\ DOMAIN tls \subseteq Fds /\ sockets \subseteq Fds
Types == made \in BOOLEAN /\ EspTypes /\ ListTypes /\ UserTypes /\ TlsTypes

\* A transport's context is its own or the list's; the contexts in use are there.
Placed ==
    /\ list # {} => made
    /\ ssl[Base].live <=> made
    /\ \A t \in Transports :
          /\ data[t] \in {t, Base, NoContext}
          /\ data[t] = Base => t \in list
          /\ ssl[t].live <=> data[t] = t
          /\ t \notin live => data[t] = NoContext
    /\ \A c \in Contexts : ~ssl[c].live => ssl[c] = Freed

\* A context has one user at most.
Sole ==
    /\ \A t \in Transports : user[t] # Unused => t \in list /\ data[t] # NoContext
    /\ \A t, u \in Transports :
           t # u /\ user[t] # Unused /\ user[u] # Unused => data[t] # data[u]

Clean(s) ==
    ~s.ssl_initialized /\ s.tls = NULL /\ s.conn_state = "init" /\ s.sockfd = INVALID_SOCKET

\* A context that nobody uses is clean.
Idles == \A c \in Contexts : Clean(ssl[c]) \/ \E t \in Transports : user[t] # Unused /\ data[t] = c

\* What a user who got on has: a socket of its own, or one of a TLS object.
Open(s, T) == s.sockfd # INVALID_SOCKET /\ s.tls # NULL /\ s.sockfd = T[s.tls]
Got == {"connected", "error", "closed"}

SyncFailed(t, s) ==
    /\ s.tls = NULL /\ s.sockfd = INVALID_SOCKET /\ s.conn_state = "init"
    /\ s.ssl_initialized <=> t \in Ssl
SyncTcp(s) ==
    s.tls = NULL /\ ~s.ssl_initialized /\ s.conn_state = "init" /\ s.sockfd # INVALID_SOCKET
SyncSsl(s, T) == s.ssl_initialized /\ s.conn_state = "init" /\ Open(s, T)
AsyncFailed(s) == s.ssl_initialized /\ (s.tls = NULL <=> s.conn_state = "init")
AsyncOn(s, T) == s.ssl_initialized /\ s.conn_state = "connecting" /\ Open(s, T)

\* The context s of transport t, whose user is at u, with the TLS objects T.
Fits(t, u, s, T) ==
    \/ u = Unused
    \/ u.mode = "sync" /\ u.step = "failed" /\ SyncFailed(t, s)
    \/ u.mode = "sync" /\ u.step \in Got /\ t \in Tcp /\ SyncTcp(s)
    \/ u.mode = "sync" /\ u.step \in Got /\ t \in Ssl /\ SyncSsl(s, T)
    \/ u.mode = "async" /\ u.step = "failed" /\ AsyncFailed(s)
    \/ u.mode = "async" /\ u.step \in Got \cup {"connecting"} /\ AsyncOn(s, T)
AllFit == \A t \in Transports : Fits(t, user[t], ssl[data[t]], tls)

\* The numbers that F gives to the contexts are those of S, each to one context.
Matches(F, S) ==
    /\ {F[c] : c \in Contexts} \ {NULL} = S
    /\ \A c, d \in Contexts : c # d /\ F[c] # NULL => F[c] # F[d]

\* SocketOf with the TLS objects T.
SocketIn(s, T) ==
    IF ~s.ssl_initialized THEN s.sockfd ELSE IF s.tls = NULL THEN INVALID_SOCKET ELSE T[s.tls]

Objects == [c \in Contexts |-> ssl[c].tls]
Held == [c \in Contexts |-> SocketIn(ssl[c], tls)]
Owned == Matches(Objects, DOMAIN tls) /\ Matches(Held, sockets)
\* Only an initialized context has a TLS object.
Initialized == \A c \in Contexts : ssl[c].tls # NULL => ssl[c].ssl_initialized

Opted == \A t \in opted : data[t] # NoContext /\ ssl[data[t]].cert

TransportInv ==
    /\ Types /\ Placed /\ Sole /\ Idles /\ AllFit
    /\ Owned /\ Initialized /\ Opted /\ ErrorTold

-----------------------------------------------------------------------------
LEMMA MatchAdd ==
    ASSUME NEW F \in [Contexts -> Nat], NEW S, Matches(F, S), NEW c \in Contexts, F[c] = NULL,
           NEW x \in Nat, x # NULL, x \notin S
    PROVE  Matches([F EXCEPT ![c] = x], S \cup {x})
BY DEF Matches, NULL

\* Contexts that give up their numbers.
LEMMA MatchSub ==
    ASSUME NEW F \in [Contexts -> Nat], NEW S, Matches(F, S), NEW C \in SUBSET Contexts,
           NEW G \in [Contexts -> Nat], \A c \in Contexts : G[c] = IF c \in C THEN NULL ELSE F[c]
    PROVE  Matches(G, S \ {F[c] : c \in C})
BY DEF Matches, NULL

\* A transport always has a context to go by.
LEMMA ContextsExist ==
    ASSUME NEW t \in Transports, ListTypes, Placed
    PROVE  /\ ContextOf(t) \in Contexts /\ ContextOf(t) \in {t, Base}
           /\ ContextOf(t) # NoContext
           /\ data[t] # NoContext => ContextOf(t) = data[t]
BY TransportAssumption DEF ListTypes, Placed, ContextOf, Contexts

\* SslOf shows a context as it is, and one that is missing as if it were new.
LEMMA SslSame ==
    ASSUME NEW t \in Transports, Types, Placed
    PROVE  LET c == ContextOf(t)
           IN /\ SslOf(t) \in Esp /\ SslOf(t).live
              /\ SslOf(t).tls = ssl[c].tls /\ SslOf(t).cert = ssl[c].cert
              /\ SslOf(t).ssl_initialized = ssl[c].ssl_initialized
              /\ SslOf(t).conn_state = ssl[c].conn_state /\ SslOf(t).sockfd = ssl[c].sockfd
<1> DEFINE c == ContextOf(t)
<1>0. c \in Contexts /\ ssl[c] \in Esp
  BY ContextsExist DEF Types, EspTypes
<1>1. CASE ssl[c].live
  BY <1>0, <1>1 DEF SslOf, Esp
<1>2. CASE ~ssl[c].live
  <2>1. ssl[c] = Freed /\ SslOf(t) = Created
    BY <1>0, <1>2 DEF Placed, SslOf
  <2>2. /\ Created \in Esp /\ Created.live
        /\ Created.tls = Freed.tls /\ Created.cert = Freed.cert
        /\ Created.ssl_initialized = Freed.ssl_initialized
        /\ Created.conn_state = Freed.conn_state /\ Created.sockfd = Freed.sockfd
    BY DEF Created, Freed, Esp
  <2> QED BY <2>1, <2>2
<1> QED BY <1>1, <1>2

\* WithContext changes one context, and where one transport looks for it.
LEMMA OneContext ==
    ASSUME NEW t \in Transports, Types, Placed, NEW s, WithContext(t, s)
    PROVE  /\ ssl'[ContextOf(t)] = s /\ data'[t] = ContextOf(t)
           /\ \A d \in Contexts \ {ContextOf(t)} : ssl'[d] = ssl[d]
           /\ \A u \in Transports \ {t} : data'[u] = data[u]
           /\ s \in Esp => EspTypes'
           /\ data' \in [Transports -> Contexts \cup {NoContext}]
<1>0. ContextOf(t) \in Contexts
  BY ContextsExist DEF Types
<1> QED BY <1>0 DEF WithContext, Types, EspTypes, ListTypes

\* A transport that takes a context takes its own or that of its list.
LEMMA PlacedOne ==
    ASSUME NEW t \in live, Types, Placed, NEW s, s.live, WithContext(t, s),
           UNCHANGED <<made, list, live>>
    PROVE  Placed'
<1> DEFINE c == ContextOf(t)
<1>0. /\ t \in Transports /\ c \in Contexts /\ c \in {t, Base} /\ c # NoContext
      /\ Base \in Contexts /\ Base \notin Transports /\ Transports \subseteq Contexts
      /\ NoContext \notin Transports
  BY TransportAssumption, ContextsExist DEF Types, ListTypes, Contexts
<1>1. /\ ssl'[c] = s /\ data'[t] = c
      /\ \A d \in Contexts \ {c} : ssl'[d] = ssl[d]
      /\ \A u \in Transports \ {t} : data'[u] = data[u]
  BY <1>0, OneContext
<1>2. c = Base => t \in list /\ made
  BY <1>0 DEF ContextOf, Placed
<1>3. data[t] \in {c, NoContext}
  BY <1>0 DEF ContextOf
<1> HIDE DEF c
<1>4. ssl'[Base].live <=> made'
  <2>1. CASE c = Base
    BY <1>1, <1>2, <2>1
  <2>2. CASE c # Base
    BY <1>0, <1>1, <2>2 DEF Placed
  <2> QED BY <2>1, <2>2
<1>5. \A d \in Contexts : ~ssl'[d].live => ssl'[d] = Freed
  BY <1>1 DEF Placed
<1>6. \A u \in Transports :
          /\ data'[u] \in {u, Base, NoContext}
          /\ data'[u] = Base => u \in list'
          /\ u \notin live' => data'[u] = NoContext
  BY <1>0, <1>1, <1>2 DEF Placed
<1>7. ASSUME NEW u \in Transports PROVE ssl'[u].live <=> data'[u] = u
  <2>1. CASE u = t /\ c = t
    BY <1>1, <2>1
  <2>2. CASE u = t /\ c = Base
    <3>1. data[t] # t /\ ssl'[t] = ssl[t] /\ data'[t] # t
      BY <1>0, <1>1, <1>3, <2>2
    <3> QED BY <2>2, <3>1 DEF Placed
  <2>3. CASE u # t
    <3>1. ssl'[u] = ssl[u] /\ data'[u] = data[u]
      BY <1>0, <1>1, <2>3
    <3> QED BY <3>1 DEF Placed
  <2> QED BY <1>0, <2>1, <2>2, <2>3
<1> QED BY <1>4, <1>5, <1>6, <1>7 DEF Placed

\* A step of the user of one transport, in a context that nobody else uses.
LEMMA UserStep ==
    ASSUME Types, Placed, Sole, Idles, AllFit, Opted,
           NEW t \in list, NEW s \in Esp, s.live, s.cert = SslOf(t).cert, WithContext(t, s),
           NEW u, user' = [user EXCEPT ![t] = u],
           \A v \in Transports \ {t} : user[v] # Unused => data[v] # ContextOf(t),
           (u # Unused /\ Fits(t, u, s, tls')) \/ (u = Unused /\ Clean(s)),
           \A d \in Contexts \ {ContextOf(t)} :
               ssl[d].tls # NULL => tls'[ssl[d].tls] = tls[ssl[d].tls],
           UNCHANGED <<made, list, live, opted>>
    PROVE  Placed' /\ Sole' /\ Idles' /\ AllFit' /\ Opted'
<1> DEFINE c == ContextOf(t)
<1>0. /\ t \in live /\ t \in Transports /\ c \in Contexts /\ c # NoContext
      /\ data[t] # NoContext => c = data[t]
  BY ContextsExist DEF Types, ListTypes
<1>1. /\ ssl'[c] = s /\ data'[t] = c
      /\ \A d \in Contexts \ {c} : ssl'[d] = ssl[d]
      /\ \A v \in Transports \ {t} : data'[v] = data[v]
  BY <1>0, OneContext
<1>2. user'[t] = u /\ \A v \in Transports \ {t} : user'[v] = user[v]
  BY <1>0 DEF Types, UserTypes
<1>3. \A v \in Transports \ {t} : user[v] # Unused => data[v] # c
  OBVIOUS
<1>4. s.cert = ssl[c].cert
  BY <1>0, SslSame
<1>5. \A v \in Transports : data[v] \in Contexts \cup {NoContext}
  BY DEF Types, ListTypes
<1>6. \A d \in Contexts \ {c} : ssl[d].tls # NULL => tls'[ssl[d].tls] = tls[ssl[d].tls]
  OBVIOUS
<1> HIDE DEF c
<1>7. Placed'
  BY <1>0, PlacedOne
<1>8. Sole'
  BY <1>0, <1>1, <1>2, <1>3 DEF Sole
<1>9. Idles'
  <2> SUFFICES ASSUME NEW d \in Contexts
               PROVE  Clean(ssl'[d]) \/ \E v \in Transports : user'[v] # Unused /\ data'[v] = d
    BY DEF Idles
  <2>1. CASE d = c
    BY <1>0, <1>1, <1>2, <2>1
  <2>2. CASE d # c
    <3>1. CASE Clean(ssl[d])
      BY <1>1, <2>2, <3>1
    <3>2. CASE \E v \in Transports : user[v] # Unused /\ data[v] = d
      <4>1. PICK v \in Transports : user[v] # Unused /\ data[v] = d
        BY <3>2
      <4>2. v # t
        BY <1>0, <2>2, <4>1 DEF Sole
      <4> QED BY <1>1, <1>2, <4>1, <4>2
    <3> QED BY <3>1, <3>2 DEF Idles
  <2> QED BY <2>1, <2>2
<1>10. AllFit'
  <2> SUFFICES ASSUME NEW v \in Transports PROVE Fits(v, user'[v], ssl'[data'[v]], tls')
    BY DEF AllFit
  <2>1. CASE v = t
    BY <1>1, <1>2, <2>1 DEF Fits
  <2>2. CASE v # t /\ user[v] = Unused
    BY <1>2, <2>2 DEF Fits
  <2>3. CASE v # t /\ user[v] # Unused
    <3>1. data[v] \in Contexts \ {c} /\ Fits(v, user[v], ssl[data[v]], tls)
      BY <1>3, <1>5, <2>3 DEF Sole, AllFit
    <3>2. Fits(v, user[v], ssl[data[v]], tls')
      BY <1>6, <3>1 DEF Fits, SyncSsl, AsyncOn, Open
    <3> QED BY <1>1, <1>2, <2>3, <3>1, <3>2
  <2> QED BY <2>1, <2>2, <2>3
<1>11. Opted'
  <2> SUFFICES ASSUME NEW v \in opted PROVE data'[v] # NoContext /\ ssl'[data'[v]].cert
    BY DEF Opted
  <2>1. v \in Transports /\ data[v] # NoContext /\ ssl[data[v]].cert
    BY DEF Types, ListTypes, Opted
  <2>2. CASE v = t
    BY <1>0, <1>1, <1>4, <2>1, <2>2
  <2>3. CASE v # t
    BY <1>1, <1>4, <1>5, <2>1, <2>3
  <2> QED BY <2>2, <2>3
<1> QED BY <1>7, <1>8, <1>9, <1>10, <1>11

\* The TLS objects of the contexts are numbers.
LEMMA ObjectTypes ==
    ASSUME Types
    PROVE  Objects \in [Contexts -> Nat]
BY TransportAssumption DEF Objects, Types, EspTypes, Esp, Fds, NULL

\* So are their sockets, and the TLS objects that the contexts name exist.
LEMMA HeldTypes ==
    ASSUME Types, Owned, NEW c \in Contexts
    PROVE  /\ SocketIn(ssl[c], tls) \in Fds \cup {INVALID_SOCKET}
           /\ ssl[c].tls \in Fds \cup {NULL}
           /\ ssl[c].tls # NULL => ssl[c].tls \in DOMAIN tls
<1>1. /\ ssl[c].tls \in Fds \cup {NULL} /\ ssl[c].sockfd \in Fds \cup {INVALID_SOCKET}
      /\ ssl[c].ssl_initialized \in BOOLEAN
  BY DEF Types, EspTypes, Esp
<1>2. ssl[c].tls # NULL => ssl[c].tls \in DOMAIN tls
  BY DEF Owned, Matches, Objects
<1>3. ssl[c].tls # NULL => tls[ssl[c].tls] \in Fds \cup {INVALID_SOCKET}
  BY <1>2 DEF Types, TlsTypes
<1> QED BY <1>1, <1>2, <1>3 DEF SocketIn

\* A step that leaves to each context its socket and its TLS object.
LEMMA OwnedSame ==
    ASSUME Types, Placed, Owned, Initialized, NEW t \in Transports, NEW s,
           WithContext(t, s), UNCHANGED <<tls, sockets>>,
           s.tls = SslOf(t).tls, SocketIn(s, tls) = SocketIn(SslOf(t), tls),
           s.tls # NULL => s.ssl_initialized
    PROVE  Owned' /\ Initialized'
<1>1. /\ s.tls = ssl[ContextOf(t)].tls /\ ContextOf(t) \in Contexts
      /\ SocketIn(s, tls) = SocketIn(ssl[ContextOf(t)], tls)
  BY SslSame, ContextsExist DEF SocketIn, Types
<1>2. \A c \in Contexts : ssl'[c].tls = ssl[c].tls
                          /\ SocketIn(ssl'[c], tls') = SocketIn(ssl[c], tls)
  BY <1>1, OneContext
<1>3. Objects' = Objects /\ Held' = Held
  BY <1>2, Zenon DEF Objects, Held
<1>4. Initialized'
  BY <1>1, OneContext DEF Initialized
<1> QED BY <1>3, <1>4 DEF Owned, Matches

\* The context of t opens the socket fd without TLS.
LEMMA OwnedPlain ==
    ASSUME Types, Placed, Owned, Initialized, NEW t \in Transports, NEW s, NEW fd \in Fds \ sockets,
           WithContext(t, s), tls' = tls, sockets' = sockets \cup {fd},
           SslOf(t).tls = NULL, s.tls = NULL, ~s.ssl_initialized, s.sockfd = fd,
           SocketIn(SslOf(t), tls) = INVALID_SOCKET
    PROVE  Owned' /\ Initialized'
<1>1. /\ ssl[ContextOf(t)].tls = NULL /\ ContextOf(t) \in Contexts
      /\ SocketIn(ssl[ContextOf(t)], tls) = INVALID_SOCKET
  BY SslSame, ContextsExist DEF SocketIn, Types
<1>2. \A c \in Contexts : ssl'[c].tls = ssl[c].tls
  BY <1>1, OneContext
<1>3. Objects' = Objects
  BY <1>2, Zenon DEF Objects
<1>4. SocketIn(s, tls') = fd
  BY DEF SocketIn
<1>5. \A c \in Contexts : SocketIn(ssl'[c], tls') = [Held EXCEPT ![ContextOf(t)] = fd][c]
  BY <1>1, <1>4, OneContext DEF Held
<1>6. Held' = [Held EXCEPT ![ContextOf(t)] = fd]
  BY <1>5 DEF Held
<1>7. Held[ContextOf(t)] = NULL
  BY <1>1 DEF Held, NULL, INVALID_SOCKET
<1>8. Held \in [Contexts -> Nat]
  BY HeldTypes, TransportAssumption DEF Held, Fds, INVALID_SOCKET
<1>9. fd \in Nat /\ fd # NULL
  BY TransportAssumption DEF Fds, NULL
<1>10. Matches(Held', sockets')
  BY <1>1, <1>6, <1>7, <1>8, <1>9, MatchAdd DEF Owned
<1>11. Matches(Objects', DOMAIN tls')
  BY <1>3 DEF Owned
<1>12. Initialized'
  BY <1>1, OneContext DEF Initialized
<1> QED BY <1>10, <1>11, <1>12 DEF Owned

\* A new TLS object leaves the others.
LEMMA NewTlsObject ==
    ASSUME Types, NEW o, NEW fd, o \notin DOMAIN tls, tls' = SetTls(o, fd)
    PROVE  /\ DOMAIN tls' = DOMAIN tls \cup {o} /\ tls'[o] = fd
           /\ \A x \in DOMAIN tls : tls'[x] = tls[x]
BY DEF SetTls

\* The context of t gets the TLS object o with the socket fd, or without one.
LEMMA OwnedTls ==
    ASSUME Types, Placed, Owned, Initialized, NEW t \in Transports, NEW s,
           NEW o \in Fds \ DOMAIN tls, NEW fd \in (Fds \ sockets) \cup {INVALID_SOCKET},
           WithContext(t, s), tls' = SetTls(o, fd),
           sockets' = sockets \cup ({fd} \ {INVALID_SOCKET}),
           SslOf(t).tls = NULL, s.tls = o, s.ssl_initialized,
           SocketIn(SslOf(t), tls) = INVALID_SOCKET
    PROVE  Owned' /\ Initialized'
<1> DEFINE c == ContextOf(t)
<1>1. ssl[c].tls = NULL /\ c \in Contexts /\ SocketIn(ssl[c], tls) = INVALID_SOCKET
  BY SslSame, ContextsExist DEF SocketIn, Types
<1>2. ssl'[c] = s /\ \A d \in Contexts \ {c} : ssl'[d] = ssl[d]
  BY OneContext
<1>3. /\ DOMAIN tls' = DOMAIN tls \cup {o} /\ tls'[o] = fd
      /\ \A x \in DOMAIN tls : tls'[x] = tls[x]
  BY NewTlsObject
<1>4. o \in Nat /\ o # NULL
  BY TransportAssumption DEF Fds, NULL
<1>5. fd \in Nat /\ (fd # NULL => fd \notin sockets) /\ (fd = INVALID_SOCKET <=> fd = NULL)
  BY TransportAssumption DEF Fds, NULL, INVALID_SOCKET
<1> HIDE DEF c
<1>6. Matches(Objects', DOMAIN tls')
  <2>1. Objects' = [Objects EXCEPT ![c] = o]
    BY <1>1, <1>2 DEF Objects
  <2>2. Objects[c] = NULL
    BY <1>1 DEF Objects
  <2>3. Matches([Objects EXCEPT ![c] = o], DOMAIN tls \cup {o})
    BY <1>1, <1>4, <2>2, ObjectTypes, MatchAdd DEF Owned
  <2> QED BY <1>3, <2>1, <2>3, Zenon
<1>7. Matches(Held', sockets')
  <2>1. SocketIn(s, tls') = fd
    BY <1>3, <1>4 DEF SocketIn
  <2>2. \A d \in Contexts \ {c} : SocketIn(ssl'[d], tls') = SocketIn(ssl[d], tls)
    BY <1>2, <1>3, HeldTypes DEF SocketIn
  <2>3. Held' = [Held EXCEPT ![c] = fd]
    BY <1>1, <1>2, <2>1, <2>2 DEF Held
  <2>4. Held[c] = NULL /\ Held \in [Contexts -> Nat]
    BY <1>1, HeldTypes, TransportAssumption DEF Held, Fds, NULL, INVALID_SOCKET
  <2>5. CASE fd = NULL
    <3>1. Held' = Held
      BY <2>3, <2>4, <2>5 DEF Held
    <3>2. sockets' = sockets
      BY <1>5, <2>5
    <3> QED BY <3>1, <3>2 DEF Owned
  <2>6. CASE fd # NULL
    <3>1. sockets' = sockets \cup {fd}
      BY <1>5, <2>6
    <3>2. Matches([Held EXCEPT ![c] = fd], sockets \cup {fd})
      BY <1>1, <1>5, <2>4, <2>6, MatchAdd DEF Owned
    <3> QED BY <2>3, <3>1, <3>2, Zenon
  <2> QED BY <2>5, <2>6
<1>8. Initialized'
  BY <1>1, <1>2 DEF Initialized
<1> QED BY <1>6, <1>7, <1>8 DEF Owned

\* The contexts of C close what they have.
LEMMA OwnedClosed ==
    ASSUME Types, Owned, Initialized, NEW C \in SUBSET Contexts,
           \A c \in C : ssl'[c].tls = NULL /\ ~ssl'[c].ssl_initialized
                        /\ ssl'[c].sockfd = INVALID_SOCKET,
           \A c \in Contexts \ C : ssl'[c] = ssl[c],
           tls' = WithoutTls({ssl[c].tls : c \in C} \ {NULL}),
           sockets' = sockets \ {SocketOf(ssl[c]) : c \in C}
    PROVE  Owned' /\ Initialized'
<1>1. /\ DOMAIN tls' = DOMAIN tls \ {ssl[c].tls : c \in C}
      /\ \A x \in DOMAIN tls' : tls'[x] = tls[x]
  <2>1. NULL \notin DOMAIN tls
    BY TransportAssumption DEF Types, TlsTypes, Fds, NULL
  <2> QED BY <2>1 DEF WithoutTls
<1>2. Matches(Objects', DOMAIN tls')
  <2>1. \A c \in Contexts : Objects'[c] = IF c \in C THEN NULL ELSE Objects[c]
    BY DEF Objects
  <2>2. Objects' \in [Contexts -> Nat]
    <3>1. Objects' = [c \in Contexts |-> Objects'[c]]
      BY DEF Objects
    <3>2. \A c \in Contexts : Objects'[c] \in Nat
      BY <2>1, ObjectTypes DEF NULL
    <3> QED BY <3>1, <3>2
  <2>3. {Objects[c] : c \in C} = {ssl[c].tls : c \in C}
    BY DEF Objects
  <2>4. Matches(Objects', DOMAIN tls \ {Objects[c] : c \in C})
    BY <2>1, <2>2, ObjectTypes, MatchSub DEF Owned
  <2> QED BY <1>1, <2>3, <2>4, Zenon
<1>3. Matches(Held', sockets')
  <2>1. \A c \in C : SocketIn(ssl'[c], tls') = NULL
    BY DEF SocketIn, NULL, INVALID_SOCKET
  <2>2. ASSUME NEW c \in Contexts \ C PROVE SocketIn(ssl'[c], tls') = SocketIn(ssl[c], tls)
    <3>1. ssl[c].tls # NULL => ssl[c].tls \in DOMAIN tls
      BY HeldTypes
    <3>2. ssl[c].tls # NULL => ssl[c].tls \notin {ssl[d].tls : d \in C}
      BY DEF Owned, Matches, Objects
    <3> QED BY <1>1, <3>1, <3>2 DEF SocketIn
  <2>3. \A c \in Contexts : Held'[c] = IF c \in C THEN NULL ELSE Held[c]
    BY <2>1, <2>2 DEF Held
  <2>4. Held \in [Contexts -> Nat]
    BY HeldTypes, TransportAssumption DEF Held, Fds, INVALID_SOCKET
  <2>5. Held' \in [Contexts -> Nat]
    <3>1. Held' = [c \in Contexts |-> Held'[c]]
      BY DEF Held
    <3>2. \A c \in Contexts : Held'[c] \in Nat
      BY <2>3, <2>4 DEF NULL
    <3> QED BY <3>1, <3>2
  <2>6. {Held[c] : c \in C} = {SocketOf(ssl[c]) : c \in C}
    <3>1. \A c \in C : Held[c] = SocketOf(ssl[c])
      BY DEF Held, SocketIn, SocketOf
    <3> QED BY <3>1
  <2>7. Matches(Held', sockets \ {Held[c] : c \in C})
    BY <2>3, <2>4, <2>5, MatchSub DEF Owned
  <2> QED BY <2>6, <2>7, Zenon
<1>4. Initialized'
  BY DEF Initialized
<1> QED BY <1>2, <1>3, <1>4 DEF Owned

\* The user of transport t, the only one of its context, goes to u, and the context to s.
Moves(t, s, u) ==
    /\ s \in Esp /\ s.live /\ s.cert = SslOf(t).cert /\ WithContext(t, s)
    /\ u \in [mode : Modes, step : Steps] /\ user' = [user EXCEPT ![t] = u]
    /\ \A v \in Transports \ {t} : user[v] # Unused => data[v] # ContextOf(t)
    /\ (u # Unused /\ Fits(t, u, s, tls')) \/ (u = Unused /\ Clean(s))
    /\ UNCHANGED <<made, list, live, opted>>

\* The TLS objects of the other contexts stay.
Kept(t) ==
    /\ \A d \in Contexts \ {ContextOf(t)} :
          ssl[d].tls # NULL => tls'[ssl[d].tls] = tls[ssl[d].tls]
    /\ TlsTypes' /\ Owned' /\ Initialized'

\* An error is told, and not taken back.
Tells(u) ==
    /\ last_error' = last_error \/ last_error' # ESP_OK
    /\ u.step = "closed" \/ u = [mode |-> "sync", step |-> "failed"] => last_error' # ESP_OK

\* Such a step keeps the invariant.
LEMMA UserStepInv ==
    ASSUME TransportInv, NEW t \in list, NEW s, NEW u, Moves(t, s, u), Kept(t), Tells(u)
    PROVE  TransportInv'
<1>1. Placed' /\ Sole' /\ Idles' /\ AllFit' /\ Opted'
  BY UserStep DEF TransportInv, Moves, Kept
<1>2. t \in Transports
  BY DEF TransportInv, Types, ListTypes
<1>3. Types'
  <2>1. EspTypes' /\ data' \in [Transports -> Contexts \cup {NoContext}]
    BY <1>2, OneContext DEF TransportInv, Moves
  <2> QED BY <2>1 DEF TransportInv, Types, UserTypes, ListTypes, Moves, Kept
<1>4. user'[t] = u /\ \A v \in list \ {t} : user'[v] = user[v]
  BY <1>2 DEF TransportInv, Types, UserTypes, ListTypes, Moves
<1>5. ErrorTold'
  BY <1>4 DEF TransportInv, ErrorTold, Moves, Tells
<1> QED BY <1>1, <1>3, <1>5 DEF TransportInv, Kept

\* Who may connect finds its context without anything to lose.
LEMMA MayConnectFinds ==
    ASSUME TransportInv, NEW t \in Transports, NEW mode, MayConnect(t, mode),
           mode \in {"sync", "async"}, mode = "sync" \/ SslOf(t).conn_state = "init"
    PROVE  /\ \A v \in Transports \ {t} : user[v] # Unused => data[v] # ContextOf(t)
           /\ t \in list
           /\ SslOf(t).tls = NULL /\ SslOf(t).conn_state = "init"
           /\ SocketIn(SslOf(t), tls) = INVALID_SOCKET
           /\ mode = "sync" => SslOf(t).sockfd = INVALID_SOCKET
           /\ mode = "sync" /\ t \in Tcp => ~SslOf(t).ssl_initialized
<1> DEFINE c == ContextOf(t)
<1>0. /\ t \in list /\ Types /\ Placed /\ Sole /\ Idles /\ AllFit
      /\ Tcp \cap Ssl = {}
  BY TransportAssumption DEF MayConnect, TransportInv
<1>1. /\ c \in Contexts /\ SslOf(t).tls = ssl[c].tls
      /\ SslOf(t).ssl_initialized = ssl[c].ssl_initialized
      /\ SslOf(t).conn_state = ssl[c].conn_state /\ SslOf(t).sockfd = ssl[c].sockfd
  BY <1>0, SslSame, ContextsExist DEF Types
<1>2. \A v \in Transports \ {t} : user[v] # Unused => data[v] # c
  <2> SUFFICES ASSUME NEW v \in Transports \ {t}, user[v] # Unused, data[v] = c PROVE FALSE
    OBVIOUS
  <2>1. v \in list /\ ContextOf(v) = data[v]
    BY <1>0 DEF Sole, ContextOf
  <2> QED BY <2>1 DEF MayConnect
<1>3. CASE user[t] = Unused
  <2>1. Clean(ssl[c])
    BY <1>0, <1>1, <1>2, <1>3 DEF Idles
  <2> QED BY <1>0, <1>1, <1>2, <2>1 DEF Clean, SocketIn
<1>4. CASE user[t] # Unused
  <2>1. user[t] = [mode |-> mode, step |-> "failed"]
    BY <1>4 DEF MayConnect
  <2>2. data[t] = c /\ Fits(t, user[t], ssl[c], tls)
    BY <1>0, <1>4, ContextsExist DEF Sole, AllFit, Types
  <2>3. CASE mode = "sync"
    <3>1. SyncFailed(t, ssl[c])
      BY <1>4, <2>1, <2>2, <2>3 DEF Fits, Got
    <3> QED BY <1>0, <1>1, <1>2, <2>3, <3>1 DEF SyncFailed, SocketIn
  <2>4. CASE mode = "async"
    <3>1. AsyncFailed(ssl[c])
      BY <1>4, <2>1, <2>2, <2>4 DEF Fits, Got
    <3> QED BY <1>0, <1>1, <1>2, <2>4, <3>1 DEF AsyncFailed, SocketIn
  <2> QED BY <2>3, <2>4
<1> QED BY <1>3, <1>4

\* What is free is not taken.
LEMMA Free ==
    /\ FreeFds \subseteq Fds \ sockets
    /\ NewTls \subseteq Fds \ DOMAIN tls
BY DEF FreeFds, NewTls, Lowest, Fds

\* A step that connects, or fails to: the context gets the state s.
LEMMA Connects ==
    ASSUME TransportInv, NEW t \in Transports, NEW mode \in {"sync", "async"},
           NEW step \in {"failed", "connecting", "connected"}, NEW s,
           MayConnect(t, mode), mode = "sync" \/ SslOf(t).conn_state = "init",
           Moves(t, s, [mode |-> mode, step |-> step]),
           \A x \in DOMAIN tls : tls'[x] = tls[x], TlsTypes', Owned' /\ Initialized',
           Tells([mode |-> mode, step |-> step])
    PROVE  TransportInv'
<1>1. t \in list
  BY DEF MayConnect
<1>2. Kept(t)
  BY HeldTypes DEF TransportInv, Kept
<1> QED BY <1>1, <1>2, UserStepInv

\* A step that connects is a step of the only user of its context.
LEMMA ConnectMoves ==
    ASSUME TransportInv, NEW t \in Transports, NEW mode \in {"sync", "async"},
           NEW step \in {"failed", "connecting", "connected"}, NEW s,
           MayConnect(t, mode), mode = "sync" \/ SslOf(t).conn_state = "init",
           s \in Esp, s.live, s.cert = SslOf(t).cert, WithContext(t, s), Uses(t, mode, step),
           Fits(t, [mode |-> mode, step |-> step], s, tls'),
           UNCHANGED <<made, list, live, opted>>
    PROVE  Moves(t, s, [mode |-> mode, step |-> step])
<1> DEFINE u == [mode |-> mode, step |-> step]
<1>1. \A v \in Transports \ {t} : user[v] # Unused => data[v] # ContextOf(t)
  BY MayConnectFinds
<1>2. u \in [mode : Modes, step : Steps]
  BY DEF Modes, Steps
<1>3. u # Unused /\ Fits(t, u, s, tls')
  BY DEF Unused
<1>4. user' = [user EXCEPT ![t] = u]
  BY DEF Uses
<1> HIDE DEF u
<1>5. Moves(t, s, u)
  BY <1>1, <1>2, <1>3, <1>4 DEF Moves
<1> QED BY <1>5 DEF u

\* tcp_connect, with a socket or without one.
LEMMA TcpConnects ==
    ASSUME TransportInv, NEW t \in Transports, TcpConnect(t) PROVE TransportInv'
<1>0. /\ t \in Tcp /\ t \notin Ssl /\ MayConnect(t, "sync")
      /\ Types /\ Placed /\ Owned /\ Initialized /\ SslOf(t) \in Esp /\ SslOf(t).live
  BY SslSame, TransportAssumption DEF TcpConnect, TransportInv
<1>1. /\ SslOf(t).tls = NULL /\ SslOf(t).conn_state = "init"
      /\ SocketIn(SslOf(t), tls) = INVALID_SOCKET
      /\ SslOf(t).sockfd = INVALID_SOCKET /\ ~SslOf(t).ssl_initialized
  BY <1>0, MayConnectFinds, Zenon
<1>2. UNCHANGED <<made, list, live, opted, tls>>
  BY DEF TcpConnect
<1>3. ASSUME NEW fd \in FreeFds, WithContext(t, [SslOf(t) EXCEPT !.sockfd = fd]),
             sockets' = sockets \cup {fd}, Uses(t, "sync", "connected"), UNCHANGED last_error
      PROVE  TransportInv'
  <2> DEFINE s == [SslOf(t) EXCEPT !.sockfd = fd]
  <2>1. fd \in Fds \ sockets /\ fd # INVALID_SOCKET
    BY Free, TransportAssumption DEF Fds, INVALID_SOCKET
  <2>2. /\ s \in Esp /\ s.live /\ s.cert = SslOf(t).cert /\ s.tls = NULL
        /\ s.conn_state = "init" /\ ~s.ssl_initialized /\ s.sockfd = fd
    BY <1>0, <1>1, <2>1 DEF Esp
  <2>3. WithContext(t, s)
    BY <1>3
  <2> HIDE DEF s
  <2>4. Owned' /\ Initialized'
    BY <1>0, <1>1, <1>2, <1>3, <2>1, <2>2, <2>3, OwnedPlain
  <2>5. TlsTypes'
    BY <1>0, <1>2, <1>3, <2>1 DEF Types, TlsTypes
  <2>6. Fits(t, [mode |-> "sync", step |-> "connected"], s, tls')
    BY <1>0, <2>1, <2>2 DEF Fits, SyncTcp, Got
  <2>7. Moves(t, s, [mode |-> "sync", step |-> "connected"])
    BY <1>0, <1>2, <1>3, <2>2, <2>3, <2>6, ConnectMoves
  <2>8. Tells([mode |-> "sync", step |-> "connected"])
    BY <1>3 DEF Tells
  <2> QED BY <1>0, <1>2, <2>4, <2>5, <2>7, <2>8, Connects
<1>4. ASSUME WithContext(t, [SslOf(t) EXCEPT !.sockfd = INVALID_SOCKET]),
             last_error' = "failed", Uses(t, "sync", "failed"), UNCHANGED sockets
      PROVE  TransportInv'
  <2> DEFINE s == [SslOf(t) EXCEPT !.sockfd = INVALID_SOCKET]
  <2>2. /\ s \in Esp /\ s.live /\ s.cert = SslOf(t).cert /\ s.tls = NULL
        /\ s.conn_state = "init" /\ ~s.ssl_initialized /\ s.sockfd = INVALID_SOCKET
    BY <1>0, <1>1 DEF Esp, INVALID_SOCKET
  <2>3. WithContext(t, s) /\ last_error' # ESP_OK
    BY <1>4 DEF ESP_OK
  <2> HIDE DEF s
  <2>4. Owned' /\ Initialized'
    <3>1. SocketIn(s, tls) = SocketIn(SslOf(t), tls)
      BY <1>1, <2>2 DEF SocketIn
    <3> QED BY <1>0, <1>1, <1>2, <1>4, <2>2, <2>3, <3>1, OwnedSame
  <2>5. TlsTypes'
    BY <1>0, <1>2, <1>4 DEF Types, TlsTypes
  <2>6. Fits(t, [mode |-> "sync", step |-> "failed"], s, tls')
    BY <1>0, <2>2 DEF Fits, SyncFailed
  <2>7. Moves(t, s, [mode |-> "sync", step |-> "failed"])
    BY <1>0, <1>2, <1>4, <2>2, <2>3, <2>6, ConnectMoves
  <2>8. Tells([mode |-> "sync", step |-> "failed"])
    BY <2>3 DEF Tells
  <2> QED BY <1>0, <1>2, <2>4, <2>5, <2>7, <2>8, Connects
<1> QED BY <1>3, <1>4 DEF TcpConnect

\* A failure before there is a TLS object.
LEMMA TlsFails ==
    ASSUME TransportInv, NEW t \in Transports, NEW mode \in {"sync", "async"}, NEW s,
           MayConnect(t, mode), mode = "sync" \/ SslOf(t).conn_state = "init",
           s.tls = NULL, s.ssl_initialized, WithContext(t, s), UNCHANGED <<tls, sockets>>
    PROVE  (\A x \in DOMAIN tls : tls'[x] = tls[x]) /\ TlsTypes' /\ Owned' /\ Initialized'
<1>1. SslOf(t).tls = NULL /\ SocketIn(SslOf(t), tls) = INVALID_SOCKET
  BY MayConnectFinds
<1>2. SocketIn(s, tls) = INVALID_SOCKET
  BY DEF SocketIn
<1>3. Types /\ Placed /\ Owned /\ Initialized
  BY DEF TransportInv
<1>4. Owned' /\ Initialized'
  BY <1>1, <1>2, <1>3, OwnedSame
<1> QED BY <1>3, <1>4 DEF Types, TlsTypes

\* A new object, with a socket or without one.
LEMMA TlsConnects ==
    ASSUME TransportInv, NEW t \in Transports, NEW mode \in {"sync", "async"}, NEW s,
           MayConnect(t, mode), mode = "sync" \/ SslOf(t).conn_state = "init",
           NEW o \in NewTls, NEW fd \in FreeFds \cup {INVALID_SOCKET},
           s.tls = o, s.ssl_initialized, WithContext(t, s),
           tls' = SetTls(o, fd), sockets' = sockets \cup ({fd} \ {INVALID_SOCKET})
    PROVE  /\ \A x \in DOMAIN tls : tls'[x] = tls[x]
           /\ TlsTypes' /\ Owned' /\ Initialized'
           /\ tls'[o] = fd /\ o # NULL
<1>1. SslOf(t).tls = NULL /\ SocketIn(SslOf(t), tls) = INVALID_SOCKET
  BY MayConnectFinds
<1>2. Types /\ Placed /\ Owned /\ Initialized
  BY DEF TransportInv
<1>3. o \in Fds \ DOMAIN tls /\ fd \in (Fds \ sockets) \cup {INVALID_SOCKET} /\ o # NULL
  BY Free, TransportAssumption DEF Fds, NULL
<1>4. Owned' /\ Initialized'
  BY <1>1, <1>2, <1>3, OwnedTls
<1>5. /\ DOMAIN tls' = DOMAIN tls \cup {o} /\ tls'[o] = fd
      /\ \A x \in DOMAIN tls : tls'[x] = tls[x]
  BY <1>2, <1>3, NewTlsObject
<1>6. tls' \in [DOMAIN tls' -> Fds \cup {INVALID_SOCKET}]
  BY <1>2, <1>3 DEF SetTls, Types, TlsTypes
<1>7. DOMAIN tls' \subseteq Fds /\ sockets' \subseteq Fds
  BY <1>2, <1>3, <1>5 DEF Types, TlsTypes
<1> QED BY <1>3, <1>4, <1>5, <1>6, <1>7 DEF TlsTypes

\* ssl_connect, with each of its three outcomes.
LEMMA SslConnects ==
    ASSUME TransportInv, NEW t \in Transports, SslConnect(t) PROVE TransportInv'
<1>0. /\ t \in Ssl /\ MayConnect(t, "sync") /\ SslOf(t) \in Esp /\ SslOf(t).live
      /\ UNCHANGED <<made, list, live, opted>>
  BY SslSame DEF SslConnect, TransportInv
<1>1. /\ SslOf(t).tls = NULL /\ SslOf(t).conn_state = "init" /\ SslOf(t).sockfd = INVALID_SOCKET
  BY <1>0, MayConnectFinds, Zenon
<1>2. ASSUME NEW s \in {[SslOf(t) EXCEPT !.ssl_initialized = TRUE, !.tls = NULL],
                        [SslOf(t) EXCEPT !.ssl_initialized = TRUE, !.tls = NULL,
                                         !.sockfd = INVALID_SOCKET]},
             WithContext(t, s), last_error' \in {"no_mem", "failed"}, Uses(t, "sync", "failed"),
             UNCHANGED <<tls, sockets>>
      PROVE  TransportInv'
  <2>1. /\ s \in Esp /\ s.live /\ s.cert = SslOf(t).cert /\ s.tls = NULL
        /\ s.conn_state = "init" /\ s.ssl_initialized /\ s.sockfd = INVALID_SOCKET
    BY <1>0, <1>1 DEF Esp
  <2>2. (\A x \in DOMAIN tls : tls'[x] = tls[x]) /\ TlsTypes' /\ Owned' /\ Initialized'
    BY <1>0, <1>2, <2>1, TlsFails
  <2>3. Fits(t, [mode |-> "sync", step |-> "failed"], s, tls')
    BY <1>0, <2>1 DEF Fits, SyncFailed
  <2>4. Moves(t, s, [mode |-> "sync", step |-> "failed"])
    BY <1>0, <1>2, <2>1, <2>3, ConnectMoves
  <2>5. Tells([mode |-> "sync", step |-> "failed"])
    BY <1>2 DEF Tells, ESP_OK
  <2> QED BY <1>0, <2>2, <2>4, <2>5, Connects
<1>3. ASSUME NEW fd \in FreeFds, NEW o \in NewTls, UNCHANGED last_error,
             WithContext(t, [SslOf(t) EXCEPT !.ssl_initialized = TRUE, !.tls = o,
                                             !.sockfd = fd]),
             tls' = SetTls(o, fd), sockets' = sockets \cup {fd}, Uses(t, "sync", "connected")
      PROVE  TransportInv'
  <2> DEFINE s == [SslOf(t) EXCEPT !.ssl_initialized = TRUE, !.tls = o, !.sockfd = fd]
  <2>1. fd \in Fds /\ fd # INVALID_SOCKET /\ o \in Fds
    BY Free, TransportAssumption DEF Fds, INVALID_SOCKET
  <2>2. /\ s \in Esp /\ s.live /\ s.cert = SslOf(t).cert /\ s.tls = o
        /\ s.conn_state = "init" /\ s.ssl_initialized /\ s.sockfd = fd
    BY <1>0, <1>1, <2>1 DEF Esp
  <2>3. WithContext(t, s)
    BY <1>3
  <2> HIDE DEF s
  <2>4. sockets' = sockets \cup ({fd} \ {INVALID_SOCKET})
    BY <1>3, <2>1
  <2>5. /\ \A x \in DOMAIN tls : tls'[x] = tls[x]
        /\ TlsTypes' /\ Owned' /\ Initialized' /\ tls'[o] = fd /\ o # NULL
    BY <1>0, <1>3, <2>2, <2>3, <2>4, TlsConnects
  <2>6. Fits(t, [mode |-> "sync", step |-> "connected"], s, tls')
    BY <1>0, <2>1, <2>2, <2>5 DEF Fits, SyncSsl, Open, Got
  <2>7. Moves(t, s, [mode |-> "sync", step |-> "connected"])
    BY <1>0, <1>3, <2>2, <2>3, <2>6, ConnectMoves
  <2>8. Tells([mode |-> "sync", step |-> "connected"])
    BY <1>3 DEF Tells
  <2> QED BY <1>0, <2>5, <2>7, <2>8, Connects
<1> QED BY <1>2, <1>3 DEF SslConnect

\* The first call of ssl_connect_async.
LEMMA AsyncStarts ==
    ASSUME TransportInv, NEW t \in Transports, ConnectAsyncStarts(t) PROVE TransportInv'
<1>0. /\ MayConnect(t, "async") /\ SslOf(t).conn_state = "init"
      /\ SslOf(t) \in Esp /\ SslOf(t).live /\ UNCHANGED <<made, list, live, opted, last_error>>
  BY SslSame DEF ConnectAsyncStarts, TransportInv
<1>1. \A step \in {"failed", "connecting", "connected"} :
          Tells([mode |-> "async", step |-> step])
  BY <1>0 DEF Tells
<1>2. ASSUME WithContext(t, [SslOf(t) EXCEPT !.ssl_initialized = TRUE, !.tls = NULL]),
             Uses(t, "async", "failed"), UNCHANGED <<tls, sockets>>
      PROVE  TransportInv'
  <2> DEFINE s == [SslOf(t) EXCEPT !.ssl_initialized = TRUE, !.tls = NULL]
  <2>1. /\ s \in Esp /\ s.live /\ s.cert = SslOf(t).cert /\ s.tls = NULL
        /\ s.conn_state = "init" /\ s.ssl_initialized
    BY <1>0 DEF Esp
  <2>2. WithContext(t, s)
    BY <1>2
  <2> HIDE DEF s
  <2>3. (\A x \in DOMAIN tls : tls'[x] = tls[x]) /\ TlsTypes' /\ Owned' /\ Initialized'
    BY <1>0, <1>2, <2>1, <2>2, TlsFails
  <2>4. Fits(t, [mode |-> "async", step |-> "failed"], s, tls')
    BY <2>1 DEF Fits, AsyncFailed
  <2>5. Moves(t, s, [mode |-> "async", step |-> "failed"])
    BY <1>0, <1>2, <2>1, <2>2, <2>4, ConnectMoves
  <2> QED BY <1>0, <1>1, <2>3, <2>5, Connects
<1>3. ASSUME NEW fd \in FreeFds \cup {INVALID_SOCKET}, NEW o \in NewTls,
             NEW step \in {"failed", "connecting", "connected"},
             NEW sockfd \in {fd, INVALID_SOCKET}, step # "failed" => sockfd # INVALID_SOCKET,
             WithContext(t, [SslOf(t) EXCEPT !.ssl_initialized = TRUE, !.tls = o,
                                             !.conn_state = "connecting", !.sockfd = sockfd]),
             tls' = SetTls(o, fd), sockets' = sockets \cup ({fd} \ {INVALID_SOCKET}),
             Uses(t, "async", step)
      PROVE  TransportInv'
  <2> DEFINE s == [SslOf(t) EXCEPT !.ssl_initialized = TRUE, !.tls = o,
                                   !.conn_state = "connecting", !.sockfd = sockfd]
  <2>1. sockfd \in Fds \cup {INVALID_SOCKET} /\ o \in Fds
    BY <1>3, Free
  <2>2. /\ s \in Esp /\ s.live /\ s.cert = SslOf(t).cert /\ s.tls = o
        /\ s.conn_state = "connecting" /\ s.ssl_initialized /\ s.sockfd = sockfd
    BY <1>0, <2>1 DEF Esp
  <2>3. WithContext(t, s)
    BY <1>3
  <2> HIDE DEF s
  <2>4. /\ \A x \in DOMAIN tls : tls'[x] = tls[x]
        /\ TlsTypes' /\ Owned' /\ Initialized' /\ tls'[o] = fd /\ o # NULL
    BY <1>0, <1>3, <2>2, <2>3, TlsConnects
  <2>5. Fits(t, [mode |-> "async", step |-> step], s, tls')
    <3>1. CASE step = "failed"
      BY <2>2, <2>4, <3>1 DEF Fits, AsyncFailed
    <3>2. CASE step # "failed"
      BY <1>3, <2>2, <2>4, <3>2 DEF Fits, AsyncOn, Open, Got
    <3> QED BY <3>1, <3>2
  <2>6. Moves(t, s, [mode |-> "async", step |-> step])
    BY <1>0, <1>3, <2>2, <2>3, <2>5, ConnectMoves
  <2> QED BY <1>0, <1>1, <2>4, <2>6, Connects
<1>4. ASSUME NEW fd \in FreeFds, NEW o \in NewTls, NEW step \in {"connecting", "connected"},
             WithContext(t, [SslOf(t) EXCEPT !.ssl_initialized = TRUE, !.tls = o,
                                             !.conn_state = "connecting", !.sockfd = fd]),
             tls' = SetTls(o, fd), sockets' = sockets \cup {fd}, Uses(t, "async", step)
      PROVE  TransportInv'
  <2>1. fd # INVALID_SOCKET
    BY Free, TransportAssumption DEF Fds, INVALID_SOCKET
  <2>2. sockets' = sockets \cup ({fd} \ {INVALID_SOCKET})
    BY <1>4, <2>1
  <2> QED BY <1>3, <1>4, <2>1, <2>2
<1>5. ASSUME NEW fd \in FreeFds \cup {INVALID_SOCKET}, NEW o \in NewTls,
             WithContext(t, [SslOf(t) EXCEPT !.ssl_initialized = TRUE, !.tls = o,
                                  !.conn_state = "connecting", !.sockfd = INVALID_SOCKET]),
             tls' = SetTls(o, fd), sockets' = sockets \cup ({fd} \ {INVALID_SOCKET}),
             Uses(t, "async", "failed")
      PROVE  TransportInv'
  BY <1>3, <1>5
<1> QED BY <1>2, <1>4, <1>5 DEF ConnectAsyncStarts

\* What a transport in use has.
LEMMA InUse ==
    ASSUME TransportInv, NEW t \in Transports, user[t] # Unused
    PROVE  /\ t \in list /\ ContextOf(t) = data[t] /\ data[t] \in Contexts
           /\ ssl[data[t]] \in Esp /\ ssl[data[t]].live /\ SslOf(t) = ssl[data[t]]
           /\ \A v \in Transports \ {t} : user[v] # Unused => data[v] # ContextOf(t)
           /\ Fits(t, user[t], ssl[data[t]], tls)
           /\ user[t].mode \in Modes
<1>1. t \in list /\ data[t] # NoContext /\ ContextOf(t) = data[t]
  BY DEF TransportInv, Sole, ContextOf
<1>2. data[t] \in Contexts /\ ssl[data[t]] \in Esp
  BY <1>1 DEF TransportInv, Types, ListTypes, EspTypes
<1>3. ssl[data[t]].live
  BY <1>1 DEF TransportInv, Placed
<1>4. SslOf(t) = ssl[data[t]]
  BY <1>1, <1>3 DEF SslOf
<1>5. \A v \in Transports \ {t} : user[v] # Unused => data[v] # ContextOf(t)
  BY <1>1 DEF TransportInv, Sole
<1>6. Fits(t, user[t], ssl[data[t]], tls)
  BY DEF TransportInv, AllFit
<1>7. user[t].mode \in Modes
  BY DEF TransportInv, Types, UserTypes
<1> QED BY <1>1, <1>2, <1>3, <1>4, <1>5, <1>6, <1>7

\* A step of a user that leaves the context alone.
LEMMA Stays ==
    ASSUME TransportInv, NEW t \in Transports, user[t] # Unused,
           NEW mode \in Modes, NEW step \in Steps, Uses(t, mode, step), mode # "none",
           Fits(t, [mode |-> mode, step |-> step], ssl[data[t]], tls),
           Tells([mode |-> mode, step |-> step]),
           UNCHANGED <<made, list, live, data, ssl, tls, sockets, opted>>
    PROVE  TransportInv'
<1> DEFINE u == [mode |-> mode, step |-> step]
           s == ssl[data[t]]
<1>1. /\ t \in list /\ ContextOf(t) = data[t] /\ data[t] \in Contexts
      /\ s \in Esp /\ s.live /\ SslOf(t) = s
      /\ \A v \in Transports \ {t} : user[v] # Unused => data[v] # ContextOf(t)
  BY InUse
<1>2. u # Unused /\ Fits(t, u, s, tls') /\ u \in [mode : Modes, step : Steps]
  BY DEF Unused
<1>3. user' = [user EXCEPT ![t] = u] /\ Tells(u)
  BY DEF Uses
<1>4. WithContext(t, s)
  BY <1>1 DEF WithContext, TransportInv, Types, EspTypes, ListTypes
<1>5. Kept(t)
  <2>1. TlsTypes' /\ Owned' /\ Initialized'
    BY DEF TransportInv, Types, TlsTypes, Owned, Matches, Objects, Held, Initialized
  <2> QED BY <2>1 DEF Kept
<1> HIDE DEF u, s
<1>6. s.cert = SslOf(t).cert
  BY <1>1
<1>7. Moves(t, s, u)
  BY <1>1, <1>2, <1>3, <1>4, <1>6 DEF Moves
<1> QED BY <1>1, <1>3, <1>5, <1>7, UserStepInv

\* Reading and writing change the error handle only.
LEMMA Reads ==
    ASSUME TransportInv, NEW t \in Transports, TransportRead(t) \/ TransportWrite(t)
    PROVE  TransportInv'
<1>1. PICK step \in {"connected", "error", "closed"} :
          /\ Uses(t, user[t].mode, step)
          /\ last_error' = last_error \/ last_error' \in {"failed", "closed_fin"}
          /\ step = "closed" => last_error' = "closed_fin"
  BY DEF TransportRead, TransportWrite
<1>2. /\ user[t].step = "connected"
      /\ UNCHANGED <<made, list, live, data, ssl, tls, sockets, opted>>
  BY DEF TransportRead, TransportWrite
<1>3. user[t] # Unused
  BY <1>2 DEF Unused
<1>4. Fits(t, user[t], ssl[data[t]], tls) /\ user[t].mode \in Modes
  BY <1>3, InUse
<1> DEFINE mode == user[t].mode
<1>5. mode # "none" /\ Fits(t, [mode |-> mode, step |-> step], ssl[data[t]], tls)
  BY <1>2, <1>3, <1>4 DEF Fits, Got
<1>6. step \in Steps
  BY DEF Steps
<1>7. Tells([mode |-> mode, step |-> step])
  <2>1. last_error' = last_error \/ last_error' # ESP_OK
    BY <1>1 DEF ESP_OK
  <2>2. [mode |-> mode, step |-> step].step = "closed" => last_error' # ESP_OK
    BY <1>1 DEF ESP_OK
  <2>3. [mode |-> mode, step |-> step] # [mode |-> "sync", step |-> "failed"]
    OBVIOUS
  <2> QED BY <2>1, <2>2, <2>3 DEF Tells
<1> QED BY <1>1, <1>2, <1>3, <1>4, <1>5, <1>6, <1>7, Stays

\* A later call of ssl_connect_async goes on with the object it has.
LEMMA AsyncGoesOn ==
    ASSUME TransportInv, NEW t \in Transports, ConnectAsyncGoesOn(t) PROVE TransportInv'
<1> DEFINE s == ssl[data[t]]
<1>1. /\ user[t].mode = "async" /\ user[t].step \in {"connecting", "failed"}
      /\ SslOf(t).conn_state = "connecting"
      /\ UNCHANGED <<made, list, live, tls, sockets, last_error, opted>>
  BY DEF ConnectAsyncGoesOn
<1>2. user[t] # Unused
  BY <1>1 DEF Unused
<1>3. Fits(t, user[t], s, tls) /\ SslOf(t) = s /\ ContextOf(t) = data[t]
  BY <1>2, InUse
<1>4. s.ssl_initialized /\ s.tls # NULL /\ s.conn_state = "connecting"
  BY <1>1, <1>2, <1>3 DEF Fits, AsyncFailed, AsyncOn, Open, Got
<1>5. \A step \in Steps \ {"closed"} : Tells([mode |-> "async", step |-> step])
  BY <1>1 DEF Tells
<1>6. "async" \in Modes /\ {"failed", "connecting", "connected"} \subseteq Steps \ {"closed"}
  BY DEF Modes, Steps
<1>7. ASSUME Uses(t, "async", "failed"), UNCHANGED <<data, ssl>> PROVE TransportInv'
  <2>1. Fits(t, [mode |-> "async", step |-> "failed"], s, tls)
    BY <1>4 DEF Fits, AsyncFailed
  <2> QED BY <1>1, <1>2, <1>5, <1>6, <1>7, <2>1, Stays, Zenon
<1>8. ASSUME user[t].step = "connecting", WithContext(t, [s EXCEPT !.sockfd = tls[s.tls]]),
             NEW step \in {"connecting", "connected"}, Uses(t, "async", step)
      PROVE  TransportInv'
  <2>1. AsyncOn(s, tls)
    BY <1>1, <1>2, <1>3, <1>8 DEF Fits, Got
  <2>2. [s EXCEPT !.sockfd = tls[s.tls]] = s
    <3>1. s \in Esp
      BY <1>2, InUse
    <3> QED BY <2>1, <3>1 DEF AsyncOn, Open, Esp
  <2>3. UNCHANGED <<data, ssl>>
    BY <1>2, <1>3, <1>8, <2>2, InUse
       DEF WithContext, TransportInv, Types, EspTypes, ListTypes
  <2>4. Fits(t, [mode |-> "async", step |-> step], s, tls)
    BY <2>1 DEF Fits, Got
  <2> QED BY <1>1, <1>2, <1>5, <1>6, <1>8, <2>3, <2>4, Stays, Zenon
<1> QED BY <1>3, <1>7, <1>8 DEF ConnectAsyncGoesOn

\* base_close gives up the socket and the TLS object of its context.
LEMMA Closes ==
    ASSUME TransportInv, NEW t \in Transports, Close(t) PROVE TransportInv'
<1> DEFINE c == data[t]
           s == ClosedSsl(ssl[c])
<1>1. /\ t \in list /\ user[t] # Unused /\ user' = [user EXCEPT ![t] = Unused]
      /\ UNCHANGED <<made, list, live, last_error, opted>>
  BY DEF Close
<1>2. /\ ContextOf(t) = c /\ c \in Contexts /\ ssl[c] \in Esp /\ ssl[c].live /\ SslOf(t) = ssl[c]
      /\ \A v \in Transports \ {t} : user[v] # Unused => data[v] # ContextOf(t)
      /\ Fits(t, user[t], ssl[c], tls)
  BY <1>1, InUse
<1>3. /\ WithContext(t, s) /\ tls' = WithoutTls(FreedTls(ssl[c]))
      /\ sockets' = sockets \ {SocketOf(ssl[c])}
  BY <1>2 DEF Close
<1>4. ssl[c].tls # NULL => ssl[c].ssl_initialized
  BY <1>2 DEF TransportInv, Initialized
<1>5. ~ssl[c].ssl_initialized => ssl[c].conn_state = "init"
  BY <1>1, <1>2 DEF Fits, SyncFailed, SyncTcp, SyncSsl, AsyncFailed, AsyncOn
<1>6. /\ s \in Esp /\ s.live /\ s.cert = ssl[c].cert /\ s.tls = NULL /\ ~s.ssl_initialized
      /\ s.conn_state = "init" /\ s.sockfd = INVALID_SOCKET
  BY <1>2, <1>4, <1>5 DEF ClosedSsl, Esp, NULL, INVALID_SOCKET
<1>7. FreedTls(ssl[c]) = {ssl[d].tls : d \in {c}} \ {NULL}
  BY <1>4 DEF FreedTls
<1>8. ssl'[c] = s /\ \A d \in Contexts \ {c} : ssl'[d] = ssl[d]
  BY <1>2, <1>3, OneContext DEF TransportInv
<1> HIDE DEF s
<1>9. Owned' /\ Initialized'
  <2>1. {SocketOf(ssl[c])} = {SocketOf(ssl[d]) : d \in {c}} /\ {c} \in SUBSET Contexts
    BY <1>2
  <2>2. \A d \in {c} : ssl'[d].tls = NULL /\ ~ssl'[d].ssl_initialized
                       /\ ssl'[d].sockfd = INVALID_SOCKET
    BY <1>6, <1>8
  <2>3. \A d \in Contexts \ {c} : ssl'[d] = ssl[d]
    BY <1>8
  <2>4. Types /\ Owned /\ Initialized
    BY DEF TransportInv
  <2>5. tls' = WithoutTls({ssl[d].tls : d \in {c}} \ {NULL})
    BY <1>3, <1>7
  <2>6. sockets' = sockets \ {SocketOf(ssl[d]) : d \in {c}}
    BY <1>3, <2>1
  <2> QED BY <2>1, <2>2, <2>3, <2>4, <2>5, <2>6, OwnedClosed
<1>10. /\ DOMAIN tls' = DOMAIN tls \ FreedTls(ssl[c])
       /\ \A x \in DOMAIN tls' : tls'[x] = tls[x] /\ tls' = [y \in DOMAIN tls' |-> tls'[y]]
  BY <1>3 DEF WithoutTls
<1>11. TlsTypes'
  BY <1>3, <1>10 DEF TransportInv, Types, TlsTypes, WithoutTls
<1>12. ASSUME NEW d \in Contexts \ {c}, ssl[d].tls # NULL PROVE tls'[ssl[d].tls] = tls[ssl[d].tls]
  <2>1. ssl[d].tls \in DOMAIN tls
    BY <1>12, HeldTypes DEF TransportInv
  <2>2. ssl[d].tls # ssl[c].tls
    BY <1>2, <1>12 DEF TransportInv, Owned, Matches, Objects
  <2> QED BY <1>10, <2>1, <2>2 DEF FreedTls
<1>13. Kept(t)
  BY <1>2, <1>9, <1>11, <1>12 DEF Kept
<1>14. Unused \in [mode : Modes, step : Steps] /\ Tells(Unused)
  BY <1>1 DEF Unused, Modes, Steps, Tells
<1>15. Moves(t, s, Unused)
  BY <1>1, <1>2, <1>3, <1>6, <1>14 DEF Moves, Clean
<1> QED BY <1>1, <1>13, <1>14, <1>15, UserStepInv

\* A step that leaves the sockets and the TLS objects of every context.
LEMMA OwnedAlike ==
    ASSUME Owned, Initialized, UNCHANGED <<tls, sockets>>,
           \A c \in Contexts : /\ ssl'[c].tls = ssl[c].tls
                               /\ SocketIn(ssl'[c], tls) = SocketIn(ssl[c], tls)
                               /\ ssl[c].ssl_initialized => ssl'[c].ssl_initialized
    PROVE  Owned' /\ Initialized'
<1>1. Objects' = Objects
  BY Zenon DEF Objects
<1>2. \A c \in Contexts : SocketIn(ssl'[c], tls') = SocketIn(ssl[c], tls)
  OBVIOUS
<1>3. Held' = Held
  BY <1>2, Zenon DEF Held
<1>4. Initialized'
  BY DEF Initialized
<1> QED BY <1>1, <1>3, <1>4 DEF Owned, Matches

\* Setting an option changes nothing that connecting goes by.
LEMMA SetsCert ==
    ASSUME TransportInv, NEW t \in Transports, SetCertData(t) PROVE TransportInv'
<1> DEFINE c == ContextOf(t)
           s == [SslOf(t) EXCEPT !.cert = TRUE]
<1>0. /\ t \in live /\ user[t].step = "idle" /\ WithContext(t, s) /\ opted' = opted \cup {t}
      /\ UNCHANGED <<made, list, live, tls, sockets, last_error, user>>
      /\ Types /\ Placed /\ Sole /\ Idles /\ AllFit /\ Owned /\ Initialized /\ Opted /\ ErrorTold
  BY DEF SetCertData, TransportInv
<1>1. user[t] = Unused
  BY <1>0 DEF AllFit, Fits, Got
<1>2. /\ c \in Contexts /\ c # NoContext /\ s \in Esp /\ s.live /\ s.cert
      /\ s.tls = ssl[c].tls /\ s.ssl_initialized = ssl[c].ssl_initialized
      /\ s.conn_state = ssl[c].conn_state /\ s.sockfd = ssl[c].sockfd
  <2>1. c \in Contexts /\ c # NoContext
    BY <1>0, ContextsExist DEF Types
  <2>2. /\ SslOf(t) \in Esp /\ SslOf(t).live
        /\ SslOf(t).tls = ssl[c].tls
        /\ SslOf(t).ssl_initialized = ssl[c].ssl_initialized
        /\ SslOf(t).conn_state = ssl[c].conn_state /\ SslOf(t).sockfd = ssl[c].sockfd
    BY <1>0, SslSame
  <2> QED BY <2>1, <2>2 DEF Esp
<1>3. /\ ssl'[c] = s /\ data'[t] = c /\ EspTypes'
      /\ \A d \in Contexts \ {c} : ssl'[d] = ssl[d]
      /\ \A v \in Transports \ {t} : data'[v] = data[v]
      /\ data' \in [Transports -> Contexts \cup {NoContext}]
  BY <1>0, <1>2, OneContext
<1> HIDE DEF c, s
<1>4. \A d \in Contexts :
          /\ ssl'[d].tls = ssl[d].tls /\ ssl'[d].ssl_initialized = ssl[d].ssl_initialized
          /\ ssl'[d].conn_state = ssl[d].conn_state /\ ssl'[d].sockfd = ssl[d].sockfd
  BY <1>2, <1>3
<1>5. Types'
  BY <1>0, <1>3 DEF Types, ListTypes, UserTypes, TlsTypes
<1>6. Placed'
  BY <1>0, <1>2, PlacedOne
<1>7. \A v \in Transports : user[v] # Unused => v # t /\ data'[v] = data[v] /\ data[v] \in Contexts
  BY <1>0, <1>1, <1>3 DEF Sole, Types, ListTypes
<1>8. Sole'
  BY <1>0, <1>7 DEF Sole
<1>9. Idles'
  <2> SUFFICES ASSUME NEW d \in Contexts
               PROVE  Clean(ssl'[d]) \/ \E v \in Transports : user'[v] # Unused /\ data'[v] = d
    BY DEF Idles
  <2>1. Clean(ssl[d]) => Clean(ssl'[d])
    BY <1>4 DEF Clean
  <2> QED BY <1>0, <1>7, <2>1 DEF Idles
<1>10. AllFit'
  <2> SUFFICES ASSUME NEW v \in Transports, user[v] # Unused
               PROVE  Fits(v, user[v], ssl'[data[v]], tls)
    BY <1>0, <1>7 DEF AllFit, Fits
  <2>1. Fits(v, user[v], ssl[data[v]], tls) /\ data[v] \in Contexts
    BY <1>0, <1>7 DEF AllFit
  <2> QED BY <1>4, <2>1 DEF Fits, SyncFailed, SyncTcp, SyncSsl, AsyncFailed, AsyncOn, Open
<1>11. Owned' /\ Initialized'
  <2>1. \A d \in Contexts : SocketIn(ssl'[d], tls) = SocketIn(ssl[d], tls)
    BY <1>4 DEF SocketIn
  <2> QED BY <1>0, <1>4, <2>1, OwnedAlike
<1>12. Opted'
  <2> SUFFICES ASSUME NEW v \in opted'
               PROVE  data'[v] # NoContext /\ ssl'[data'[v]].cert
    BY DEF Opted
  <2>1. CASE v = t
    BY <1>2, <1>3, <2>1
  <2>2. CASE v # t
    <3>1. /\ v \in Transports /\ data[v] # NoContext /\ ssl[data[v]].cert
          /\ data[v] \in Contexts
      BY <1>0, <2>2 DEF Opted, Types, ListTypes
    <3> QED BY <1>2, <1>3, <2>2, <3>1
  <2> QED BY <2>1, <2>2
<1>13. ErrorTold'
  BY <1>0 DEF ErrorTold
<1> QED BY <1>5, <1>6, <1>8, <1>9, <1>10, <1>11, <1>12, <1>13 DEF TransportInv

\* A new transport, in a list or outside, has no context yet.
LEMMA InitTransports ==
    ASSUME TransportInv, NEW t \in Transports, InitTransport(t) \/ ListAdd(t)
    PROVE  TransportInv'
<1>0. /\ list' \subseteq live' /\ live' \subseteq live \cup {t} /\ live \subseteq live'
      /\ list' \subseteq list \cup {t} /\ list \subseteq list'
      /\ list' # {} => made
      /\ t \notin list
      /\ UNCHANGED <<made, data, ssl, tls, sockets, last_error, user, opted>>
      /\ Types /\ Placed /\ Sole /\ Idles /\ AllFit /\ Owned /\ Initialized /\ Opted /\ ErrorTold
  BY DEF InitTransport, ListAdd, TransportInv, Types, ListTypes, Placed
<1>1. user[t] = Unused
  BY <1>0 DEF Sole
<1>2. Types'
  BY <1>0 DEF Types, EspTypes, ListTypes, UserTypes, TlsTypes
<1>3. Placed'
  BY <1>0 DEF Placed
<1>4. Sole' /\ Idles' /\ AllFit'
  BY <1>0 DEF Sole, Idles, AllFit
<1>5. Owned' /\ Initialized' /\ Opted'
  BY <1>0 DEF Owned, Matches, Objects, Held, Initialized, Opted
<1>6. ErrorTold'
  BY <1>0, <1>1 DEF ErrorTold, Unused
<1> QED BY <1>2, <1>3, <1>4, <1>5, <1>6 DEF TransportInv

\* A new list makes the context of its transports.
LEMMA MakesList ==
    ASSUME TransportInv, ListInit PROVE TransportInv'
<1>0. /\ ~made /\ made' /\ made' \in BOOLEAN
      /\ ssl' = [ssl EXCEPT ![Base] = Created] /\ last_error' = ESP_OK
      /\ UNCHANGED <<list, live, data, tls, sockets, user, opted>>
      /\ Types /\ Placed /\ Sole /\ Idles /\ AllFit /\ Owned /\ Initialized /\ Opted
  BY DEF ListInit, TransportInv
<1>1. /\ Base \in Contexts /\ Base \notin Transports /\ Transports \subseteq Contexts
      /\ Base # NoContext
  BY TransportAssumption DEF Contexts
<1>2. ssl[Base] = Freed /\ list = {}
  BY <1>0, <1>1 DEF Placed
<1>3. \A t \in Transports : user[t] = Unused /\ data[t] # Base
  BY <1>0, <1>2 DEF Sole, Placed
<1>4. /\ Created \in Esp /\ Created.live /\ Clean(Created)
      /\ Created.tls = Freed.tls /\ Created.sockfd = Freed.sockfd
      /\ Created.ssl_initialized = Freed.ssl_initialized /\ Created.cert = Freed.cert
  BY DEF Created, Freed, Esp, Clean, NULL, INVALID_SOCKET
<1>5. /\ ssl'[Base] = Created /\ ssl' \in [Contexts -> Esp]
      /\ \A c \in Contexts \ {Base} : ssl'[c] = ssl[c]
  BY <1>0, <1>1, <1>4 DEF Types, EspTypes
<1>6. Types'
  BY <1>0, <1>5 DEF Types, EspTypes, ListTypes, UserTypes, TlsTypes
<1>7. Placed'
  BY <1>0, <1>1, <1>2, <1>3, <1>4, <1>5 DEF Placed
<1>8. Sole' /\ AllFit'
  BY <1>0, <1>3 DEF Sole, AllFit, Fits
<1>9. Idles'
  BY <1>0, <1>3, <1>4, <1>5 DEF Idles
<1>10. Owned' /\ Initialized'
  <2>1. \A c \in Contexts : /\ ssl'[c].tls = ssl[c].tls
                            /\ ssl'[c].ssl_initialized = ssl[c].ssl_initialized
                            /\ ssl'[c].sockfd = ssl[c].sockfd
    BY <1>2, <1>4, <1>5
  <2>2. \A c \in Contexts : SocketIn(ssl'[c], tls) = SocketIn(ssl[c], tls)
    BY <2>1 DEF SocketIn
  <2> QED BY <1>0, <2>1, <2>2, OwnedAlike
<1>11. Opted'
  <2>1. \A t \in opted : t \in Transports /\ data[t] \in Contexts \ {Base}
    BY <1>0, <1>3 DEF Types, ListTypes, Opted
  <2> QED BY <1>0, <1>5, <2>1 DEF Opted
<1>12. ErrorTold'
  BY <1>0, <1>2 DEF ErrorTold
<1> QED BY <1>6, <1>7, <1>8, <1>9, <1>10, <1>11, <1>12 DEF TransportInv

\* A transport outside has nothing open.
LEMMA DestroysOne ==
    ASSUME TransportInv, NEW t \in Transports, DestroyOutside(t) PROVE TransportInv'
<1>0. /\ t \in live \ list /\ live' = live \ {t} /\ opted' = opted \ {t}
      /\ data' = [data EXCEPT ![t] = NoContext] /\ ssl' = [ssl EXCEPT ![t] = Freed]
      /\ UNCHANGED <<made, list, tls, sockets, last_error, user>>
      /\ Types /\ Placed /\ Sole /\ Idles /\ AllFit /\ Owned /\ Initialized /\ Opted /\ ErrorTold
  BY DEF DestroyOutside, TransportInv
<1>1. /\ t \in Contexts /\ Base \notin Transports /\ Transports \subseteq Contexts
      /\ NoContext \notin Contexts /\ Base \in Contexts
  BY TransportAssumption DEF Contexts
<1>2. user[t] = Unused /\ data[t] \in {t, NoContext}
  BY <1>0 DEF Sole, Placed
<1>3. \A v \in Transports \ {t} : data[v] # t /\ data[v] \in Contexts \cup {NoContext}
  BY <1>0, <1>1 DEF Placed, Types, ListTypes
<1>4. Clean(ssl[t])
  BY <1>0, <1>1, <1>2, <1>3 DEF Idles
<1>5. /\ Freed \in Esp /\ ~Freed.live /\ Clean(Freed)
  BY DEF Freed, Esp, Clean, NULL, INVALID_SOCKET
<1>6. /\ ssl'[t] = Freed /\ ssl' \in [Contexts -> Esp]
      /\ \A c \in Contexts \ {t} : ssl'[c] = ssl[c]
  BY <1>0, <1>1, <1>5 DEF Types, EspTypes
<1>7. /\ data'[t] = NoContext /\ data' \in [Transports -> Contexts \cup {NoContext}]
      /\ \A v \in Transports \ {t} : data'[v] = data[v]
  BY <1>0 DEF Types, ListTypes
<1>8. Types'
  BY <1>0, <1>6, <1>7 DEF Types, EspTypes, ListTypes, UserTypes, TlsTypes
<1>9. Placed'
  BY <1>0, <1>1, <1>3, <1>5, <1>6, <1>7 DEF Placed
<1>10. Sole'
  BY <1>0, <1>2, <1>7 DEF Sole
<1>11. Idles'
  <2> SUFFICES ASSUME NEW d \in Contexts
               PROVE  Clean(ssl'[d]) \/ \E v \in Transports : user'[v] # Unused /\ data'[v] = d
    BY DEF Idles
  <2> QED BY <1>0, <1>2, <1>5, <1>6, <1>7 DEF Idles
<1>12. AllFit'
  <2> SUFFICES ASSUME NEW v \in Transports, user[v] # Unused
               PROVE  Fits(v, user[v], ssl'[data'[v]], tls)
    BY <1>0 DEF AllFit, Fits
  <2>1. v # t /\ data'[v] = data[v] /\ data[v] \in Contexts \ {t}
    BY <1>0, <1>2, <1>3, <1>7 DEF Sole
  <2> QED BY <1>0, <1>6, <2>1 DEF AllFit
<1>13. Owned' /\ Initialized'
  <2>1. \A c \in Contexts : /\ ssl'[c].tls = ssl[c].tls
                            /\ ssl'[c].ssl_initialized = ssl[c].ssl_initialized
                            /\ ssl'[c].sockfd = ssl[c].sockfd
    <3>1. ssl[t].ssl_initialized = FALSE /\ Freed.ssl_initialized = FALSE
      BY <1>1, <1>4 DEF Clean, Freed, Types, EspTypes, Esp
    <3> QED BY <1>4, <1>5, <1>6, <3>1 DEF Clean
  <2>2. \A c \in Contexts : SocketIn(ssl'[c], tls) = SocketIn(ssl[c], tls)
    BY <2>1 DEF SocketIn
  <2> QED BY <1>0, <2>1, <2>2, OwnedAlike
<1>14. Opted'
  <2> SUFFICES ASSUME NEW v \in opted \ {t} PROVE data'[v] # NoContext /\ ssl'[data'[v]].cert
    BY <1>0 DEF Opted
  <2>1. /\ v \in Transports \ {t} /\ data[v] # NoContext /\ ssl[data[v]].cert
    BY <1>0 DEF Opted, Types, ListTypes
  <2> QED BY <1>3, <1>6, <1>7, <2>1
<1>15. ErrorTold'
  BY <1>0 DEF ErrorTold
<1> QED BY <1>8, <1>9, <1>10, <1>11, <1>12, <1>13, <1>14, <1>15 DEF TransportInv

\* esp_transport_list_clean closes whatever the transports of the list have.
LEMMA Cleans ==
    ASSUME TransportInv, NEW freed \in SUBSET {Base}, Cleaned(freed),
           made' \in BOOLEAN, made' <=> Base \notin freed
    PROVE  TransportInv'
<1>0. /\ made /\ list' = {} /\ live' = live \ list /\ opted' = opted \ list
      /\ data' = [t \in Transports |-> IF t \in list THEN NoContext ELSE data[t]]
      /\ user' = [t \in Transports |-> Unused]
      /\ Types /\ Placed /\ Sole /\ Idles /\ AllFit /\ Owned /\ Initialized /\ Opted
  BY DEF Cleaned, TransportInv
<1>1. /\ Base \in Contexts /\ Base \notin Transports /\ Transports \subseteq Contexts
      /\ NoContext \notin Contexts /\ Contexts = Transports \cup {Base}
  BY TransportAssumption DEF Contexts
<1>2. \A t \in list : ContextOf(t) \in {t, Base} /\ t \in Transports
  BY <1>0, ContextsExist DEF Types, ListTypes
<1>3. CleanedContexts \in SUBSET Contexts /\ \A t \in Transports \ list : t \notin CleanedContexts
  BY <1>1, <1>2 DEF CleanedContexts
<1> DEFINE C == CleanedContexts \cup freed
<1>4. /\ C \in SUBSET Contexts /\ \A t \in Transports \ list : t \notin C
  BY <1>1, <1>3
<1>5. \A c \in Contexts \ CleanedContexts : Clean(ssl[c])
  <2> SUFFICES ASSUME NEW c \in Contexts, NEW t \in Transports, user[t] # Unused, data[t] = c
               PROVE  c \in CleanedContexts
    BY <1>0 DEF Idles
  <2>1. t \in list /\ ContextOf(t) = c
    BY <1>0, <1>1 DEF Sole, ContextOf
  <2> QED BY <2>1 DEF CleanedContexts
<1>6. \A c \in Contexts : ~ssl[c].ssl_initialized => ssl[c].conn_state = "init"
  <2> SUFFICES ASSUME NEW c \in Contexts, ~ssl[c].ssl_initialized PROVE ssl[c].conn_state = "init"
    OBVIOUS
  <2>1. CASE Clean(ssl[c])
    BY <2>1 DEF Clean
  <2>2. CASE \E t \in Transports : user[t] # Unused /\ data[t] = c
    BY <1>0, <2>2 DEF AllFit, Fits, SyncFailed, SyncTcp, SyncSsl, AsyncFailed, AsyncOn
  <2> QED BY <1>0, <2>1, <2>2 DEF Idles
<1>7. \A c \in Contexts : /\ ClosedSsl(ssl[c]) \in Esp /\ Clean(ClosedSsl(ssl[c]))
                          /\ ClosedSsl(ssl[c]).live = ssl[c].live
  <2> SUFFICES ASSUME NEW c \in Contexts
               PROVE  /\ ClosedSsl(ssl[c]) \in Esp /\ Clean(ClosedSsl(ssl[c]))
                      /\ ClosedSsl(ssl[c]).live = ssl[c].live
    OBVIOUS
  <2>1. /\ ssl[c] \in Esp /\ (~ssl[c].ssl_initialized => ssl[c].tls = NULL)
        /\ (~ssl[c].ssl_initialized => ssl[c].conn_state = "init")
    BY <1>0, <1>6 DEF Types, EspTypes, Initialized
  <2> QED BY <2>1 DEF ClosedSsl, Clean, Esp, NULL, INVALID_SOCKET
<1>8. Freed \in Esp /\ Clean(Freed) /\ ~Freed.live
  BY DEF Freed, Esp, Clean, NULL, INVALID_SOCKET
<1>9. ssl' = [c \in Contexts |-> IF c \in freed \cup (CleanedContexts \ {Base}) THEN Freed
                                 ELSE IF c \in CleanedContexts THEN ClosedSsl(ssl[c]) ELSE ssl[c]]
  BY DEF Cleaned
<1>10. EspTypes' /\ \A c \in Contexts : Clean(ssl'[c])
  BY <1>0, <1>5, <1>7, <1>8, <1>9 DEF Types, EspTypes
<1>11. \A c \in Contexts \ C : ssl'[c] = ssl[c]
  BY <1>9
<1>12. UNION {FreedTls(ssl[c]) : c \in CleanedContexts} = {ssl[c].tls : c \in C} \ {NULL}
  <2>1. \A c \in CleanedContexts : FreedTls(ssl[c]) = {ssl[c].tls} \ {NULL}
    BY <1>0, <1>3 DEF FreedTls, Initialized
  <2>2. \A c \in C \ CleanedContexts : ssl[c].tls = NULL
    BY <1>4, <1>5 DEF Clean
  <2> QED BY <2>1, <2>2
<1>13. tls' = WithoutTls({ssl[c].tls : c \in C} \ {NULL})
  BY <1>12 DEF Cleaned
<1>14. sockets' = sockets \ {SocketOf(ssl[c]) : c \in C}
  <2>1. \A c \in C \ CleanedContexts : SocketOf(ssl[c]) = INVALID_SOCKET
    BY <1>4, <1>5 DEF Clean, SocketOf
  <2>2. INVALID_SOCKET \notin sockets
    BY <1>0, TransportAssumption DEF Types, TlsTypes, Fds, INVALID_SOCKET
  <2>3. sockets' = sockets \ {SocketOf(ssl[c]) : c \in CleanedContexts}
    BY DEF Cleaned
  <2> QED BY <2>1, <2>2, <2>3
<1>15. \A c \in C : ssl'[c].tls = NULL /\ ~ssl'[c].ssl_initialized
                    /\ ssl'[c].sockfd = INVALID_SOCKET
  BY <1>4, <1>10 DEF Clean
<1> HIDE DEF C
<1>16. Owned' /\ Initialized'
  BY <1>0, <1>4, <1>11, <1>13, <1>14, <1>15, OwnedClosed
<1>17. Types'
  <2>1. TlsTypes'
    BY <1>0, <1>13, <1>14 DEF Types, TlsTypes, WithoutTls
  <2>2. UserTypes'
    BY <1>0 DEF UserTypes, Unused, Modes, Steps
  <2>3. ListTypes'
    BY <1>0 DEF Types, ListTypes
  <2> QED BY <1>10, <2>1, <2>2, <2>3 DEF Types
<1>18. Placed'
  <2>1. ssl'[Base].live <=> made'
    <3>1. ssl[Base].live
      BY <1>0 DEF Placed
    <3> QED BY <1>1, <1>7, <1>8, <1>9, <3>1
  <2>2. ASSUME NEW t \in Transports
        PROVE  /\ data'[t] \in {t, Base, NoContext} /\ data'[t] # Base
               /\ ssl'[t].live <=> data'[t] = t
               /\ t \notin live' => data'[t] = NoContext
    <3>1. CASE t \in list
      <4>1. data'[t] = NoContext /\ t # NoContext /\ t # Base
        BY <1>0, <1>1, <3>1
      <4>2. CASE t \in CleanedContexts
        BY <1>1, <1>8, <1>9, <4>1, <4>2
      <4>3. CASE t \notin CleanedContexts
        <5>1. data[t] # t /\ ssl'[t] = ssl[t]
          BY <1>1, <1>9, <3>1, <4>1, <4>3 DEF CleanedContexts, ContextOf
        <5>2. ~ssl[t].live
          BY <1>0, <5>1 DEF Placed
        <5>3. ~ssl'[t].live /\ data'[t] # t
          BY <4>1, <5>1, <5>2
        <5>4. ssl'[t].live <=> data'[t] = t
          BY <5>3, Zenon
        <5>5. data'[t] \in {t, Base, NoContext} /\ data'[t] # Base
          BY <1>1, <4>1
        <5> QED BY <4>1, <5>4, <5>5
      <4> QED BY <4>1, <4>2, <4>3
    <3>2. CASE t \notin list
      <4>1. data'[t] = data[t] /\ ssl'[t] = ssl[t]
        BY <1>0, <1>1, <1>4, <1>11, <3>2
      <4> QED BY <1>0, <3>2, <4>1 DEF Placed
    <3> QED BY <3>1, <3>2
  <2>3. ASSUME NEW c \in Contexts, ~ssl'[c].live PROVE ssl'[c] = Freed
    <3>1. CASE c \in CleanedContexts /\ c = Base /\ Base \notin freed
      BY <2>1, <2>3, <3>1
    <3>2. CASE ~(c \in CleanedContexts /\ c = Base /\ Base \notin freed)
      BY <1>0, <1>9, <2>3, <3>2 DEF Placed
    <3> QED BY <3>1, <3>2
  <2> QED BY <1>0, <2>1, <2>2, <2>3 DEF Placed
<1>19. Sole' /\ AllFit'
  BY <1>0 DEF Sole, AllFit, Fits
<1>20. Idles'
  BY <1>10 DEF Idles
<1>21. Opted'
  <2> SUFFICES ASSUME NEW t \in opted \ list PROVE data'[t] # NoContext /\ ssl'[data'[t]].cert
    BY <1>0 DEF Opted
  <2>1. t \in Transports /\ data[t] # NoContext /\ ssl[data[t]].cert /\ data[t] = t
    BY <1>0 DEF Types, ListTypes, Opted, Placed
  <2>2. data'[t] = data[t] /\ ssl'[t] = ssl[t]
    BY <1>0, <1>1, <1>4, <1>11, <2>1
  <2> QED BY <2>1, <2>2
<1>22. ErrorTold'
  BY <1>0 DEF ErrorTold
<1> QED BY <1>16, <1>17, <1>18, <1>19, <1>20, <1>21, <1>22 DEF TransportInv

\* At first there is nothing.
LEMMA StartsSound == TransportInit => TransportInv
<1> SUFFICES ASSUME TransportInit PROVE TransportInv
  OBVIOUS
<1>0. /\ made = FALSE /\ list = {} /\ live = {} /\ sockets = {} /\ opted = {}
      /\ data = [t \in Transports |-> NoContext] /\ ssl = [c \in Contexts |-> Freed]
      /\ user = [t \in Transports |-> Unused]
  BY DEF TransportInit
<1>1. DOMAIN tls = {} /\ tls \in [{} -> Fds \cup {INVALID_SOCKET}]
  BY DEF TransportInit
<1>2. /\ Freed \in Esp /\ ~Freed.live /\ Clean(Freed) /\ Unused \in [mode : Modes, step : Steps]
  BY DEF Freed, Esp, Clean, NULL, INVALID_SOCKET, Unused, Modes, Steps
<1>3. /\ \A c \in Contexts : ssl[c] = Freed
      /\ Base \in Contexts /\ Transports \subseteq Contexts /\ NoContext \notin Contexts
  BY <1>0, TransportAssumption DEF Contexts
<1>4. Types
  BY <1>0, <1>1, <1>2 DEF Types, EspTypes, ListTypes, UserTypes, TlsTypes
<1>5. Placed
  BY <1>0, <1>2, <1>3 DEF Placed
<1>6. Sole /\ AllFit /\ Opted
  BY <1>0 DEF Sole, AllFit, Fits, Opted
<1>7. Idles
  BY <1>2, <1>3 DEF Idles
<1>8. Owned
  <2>1. \A c \in Contexts : ssl[c].tls = NULL /\ SocketIn(ssl[c], tls) = NULL
    BY <1>2, <1>3 DEF Clean, SocketIn, NULL, INVALID_SOCKET
  <2> QED BY <1>0, <1>1, <2>1 DEF Owned, Matches, Objects, Held
<1>9. Initialized
  BY <1>2, <1>3 DEF Initialized, Clean
<1>10. ErrorTold
  BY <1>0 DEF ErrorTold
<1> QED BY <1>4, <1>5, <1>6, <1>7, <1>8, <1>9, <1>10 DEF TransportInv

\* Every step keeps the invariant.
LEMMA StepsSound == TransportInv /\ [TransportNext]_transportVars => TransportInv'
<1> SUFFICES ASSUME TransportInv, [TransportNext]_transportVars PROVE TransportInv'
  OBVIOUS
<1>1. CASE ListInit
  BY <1>1, MakesList
<1>2. CASE ListClean
  <2>1. Cleaned({}) /\ made' = made
    BY <1>2 DEF ListClean
  <2>2. made /\ made \in BOOLEAN
    BY <2>1 DEF Cleaned, TransportInv, Types
  <2> QED BY <2>1, <2>2, Cleans
<1>3. CASE ListDestroy
  <2>1. Cleaned({Base}) /\ made' = FALSE
    BY <1>3 DEF ListDestroy
  <2> QED BY <2>1, Cleans
<1>4. ASSUME NEW t \in Transports, \/ InitTransport(t) \/ ListAdd(t) \/ SetCertData(t)
                                   \/ TcpConnect(t) \/ SslConnect(t)
      PROVE  TransportInv'
  BY <1>4, InitTransports, SetsCert, TcpConnects, SslConnects
<1>5. ASSUME NEW t \in Transports, \/ ConnectAsyncStarts(t) \/ ConnectAsyncGoesOn(t)
                                   \/ TransportRead(t) \/ TransportWrite(t) \/ Close(t)
                                   \/ DestroyOutside(t)
      PROVE  TransportInv'
  BY <1>5, AsyncStarts, AsyncGoesOn, Reads, Closes, DestroysOne
<1>6. CASE UNCHANGED transportVars
  <2>1. Types' /\ Placed' /\ Sole' /\ Idles' /\ AllFit'
    BY <1>6 DEF transportVars, TransportInv, Types, EspTypes, ListTypes, UserTypes, TlsTypes,
                Placed, Sole, Idles, AllFit
  <2>2. Owned' /\ Initialized' /\ Opted' /\ ErrorTold'
    BY <1>6 DEF transportVars, TransportInv, Owned, Matches, Objects, Held, Initialized, Opted,
                ErrorTold
  <2> QED BY <2>1, <2>2 DEF TransportInv
<1> QED BY <1>1, <1>2, <1>3, <1>4, <1>5, <1>6 DEF TransportNext

\* The invariant gives the property: a context that does not exist owns nothing.
LEMMA InvSound == TransportInv => TransportSound
<1> SUFFICES ASSUME TransportInv PROVE TransportSound
  OBVIOUS
<1>0. Types /\ Placed /\ Sole /\ AllFit /\ Owned /\ Opted /\ ErrorTold
  BY DEF TransportInv
<1> DEFINE liveContexts == {c \in Contexts : ssl[c].live}
<1>1. \A c \in Contexts : Holds(c) = Held[c] /\ ssl[c].tls = Objects[c]
  BY DEF Holds, Held, Objects, SocketIn, SocketOf
<1>2. \A c \in Contexts \ liveContexts : Held[c] = NULL /\ Objects[c] = NULL
  <2> SUFFICES ASSUME NEW c \in Contexts, ~ssl[c].live PROVE Held[c] = NULL /\ Objects[c] = NULL
    OBVIOUS
  <2>1. ssl[c] = Freed
    BY <1>0 DEF Placed
  <2> QED BY <2>1 DEF Held, Objects, SocketIn, Freed, NULL, INVALID_SOCKET
<1>3. /\ {Objects[c] : c \in Contexts} \ {NULL} = DOMAIN tls
      /\ {Held[c] : c \in Contexts} \ {NULL} = sockets
  BY <1>0 DEF Owned, Matches
<1>4. {ssl[c].tls : c \in liveContexts} \ {NULL} = DOMAIN tls
  BY <1>1, <1>2, <1>3
<1>5. {Holds(c) : c \in liveContexts} \ {INVALID_SOCKET} = sockets
  BY <1>1, <1>2, <1>3 DEF INVALID_SOCKET, NULL
<1>6. \A c, d \in liveContexts :
          c # d => /\ ssl[c].tls # NULL => ssl[c].tls # ssl[d].tls
                   /\ Holds(c) # INVALID_SOCKET => Holds(c) # Holds(d)
  BY <1>0, <1>1 DEF Owned, Matches, INVALID_SOCKET, NULL
<1>7. SocketsOwned
  BY <1>4, <1>5, <1>6 DEF SocketsOwned
<1>8. ContextsLive
  <2>1. \A t \in live : data[t] # NoContext => ssl[data[t]].live
    BY <1>0 DEF Types, ListTypes, Placed
  <2>2. ASSUME NEW t \in Transports, user[t].step \in {"connected", "connecting"}
        PROVE  SslOf(t).sockfd \in sockets
    <3>1. user[t] # Unused
      BY <2>2 DEF Unused
    <3>2. /\ SslOf(t) = ssl[data[t]] /\ data[t] \in Contexts
          /\ Fits(t, user[t], ssl[data[t]], tls)
      BY <3>1, InUse
    <3>3. SyncTcp(ssl[data[t]]) \/ SyncSsl(ssl[data[t]], tls) \/ AsyncOn(ssl[data[t]], tls)
      BY <2>2, <3>1, <3>2 DEF Fits
    <3>4. SslOf(t).sockfd = Held[data[t]] /\ SslOf(t).sockfd # NULL
      BY <3>2, <3>3
         DEF SyncTcp, SyncSsl, AsyncOn, Open, Held, SocketIn, NULL, INVALID_SOCKET
    <3> QED BY <1>3, <3>2, <3>4
  <2> QED BY <2>1, <2>2 DEF ContextsLive
<1>9. OptionsKept
  BY <1>0 DEF Opted, OptionsKept
<1> QED BY <1>0, <1>7, <1>8, <1>9 DEF TransportSound

\* The sockets and TLS objects of every list of transports are owned by one context each, those
\* who are connected have an open socket, options last, and errors are told.
THEOREM TransportCorrect == TransportSpec => []TransportSound
<1>1. TransportInit => TransportInv
  BY StartsSound
<1>2. TransportInv /\ [TransportNext]_transportVars => TransportInv'
  BY StepsSound
<1>3. TransportInv => TransportSound
  BY InvSound
<1> QED BY <1>1, <1>2, <1>3, PTL DEF TransportSpec

-----------------------------------------------------------------------------
(* Web sockets. *)

\* What a frame may hold.
Carried == Messages \cup {<<>>}

Opcodes == {WS_OPCODE_BINARY, WS_OPCODE_CLOSE, WS_OPCODE_PING, WS_OPCODE_PONG}
Controls == {WS_OPCODE_CLOSE, WS_OPCODE_PING, WS_OPCODE_PONG}
Short == {p \in Messages : Len(p) <= SmallLimit}

\* Bytes with the data among them; what follows what.
Pairs == Seq(Nat) \X Seq(Nat)
NoBytes == <<<<>>, <<>>>>
Joined(p, q) == <<p[1] \o q[1], p[2] \o q[2]>>

\* What the server sends in one piece.
Frames ==
    {<<ServerFrame(WS_OPCODE_BINARY, m), m>> : m \in Messages}
    \cup {<<ServerFrame(o, m), <<>>>> : o \in Controls, m \in Short}

\* Whole frames, one after another: the least set with none that takes one more in front.
Whole(S) ==
    /\ NoBytes \in S
    /\ \A f \in Frames, p \in S : Joined(f, p) \in S
Wire == {p \in Pairs : \A S \in SUBSET Pairs : Whole(S) => p \in S}

\* A reader with r bytes of data left in its frame; whole frames follow.
InPlace(r, b, d) ==
    \E p \in Seq(Nat), q \in Wire : Len(p) = r /\ <<b, d>> = Joined(<<p, p>>, q)

FrameStates ==
    [opcode : Nat, payload_len : Nat, bytes_remaining : Nat, header_received : BOOLEAN]

\* Where the reader is: nowhere, or in place.
Reader ==
    /\ conn = "closed" \/ misframed => toClient = <<>> /\ due = <<>>
    /\ conn # "closed" /\ ~misframed => InPlace(frame_state.bytes_remaining, toClient, due)

WebInv ==
    /\ conn \in {"closed", "open", "failed"} /\ misframed \in BOOLEAN
    /\ frame_state \in FrameStates
    /\ ws \/ conn = "closed"
    /\ Reader
    /\ received = wanted
    /\ FramesRight

\* Bytes are numbers, so a message is a sequence of them.
LEMMA MessageTypes ==
    ASSUME NEW m \in Carried
    PROVE  /\ m \in Seq(Nat) /\ m \in Seq(0..1)
           /\ Len(m) \in 0..7
<1>1. m \in Seq(0..1) /\ Len(m) < 8
  <2>1. CASE m \in Messages
    BY <2>1, WebSocketAssumption
  <2>2. CASE m = <<>>
    BY <2>2
  <2> QED
    BY <2>1, <2>2 DEF Carried
<1>2. m = [i \in 1..Len(m) |-> m[i]] /\ Len(m) \in Nat /\ \A i \in 1..Len(m) : m[i] \in 0..1
  BY <1>1
<1>3. \A i \in 1..Len(m) : m[i] \in Nat
  BY <1>2
<1>4. m \in Seq(Nat)
  BY <1>2, <1>3
<1>5. Len(m) \in 0..7
  <2> DEFINE k == Len(m)
  <2>1. k \in Nat /\ k < 8
    BY <1>1, <1>2
  <2> HIDE DEF k
  <2>2. k \in 0..7
    BY <2>1
  <2> QED
    BY <2>2 DEF k
<1> QED
  BY <1>1, <1>4, <1>5

\* What is left of two sequences when a part of the first is taken away.
LEMMA DroppedOfConcat ==
    ASSUME NEW s \in Seq(Nat), NEW t \in Seq(Nat), NEW n \in 0..Len(s)
    PROVE  /\ Dropped(s, n) \in Seq(Nat) /\ Len(Dropped(s, n)) = Len(s) - n
           /\ Dropped(s \o t, n) = Dropped(s, n) \o t
<1>1. /\ s \o t \in Seq(Nat) /\ Len(s \o t) = Len(s) + Len(t)
      /\ \A i \in 1 .. Len(s) + Len(t) :
             (s \o t)[i] = IF i <= Len(s) THEN s[i] ELSE t[i - Len(s)]
  BY ConcatProperties
<1>2. /\ Dropped(s, n) \in Seq(Nat) /\ Len(Dropped(s, n)) = Len(s) - n
      /\ \A i \in 1 .. Len(s) - n : Dropped(s, n)[i] = s[n + i]
  <2>1. \A i \in n + 1 .. Len(s) : s[i] \in Nat
    OBVIOUS
  <2>2. n + 1 \in Int /\ Len(s) \in Int
    OBVIOUS
  <2> QED
    BY <2>1, <2>2, SubSeqProperties DEF Dropped
<1>3. /\ Dropped(s \o t, n) \in Seq(Nat) /\ Len(Dropped(s \o t, n)) = Len(s) + Len(t) - n
      /\ \A i \in 1 .. Len(s) + Len(t) - n : Dropped(s \o t, n)[i] = (s \o t)[n + i]
  <2>1. \A i \in n + 1 .. Len(s \o t) : (s \o t)[i] \in Nat
    BY <1>1
  <2>2. n + 1 \in Int /\ Len(s \o t) \in Int
    BY <1>1
  <2> QED
    BY <1>1, <2>1, <2>2, SubSeqProperties DEF Dropped
<1>4. /\ Dropped(s, n) \o t \in Seq(Nat)
      /\ Len(Dropped(s, n) \o t) = Len(s) - n + Len(t)
      /\ \A i \in 1 .. Len(s) - n + Len(t) :
             (Dropped(s, n) \o t)[i]
                 = IF i <= Len(s) - n THEN Dropped(s, n)[i] ELSE t[i - (Len(s) - n)]
  <2> DEFINE d == Dropped(s, n)
  <2>1. d \in Seq(Nat) /\ Len(d) = Len(s) - n
    BY <1>2
  <2> HIDE DEF d
  <2>2. /\ d \o t \in Seq(Nat) /\ Len(d \o t) = Len(d) + Len(t)
        /\ \A i \in 1 .. Len(d) + Len(t) :
               (d \o t)[i] = IF i <= Len(d) THEN d[i] ELSE t[i - Len(d)]
    BY <2>1, ConcatProperties
  <2>3. /\ d \o t \in Seq(Nat) /\ Len(d \o t) = Len(s) - n + Len(t)
        /\ \A i \in 1 .. Len(s) - n + Len(t) :
               (d \o t)[i] = IF i <= Len(s) - n THEN d[i] ELSE t[i - (Len(s) - n)]
    BY <2>1, <2>2
  <2> QED
    BY <2>3 DEF d
<1>5. \A i \in 1 .. Len(s) + Len(t) - n : Dropped(s \o t, n)[i] = (Dropped(s, n) \o t)[i]
  <2> TAKE i \in 1 .. Len(s) + Len(t) - n
  <2>1. Dropped(s \o t, n)[i] = (s \o t)[n + i]
    BY <1>3
  <2>2. CASE i <= Len(s) - n
    BY <1>1, <1>2, <1>4, <2>1, <2>2
  <2>3. CASE ~(i <= Len(s) - n)
    <3>1. n + i - Len(s) = i - (Len(s) - n)
      OBVIOUS
    <3> QED
      BY <1>1, <1>4, <2>1, <2>3, <3>1
  <2> QED
    BY <2>2, <2>3
<1>6. Dropped(s \o t, n) = Dropped(s, n) \o t
  <2> DEFINE x == Dropped(s \o t, n)
             y == Dropped(s, n) \o t
  <2>1. x \in Seq(Nat) /\ y \in Seq(Nat) /\ Len(x) = Len(y) /\ Len(x) = Len(s) + Len(t) - n
    BY <1>3, <1>4
  <2>2. \A i \in 1 .. Len(x) : x[i] = y[i]
    BY <1>5, <2>1
  <2> HIDE DEF x, y
  <2>3. x = y
    BY <2>1, <2>2, SeqEqual
  <2> QED
    BY <2>3 DEF x, y
<1> QED
  BY <1>2, <1>6

\* A sequence falls apart where it was put together.
LEMMA Apart ==
    ASSUME NEW s \in Seq(Nat), NEW t \in Seq(Nat)
    PROVE  /\ s \o t \in Seq(Nat) /\ Len(s \o t) = Len(s) + Len(t)
           /\ SubSeq(s \o t, 1, Len(s)) = s
           /\ Dropped(s \o t, Len(s)) = t
<1>1. s \o t \in Seq(Nat) /\ Len(s \o t) = Len(s) + Len(t)
  BY ConcatProperties
<1>2. SubSeq(s \o t, 1, Len(s)) = s
  <2>1. CASE s = <<>>
    <3>1. Len(s) = 0
      BY <2>1
    <3> QED
      BY <2>1, <3>1, SubSeqEmpty
  <2>2. CASE s # <<>>
    <3>1. 1 \in 1 .. Len(s) /\ Len(s) \in 1 .. Len(s)
      BY <2>2
    <3> QED
      BY <3>1, SubSeqOfConcat1, SubSeqFull
  <2> QED
    BY <2>1, <2>2
<1>3. Dropped(s \o t, Len(s)) = Dropped(s, Len(s)) \o t
  BY DroppedOfConcat, Len(s) \in 0..Len(s)
<1>4. Dropped(s, Len(s)) = <<>>
  BY SubSeqEmpty, Len(s) \in Nat DEF Dropped
<1> QED
  BY <1>1, <1>2, <1>3, <1>4, ConcatEmptySeq

-----------------------------------------------------------------------------
(* Headers. *)

\* The digits of a short number, and the mask bit, which is none of them.
LEMMA Digits ==
    ASSUME NEW n \in 0..7, NEW mask \in {0, 8}
    PROVE  /\ n <= 2 => (n + mask) % 8 = n
           /\ (3 + mask) % 8 = 3 /\ (4 + mask) % 8 = 4
           /\ ((n \div 4) * 2 * 2) + (((n \div 2) % 2) * 2) + (n % 2) = n
           /\ n \div 4 \in Nat /\ (n \div 2) % 2 \in Nat /\ n \div 2 \in Nat /\ n % 2 \in Nat
           /\ n = 3 => n \div 2 = 1 /\ n % 2 = 1
           /\ n + mask \in Nat /\ 3 + mask \in Nat /\ 4 + mask \in Nat
<1>1. CASE mask = 0
  BY <1>1
<1>2. CASE mask = 8
  BY <1>2
<1> QED
  BY <1>1, <1>2

\* The three forms.
LEMMA LengthForms ==
    ASSUME NEW n \in 0..7, NEW mask \in {0, 8}
    PROVE  /\ LengthField(n, mask) \in Seq(Nat)
           /\ n <= 2 => /\ Len(LengthField(n, mask)) = 1
                        /\ LengthField(n, mask)[1] = n + mask
           /\ n = 3 => /\ Len(LengthField(n, mask)) = 3
                       /\ LengthField(n, mask)[1] = 3 + mask
                       /\ LengthField(n, mask)[2] = 1 /\ LengthField(n, mask)[3] = 1
           /\ n >= 4 => /\ Len(LengthField(n, mask)) = 5
                        /\ LengthField(n, mask)[1] = 4 + mask
                        /\ LengthField(n, mask)[2] = 0
                        /\ LengthField(n, mask)[3] = n \div 4
                        /\ LengthField(n, mask)[4] = (n \div 2) % 2
                        /\ LengthField(n, mask)[5] = n % 2
<1>1. CASE n <= 2
  <2>1. LengthField(n, mask) = <<n + mask>>
    BY <1>1 DEF LengthField, SmallLimit
  <2> QED
    BY <1>1, <2>1, Digits
<1>2. CASE n = 3
  <2>1. LengthField(n, mask) = <<3 + mask, n \div 2, n % 2>>
    BY <1>2 DEF LengthField, SmallLimit, Digit, WS_SIZE16
  <2>2. LengthField(n, mask) = <<3 + mask, 1, 1>>
    BY <1>2, <2>1, Digits
  <2>3. 3 + mask \in Nat
    BY Digits
  <2>4. LengthField(n, mask) \in Seq(Nat)
    BY <2>2, <2>3
  <2>5. /\ Len(LengthField(n, mask)) = 3
        /\ LengthField(n, mask)[1] = 3 + mask
        /\ LengthField(n, mask)[2] = 1 /\ LengthField(n, mask)[3] = 1
    BY <2>2
  <2> QED
    BY <1>2, <2>4, <2>5
<1>3. CASE n >= 4
  <2>1. LengthField(n, mask) = <<4 + mask, 0, n \div (2 * 2), (n \div 2) % 2, n % 2>>
    BY <1>3 DEF LengthField, SmallLimit, Digit, WS_SIZE64
  <2>2. LengthField(n, mask) = <<4 + mask, 0, n \div 4, (n \div 2) % 2, n % 2>>
    BY <2>1
  <2>3. /\ 4 + mask \in Nat /\ 0 \in Nat /\ n \div 4 \in Nat
        /\ (n \div 2) % 2 \in Nat /\ n % 2 \in Nat
    BY Digits
  <2> HIDE <1>3
  <2>4. LengthField(n, mask) \in Seq(Nat)
    BY <2>2, <2>3
  <2>5. /\ Len(LengthField(n, mask)) = 5 
        /\ LengthField(n, mask)[1] = 4 + mask
        /\ LengthField(n, mask)[2] = 0
        /\ LengthField(n, mask)[3] = n \div 4
        /\ LengthField(n, mask)[4] = (n \div 2) % 2
        /\ LengthField(n, mask)[5] = n % 2
    BY <2>2
  <2> QED
    BY <1>3, <2>4, <2>5
<1> QED
  BY <1>1, <1>2, <1>3

\* One byte before a sequence.
LEMMA OneMore ==
    ASSUME NEW a \in Nat, NEW f \in Seq(Nat)
    PROVE  /\ <<a>> \o f \in Seq(Nat) /\ Len(<<a>> \o f) = Len(f) + 1
           /\ (<<a>> \o f)[1] = a
           /\ \A i \in 1 .. Len(f) : (<<a>> \o f)[i + 1] = f[i]
<1>1. <<a>> \in Seq(Nat) /\ Len(<<a>>) = 1 /\ <<a>>[1] = a
  OBVIOUS
<1>2. /\ <<a>> \o f \in Seq(Nat) /\ Len(<<a>> \o f) = Len(<<a>>) + Len(f)
      /\ \A i \in 1 .. Len(<<a>>) + Len(f) :
             (<<a>> \o f)[i] = IF i <= Len(<<a>>) THEN <<a>>[i] ELSE f[i - Len(<<a>>)]
  BY <1>1, ConcatProperties
<1>3. \A i \in 1 .. 1 + Len(f) : (<<a>> \o f)[i] = IF i <= 1 THEN <<a>>[i] ELSE f[i - 1]
  BY <1>1, <1>2
<1>4. (<<a>> \o f)[1] = a
  BY <1>1, <1>3
<1>5. ASSUME NEW i \in 1 .. Len(f)
      PROVE  (<<a>> \o f)[i + 1] = f[i]
  BY <1>3
<1> QED
  BY <1>1, <1>2, <1>4, <1>5

\* What Lengths makes of a header with the length n.
SaysLength(bytes, n, mask) ==
    /\ n <= 2 => bytes[2] = n + mask
    /\ n = 3 => bytes[2] = 3 + mask /\ bytes[3] = 1 /\ bytes[4] = 1
    /\ n >= 4 => /\ bytes[2] = 4 + mask /\ bytes[3] = 0 /\ bytes[4] = n \div 4
                 /\ bytes[5] = (n \div 2) % 2 /\ bytes[6] = n % 2

\* The size of a header.
HeaderSize(n) == IF n <= 2 THEN 2 ELSE IF n = 3 THEN 4 ELSE 6

\* A header is read as it was written.
LEMMA LengthRead ==
    ASSUME NEW n \in 0..7, NEW mask \in {0, 8}, NEW bytes, SaysLength(bytes, n, mask)
    PROVE  Lengths(bytes) = [len |-> n, size |-> HeaderSize(n)]
<1>1. CASE n <= 2
  <2>1. bytes[2] % 8 = n
    BY <1>1, Digits DEF SaysLength
  <2> QED
    BY <1>1, <2>1 DEF Lengths, HeaderSize, WS_MASK, WS_SIZE16, WS_SIZE64, SmallLimit
<1>2. CASE n = 3
  <2>1. bytes[2] % 8 = 3 /\ bytes[3] = 1 /\ bytes[4] = 1
    BY <1>2, Digits DEF SaysLength
  <2> QED
    BY <1>2, <2>1 DEF Lengths, HeaderSize, WS_MASK, WS_SIZE16, WS_SIZE64, SmallLimit, Digit
<1>3. CASE n >= 4
  <2>1. /\ bytes[2] % 8 = 4 /\ bytes[3] = 0
        /\ (bytes[4] * 2 * 2) + (bytes[5] * 2) + bytes[6] = n
    BY <1>3, Digits DEF SaysLength
  <2>2. Lengths(bytes) = [len |-> (bytes[4] * 2 * 2) + (bytes[5] * 2) + bytes[6], size |-> 6]
    BY <2>1 DEF Lengths, WS_MASK, WS_SIZE16, WS_SIZE64, SmallLimit, Digit
  <2> QED
    BY <1>3, <2>1, <2>2 DEF HeaderSize
<1> QED
  BY <1>1, <1>2, <1>3

\* The header of a frame before anything else.
Header(first, n, mask) == <<first>> \o LengthField(n, mask)

\* A length field says its length, masked or not, and a reader finds what is behind it.
LEMMA LengthIsRead ==
    ASSUME NEW n \in 0..7, NEW mask \in {0, 8}, NEW first \in Nat, NEW t \in Seq(Nat)
    PROVE  /\ Header(first, n, mask) \in Seq(Nat)
           /\ Header(first, n, mask) \o t \in Seq(Nat)
           /\ Len(Header(first, n, mask) \o t) > 0
           /\ (Header(first, n, mask) \o t)[1] = first
           /\ Lengths(Header(first, n, mask) \o t)
                  = [len |-> n, size |-> Len(Header(first, n, mask))]
           /\ Dropped(Header(first, n, mask) \o t, Len(Header(first, n, mask))) = t
<1> DEFINE f == LengthField(n, mask)
           h == Header(first, n, mask)
           bytes == h \o t
<1>1. f \in Seq(Nat) /\ Len(f) = HeaderSize(n) - 1
  <2>1. f \in Seq(Nat)
    BY LengthForms
  <2>2. /\ n <= 2 => Len(f) = 1
        /\ n = 3 => Len(f) = 3
        /\ n >= 4 => Len(f) = 5
    BY LengthForms
  <2> HIDE DEF f
  <2>3. CASE n <= 2
    <3>1. HeaderSize(n) = 2
      BY <2>3 DEF HeaderSize
    <3> QED
      BY <2>1, <2>2, <2>3, <3>1
  <2>4. CASE n = 3
    <3>1. HeaderSize(n) = 4
      BY <2>4 DEF HeaderSize
    <3> QED
      BY <2>1, <2>2, <2>4, <3>1
  <2>5. CASE n >= 4
    <3>1. HeaderSize(n) = 6
      BY <2>5 DEF HeaderSize
    <3> QED
      BY <2>1, <2>2, <2>5, <3>1
  <2> QED
    BY <2>3, <2>4, <2>5
<1>2. /\ h \in Seq(Nat) /\ Len(h) = HeaderSize(n)
      /\ h[1] = first /\ \A i \in 1 .. Len(f) : h[i + 1] = f[i]
  <2> HIDE DEF f
  <2>1. h = <<first>> \o f
    BY DEF f, h, Header
  <2>2. HeaderSize(n) \in Nat
    BY DEF HeaderSize
  <2> HIDE DEF h
  <2> QED
    BY <1>1, <2>1, <2>2, OneMore
<1> HIDE DEF h
<1>3. /\ bytes \in Seq(Nat) /\ Len(bytes) = Len(h) + Len(t)
      /\ \A i \in 1 .. Len(h) : bytes[i] = h[i]
      /\ Dropped(bytes, Len(h)) = t
  <2>1. \A i \in 1 .. Len(h) + Len(t) : bytes[i] = IF i <= Len(h) THEN h[i] ELSE t[i - Len(h)]
    BY <1>2, ConcatProperties
  <2>2. \A i \in 1 .. Len(h) : bytes[i] = h[i]
    BY <1>2, <2>1
  <2>3. bytes \in Seq(Nat) /\ Len(bytes) = Len(h) + Len(t) /\ Dropped(bytes, Len(h)) = t
    BY <1>2, Apart
  <2> QED
    BY <2>2, <2>3
<1> HIDE DEF bytes
<1>4. Len(h) >= 2 /\ Len(bytes) > 0 /\ bytes # <<>> /\ bytes[1] = first
  BY <1>2, <1>3 DEF HeaderSize
<1>5. SaysLength(bytes, n, mask)
  <2>0. \A i \in 1 .. Len(f) : bytes[i + 1] = f[i]
    BY <1>1, <1>2, <1>3 DEF HeaderSize
  <2>1. CASE n <= 2
    <3>0. Len(f) = 1
      BY <1>1, <2>1 DEF HeaderSize
    <3>1. bytes[1 + 1] = f[1]
      BY <2>0, <3>0
    <3>2. f[1] = n + mask
      BY <2>1, LengthForms
    <3> HIDE DEF f
    <3> QED
      BY <2>1, <3>1, <3>2 DEF SaysLength
  <2>2. CASE n = 3
    <3>0. Len(f) = 3
      BY <1>1, <2>2 DEF HeaderSize
    <3>1. /\ bytes[1 + 1] = f[1] /\ bytes[2 + 1] = f[2] /\ bytes[3 + 1] = f[3]
      BY <2>0, <3>0
    <3>2. f[1] = 3 + mask /\ f[2] = 1 /\ f[3] = 1
      BY <2>2, LengthForms
    <3> HIDE DEF f
    <3> QED
      BY <2>2, <3>1, <3>2 DEF SaysLength
  <2>3. CASE n >= 4
    <3>0. Len(f) = 5
      BY <1>1, <2>3 DEF HeaderSize
    <3>1. /\ bytes[1 + 1] = f[1] /\ bytes[2 + 1] = f[2] /\ bytes[3 + 1] = f[3]
          /\ bytes[4 + 1] = f[4] /\ bytes[5 + 1] = f[5]
      BY <2>0, <3>0
    <3>2. /\ f[1] = 4 + mask /\ f[2] = 0 /\ f[3] = n \div 4
          /\ f[4] = (n \div 2) % 2 /\ f[5] = n % 2
      BY <2>3, LengthForms
    <3> HIDE DEF f
    <3> QED
      BY <2>3, <3>1, <3>2 DEF SaysLength
  <2> QED
    BY <2>1, <2>2, <2>3
<1>6. Lengths(bytes) = [len |-> n, size |-> Len(h)]
  BY <1>2, <1>5, LengthRead
<1> QED
  BY <1>2, <1>3, <1>4, <1>6 DEF h, bytes

\* Concatenation does not ask where to begin.
LEMMA Associative ==
    ASSUME NEW s \in Seq(Nat), NEW t \in Seq(Nat), NEW u \in Seq(Nat)
    PROVE  (s \o t) \o u = s \o (t \o u)
BY ConcatAssociative

\* The first byte of a frame.
LEMMA FirstByte ==
    ASSUME NEW o \in Opcodes
    PROVE  o \in Nat /\ o + WS_FIN \in Nat /\ (o + WS_FIN) % WS_FIN = o
BY DEF Opcodes, WS_OPCODE_BINARY, WS_OPCODE_CLOSE, WS_OPCODE_PING, WS_OPCODE_PONG, WS_FIN

\* What a reader makes of bytes: opcode o, then the payload m, then the rest.
ReadAs(bytes, o, m, rest) ==
    /\ bytes[1] % WS_FIN = o
    /\ Lengths(bytes).len = Len(m)
    /\ SubSeq(bytes, Lengths(bytes).size + 1, Len(bytes)) = m \o rest

\* The reader finds opcode, length and place of the payload in the frame before it.
LEMMA FrameIsRead ==
    ASSUME NEW o \in Opcodes, NEW m \in Messages, NEW rest \in Seq(Nat)
    PROVE  /\ ServerFrame(o, m) \in Seq(Nat)
           /\ ServerFrame(o, m) \o rest \in Seq(Nat) /\ ServerFrame(o, m) \o rest # <<>>
           /\ ReadAs(ServerFrame(o, m) \o rest, o, m, rest)
<1> DEFINE bytes == ServerFrame(o, m) \o rest
           h == Header(o + WS_FIN, Len(m), 0)
           tail == m \o rest
<1>1. m \in Seq(Nat) /\ Len(m) \in 0..7
  BY MessageTypes DEF Carried
<1>2. 0 \in {0, 8} /\ o + WS_FIN \in Nat
  BY FirstByte
<1>3. tail \in Seq(Nat)
  BY <1>1, ConcatProperties
<1>4. /\ h \in Seq(Nat) /\ h \o tail \in Seq(Nat) /\ Len(h \o tail) > 0
      /\ (h \o tail)[1] = o + WS_FIN
      /\ Lengths(h \o tail) = [len |-> Len(m), size |-> Len(h)]
      /\ Dropped(h \o tail, Len(h)) = tail
  <2> DEFINE n == Len(m)
             first == o + WS_FIN
  <2> HIDE DEF tail
  <2>1. n \in 0..7 /\ first \in Nat
    BY <1>1, <1>2
  <2> HIDE DEF n, first
  <2> DEFINE H == Header(first, n, 0)
  <2>2. H \in Seq(Nat) /\ H \o tail \in Seq(Nat)
    BY <1>2, <1>3, <2>1, LengthIsRead
  <2>6. Len(H \o tail) > 0
    BY <1>2, <1>3, <2>1, LengthIsRead
  <2>3. (H \o tail)[1] = first
    BY <1>2, <1>3, <2>1, LengthIsRead
  <2>4. Lengths(H \o tail) = [len |-> n, size |-> Len(H)]
    BY <1>2, <1>3, <2>1, LengthIsRead
  <2>5. Dropped(H \o tail, Len(H)) = tail
    BY <1>2, <1>3, <2>1, LengthIsRead
  <2> QED
    BY <2>2, <2>3, <2>4, <2>5, <2>6 DEF n, first
<1>5. ServerFrame(o, m) = h \o m
  BY DEF ServerFrame, Header
<1> HIDE DEF h
<1>6. ServerFrame(o, m) \in Seq(Nat)
  BY <1>1, <1>4, <1>5, ConcatProperties
<1>7. bytes = h \o tail
  <2>1. bytes = (h \o m) \o rest
    BY <1>5
  <2> QED
    BY <1>1, <1>4, <2>1, Associative
<1> HIDE DEF tail, bytes
<1>8. Lengths(bytes).len = Len(m) /\ Lengths(bytes).size = Len(h)
  BY <1>4, <1>7
<1>9. bytes[1] % WS_FIN = o
  BY <1>4, <1>7, FirstByte
<1>10. bytes # <<>>
  BY <1>4, <1>7
<1> QED
  BY <1>4, <1>6, <1>7, <1>8, <1>9, <1>10 DEF tail, bytes, Dropped, ReadAs

\* A mask taken twice is none.
LEMMA MaskedTwice ==
    ASSUME NEW m \in Carried
    PROVE  /\ Masked(m, Key) \in Seq(Nat) /\ Len(Masked(m, Key)) = Len(m)
           /\ Masked(Masked(m, Key), Key) = m
<1>1. m \in Seq(0..1) /\ Len(m) \in Nat /\ DOMAIN m = 1..Len(m)
  BY MessageTypes
<1>2. \A i \in 1..Len(m) : Key[((i - 1) % Len(Key)) + 1] \in {0, 1}
  BY DEF Key
<1>3. Masked(m, Key) = [i \in 1..Len(m) |-> (m[i] + Key[((i - 1) % Len(Key)) + 1]) % 2]
  BY <1>1 DEF Masked, Digit
<1>4. /\ DOMAIN Masked(m, Key) = 1..Len(m)
      /\ \A i \in 1..Len(m) : Masked(m, Key)[i] \in 0..1
      /\ \A i \in 1..Len(m) : (Masked(m, Key)[i] + Key[((i - 1) % Len(Key)) + 1]) % 2 = m[i]
  <2>1. \A i \in 1..Len(m) : m[i] \in 0..1
    BY <1>1
  <2>2. ASSUME NEW a \in 0..1, NEW k \in {0, 1}
        PROVE  (a + k) % 2 \in 0..1 /\ (((a + k) % 2) + k) % 2 = a
    <3>1. CASE a = 0 /\ k = 0
      BY <3>1
    <3>2. CASE a = 0 /\ k = 1
      BY <3>2
    <3>3. CASE a = 1 /\ k = 0
      BY <3>3
    <3>4. CASE a = 1 /\ k = 1
      BY <3>4
    <3> QED
      BY <3>1, <3>2, <3>3, <3>4
  <2>3. ASSUME NEW i \in 1..Len(m)
        PROVE  /\ Masked(m, Key)[i] \in 0..1
               /\ (Masked(m, Key)[i] + Key[((i - 1) % Len(Key)) + 1]) % 2 = m[i]
    <3> DEFINE k == Key[((i - 1) % Len(Key)) + 1]
    <3>1. Masked(m, Key)[i] = (m[i] + k) % 2
      BY <1>3
    <3>2. k \in {0, 1} /\ m[i] \in 0..1
      BY <1>2, <2>1
    <3> HIDE DEF k
    <3>3. Masked(m, Key)[i] \in 0..1 /\ (Masked(m, Key)[i] + k) % 2 = m[i]
      BY <2>2, <3>1, <3>2
    <3> QED
      BY <3>3 DEF k
  <2>4. DOMAIN Masked(m, Key) = 1..Len(m)
    BY <1>3
  <2> QED
    BY <2>3, <2>4
<1>5. Masked(m, Key) \in Seq(Nat) /\ Len(Masked(m, Key)) = Len(m)
  BY <1>1, <1>3, <1>4
<1>6. Masked(Masked(m, Key), Key) = [i \in 1..Len(m) |-> m[i]]
  BY <1>4 DEF Masked, Digit
<1> QED
  BY <1>1, <1>5, <1>6

\* The server finds in a frame of the transport what it was asked to say.
LEMMA ServerFinds ==
    ASSUME NEW o \in Opcodes, NEW m \in Carried
    PROVE  ServerReads(ClientFrame(o, m, Key)) = [opcode |-> o, payload |-> m]
<1> DEFINE h == Header(o + WS_FIN, Len(m), 8)
           x == Masked(m, Key)
           tail == Key \o x
           bytes == ClientFrame(o, m, Key)
<1>1. m \in Seq(Nat) /\ Len(m) \in 0..7
  BY MessageTypes
<1>2. x \in Seq(Nat) /\ Len(x) = Len(m) /\ Masked(x, Key) = m
  BY MaskedTwice
<1>3. Key \in Seq(Nat) /\ Len(Key) = 2
  BY DEF Key
<1>4. /\ tail \in Seq(Nat) /\ Len(tail) = 2 + Len(m)
      /\ SubSeq(tail, 1, 2) = Key /\ Dropped(tail, 2) = x
  <2> HIDE DEF x
  <2> QED
    BY <1>2, <1>3, Apart
<1>5. 8 \in {0, 8} /\ o + WS_FIN \in Nat
  BY FirstByte
<1>6. /\ h \in Seq(Nat) /\ h \o tail \in Seq(Nat)
      /\ (h \o tail)[1] = o + WS_FIN
      /\ Lengths(h \o tail) = [len |-> Len(m), size |-> Len(h)]
  <2> HIDE DEF tail
  <2> QED
    BY <1>1, <1>4, <1>5, LengthIsRead
<1>7. bytes = (h \o Key) \o x
  BY DEF ClientFrame, Header, WS_MASK
<1> HIDE DEF h, x, bytes
<1>8. bytes = h \o tail
  BY <1>2, <1>3, <1>6, <1>7, Associative
<1> HIDE DEF tail
<1>9. /\ h \o Key \in Seq(Nat) /\ Len(h \o Key) = Len(h) + 2
      /\ Dropped(bytes, Len(h) + 2) = x
  <2>1. h \o Key \in Seq(Nat) /\ Len(h \o Key) = Len(h) + Len(Key)
    BY <1>3, <1>6, ConcatProperties
  <2>2. Dropped(bytes, Len(h \o Key)) = x
    BY <1>2, <1>7, <2>1, Apart
  <2> QED
    BY <1>3, <2>1, <2>2
<1>10. SubSeq(bytes, Len(h) + 1, Len(h) + 2) = Key
  <2>1. /\ Len(h) + 1 \in Len(h) + 1 .. Len(h) + Len(tail)
        /\ Len(h) + 2 \in Len(h) + 1 .. Len(h) + Len(tail)
    BY <1>1, <1>4, <1>6
  <2>2. SubSeq(bytes, Len(h) + 1, Len(h) + 2)
            = SubSeq(tail, Len(h) + 1 - Len(h), Len(h) + 2 - Len(h))
    BY <1>4, <1>6, <1>8, <2>1, SubSeqOfConcat2
  <2>3. Len(h) + 1 - Len(h) = 1 /\ Len(h) + 2 - Len(h) = 2
    BY <1>6
  <2> QED
    BY <1>4, <2>2, <2>3
<1>11. SubSeq(bytes, Len(h) + 3, Len(bytes)) = x
  <2>1. Len(h) + 2 + 1 = Len(h) + 3
    BY <1>6
  <2> QED
    BY <1>9, <2>1 DEF Dropped
<1>12. /\ bytes[1] % WS_FIN = o
       /\ Lengths(bytes).size = Len(h) /\ Lengths(bytes).len = Len(m)
  <2>1. bytes[1] = o + WS_FIN /\ Lengths(bytes) = [len |-> Len(m), size |-> Len(h)]
    BY <1>6, <1>8
  <2> QED
    BY <2>1, FirstByte
<1>13. ServerReads(bytes) = [opcode |-> o, payload |-> m]
  BY <1>2, <1>10, <1>11, <1>12 DEF ServerReads
<1> QED
  BY <1>13 DEF bytes

-----------------------------------------------------------------------------
(* The wire. *)

\* What a frame is, and its data.
LEMMA FrameTypes ==
    ASSUME NEW f \in Frames
    PROVE  f \in Pairs /\ f[1] # <<>>
<1>1. ASSUME NEW o \in Opcodes, NEW m \in Messages
      PROVE  ServerFrame(o, m) \in Seq(Nat) /\ ServerFrame(o, m) # <<>>
  <2> DEFINE none == <<>>
             bytes == ServerFrame(o, m) \o none
  <2>1. none \in Seq(Nat)
    OBVIOUS
  <2> HIDE DEF none
  <2>2. ServerFrame(o, m) \in Seq(Nat) /\ bytes # <<>>
    BY <2>1, FrameIsRead
  <2> QED
    BY <2>2, ConcatEmptySeq DEF none
<1>2. CASE \E m \in Messages : f = <<ServerFrame(WS_OPCODE_BINARY, m), m>>
  BY <1>1, <1>2, MessageTypes DEF Opcodes, Pairs, Carried
<1>3. CASE \E o \in Controls, m \in Short : f = <<ServerFrame(o, m), <<>>>>
  <2>1. PICK o \in Controls, m \in Short : f = <<ServerFrame(o, m), <<>>>>
    BY <1>3
  <2>2. o \in Opcodes /\ m \in Messages /\ <<>> \in Seq(Nat)
    BY DEF Opcodes, Controls, Short
  <2> QED
    BY <1>1, <2>1, <2>2 DEF Pairs
<1> QED
  BY <1>2, <1>3 DEF Frames

\* Pairs are put together like sequences.
LEMMA JoinedTypes ==
    ASSUME NEW p \in Pairs, NEW q \in Pairs
    PROVE  /\ Joined(p, q) \in Pairs
           /\ Joined(p, NoBytes) = p /\ Joined(NoBytes, p) = p
<1>1. p = <<p[1], p[2]>> /\ p[1] \in Seq(Nat) /\ p[2] \in Seq(Nat)
  BY DEF Pairs
<1>2. q[1] \in Seq(Nat) /\ q[2] \in Seq(Nat)
  BY DEF Pairs
<1>3. p[1] \o q[1] \in Seq(Nat) /\ p[2] \o q[2] \in Seq(Nat)
  BY <1>1, <1>2, ConcatProperties
<1>4. /\ p[1] \o <<>> = p[1] /\ p[2] \o <<>> = p[2]
      /\ <<>> \o p[1] = p[1] /\ <<>> \o p[2] = p[2]
  BY <1>1, ConcatEmptySeq
<1>5. NoBytes[1] = <<>> /\ NoBytes[2] = <<>>
  BY DEF NoBytes
<1> QED
  BY <1>1, <1>3, <1>4, <1>5 DEF Pairs, Joined

\* ... and it does not matter where one begins.
LEMMA JoinedAssociative ==
    ASSUME NEW p \in Pairs, NEW q \in Pairs, NEW r \in Pairs
    PROVE  Joined(Joined(p, q), r) = Joined(p, Joined(q, r))
BY Associative DEF Pairs, Joined

\* What is on the wire is whole.
LEMMA WireWhole ==
    Wire \in SUBSET Pairs /\ Whole(Wire)
<1>1. Wire \in SUBSET Pairs
  BY DEF Wire
<1>2. NoBytes \in Wire
  <2>1. NoBytes \in Pairs
    <3>1. <<>> \in Seq(Nat)
      OBVIOUS
    <3> QED
      BY <3>1 DEF Pairs, NoBytes
  <2>2. \A S \in SUBSET Pairs : Whole(S) => NoBytes \in S
    BY DEF Whole
  <2> QED
    BY <2>1, <2>2 DEF Wire
<1>3. ASSUME NEW f \in Frames, NEW p \in Wire
      PROVE  Joined(f, p) \in Wire
  <2>1. Joined(f, p) \in Pairs
    BY <1>1, FrameTypes, JoinedTypes
  <2>2. ASSUME NEW S \in SUBSET Pairs, Whole(S)
        PROVE  Joined(f, p) \in S
    <3>1. p \in S
      BY <2>2 DEF Wire
    <3> QED
      BY <2>2, <3>1 DEF Whole
  <2> QED
    BY <2>1, <2>2 DEF Wire
<1> QED
  BY <1>1, <1>2, <1>3 DEF Whole

\* ... and begins with a frame unless it is empty.
LEMMA WireBegins ==
    ASSUME NEW p \in Wire
    PROVE  p = NoBytes \/ \E f \in Frames, q \in Wire : p = Joined(f, q)
<1> DEFINE S == {x \in Wire : x = NoBytes \/ \E f \in Frames, q \in Wire : x = Joined(f, q)}
<1>1. S \in SUBSET Pairs
  BY WireWhole
<1>2. Whole(S)
  <2>1. NoBytes \in S
    BY WireWhole DEF Whole
  <2>2. ASSUME NEW f \in Frames, NEW q \in S
        PROVE  Joined(f, q) \in S
    BY WireWhole DEF Whole
  <2> HIDE DEF S
  <2> QED
    BY <2>1, <2>2 DEF Whole
<1> HIDE DEF S
<1>3. p \in S
  BY <1>1, <1>2 DEF Wire
<1> QED
  BY <1>3 DEF S

\* ... and a frame may follow it.
LEMMA WireGrows ==
    ASSUME NEW p \in Wire, NEW g \in Frames
    PROVE  Joined(p, g) \in Wire
<1> DEFINE S == {x \in Wire : Joined(x, g) \in Wire}
<1>0. g \in Pairs
  BY FrameTypes
<1>1. S \in SUBSET Pairs
  BY WireWhole
<1>2. Whole(S)
  <2>1. NoBytes \in S
    BY <1>0, WireWhole, JoinedTypes DEF Whole
  <2>2. ASSUME NEW f \in Frames, NEW q \in S
        PROVE  Joined(f, q) \in S
    <3>1. f \in Pairs /\ q \in Pairs
      BY FrameTypes, WireWhole
    <3>2. Joined(f, q) \in Wire /\ Joined(f, Joined(q, g)) \in Wire
      BY WireWhole DEF Whole
    <3> QED
      BY <1>0, <3>1, <3>2, JoinedAssociative
  <2> HIDE DEF S
  <2> QED
    BY <2>1, <2>2 DEF Whole
<1> HIDE DEF S
<1>3. p \in S
  BY <1>1, <1>2 DEF Wire
<1> QED
  BY <1>3 DEF S

\* A reader is in place on an empty wire.
LEMMA InPlaceStarts == InPlace(0, <<>>, <<>>)
<1>1. NoBytes \in Wire
  BY WireWhole DEF Whole
<1>2. <<>> \in Seq(Nat) /\ Len(<<>>) = 0
  OBVIOUS
<1>3. <<<<>>, <<>>>> = Joined(<<<<>>, <<>>>>, NoBytes)
  <2>1. <<>> \o <<>> = <<>>
    BY <1>2, ConcatEmptySeq
  <2> QED
    BY <2>1 DEF Joined, NoBytes
<1> QED
  BY <1>1, <1>2, <1>3 DEF InPlace

\* The payload's bytes, and what follows.
Parts(p, q, r, b, d) ==
    /\ q[1] \in Seq(Nat) /\ q[2] \in Seq(Nat)
    /\ Len(p) = r /\ b = p \o q[1] /\ d = p \o q[2]

\* What being in place means, sequence by sequence.
LEMMA InPlaceParts ==
    ASSUME NEW r \in Nat, NEW b, NEW d, InPlace(r, b, d)
    PROVE  \E p \in Seq(Nat), q \in Wire : Parts(p, q, r, b, d)
<1>1. PICK p \in Seq(Nat), q \in Wire : Len(p) = r /\ <<b, d>> = Joined(<<p, p>>, q)
  BY DEF InPlace
<1>2. q[1] \in Seq(Nat) /\ q[2] \in Seq(Nat)
  BY WireWhole DEF Pairs
<1>3. b = p \o q[1] /\ d = p \o q[2]
  BY <1>1 DEF Joined
<1>4. Parts(p, q, r, b, d)
  BY <1>1, <1>2, <1>3 DEF Parts
<1> QED
  BY <1>4

\* ... and back.
LEMMA PartsInPlace ==
    ASSUME NEW p \in Seq(Nat), NEW q \in Wire
    PROVE  InPlace(Len(p), p \o q[1], p \o q[2])
BY DEF InPlace, Joined

\* Without a byte on the wire no data is due.
LEMMA InPlaceEmpty ==
    ASSUME NEW r \in Nat, NEW b, NEW d, InPlace(r, b, d), b = <<>>
    PROVE  d = <<>>
<1>0. PICK p \in Seq(Nat), q \in Wire : Parts(p, q, r, b, d)
  BY InPlaceParts
<1>1. /\ q[1] \in Seq(Nat) /\ q[2] \in Seq(Nat)
      /\ Len(p) = r /\ b = p \o q[1] /\ d = p \o q[2]
  BY <1>0 DEF Parts
<1>2. p = <<>> /\ q[1] = <<>>
  <2>1. p \o q[1] = <<>>
    BY <1>1
  <2> QED
    BY <1>1, <2>1, ConcatEqualIffEmpty
<1>3. q = NoBytes
  <2>1. ASSUME NEW f \in Frames, NEW x \in Wire, q = Joined(f, x)
        PROVE  FALSE
    <3>1. f[1] \in Seq(Nat) /\ x[1] \in Seq(Nat) /\ f[1] # <<>>
      BY FrameTypes, WireWhole DEF Pairs
    <3>2. q[1] = f[1] \o x[1]
      BY <2>1 DEF Joined
    <3>3. f[1] \o x[1] = <<>>
      BY <1>2, <3>2
    <3> QED
      BY <3>1, <3>3, ConcatEqualIffEmpty
  <2> QED
    BY <2>1, WireBegins
<1> QED
  BY <1>1, <1>2, <1>3, ConcatEmptySeq DEF NoBytes

\* The server may send one more frame.
LEMMA InPlaceGrows ==
    ASSUME NEW r \in Nat, NEW b, NEW d, InPlace(r, b, d), NEW g \in Frames
    PROVE  InPlace(r, b \o g[1], d \o g[2])
<1>0. PICK p \in Seq(Nat), q \in Wire : Parts(p, q, r, b, d)
  BY InPlaceParts
<1>1. /\ q[1] \in Seq(Nat) /\ q[2] \in Seq(Nat)
      /\ Len(p) = r /\ b = p \o q[1] /\ d = p \o q[2]
  BY <1>0 DEF Parts
<1>2. g[1] \in Seq(Nat) /\ g[2] \in Seq(Nat)
  BY FrameTypes DEF Pairs
<1> DEFINE w == Joined(q, g)
<1>3. w \in Wire /\ w[1] = q[1] \o g[1] /\ w[2] = q[2] \o g[2]
  BY WireGrows DEF Joined
<1>4. b \o g[1] = p \o w[1] /\ d \o g[2] = p \o w[2]
  <2>1. (p \o q[1]) \o g[1] = p \o (q[1] \o g[1])
    BY <1>1, <1>2, Associative
  <2>2. (p \o q[2]) \o g[2] = p \o (q[2] \o g[2])
    BY <1>1, <1>2, Associative
  <2> HIDE DEF w
  <2> QED
    BY <1>1, <1>3, <2>1, <2>2
<1> HIDE DEF w
<1> QED
  BY <1>1, <1>3, <1>4, PartsInPlace

\* Bytes of the payload are those that are due.
LEMMA InPlaceRead ==
    ASSUME NEW r \in Nat, NEW b, NEW d, InPlace(r, b, d), NEW n \in 1..r
    PROVE  /\ SubSeq(b, 1, n) = SubSeq(d, 1, n)
           /\ InPlace(r - n, Dropped(b, n), Dropped(d, n))
<1>0. PICK p \in Seq(Nat), q \in Wire : Parts(p, q, r, b, d)
  BY InPlaceParts
<1>1. /\ q[1] \in Seq(Nat) /\ q[2] \in Seq(Nat)
      /\ Len(p) = r /\ b = p \o q[1] /\ d = p \o q[2]
  BY <1>0 DEF Parts
<1>2. 1 \in 1..Len(p) /\ n \in 1..Len(p) /\ n \in 0..Len(p)
  BY <1>1
<1>3. SubSeq(b, 1, n) = SubSeq(p, 1, n) /\ SubSeq(d, 1, n) = SubSeq(p, 1, n)
  BY <1>1, <1>2, SubSeqOfConcat1
<1> DEFINE x == Dropped(p, n)
<1>4. /\ x \in Seq(Nat) /\ Len(x) = Len(p) - n
      /\ Dropped(b, n) = x \o q[1] /\ Dropped(d, n) = x \o q[2]
  BY <1>1, <1>2, DroppedOfConcat
<1> HIDE DEF x
<1>5. InPlace(Len(x), Dropped(b, n), Dropped(d, n))
  BY <1>4, PartsInPlace
<1> QED
  BY <1>1, <1>3, <1>4, <1>5

\* The bytes b begin with a frame; its data, if any, are due.
Within(b, d, o, m) ==
    /\ b[1] % WS_FIN = o
    /\ Lengths(b).len = Len(m) /\ Len(m) \in Nat
    /\ \/ /\ o = WS_OPCODE_BINARY
          /\ InPlace(Len(m), SubSeq(b, Lengths(b).size + 1, Len(b)), d)
       \/ /\ o # WS_OPCODE_BINARY
          /\ SubSeq(SubSeq(b, Lengths(b).size + 1, Len(b)), 1, Len(m)) = m
          /\ InPlace(0, Dropped(SubSeq(b, Lengths(b).size + 1, Len(b)), Len(m)), d)

\* Where a frame begins the reader finds it, and is in place within it.
LEMMA InPlaceBegins ==
    ASSUME NEW b, NEW d, InPlace(0, b, d), b # <<>>
    PROVE  \E o \in Opcodes, m \in Messages : Within(b, d, o, m)
<1>0. PICK p \in Seq(Nat), q \in Wire : Parts(p, q, 0, b, d)
  BY InPlaceParts
<1>1. /\ q[1] \in Seq(Nat) /\ q[2] \in Seq(Nat)
      /\ Len(p) = 0 /\ b = p \o q[1] /\ d = p \o q[2]
  BY <1>0 DEF Parts
<1>2. p = <<>> /\ b = q[1] /\ d = q[2]
  BY <1>1, ConcatEmptySeq
<1>3. PICK f \in Frames, x \in Wire : q = Joined(f, x)
  BY <1>2, WireBegins DEF NoBytes
<1>4. /\ x[1] \in Seq(Nat) /\ x[2] \in Seq(Nat)
      /\ b = f[1] \o x[1] /\ d = f[2] \o x[2]
  BY <1>2, <1>3, WireWhole DEF Pairs, Joined
<1>5. CASE \E m \in Messages : f = <<ServerFrame(WS_OPCODE_BINARY, m), m>>
  <2>1. PICK m \in Messages : f = <<ServerFrame(WS_OPCODE_BINARY, m), m>>
    BY <1>5
  <2>2. WS_OPCODE_BINARY \in Opcodes
    BY DEF Opcodes
  <2>3. b = ServerFrame(WS_OPCODE_BINARY, m) \o x[1] /\ d = m \o x[2]
    BY <1>4, <2>1
  <2>4. ReadAs(b, WS_OPCODE_BINARY, m, x[1])
    BY <1>4, <2>2, <2>3, FrameIsRead
  <2>5. InPlace(Len(m), m \o x[1], m \o x[2]) /\ Len(m) \in Nat
    BY MessageTypes, PartsInPlace DEF Carried
  <2>6. Within(b, d, WS_OPCODE_BINARY, m)
    BY <2>3, <2>4, <2>5 DEF ReadAs, Within
  <2> QED
    BY <2>2, <2>6
<1>6. CASE \E o \in Controls, m \in Short : f = <<ServerFrame(o, m), <<>>>>
  <2>1. PICK o \in Controls, m \in Short : f = <<ServerFrame(o, m), <<>>>>
    BY <1>6
  <2>2. o \in Opcodes /\ o # WS_OPCODE_BINARY /\ m \in Messages
    BY DEF Opcodes, Controls, Short, WS_OPCODE_BINARY, WS_OPCODE_CLOSE, WS_OPCODE_PING,
           WS_OPCODE_PONG
  <2>3. b = ServerFrame(o, m) \o x[1] /\ d = x[2]
    BY <1>4, <2>1, ConcatEmptySeq
  <2>4. ReadAs(b, o, m, x[1])
    BY <1>4, <2>2, <2>3, FrameIsRead
  <2>5. m \in Seq(Nat) /\ Len(m) \in Nat
    BY <2>2, MessageTypes DEF Carried
  <2>6. SubSeq(m \o x[1], 1, Len(m)) = m /\ Dropped(m \o x[1], Len(m)) = x[1]
    BY <1>4, <2>5, Apart
  <2>7. InPlace(0, x[1], x[2])
    <3>1. <<>> \in Seq(Nat) /\ Len(<<>>) = 0 /\ <<>> \o x[1] = x[1] /\ <<>> \o x[2] = x[2]
      BY <1>4, ConcatEmptySeq
    <3> QED
      BY <3>1, PartsInPlace
  <2>8. Within(b, d, o, m)
    BY <2>2, <2>3, <2>4, <2>5, <2>6, <2>7 DEF ReadAs, Within
  <2> QED
    BY <2>2, <2>8
<1> QED
  BY <1>5, <1>6 DEF Frames

-----------------------------------------------------------------------------
(* The steps of the transport. *)

\* Nothing is connected at first.
LEMMA WebStarts == WebSocketInit => WebInv
<1>1. SUFFICES ASSUME WebSocketInit PROVE WebInv
  OBVIOUS
<1>2. frame_state \in FrameStates
  BY <1>1 DEF WebSocketInit, FrameStates, NoFrame
<1>3. FramesRight
  BY <1>1 DEF WebSocketInit, FramesRight
<1> QED
  BY <1>1, <1>2, <1>3 DEF WebSocketInit, WebInv, Reader

\* A frame whose header was just read.
LEMMA BegunType ==
    ASSUME WebInv, conn = "open", ~misframed, frame_state.bytes_remaining = 0, toClient # <<>>
    PROVE  \E o \in Opcodes, m \in Messages :
               /\ Begun \in FrameStates /\ Begun.opcode = o
               /\ Begun.payload_len = Len(m) /\ Begun.bytes_remaining = Len(m)
               /\ \/ /\ o = WS_OPCODE_BINARY /\ ~IsControl(o)
                     /\ InPlace(Len(m), Behind, due)
                  \/ /\ o # WS_OPCODE_BINARY /\ IsControl(o)
                     /\ SubSeq(Behind, 1, Len(m)) = m
                     /\ InPlace(0, Dropped(Behind, Len(m)), due)
<1>1. InPlace(0, toClient, due)
  BY DEF WebInv, Reader
<1>0. PICK o \in Opcodes, m \in Messages : Within(toClient, due, o, m)
  BY <1>1, InPlaceBegins
<1>2. /\ toClient[1] % WS_FIN = o
      /\ Lengths(toClient).len = Len(m) /\ Len(m) \in Nat
      /\ \/ /\ o = WS_OPCODE_BINARY
            /\ InPlace(Len(m), Behind, due)
         \/ /\ o # WS_OPCODE_BINARY
            /\ SubSeq(Behind, 1, Len(m)) = m
            /\ InPlace(0, Dropped(Behind, Len(m)), due)
  BY <1>0 DEF Within, Behind
<1>3. Begun \in FrameStates /\ Begun.opcode = o
  BY <1>2, FirstByte DEF Begun, FrameStates
<1>4. Begun.payload_len = Len(m) /\ Begun.bytes_remaining = Len(m)
  BY <1>2 DEF Begun
<1>5. (o = WS_OPCODE_BINARY /\ ~IsControl(o)) \/ (o # WS_OPCODE_BINARY /\ IsControl(o))
  BY DEF Opcodes, IsControl, WS_OPCODE_BINARY, WS_OPCODE_CLOSE, WS_OPCODE_PING, WS_OPCODE_PONG
<1> QED
  BY <1>2, <1>3, <1>4, <1>5

\* A read within a payload.
LEMMA PayloadKeeps ==
    ASSUME WebInv, conn = "open", ~misframed, ws' = ws,
           NEW f \in FrameStates, NEW bytes, InPlace(f.bytes_remaining, bytes, due),
           ReadPayload(f, bytes)
    PROVE  WebInv'
<1> DEFINE r == f.bytes_remaining
<1>1. r \in Nat
  BY DEF FrameStates
<1>2. FramesRight'
  BY DEF ReadPayload, NothingWritten, FramesRight
<1>3. ASSUME NEW n \in 1 .. (IF f.bytes_remaining > AppLen THEN AppLen ELSE f.bytes_remaining),
             toClient' = Dropped(bytes, n), received' = SubSeq(bytes, 1, n),
             wanted' = SubSeq(due, 1, n), due' = Dropped(due, n),
             frame_state' = [f EXCEPT !.bytes_remaining = f.bytes_remaining - n],
             UNCHANGED <<conn, misframed>>
      PROVE  WebInv'
  <2>1. n \in 1..r
    BY <1>1, <1>3, WebSocketAssumption
  <2>2. /\ SubSeq(bytes, 1, n) = SubSeq(due, 1, n)
        /\ InPlace(r - n, Dropped(bytes, n), Dropped(due, n))
    BY <1>1, <2>1, InPlaceRead
  <2>3. r - n \in Nat
    BY <1>1, <2>1
  <2>4. frame_state' \in FrameStates /\ frame_state'.bytes_remaining = r - n
    BY <1>3, <2>3 DEF FrameStates
  <2>5. received' = wanted'
    BY <1>3, <2>2
  <2>6. InPlace(frame_state.bytes_remaining, toClient, due)'
    BY <1>3, <2>2, <2>4 DEF InPlace
  <2>7. conn' = "open" /\ misframed' = FALSE /\ ws'
    BY <1>3 DEF WebInv
  <2> QED
    BY <1>2, <2>4, <2>5, <2>6, <2>7 DEF WebInv, Reader
<1>4. ASSUME Lost, NothingRead, conn' \in {conn, "failed"},
             frame_state' = [f EXCEPT !.bytes_remaining = 0]
      PROVE  WebInv'
  <2>1. frame_state' \in FrameStates
    BY <1>4 DEF FrameStates
  <2>2. ws'
    BY DEF WebInv
  <2> QED
    BY <1>2, <1>4, <2>1, <2>2 DEF WebInv, Reader, Lost, NothingRead
<1> QED
  BY <1>3, <1>4 DEF ReadPayload

\* Reads: of nothing, in a payload, of a frame with data, or of one the transport answers.
LEMMA ReadKeeps == WebInv /\ WsRead => WebInv'
<1> SUFFICES ASSUME WebInv, WsRead PROVE WebInv'
  OBVIOUS
<1>0. /\ conn = "open" /\ frame_state \in FrameStates
      /\ ~misframed => InPlace(frame_state.bytes_remaining, toClient, due)
      /\ misframed => toClient = <<>> /\ due = <<>>
      /\ misframed \in BOOLEAN /\ ws /\ ws' = ws
  BY DEF WebInv, WsRead, Reader
<1>1. CASE ~misframed /\ ReadNothing
  <2>1. frame_state' \in FrameStates /\ frame_state'.bytes_remaining = frame_state.bytes_remaining
    BY <1>0, <1>1 DEF ReadNothing, FrameStates
  <2>2. /\ conn' \in {"open", "failed"} /\ toClient' = toClient /\ due' = due
        /\ misframed' = misframed /\ written' = <<>> /\ received' = <<>> /\ wanted' = <<>>
    BY <1>0, <1>1 DEF ReadNothing, Quiet, NothingWritten, NothingRead
  <2>3. InPlace(frame_state.bytes_remaining, toClient, due)'
    BY <1>0, <1>1, <2>1, <2>2 DEF InPlace
  <2> QED
    BY <1>0, <2>1, <2>2, <2>3 DEF WebInv, Reader, FramesRight
<1>2. CASE ~misframed /\ ReadOn
  BY <1>0, <1>2, PayloadKeeps DEF ReadOn
<1>3. CASE ~misframed /\ ReadData
  <2>1. frame_state.bytes_remaining = 0 /\ toClient # <<>> /\ ~IsControl(Begun.opcode)
    BY <1>3 DEF ReadData
  <2>2. Begun \in FrameStates /\ InPlace(Begun.bytes_remaining, Behind, due)
    <3>1. PICK o \in Opcodes, m \in Messages :
              /\ Begun \in FrameStates /\ Begun.opcode = o
              /\ Begun.payload_len = Len(m) /\ Begun.bytes_remaining = Len(m)
              /\ \/ /\ o = WS_OPCODE_BINARY /\ ~IsControl(o)
                    /\ InPlace(Len(m), Behind, due)
                 \/ /\ o # WS_OPCODE_BINARY /\ IsControl(o)
                    /\ SubSeq(Behind, 1, Len(m)) = m
                    /\ InPlace(0, Dropped(Behind, Len(m)), due)
      BY <1>0, <1>3, <2>1, BegunType
    <3> QED
      BY <2>1, <3>1
  <2>3. CASE ReadPayload(Begun, Behind)
    BY <1>0, <1>3, <2>2, <2>3, PayloadKeeps
  <2>4. CASE /\ frame_state' = Begun /\ toClient' = Behind
             /\ Quiet /\ UNCHANGED <<conn, due, misframed>>
    <3>1. InPlace(frame_state.bytes_remaining, toClient, due)'
      BY <2>2, <2>4 DEF InPlace
    <3> QED
      BY <1>0, <1>3, <2>2, <2>4, <3>1
         DEF WebInv, Reader, FramesRight, Quiet, NothingWritten, NothingRead
  <2> QED
    BY <1>3, <2>3, <2>4 DEF ReadData
<1>4. CASE ~misframed /\ ReadControl
  <2>1. frame_state.bytes_remaining = 0 /\ toClient # <<>> /\ IsControl(Begun.opcode)
    BY <1>4 DEF ReadControl
  <2>2. PICK m \in Messages :
            /\ Begun \in FrameStates /\ Begun.payload_len = Len(m) /\ Len(m) \in Nat
            /\ SubSeq(Behind, 1, Begun.payload_len) = m
            /\ InPlace(0, Dropped(Behind, Begun.payload_len), due)
    <3>1. PICK o \in Opcodes, m \in Messages :
              /\ Begun \in FrameStates /\ Begun.opcode = o
              /\ Begun.payload_len = Len(m) /\ Begun.bytes_remaining = Len(m)
              /\ \/ /\ o = WS_OPCODE_BINARY /\ ~IsControl(o)
                    /\ InPlace(Len(m), Behind, due)
                 \/ /\ o # WS_OPCODE_BINARY /\ IsControl(o)
                    /\ SubSeq(Behind, 1, Len(m)) = m
                    /\ InPlace(0, Dropped(Behind, Len(m)), due)
      BY <1>0, <1>4, <2>1, BegunType
    <3> QED
      BY <2>1, <3>1, MessageTypes DEF Carried
  <2>3. received' = wanted'
    BY <1>4 DEF ReadControl, NothingRead
  <2>4. CASE ControlLost
    <3>1. frame_state' \in FrameStates
      <4>1. PICK left \in 1 .. Begun.payload_len :
                frame_state' = [Begun EXCEPT !.bytes_remaining = left]
        BY <2>4 DEF ControlLost
      <4>2. left \in Nat
        BY <2>2
      <4> QED
        BY <2>2, <4>1, <4>2 DEF FrameStates
    <3>2. /\ conn' = "failed" /\ misframed' = TRUE /\ toClient' = <<>> /\ due' = <<>>
          /\ written' = <<>>
      BY <2>4 DEF ControlLost, Lost, Fails, NothingWritten
    <3> QED
      BY <1>0, <2>3, <3>1, <3>2 DEF WebInv, Reader, FramesRight
  <2>5. CASE ControlHandled
    <3> DEFINE read == [Begun EXCEPT !.bytes_remaining = 0]
               handled == [read EXCEPT !.header_received = FALSE]
    <3>1. /\ read \in FrameStates /\ read.bytes_remaining = 0
          /\ handled \in FrameStates /\ handled.bytes_remaining = 0
      BY <2>2 DEF FrameStates
    <3> HIDE DEF read, handled
    <3>2. /\ toClient' = Dropped(Behind, Begun.payload_len)
          /\ due' = due /\ misframed' = misframed
          /\ frame_state' \in {read, handled}
          /\ conn' \in {"open", "failed"}
          /\ \/ NothingWritten
             \/ Written(WS_OPCODE_PONG, m)
             \/ Written(WS_OPCODE_CLOSE, <<>>)
      BY <1>0, <2>2, <2>5 DEF ControlHandled, Fails, read, handled
    <3>3. InPlace(frame_state.bytes_remaining, toClient, due)'
      BY <2>2, <3>1, <3>2 DEF InPlace
    <3>4. FramesRight'
      <4>1. CASE NothingWritten
        BY <4>1 DEF NothingWritten, FramesRight
      <4>2. CASE Written(WS_OPCODE_PONG, m)
        <5>1. WS_OPCODE_PONG \in Opcodes
          BY DEF Opcodes
        <5> QED
          BY <4>2, <5>1, ServerFinds DEF Written, FramesRight, Carried
      <4>3. CASE Written(WS_OPCODE_CLOSE, <<>>)
        <5>1. WS_OPCODE_CLOSE \in Opcodes
          BY DEF Opcodes
        <5> QED
          BY <4>3, <5>1, ServerFinds DEF Written, FramesRight, Carried
      <4> QED
        BY <3>2, <4>1, <4>2, <4>3
    <3>5. misframed' = FALSE
      BY <1>0, <1>4, <3>2
    <3> QED
      BY <1>0, <2>3, <3>1, <3>2, <3>3, <3>4, <3>5 DEF WebInv, Reader
  <2> QED
    BY <1>4, <2>4, <2>5 DEF ReadControl
<1>5. CASE misframed /\ ReadLost
  <2>1. PICK left \in {0, 1} :
            frame_state' = [NoFrame EXCEPT !.bytes_remaining = left, !.payload_len = left]
    BY <1>5 DEF ReadLost
  <2>2. frame_state' \in FrameStates
    <3>1. frame_state' = [opcode |-> 0, payload_len |-> left, bytes_remaining |-> left,
                          header_received |-> FALSE]
      BY <2>1 DEF NoFrame
    <3> QED
      BY <3>1 DEF FrameStates
  <2> QED
    BY <1>0, <1>5, <2>2
       DEF ReadLost, WebInv, Reader, FramesRight, Quiet, NothingWritten, NothingRead
<1> QED
  BY <1>1, <1>2, <1>3, <1>4, <1>5 DEF WsRead

\* Writes: of a whole frame, or of less, which ends the connection.
LEMMA WriteKeeps ==
    ASSUME WebInv, NEW m \in Messages, WsWrite(m)
    PROVE  WebInv'
<1>1. /\ conn = "open" /\ conn' \in {"open", "failed"}
      /\ UNCHANGED <<ws, frame_state, toClient, due, misframed>> /\ received' = wanted'
  BY DEF WsWrite, Fails, NothingRead
<1>2. FramesRight'
  <2>1. CASE written' = <<>>
    BY <2>1 DEF FramesRight
  <2>2. ASSUME NEW o \in Opcodes, Written(o, m)
        PROVE  FramesRight'
    BY <2>2, ServerFinds DEF Written, FramesRight, Carried
  <2>3. WS_OPCODE_PING \in Opcodes /\ WS_OPCODE_BINARY \in Opcodes
    BY DEF Opcodes
  <2>4. \/ written' = <<>>
        \/ Written(WS_OPCODE_PING, m)
        \/ Written(WS_OPCODE_BINARY, m)
    <3>1. \/ Written(IF m = <<>> THEN WS_OPCODE_PING ELSE WS_OPCODE_BINARY, m)
          \/ NothingWritten
      BY DEF WsWrite
    <3>2. CASE m = <<>>
      BY <3>1, <3>2 DEF NothingWritten
    <3>3. CASE m # <<>>
      BY <3>1, <3>3 DEF NothingWritten
    <3> QED
      BY <3>2, <3>3
  <2> QED
    BY <2>1, <2>2, <2>3, <2>4
<1>3. InPlace(frame_state.bytes_remaining, toClient, due)'
          <=> InPlace(frame_state.bytes_remaining, toClient, due)
  BY <1>1 DEF InPlace
<1> QED
  BY <1>1, <1>2, <1>3 DEF WebInv, Reader

\* The server sends another frame.
LEMMA SendKeeps == WebInv /\ ServerSends => WebInv'
<1> SUFFICES ASSUME WebInv, ServerSends PROVE WebInv'
  OBVIOUS
<1>1. PICK g \in Frames : toClient' = toClient \o g[1] /\ due' = due \o g[2]
  <2>1. CASE \E m \in Messages :
                 /\ toClient' = toClient \o ServerFrame(WS_OPCODE_BINARY, m)
                 /\ due' = due \o m
    <3>1. PICK m \in Messages : /\ toClient' = toClient \o ServerFrame(WS_OPCODE_BINARY, m)
                                /\ due' = due \o m
      BY <2>1
    <3> DEFINE g == <<ServerFrame(WS_OPCODE_BINARY, m), m>>
    <3>2. g \in Frames
      BY DEF Frames
    <3> QED
      BY <3>1, <3>2
  <2>2. CASE \E o \in Controls, m \in Short :
                 /\ toClient' = toClient \o ServerFrame(o, m)
                 /\ due' = due
    <3>1. PICK o \in Controls, m \in Short : /\ toClient' = toClient \o ServerFrame(o, m)
                                             /\ due' = due
      BY <2>2
    <3> DEFINE g == <<ServerFrame(o, m), <<>>>>
    <3>2. g \in Frames
      BY DEF Frames
    <3>3. due \o <<>> = due
      <4>1. frame_state.bytes_remaining \in Nat
            /\ InPlace(frame_state.bytes_remaining, toClient, due)
        BY DEF WebInv, Reader, ServerSends, FrameStates
      <4>2. PICK p \in Seq(Nat), q \in Wire :
                Parts(p, q, frame_state.bytes_remaining, toClient, due)
        BY <4>1, InPlaceParts
      <4>3. due \in Seq(Nat)
        <5>1. q[2] \in Seq(Nat) /\ due = p \o q[2]
          BY <4>2 DEF Parts
        <5> QED
          BY <5>1, ConcatProperties
      <4> QED
        BY <4>3, ConcatEmptySeq
    <3> QED
      BY <3>1, <3>2, <3>3
  <2> QED
    BY <2>1, <2>2 DEF ServerSends, Controls, Short
<1>2. /\ conn = "open" /\ conn' = conn /\ misframed = FALSE /\ misframed' = misframed
      /\ frame_state' = frame_state /\ written' = <<>> /\ received' = wanted' /\ ws' = ws
  BY DEF ServerSends, WebInv, Quiet, NothingWritten, NothingRead
<1>3. InPlace(frame_state.bytes_remaining, toClient, due)'
  <2>1. frame_state.bytes_remaining \in Nat
        /\ InPlace(frame_state.bytes_remaining, toClient, due)
    BY <1>2 DEF WebInv, Reader, FrameStates
  <2>2. InPlace(frame_state.bytes_remaining, toClient \o g[1], due \o g[2])
    BY <2>1, InPlaceGrows
  <2> QED
    BY <1>1, <1>2, <2>2 DEF InPlace
<1> QED
  BY <1>2, <1>3 DEF WebInv, Reader, FramesRight

\* The calls that neither read nor write.
LEMMA CallKeeps ==
    ASSUME WebInv,
           \/ WsInit \/ WsDestroy \/ WsConnect \/ WsClose \/ GetPayloadTransport
           \/ \E f \in Fields : SetField(f)
           \/ \E m \in Messages : Forget(m)
    PROVE  WebInv'
<1>0. Quiet => FramesRight' /\ received' = wanted'
  BY DEF Quiet, NothingWritten, NothingRead, FramesRight
<1>1. CASE \/ WsInit \/ WsDestroy \/ GetPayloadTransport
           \/ \E f \in Fields : SetField(f)
  <2>1. /\ Quiet /\ UNCHANGED <<conn, toClient, due, misframed>>
        /\ conn = "closed"
        /\ frame_state' \in {frame_state, NoFrame, [frame_state EXCEPT !.bytes_remaining = 0]}
    BY <1>1 DEF WsInit, WsDestroy, GetPayloadTransport, SetField, WebInv
  <2>2. frame_state' \in FrameStates
    <3>1. NoFrame \in FrameStates
      BY DEF NoFrame, FrameStates
    <3>2. [frame_state EXCEPT !.bytes_remaining = 0] \in FrameStates
      BY DEF WebInv, FrameStates
    <3> QED
      BY <2>1, <3>1, <3>2 DEF WebInv
  <2> QED
    BY <1>0, <2>1, <2>2 DEF WebInv, Reader
<1>2. CASE WsConnect
  <2>1. /\ Quiet /\ conn = "closed" /\ conn' \in {"open", "failed"}
        /\ misframed' = (frame_state.bytes_remaining > 0)
        /\ UNCHANGED <<frame_state, toClient, due>> /\ ws'
    BY <1>2 DEF WsConnect
  <2>2. toClient' = <<>> /\ due' = <<>>
    BY <2>1 DEF WebInv, Reader
  <2>3. ~misframed' => frame_state'.bytes_remaining = 0
    <3>1. frame_state.bytes_remaining \in Nat /\ frame_state' = frame_state
      BY <2>1 DEF WebInv, FrameStates
    <3>2. frame_state.bytes_remaining # 0 => (frame_state.bytes_remaining > 0) = TRUE
      BY <3>1
    <3> QED
      BY <2>1, <3>1, <3>2, Zenon
  <2>4. ~misframed' => InPlace(frame_state.bytes_remaining, toClient, due)'
    BY <2>2, <2>3, InPlaceStarts DEF InPlace
  <2> QED
    BY <1>0, <2>1, <2>2, <2>4 DEF WebInv, Reader
<1>3. CASE WsClose
  BY <1>0, <1>3 DEF WsClose, WebInv, Reader
<1>4. CASE \E m \in Messages : Forget(m)
  <2>1. Quiet /\ UNCHANGED <<ws, conn, frame_state, toClient, due, misframed>>
    BY <1>4 DEF Forget
  <2>2. InPlace(frame_state.bytes_remaining, toClient, due)'
            <=> InPlace(frame_state.bytes_remaining, toClient, due)
    BY <2>1 DEF InPlace
  <2> QED
    BY <1>0, <2>1, <2>2 DEF WebInv, Reader
<1> QED
  BY <1>1, <1>2, <1>3, <1>4

\* No step of the transport or the server loses the place of a reader that has it.
LEMMA WebSteps == WebInv /\ [WebSocketNext]_wsVars => WebInv'
<1> SUFFICES ASSUME WebInv, [WebSocketNext]_wsVars PROVE WebInv'
  OBVIOUS
<1>1. CASE UNCHANGED wsVars
  <2>1. InPlace(frame_state.bytes_remaining, toClient, due)'
            <=> InPlace(frame_state.bytes_remaining, toClient, due)
    BY <1>1 DEF InPlace, wsVars
  <2>2. FramesRight' <=> FramesRight
    BY <1>1 DEF FramesRight, wsVars
  <2> QED
    BY <1>1, <2>1, <2>2 DEF WebInv, Reader, wsVars
<1>2. CASE WebSocketNext
  BY <1>2, ReadKeeps, SendKeeps, CallKeeps, WriteKeeps DEF WebSocketNext
<1> QED
  BY <1>1, <1>2

\* A reader in place has given its user all that was due.
LEMMA WebInvSound == WebInv => WebSocketSound
<1> SUFFICES ASSUME WebInv PROVE WebSocketSound
  OBVIOUS
<1>1. ASSUME toClient = <<>>
      PROVE  due = <<>>
  <2>1. CASE conn = "closed" \/ misframed
    BY <2>1 DEF WebInv, Reader
  <2>2. CASE conn # "closed" /\ ~misframed
    <3>1. /\ frame_state.bytes_remaining \in Nat
          /\ InPlace(frame_state.bytes_remaining, toClient, due)
      BY <2>2 DEF WebInv, Reader, FrameStates
    <3> QED
      BY <1>1, <3>1, InPlaceEmpty
  <2> QED
    BY <2>1, <2>2
<1> QED
  BY <1>1 DEF WebInv, WebSocketSound, BytesInOrder

-----------------------------------------------------------------------------
(* The three, as they are composed. *)

\* A step of the composition is a step of one of them.
LEMMA ComposedStep ==
    [ConnectionNext]_allVars
        => [Next]_vars /\ [TransportNext]_transportVars /\ [WebSocketNext]_wsVars
BY DEF ConnectionNext, InPlan, InSockets, InWeb, allVars

\* Web sockets: the user of the transport gets the bytes of the data frames in order and
\* complete, and the server finds in each frame what was asked for.
THEOREM WebSocketCorrect == ConnectionSpec => []WebSocketSound
<1>1. ConnectionInit => WebInv
  BY WebStarts DEF ConnectionInit
<1>2. WebInv /\ [ConnectionNext]_allVars => WebInv'
  BY WebSteps, ComposedStep
<1> QED BY <1>1, <1>2, WebInvSound, PTL DEF ConnectionSpec

\* While the parts take turns the credentials are those of one activation, the sockets and
\* TLS objects are owned, and the frames are right.
THEOREM ConnectionSafe ==
    ConnectionSpec =>
        [](TypeOK /\ FilesOfOneIssue /\ ClientOfOneIssue /\ TransportSound /\ WebSocketSound)
<1>1. ConnectionSpec => []IInv
  BY InitIInv, StepIInv, ComposedStep, PTL DEF ConnectionSpec, ConnectionInit
<1>2. ConnectionSpec => []TransportInv
  BY StartsSound, StepsSound, ComposedStep, PTL DEF ConnectionSpec, ConnectionInit
<1>3. IInv => TypeOK /\ FilesOfOneIssue /\ ClientOfOneIssue
  BY InvFiles, InvClient DEF IInv
<1> QED BY <1>1, <1>2, <1>3, InvSound, WebSocketCorrect, PTL
=============================================================================
