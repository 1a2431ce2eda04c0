--------------------------- MODULE MqttClientProofs ---------------------------
(***************************************************************************)
(* The MQTT client, for any number of messages, ids, items and packets:     *)
(* its types, that every item of the outbox is counted, that a destroyed    *)
(* client is not used, and that it implements Delivery.                     *)
(*                                                                         *)
(* The count and the types are inductive together (StoreKept); destroying   *)
(* needs that STOPPED_BIT goes with a task that has ended (Ended).  For     *)
(* Delivery, an acknowledgement must be about the message of the item it    *)
(* takes: ids in use are apart, a new one is fresh (FreshIdFree), and all   *)
(* packets under way agree with the outbox (Consistent).                    *)
(***************************************************************************)
EXTENDS MCMqttClient, FiniteSetTheorems, SequenceTheorems, TLAPS

-----------------------------------------------------------------------------
(* Places of a finite set of numbers in their ascending order.             *)

\* The positions 1..n are finite, n of them.
LEMMA UpToFinite ==
    ASSUME NEW n \in Nat
    PROVE  IsFiniteSet(1..n) /\ Cardinality(1..n) = n
  BY FS_Interval

\* A place is one of those the set has.
LEMMA RankType ==
    ASSUME NEW S \in SUBSET Nat, IsFiniteSet(S), NEW k \in S
    PROVE  Rank(S, k) \in 1..Cardinality(S)
<1> DEFINE T == {j \in S : j <= k}
<1>1. IsFiniteSet(T) /\ Cardinality(T) <= Cardinality(S)
  BY FS_Subset, T \in SUBSET S
<1>2. k \in T
  BY k \in Nat
<1>3. Cardinality(T) # 0
  BY <1>1, <1>2, FS_EmptySet
<1> QED
  BY <1>1, <1>3, FS_CardinalityType DEF Rank

\* A greater member has a later place.
LEMMA RankGrows ==
    ASSUME NEW S \in SUBSET Nat, IsFiniteSet(S), NEW j \in S, NEW k \in S, j < k
    PROVE  Rank(S, j) < Rank(S, k)
<1> DEFINE A == {i \in S : i <= j}
           B == {i \in S : i <= k}
<1>1. IsFiniteSet(B)
  BY FS_Subset, B \in SUBSET S
<1>2. A \in SUBSET B
  <2>1. ASSUME NEW i \in S, i <= j
        PROVE  i <= k
    BY <2>1
  <2> QED
    BY <2>1
<1>3. k \in B /\ k \notin A
  BY k \in Nat, j \in Nat
<1>4. IsFiniteSet(A) /\ Cardinality(A) <= Cardinality(B) /\ Cardinality(A) # Cardinality(B)
  BY <1>1, <1>2, <1>3, FS_Subset
<1> QED
  BY <1>1, <1>4, FS_CardinalityType DEF Rank

\* Every place is taken.
LEMMA RankOnto ==
    ASSUME NEW S \in SUBSET Nat, IsFiniteSet(S), NEW n \in 1..Cardinality(S)
    PROVE  \E k \in S : Rank(S, k) = n
<1> DEFINE N == Cardinality(S)
           f == [k \in S |-> Rank(S, k)]
<1>1. N \in Nat
  BY FS_CardinalityType
<1>2. IsFiniteSet(1..N) /\ Cardinality(1..N) = N
  BY <1>1, UpToFinite
<1>3. f \in [S -> 1..N]
  BY RankType
<1>4. ASSUME NEW j \in S, NEW k \in S, f[j] = f[k]
      PROVE  j = k
  <2>1. Rank(S, j) = Rank(S, k)
    BY <1>4
  <2>2. ~(j < k) /\ ~(k < j)
    BY <2>1, <1>1, RankGrows, RankType
  <2> QED
    BY <2>2
<1>5. f \in Injection(S, 1..N)
  BY <1>3, <1>4 DEF Injection, IsInjective
<1>6. f \in Surjection(S, 1..N)
  BY <1>2, <1>5, FS_Injection
<1> QED
  BY <1>6 DEF Surjection

\* First returns the least position.
LEMMA FirstLeast ==
    ASSUME NEW S \in SUBSET Nat, IsFiniteSet(S), S # {}
    PROVE  First(S) \in S /\ \A j \in S : First(S) <= j
<1>1. Cardinality(S) \in Nat \ {0}
  BY FS_CardinalityType, FS_EmptySet
<1>2. PICK k \in S : Rank(S, k) = 1
  BY <1>1, RankOnto
<1>3. ASSUME NEW j \in S
      PROVE  k <= j
  <2>1. Rank(S, j) \in Nat /\ Rank(S, j) >= 1
    BY RankType, <1>1
  <2>2. ~(j < k)
    BY <2>1, <1>2, RankGrows
  <2> QED
    BY <2>2
<1> QED
  BY <1>2, <1>3 DEF First

\* A set of positions of a sequence is finite and has no more members than the
\* sequence has elements.
LEMMA PositionsFinite ==
    ASSUME NEW T, NEW items \in Seq(T), NEW S \in SUBSET DOMAIN items
    PROVE  /\ S \in SUBSET Nat /\ IsFiniteSet(S)
           /\ Cardinality(S) \in Nat /\ Cardinality(S) <= Len(items)
           /\ DOMAIN items = 1..Len(items) /\ Len(items) \in Nat
<1>1. DOMAIN items = 1..Len(items) /\ Len(items) \in Nat
  BY LenProperties
<1>2. IsFiniteSet(1..Len(items)) /\ Cardinality(1..Len(items)) = Len(items)
  BY <1>1, UpToFinite
<1>3. S \in SUBSET Nat
  BY <1>1
<1> QED
  BY <1>1, <1>2, <1>3, FS_Subset, FS_CardinalityType

\* What Only returns: items at distinct positions.
LEMMA OnlyChooses ==
    ASSUME NEW T, NEW items \in Seq(T), NEW S \in SUBSET DOMAIN items
    PROVE  /\ Only(items, S) \in Seq(T)
           /\ Len(Only(items, S)) = Cardinality(S)
           /\ Len(Only(items, S)) <= Len(items)
           /\ \E f \in [1..Cardinality(S) -> S] :
                 /\ \A n \in 1..Cardinality(S) : Only(items, S)[n] = items[f[n]]
                 /\ \A m, n \in 1..Cardinality(S) : f[m] = f[n] => m = n
<1> DEFINE N == Cardinality(S)
           f == [n \in 1..N |-> CHOOSE k \in S : Rank(S, k) = n]
<1>1. /\ S \in SUBSET Nat /\ IsFiniteSet(S) /\ N \in Nat /\ N <= Len(items)
      /\ DOMAIN items = 1..Len(items) /\ Len(items) \in Nat
  BY PositionsFinite
<1>2. ASSUME NEW n \in 1..N
      PROVE  f[n] \in S /\ Rank(S, f[n]) = n
  BY <1>1, RankOnto
<1>3. f \in [1..N -> S]
  BY <1>2
<1>4. \A m, n \in 1..N : f[m] = f[n] => m = n
  BY <1>2
<1>5. Only(items, S) = [n \in 1..N |-> items[f[n]]]
  BY DEF Only
<1>6. ASSUME NEW n \in 1..N
      PROVE  items[f[n]] \in T
  BY <1>1, <1>2, ElementOfSeq
<1>7. Only(items, S) \in [1..N -> T]
  BY <1>5, <1>6
<1>8. Only(items, S) \in Seq(T) /\ Len(Only(items, S)) = N
  BY <1>1, <1>7, SeqDef, LenProperties
<1> HIDE DEF f
<1> QED
  BY <1>1, <1>3, <1>4, <1>5, <1>8

\* Deleting expired messages keeps items of the outbox, each once.
LEMMA UnexpiredChooses ==
    ASSUME NEW items \in Seq(Items)
    PROVE  /\ Unexpired(items) \in Seq(Items)
           /\ Len(Unexpired(items)) <= Len(items)
           /\ \E f \in [DOMAIN Unexpired(items) -> DOMAIN items] :
                 /\ \A n \in DOMAIN Unexpired(items) : Unexpired(items)[n] = items[f[n]]
                 /\ \A m, n \in DOMAIN Unexpired(items) : f[m] = f[n] => m = n
<1> DEFINE S == {k \in DOMAIN items : ~items[k].expired}
<1>1. S \in SUBSET DOMAIN items
  OBVIOUS
<1>2. Unexpired(items) = Only(items, S)
  BY DEF Unexpired
<1>3. DOMAIN Unexpired(items) = 1..Cardinality(S)
  BY <1>1, <1>2, OnlyChooses, LenProperties
<1> HIDE DEF S
<1>4. PICK f \in [1..Cardinality(S) -> S] :
         /\ \A n \in 1..Cardinality(S) : Only(items, S)[n] = items[f[n]]
         /\ \A m, n \in 1..Cardinality(S) : f[m] = f[n] => m = n
  BY <1>1, OnlyChooses
<1>5. f \in [1..Cardinality(S) -> DOMAIN items]
  BY <1>1, <1>4
<1>6. f \in [DOMAIN Unexpired(items) -> DOMAIN items]
  BY <1>3, <1>5
<1>7. \A n \in DOMAIN Unexpired(items) : Unexpired(items)[n] = items[f[n]]
  BY <1>2, <1>3, <1>4
<1>8. \A m, n \in DOMAIN Unexpired(items) : f[m] = f[n] => m = n
  BY <1>3, <1>4
<1>9. Unexpired(items) \in Seq(Items) /\ Len(Unexpired(items)) <= Len(items)
  BY <1>1, <1>2, OnlyChooses
<1> QED
  BY <1>6, <1>7, <1>8, <1>9

-----------------------------------------------------------------------------
(* A fresh message id exists.                                              *)

\* A sequence has no more ids than elements.
LEMMA IdsCounted ==
    ASSUME NEW T, NEW packets \in Seq(T), NEW n \in Nat, Len(packets) <= n
    PROVE  /\ IsFiniteSet(IdsIn(packets)) /\ Cardinality(IdsIn(packets)) \in Nat
           /\ Cardinality(IdsIn(packets)) <= n
<1> DEFINE S == {j \in DOMAIN packets : HasId(packets[j])}
           f == [k \in S |-> packets[k].id]
<1>1. /\ IsFiniteSet(S) /\ Cardinality(S) \in Nat /\ Cardinality(S) <= Len(packets)
      /\ Len(packets) \in Nat
  BY PositionsFinite, S \in SUBSET DOMAIN packets
<1>2. f \in Surjection(S, IdsIn(packets))
  BY DEF Surjection, IdsIn
<1>3. /\ IsFiniteSet(IdsIn(packets))
      /\ Cardinality(IdsIn(packets)) <= Cardinality(S)
  BY <1>1, <1>2, FS_Surjection
<1>4. Cardinality(IdsIn(packets)) \in Nat
  BY <1>3, FS_CardinalityType
<1> QED
  BY <1>1, <1>3, <1>4

\* Two sets have no more members together than apart.
LEMMA UnionCounted ==
    ASSUME NEW A, NEW B, NEW m \in Nat, NEW n \in Nat,
           IsFiniteSet(A), Cardinality(A) <= m, IsFiniteSet(B), Cardinality(B) <= n
    PROVE  IsFiniteSet(A \cup B) /\ Cardinality(A \cup B) <= m + n
<1>1. IsFiniteSet(A \cap B)
  BY FS_Subset, A \cap B \in SUBSET A
<1>2. /\ Cardinality(A) \in Nat /\ Cardinality(B) \in Nat
      /\ Cardinality(A \cap B) \in Nat
  BY <1>1, FS_CardinalityType
<1>3. /\ IsFiniteSet(A \cup B)
      /\ Cardinality(A \cup B) = Cardinality(A) + Cardinality(B) - Cardinality(A \cap B)
  BY FS_Union
<1> QED
  BY <1>2, <1>3

\* There is an id that no item of the outbox and no packet under way has, because
\* there are more ids than items and packets.
LEMMA FreshIdFree ==
    ASSUME TypeOK
    PROVE  FreshId \in Ids /\ FreshId \notin InUse
<1>1. MaxOutbox \in Nat /\ MaxWire \in Nat
  BY MqttClientAssumption
<1>2. IsFiniteSet(IdsIn(outbox)) /\ Cardinality(IdsIn(outbox)) <= MaxOutbox
  BY <1>1, IdsCounted DEF TypeOK
<1>3. IsFiniteSet(IdsIn(toBroker)) /\ Cardinality(IdsIn(toBroker)) <= MaxWire
  BY <1>1, IdsCounted DEF TypeOK
<1>4. IsFiniteSet(IdsIn(toClient)) /\ Cardinality(IdsIn(toClient)) <= MaxWire
  BY <1>1, IdsCounted DEF TypeOK
<1> DEFINE Out == IdsIn(outbox) \cup IdsIn(toBroker)
           n == MaxOutbox + MaxWire
<1>n. n \in Nat
  BY <1>1
<1>5. IsFiniteSet(Out) /\ Cardinality(Out) <= MaxOutbox + MaxWire
  BY <1>1, <1>2, <1>3, UnionCounted
<1>m. Cardinality(Out) <= n
  BY <1>5
<1> HIDE DEF Out, n
<1>6. /\ IsFiniteSet(Out \cup IdsIn(toClient))
      /\ Cardinality(Out \cup IdsIn(toClient)) <= n + MaxWire
  BY <1>1, <1>4, <1>5, <1>n, <1>m, UnionCounted
<1>7. InUse = Out \cup IdsIn(toClient)
  BY DEF InUse, Out
<1>8. ~(Ids \subseteq InUse)
  BY <1>1, <1>6, <1>7, FS_Subset, FS_CardinalityType, MqttClientAssumption DEF n
<1> QED
  BY <1>8 DEF FreshId

-----------------------------------------------------------------------------
(* What the outbox operations return.                                      *)

\* First, for positions of a sequence.
LEMMA FirstOf ==
    ASSUME NEW T, NEW items \in Seq(T), NEW S \in SUBSET DOMAIN items, S # {}
    PROVE  First(S) \in S /\ First(S) \in 1..Len(items) /\ \A j \in S : First(S) <= j
  BY PositionsFinite, FirstLeast

\* Marking an item as transmitted changes no id, no message and no order.
LEMMA SetTransmittedKeeps ==
    ASSUME NEW items \in Seq(Items), NEW id
    PROVE  /\ SetTransmitted(items, id) \in Seq(Items)
           /\ Len(SetTransmitted(items, id)) = Len(items)
           /\ DOMAIN SetTransmitted(items, id) = DOMAIN items
           /\ \A k \in DOMAIN items :
                 /\ SetTransmitted(items, id)[k].id = items[k].id
                 /\ SetTransmitted(items, id)[k].msg = items[k].msg
<1> DEFINE at == {k \in DOMAIN items : items[k].id = id}
           k == First(at)
           item == [items[k] EXCEPT !.pending = "TRANSMITTED", !.expired = FALSE]
<1>1. CASE at = {}
  BY <1>1 DEF SetTransmitted
<1>2. CASE at # {}
  <2>1. k \in 1..Len(items)
    BY <1>2, FirstOf, at \in SUBSET DOMAIN items
  <2>2. items[k] \in Items
    BY <2>1, ElementOfSeq
  <2> HIDE DEF k
  <2>3. item \in Items /\ item.id = items[k].id /\ item.msg = items[k].msg
    BY <2>2 DEF Items
  <2>4. SetTransmitted(items, id) = [items EXCEPT ![k] = item]
    BY <1>2, <2>1, <2>2 DEF SetTransmitted, k, Items
  <2> HIDE DEF item
  <2>5. /\ [items EXCEPT ![k] = item] \in Seq(Items)
        /\ Len([items EXCEPT ![k] = item]) = Len(items)
        /\ \A j \in 1..Len(items) :
              [items EXCEPT ![k] = item][j] = IF j = k THEN item ELSE items[j]
    BY <2>1, <2>3, ExceptSeq
  <2>6. DOMAIN items = 1..Len(items)
    BY LenProperties
  <2> QED
    BY <2>3, <2>4, <2>5, <2>6, LenProperties
<1> QED
  BY <1>1, <1>2

\* What is sent again is an item of the outbox.
LEMMA NextItemAt ==
    ASSUME NEW items \in Seq(Items), items # <<>>
    PROVE  NextItem(items) \in 1..Len(items)
<1> DEFINE queued == {k \in DOMAIN items : items[k].pending = "QUEUED"}
<1>1. Len(items) \in Nat \ {0}
  BY EmptySeq
<1>2. CASE queued # {}
  BY <1>2, FirstOf, queued \in SUBSET DOMAIN items DEF NextItem
<1>3. CASE queued = {}
  BY <1>1, <1>3 DEF NextItem
<1> QED
  BY <1>2, <1>3

\* Taking an acknowledged item away leaves the others, in their order.
LEMMA RemoveAtKeeps ==
    ASSUME NEW T, NEW items \in Seq(T), NEW k \in 1..Len(items)
    PROVE  /\ RemoveAt(items, k) \in Seq(T)
           /\ Len(RemoveAt(items, k)) = Len(items) - 1
           /\ \A n \in 1..Len(items) - 1 :
                 RemoveAt(items, k)[n] = items[IF n < k THEN n ELSE n + 1]
<1> DEFINE a == SubSeq(items, 1, k - 1)
           b == SubSeq(items, k + 1, Len(items))
<1>1. Len(items) \in Nat
  BY LenProperties
<1>2. a \in Seq(T) /\ Len(a) = k - 1 /\ \A n \in 1..k - 1 : a[n] = items[n]
  BY <1>1, SubSeqProperties, ElementOfSeq
<1>3. /\ b \in Seq(T) /\ Len(b) = Len(items) - k
      /\ \A n \in 1..Len(items) - k : b[n] = items[k + n]
  BY <1>1, SubSeqProperties, ElementOfSeq
<1>4. RemoveAt(items, k) = a \o b
  BY DEF RemoveAt
<1> HIDE DEF a, b
<1>5. /\ a \o b \in Seq(T) /\ Len(a \o b) = Len(a) + Len(b)
      /\ \A n \in 1..Len(a) + Len(b) :
            (a \o b)[n] = IF n <= Len(a) THEN a[n] ELSE b[n - Len(a)]
  BY <1>2, <1>3, ConcatProperties
<1>6. Len(a) + Len(b) = Len(items) - 1
  BY <1>1, <1>2, <1>3
<1>7. ASSUME NEW n \in 1..Len(items) - 1
      PROVE  RemoveAt(items, k)[n] = items[IF n < k THEN n ELSE n + 1]
  <2>1. CASE n < k
    BY <1>1, <1>2, <1>4, <1>5, <1>6, <2>1
  <2>2. CASE n >= k
    <3>1. RemoveAt(items, k)[n] = b[n - (k - 1)] /\ n - (k - 1) \in 1..Len(items) - k
      BY <1>1, <1>2, <1>4, <1>5, <1>6, <2>2
    <3>2. b[n - (k - 1)] = items[k + (n - (k - 1))] /\ k + (n - (k - 1)) = n + 1
      BY <1>1, <1>3, <3>1
    <3> QED
      BY <1>1, <2>2, <3>1, <3>2
  <2> QED
    BY <1>1, <2>1, <2>2
<1> QED
  BY <1>4, <1>5, <1>6, <1>7

-----------------------------------------------------------------------------
(* Type correctness.                                                       *)

Switches == run \in BOOLEAN /\ STOPPED_BIT \in BOOLEAN /\ wait_for_ping_resp \in BOOLEAN
         /\ pingDue \in BOOLEAN /\ connected \in BOOLEAN /\ mqtt_status \in BOOLEAN

\* Every step leaves Booleans in the Boolean variables.
LEMMA SwitchesKept == ASSUME Switches, [Next]_vars PROVE Switches'
<1> USE DEF Switches, vars, client, store, wire, callers, history, Abort, Close, Sent,
            Unlock
<1>1. CASE Task
  BY <1>1, Zenon DEF Task, WaitOver, ConnectOk, ConnectFails, Receive, ReceiveNothing,
     ReceiveFails, ReceiveAck, ReceivePingResp, ResendNothing, Resend, ResendFails,
     Keepalive, KeepaliveNotDue, KeepalivePing, KeepaliveFails, Poll, PollOk, PollFails,
     TaskCloses, TaskEnds
<1>2. ASSUME NEW m \in Messages, Publish(m)
      PROVE  Switches'
  BY <1>2, Zenon DEF Publish, PublishNoMemory, PublishSent, PublishFails, PublishOffline
<1>3. CASE Handler
  BY <1>3, Zenon DEF Handler, HandlerStop, HandlerStopped, HandlerStart, StopRequest
<1>4. CASE Destroy
  BY <1>4, Zenon DEF Destroy, SenderStop, SenderDestroy, StopRequest
<1>5. CASE Break \/ BrokerGets \/ Tick
  BY <1>5, Zenon DEF Break, BrokerGets, Tick
<1>6. CASE UNCHANGED vars
  BY <1>6, Zenon
<1> QED
  BY <1>1, <1>2, <1>3, <1>4, <1>5, <1>6 DEF Next

Store == /\ outbox \in Seq(Items) /\ Len(outbox) <= MaxOutbox
         /\ pending_msg_count \in 0..MaxCount
         /\ Len(outbox) <= pending_msg_count

\* A new item, and the packet made from it, are well formed.
LEMMA ItemType ==
    ASSUME NEW id \in Ids, NEW m \in Messages \cup {None}
    PROVE  /\ Item(id, m) \in Items /\ Item(id, m).id = id /\ Item(id, m).msg = m
           /\ Packet(Item(id, m)) \in Requests
  BY DEF Item, Items, Packet, TypeOf, Requests

\* Every step keeps the outbox within its limits and counted: an item that comes is
\* counted, and no more is taken from the count than items go.
LEMMA StoreKept == ASSUME TypeOK, PendingCovers, [Next]_vars PROVE Store'
<1> USE DEF vars, client, store, wire, callers, history, Abort, Close, Sent, Unlock
<1>1. Store /\ outbox \in Seq(Items) /\ Len(outbox) \in Nat
  BY LenProperties DEF TypeOK, PendingCovers, Store
<1>2. FreshId \in Ids
  BY FreshIdFree
<1>3. ASSUME UNCHANGED store PROVE Store'
  BY <1>1, <1>3 DEF Store
<1>4. /\ Unexpired(outbox) \in Seq(Items) /\ Len(Unexpired(outbox)) <= Len(outbox)
      /\ Len(Unexpired(outbox)) \in Nat
  BY <1>1, UnexpiredChooses, LenProperties
<1>5. CASE ConnectOk
  <2>1. CASE UNCHANGED outbox
    BY <1>1, <1>5, <2>1, MqttClientAssumption DEF Store, ConnectOk, More
  <2>2. CASE /\ Len(outbox) < MaxOutbox
             /\ outbox' = SetTransmitted(Append(outbox, Item(FreshId, None)), FreshId)
    <3>1. /\ Append(outbox, Item(FreshId, None)) \in Seq(Items)
          /\ Len(Append(outbox, Item(FreshId, None))) = Len(outbox) + 1
      BY <1>1, <1>2, ItemType, AppendProperties
    <3>2. outbox' \in Seq(Items) /\ Len(outbox') = Len(outbox) + 1
      BY <2>2, <3>1, SetTransmittedKeeps
    <3>3. pending_msg_count' = More
      BY <1>5 DEF ConnectOk
    <3> QED
      BY <1>1, <2>2, <3>2, <3>3, MqttClientAssumption DEF Store, More
  <2> QED
    BY <1>5, <2>1, <2>2 DEF ConnectOk
<1>6. CASE ReceiveAck
  <2> DEFINE items == AcknowledgedBy(Head(toClient))
  <2>1. CASE items = {}
    BY <1>3, <1>6, <2>1 DEF ReceiveAck
  <2>2. CASE items # {}
    <3>1. pending_msg_count > 0
      BY <2>2 DEF AcknowledgedBy
    <3>2. First(items) \in 1..Len(outbox)
      BY <1>1, <2>2, FirstOf, items \in SUBSET DOMAIN outbox DEF AcknowledgedBy
    <3>3. /\ outbox' = RemoveAt(outbox, First(items))
          /\ pending_msg_count' = pending_msg_count - 1
      BY <1>6, <2>2 DEF ReceiveAck
    <3>4. outbox' \in Seq(Items) /\ Len(outbox') = Len(outbox) - 1
      BY <1>1, <3>2, <3>3, RemoveAtKeeps
    <3> QED
      BY <1>1, <3>1, <3>3, <3>4, MqttClientAssumption DEF Store
  <2> QED
    BY <2>1, <2>2
<1>7. CASE ResendNothing \/ ResendFails
  <2>1. DeleteExpired(outbox)
    BY <1>7 DEF ResendNothing, ResendFails
  <2> QED
    BY <1>1, <1>4, <2>1, MqttClientAssumption DEF Store, DeleteExpired, Fewer
<1>8. CASE Resend
  <2> DEFINE items == Unexpired(outbox)
             k == NextItem(items)
             item == [items[k] EXCEPT !.pending = "TRANSMITTED"]
  <2>1. items # <<>> /\ Len(items) \in Nat \ {0} /\ DOMAIN items = 1..Len(items)
    BY <1>4, <1>8, EmptySeq, LenProperties DEF Resend
  <2>2. k \in 1..Len(items)
    BY <1>4, <2>1, NextItemAt
  <2>3. items[k] \in Items
    BY <1>4, <2>2, ElementOfSeq
  <2>4. /\ outbox' = [items EXCEPT ![k] = item]
        /\ pending_msg_count' = Fewer(Len(outbox) - Len(items))
    BY <1>8 DEF Resend
  <2> HIDE DEF items, k
  <2>5. item \in Items
    BY <2>3 DEF Items
  <2>6. outbox' \in Seq(Items) /\ Len(outbox') = Len(items)
    BY <1>4, <2>2, <2>4, <2>5, ExceptSeq DEF items
  <2> QED
    BY <1>1, <1>4, <2>4, <2>6, MqttClientAssumption DEF Store, Fewer, items
<1>9. CASE TaskEnds \/ SenderDestroy
  <2>1. outbox' = <<>> /\ UNCHANGED pending_msg_count
    BY <1>9 DEF TaskEnds, SenderDestroy
  <2> QED
    BY <1>1, <2>1, EmptySeq, MqttClientAssumption DEF Store
<1>10. ASSUME NEW m \in Messages, Publish(m)
       PROVE  Store'
  <2>1. Item(FreshId, m) \in Items
    BY <1>2, ItemType
  <2>2. CASE PublishNoMemory(m)
    BY <1>1, <2>2, MqttClientAssumption DEF PublishNoMemory, Store, More
  <2>3. CASE PublishSent(m)
    <3>1. /\ Append(outbox, Item(FreshId, m)) \in Seq(Items)
          /\ Len(Append(outbox, Item(FreshId, m))) = Len(outbox) + 1
      BY <1>1, <2>1, AppendProperties
    <3>2. /\ outbox' = SetTransmitted(Append(outbox, Item(FreshId, m)), FreshId)
          /\ Len(outbox) < MaxOutbox /\ pending_msg_count' = More
      BY <2>3 DEF PublishSent
    <3>3. outbox' \in Seq(Items) /\ Len(outbox') = Len(outbox) + 1
      BY <3>1, <3>2, SetTransmittedKeeps
    <3> QED
      BY <1>1, <3>2, <3>3, MqttClientAssumption DEF Store, More
  <2>4. CASE PublishFails(m)
    <3>1. /\ outbox' = Append(outbox, Item(FreshId, m))
          /\ Len(outbox) < MaxOutbox /\ pending_msg_count' = More
      BY <2>4 DEF PublishFails
    <3>2. outbox' \in Seq(Items) /\ Len(outbox') = Len(outbox) + 1
      BY <1>1, <2>1, <3>1, AppendProperties
    <3> QED
      BY <1>1, <3>1, <3>2, MqttClientAssumption DEF Store, More
  <2>5. CASE PublishOffline(m)
    <3> DEFINE deleted == Len(outbox) - Len(Unexpired(outbox))
    <3>1. /\ outbox' = Append(Unexpired(outbox), Item(FreshId, m))
          /\ Len(outbox) < MaxOutbox
          /\ pending_msg_count' = IF More < deleted THEN 0 ELSE More - deleted
      BY <2>5 DEF PublishOffline
    <3>2. outbox' \in Seq(Items) /\ Len(outbox') = Len(Unexpired(outbox)) + 1
      BY <1>4, <2>1, <3>1, AppendProperties
    <3> QED
      BY <1>1, <1>4, <3>1, <3>2, MqttClientAssumption DEF Store, More
  <2> QED
    BY <1>10, <2>2, <2>3, <2>4, <2>5 DEF Publish
<1>11. CASE Tick
  <2> DEFINE aged == [k \in 1..Len(outbox) |-> [outbox[k] EXCEPT !.expired = TRUE]]
  <2>1. outbox' = aged /\ UNCHANGED pending_msg_count
    BY <1>1, <1>11, LenProperties DEF Tick
  <2>2. ASSUME NEW k \in 1..Len(outbox)
        PROVE  [outbox[k] EXCEPT !.expired = TRUE] \in Items
    <3>1. outbox[k] \in Items
      BY <1>1, ElementOfSeq
    <3> QED
      BY <3>1 DEF Items
  <2>3. aged \in [1..Len(outbox) -> Items]
    BY <2>2
  <2>4. aged \in Seq(Items) /\ Len(aged) = Len(outbox)
    BY <1>1, <2>3, SeqDef, LenProperties
  <2> QED
    BY <1>1, <2>1, <2>4 DEF Store
<1>12. CASE WaitOver \/ ConnectFails \/ ReceiveNothing \/ ReceiveFails \/ ReceivePingResp
            \/ Keepalive \/ Poll \/ TaskCloses
  BY <1>3, <1>12 DEF WaitOver, ConnectFails, ReceiveNothing, ReceiveFails, ReceivePingResp,
     Keepalive, KeepaliveNotDue, KeepalivePing, KeepaliveFails, Poll, PollOk, PollFails,
     TaskCloses
<1>13. CASE Handler \/ SenderStop \/ Break \/ BrokerGets \/ UNCHANGED vars
  BY <1>3, <1>13 DEF Handler, HandlerStop, HandlerStopped, HandlerStart, SenderStop, Break,
     BrokerGets
<1> QED
  BY <1>5, <1>6, <1>7, <1>8, <1>9, <1>10, <1>11, <1>12, <1>13
     DEF Next, Task, Receive, Destroy

Wire == /\ toBroker \in Seq(ToBroker) /\ Len(toBroker) <= MaxWire
        /\ toClient \in Seq(ToClient) /\ Len(toClient) <= MaxWire

\* A closed connection holds nothing.
LEMMA ClosedWire == ASSUME Close PROVE Wire'
  BY EmptySeq, MqttClientAssumption DEF Close, Wire

\* A write leaves at most MaxWire packets.
LEMMA SentWire ==
    ASSUME Wire, NEW packet \in ToBroker, Sent(packet)
    PROVE  Wire'
<1>1. CASE connected
  <2>1. toBroker' = Append(toBroker, packet) /\ Len(toBroker) < MaxWire
    BY <1>1 DEF Sent
  <2>2. toBroker' \in Seq(ToBroker) /\ Len(toBroker') = Len(toBroker) + 1
    BY <2>1, AppendProperties DEF Wire
  <2> QED
    BY <2>1, <2>2, MqttClientAssumption, LenProperties DEF Sent, Wire
<1>2. CASE ~connected
  BY <1>2 DEF Sent, Wire
<1> QED
  BY <1>1, <1>2

\* Pings and disconnect messages are packets for the broker.
LEMMA SignalType ==
    ASSUME NEW t \in {"PINGREQ", "DISCONNECT"}
    PROVE  [type |-> t] \in ToBroker
  BY DEF ToBroker

\* The broker's answer has the id and the message of what it answers.
LEMMA AnswerType ==
    ASSUME NEW packet \in Requests
    PROVE  /\ [packet EXCEPT !.type = Acknowledges[@]] \in Answers
           /\ [packet EXCEPT !.type = Acknowledges[@]].id = packet.id
           /\ [packet EXCEPT !.type = Acknowledges[@]].msg = packet.msg
           /\ [packet EXCEPT !.type = Acknowledges[@]].type = "PUBACK"
                 <=> packet.type = "PUBLISH"
  BY DEF Requests, Answers, Acknowledges

\* What the broker reads is a request with an id, or a signal.
LEMMA HeadOfBroker ==
    ASSUME Wire, toBroker # <<>>
    PROVE  /\ Head(toBroker) \in ToBroker
           /\ Head(toBroker).type \in DOMAIN Acknowledges => Head(toBroker) \in Requests
           /\ Tail(toBroker) \in Seq(ToBroker) /\ Len(Tail(toBroker)) = Len(toBroker) - 1
           /\ \A n \in 1..Len(toBroker) - 1 : Tail(toBroker)[n] = toBroker[n + 1]
<1>1. Head(toBroker) \in ToBroker
  BY HeadTailProperties DEF Wire
<1> QED
  BY <1>1, HeadTailProperties DEF Wire, ToBroker, Acknowledges

\* Every step keeps packets of the right kind in each direction.
LEMMA WireKept == ASSUME TypeOK, [Next]_vars PROVE Wire'
<1> USE DEF vars, client, store, wire, callers, history
<1>1. /\ Wire /\ Len(toBroker) \in Nat /\ Len(toClient) \in Nat
      /\ MaxWire \in Nat \ {0}
  BY LenProperties, MqttClientAssumption DEF Wire, TypeOK
<1>2. FreshId \in Ids
  BY FreshIdFree
<1>3. ASSUME UNCHANGED wire PROVE Wire'
  BY <1>1, <1>3 DEF Wire
<1>4. CASE ConnectOk
  <2> DEFINE packet == Packet(Item(FreshId, None))
  <2>1. packet \in ToBroker
    BY <1>2, ItemType DEF ToBroker
  <2>2. toClient' = <<>> /\ (toBroker' = <<>> \/ toBroker' = <<packet>>)
    BY <1>4 DEF ConnectOk
  <2> HIDE DEF packet
  <2>3. CASE toBroker' = <<>>
    BY <1>1, <2>2, <2>3, EmptySeq DEF Wire
  <2>4. CASE toBroker' = <<packet>>
    <3>1. <<packet>> \in Seq(ToBroker) /\ Len(<<packet>>) = 1
      BY <2>1
    <3> QED
      BY <1>1, <2>2, <2>4, <3>1, EmptySeq DEF Wire
  <2> QED
    BY <2>2, <2>3, <2>4
<1>5. CASE ConnectFails \/ ReceiveFails \/ ResendFails \/ KeepaliveFails \/ PollFails
           \/ TaskCloses \/ Break
  <2>1. Close
    BY <1>5 DEF ConnectFails, ReceiveFails, ResendFails, KeepaliveFails, PollFails, TaskCloses,
       Break, Abort
  <2> QED
    BY <2>1, ClosedWire
<1>6. CASE ReceiveAck \/ ReceivePingResp
  <2>1. toClient # <<>> /\ toClient' = Tail(toClient) /\ UNCHANGED toBroker
    BY <1>6 DEF ReceiveAck, ReceivePingResp
  <2>2. toClient' \in Seq(ToClient) /\ Len(toClient') = Len(toClient) - 1
    BY <1>1, <2>1, HeadTailProperties DEF Wire
  <2>3. Len(toClient') <= MaxWire
    BY <1>1, <2>2 DEF Wire
  <2>4. toBroker' \in Seq(ToBroker) /\ Len(toBroker') <= MaxWire
    BY <1>1, <2>1 DEF Wire
  <2> QED
    BY <2>2, <2>3, <2>4 DEF Wire
<1>7. CASE Resend
  <2> DEFINE items == Unexpired(outbox)
             k == NextItem(items)
  <2>1. items # <<>> /\ Sent(Packet(items[k]))
    BY <1>7 DEF Resend
  <2>2. items \in Seq(Items) /\ k \in 1..Len(items)
    BY <2>1, UnexpiredChooses, NextItemAt DEF TypeOK
  <2>3. items[k] \in Items
    BY <2>2, ElementOfSeq
  <2>4. Packet(items[k]) \in ToBroker
    BY <2>3 DEF Packet, TypeOf, Items, ToBroker, Requests
  <2> QED
    BY <1>1, <2>1, <2>4, SentWire
<1>8. CASE KeepalivePing
  BY <1>1, <1>8, SignalType, SentWire DEF KeepalivePing
<1>9. CASE HandlerStop \/ SenderStop
  <2>1. UNCHANGED wire \/ Sent([type |-> "DISCONNECT"])
    BY <1>9 DEF HandlerStop, SenderStop, StopRequest
  <2> QED
    BY <1>1, <1>3, <2>1, SignalType, SentWire
<1>10. ASSUME NEW m \in Messages, Publish(m)
       PROVE  Wire'
  <2>1. Packet(Item(FreshId, m)) \in ToBroker
    BY <1>2, ItemType DEF ToBroker
  <2>2. UNCHANGED wire \/ Close \/ Sent(Packet(Item(FreshId, m)))
    BY <1>10 DEF Publish, PublishNoMemory, PublishSent, PublishFails, PublishOffline, Abort
  <2> QED
    BY <1>1, <1>3, <2>1, <2>2, ClosedWire, SentWire
<1>11. CASE BrokerGets
  <2> DEFINE packet == Head(toBroker)
  <2>1. toBroker # <<>> /\ toBroker' = Tail(toBroker)
    BY <1>11 DEF BrokerGets
  <2>2. toBroker' \in Seq(ToBroker) /\ Len(toBroker') <= MaxWire
    <3>1. toBroker' \in Seq(ToBroker) /\ Len(toBroker') = Len(toBroker) - 1
      BY <1>1, <2>1, HeadOfBroker
    <3> QED
      BY <1>1, <3>1 DEF Wire
  <2>3. \/ UNCHANGED toClient
        \/ \E answer \in ToClient :
              toClient' = Append(toClient, answer) /\ Len(toClient) < MaxWire
    <3>1. [type |-> "PINGRESP"] \in ToClient
      BY DEF ToClient
    <3>2. packet.type \in DOMAIN Acknowledges
             => [packet EXCEPT !.type = Acknowledges[@]] \in ToClient
      BY <1>1, <2>1, HeadOfBroker, AnswerType DEF ToClient
    <3>3. packet.type \in {"DISCONNECT", "PINGREQ"} \cup DOMAIN Acknowledges
      BY <1>1, <2>1, HeadOfBroker DEF ToBroker, Requests, Acknowledges
    <3> QED
      BY <1>11, <3>1, <3>2, <3>3 DEF BrokerGets
  <2>4. toClient \in Seq(ToClient) /\ Len(toClient) <= MaxWire
    BY <1>1 DEF Wire
  <2>5. ASSUME NEW answer \in ToClient, toClient' = Append(toClient, answer),
               Len(toClient) < MaxWire
        PROVE  toClient' \in Seq(ToClient) /\ Len(toClient') <= MaxWire
    <3>1. toClient' \in Seq(ToClient) /\ Len(toClient') = Len(toClient) + 1
      BY <2>4, <2>5, AppendProperties
    <3> QED
      BY <2>4, <2>5, <3>1, MqttClientAssumption
  <2>6. toClient' \in Seq(ToClient) /\ Len(toClient') <= MaxWire
    BY <2>3, <2>4, <2>5
  <2> QED
    BY <2>2, <2>6 DEF Wire
<1>12. CASE WaitOver \/ ReceiveNothing \/ ResendNothing \/ KeepaliveNotDue \/ PollOk
            \/ TaskEnds \/ HandlerStopped \/ HandlerStart \/ SenderDestroy \/ Tick
            \/ UNCHANGED vars
  BY <1>3, <1>12 DEF WaitOver, ReceiveNothing, ResendNothing, KeepaliveNotDue, PollOk,
     TaskEnds, HandlerStopped, HandlerStart, SenderDestroy, Tick
<1> QED
  BY <1>4, <1>5, <1>6, <1>7, <1>8, <1>9, <1>10, <1>11, <1>12
     DEF Next, Task, Receive, Keepalive, Poll, Handler, Destroy

Places == /\ state \in {"INIT", "DISCONNECTED", "CONNECTED", "WAIT_RECONNECT"}
          /\ task \in {"none", "loop", "resend", "keepalive", "poll", "ending"}
          /\ handler \in {"idle", "stopping", "stopped"}
          /\ sender \in {"idle", "stopping", "destroyed"}

\* The task has ended before anybody who waited for it goes on, and the two callers
\* that stop the client do not meet.
Ended == /\ STOPPED_BIT => task = "none"
         /\ sender # "idle" => handler = "idle"
         /\ sender = "destroyed" => task = "none"

\* Every step leaves the tasks at one of their places.
LEMMA PlacesKept == ASSUME Places, [Next]_vars PROVE Places'
<1> USE DEF Places, vars, client, callers, Abort, Unlock
<1>1. CASE Task
  BY <1>1 DEF Task, WaitOver, ConnectOk, ConnectFails, Receive, ReceiveNothing,
     ReceiveFails, ReceiveAck, ReceivePingResp, ResendNothing, Resend, ResendFails,
     Keepalive, KeepaliveNotDue, KeepalivePing, KeepaliveFails, Poll, PollOk, PollFails,
     TaskCloses, TaskEnds
<1>2. ASSUME NEW m \in Messages, Publish(m)
      PROVE  Places'
  BY <1>2 DEF Publish, PublishNoMemory, PublishSent, PublishFails, PublishOffline
<1>3. CASE Handler
  BY <1>3 DEF Handler, HandlerStop, HandlerStopped, HandlerStart, StopRequest
<1>4. CASE Destroy
  BY <1>4 DEF Destroy, SenderStop, SenderDestroy, StopRequest
<1>5. CASE Break \/ BrokerGets \/ Tick \/ UNCHANGED vars
  BY <1>5 DEF Break, BrokerGets, Tick
<1> QED
  BY <1>1, <1>2, <1>3, <1>4, <1>5 DEF Next

\* Every step preserves Ended.
LEMMA EndedKept == ASSUME Switches, Ended, [Next]_vars PROVE Ended'
<1> USE DEF Switches, Ended, vars, client, callers, Abort, Unlock
<1>1. CASE Task
  BY <1>1 DEF Task, WaitOver, ConnectOk, ConnectFails, Receive, ReceiveNothing,
     ReceiveFails, ReceiveAck, ReceivePingResp, ResendNothing, Resend, ResendFails,
     Keepalive, KeepaliveNotDue, KeepalivePing, KeepaliveFails, Poll, PollOk, PollFails,
     TaskCloses, TaskEnds
<1>2. ASSUME NEW m \in Messages, Publish(m)
      PROVE  Ended'
  BY <1>2 DEF Publish, PublishNoMemory, PublishSent, PublishFails, PublishOffline
<1>3. CASE Handler
  BY <1>3 DEF Handler, HandlerStop, HandlerStopped, HandlerStart, StopRequest, Callable
<1>4. CASE Destroy
  BY <1>4 DEF Destroy, SenderStop, SenderDestroy, StopRequest, Callable
<1>5. CASE Break \/ BrokerGets \/ Tick \/ UNCHANGED vars
  <2>1. UNCHANGED <<client, callers>>
    BY <1>5, Zenon DEF Break, BrokerGets, Tick
  <2> QED
    BY <2>1
<1> QED
  BY <1>1, <1>2, <1>3, <1>4, <1>5 DEF Next

History == /\ published \in 0..MaxMessages
           /\ received \subseteq Messages /\ confirmed \subseteq Messages

\* Every step keeps the messages counted among those that exist.
LEMMA HistoryKept == ASSUME TypeOK, [Next]_vars PROVE History'
<1> USE DEF vars, history
<1>1. History /\ MaxMessages \in Nat
  BY MqttClientAssumption DEF TypeOK, History
<1>2. ASSUME UNCHANGED history PROVE History'
  BY <1>1, <1>2 DEF History
<1>3. CASE ReceiveAck
  <2> DEFINE items == AcknowledgedBy(Head(toClient))
  <2>1. UNCHANGED <<published, received>>
    BY <1>3 DEF ReceiveAck
  <2>2. CASE items = {}
    BY <1>2, <1>3, <2>2 DEF ReceiveAck, store
  <2>3. CASE items # {}
    <3>1. confirmed' = confirmed \cup ({outbox[First(items)].msg} \ {None})
      BY <1>3, <2>3 DEF ReceiveAck
    <3>2. First(items) \in 1..Len(outbox)
      BY <2>3, FirstOf, items \in SUBSET DOMAIN outbox DEF TypeOK, AcknowledgedBy
    <3>3. outbox[First(items)] \in Items
      BY <3>2, ElementOfSeq DEF TypeOK
    <3>4. outbox[First(items)].msg \in Messages \cup {None}
      BY <3>3 DEF Items
    <3> QED
      BY <1>1, <2>1, <3>1, <3>4 DEF History
  <2> QED
    BY <2>2, <2>3
<1>4. CASE BrokerGets
  <2>1. toBroker # <<>> /\ UNCHANGED <<published, confirmed>>
    BY <1>4 DEF BrokerGets
  <2>2. /\ Head(toBroker).type \in DOMAIN Acknowledges => Head(toBroker) \in Requests
        /\ Head(toBroker).type \in {"DISCONNECT", "PINGREQ"} \cup DOMAIN Acknowledges
    BY <2>1, HeadOfBroker DEF TypeOK, Wire, ToBroker, Requests, Acknowledges
  <2>3. \/ UNCHANGED received
        \/ \E m \in Messages \cup {None} : received' = received \cup ({m} \ {None})
    BY <1>4, <2>2 DEF BrokerGets, Requests
  <2> QED
    BY <1>1, <2>1, <2>3 DEF History
<1>5. ASSUME NEW m \in Messages, Publish(m)
      PROVE  History'
  <2>1. published' = m /\ UNCHANGED <<received, confirmed>>
    BY <1>5 DEF Publish, PublishNoMemory, PublishSent, PublishFails, PublishOffline
  <2> QED
    BY <1>1, <2>1 DEF History, Messages
<1>6. CASE Task /\ ~ReceiveAck
  BY <1>2, <1>6 DEF Task, WaitOver, ConnectOk, ConnectFails, Receive, ReceiveNothing,
     ReceiveFails, ReceivePingResp, ResendNothing, Resend, ResendFails,
     Keepalive, KeepaliveNotDue, KeepalivePing, KeepaliveFails, Poll, PollOk, PollFails,
     TaskCloses, TaskEnds
<1>7. CASE Handler \/ Destroy \/ Break \/ Tick \/ UNCHANGED vars
  BY <1>2, <1>7 DEF Handler, HandlerStop, HandlerStopped, HandlerStart, Destroy, SenderStop,
     SenderDestroy, Break, Tick
<1> QED
  BY <1>3, <1>4, <1>5, <1>6, <1>7 DEF Next

-----------------------------------------------------------------------------

\* Everything has its type, and no acknowledgement is ignored for want of pending
\* messages: the outbox never holds more items than pending_msg_count says.
LEMMA TypesAndCount == Spec => [](TypeOK /\ PendingCovers)
<1>1. Init => TypeOK /\ PendingCovers
  <2> SUFFICES ASSUME Init PROVE TypeOK /\ PendingCovers
    OBVIOUS
  <2>1. Switches /\ Places
    BY DEF Init, Switches, Places
  <2>2. Store /\ Wire /\ History
    BY EmptySeq, MqttClientAssumption DEF Init, Store, Wire, History
  <2> QED
    BY <2>1, <2>2 DEF TypeOK, PendingCovers, Switches, Places, Store, Wire, History
<1>2. TypeOK /\ PendingCovers /\ [Next]_vars => (TypeOK /\ PendingCovers)'
  <2> SUFFICES ASSUME TypeOK, PendingCovers, [Next]_vars
               PROVE  (TypeOK /\ PendingCovers)'
    OBVIOUS
  <2>1. Switches' /\ Places'
    <3>1. Switches /\ Places
      BY DEF TypeOK, Switches, Places
    <3> QED
      BY <3>1, SwitchesKept, PlacesKept
  <2>2. Store' /\ Wire' /\ History'
    BY StoreKept, WireKept, HistoryKept
  <2> QED
    BY <2>1, <2>2 DEF TypeOK, PendingCovers, Switches, Places, Store, Wire, History
<1> QED
  BY <1>1, <1>2, PTL DEF Spec

\* Every variable of the client has its type, for any number of messages, ids, items
\* and packets.
THEOREM TypeCorrect == Spec => []TypeOK
  BY TypesAndCount, PTL

\* No acknowledgement is ignored for want of pending messages (is_valid_mqtt_msg).
THEOREM CountCovers == Spec => []PendingCovers
  BY TypesAndCount, PTL

\* The memory of a destroyed client is not used: its task has ended.
THEOREM DestroyedUnused == Spec => []FreedUnused
<1>1. Init => Switches /\ Ended
  BY DEF Init, Switches, Ended
<1>2. Switches /\ Ended /\ [Next]_vars => (Switches /\ Ended)'
  BY SwitchesKept, EndedKept
<1>3. Ended => FreedUnused
  BY DEF Ended, FreedUnused
<1> QED
  BY <1>1, <1>2, <1>3, PTL DEF Spec

-----------------------------------------------------------------------------
(* The client implements Delivery.                                         *)

\* No id and no message twice.
Apart(items) ==
    \A j, k \in DOMAIN items :
        \/ items[j].id = items[k].id
        \/ items[j].msg = items[k].msg /\ items[j].msg # None
        => j = k

\* A packet with an item's id is about the item's message.
Agree(items, packets) ==
    \A k \in DOMAIN items, n \in DOMAIN packets :
        HasId(packets[n]) /\ packets[n].id = items[k].id => packets[n].msg = items[k].msg

\* Only what was published is sent or kept, and only what was received is acknowledged.
Known(items) == \A k \in DOMAIN items : items[k].msg <= published

RequestRight(packet) ==
    HasId(packet) => /\ packet.msg <= published
                     /\ packet.type = "PUBLISH" <=> packet.msg # None

AnswerRight(packet) ==
    HasId(packet) => /\ packet.msg \in received \cup {None}
                     /\ packet.type = "PUBACK" <=> packet.msg # None

Consistent ==
    /\ Apart(outbox) /\ Known(outbox)
    /\ Agree(outbox, toBroker) /\ Agree(outbox, toClient)
    /\ \A n \in DOMAIN toBroker : RequestRight(toBroker[n])
    /\ \A n \in DOMAIN toClient : AnswerRight(toClient[n])

\* Every item of the first sequence has its own in the second, with its id and message.
Within(new, old) ==
    \E f \in [DOMAIN new -> DOMAIN old] :
        /\ \A k \in DOMAIN new : new[k].id = old[f[k]].id /\ new[k].msg = old[f[k]].msg
        /\ \A j, k \in DOMAIN new : f[j] = f[k] => j = k

\* Items that changed neither id nor message.
LEMMA WithinSame ==
    ASSUME NEW new, NEW old, DOMAIN new = DOMAIN old,
           \A k \in DOMAIN old : new[k].id = old[k].id /\ new[k].msg = old[k].msg
    PROVE  Within(new, old)
<1> DEFINE f == [k \in DOMAIN new |-> k]
<1>1. f \in [DOMAIN new -> DOMAIN old]
  OBVIOUS
<1> QED
  BY <1>1 DEF Within

\* Within, twice.
LEMMA WithinTransitive ==
    ASSUME NEW a, NEW b, NEW c, Within(a, b), Within(b, c)
    PROVE  Within(a, c)
<1>1. PICK f \in [DOMAIN a -> DOMAIN b] :
         /\ \A k \in DOMAIN a : a[k].id = b[f[k]].id /\ a[k].msg = b[f[k]].msg
         /\ \A j, k \in DOMAIN a : f[j] = f[k] => j = k
  BY DEF Within
<1>2. PICK g \in [DOMAIN b -> DOMAIN c] :
         /\ \A k \in DOMAIN b : b[k].id = c[g[k]].id /\ b[k].msg = c[g[k]].msg
         /\ \A j, k \in DOMAIN b : g[j] = g[k] => j = k
  BY DEF Within
<1> DEFINE h == [k \in DOMAIN a |-> g[f[k]]]
<1>3. h \in [DOMAIN a -> DOMAIN c]
  BY <1>1, <1>2
<1>4. \A k \in DOMAIN a : a[k].id = c[h[k]].id /\ a[k].msg = c[h[k]].msg
  BY <1>1, <1>2
<1>5. \A j, k \in DOMAIN a : h[j] = h[k] => j = k
  BY <1>1, <1>2
<1> QED
  BY <1>3, <1>4, <1>5 DEF Within

\* Within is kept when both get one more item.
LEMMA WithinAppend ==
    ASSUME NEW T, NEW a \in Seq(T), NEW b \in Seq(T), NEW x \in T, Within(a, b)
    PROVE  Within(Append(a, x), Append(b, x))
<1>1. PICK f \in [DOMAIN a -> DOMAIN b] :
         /\ \A k \in DOMAIN a : a[k].id = b[f[k]].id /\ a[k].msg = b[f[k]].msg
         /\ \A j, k \in DOMAIN a : f[j] = f[k] => j = k
  BY DEF Within
<1>2. /\ DOMAIN a = 1..Len(a) /\ Len(a) \in Nat
      /\ DOMAIN b = 1..Len(b) /\ Len(b) \in Nat
  BY LenProperties
<1>3. /\ DOMAIN Append(a, x) = 1..Len(a) + 1 /\ DOMAIN Append(b, x) = 1..Len(b) + 1
      /\ \A k \in 1..Len(a) : Append(a, x)[k] = a[k]
      /\ \A k \in 1..Len(b) : Append(b, x)[k] = b[k]
      /\ Append(a, x)[Len(a) + 1] = x /\ Append(b, x)[Len(b) + 1] = x
  BY AppendProperties, LenProperties
<1> DEFINE g == [k \in 1..Len(a) + 1 |-> IF k = Len(a) + 1 THEN Len(b) + 1 ELSE f[k]]
<1>4. ASSUME NEW k \in 1..Len(a)
      PROVE  f[k] \in 1..Len(b) /\ g[k] = f[k] /\ f[k] # Len(b) + 1
  BY <1>1, <1>2
<1>5. g[Len(a) + 1] = Len(b) + 1
  BY <1>2
<1> HIDE DEF g
<1>6. ASSUME NEW k \in 1..Len(a) + 1
      PROVE  k \in 1..Len(a) \/ k = Len(a) + 1
  BY <1>2
<1>7. g \in [DOMAIN Append(a, x) -> DOMAIN Append(b, x)]
  <2>1. \A k \in 1..Len(a) + 1 : g[k] \in 1..Len(b) + 1
    BY <1>2, <1>4, <1>5, <1>6
  <2> QED
    BY <1>3, <2>1 DEF g
<1>8. \A k \in DOMAIN Append(a, x) : /\ Append(a, x)[k].id = Append(b, x)[g[k]].id
                                     /\ Append(a, x)[k].msg = Append(b, x)[g[k]].msg
  BY <1>1, <1>2, <1>3, <1>4, <1>5, <1>6
<1>9. \A j, k \in DOMAIN Append(a, x) : g[j] = g[k] => j = k
  BY <1>1, <1>2, <1>3, <1>4, <1>5, <1>6
<1> QED
  BY <1>7, <1>8, <1>9 DEF Within

\* mqtt_delete_expired_messages only takes items away.
LEMMA WithinUnexpired ==
    ASSUME NEW items \in Seq(Items)
    PROVE  Within(Unexpired(items), items)
<1>1. PICK f \in [DOMAIN Unexpired(items) -> DOMAIN items] :
         /\ \A n \in DOMAIN Unexpired(items) : Unexpired(items)[n] = items[f[n]]
         /\ \A m, n \in DOMAIN Unexpired(items) : f[m] = f[n] => m = n
  BY UnexpiredChooses
<1> QED
  BY <1>1 DEF Within

\* outbox_delete only takes an item away.
LEMMA WithinRemoveAt ==
    ASSUME NEW T, NEW items \in Seq(T), NEW k \in 1..Len(items)
    PROVE  Within(RemoveAt(items, k), items)
<1> DEFINE f == [n \in 1..Len(items) - 1 |-> IF n < k THEN n ELSE n + 1]
<1>1. DOMAIN items = 1..Len(items) /\ Len(items) \in Nat
  BY LenProperties
<1>2. /\ DOMAIN RemoveAt(items, k) = 1..Len(items) - 1
      /\ \A n \in 1..Len(items) - 1 : RemoveAt(items, k)[n] = items[f[n]]
  BY RemoveAtKeeps, LenProperties
<1>3. f \in [DOMAIN RemoveAt(items, k) -> DOMAIN items]
  BY <1>1, <1>2
<1>4. \A m, n \in 1..Len(items) - 1 : f[m] = f[n] => m = n
  BY <1>1
<1> HIDE DEF f
<1> QED
  BY <1>2, <1>3, <1>4 DEF Within

\* So does outbox_delete_all_items.
LEMMA WithinEmpty == ASSUME NEW items PROVE Within(<<>>, items)
<1> DEFINE f == [k \in {} |-> items]
<1>1. DOMAIN <<>> = {} /\ f \in [{} -> DOMAIN items]
  OBVIOUS
<1> QED
  BY <1>1 DEF Within

\* mqtt_resend_queued brings no item into the outbox.
LEMMA ResendWithin ==
    ASSUME outbox \in Seq(Items), Resend
    PROVE  Within(outbox', outbox)
<1> DEFINE items == Unexpired(outbox)
           k == NextItem(items)
           item == [items[k] EXCEPT !.pending = "TRANSMITTED"]
<1>1. items \in Seq(Items) /\ items # <<>>
  BY UnexpiredChooses DEF Resend
<1>2. k \in 1..Len(items)
  BY <1>1, NextItemAt
<1>3. items[k] \in Items
  BY <1>1, <1>2, ElementOfSeq
<1>4. outbox' = [items EXCEPT ![k] = item]
  BY DEF Resend
<1>5. Within(items, outbox)
  BY WithinUnexpired
<1> HIDE DEF items, k
<1>6. item \in Items /\ item.id = items[k].id /\ item.msg = items[k].msg
  BY <1>3 DEF Items
<1>7. DOMAIN outbox' = DOMAIN items /\ DOMAIN items = 1..Len(items)
  BY <1>1, <1>4, LenProperties
<1>8. \A j \in DOMAIN items : outbox'[j].id = items[j].id /\ outbox'[j].msg = items[j].msg
  BY <1>1, <1>2, <1>4, <1>6, <1>7, ExceptSeq
<1>9. Within(outbox', items)
  BY <1>7, <1>8, WithinSame
<1> QED
  BY <1>5, <1>9, WithinTransitive

Added(m) == Append(outbox, Item(FreshId, m))

\* outbox_set_pending brings no item into the outbox.
LEMMA TransmittedWithin ==
    ASSUME NEW items \in Seq(Items), NEW id
    PROVE  Within(SetTransmitted(items, id), items)
  BY SetTransmittedKeeps, WithinSame

\* What a step does to the outbox: it loses items, after a subscription or the next
\* message came, or nothing.
LEMMA OutboxStep ==
    ASSUME TypeOK, [Next]_vars
    PROVE  \/ Within(outbox', outbox)
           \/ Within(outbox', Added(None))
           \/ \E m \in Messages : /\ m = published + 1 /\ published' = m
                                  /\ Within(outbox', Added(m))
<1> USE DEF vars, store
<1>1. outbox \in Seq(Items) /\ FreshId \in Ids
  BY FreshIdFree DEF TypeOK
<1>2. ASSUME UNCHANGED outbox PROVE Within(outbox', outbox)
  BY <1>2, WithinSame
<1>3. ASSUME NEW m \in Messages \cup {None}
      PROVE  Added(m) \in Seq(Items) /\ Item(FreshId, m) \in Items
  BY <1>1, ItemType, AppendProperties DEF Added
<1>4. CASE ConnectOk
  <2>1. UNCHANGED outbox \/ outbox' = SetTransmitted(Added(None), FreshId)
    BY <1>4 DEF ConnectOk, Added
  <2> QED
    BY <1>2, <1>3, <2>1, TransmittedWithin
<1>5. CASE ReceiveAck
  <2> DEFINE items == AcknowledgedBy(Head(toClient))
  <2>1. CASE items = {}
    BY <1>2, <1>5, <2>1 DEF ReceiveAck
  <2>2. CASE items # {}
    <3>1. First(items) \in 1..Len(outbox)
      BY <1>1, <2>2, FirstOf, items \in SUBSET DOMAIN outbox DEF AcknowledgedBy
    <3>2. outbox' = RemoveAt(outbox, First(items))
      BY <1>5, <2>2 DEF ReceiveAck
    <3> QED
      BY <1>1, <3>1, <3>2, WithinRemoveAt
  <2> QED
    BY <2>1, <2>2
<1>6. CASE ResendNothing \/ ResendFails
  <2>1. outbox' = Unexpired(outbox)
    BY <1>6 DEF ResendNothing, ResendFails, DeleteExpired
  <2> QED
    BY <1>1, <2>1, WithinUnexpired
<1>7. CASE Resend
  BY <1>1, <1>7, ResendWithin
<1>8. CASE TaskEnds \/ SenderDestroy
  BY <1>8, WithinEmpty DEF TaskEnds, SenderDestroy
<1>9. ASSUME NEW m \in Messages, Publish(m)
      PROVE  /\ m = published + 1 /\ published' = m
             /\ Within(outbox', outbox) \/ Within(outbox', Added(m))
  <2>1. m = published + 1 /\ published' = m
    BY <1>9 DEF Publish, PublishNoMemory, PublishSent, PublishFails, PublishOffline
  <2>2. CASE PublishNoMemory(m)
    BY <1>2, <2>1, <2>2 DEF PublishNoMemory
  <2>3. CASE PublishSent(m)
    <3>1. outbox' = SetTransmitted(Added(m), FreshId)
      BY <2>3 DEF PublishSent, Added
    <3> QED
      BY <1>3, <2>1, <3>1, TransmittedWithin
  <2>4. CASE PublishFails(m)
    <3>1. outbox' = Added(m)
      BY <2>4 DEF PublishFails, Added
    <3> QED
      BY <2>1, <3>1, WithinSame
  <2>5. CASE PublishOffline(m)
    <3>1. outbox' = Append(Unexpired(outbox), Item(FreshId, m))
      BY <2>5 DEF PublishOffline
    <3>2. Unexpired(outbox) \in Seq(Items) /\ Within(Unexpired(outbox), outbox)
      BY <1>1, UnexpiredChooses, WithinUnexpired
    <3> QED
      BY <1>1, <1>3, <2>1, <3>1, <3>2, WithinAppend DEF Added
  <2> QED
    BY <1>9, <2>2, <2>3, <2>4, <2>5 DEF Publish
<1>10. CASE Tick
  <2>1. /\ outbox' = [k \in DOMAIN outbox |-> [outbox[k] EXCEPT !.expired = TRUE]]
        /\ DOMAIN outbox = 1..Len(outbox)
    BY <1>1, <1>10, LenProperties DEF Tick
  <2>2. ASSUME NEW k \in DOMAIN outbox
        PROVE  outbox'[k].id = outbox[k].id /\ outbox'[k].msg = outbox[k].msg
    <3>1. outbox[k] \in Items
      BY <1>1, <2>1, ElementOfSeq
    <3> QED
      BY <2>1, <3>1 DEF Items
  <2> QED
    BY <2>1, <2>2, WithinSame
<1>11. CASE WaitOver \/ ConnectFails \/ ReceiveNothing \/ ReceiveFails \/ ReceivePingResp
            \/ Keepalive \/ Poll \/ TaskCloses
  BY <1>2, <1>11 DEF WaitOver, ConnectFails, ReceiveNothing, ReceiveFails, ReceivePingResp,
     Keepalive, KeepaliveNotDue, KeepalivePing, KeepaliveFails, Poll, PollOk, PollFails,
     TaskCloses
<1>12. CASE Handler \/ SenderStop \/ Break \/ BrokerGets \/ UNCHANGED vars
  BY <1>2, <1>12 DEF Handler, HandlerStop, HandlerStopped, HandlerStart, SenderStop, Break,
     BrokerGets
<1> QED
  BY <1>4, <1>5, <1>6, <1>7, <1>8, <1>9, <1>10, <1>11, <1>12
     DEF Next, Task, Receive, Destroy

AsksFor(packet, items) ==
    \E k \in DOMAIN items : /\ packet.id = items[k].id /\ packet.msg = items[k].msg
                            /\ packet.type = "PUBLISH" <=> packet.msg # None

Written(packet, items) ==
    \/ ~HasId(packet)
    \/ \E j \in DOMAIN toBroker : packet = toBroker[j]
    \/ AsksFor(packet, items)

WireFrom(items) ==
    /\ \A n \in DOMAIN toBroker' : Written(toBroker'[n], items)
    /\ \A n \in DOMAIN toClient' : \E j \in DOMAIN toClient : toClient'[n] = toClient[j]

\* Nothing comes when the connection is closed.
LEMMA ClosedStep == ASSUME Close, NEW items PROVE WireFrom(items)
  BY DEF Close, WireFrom

\* Nothing comes when the connection is left alone.
LEMMA SameStep == ASSUME UNCHANGED wire, NEW items PROVE WireFrom(items)
  BY DEF wire, WireFrom, Written

\* A write adds the one packet, or none on a broken connection.
LEMMA SentStep ==
    ASSUME Wire, NEW items, NEW packet \in ToBroker, Sent(packet),
           ~HasId(packet) \/ AsksFor(packet, items)
    PROVE  WireFrom(items)
<1>1. \A n \in DOMAIN toClient' : \E j \in DOMAIN toClient : toClient'[n] = toClient[j]
  BY DEF Sent
<1>2. CASE connected
  <2>1. toBroker' = Append(toBroker, packet)
    BY <1>2 DEF Sent
  <2>2. DOMAIN toBroker = 1..Len(toBroker) /\ Len(toBroker) \in Nat
    BY LenProperties DEF Wire
  <2>3. DOMAIN toBroker' = 1..Len(toBroker) + 1
    BY <2>1, AppendProperties, LenProperties DEF Wire
  <2>4. /\ toBroker'[Len(toBroker) + 1] = packet
        /\ \A n \in 1..Len(toBroker) : toBroker'[n] = toBroker[n]
    BY <2>1, AppendProperties DEF Wire
  <2>5. ASSUME NEW n \in DOMAIN toBroker'
        PROVE  Written(toBroker'[n], items)
    <3>1. CASE n \in 1..Len(toBroker)
      BY <2>2, <2>4, <3>1 DEF Written
    <3>2. CASE n = Len(toBroker) + 1
      BY <2>4, <3>2 DEF Written
    <3> QED
      BY <2>2, <2>3, <3>1, <3>2
  <2> QED
    BY <1>1, <2>5 DEF WireFrom
<1>3. CASE ~connected
  <2>1. toBroker' = toBroker
    BY <1>3 DEF Sent
  <2> QED
    BY <1>1, <2>1 DEF WireFrom, Written
<1> QED
  BY <1>2, <1>3

\* Which packets have an id.
LEMMA PacketHasId ==
    /\ \A item \in Items : HasId(item) /\ HasId(Packet(item))
    /\ \A packet \in Requests \cup Answers : HasId(packet)
    /\ \A packet \in ToBroker : HasId(packet) => packet \in Requests
    /\ \A packet \in ToClient : HasId(packet) => packet \in Answers
  BY DEF HasId, Items, Packet, Requests, Answers, ToBroker, ToClient

\* An item's id is in use.
LEMMA ItemIdKnown ==
    ASSUME NEW items \in Seq(Items), NEW k \in DOMAIN items
    PROVE  items[k].id \in IdsIn(items)
<1>1. items[k] \in Items
  BY ElementOfSeq, LenProperties
<1> QED
  BY <1>1, PacketHasId DEF IdsIn

\* A packet's id is in use.
LEMMA PacketIdKnown ==
    ASSUME NEW packets, NEW n \in DOMAIN packets, HasId(packets[n])
    PROVE  packets[n].id \in IdsIn(packets)
  BY DEF IdsIn

\* A packet asks for the item it was made from.
LEMMA PacketOf ==
    ASSUME NEW items \in Seq(Items), NEW k \in DOMAIN items, NEW old \in Items,
           items[k].id = old.id, items[k].msg = old.msg
    PROVE  AsksFor(Packet(old), items)
  BY DEF AsksFor, Packet, TypeOf, Items

\* The packet of a new item asks for it.
LEMMA AddedAsked ==
    ASSUME outbox \in Seq(Items), FreshId \in Ids, NEW m \in Messages \cup {None}
    PROVE  AsksFor(Packet(Item(FreshId, m)), SetTransmitted(Added(m), FreshId))
<1> DEFINE items == SetTransmitted(Added(m), FreshId)
           item == Item(FreshId, m)
<1>1. item \in Items
  BY ItemType
<1> HIDE DEF item
<1>2. /\ Append(outbox, item) \in Seq(Items)
      /\ DOMAIN Append(outbox, item) = 1..Len(outbox) + 1 /\ Len(outbox) \in Nat
      /\ Append(outbox, item)[Len(outbox) + 1] = item
  BY <1>1, AppendProperties, LenProperties
<1>3. /\ Added(m) \in Seq(Items) /\ Len(outbox) + 1 \in DOMAIN Added(m)
      /\ Added(m)[Len(outbox) + 1] = item
  BY <1>2 DEF Added, item
<1>4. /\ items \in Seq(Items) /\ Len(outbox) + 1 \in DOMAIN items
      /\ items[Len(outbox) + 1].id = item.id /\ items[Len(outbox) + 1].msg = item.msg
  BY <1>3, SetTransmittedKeeps
<1> HIDE DEF items
<1>5. AsksFor(Packet(item), items)
  BY <1>1, <1>4, PacketOf
<1> QED
  BY <1>5 DEF item, items

\* What a step of the client does to its wire: packets go, and one for an item of
\* the outbox may come.
LEMMA WireStep ==
    ASSUME TypeOK, [Next]_vars, ~BrokerGets
    PROVE  WireFrom(outbox')
<1> USE DEF vars, client
<1>1. Wire /\ outbox \in Seq(Items) /\ FreshId \in Ids
  BY FreshIdFree DEF TypeOK, Wire
<1>2. CASE ConnectOk
  <2>1. toClient' = <<>>
    BY <1>2 DEF ConnectOk
  <2>2. \/ toBroker' = <<>>
        \/ /\ toBroker' = <<Packet(Item(FreshId, None))>>
           /\ outbox' = SetTransmitted(Added(None), FreshId)
    BY <1>2 DEF ConnectOk, Added
  <2>3. ASSUME toBroker' = <<Packet(Item(FreshId, None))>>,
               outbox' = SetTransmitted(Added(None), FreshId)
        PROVE  WireFrom(outbox')
    <3>1. AsksFor(Packet(Item(FreshId, None)), outbox')
      BY <1>1, <2>3, AddedAsked
    <3>2. \A n \in DOMAIN toBroker' : toBroker'[n] = Packet(Item(FreshId, None))
      BY <2>3
    <3> QED
      BY <2>1, <3>1, <3>2 DEF WireFrom, Written
  <2> QED
    BY <2>1, <2>2, <2>3 DEF WireFrom
<1>3. CASE ConnectFails \/ ReceiveFails \/ ResendFails \/ KeepaliveFails \/ PollFails
           \/ TaskCloses \/ Break
  <2>1. Close
    BY <1>3 DEF ConnectFails, ReceiveFails, ResendFails, KeepaliveFails, PollFails, TaskCloses,
       Break, Abort
  <2> QED
    BY <2>1, ClosedStep
<1>4. CASE ReceiveAck \/ ReceivePingResp
  <2>1. toClient # <<>> /\ toClient' = Tail(toClient) /\ UNCHANGED toBroker
    BY <1>4 DEF ReceiveAck, ReceivePingResp
  <2>2. /\ DOMAIN toClient = 1..Len(toClient) /\ DOMAIN toClient' = 1..Len(toClient) - 1
        /\ Len(toClient) \in Nat
    BY <1>1, <2>1, HeadTailProperties, LenProperties DEF Wire
  <2>3. ASSUME NEW n \in DOMAIN toClient'
        PROVE  \E j \in DOMAIN toClient : toClient'[n] = toClient[j]
    <3>1. n + 1 \in DOMAIN toClient /\ n \in 1..Len(Tail(toClient))
      BY <1>1, <2>1, <2>2, HeadTailProperties DEF Wire
    <3>2. toClient'[n] = toClient[n + 1]
      BY <1>1, <2>1, <3>1, HeadTailProperties DEF Wire
    <3> QED
      BY <3>1, <3>2
  <2> QED
    BY <2>1, <2>3 DEF WireFrom, Written
<1>5. CASE Resend
  <2> DEFINE items == Unexpired(outbox)
             k == NextItem(items)
             item == [items[k] EXCEPT !.pending = "TRANSMITTED"]
  <2>1. items # <<>> /\ Sent(Packet(items[k])) /\ outbox' = [items EXCEPT ![k] = item]
    BY <1>5 DEF Resend
  <2>2. items \in Seq(Items) /\ k \in 1..Len(items)
    BY <1>1, <2>1, UnexpiredChooses, NextItemAt
  <2>3. items[k] \in Items
    BY <2>2, ElementOfSeq
  <2> HIDE DEF items, k
  <2>4. item \in Items /\ item.id = items[k].id /\ item.msg = items[k].msg
    BY <2>3 DEF Items
  <2>5. Packet(items[k]) \in ToBroker
    BY <2>3 DEF Packet, TypeOf, Items, ToBroker, Requests
  <2> HIDE DEF item
  <2>6. outbox' \in Seq(Items) /\ k \in DOMAIN outbox' /\ outbox'[k] = item
    BY <2>1, <2>2, <2>4, ExceptSeq, LenProperties
  <2>7. AsksFor(Packet(items[k]), outbox')
    BY <2>3, <2>4, <2>6, PacketOf
  <2> QED
    BY <1>1, <2>1, <2>5, <2>7, SentStep
<1>6. CASE KeepalivePing
  <2>1. ~HasId([type |-> "PINGREQ"])
    BY DEF HasId
  <2> QED
    BY <1>1, <1>6, <2>1, SignalType, SentStep DEF KeepalivePing
<1>7. CASE HandlerStop \/ SenderStop
  <2>1. UNCHANGED wire \/ Sent([type |-> "DISCONNECT"])
    BY <1>7 DEF HandlerStop, SenderStop, StopRequest
  <2>2. ~HasId([type |-> "DISCONNECT"])
    BY DEF HasId
  <2> QED
    BY <1>1, <2>1, <2>2, SignalType, SameStep, SentStep
<1>8. ASSUME NEW m \in Messages, Publish(m)
      PROVE  WireFrom(outbox')
  <2>1. Packet(Item(FreshId, m)) \in ToBroker
    BY <1>1, ItemType DEF ToBroker
  <2>2. \/ UNCHANGED wire
        \/ Close
        \/ /\ Sent(Packet(Item(FreshId, m)))
           /\ outbox' = SetTransmitted(Added(m), FreshId)
    BY <1>8 DEF Publish, PublishNoMemory, PublishSent, PublishFails, PublishOffline, Abort,
       Added
  <2> QED
    BY <1>1, <2>1, <2>2, AddedAsked, ClosedStep, SameStep, SentStep
<1>9. CASE WaitOver \/ ReceiveNothing \/ ResendNothing \/ KeepaliveNotDue \/ PollOk
           \/ TaskEnds \/ HandlerStopped \/ HandlerStart \/ SenderDestroy \/ Tick
           \/ UNCHANGED vars
  <2>1. UNCHANGED wire
    BY <1>9 DEF WaitOver, ReceiveNothing, ResendNothing, KeepaliveNotDue, PollOk, TaskEnds,
       HandlerStopped, HandlerStart, SenderDestroy, Tick
  <2> QED
    BY <2>1, SameStep
<1> QED
  BY <1>2, <1>3, <1>4, <1>5, <1>6, <1>7, <1>8, <1>9
     DEF Next, Task, Receive, Keepalive, Poll, Handler, Destroy

\* Items that are left have ids and messages of their own.
LEMMA ApartKept ==
    ASSUME NEW new, NEW old, Within(new, old), Apart(old)
    PROVE  Apart(new)
<1>1. PICK f \in [DOMAIN new -> DOMAIN old] :
         /\ \A k \in DOMAIN new : new[k].id = old[f[k]].id /\ new[k].msg = old[f[k]].msg
         /\ \A j, k \in DOMAIN new : f[j] = f[k] => j = k
  BY DEF Within
<1> QED
  BY <1>1 DEF Apart

\* An item of the later outbox is an earlier one or the one that came.
LEMMA ItemFrom ==
    ASSUME outbox \in Seq(Items), FreshId \in Ids, NEW m \in Messages \cup {None}, NEW new,
           Within(new, outbox) \/ Within(new, Added(m)), NEW k \in DOMAIN new
    PROVE  \/ \E j \in DOMAIN outbox : /\ new[k].id = outbox[j].id
                                       /\ new[k].msg = outbox[j].msg
           \/ new[k].id = FreshId /\ new[k].msg = m
<1>1. CASE Within(new, outbox)
  BY <1>1 DEF Within
<1>2. CASE Within(new, Added(m))
  <2>1. PICK j \in DOMAIN Added(m) : /\ new[k].id = Added(m)[j].id
                                     /\ new[k].msg = Added(m)[j].msg
    BY <1>2 DEF Within
  <2>2. CASE j \in DOMAIN outbox
    BY <2>1, <2>2, ItemType, AppendProperties, LenProperties DEF Added
  <2>3. CASE j \notin DOMAIN outbox
    <3>1. j = Len(outbox) + 1
      BY <2>3, ItemType, AppendProperties, LenProperties DEF Added
    <3>2. Added(m)[j] = Item(FreshId, m)
      BY <3>1, ItemType, AppendProperties DEF Added
    <3> QED
      BY <2>1, <3>2, ItemType
  <2> QED
    BY <2>2, <2>3
<1> QED
  BY <1>1, <1>2

\* So has a new one, with a fresh id and a message that is not kept yet.
LEMMA AddedApart ==
    ASSUME outbox \in Seq(Items), FreshId \in Ids, FreshId \notin IdsIn(outbox),
           Apart(outbox),
           NEW m \in Messages \cup {None},
           m # None => \A k \in DOMAIN outbox : outbox[k].msg # m
    PROVE  Apart(Added(m))
<1> DEFINE item == Item(FreshId, m)
<1>1. item \in Items /\ item.id = FreshId /\ item.msg = m
  BY ItemType
<1>2. Added(m) = Append(outbox, item)
  BY DEF Added
<1> HIDE DEF item
<1>3. /\ DOMAIN Added(m) = 1..Len(outbox) + 1 /\ DOMAIN outbox = 1..Len(outbox)
      /\ Len(outbox) \in Nat /\ Added(m)[Len(outbox) + 1] = item
      /\ \A k \in 1..Len(outbox) : Added(m)[k] = outbox[k]
  BY <1>1, <1>2, AppendProperties, LenProperties
<1>4. \A k \in DOMAIN outbox : outbox[k].id # FreshId
  BY ItemIdKnown
<1> QED
  BY <1>1, <1>3, <1>4 DEF Apart

\* Messages are published one by one, and only the broker receives.
LEMMA HistoryStep ==
    ASSUME TypeOK, [Next]_vars
    PROVE  /\ published' = published \/ published' = published + 1
           /\ received \subseteq received'
           /\ ~BrokerGets => received' = received
<1> USE DEF vars, history
<1>1. CASE Task
  BY <1>1 DEF Task, WaitOver, ConnectOk, ConnectFails, Receive, ReceiveNothing, ReceiveAck,
     ReceiveFails, ReceivePingResp, ResendNothing, Resend, ResendFails,
     Keepalive, KeepaliveNotDue, KeepalivePing, KeepaliveFails, Poll, PollOk, PollFails,
     TaskCloses, TaskEnds
<1>2. ASSUME NEW m \in Messages, Publish(m)
      PROVE  published' = published + 1 /\ UNCHANGED received
  BY <1>2 DEF Publish, PublishNoMemory, PublishSent, PublishFails, PublishOffline
<1>3. CASE Handler \/ Destroy \/ Break \/ Tick \/ UNCHANGED vars
  BY <1>3 DEF Handler, HandlerStop, HandlerStopped, HandlerStart, Destroy, SenderStop,
     SenderDestroy, Break, Tick
<1>4. CASE BrokerGets
  <2>1. toBroker # <<>> /\ UNCHANGED published
    BY <1>4 DEF BrokerGets
  <2>2. Head(toBroker).type \in {"DISCONNECT", "PINGREQ"} \cup DOMAIN Acknowledges
    BY <2>1, HeadOfBroker DEF TypeOK, Wire, ToBroker, Requests, Acknowledges
  <2>3. received \subseteq received'
    BY <1>4, <2>2 DEF BrokerGets
  <2> QED
    BY <1>4, <2>1, <2>3
<1> QED
  BY <1>1, <1>2, <1>3, <1>4 DEF Next

\* OutboxStep, with None for what does not come.
LEMMA ItemComes ==
    ASSUME TypeOK, [Next]_vars
    PROVE  \E m \in Messages \cup {None} :
              /\ Within(outbox', outbox) \/ Within(outbox', Added(m))
              /\ m # None => m = published + 1 /\ published' = m
<1>1. \A m \in Messages : m # None
  BY DEF Messages, None
<1> QED
  BY <1>1, OutboxStep

\* Every step but the broker's keeps outbox and wire consistent.
LEMMA ConsistentTask ==
    ASSUME TypeOK, Consistent, [Next]_vars, ~BrokerGets
    PROVE  Consistent'
<1>1. /\ outbox \in Seq(Items) /\ FreshId \in Ids /\ FreshId \notin IdsIn(outbox)
      /\ FreshId \notin IdsIn(toBroker) /\ FreshId \notin IdsIn(toClient)
      /\ published \in Nat
  BY FreshIdFree, MqttClientAssumption DEF TypeOK, InUse
<1>2. PICK m \in Messages \cup {None} :
              /\ Within(outbox', outbox) \/ Within(outbox', Added(m))
              /\ m # None => m = published + 1 /\ published' = m
  BY ItemComes
<1>3. /\ published' \in Nat /\ published <= published' /\ received' = received
      /\ m <= published'
  BY <1>1, <1>2, HistoryStep DEF None
<1>4. \A k \in DOMAIN outbox : outbox[k].msg \in Nat /\ outbox[k].msg <= published
  <2>1. \A k \in DOMAIN outbox : outbox[k] \in Items
    BY <1>1, ElementOfSeq, LenProperties
  <2> QED
    BY <2>1 DEF Consistent, Known, Items, Messages, None
<1>5. Apart(outbox')
  <2>1. m # None => \A k \in DOMAIN outbox : outbox[k].msg # m
    BY <1>1, <1>2, <1>4
  <2>2. Apart(Added(m))
    BY <1>1, <2>1, AddedApart DEF Consistent
  <2> QED
    BY <1>2, <2>2, ApartKept DEF Consistent
<1>6. ASSUME NEW k \in DOMAIN outbox'
      PROVE  \/ \E j \in DOMAIN outbox : /\ outbox'[k].id = outbox[j].id
                                         /\ outbox'[k].msg = outbox[j].msg
             \/ outbox'[k].id = FreshId /\ outbox'[k].msg = m
  BY <1>1, <1>2, ItemFrom
<1>7. \A k \in DOMAIN outbox' : outbox'[k].msg <= published'
  BY <1>1, <1>3, <1>4, <1>6
<1>8. WireFrom(outbox')
  BY WireStep
<1>9. ASSUME NEW k \in DOMAIN outbox', NEW n \in DOMAIN toBroker',
             HasId(toBroker'[n]), toBroker'[n].id = outbox'[k].id
      PROVE  toBroker'[n].msg = outbox'[k].msg
  <2>1. CASE \E j \in DOMAIN toBroker : toBroker'[n] = toBroker[j]
    <3>1. PICK j \in DOMAIN toBroker : toBroker'[n] = toBroker[j]
      BY <2>1
    <3>2. toBroker[j].id # FreshId
      BY <1>1, <1>9, <3>1, PacketIdKnown
    <3> QED
      BY <1>6, <1>9, <3>1, <3>2 DEF Consistent, Agree
  <2>2. CASE AsksFor(toBroker'[n], outbox')
    <3>1. PICK i \in DOMAIN outbox' : /\ toBroker'[n].id = outbox'[i].id
                                      /\ toBroker'[n].msg = outbox'[i].msg
      BY <2>2 DEF AsksFor
    <3>2. i = k
      BY <1>5, <1>9, <3>1 DEF Apart
    <3> QED
      BY <3>1, <3>2
  <2> QED
    BY <1>8, <1>9, <2>1, <2>2 DEF WireFrom, Written
<1>10. ASSUME NEW k \in DOMAIN outbox', NEW n \in DOMAIN toClient',
              HasId(toClient'[n]), toClient'[n].id = outbox'[k].id
       PROVE  toClient'[n].msg = outbox'[k].msg
  <2>1. PICK j \in DOMAIN toClient : toClient'[n] = toClient[j]
    BY <1>8 DEF WireFrom
  <2>2. toClient[j].id # FreshId
    BY <1>1, <1>10, <2>1, PacketIdKnown
  <2> QED
    BY <1>6, <1>10, <2>1, <2>2 DEF Consistent, Agree
<1>11. ASSUME NEW n \in DOMAIN toBroker', HasId(toBroker'[n])
       PROVE  /\ toBroker'[n].msg <= published'
              /\ toBroker'[n].type = "PUBLISH" <=> toBroker'[n].msg # None
  <2>1. CASE \E j \in DOMAIN toBroker : toBroker'[n] = toBroker[j]
    <3>1. PICK j \in DOMAIN toBroker : toBroker'[n] = toBroker[j]
      BY <2>1
    <3>2. toBroker[j] \in Requests
      BY <1>11, <3>1, PacketHasId, ElementOfSeq, LenProperties DEF TypeOK
    <3>3. toBroker[j].msg \in Nat
      BY <3>2 DEF Requests, Messages, None
    <3> QED
      BY <1>1, <1>3, <1>11, <3>1, <3>3 DEF Consistent, RequestRight
  <2>2. CASE AsksFor(toBroker'[n], outbox')
    <3>1. PICK i \in DOMAIN outbox' :
             /\ toBroker'[n].msg = outbox'[i].msg
             /\ toBroker'[n].type = "PUBLISH" <=> toBroker'[n].msg # None
      BY <2>2 DEF AsksFor
    <3> QED
      BY <1>7, <3>1
  <2> QED
    BY <1>8, <1>11, <2>1, <2>2 DEF WireFrom, Written
<1>12. ASSUME NEW n \in DOMAIN toClient', HasId(toClient'[n])
       PROVE  /\ toClient'[n].msg \in received' \cup {None}
              /\ toClient'[n].type = "PUBACK" <=> toClient'[n].msg # None
  BY <1>3, <1>8, <1>12 DEF WireFrom, Consistent, AnswerRight
<1>13. /\ Apart(outbox)' /\ Known(outbox)'
       /\ Agree(outbox, toBroker)' /\ Agree(outbox, toClient)'
  BY <1>5, <1>7, <1>9, <1>10 DEF Known, Agree, Apart
<1>14. (\A n \in DOMAIN toBroker : RequestRight(toBroker[n]))'
  BY <1>11 DEF RequestRight, HasId
<1>15. (\A n \in DOMAIN toClient : AnswerRight(toClient[n]))'
  BY <1>12 DEF AnswerRight, HasId
<1> QED
  BY <1>13, <1>14, <1>15 DEF Consistent

\* The broker takes a packet, and what it answers is about the same message.
LEMMA ConsistentBroker ==
    ASSUME TypeOK, Consistent, BrokerGets
    PROVE  Consistent'
<1> DEFINE packet == Head(toBroker)
           answer == [packet EXCEPT !.type = Acknowledges[@]]
<1>1. /\ toBroker # <<>> /\ toBroker' = Tail(toBroker) /\ UNCHANGED <<outbox, published>>
  BY DEF BrokerGets, store
<1>2. Wire /\ Len(toBroker) \in Nat \ {0} /\ Len(toClient) \in Nat
  BY <1>1, EmptySeq, LenProperties DEF TypeOK, Wire
<1>3. packet = toBroker[1] /\ 1 \in DOMAIN toBroker
  BY <1>1, <1>2, LenProperties DEF Wire
<1>4. ASSUME NEW n \in DOMAIN toBroker'
      PROVE  n + 1 \in DOMAIN toBroker /\ toBroker'[n] = toBroker[n + 1]
  <2>1. DOMAIN toBroker' = 1..Len(toBroker) - 1 /\ DOMAIN toBroker = 1..Len(toBroker)
    BY <1>1, <1>2, HeadOfBroker, LenProperties DEF Wire
  <2> QED
    BY <1>1, <1>2, <2>1, HeadOfBroker
<1>5. (\A n \in DOMAIN toBroker : RequestRight(toBroker[n]))'
  BY <1>1, <1>4 DEF Consistent, RequestRight, HasId
<1>6. Apart(outbox)' /\ Known(outbox)' /\ Agree(outbox, toBroker)'
  BY <1>1, <1>4 DEF Consistent, Apart, Known, Agree
<1>7. /\ packet.type \in {"DISCONNECT", "PINGREQ"} \cup DOMAIN Acknowledges
      /\ packet.type \in DOMAIN Acknowledges => packet \in Requests
  BY <1>1, <1>2, HeadOfBroker DEF ToBroker, Requests, Acknowledges
<1>8. CASE packet.type = "DISCONNECT"
  <2>1. UNCHANGED <<toClient, received>>
    BY <1>8 DEF BrokerGets, Acknowledges
  <2> QED
    BY <1>1, <1>5, <1>6, <2>1 DEF Consistent, Agree, AnswerRight, HasId
<1>9. CASE packet.type = "PINGREQ"
  <2> DEFINE pong == [type |-> "PINGRESP"]
  <2>1. toClient' = Append(toClient, pong) /\ received' = received
    BY <1>9 DEF BrokerGets, Acknowledges
  <2>2. pong \in ToClient /\ ~HasId(pong)
    BY DEF ToClient, HasId
  <2> HIDE DEF pong
  <2>3. ASSUME NEW n \in DOMAIN toClient', HasId(toClient'[n])
        PROVE  n \in DOMAIN toClient /\ toClient'[n] = toClient[n]
    BY <1>2, <2>1, <2>2, <2>3, AppendProperties, LenProperties DEF Wire
  <2>4. (\A n \in DOMAIN toClient : AnswerRight(toClient[n]))'
    BY <2>1, <2>3 DEF Consistent, AnswerRight, HasId
  <2>5. Agree(outbox, toClient)'
    BY <1>1, <2>3 DEF Consistent, Agree, HasId
  <2> QED
    BY <1>5, <1>6, <2>4, <2>5 DEF Consistent
<1>10. CASE packet.type \in DOMAIN Acknowledges
  <2>1. /\ toClient' = Append(toClient, answer)
        /\ received' = received \cup ({packet.msg} \ {None})
    BY <1>10 DEF BrokerGets, Acknowledges
  <2>2. packet \in Requests
    BY <1>7, <1>10
  <2>3. /\ answer \in ToClient /\ HasId(packet)
        /\ answer.id = packet.id /\ answer.msg = packet.msg
        /\ answer.type = "PUBACK" <=> packet.type = "PUBLISH"
    BY <2>2, AnswerType, PacketHasId DEF ToClient
  <2>4. packet.type = "PUBLISH" <=> packet.msg # None
    BY <1>3, <2>3 DEF Consistent, RequestRight
  <2>5. \A k \in DOMAIN outbox : outbox[k].id = packet.id => outbox[k].msg = packet.msg
    BY <1>3, <2>3 DEF Consistent, Agree
  <2> HIDE DEF answer, packet
  <2>6. ASSUME NEW n \in DOMAIN toClient'
        PROVE  \/ n \in DOMAIN toClient /\ toClient'[n] = toClient[n]
               \/ toClient'[n] = answer
    BY <1>2, <2>1, <2>3, AppendProperties, LenProperties DEF Wire
  <2>7. ASSUME NEW n \in DOMAIN toClient', HasId(toClient'[n])
        PROVE  /\ toClient'[n].msg \in received' \cup {None}
               /\ toClient'[n].type = "PUBACK" <=> toClient'[n].msg # None
    <3>1. CASE n \in DOMAIN toClient /\ toClient'[n] = toClient[n]
      BY <2>1, <2>7, <3>1 DEF Consistent, AnswerRight
    <3>2. CASE toClient'[n] = answer
      BY <2>1, <2>3, <2>4, <3>2
    <3> QED
      BY <2>6, <3>1, <3>2
  <2>8. ASSUME NEW k \in DOMAIN outbox, NEW n \in DOMAIN toClient',
               HasId(toClient'[n]), toClient'[n].id = outbox[k].id
        PROVE  toClient'[n].msg = outbox[k].msg
    <3>1. CASE n \in DOMAIN toClient /\ toClient'[n] = toClient[n]
      BY <2>8, <3>1 DEF Consistent, Agree
    <3>2. CASE toClient'[n] = answer
      BY <2>3, <2>5, <2>8, <3>2
    <3> QED
      BY <2>6, <3>1, <3>2
  <2>9. (\A n \in DOMAIN toClient : AnswerRight(toClient[n]))'
    BY <2>7 DEF AnswerRight, HasId
  <2>10. Agree(outbox, toClient)'
    BY <1>1, <2>8 DEF Agree, HasId
  <2> QED
    BY <1>5, <1>6, <2>9, <2>10 DEF Consistent
<1> QED
  BY <1>7, <1>8, <1>9, <1>10

-----------------------------------------------------------------------------
(* The steps of the client as steps of Delivery.                           *)

\* What is kept was published.
LEMMA HeldKnown ==
    ASSUME TypeOK, Known(outbox), NEW m \in Messages, Holds(m)
    PROVE  m \in 1..published
  BY DEF Holds, Known, Messages, TypeOK

\* A step that takes nothing up, confirms nothing and delivers nothing.
LEMMA DropStep ==
    ASSUME TypeOK, Known(outbox), UNCHANGED history,
           \A m \in Messages : Holds(m)' => Holds(m)
    PROVE  Promise!Next
<1> DEFINE kept == {m \in Messages : Holds(m)}
           ended == {m \in 1..published : ~Holds(m)}
           dropped == {m \in Messages : Holds(m) /\ ~Holds(m)'}
<1>1. \A m \in 1..published : m \in Messages
  BY MqttClientAssumption DEF TypeOK, Messages
<1>2. dropped \in SUBSET kept
  OBVIOUS
<1>3. kept' = kept \ dropped
  OBVIOUS
<1>4. ended' = ended \cup dropped
  <2>1. published' = published
    BY DEF history
  <2>2. \A m \in dropped : m \in 1..published
    BY HeldKnown
  <2>3. ended' = {m \in 1..published : ~Holds(m)'}
    BY <2>1
  <2> HIDE DEF Holds
  <2> QED
    BY <1>1, <2>2, <2>3
<1>5. Promise!Drop(dropped)
  BY <1>3, <1>4 DEF Promise!Drop, history
<1> QED
  BY <1>2, <1>5 DEF Promise!Next

\* A publish that takes the next message, and gives older ones up for it.
LEMMA AcceptStep ==
    ASSUME TypeOK, Known(outbox), NEW m \in Messages, m = published + 1, published' = m,
           UNCHANGED <<received, confirmed>>, Holds(m)',
           \A x \in Messages : Holds(x)' => Holds(x) \/ x = m
    PROVE  Promise!Next
<1> DEFINE kept == {x \in Messages : Holds(x)}
           ended == {x \in 1..published : ~Holds(x)}
           dropped == {x \in Messages : Holds(x) /\ ~Holds(x)'}
<1>1. published \in Nat /\ \A x \in 1..published : x \in Messages
  BY MqttClientAssumption DEF TypeOK, Messages
<1>2. \A x \in Messages : Holds(x) => x \in 1..published
  BY HeldKnown
<1>3. m \notin 1..published
  BY <1>1
<1>4. dropped \in SUBSET kept
  OBVIOUS
<1>5. m \notin kept \cup ended
  BY <1>2, <1>3
<1>6. kept' = (kept \ dropped) \cup {m}
  OBVIOUS
<1>7. ended' = ended \cup dropped
  <2>1. ended' = {x \in 1..m : ~Holds(x)'}
    OBVIOUS
  <2>2. \A x : x \in 1..m <=> x \in 1..published \/ x = m
    BY <1>1
  <2> HIDE DEF Holds
  <2> QED
    BY <1>1, <1>2, <1>3, <2>1, <2>2
<1>8. Promise!Accept(m, dropped)
  BY <1>5, <1>6, <1>7 DEF Promise!Accept
<1> QED
  BY <1>4, <1>8 DEF Promise!Next

\* A publish that finds no memory.
LEMMA RefuseStep ==
    ASSUME TypeOK, Known(outbox), NEW m \in Messages, PublishNoMemory(m)
    PROVE  Promise!Next
<1> DEFINE kept == {x \in Messages : Holds(x)}
           ended == {x \in 1..published : ~Holds(x)}
<1>1. published \in Nat
  BY MqttClientAssumption DEF TypeOK
<1>2. m = published + 1 /\ published' = m /\ UNCHANGED <<outbox, received, confirmed>>
  BY DEF PublishNoMemory
<1>3. \A x \in Messages : Holds(x) => x \in 1..published
  BY HeldKnown
<1>4. \A x : Holds(x)' <=> Holds(x)
  BY <1>2 DEF Holds
<1> HIDE DEF Holds
<1>5. m \notin kept \cup ended /\ ~Holds(m)
  BY <1>1, <1>2, <1>3
<1>6. kept' = kept
  BY <1>4
<1>7. ended' = ended \cup {m}
  <2>1. ended' = {x \in 1..m : ~Holds(x)'}
    BY <1>2
  <2>2. \A x : x \in 1..m <=> x \in 1..published \/ x = m
    BY <1>1, <1>2
  <2> QED
    BY <1>4, <1>5, <2>1, <2>2
<1>8. Promise!Refuse(m)
  BY <1>2, <1>5, <1>6, <1>7 DEF Promise!Refuse
<1> QED
  BY <1>8 DEF Promise!Next

\* An acknowledgement: the item it takes is about a message the broker has.
LEMMA ConfirmStep ==
    ASSUME TypeOK, Consistent, ReceiveAck
    PROVE  Promise!Next
<1> DEFINE packet == Head(toClient)
           items == AcknowledgedBy(packet)
           k == First(items)
           m == outbox[k].msg
           kept == {x \in Messages : Holds(x)}
           ended == {x \in 1..published : ~Holds(x)}
<1>1. Known(outbox) /\ outbox \in Seq(Items) /\ UNCHANGED <<published, received>>
  BY DEF Consistent, TypeOK, ReceiveAck
<1>2. CASE items = {}
  <2>1. UNCHANGED <<outbox, history>>
    BY <1>2 DEF ReceiveAck, store, history
  <2> QED
    BY <1>1, <2>1, DropStep DEF Holds
<1>3. CASE items # {}
  <2>1. k \in items /\ k \in 1..Len(outbox) /\ DOMAIN outbox = 1..Len(outbox)
        /\ Len(outbox) \in Nat
    BY <1>1, <1>3, FirstOf, LenProperties, items \in SUBSET DOMAIN outbox
       DEF AcknowledgedBy
  <2>2. outbox' = RemoveAt(outbox, k) /\ confirmed' = confirmed \cup ({m} \ {None})
    BY <1>3 DEF ReceiveAck
  <2>3. Within(outbox', outbox)
    BY <1>1, <2>1, <2>2, WithinRemoveAt
  <2>4. \A x : Holds(x)' => Holds(x)
    BY <2>3 DEF Within, Holds
  <2>5. outbox[k] \in Items
    BY <1>1, <2>1, ElementOfSeq
  <2>6. CASE m = None
    <3>1. UNCHANGED history
      BY <1>1, <2>2, <2>6 DEF history
    <3> QED
      BY <1>1, <2>4, <3>1, DropStep
  <2>7. ASSUME NEW c \in Messages, m = c
        PROVE  Promise!Next
    <3>1. Holds(c) /\ c # None
      BY <2>1, <2>7 DEF Holds, Messages, None
    <3>2. packet = toClient[1] /\ 1 \in DOMAIN toClient
      <4>1. toClient # <<>>
        BY DEF ReceiveAck
      <4> QED
        BY <4>1, EmptySeq, LenProperties DEF TypeOK
    <3>3. HasId(packet) /\ packet.id = outbox[k].id
      BY <2>1 DEF ReceiveAck, AcknowledgedBy
    <3>4. packet.msg = c
      BY <2>1, <2>7, <3>2, <3>3 DEF Consistent, Agree
    <3>5. c \in received
      BY <3>1, <3>2, <3>3, <3>4 DEF Consistent, AnswerRight
    <3>6. \A j \in DOMAIN outbox : outbox[j].msg = c => j = k
      BY <2>1, <2>7, <3>1 DEF Consistent, Apart
    <3>7. ~Holds(c)'
      <4>1. PICK f \in [DOMAIN outbox' -> 1..Len(outbox)] :
               \A n \in DOMAIN outbox' : outbox'[n] = outbox[f[n]] /\ f[n] # k
        <5> DEFINE f == [n \in 1..Len(outbox) - 1 |-> IF n < k THEN n ELSE n + 1]
        <5>1. /\ DOMAIN outbox' = 1..Len(outbox) - 1
              /\ \A n \in 1..Len(outbox) - 1 : outbox'[n] = outbox[f[n]]
          BY <1>1, <2>1, <2>2, RemoveAtKeeps, LenProperties
        <5>2. \A n \in 1..Len(outbox) - 1 : f[n] \in 1..Len(outbox) /\ f[n] # k
          BY <2>1
        <5> QED
          BY <5>1, <5>2
      <4> QED
        BY <2>1, <3>6, <4>1 DEF Holds
    <3>8. ASSUME NEW x, Holds(x), x # c
          PROVE  Holds(x)'
      <4>1. PICK j \in 1..Len(outbox) : outbox[j].msg = x /\ j # k
        BY <2>1, <2>7, <3>8 DEF Holds
      <4> DEFINE n == IF j < k THEN j ELSE j - 1
      <4>2. n \in 1..Len(outbox) - 1 /\ (IF n < k THEN n ELSE n + 1) = j
        BY <2>1, <4>1
      <4>3. outbox'[n] = outbox[j] /\ n \in DOMAIN outbox'
        BY <1>1, <2>1, <2>2, <4>2, RemoveAtKeeps, LenProperties
      <4> QED
        BY <4>1, <4>3 DEF Holds
    <3>9. c \in 1..published
      BY <1>1, <3>1, HeldKnown
    <3> HIDE DEF Holds, m
    <3>10. kept' = kept \ {c}
      BY <2>4, <3>7, <3>8
    <3>11. ended' = ended \cup {c}
      BY <1>1, <2>4, <3>7, <3>8, <3>9
    <3>12. confirmed' = confirmed \cup {c}
      BY <2>2, <2>7, <3>1
    <3>13. Promise!Confirm(c)
      BY <1>1, <3>1, <3>5, <3>10, <3>11, <3>12 DEF Promise!Confirm
    <3> QED
      BY <3>1, <3>13 DEF Promise!Next
  <2>8. m \in Messages \cup {None}
    BY <2>5 DEF Items
  <2> QED
    BY <2>6, <2>7, <2>8
<1> QED
  BY <1>2, <1>3

\* The broker takes a packet: a message it gets was published before.
LEMMA ReceiveStep ==
    ASSUME TypeOK, Consistent, BrokerGets
    PROVE  Promise!Next
<1> DEFINE packet == Head(toBroker)
           m == packet.msg
           kept == {x \in Messages : Holds(x)}
           ended == {x \in 1..published : ~Holds(x)}
<1>1. toBroker # <<>> /\ UNCHANGED <<outbox, published, confirmed>> /\ Known(outbox)
  BY DEF BrokerGets, store, Consistent
<1>2. /\ packet.type \in {"DISCONNECT", "PINGREQ"} \cup DOMAIN Acknowledges
      /\ packet.type \in DOMAIN Acknowledges => packet \in Requests
  BY <1>1, HeadOfBroker DEF TypeOK, Wire, ToBroker, Requests, Acknowledges
<1>3. CASE UNCHANGED received
  BY <1>1, <1>3, DropStep DEF Holds, history
<1>4. CASE /\ packet \in Requests /\ m \in Messages
           /\ received' = received \cup {m}
  <2>1. packet = toBroker[1] /\ 1 \in DOMAIN toBroker
    BY <1>1, EmptySeq, LenProperties DEF TypeOK
  <2>2. m \in 1..published
    BY <1>4, <2>1, PacketHasId DEF Consistent, RequestRight, TypeOK, Messages
  <2>3. m \in kept \cup ended
    BY <1>4, <2>2
  <2>4. kept' = kept /\ ended' = ended
    BY <1>1 DEF Holds
  <2>5. Promise!Receive(m)
    BY <1>1, <1>4, <2>3, <2>4 DEF Promise!Receive
  <2> QED
    BY <1>4, <2>5 DEF Promise!Next
<1>5. \/ UNCHANGED received
      \/ packet \in Requests /\ received' = received \cup ({m} \ {None})
  BY <1>2 DEF BrokerGets
<1>6. packet \in Requests => m \in Messages \cup {None}
  BY DEF Requests
<1> QED
  BY <1>3, <1>4, <1>5, <1>6

\* A step that publishes, confirms and delivers nothing takes up no message.
LEMMA QuietStep ==
    ASSUME TypeOK, Consistent, [Next]_vars, UNCHANGED history
    PROVE  Promise!Next
<1>1. /\ outbox \in Seq(Items) /\ FreshId \in Ids /\ Known(outbox)
      /\ published \in Nat /\ published' = published
  BY FreshIdFree, MqttClientAssumption DEF TypeOK, Consistent, history
<1>2. PICK m \in Messages \cup {None} :
              /\ Within(outbox', outbox) \/ Within(outbox', Added(m))
              /\ m # None => m = published + 1 /\ published' = m
  BY ItemComes
<1>3. m = None
  BY <1>1, <1>2
<1>4. ASSUME NEW x \in Messages, Holds(x)'
      PROVE  Holds(x)
  <2>1. PICK k \in DOMAIN outbox' : outbox'[k].msg = x
    BY <1>4 DEF Holds
  <2>2. x # None
    BY DEF Messages, None
  <2>3. Within(outbox', outbox) \/ Within(outbox', Added(None))
    BY <1>2, <1>3
  <2>4. \/ \E j \in DOMAIN outbox : outbox'[k].msg = outbox[j].msg
        \/ outbox'[k].msg = None
    BY <1>1, <2>3, ItemFrom
  <2> QED
    BY <2>1, <2>2, <2>4 DEF Holds
<1> QED
  BY <1>1, <1>4, DropStep

\* esp_mqtt_client_publish takes the next message up, or ends it at once.
LEMMA PublishStep ==
    ASSUME TypeOK, Consistent, NEW m \in Messages, Publish(m)
    PROVE  Promise!Next
<1> USE DEF vars
<1>1. /\ outbox \in Seq(Items) /\ FreshId \in Ids /\ Known(outbox)
      /\ Item(FreshId, m) \in Items /\ Item(FreshId, m).msg = m
  BY FreshIdFree, ItemType DEF TypeOK, Consistent
<1>2. m = published + 1 /\ published' = m /\ UNCHANGED <<received, confirmed>>
  BY DEF Publish, PublishNoMemory, PublishSent, PublishFails, PublishOffline
<1>3. ASSUME Within(outbox', Added(m)), Holds(m)'
      PROVE  Promise!Next
  <2>1. ASSUME NEW x \in Messages, Holds(x)'
        PROVE  Holds(x) \/ x = m
    <3>1. PICK k \in DOMAIN outbox' : outbox'[k].msg = x
      BY <2>1 DEF Holds
    <3> QED
      BY <1>1, <1>3, <3>1, ItemFrom DEF Holds
  <2> QED
    BY <1>1, <1>2, <1>3, <2>1, AcceptStep
<1>4. CASE PublishNoMemory(m)
  BY <1>1, <1>4, RefuseStep
<1>5. CASE PublishSent(m)
  <2>1. outbox' = SetTransmitted(Added(m), FreshId)
    BY <1>5 DEF PublishSent, Added
  <2>2. Within(outbox', Added(m))
    BY <1>1, <2>1, AppendProperties, TransmittedWithin DEF Added
  <2>3. AsksFor(Packet(Item(FreshId, m)), outbox')
    BY <1>1, <2>1, AddedAsked
  <2>4. Packet(Item(FreshId, m)).msg = m
    BY <1>1 DEF Packet
  <2>5. Holds(m)'
    BY <2>3, <2>4 DEF AsksFor, Holds
  <2> QED
    BY <1>3, <2>2, <2>5
<1>6. ASSUME NEW items \in Seq(Items), Within(items, outbox),
             outbox' = Append(items, Item(FreshId, m))
      PROVE  Promise!Next
  <2>1. Within(outbox', Added(m))
    BY <1>1, <1>6, WithinAppend DEF Added
  <2>2. Len(items) + 1 \in DOMAIN outbox' /\ outbox'[Len(items) + 1].msg = m
    BY <1>1, <1>6, AppendProperties, LenProperties
  <2>3. Holds(m)'
    BY <2>2 DEF Holds
  <2> QED
    BY <1>3, <2>1, <2>3
<1>7. CASE PublishFails(m)
  BY <1>1, <1>6, <1>7, WithinSame DEF PublishFails
<1>8. CASE PublishOffline(m)
  BY <1>1, <1>6, <1>8, UnexpiredChooses, WithinUnexpired DEF PublishOffline
<1> QED
  BY <1>4, <1>5, <1>7, <1>8 DEF Publish

\* Every step of the system is one of Delivery.
LEMMA PromiseStep ==
    ASSUME TypeOK, Consistent, [Next]_vars
    PROVE  Promise!Next
<1> USE DEF vars, history
<1>1. CASE ReceiveAck
  BY <1>1, ConfirmStep
<1>2. CASE BrokerGets
  BY <1>2, ReceiveStep
<1>3. ASSUME NEW m \in Messages, Publish(m)
      PROVE  Promise!Next
  BY <1>3, PublishStep
<1>4. CASE Task /\ ~ReceiveAck
  <2>1. UNCHANGED history
    BY <1>4 DEF Task, WaitOver, ConnectOk, ConnectFails, Receive, ReceiveNothing,
       ReceiveFails, ReceivePingResp, ResendNothing, Resend, ResendFails,
       Keepalive, KeepaliveNotDue, KeepalivePing, KeepaliveFails, Poll, PollOk, PollFails,
       TaskCloses, TaskEnds
  <2> QED
    BY <2>1, QuietStep
<1>5. CASE Handler \/ Destroy \/ Break \/ Tick \/ UNCHANGED vars
  <2>1. UNCHANGED history
    BY <1>5 DEF Handler, HandlerStop, HandlerStopped, HandlerStart, Destroy, SenderStop,
       SenderDestroy, Break, Tick
  <2> QED
    BY <2>1, QuietStep
<1> QED
  BY <1>1, <1>2, <1>3, <1>4, <1>5 DEF Next

\* The client keeps a message until the broker has it or the message is dropped for
\* good, and confirms only what the broker has: every step of the task, of its callers
\* and of the network is a step of Delivery.
THEOREM Delivers == Spec => Delivered
<1>1. Init => Promise!Init /\ Consistent
  <2> SUFFICES ASSUME Init PROVE Promise!Init /\ Consistent
    OBVIOUS
  <2>1. DOMAIN <<>> = {}
    OBVIOUS
  <2>2. Consistent
    BY <2>1 DEF Init, Consistent, Apart, Known, Agree
  <2>3. {m \in Messages : Holds(m)} = {} /\ {m \in 1..published : ~Holds(m)} = {}
    BY <2>1 DEF Init, Holds
  <2> QED
    BY <2>2, <2>3 DEF Init, Promise!Init
<1>2. TypeOK /\ Consistent /\ [Next]_vars => Consistent'
  BY ConsistentTask, ConsistentBroker
<1>3. TypeOK /\ Consistent /\ [Next]_vars => [Promise!Next]_(Promise!vars)
  BY PromiseStep
<1> QED
  BY <1>1, <1>2, <1>3, TypeCorrect, PTL DEF Spec, Delivered, Promise!Spec
\* A positive number of bytes is a sequence.
LEMMA FunctionIsSeq ==
    ASSUME NEW n \in Nat, NEW f \in [1..n -> Nat]
    PROVE  f \in Seq(Nat)
  BY SeqDef

\* Dividing leaves a quotient and a rest.
LEMMA Quotient ==
    ASSUME NEW n \in Nat, NEW d \in Nat \ {0}
    PROVE  /\ n \div d \in Nat /\ n % d \in 0..(d - 1)
           /\ n = d * (n \div d) + (n % d)
  OBVIOUS

\* Numbers stay numbers.
LEMMA Product ==
    ASSUME NEW x \in Nat, NEW y \in Nat
    PROVE  x * y \in Nat
  OBVIOUS

\* A number is its last digit and what is before it.
LEMMA Division ==
    ASSUME NEW n \in Nat
    PROVE  /\ n \div LengthBase \in Nat
           /\ n % LengthBase \in 0..(LengthBase - 1)
           /\ n = LengthBase * (n \div LengthBase) + (n % LengthBase)
  BY OutputAssumption

\* A digit, marked or not, is a byte that continues if it is marked.
LEMMA Marked ==
    ASSUME NEW d \in 0..(LengthBase - 1)
    PROVE  /\ d + LengthBase \in Nat /\ Continues(d + LengthBase) /\ ~Continues(d + 0)
           /\ d + 0 = d /\ d % LengthBase = d /\ (d + LengthBase) % LengthBase = d
  BY OutputAssumption DEF Continues

\* The number that digits in base LengthBase stand for, marked or not.
LengthOf(bs) ==
    LET digit(k) == IF k <= Len(bs) THEN bs[k] % LengthBase ELSE 0
    IN  digit(1) + LengthBase * (digit(2) + LengthBase * (digit(3) + LengthBase * digit(4)))

\* Bytes of a length: all continue but the last.
IsLength(bs, n) ==
    /\ bs \in Seq(Nat) /\ Len(bs) \in 1..4
    /\ \A k \in 1..(Len(bs) - 1) : Continues(bs[k])
    /\ ~Continues(bs[Len(bs)])
    /\ LengthOf(bs) = n

\* The least of a set of numbers.
LEMMA LeastOf ==
    ASSUME NEW S \in SUBSET (1..5), 5 \in S
    PROVE  Min(S) \in S /\ \A k \in S : Min(S) <= k
<1>1. \E m \in S : \A k \in S : m <= k
  BY 1 \in S \/ 2 \in S \/ 3 \in S \/ 4 \in S \/ 5 \in S
<1> QED
  BY <1>1 DEF Min

\* A length that finds room is read as it was.
LEMMA LengthWritten ==
    ASSUME NEW n \in Nat, Len(LengthBytes(n)) <= 4
    PROVE  IsLength(LengthBytes(n), n)
<1> DEFINE a == n \div LengthBase
           b == a \div LengthBase
           c == b \div LengthBase
           d == c \div LengthBase
           rest == <<n, a, b, c, d>>
           S == {k \in 1..4 : rest[k + 1] = 0} \cup {5}
           count == Min(S)
           bs == LengthBytes(n)
<1>1. bs = [k \in 1..count |-> (rest[k] % LengthBase) + Flag(k < count, LengthBase)]
  BY DEF LengthBytes
<1>2. count \in S /\ (\A k \in S : count <= k)
  BY LeastOf
<1>3. /\ a \in Nat /\ b \in Nat /\ c \in Nat /\ d \in Nat
      /\ n % LengthBase \in 0..(LengthBase - 1) /\ a % LengthBase \in 0..(LengthBase - 1)
      /\ b % LengthBase \in 0..(LengthBase - 1) /\ c % LengthBase \in 0..(LengthBase - 1)
  BY Division
<1>4. /\ n = LengthBase * a + (n % LengthBase) /\ a = LengthBase * b + (a % LengthBase)
      /\ b = LengthBase * c + (b % LengthBase) /\ c = LengthBase * d + (c % LengthBase)
  BY <1>3, Division
<1>5. Len(bs) = count /\ count \in 1..4
  BY <1>1, <1>2
<1>6. \A k \in 1..4 : rest[k] \in Nat /\ rest[k] % LengthBase \in 0..(LengthBase - 1)
  BY <1>3
<1>7. \A k \in 1..count :
         /\ bs[k] \in Nat /\ bs[k] % LengthBase = rest[k] % LengthBase
         /\ (k < count <=> Continues(bs[k]))
  <2> SUFFICES ASSUME NEW k \in 1..count
               PROVE  /\ bs[k] \in Nat /\ bs[k] % LengthBase = rest[k] % LengthBase
                      /\ (k < count <=> Continues(bs[k]))
    OBVIOUS
  <2> DEFINE e == rest[k] % LengthBase
  <2>1. e \in 0..(LengthBase - 1)
    BY <1>5, <1>6
  <2>2. bs[k] = e + Flag(k < count, LengthBase)
    BY <1>1
  <2> HIDE DEF e, bs, count
  <2>3. bs[k] \in Nat /\ bs[k] % LengthBase = e /\ (k < count <=> Continues(bs[k]))
    <3>1. CASE k < count
      <4>1. bs[k] = e + LengthBase
        BY <2>2, <3>1 DEF Flag
      <4> QED
        BY <2>1, <3>1, <4>1, Marked
    <3>2. CASE ~(k < count)
      <4>1. bs[k] = e
        BY <2>1, <2>2, <3>2 DEF Flag
      <4> QED
        BY <2>1, <3>2, <4>1, Marked, OutputAssumption
    <3> QED
      BY <3>1, <3>2
  <2> QED
    BY <2>3 DEF e
<1>8. bs \in Seq(Nat)
  <2>1. DOMAIN bs = 1..count /\ \A k \in 1..count : bs[k] \in Nat
    BY <1>1, <1>7
  <2>2. bs \in [1..count -> Nat]
    BY <1>1, <2>1
  <2>3. count \in Nat
    BY <1>5
  <2> HIDE DEF bs, count
  <2> QED
    BY <2>2, <2>3, FunctionIsSeq
<1>9. \A k \in 1..count : bs[k] % LengthBase = rest[k] % LengthBase
  BY <1>7
<1>10. rest[count + 1] = 0
  BY <1>2, <1>5
<1> HIDE DEF count, S
<1> HIDE DEF bs
<1> HIDE DEF a, b, c, d
<1>11. LengthOf(bs) = n
  <2> DEFINE p == n % LengthBase
             q == a % LengthBase
             r == b % LengthBase
             s == c % LengthBase
  <2>1. p \in Nat /\ q \in Nat /\ r \in Nat /\ s \in Nat /\ LengthBase \in Nat
    BY <1>3, OutputAssumption
  <2>2. /\ n = LengthBase * a + p /\ a = LengthBase * b + q
        /\ b = LengthBase * c + r /\ c = LengthBase * d + s
    BY <1>4
  <2>3. LengthBase * 0 = 0 /\ \A x \in Nat : x + LengthBase * 0 = x /\ LengthBase * 0 + x = x
    BY <2>1
  <2>4. CASE count = 1
    <3>1. LengthOf(bs) = p + LengthBase * (0 + LengthBase * (0 + LengthBase * 0))
      BY <1>5, <1>9, <2>4 DEF LengthOf
    <3>2. a = 0
      BY <1>10, <2>4
    <3> HIDE DEF p, q, r, s
    <3> QED
      BY <2>1, <2>2, <2>3, <3>1, <3>2
  <2>5. CASE count = 2
    <3>1. LengthOf(bs) = p + LengthBase * (q + LengthBase * (0 + LengthBase * 0))
      BY <1>5, <1>9, <2>5 DEF LengthOf
    <3>2. b = 0
      BY <1>10, <2>5
    <3> HIDE DEF p, q, r, s
    <3>3. q + LengthBase * (0 + LengthBase * 0) = a
      BY <2>1, <2>2, <2>3, <3>2
    <3> QED
      BY <1>3, <2>1, <2>2, <3>1, <3>3
  <2>6. CASE count = 3
    <3>1. LengthOf(bs) = p + LengthBase * (q + LengthBase * (r + LengthBase * 0))
      BY <1>5, <1>9, <2>6 DEF LengthOf
    <3>2. c = 0
      BY <1>10, <2>6
    <3> HIDE DEF p, q, r, s
    <3>3. r + LengthBase * 0 = b
      BY <2>1, <2>2, <2>3, <3>2
    <3>4. q + LengthBase * b = a
      BY <1>3, <2>1, <2>2
    <3> QED
      BY <1>3, <2>1, <2>2, <3>1, <3>3, <3>4
  <2>7. CASE count = 4
    <3>1. LengthOf(bs) = p + LengthBase * (q + LengthBase * (r + LengthBase * s))
      BY <1>5, <1>9, <2>7 DEF LengthOf
    <3>2. d = 0
      BY <1>10, <2>7
    <3> HIDE DEF p, q, r, s
    <3>3. s = c
      BY <2>1, <2>2, <2>3, <3>2
    <3>4. r + LengthBase * c = b
      BY <1>3, <2>1, <2>2
    <3>5. q + LengthBase * b = a
      BY <1>3, <2>1, <2>2
    <3> QED
      BY <1>3, <2>1, <2>2, <3>1, <3>3, <3>4, <3>5
  <2> QED
    BY <1>5, <2>4, <2>5, <2>6, <2>7
<1> QED
  BY <1>5, <1>7, <1>8, <1>11 DEF IsLength, bs

-----------------------------------------------------------------------------
\* The bytes of b behind the k-th are s, and more.
At(b, k, s) == k + Len(s) <= Len(b) /\ \A i \in 1..Len(s) : b[k + i] = s[i]

\* All of b is at its start.
LEMMA AtStart ==
    ASSUME NEW b \in Seq(Nat)
    PROVE  At(b, 0, b)
  BY DEF At

\* What is at a place is there part by part.
LEMMA AtParts ==
    ASSUME NEW b \in Seq(Nat), NEW k \in Nat, NEW s \in Seq(Nat), NEW t \in Seq(Nat)
    PROVE  At(b, k, s \o t) <=> At(b, k, s) /\ At(b, k + Len(s), t)
<1>1. /\ Len(s \o t) = Len(s) + Len(t)
      /\ \A i \in 1 .. Len(s) + Len(t) :
             (s \o t)[i] = IF i <= Len(s) THEN s[i] ELSE t[i - Len(s)]
  BY ConcatProperties
<1>2. Len(s) \in Nat /\ Len(t) \in Nat /\ Len(b) \in Nat
  OBVIOUS
<1>3. ASSUME At(b, k, s \o t) PROVE At(b, k, s) /\ At(b, k + Len(s), t)
  <2>1. ASSUME NEW i \in 1..Len(s) PROVE b[k + i] = s[i]
    <3>1. i \in 1..(Len(s) + Len(t)) /\ i <= Len(s)
      BY <1>2
    <3>2. b[k + i] = (s \o t)[i]
      BY <1>1, <1>3, <3>1 DEF At
    <3> QED
      BY <1>1, <3>1, <3>2
  <2>2. ASSUME NEW i \in 1..Len(t) PROVE b[(k + Len(s)) + i] = t[i]
    <3>1. Len(s) + i \in 1..(Len(s) + Len(t)) /\ k + (Len(s) + i) = (k + Len(s)) + i
          /\ (Len(s) + i) - Len(s) = i /\ ~(Len(s) + i <= Len(s))
      BY <1>2
    <3> QED
      BY <1>1, <1>3, <3>1 DEF At
  <2>3. k + (Len(s) + Len(t)) <= Len(b)
    BY <1>1, <1>3 DEF At
  <2>4. k + Len(s) <= Len(b) /\ (k + Len(s)) + Len(t) <= Len(b)
    BY <1>2, <2>3
  <2> QED
    BY <2>1, <2>2, <2>4 DEF At
<1>4. ASSUME At(b, k, s), At(b, k + Len(s), t) PROVE At(b, k, s \o t)
  <2>4. (k + Len(s)) + Len(t) <= Len(b)
    BY <1>4 DEF At
  <2>5. k + Len(s \o t) <= Len(b)
    BY <1>1, <1>2, <2>4
  <2> SUFFICES ASSUME NEW i \in 1 .. Len(s) + Len(t) PROVE b[k + i] = (s \o t)[i]
    BY <1>1, <2>5 DEF At
  <2>1. CASE i <= Len(s)
    <3>1. i \in 1..Len(s)
      BY <1>2, <2>1
    <3>2. b[k + i] = s[i]
      BY <1>4, <3>1 DEF At
    <3>3. (s \o t)[i] = s[i]
      BY <1>1, <2>1
    <3> QED
      BY <3>2, <3>3
  <2>2. CASE ~(i <= Len(s))
    <3>1. i - Len(s) \in 1..Len(t) /\ (k + Len(s)) + (i - Len(s)) = k + i
      BY <1>2, <2>2
    <3> QED
      BY <1>1, <1>4, <2>2, <3>1 DEF At
  <2> QED
    BY <2>1, <2>2
<1> QED
  BY <1>3, <1>4

\* What is at a place is cut out there.
LEMMA AtCut ==
    ASSUME NEW b \in Seq(Nat), NEW k \in Nat, NEW s \in Seq(Nat), At(b, k, s)
    PROVE  SubSeq(b, k + 1, k + Len(s)) = s
<1> DEFINE m == k + 1
           n == k + Len(s)
           c == SubSeq(b, m, n)
<1>1. m \in Int /\ n \in Int /\ \A i \in m..n : b[i] \in Nat
  BY DEF At
<1>2. /\ c \in Seq(Nat) /\ Len(c) = (IF m <= n THEN n - m + 1 ELSE 0)
      /\ \A i \in 1 .. n - m + 1 : c[i] = b[m + i - 1]
  BY <1>1, SubSeqProperties
<1>3. Len(c) = Len(s) /\ n - m + 1 = Len(s)
  BY <1>2
<1>4. \A i \in 1..Len(s) : m + i - 1 = k + i
  OBVIOUS
<1>5. \A i \in 1..Len(s) : c[i] = s[i]
  BY <1>2, <1>3, <1>4 DEF At
<1> HIDE DEF c
<1>6. c = s
  BY <1>2, <1>3, <1>5, SeqEqual
<1> QED
  BY <1>6 DEF c

\* Two bytes hold a number.
LEMMA NumberAt ==
    ASSUME NEW b \in Seq(Nat), NEW k \in Nat, NEW n \in TwoByteNumbers, At(b, k, TwoBytes(n))
    PROVE  Number(b, k + 1) = n
<1> DEFINE base == 2 * LengthBase
<1>1. base \in Nat \ {0}
  BY OutputAssumption
<1>2. TwoBytes(n) = <<n \div base, n % base>>
  BY DEF TwoBytes
<1>3. b[k + 1] = n \div base /\ b[(k + 1) + 1] = n % base
  <2>1. Len(TwoBytes(n)) = 2 /\ TwoBytes(n)[1] = n \div base /\ TwoBytes(n)[2] = n % base
    BY <1>2
  <2>2. (k + 1) + 1 = k + 2
    OBVIOUS
  <2> QED
    BY <2>1, <2>2 DEF At
<1>4. n \in Nat
  BY OutputAssumption DEF TwoByteNumbers
<1>5. n = (n \div base) * 2 * LengthBase + (n % base)
  <2>1. n = base * (n \div base) + (n % base) /\ n \div base \in Nat
    <3> HIDE DEF base
    <3> QED
      BY <1>1, <1>4, Quotient
  <2>2. n \div base \in Nat
    BY <2>1
  <2>3. base * (n \div base) = (n \div base) * 2 * LengthBase
    BY <2>2, OutputAssumption
  <2> QED
    BY <2>1, <2>3
<1> QED
  BY <1>3, <1>5 DEF Number

\* Two bytes are two bytes.
LEMMA TwoBytesType ==
    ASSUME NEW n \in Nat
    PROVE  TwoBytes(n) \in Seq(Nat) /\ Len(TwoBytes(n)) = 2
<1>1. 2 * LengthBase \in Nat \ {0}
  BY OutputAssumption
<1>2. n \div (2 * LengthBase) \in Nat /\ n % (2 * LengthBase) \in Nat
  BY <1>1
<1> QED
  BY <1>2 DEF TwoBytes

\* So are those of an id.
LEMMA IdType ==
    ASSUME NEW n \in TwoByteNumbers
    PROVE  TwoBytes(n) \in Seq(Nat) /\ Len(TwoBytes(n)) = 2
<1>1. n \in Nat
  BY OutputAssumption DEF TwoByteNumbers
<1> QED
  BY <1>1, TwoBytesType

\* A string, with its length before it, is found.
LEMMA StringAtPlace ==
    ASSUME NEW b \in Seq(Nat), NEW k \in Nat, NEW s \in Seq(Nat), Len(s) \in TwoByteNumbers,
           At(b, k, String(s))
    PROVE  /\ Number(b, k + 1) = Len(s) /\ At(b, k + 2, s)
           /\ SubSeq(b, k + 3, k + 2 + Len(s)) = s /\ k + 2 + Len(s) <= Len(b)
<1>1. TwoBytes(Len(s)) \in Seq(Nat) /\ Len(TwoBytes(Len(s))) = 2
  BY TwoBytesType
<1>2. At(b, k, TwoBytes(Len(s))) /\ At(b, k + 2, s)
  BY <1>1, AtParts DEF String
<1>3. Number(b, k + 1) = Len(s)
  BY <1>2, NumberAt
<1>4. SubSeq(b, (k + 2) + 1, (k + 2) + Len(s)) = s
  BY <1>2, AtCut, k + 2 \in Nat
<1>5. (k + 2) + 1 = k + 3
  OBVIOUS
<1> QED
  BY <1>2, <1>3, <1>4, <1>5 DEF At

\* Strings with their lengths are bytes.
LEMMA StringType ==
    ASSUME NEW s \in Seq(Nat)
    PROVE  String(s) \in Seq(Nat) /\ Len(String(s)) = 2 + Len(s)
<1> DEFINE n == TwoBytes(Len(s))
<1>1. n \in Seq(Nat) /\ Len(n) = 2
  BY TwoBytesType
<1> HIDE DEF n
<1>2. n \o s \in Seq(Nat) /\ Len(n \o s) = Len(n) + Len(s)
  BY <1>1, ConcatProperties
<1> QED
  BY <1>1, <1>2 DEF String, n

\* How many bytes a length has.
LEMMA UpToFour == \A x : x \in 1..4 => 1 <= x /\ 1 + x \in 2..5
  OBVIOUS

\* The fixed header is read as it was written.
LEMMA HeaderRead ==
    ASSUME NEW b \in Seq(Nat), NEW t \in Nat, NEW ds \in Seq(Nat), NEW n \in Nat,
           At(b, 0, <<t>>), At(b, 1, ds), IsLength(ds, n)
    PROVE  /\ b[1] = t /\ FixedSize(b) = 1 + Len(ds)
           /\ get_total_length(b) = 1 + Len(ds) + n
<1>0. Len(ds) \in 1..4
  BY DEF IsLength
<1>1. Len(ds) \in 1..4 /\ 1 + Len(ds) <= Len(b) /\ Len(b) \in Nat
  BY <1>0 DEF At
<1>2. b[1] = t
  <2>1. Len(<<t>>) = 1 /\ <<t>>[1] = t /\ 0 + 1 = 1
    OBVIOUS
  <2> QED
    BY <2>1 DEF At
<1>3. \A k \in 1..Len(ds) : b[k + 1] = ds[k] /\ ds[k] \in Nat
  <2> TAKE k \in 1..Len(ds)
  <2>1. b[1 + k] = ds[k] /\ 1 + k = k + 1
    BY DEF At
  <2>2. ds[k] \in Nat
    BY ElementOfSeq
  <2> QED
    BY <2>1, <2>2
<1>4. FixedSize(b) = 1 + Len(ds)
  <2> DEFINE ends == {k \in 2..Len(b) : ~Continues(b[k])}
             last == 1 + Len(ds)
  <2>1. last \in ends
    <3>0. 1 <= Len(ds)
      BY <1>0, UpToFour
    <3>1. Len(ds) \in 1..Len(ds) /\ Len(ds) + 1 = last /\ last \in 2..Len(b)
      BY <1>1, <3>0
    <3>2. ~Continues(ds[Len(ds)]) /\ b[last] = ds[Len(ds)]
      BY <1>3, <3>1 DEF IsLength
    <3> QED
      BY <3>1, <3>2
  <2>2. \A k \in ends : last <= k
    <3> SUFFICES ASSUME NEW k \in 2..Len(b), ~Continues(b[k]), k < last PROVE FALSE
      BY <1>1
    <3>1. k - 1 \in 1..(Len(ds) - 1) /\ (k - 1) + 1 = k
      BY <1>1
    <3>2. Continues(ds[k - 1])
      BY <3>1 DEF IsLength
    <3>3. b[(k - 1) + 1] = ds[k - 1]
      BY <1>1, <1>3, <3>1
    <3> QED
      BY <3>1, <3>2, <3>3
  <2>3. \A m \in ends : (\A k \in ends : m <= k) => m = last
    BY <1>1, <2>1, <2>2
  <2>4. Min(ends) = last
    BY <2>1, <2>2, <2>3 DEF Min
  <2> QED
    BY <2>1, <2>4 DEF FixedSize
<1>5. get_total_length(b) = 1 + Len(ds) + n
  <2> DEFINE digit(k) == IF k <= FixedSize(b) THEN b[k] % LengthBase ELSE 0
             place(k) == IF k <= Len(ds) THEN ds[k] % LengthBase ELSE 0
  <2>1. /\ digit(2) = place(1) /\ digit(3) = place(2) /\ digit(4) = place(3)
        /\ digit(5) = place(4) /\ digit(6) = 0
    <3>1. \A k \in 1..4 : digit(k + 1) = place(k)
      <4> TAKE k \in 1..4
      <4>1. k \in 1..Len(ds) <=> k + 1 <= FixedSize(b)
        BY <1>1, <1>4
      <4>2. CASE k \in 1..Len(ds)
        BY <1>3, <4>1, <4>2
      <4>3. CASE k \notin 1..Len(ds)
        BY <1>1, <4>1, <4>3
      <4> QED
        BY <4>2, <4>3
    <3>2. digit(6) = 0
      <4>0. FixedSize(b) \in 2..5
        BY <1>0, <1>4, UpToFour
      <4>1. ~(6 <= FixedSize(b))
        BY <4>0
      <4> QED
        BY <4>1
    <3> QED
      BY <3>1, <3>2, 1 + 1 = 2, 2 + 1 = 3, 3 + 1 = 4, 4 + 1 = 5
  <2>2. \A k \in 1..4 : place(k) \in Nat
    <3> TAKE k \in 1..4
    <3>0. LengthBase \in Nat \ {0}
      BY OutputAssumption
    <3>1. CASE k \in 1..Len(ds)
      <4>1. ds[k] \in Nat
        BY <1>3, <3>1
      <4>2. ds[k] % LengthBase \in 0..(LengthBase - 1)
        BY <4>1, <3>0, Quotient
      <4>3. ds[k] % LengthBase \in Nat
        BY <3>0, <4>2
      <4> QED
        BY <3>1, <4>3
    <3>2. CASE k \notin 1..Len(ds)
      BY <1>1, <3>2
    <3> QED
      BY <3>1, <3>2
  <2>3. get_total_length(b) = FixedSize(b) + digit(2) + LengthBase * (digit(3)
            + LengthBase * (digit(4) + LengthBase * (digit(5) + LengthBase * digit(6))))
    BY DEF get_total_length
  <2>4. n = place(1) + LengthBase * (place(2) + LengthBase * (place(3) + LengthBase * place(4)))
    BY DEF IsLength, LengthOf
  <2>5. place(1) \in Nat /\ place(2) \in Nat /\ place(3) \in Nat /\ place(4) \in Nat
        /\ LengthBase \in Nat
    BY <2>2, OutputAssumption
  <2> HIDE DEF digit, place
  <2>6. place(4) + LengthBase * 0 = place(4)
    BY <2>5
  <2>7. get_total_length(b) = FixedSize(b) + place(1) + LengthBase * (place(2)
            + LengthBase * (place(3) + LengthBase * place(4)))
    BY <2>1, <2>3, <2>6
  <2> DEFINE r == LengthBase * (place(2) + LengthBase * (place(3) + LengthBase * place(4)))
  <2>8. r \in Nat
    <3>1. \A y \in Nat : LengthBase * y \in Nat
      BY <2>5, Product
    <3>2. \A x, y \in Nat : x + LengthBase * y \in Nat
      <4> TAKE x, y \in Nat
      <4>1. LengthBase * y \in Nat
        BY <3>1
      <4> QED
        BY <4>1
    <3> QED
      BY <2>5, <3>1, <3>2
  <2> QED
    BY <1>1, <1>4, <2>4, <2>5, <2>7, <2>8
<1> QED
  BY <1>2, <1>4, <1>5

\* The number of a type in the first byte.
LEMMA TypeNumbers ==
    /\ \A type \in DOMAIN Types : Types[type] \in 1..14
    /\ \A type, other \in DOMAIN Types : Types[type] = Types[other] => type = other
  BY DEF Types

\* The first byte is a number.
LEMMA TypeByteNat ==
    ASSUME NEW type \in DOMAIN Types, NEW qos \in 0..2, NEW retain \in 0..1
    PROVE  TypeByte(type, 0, qos, retain) \in Nat
<1>1. PICK t \in 1..14 : t = Types[type]
  BY TypeNumbers
<1>2. TypeByte(type, 0, qos, retain) = 16 * t + 8 * 0 + 2 * qos + retain
  BY <1>1 DEF TypeByte
<1> QED
  BY <1>2

\* The first byte tells type, QoS and retain.
LEMMA TypeRead ==
    ASSUME NEW type \in DOMAIN Types, NEW qos \in 0..2, NEW retain \in 0..1, NEW b,
           b[1] = TypeByte(type, 0, qos, retain)
    PROVE  /\ TypeByte(type, 0, qos, retain) \in Nat
           /\ get_type(b) = type /\ get_qos(b) = qos /\ get_retain(b) = retain
           /\ get_dup(b) = 0
<1>1. PICK t \in 1..14 : t = Types[type]
  BY TypeNumbers
<1>2. b[1] = 16 * t + 8 * 0 + 2 * qos + retain
  BY <1>1 DEF TypeByte
<1>3. /\ b[1] \div 16 = t /\ (b[1] \div 2) % 4 = qos /\ b[1] % 2 = retain
      /\ (b[1] \div 8) % 2 = 0 /\ b[1] \in Nat
  BY <1>2
<1>4. get_type(b) = type
  BY <1>1, <1>3, TypeNumbers DEF get_type
<1> QED
  BY <1>3, <1>4 DEF get_qos, get_retain, get_dup

\* A publish is a valid message.
LEMMA PublishValid ==
    ASSUME NEW qos \in 0..2, NEW retain \in 0..1
    PROVE  has_valid_msg_hdr(TypeByte("PUBLISH", 0, qos, retain))
<1> DEFINE byte == TypeByte("PUBLISH", 0, qos, retain)
<1>1. "PUBLISH" \in DOMAIN Types /\ Types["PUBLISH"] = 3
  BY DEF Types
<1>2. byte = 16 * 3 + 8 * 0 + 2 * qos + retain
  BY <1>1 DEF TypeByte
<1>3. byte \div 16 = 3
  BY <1>2
<1>4. <<byte>>[1] = byte
  OBVIOUS
<1>5. get_type(<<byte>>) = "PUBLISH" /\ get_qos(<<byte>>) = qos /\ get_dup(<<byte>>) = 0
  BY <1>1, <1>4, TypeRead
<1> HIDE DEF byte
<1>6. byte \div 16 \in {Types[type] : type \in DOMAIN Types}
  BY <1>1, <1>3
<1>7. has_valid_msg_hdr(byte)
  BY <1>5, <1>6 DEF has_valid_msg_hdr
<1> QED
  BY <1>7 DEF byte

\* The types but for a publish, and the QoS their first byte has.
OtherTypes == {"CONNECT", "CONNACK", "PUBACK", "PUBREC", "PUBREL", "PUBCOMP", "SUBSCRIBE",
               "SUBACK", "UNSUBSCRIBE", "UNSUBACK", "PINGREQ", "PINGRESP", "DISCONNECT"}
QosOf(type) == IF type \in {"PUBREL", "SUBSCRIBE", "UNSUBSCRIBE"} THEN 1 ELSE 0

\* So are the others.
LEMMA OtherValid ==
    ASSUME NEW type \in OtherTypes
    PROVE  /\ has_valid_msg_hdr(TypeByte(type, 0, QosOf(type), 0))
           /\ type \in DOMAIN Types /\ QosOf(type) \in 0..2
<1> DEFINE byte == TypeByte(type, 0, QosOf(type), 0)
<1>1. type \in DOMAIN Types /\ QosOf(type) \in 0..1
  BY DEF Types, OtherTypes, QosOf
<1>2. PICK t \in 1..14 : t = Types[type]
  BY <1>1, TypeNumbers
<1>3. byte = 16 * t + 8 * 0 + 2 * QosOf(type) + 0
  BY <1>2 DEF TypeByte
<1>4. byte \div 16 = t /\ byte % 16 = 2 * QosOf(type)
  BY <1>1, <1>3
<1>5. <<byte>>[1] = byte
  OBVIOUS
<1>6. get_type(<<byte>>) = type
  BY <1>1, <1>5, TypeRead
<1> HIDE DEF byte
<1>7. byte \div 16 \in {Types[x] : x \in DOMAIN Types}
  BY <1>1, <1>2, <1>4
<1>8. type # "PUBLISH" /\ (type = "PUBREL" \/ type = "SUBSCRIBE" \/ type = "UNSUBSCRIBE"
                               <=> QosOf(type) = 1)
  BY DEF OtherTypes, QosOf
<1>9. has_valid_msg_hdr(byte)
  <2>1. CASE type \in {"PUBREL", "SUBSCRIBE", "UNSUBSCRIBE"}
    <3>1. byte % 16 = 2
      BY <1>4, <1>8, <2>1
    <3> QED
      BY <1>6, <1>7, <1>8, <2>1, <3>1 DEF has_valid_msg_hdr
  <2>2. CASE type \notin {"PUBREL", "SUBSCRIBE", "UNSUBSCRIBE"}
    <3>1. byte % 16 = 0
      BY <1>1, <1>4, <1>8, <2>2
    <3> QED
      BY <1>6, <1>7, <1>8, <2>2, <3>1 DEF has_valid_msg_hdr
  <2> QED
    BY <2>1, <2>2
<1> QED
  BY <1>1, <1>9 DEF byte

-----------------------------------------------------------------------------
\* One whole message: a first byte, a length of ld bytes, a body and data.
Framed(b, tb, ld, body, data) ==
    /\ b \in Seq(Nat) /\ ld \in 1..4
    /\ b[1] = tb /\ FixedSize(b) = 1 + ld /\ ~Continues(b[1 + ld])
    /\ get_total_length(b) = Len(b)
    /\ Len(b) = 1 + ld + Len(body) + Len(data)
    /\ At(b, 1 + ld, body)
    /\ At(b, 1 + ld + Len(body), data)

\* Behind a fixed header with ld bytes of a length: a body and data, to the end of b.
Placed(b, ld, body, data) ==
    /\ b \in Seq(Nat) /\ ld \in 1..4
    /\ Len(b) = 1 + ld + Len(body) + Len(data)
    /\ At(b, 1 + ld, body)
    /\ At(b, 1 + ld + Len(body), data)

\* A length has one byte at least.
LEMMA LengthCount ==
    ASSUME NEW n
    PROVE  Len(LengthBytes(n)) \in 1..5
<1> DEFINE shifted(m) == m \div LengthBase
           rest == <<n, shifted(n), shifted(shifted(n)), shifted(shifted(shifted(n))),
                     shifted(shifted(shifted(shifted(n))))>>
           S == {k \in 1..4 : rest[k + 1] = 0} \cup {5}
           count == Min(S)
<1>1. LengthBytes(n) = [k \in 1..count |-> (rest[k] % LengthBase) + Flag(k < count, LengthBase)]
  BY DEF LengthBytes
<1>2. S \in SUBSET (1..5) /\ 5 \in S
  OBVIOUS
<1> HIDE DEF S
<1>3. count \in 1..5
  BY <1>2, LeastOf
<1> HIDE DEF count, rest
<1> QED
  BY <1>1, <1>3

\* Data in two parts.
LEMMA TwoParts ==
    ASSUME NEW data \in Seq(Nat), NEW m \in 0..Len(data)
    PROVE  /\ SubSeq(data, 1, m) \in Seq(Nat) /\ SubSeq(data, m + 1, Len(data)) \in Seq(Nat)
           /\ Len(SubSeq(data, 1, m)) = m /\ Len(SubSeq(data, m + 1, Len(data))) = Len(data) - m
           /\ SubSeq(data, 1, m) \o SubSeq(data, m + 1, Len(data)) = data
<1>1. /\ 1 \in Int /\ m \in Int /\ m + 1 \in Int /\ Len(data) \in Int
      /\ (\A i \in 1..m : data[i] \in Nat) /\ (\A i \in m + 1 .. Len(data) : data[i] \in Nat)
  OBVIOUS
<1>2. /\ SubSeq(data, 1, m) \in Seq(Nat)
      /\ Len(SubSeq(data, 1, m)) = (IF 1 <= m THEN m - 1 + 1 ELSE 0)
  BY <1>1, SubSeqProperties
<1>3. /\ SubSeq(data, m + 1, Len(data)) \in Seq(Nat)
      /\ Len(SubSeq(data, m + 1, Len(data)))
             = (IF m + 1 <= Len(data) THEN Len(data) - (m + 1) + 1 ELSE 0)
  BY <1>1, SubSeqProperties
<1>4. SubSeq(data, 1, m) \o SubSeq(data, m + 1, Len(data)) = SubSeq(data, 1, Len(data))
  <2>1. 1 \in 1..Len(data) + 1 /\ m \in 1 - 1 .. Len(data) /\ Len(data) \in m..Len(data)
    OBVIOUS
  <2> QED
    BY <2>1, ConcatAdjacentSubSeq
<1>5. SubSeq(data, 1, Len(data)) = data
  BY SubSeqFull
<1> DEFINE d1 == SubSeq(data, 1, m)
           d2 == SubSeq(data, m + 1, Len(data))
<1>6. Len(d1) = (IF 1 <= m THEN m - 1 + 1 ELSE 0)
  BY <1>2
<1>7. Len(d2) = (IF m + 1 <= Len(data) THEN Len(data) - (m + 1) + 1 ELSE 0)
  BY <1>3
<1>8. d1 \in Seq(Nat) /\ d2 \in Seq(Nat) /\ d1 \o d2 = data
  BY <1>2, <1>3, <1>4, <1>5
<1> HIDE DEF d1, d2
<1>9. Len(d1) = m /\ Len(d2) = Len(data) - m
  BY <1>6, <1>7
<1> QED
  BY <1>8, <1>9 DEF d1, d2

\* What is at the start is there part by part.
LEMMA AtStartParts ==
    ASSUME NEW b \in Seq(Nat), NEW s \in Seq(Nat), NEW t \in Seq(Nat), At(b, 0, s \o t)
    PROVE  At(b, 0, s) /\ At(b, Len(s), t)
<1>1. 0 \in Nat /\ 0 + Len(s) = Len(s)
  OBVIOUS
<1>2. At(b, 0, s) /\ At(b, 0 + Len(s), t)
  BY <1>1, AtParts
<1> QED
  BY <1>1, <1>2

\* What the client writes of a message, in one piece or with the rest of the data behind it,
\* is one whole message.
LEMMA MessageFramed ==
    ASSUME NEW tb \in Nat, NEW body \in Seq(Nat), NEW data \in Seq(Nat), NEW m \in 0..Len(data),
           Message(tb, body \o SubSeq(data, 1, m), Len(body) + Len(data)) # NoMessage
    PROVE  LET n == Len(body) + Len(data)
               b == Message(tb, body \o SubSeq(data, 1, m), n) \o SubSeq(data, m + 1, Len(data))
           IN  /\ Framed(b, tb, Len(LengthBytes(n)), body, data)
               /\ Len(Message(tb, body \o SubSeq(data, 1, m), n))
                      = 1 + Len(LengthBytes(n)) + Len(body) + m
<1> DEFINE n == Len(body) + Len(data)
           ds == LengthBytes(n)
           d1 == SubSeq(data, 1, m)
           d2 == SubSeq(data, m + 1, Len(data))
           text == body \o d1
           head == <<tb>> \o ds
           c == head \o text
           b == c \o d2
<1>1. n \in Nat
  OBVIOUS
<1>2. ~(Len(ds) + 1 > 5) /\ Message(tb, text, n) = c
  BY DEF Message, MQTT_MAX_FIXED_HEADER_SIZE
<1>3. Len(ds) \in Nat
  BY LengthCount
<1>4. IsLength(ds, n)
  <2>1. Len(ds) <= 4
    BY <1>2, <1>3
  <2> HIDE DEF n
  <2> QED
    BY <1>1, <2>1, LengthWritten
<1>5. ds \in Seq(Nat) /\ Len(ds) \in 1..4
  BY <1>4 DEF IsLength
<1>6. /\ d1 \in Seq(Nat) /\ d2 \in Seq(Nat) /\ d1 \o d2 = data
      /\ Len(d1) = m /\ Len(d2) = Len(data) - m
  BY TwoParts
<1> HIDE DEF n, ds, d1, d2
<1>7. <<tb>> \in Seq(Nat) /\ Len(<<tb>>) = 1
  OBVIOUS
<1>8. head \in Seq(Nat) /\ Len(head) = 1 + Len(ds)
  BY <1>5, <1>7, ConcatProperties
<1>9. text \in Seq(Nat) /\ Len(text) = Len(body) + m
  BY <1>6, ConcatProperties
<1> HIDE DEF head, text
<1>10. c \in Seq(Nat) /\ Len(c) = 1 + Len(ds) + Len(body) + m
  <2>1. c \in Seq(Nat) /\ Len(c) = Len(head) + Len(text)
    BY <1>8, <1>9, ConcatProperties
  <2>2. Len(ds) \in Nat /\ Len(body) \in Nat /\ m \in Nat
    BY <1>5
  <2> HIDE DEF c
  <2> QED
    BY <1>8, <1>9, <2>1, <2>2
<1>11. b \in Seq(Nat) /\ Len(b) = Len(c) + Len(d2)
  <2> HIDE DEF c
  <2> QED
    BY <1>6, <1>10, ConcatProperties
<1>12. At(b, 0, c) /\ At(b, Len(c), d2)
  <2>1. At(b, 0, c \o d2)
    <3> HIDE DEF b
    <3>1. At(b, 0, b)
      BY <1>11, AtStart
    <3> QED
      BY <3>1 DEF b
  <2> HIDE DEF b, c
  <2> QED
    BY <1>6, <1>10, <1>11, <2>1, AtStartParts
<1> HIDE DEF b
<1>13. At(b, 0, head) /\ At(b, 1 + Len(ds), text)
  BY <1>8, <1>9, <1>11, <1>12, AtParts
<1> HIDE DEF c
<1>14. At(b, 0, <<tb>>) /\ At(b, 1, ds)
  <2> DEFINE first == <<tb>>
  <2>1. first \in Seq(Nat) /\ Len(first) = 1 /\ head = first \o ds
    BY <1>7 DEF head
  <2> HIDE DEF first
  <2>2. At(b, 0, first) /\ At(b, 1, ds)
    BY <1>5, <1>11, <1>13, <2>1, AtStartParts
  <2> QED
    BY <2>2 DEF first
<1>15. At(b, 1 + Len(ds), body) /\ At(b, 1 + Len(ds) + Len(body), d1)
  BY <1>5, <1>6, <1>11, <1>13, AtParts, 1 + Len(ds) \in Nat DEF text
<1>16. At(b, 1 + Len(ds) + Len(body), data)
  <2> DEFINE k == 1 + Len(ds) + Len(body)
  <2>1. k \in Nat /\ k + m = Len(c)
    BY <1>5, <1>10
  <2>2. At(b, k, d1) /\ At(b, k + Len(d1), d2)
    BY <1>6, <1>12, <1>15, <2>1
  <2> HIDE DEF k
  <2>3. At(b, k, d1 \o d2)
    BY <1>6, <1>11, <2>1, <2>2, AtParts
  <2> QED
    BY <1>6, <2>3 DEF k
<1>17. b[1] = tb /\ FixedSize(b) = 1 + Len(ds) /\ get_total_length(b) = 1 + Len(ds) + n
  BY <1>1, <1>4, <1>5, <1>11, <1>14, HeaderRead
<1>18. ~Continues(b[1 + Len(ds)])
  <2>1. ~Continues(ds[Len(ds)])
    BY <1>4 DEF IsLength
  <2>2. 1 <= Len(ds) /\ Len(ds) \in Nat
    BY <1>3, <1>5, UpToFour
  <2>3. Len(ds) \in 1..Len(ds)
    BY <2>2
  <2> QED
    BY <1>14, <2>1, <2>3 DEF At
<1>19. Len(b) = 1 + Len(ds) + Len(body) + Len(data)
  BY <1>5, <1>6, <1>10, <1>11
<1>20. get_total_length(b) = Len(b)
  BY <1>5, <1>17, <1>19 DEF n
<1>21. Framed(b, tb, Len(ds), body, data)
  BY <1>5, <1>11, <1>15, <1>16, <1>17, <1>18, <1>19, <1>20 DEF Framed
<1> QED
  BY <1>2, <1>10, <1>21 DEF b, n, ds, d1, d2, text

\* Nothing behind a sequence of bytes leaves it as it is.
LEMMA NothingBehind ==
    ASSUME NEW s \in Seq(Nat)
    PROVE  /\ <<>> \in Seq(Nat) /\ Len(<<>>) = 0 /\ s \o <<>> = s
           /\ SubSeq(<<>>, 1, 0) = <<>>
  BY SubSeqEmpty, EmptySeq, ConcatEmptySeq

\* A message without data is whole.
LEMMA PlainFramed ==
    ASSUME NEW tb \in Nat, NEW body \in Seq(Nat), Message(tb, body, Len(body)) # NoMessage
    PROVE  Framed(Message(tb, body, Len(body)), tb, Len(LengthBytes(Len(body))), body, <<>>)
<1> DEFINE none == <<>>
           b == Message(tb, body, Len(body))
<1>1. /\ none \in Seq(Nat) /\ Len(none) = 0 /\ body \o none = body
      /\ SubSeq(none, 1, 0) = none /\ Len(body) + 0 = Len(body)
  BY NothingBehind
<1>2. 0 \in 0..Len(none) /\ 0 + 1 = 1 /\ SubSeq(none, 0 + 1, Len(none)) = none
  BY <1>1
<1> HIDE DEF none
<1>3. Framed(b \o none, tb, Len(LengthBytes(Len(body))), body, none)
  <2>1. body \o SubSeq(none, 1, 0) = body /\ Len(body) + Len(none) = Len(body)
    BY <1>1
  <2>2. Message(tb, body \o SubSeq(none, 1, 0), Len(body) + Len(none)) # NoMessage
    BY <2>1
  <2> HIDE DEF b
  <2>3. Framed(Message(tb, body \o SubSeq(none, 1, 0), Len(body) + Len(none))
                   \o SubSeq(none, 0 + 1, Len(none)),
               tb, Len(LengthBytes(Len(body) + Len(none))), body, none)
    BY <1>1, <1>2, <2>2, MessageFramed
  <2> QED
    BY <1>2, <2>1, <2>3 DEF b
<1>4. b \in Seq(Nat)
  <2>1. /\ b = <<tb>> \o LengthBytes(Len(body)) \o body
        /\ ~(Len(LengthBytes(Len(body))) + 1 > 5)
    BY DEF Message, MQTT_MAX_FIXED_HEADER_SIZE
  <2>2. Len(LengthBytes(Len(body))) <= 4
    BY <2>1, LengthCount
  <2>3. LengthBytes(Len(body)) \in Seq(Nat)
    BY <2>2, LengthWritten, Len(body) \in Nat DEF IsLength
  <2> HIDE DEF b
  <2>4. <<tb>> \o LengthBytes(Len(body)) \in Seq(Nat)
    BY <2>3
  <2> QED
    BY <2>1, <2>4
<1> QED
  <2> HIDE DEF b
  <2>1. b \o none = b
    BY <1>4, NothingBehind DEF none
  <2>2. Framed(b, tb, Len(LengthBytes(Len(body))), body, none)
    BY <1>3, <2>1
  <2> QED
    BY <2>2 DEF b, none

\* Of a message without data, what is behind the fixed header is the body.
LEMMA BodyRead ==
    ASSUME NEW b, NEW tb, NEW ld, NEW body \in Seq(Nat), Framed(b, tb, ld, body, <<>>)
    PROVE  /\ SubSeq(b, FixedSize(b) + 1, Len(b)) = body
           /\ Len(b) = 1 + ld + Len(body) /\ FixedSize(b) = 1 + ld /\ ld \in 1..4
           /\ At(b, 1 + ld, body) /\ b \in Seq(Nat) /\ b[1] = tb
<1>1. /\ b \in Seq(Nat) /\ ld \in 1..4 /\ FixedSize(b) = 1 + ld /\ b[1] = tb
      /\ At(b, 1 + ld, body) /\ Len(b) = 1 + ld + Len(body) + Len(<<>>)
  BY DEF Framed
<1>2. Len(b) = 1 + ld + Len(body)
  BY <1>1
<1>3. 1 + ld \in Nat
  BY <1>1
<1>4. SubSeq(b, (1 + ld) + 1, (1 + ld) + Len(body)) = body
  BY <1>1, <1>3, AtCut
<1> QED
  BY <1>1, <1>2, <1>4

\* The types whose messages begin with an id.
IdTypes == {"PUBACK", "PUBREC", "PUBREL", "PUBCOMP", "SUBSCRIBE", "SUBACK", "UNSUBSCRIBE",
            "UNSUBACK"}
Begins(type, id, body) ==
    /\ type \in IdTypes => /\ id \in TwoByteNumbers
                           /\ \E more \in Seq(Nat) : body = TwoBytes(id) \o more
    /\ type \notin IdTypes => id = 0

\* The id of a message is read as it was written; those without have none.
LEMMA IdRead ==
    ASSUME NEW type \in OtherTypes, NEW id, NEW body \in Seq(Nat), NEW b, NEW ld,
           Framed(b, TypeByte(type, 0, QosOf(type), 0), ld, body, <<>>), Begins(type, id, body),
           FixedSize(b) = 2
    PROVE  get_id(b, Len(b)) = id
<1>1. /\ Len(b) = 1 + ld + Len(body) /\ FixedSize(b) = 1 + ld /\ ld \in 1..4
      /\ At(b, 1 + ld, body) /\ b \in Seq(Nat) /\ b[1] = TypeByte(type, 0, QosOf(type), 0)
  BY BodyRead
<1>2. ld = 1
  BY <1>1
<1>3. get_type(b) = type
  BY <1>1, OtherValid, TypeRead, 0 \in 0..1
<1>4. CASE type \in IdTypes
  <2>0. PICK more \in Seq(Nat) : id \in TwoByteNumbers /\ body = TwoBytes(id) \o more
    BY <1>4 DEF Begins
  <2> DEFINE two == TwoBytes(id)
  <2>1. two \in Seq(Nat) /\ Len(two) = 2 /\ body = two \o more
    BY <2>0, IdType
  <2>3. At(b, 2, body) /\ 2 \in Nat
    BY <1>1, <1>2
  <2> HIDE DEF two
  <2>2. Len(body) = 2 + Len(more) /\ Len(more) \in Nat
    <3>1. Len(two \o more) = Len(two) + Len(more)
      BY <2>1, ConcatProperties
    <3> QED
      BY <2>1, <3>1
  <2>9. At(b, 2, two)
    BY <1>1, <2>1, <2>3, AtParts
  <2>4. At(b, 2, TwoBytes(id))
    BY <2>9 DEF two
  <2>5. Number(b, 2 + 1) = id
    BY <1>1, <2>0, <2>4, NumberAt
  <2>6. ~Continues(b[2])
    BY <1>2 DEF Framed
  <2>7. Len(b) >= 4
    BY <1>1, <1>2, <2>2
  <2>8. type # "PUBLISH"
    BY DEF OtherTypes
  <2> QED
    BY <1>3, <1>4, <2>5, <2>6, <2>7, <2>8 DEF get_id, IdTypes
<1>5. CASE type \notin IdTypes
  <2>1. type \in {"CONNECT", "CONNACK", "PINGREQ", "PINGRESP", "DISCONNECT"} /\ id = 0
    BY <1>5 DEF OtherTypes, IdTypes, Begins
  <2> QED
    BY <1>3, <2>1 DEF get_id
<1> QED
  BY <1>4, <1>5

\* What is written of a message that is no publish is read as it was asked, if what a CONNECT
\* says is.
LEMMA PlainSaid ==
    ASSUME NEW type \in OtherTypes, NEW id, NEW body \in Seq(Nat), Begins(type, id, body),
           NEW clean,
           Message(TypeByte(type, 0, QosOf(type), 0), body, Len(body)) # NoMessage,
           type = "CONNECT" =>
               \E info \in ConnectInfos :
                   /\ ConnectBody(info) = body
                   /\ ConnectSays(Message(TypeByte(type, 0, QosOf(type), 0), body, Len(body)), info)
    PROVE  Says(Message(TypeByte(type, 0, QosOf(type), 0), body, Len(body)),
                [type |-> type, id |-> id, body |-> body, clean |-> clean])
<1> DEFINE tb == TypeByte(type, 0, QosOf(type), 0)
           ld == Len(LengthBytes(Len(body)))
           b == Message(tb, body, Len(body))
<1>1. type \in DOMAIN Types /\ QosOf(type) \in 0..2 /\ has_valid_msg_hdr(tb)
  BY OtherValid
<1>2. TypeByte(type, 0, QosOf(type), 0) \in Nat
  <2>1. PICK t \in 1..14 : t = Types[type]
    BY <1>1, TypeNumbers
  <2> QED
    BY <1>1, <2>1 DEF TypeByte
<1> HIDE DEF tb
<1>3. Framed(b, tb, ld, body, <<>>)
  BY <1>2, PlainFramed DEF tb
<1>9. type = "CONNECT" =>
         \E info \in ConnectInfos : ConnectBody(info) = body /\ ConnectSays(b, info)
  BY DEF tb
<1> HIDE DEF ld, b
<1>4. b[1] = tb /\ get_total_length(b) = Len(b)
  BY <1>3 DEF Framed
<1>5. get_type(b) = type
  BY <1>1, <1>4, TypeRead, 0 \in 0..1 DEF tb
<1>6. SubSeq(b, FixedSize(b) + 1, Len(b)) = body
  BY <1>3, BodyRead
<1>7. ASSUME FixedSize(b) = 2 PROVE get_id(b, Len(b)) = id
  <2>1. Framed(b, TypeByte(type, 0, QosOf(type), 0), ld, body, <<>>)
    BY <1>3 DEF tb
  <2> QED
    BY <1>7, <2>1, IdRead
<1>8. type # "PUBLISH"
  BY DEF OtherTypes
<1> QED
  <2>1. Says(b, [type |-> type, id |-> id, body |-> body, clean |-> clean])
    BY <1>1, <1>4, <1>5, <1>6, <1>7, <1>8, <1>9 DEF Says
  <2> QED
    BY <2>1 DEF b, tb

\* What a publish has before its data: where the parts are.
PublishPlaces(b, f, topic, qos, id, data) ==
    LET end == f + 2 + Len(topic)
        start == end + Flag(qos > 0, 2)
    IN  /\ f \in 2..5 /\ end \in Nat /\ start \in Nat
        /\ Len(topic) >= 1 /\ Len(topic) \in Nat /\ Len(data) \in Nat
        /\ Number(b, f + 1) = Len(topic)
        /\ SubSeq(b, f + 3, end) = topic
        /\ qos > 0 => Number(b, end + 1) = id
        /\ SubSeq(b, start + 1, Len(b)) = data
        /\ Len(b) = start + Len(data)

\* The body of a publish are bytes.
LEMMA PublishBodyType ==
    ASSUME NEW topic \in Seq(Nat), NEW qos \in 0..2, NEW id \in TwoByteNumbers
    PROVE  /\ PublishBody(topic, qos, id) \in Seq(Nat)
           /\ Len(PublishBody(topic, qos, id)) = 2 + Len(topic) + Flag(qos > 0, 2)
<1> DEFINE name == String(topic)
           ids == IF qos > 0 THEN TwoBytes(id) ELSE <<>>
<1>1. name \in Seq(Nat) /\ Len(name) = 2 + Len(topic)
  BY StringType
<1>2. ids \in Seq(Nat) /\ Len(ids) = Flag(qos > 0, 2)
  <2>1. CASE qos > 0
    BY <2>1, IdType DEF Flag
  <2>2. CASE ~(qos > 0)
    BY <2>2, EmptySeq DEF Flag
  <2> QED
    BY <2>1, <2>2
<1>3. PublishBody(topic, qos, id) = name \o ids
  BY DEF PublishBody
<1> HIDE DEF name, ids
<1>4. name \o ids \in Seq(Nat) /\ Len(name \o ids) = Len(name) + Len(ids)
  BY <1>1, <1>2, ConcatProperties
<1> QED
  BY <1>1, <1>2, <1>3, <1>4

\* The parts of a publish are in their places.
LEMMA PublishPlaced ==
    ASSUME NEW topic \in Seq(Nat), NEW qos \in 0..2, NEW id \in TwoByteNumbers,
           NEW data \in Seq(Nat), Len(topic) >= 1, Len(topic) \in TwoByteNumbers,
           NEW b, NEW ld, Placed(b, ld, PublishBody(topic, qos, id), data)
    PROVE  PublishPlaces(b, 1 + ld, topic, qos, id, data)
<1> DEFINE name == String(topic)
           ids == IF qos > 0 THEN TwoBytes(id) ELSE <<>>
           q == Flag(qos > 0, 2)
           f == 1 + ld
           body == PublishBody(topic, qos, id)
           end == f + 2 + Len(topic)
           start == end + q
<1>1. name \in Seq(Nat) /\ Len(name) = 2 + Len(topic)
  BY StringType
<1>2. ids \in Seq(Nat) /\ Len(ids) = q /\ q \in {0, 2}
  <2>1. CASE qos > 0
    BY <2>1, IdType DEF Flag
  <2>2. CASE ~(qos > 0)
    BY <2>2, EmptySeq DEF Flag
  <2> QED
    BY <2>1, <2>2
<1>3. body = name \o ids /\ body \in Seq(Nat) /\ Len(body) = 2 + Len(topic) + q
  BY PublishBodyType DEF PublishBody
<1>4. /\ b \in Seq(Nat) /\ f \in 2..5 /\ Len(b) = f + Len(body) + Len(data)
      /\ At(b, f, body) /\ At(b, f + Len(body), data)
  BY UpToFour DEF Placed
<1>5. Len(topic) \in Nat /\ Len(data) \in Nat /\ f \in Nat
  BY <1>4
<1> HIDE DEF name, ids, q, f, body
<1>6. end \in Nat /\ start \in Nat /\ f + Len(body) = start /\ Len(b) = start + Len(data)
  <2>1. q \in Nat
    BY <1>2
  <2>2. end \in Nat
    BY <1>5
  <2>3. start \in Nat
    BY <2>1, <2>2
  <2>4. f + Len(body) = start
    BY <1>3, <1>5, <2>1
  <2>5. Len(b) = start + Len(data)
    BY <1>4, <2>4
  <2> QED
    BY <2>2, <2>3, <2>4, <2>5
<1>7. f + Len(name) = end
  BY <1>1, <1>5
<1>8. At(b, f, name) /\ At(b, f + Len(name), ids)
  BY <1>1, <1>2, <1>3, <1>4, <1>5, AtParts
<1>9. /\ Number(b, f + 1) = Len(topic)
      /\ SubSeq(b, f + 3, f + 2 + Len(topic)) = topic
  BY <1>4, <1>5, <1>8, StringAtPlace DEF name
<1>10. ASSUME qos > 0 PROVE Number(b, end + 1) = id
  <2>1. At(b, end, ids)
    BY <1>7, <1>8
  <2>2. At(b, end, TwoBytes(id))
    BY <1>10, <2>1 DEF ids
  <2> HIDE DEF end
  <2> QED
    BY <1>4, <1>6, <2>2, NumberAt
<1>11. SubSeq(b, start + 1, Len(b)) = data
  <2>1. At(b, start, data)
    BY <1>4, <1>6
  <2> HIDE DEF start
  <2>2. SubSeq(b, start + 1, start + Len(data)) = data
    BY <1>4, <1>6, <2>1, AtCut
  <2> QED
    BY <1>6, <2>2
<1>12. PublishPlaces(b, f, topic, qos, id, data)
  BY <1>4, <1>5, <1>6, <1>9, <1>10, <1>11 DEF PublishPlaces, q
<1> QED
  BY <1>12 DEF f

\* A publish is read as it was written, with as much of its data as is there.
LEMMA PublishRead ==
    ASSUME NEW topic \in Seq(Nat), NEW qos \in 0..2, NEW retain \in 0..1,
           NEW id \in TwoByteNumbers, NEW data \in Seq(Nat),
           Len(topic) >= 1, Len(topic) \in TwoByteNumbers, NEW b, NEW ld,
           Placed(b, ld, PublishBody(topic, qos, id), data), FixedSize(b) = 1 + ld,
           b[1] = TypeByte("PUBLISH", 0, qos, retain),
           get_total_length(b) \in Nat, get_total_length(b) >= Len(b)
    PROVE  /\ get_type(b) = "PUBLISH" /\ get_qos(b) = qos /\ get_retain(b) = retain
           /\ get_publish_topic(b) = Found(topic)
           /\ get_publish_data(b).text = data
           /\ get_id(b, get_total_length(b)) = IF qos > 0 THEN id ELSE 0
<1> DEFINE total == get_total_length(b)
           f == 1 + ld
           end == f + 2 + Len(topic)
           start == end + Flag(qos > 0, 2)
<1>1. FixedSize(b) = f /\ b[1] = TypeByte("PUBLISH", 0, qos, retain)
  OBVIOUS
<1>2. PublishPlaces(b, f, topic, qos, id, data)
  BY PublishPlaced
<1>3. "PUBLISH" \in DOMAIN Types
  BY DEF Types
<1>4. get_type(b) = "PUBLISH" /\ get_qos(b) = qos /\ get_retain(b) = retain
  BY <1>1, <1>3, TypeRead
<1>5. total \in Nat /\ total >= Len(b) /\ get_total_length(b) = total
  OBVIOUS
<1> HIDE DEF f, total
<1>6. /\ f \in 2..5 /\ end \in Nat /\ start \in Nat
      /\ Len(topic) >= 1 /\ Len(topic) \in Nat /\ Len(data) \in Nat
      /\ Number(b, f + 1) = Len(topic)
      /\ SubSeq(b, f + 3, end) = topic
      /\ (qos > 0 => Number(b, end + 1) = id)
      /\ SubSeq(b, start + 1, Len(b)) = data
      /\ Len(b) = start + Len(data)
  BY <1>2 DEF PublishPlaces
<1>7. start = end \/ start = end + 2
  BY <1>6 DEF Flag
<1>12. Len(b) \in Nat /\ end <= start /\ start <= Len(b) /\ end >= f + 3
  <2>1. Len(b) \in Nat
    BY <1>6
  <2>2. end >= f + 3
    BY <1>6
  <2> HIDE DEF end, start
  <2>3. start <= Len(b)
    BY <1>6
  <2>4. end <= start
    BY <1>6, <1>7
  <2> QED
    BY <2>1, <2>2, <2>3, <2>4
<1>8. ~(f + 2 >= Len(b)) /\ ~(end > Len(b)) /\ Len(b) >= end
  <2> HIDE DEF end, start
  <2>1. ~(f + 2 >= Len(b))
    BY <1>6, <1>12
  <2>2. ~(end > Len(b)) /\ Len(b) >= end
    BY <1>6, <1>12
  <2> QED
    BY <2>1, <2>2
<1>9. get_publish_topic(b) = Found(topic)
  <2>1. get_publish_topic(b) = Found(SubSeq(b, f + 3, end))
    BY <1>1, <1>6, <1>8 DEF get_publish_topic
  <2> QED
    BY <1>6, <2>1
<1>10. get_publish_data(b).text = data
  <2>1. CASE Len(data) = 0
    <3>1. data = <<>>
      BY <2>1, EmptySeq
    <3>2. Len(b) = start
      BY <1>6, <2>1
    <3>3. end >= Len(b) \/ (qos > 0 /\ start >= Len(b))
      BY <1>6, <3>2 DEF Flag
    <3>4. get_publish_data(b) = Missing
      BY <1>1, <1>4, <1>6, <3>3 DEF get_publish_data
    <3> QED
      BY <3>1, <3>4 DEF Missing
  <2>2. CASE Len(data) # 0
    <3>1. /\ ~(end >= Len(b)) /\ ~(start >= Len(b)) /\ ~(total < start)
      <4> HIDE DEF end, start
      <4>1. ~(start >= Len(b)) /\ ~(total < start)
        BY <1>5, <1>6, <1>12, <2>2
      <4>2. ~(end >= Len(b))
        BY <1>6, <1>12, <4>1
      <4> QED
        BY <4>1, <4>2
    <3>2. get_publish_data(b)
              = Found(SubSeq(b, start + 1, IF total <= Len(b) THEN total ELSE Len(b)))
      BY <1>1, <1>4, <1>5, <1>6, <1>8, <3>1 DEF get_publish_data
    <3>3. (IF total <= Len(b) THEN total ELSE Len(b)) = Len(b)
      BY <1>5, <1>12
    <3>4. get_publish_data(b) = Found(SubSeq(b, start + 1, Len(b)))
      BY <3>2, <3>3
    <3> QED
      BY <1>6, <3>4 DEF Found
  <2> QED
    BY <2>1, <2>2
<1>13. ~(f + 2 >= total) /\ ~(end > total)
  <2> HIDE DEF end, start
  <2> QED
    BY <1>5, <1>6, <1>12
<1>11. get_id(b, total) = IF qos > 0 THEN id ELSE 0
  <2>1. CASE qos > 0
    <3>1. start = end + 2
      BY <2>1 DEF Flag
    <3>2. ~(end + 2 > total) /\ qos # 0
      <4> HIDE DEF end, start
      <4>1. ~(end + 2 > total)
        BY <1>5, <1>6, <1>12, <3>1
      <4> QED
        BY <2>1, <4>1
    <3> QED
      BY <1>1, <1>4, <1>6, <1>13, <2>1, <3>2 DEF get_id
  <2>2. CASE ~(qos > 0)
    <3>1. qos = 0
      BY <2>2
    <3> QED
      BY <1>1, <1>4, <1>6, <1>13, <2>2, <3>1 DEF get_id
  <2> QED
    BY <2>1, <2>2
<1> QED
  BY <1>4, <1>9, <1>10, <1>11 DEF total

\* A publish is read as it was asked.
LEMMA PublishSaid ==
    ASSUME NEW topic \in Seq(Nat), NEW qos \in 0..2, NEW retain \in 0..1,
           NEW id \in TwoByteNumbers, NEW data \in Seq(Nat),
           Len(topic) >= 1, Len(topic) \in TwoByteNumbers, NEW clean,
           NEW b, NEW ld,
           Framed(b, TypeByte("PUBLISH", 0, qos, retain), ld, PublishBody(topic, qos, id), data)
    PROVE  Says(b, [Publishing(topic, data, qos, retain, id) EXCEPT !.clean = clean])
<1>1. /\ FixedSize(b) = 1 + ld /\ b[1] = TypeByte("PUBLISH", 0, qos, retain)
      /\ get_total_length(b) = Len(b) /\ b \in Seq(Nat)
      /\ Placed(b, ld, PublishBody(topic, qos, id), data)
  BY DEF Framed, Placed
<1>2. get_total_length(b) \in Nat /\ get_total_length(b) >= Len(b)
  BY <1>1
<1>3. /\ get_type(b) = "PUBLISH" /\ get_qos(b) = qos /\ get_retain(b) = retain
      /\ get_publish_topic(b) = Found(topic) /\ get_publish_data(b).text = data
      /\ get_id(b, get_total_length(b)) = IF qos > 0 THEN id ELSE 0
  BY <1>1, <1>2, PublishRead
<1>4. get_publish_topic(b).text = topic /\ get_id(b, Len(b)) = IF qos > 0 THEN id ELSE 0
  BY <1>1, <1>3 DEF Found
<1>5. has_valid_msg_hdr(b[1])
  BY <1>1, PublishValid
<1> QED
  BY <1>1, <1>3, <1>4, <1>5 DEF Says, Publishing

\* Data cut at its end, and beyond.
LEMMA CutAtEnd ==
    ASSUME NEW data \in Seq(Nat), NEW k \in Nat, k >= Len(data)
    PROVE  SubSeq(data, 1, Len(data)) = data /\ SubSeq(data, k + 1, Len(data)) = <<>>
<1>1. SubSeq(data, 1, Len(data)) = data
  BY SubSeqFull
<1>2. k + 1 \in Int /\ Len(data) \in Int /\ Len(data) < k + 1
  OBVIOUS
<1>3. SubSeq(data, k + 1, Len(data)) = <<>>
  BY <1>2, SubSeqEmpty
<1> QED
  BY <1>1, <1>3

\* The rest of the data that goes out behind what was built.
Whole(topic, data, qos, retain, id) ==
    LET built == BuildPublish(topic, data, qos, retain, id)
    IN  built.bytes \o After(data, Len(built.bytes) + built.header - built.offset)

\* A publish that is longer than the buffer goes out as one whole message.
LEMMA LongFramed ==
    ASSUME NEW topic \in Seq(Nat), NEW qos \in 0..2, NEW retain \in 0..1,
           NEW id \in TwoByteNumbers, NEW data \in Seq(Nat),
           Fits(PublishBody(topic, qos, id)),
           BuildPublish(topic, data, qos, retain, id).over,
           BuildPublish(topic, data, qos, retain, id).bytes # NoMessage
    PROVE  \E ld : Framed(Whole(topic, data, qos, retain, id), TypeByte("PUBLISH", 0, qos, retain),
                          ld, PublishBody(topic, qos, id), data)
<1> DEFINE tb == TypeByte("PUBLISH", 0, qos, retain)
           body == PublishBody(topic, qos, id)
           start == 5 + Len(body)
           m == buffer_length - start
           n == Len(body) + Len(data)
           bytes == Message(tb, body \o SubSeq(data, 1, m), n)
           built == BuildPublish(topic, data, qos, retain, id)
           ld == Len(LengthBytes(n))
<1>1. tb \in Nat
  <2>1. Types["PUBLISH"] = 3
    BY DEF Types
  <2>2. tb = 16 * 3 + 8 * 0 + 2 * qos + retain
    BY <2>1 DEF TypeByte
  <2> HIDE DEF tb
  <2> QED
    BY <2>2
<1>2. body \in Seq(Nat)
  BY PublishBodyType
<1>3. buffer_length \in Nat
  BY OutputAssumption DEF TwoByteNumbers
<1>4. start + Len(data) > buffer_length
  BY DEF BuildPublish, MQTT_MAX_FIXED_HEADER_SIZE
<1>5. start <= buffer_length
  BY DEF Fits, MQTT_MAX_FIXED_HEADER_SIZE
<1> HIDE DEF tb, body
<1>6. m \in 0..Len(data) /\ n \in Nat /\ start \in Nat /\ Len(body) \in Nat /\ Len(data) \in Nat
  BY <1>2, <1>3, <1>4, <1>5
<1>7. FullLength(body \o SubSeq(data, 1, m), start + Len(data)) = n
  <2>1. start + Len(data) # 0 /\ start + Len(data) - 5 = n
    BY <1>6
  <2> QED
    BY <2>1 DEF FullLength, MQTT_MAX_FIXED_HEADER_SIZE
<1>8. built.bytes = bytes /\ built.offset = start /\ built.header = HeaderOffset(n)
  BY <1>4, <1>7 DEF BuildPublish, MQTT_MAX_FIXED_HEADER_SIZE, tb, body
<1> HIDE DEF built, m, n
<1>9. bytes # NoMessage
  BY <1>8 DEF built
<1>10. /\ Framed(bytes \o SubSeq(data, m + 1, Len(data)), tb, ld, body, data)
       /\ Len(bytes) = 1 + ld + Len(body) + m
  BY <1>1, <1>2, <1>6, <1>9, MessageFramed DEF n
<1>11. ld \in Nat
  BY LengthCount
<1>12. Len(bytes) + built.header - built.offset = m
  <2> HIDE DEF bytes, ld
  <2>1. built.header = 5 - 1 - ld
    BY <1>8 DEF HeaderOffset, MQTT_MAX_FIXED_HEADER_SIZE, ld
  <2>2. m \in Nat
    BY <1>6
  <2> QED
    BY <1>6, <1>8, <1>10, <1>11, <2>1, <2>2
<1>13. After(data, m) = SubSeq(data, m + 1, Len(data))
  BY <1>6 DEF After
<1> HIDE DEF bytes, ld
<1>14. Whole(topic, data, qos, retain, id) = bytes \o SubSeq(data, m + 1, Len(data))
  BY <1>8, <1>12, <1>13 DEF Whole, built
<1> QED
  BY <1>10, <1>14 DEF tb, body

\* So does one that fits, if no fragmented one is in its way.
LEMMA ShortFramed ==
    ASSUME NEW topic \in Seq(Nat), NEW qos \in 0..2, NEW retain \in 0..1,
           NEW id \in TwoByteNumbers, NEW data \in Seq(Nat),
           ~BuildPublish(topic, data, qos, retain, id).over, fragmented_msg_data_offset = 0,
           BuildPublish(topic, data, qos, retain, id).bytes # NoMessage
    PROVE  \E ld : Framed(Whole(topic, data, qos, retain, id), TypeByte("PUBLISH", 0, qos, retain),
                          ld, PublishBody(topic, qos, id), data)
<1> DEFINE tb == TypeByte("PUBLISH", 0, qos, retain)
           body == PublishBody(topic, qos, id)
           m == Len(data)
           n == Len(body) + Len(data)
           bytes == Message(tb, body \o SubSeq(data, 1, m), n)
           built == BuildPublish(topic, data, qos, retain, id)
           ld == Len(LengthBytes(n))
           past == Len(bytes) + built.header - built.offset
<1>1. tb \in Nat
  <2>1. Types["PUBLISH"] = 3
    BY DEF Types
  <2>2. tb = 16 * 3 + 8 * 0 + 2 * qos + retain
    BY <2>1 DEF TypeByte
  <2> HIDE DEF tb
  <2> QED
    BY <2>2
<1>2. body \in Seq(Nat)
  BY PublishBodyType
<1>3. SubSeq(data, 1, m) = data
  BY SubSeqFull
<1> HIDE DEF tb
<1>4. FullLength(body \o data, 0) = n
  <2> HIDE DEF body
  <2>1. Len(body \o data) = n
    BY <1>2, ConcatProperties
  <2> QED
    BY <2>1 DEF FullLength
<1>5. built.bytes = bytes /\ built.offset = 0 /\ built.header = HeaderOffset(n)
  BY <1>3, <1>4 DEF BuildPublish, tb
<1> HIDE DEF built, body
<1>6. m \in 0..Len(data) /\ n \in Nat /\ Len(body) \in Nat /\ Len(data) \in Nat
  BY <1>2
<1> HIDE DEF m, n
<1>7. bytes # NoMessage
  BY <1>5 DEF built
<1>8. /\ Framed(bytes \o SubSeq(data, m + 1, Len(data)), tb, ld, body, data)
      /\ Len(bytes) = 1 + ld + Len(body) + m
  BY <1>1, <1>2, <1>6, <1>7, MessageFramed DEF n
<1>9. ld \in Nat
  BY LengthCount
<1>10. past \in Nat /\ past >= Len(data)
  <2> HIDE DEF bytes, ld
  <2>1. built.header = 5 - 1 - ld
    BY <1>5 DEF HeaderOffset, MQTT_MAX_FIXED_HEADER_SIZE, ld
  <2>2. m \in Nat /\ m = Len(data)
    BY <1>6 DEF m
  <2>3. past = 5 + Len(body) + m
    BY <1>5, <1>6, <1>8, <1>9, <2>1, <2>2
  <2> QED
    BY <1>6, <2>2, <2>3
<1> HIDE DEF past, bytes, ld
<1>11. After(data, past) = <<>> /\ SubSeq(data, m + 1, Len(data)) = <<>>
  <2>1. SubSeq(data, past + 1, Len(data)) = <<>>
    BY <1>10, CutAtEnd
  <2>2. m \in Nat /\ m >= Len(data)
    BY <1>6 DEF m
  <2>3. SubSeq(data, m + 1, Len(data)) = <<>>
    BY <2>2, CutAtEnd
  <2> QED
    BY <1>10, <2>1, <2>3 DEF After
<1>12. Whole(topic, data, qos, retain, id) = bytes \o SubSeq(data, m + 1, Len(data))
  BY <1>5, <1>11 DEF Whole, built, past
<1> QED
  BY <1>8, <1>12 DEF tb, body

\* The flags of a CONNECT, from those that are set.
FlagsOf(c, w, q, r, u, p) == 2 * c + w * 4 + 8 * q + 32 * r + 128 * u + 64 * p

\* Each is read as it was set.
FlagsAre(n, c, w, q, r, u, p) ==
    /\ (n \div 2) % 2 = c /\ (n \div 4) % 2 = w /\ (n \div 8) % 4 = q
    /\ (n \div 32) % 2 = r /\ (n \div 64) % 2 = p /\ (n \div 128) % 2 = u

\* Flags put together are read one by one.
LEMMA FlagsRead ==
    ASSUME NEW c \in 0..1, NEW w \in 0..1, NEW q \in 0..2, NEW r \in 0..1, NEW u \in 0..1,
           NEW p \in 0..1
    PROVE  FlagsAre(FlagsOf(c, w, q, r, u, p), c, w, q, r, u, p)
<1> DEFINE n == FlagsOf(c, w, q, r, u, p)
<1>1. n = 2 * c + 4 * w + 8 * q + 32 * r + 128 * u + 64 * p
  BY DEF FlagsOf
<1> HIDE DEF n
<1>2. n \div 2 = c + 2 * (w + 2 * q + 8 * r + 16 * p + 32 * u) /\ n \in Nat
  BY <1>1
<1>3. n \div 4 = w + 2 * (q + 4 * r + 8 * p + 16 * u)
  BY <1>1
<1>4. n \div 8 = q + 4 * (r + 2 * p + 4 * u)
  BY <1>1
<1>5. n \div 32 = r + 2 * (p + 2 * u)
  BY <1>1
<1>6. n \div 64 = p + 2 * u
  BY <1>1
<1>7. n \div 128 = u
  BY <1>1
<1>8. (n \div 2) % 2 = c
  BY <1>2
<1>9. (n \div 4) % 2 = w
  BY <1>3
<1>10. (n \div 8) % 4 = q
  BY <1>4
<1>11. (n \div 32) % 2 = r
  BY <1>5
<1>12. (n \div 64) % 2 = p
  BY <1>6
<1>13. (n \div 128) % 2 = u
  BY <1>7
<1> QED
  BY <1>8, <1>9, <1>10, <1>11, <1>12, <1>13 DEF FlagsAre, n

\* What is found of a string at k, and where the next begins.
Reads(b, k, s, next) ==
    /\ StringAt(b, k + 1) = s
    /\ Behind(b, k + 1) = next + 1

\* A string in its place is found.
LEMMA StringRead ==
    ASSUME NEW b \in Seq(Nat), NEW k \in Nat, NEW s \in Seq(Nat), Len(s) \in TwoByteNumbers,
           At(b, k, String(s))
    PROVE  Reads(b, k, s, k + 2 + Len(s))
<1>1. /\ Number(b, k + 1) = Len(s)
      /\ SubSeq(b, k + 3, k + 2 + Len(s)) = s
  BY StringAtPlace
<1>2. (k + 1) + 2 = k + 3 /\ (k + 1) + 1 + Len(s) = k + 2 + Len(s)
  OBVIOUS
<1>3. (k + 1) + 2 + Len(s) = (k + 2 + Len(s)) + 1
  OBVIOUS
<1>4. StringAt(b, k + 1) = SubSeq(b, k + 3, k + 2 + Len(s))
  BY <1>1, <1>2 DEF StringAt
<1>5. Behind(b, k + 1) = (k + 2 + Len(s)) + 1
  BY <1>1, <1>3 DEF Behind
<1> QED
  BY <1>1, <1>4, <1>5 DEF Reads

\* A string that may be there, and where what follows it begins.
Maybe(set, s) == IF set = 1 THEN s ELSE <<>>
Past(k, set, s) == IF set = 1 THEN k + 2 + Len(s) ELSE k

\* It is bytes.
LEMMA MaybeType ==
    ASSUME NEW set \in 0..1, NEW s \in Seq(Nat)
    PROVE  /\ Maybe(set, s) \in Seq(Nat)
           /\ Len(Maybe(set, s)) = (IF set = 1 THEN Len(s) ELSE 0)
  BY EmptySeq DEF Maybe

\* What is no larger than a number of two bytes is one.
LEMMA Smaller ==
    ASSUME NEW n \in TwoByteNumbers, NEW m \in Nat, m <= n
    PROVE  m \in TwoByteNumbers
<1> DEFINE top == 4 * LengthBase * LengthBase - 1
<1>1. top \in Int
  BY OutputAssumption
<1>2. n \in 0..top
  BY DEF TwoByteNumbers
<1> HIDE DEF top
<1>3. m \in 0..top
  BY <1>1, <1>2
<1> QED
  BY <1>3 DEF TwoByteNumbers, top

\* The strings of a CONNECT, those of the will, the name and the password where they are set.
StringsOf(c, w, t, m, v, u, p, s) ==
    String(c) \o Maybe(w, String(t) \o String(m)) \o Maybe(v, String(u)) \o Maybe(p, String(s))

\* Reading them one behind the other finds each of them, and then the end.
Walk(b, k, c, w, t, m, v, u, p, s) ==
    LET k1 == k + 2 + Len(c)
        k2 == Past(k1, w, t)
        k3 == Past(k2, w, m)
        k4 == Past(k3, v, u)
    IN  /\ Reads(b, k, c, k1)
        /\ w = 1 => Reads(b, k1, t, k2) /\ Reads(b, k2, m, k3)
        /\ v = 1 => Reads(b, k3, u, k4)
        /\ p = 1 => Reads(b, k4, s, Past(k4, p, s))
        /\ Past(k4, p, s) = Len(b)

\* They are bytes, and as many.
StringsLength(c, w, t, m, v, u, p, s) ==
    2 + Len(c) + (IF w = 1 THEN 4 + Len(t) + Len(m) ELSE 0)
        + (IF v = 1 THEN 2 + Len(u) ELSE 0) + (IF p = 1 THEN 2 + Len(s) ELSE 0)

\* The strings of a CONNECT are bytes, as many as they say.
LEMMA StringsType ==
    ASSUME NEW c \in Seq(Nat), NEW t \in Seq(Nat), NEW m \in Seq(Nat), NEW u \in Seq(Nat),
           NEW s \in Seq(Nat), NEW w \in 0..1, NEW v \in 0..1, NEW p \in 0..1
    PROVE  /\ StringsOf(c, w, t, m, v, u, p, s) \in Seq(Nat)
           /\ Len(StringsOf(c, w, t, m, v, u, p, s)) = StringsLength(c, w, t, m, v, u, p, s)
<1> DEFINE A == String(c)
           T == String(t)
           M == String(m)
           B == Maybe(w, T \o M)
           U == String(u)
           C == Maybe(v, U)
           S == String(s)
           D == Maybe(p, S)
<1>1. A \in Seq(Nat) /\ Len(A) = 2 + Len(c)
  BY StringType
<1>2. T \in Seq(Nat) /\ Len(T) = 2 + Len(t)
  BY StringType
<1>3. M \in Seq(Nat) /\ Len(M) = 2 + Len(m)
  BY StringType
<1>4. U \in Seq(Nat) /\ Len(U) = 2 + Len(u)
  BY StringType
<1>5. S \in Seq(Nat) /\ Len(S) = 2 + Len(s)
  BY StringType
<1>6. StringsOf(c, w, t, m, v, u, p, s) = A \o B \o C \o D
  BY DEF StringsOf
<1> HIDE DEF A, T, M, U, S
<1>7. T \o M \in Seq(Nat) /\ Len(T \o M) = 4 + Len(t) + Len(m)
  <2>1. T \o M \in Seq(Nat) /\ Len(T \o M) = Len(T) + Len(M)
    BY <1>2, <1>3, ConcatProperties
  <2> QED
    BY <1>2, <1>3, <2>1
<1>8. B \in Seq(Nat) /\ Len(B) = (IF w = 1 THEN 4 + Len(t) + Len(m) ELSE 0)
  BY <1>7, MaybeType
<1>9. C \in Seq(Nat) /\ Len(C) = (IF v = 1 THEN 2 + Len(u) ELSE 0)
  BY <1>4, MaybeType
<1>10. D \in Seq(Nat) /\ Len(D) = (IF p = 1 THEN 2 + Len(s) ELSE 0)
  BY <1>5, MaybeType
<1> HIDE DEF B, C, D
<1> DEFINE X == A \o B
           Y == X \o C
           Z == Y \o D
<1>11. X \in Seq(Nat) /\ Len(X) = Len(A) + Len(B)
  BY <1>1, <1>8, ConcatProperties
<1> HIDE DEF X
<1>12. Y \in Seq(Nat) /\ Len(Y) = Len(X) + Len(C)
  BY <1>9, <1>11, ConcatProperties
<1> HIDE DEF Y
<1>13. Z \in Seq(Nat) /\ Len(Z) = Len(Y) + Len(D)
  BY <1>10, <1>12, ConcatProperties
<1>14. StringsOf(c, w, t, m, v, u, p, s) = Z
  BY <1>6 DEF X, Y
<1> HIDE DEF Z
<1>15. Len(Z) = Len(A) + Len(B) + Len(C) + Len(D)
  BY <1>11, <1>12, <1>13
<1> QED
  BY <1>1, <1>8, <1>9, <1>10, <1>13, <1>14, <1>15 DEF StringsLength

\* They are found.
LEMMA StringsRead ==
    ASSUME NEW c \in Seq(Nat), NEW t \in Seq(Nat), NEW m \in Seq(Nat), NEW u \in Seq(Nat),
           NEW s \in Seq(Nat), NEW w \in 0..1, NEW v \in 0..1, NEW p \in 0..1,
           NEW b \in Seq(Nat), NEW k \in Nat,
           At(b, k, StringsOf(c, w, t, m, v, u, p, s)),
           Len(b) = k + Len(StringsOf(c, w, t, m, v, u, p, s)),
           Len(StringsOf(c, w, t, m, v, u, p, s)) \in TwoByteNumbers
    PROVE  Walk(b, k, c, w, t, m, v, u, p, s)
<1> DEFINE A == String(c)
           T == String(t)
           M == String(m)
           B == Maybe(w, T \o M)
           U == String(u)
           C == Maybe(v, U)
           S == String(s)
           D == Maybe(p, S)
           X == A \o B
           Y == X \o C
           k1 == k + 2 + Len(c)
           k2 == Past(k1, w, t)
           k3 == Past(k2, w, m)
           k4 == Past(k3, v, u)
           k5 == Past(k4, p, s)
           all == StringsOf(c, w, t, m, v, u, p, s)
           tw == IF w = 1 THEN 4 + Len(t) + Len(m) ELSE 0
           uw == IF v = 1 THEN 2 + Len(u) ELSE 0
           pw == IF p = 1 THEN 2 + Len(s) ELSE 0
<1>30. tw \in Nat /\ uw \in Nat /\ pw \in Nat
  OBVIOUS
<1>31. /\ w = 1 => Len(t) <= tw /\ Len(m) <= tw
       /\ v = 1 => Len(u) <= uw
       /\ p = 1 => Len(s) <= pw
  OBVIOUS
<1>1. A \in Seq(Nat) /\ Len(A) = 2 + Len(c)
  BY StringType
<1>2. T \in Seq(Nat) /\ Len(T) = 2 + Len(t)
  BY StringType
<1>3. M \in Seq(Nat) /\ Len(M) = 2 + Len(m)
  BY StringType
<1>4. U \in Seq(Nat) /\ Len(U) = 2 + Len(u)
  BY StringType
<1>5. S \in Seq(Nat) /\ Len(S) = 2 + Len(s)
  BY StringType
<1>6. all = Y \o D
  BY DEF StringsOf
<1> HIDE DEF A, T, M, U, S, all
<1>7. T \o M \in Seq(Nat) /\ Len(T \o M) = 4 + Len(t) + Len(m)
  <2>1. T \o M \in Seq(Nat) /\ Len(T \o M) = Len(T) + Len(M)
    BY <1>2, <1>3, ConcatProperties
  <2> QED
    BY <1>2, <1>3, <2>1
<1>8. B \in Seq(Nat) /\ Len(B) = tw
  BY <1>7, MaybeType
<1>9. C \in Seq(Nat) /\ Len(C) = uw
  BY <1>4, MaybeType
<1>10. D \in Seq(Nat) /\ Len(D) = pw
  BY <1>5, MaybeType
<1>11. /\ Len(c) \in Nat /\ Len(t) \in Nat /\ Len(m) \in Nat /\ Len(u) \in Nat /\ Len(s) \in Nat
  OBVIOUS
<1>12. all \in Seq(Nat) /\ At(b, k, all) /\ Len(b) = k + Len(all) /\ Len(all) \in TwoByteNumbers
  BY StringsType DEF all
<1>13. k1 \in Nat /\ k2 \in Nat /\ k3 \in Nat /\ k4 \in Nat /\ k5 \in Nat
  BY <1>11 DEF Past
<1>14. k3 = k1 + tw /\ k4 = k3 + uw /\ k5 = k4 + pw
  <2>1. k3 = k1 + tw
    <3> HIDE DEF k1
    <3> QED
      BY <1>11, <1>13 DEF Past
  <2>2. k4 = k3 + uw
    <3> HIDE DEF k3
    <3> QED
      BY <1>11, <1>13 DEF Past
  <2>3. k5 = k4 + pw
    <3> HIDE DEF k4
    <3> QED
      BY <1>11, <1>13 DEF Past
  <2> QED
    BY <2>1, <2>2, <2>3
<1> HIDE DEF tw, uw, pw
<1> HIDE DEF B, C, D
<1>16. X \in Seq(Nat) /\ Len(X) = Len(A) + Len(B)
  BY <1>1, <1>8, ConcatProperties
<1> HIDE DEF X
<1>17. Y \in Seq(Nat) /\ Len(Y) = Len(X) + Len(C)
  BY <1>9, <1>16, ConcatProperties
<1> HIDE DEF Y
<1>0. Len(all) = 2 + Len(c) + tw + uw + pw
  <2>1. Len(all) = Len(Y) + Len(D)
    BY <1>6, <1>10, <1>17, ConcatProperties
  <2> QED
    BY <1>1, <1>8, <1>9, <1>10, <1>11, <1>16, <1>17, <1>30, <2>1
<1>15. /\ Len(c) \in TwoByteNumbers
       /\ w = 1 => Len(t) \in TwoByteNumbers /\ Len(m) \in TwoByteNumbers
       /\ v = 1 => Len(u) \in TwoByteNumbers
       /\ p = 1 => Len(s) \in TwoByteNumbers
  <2> DEFINE L == Len(all)
  <2>1. L \in TwoByteNumbers
    BY <1>12
  <2>2. L = 2 + Len(c) + tw + uw + pw
    BY <1>0
  <2> HIDE DEF L
  <2>3. Len(c) <= L /\ tw <= L
    BY <1>11, <1>30, <2>2
  <2>4. uw <= L /\ pw <= L /\ L \in Nat
    BY <1>11, <1>30, <2>2
  <2>5. w = 1 => Len(t) <= L /\ Len(m) <= L
    BY <1>11, <1>30, <1>31, <2>3, <2>4
  <2>6. v = 1 => Len(u) <= L
    BY <1>11, <1>30, <1>31, <2>4
  <2>7. p = 1 => Len(s) <= L
    BY <1>11, <1>30, <1>31, <2>4
  <2> QED
    BY <1>11, <2>1, <2>3, <2>5, <2>6, <2>7, Smaller
<1>18. At(b, k, Y) /\ At(b, k + Len(Y), D)
  BY <1>6, <1>10, <1>12, <1>17, AtParts
<1>19. At(b, k, X) /\ At(b, k + Len(X), C)
  BY <1>9, <1>16, <1>18, AtParts DEF Y
<1>20. At(b, k, A) /\ At(b, k + Len(A), B)
  BY <1>1, <1>8, <1>19, AtParts DEF X
<1>21. k + Len(A) = k1
  BY <1>1, <1>11
<1>22. k + Len(X) = k3
  <2>1. k + Len(X) = (k + Len(A)) + tw
    BY <1>1, <1>8, <1>11, <1>16, <1>30
  <2> QED
    BY <1>14, <1>21, <2>1
<1>23. k + Len(Y) = k4
  <2>1. k + Len(Y) = (k + Len(X)) + uw
    BY <1>9, <1>16, <1>17, <1>30
  <2> QED
    BY <1>14, <1>22, <2>1
<1>24. k5 = Len(b)
  <2>1. Len(all) = Len(Y) + Len(D)
    BY <1>6, <1>10, <1>17, ConcatProperties
  <2>2. k + Len(all) = (k + Len(Y)) + pw
    BY <1>10, <1>17, <1>30, <2>1
  <2> QED
    BY <1>12, <1>14, <1>23, <2>2
<1> HIDE DEF k1, k2, k3, k4, k5
<1>25. Reads(b, k, c, k1)
  BY <1>15, <1>20, StringRead DEF A, k1
<1>26. ASSUME w = 1 PROVE Reads(b, k1, t, k2) /\ Reads(b, k2, m, k3)
  <2>1. At(b, k1, T \o M)
    BY <1>20, <1>21, <1>26 DEF B, Maybe
  <2>2. At(b, k1, T) /\ At(b, k1 + Len(T), M)
    BY <1>2, <1>3, <1>13, <2>1, AtParts
  <2>3. k2 = k1 + 2 + Len(t) /\ k1 + Len(T) = k2
    BY <1>2, <1>11, <1>13, <1>26 DEF k2, Past
  <2>4. k3 = k2 + 2 + Len(m)
    BY <1>26 DEF k3, Past
  <2>5. Reads(b, k1, t, k1 + 2 + Len(t))
    BY <1>13, <1>15, <1>26, <2>2, StringRead DEF T
  <2>6. Reads(b, k2, m, k2 + 2 + Len(m))
    BY <1>13, <1>15, <1>26, <2>2, <2>3, StringRead DEF M
  <2> QED
    BY <2>3, <2>4, <2>5, <2>6
<1>27. ASSUME v = 1 PROVE Reads(b, k3, u, k4)
  <2>1. At(b, k3, U)
    BY <1>19, <1>22, <1>27 DEF C, Maybe
  <2>2. k4 = k3 + 2 + Len(u)
    BY <1>27 DEF k4, Past
  <2> QED
    BY <1>13, <1>15, <1>27, <2>1, <2>2, StringRead DEF U
<1>28. ASSUME p = 1 PROVE Reads(b, k4, s, k5)
  <2>1. At(b, k4, S)
    BY <1>18, <1>23, <1>28 DEF D, Maybe
  <2>2. k5 = k4 + 2 + Len(s)
    BY <1>28 DEF k5, Past
  <2> QED
    BY <1>13, <1>15, <1>28, <2>1, <2>2, StringRead DEF S
<1>29. Walk(b, k, c, w, t, m, v, u, p, s)
  BY <1>24, <1>25, <1>26, <1>27, <1>28 DEF Walk, k1, k2, k3, k4, k5
<1> QED
  BY <1>29

\* What a CONNECT is asked to say, in bits.
Bit(set) == IF set THEN 1 ELSE 0
Clean(info) == Bit(info.clean_session)
HasWill(info) == Bit(info.will_topic # <<>>)
HasPassword(info) == Bit(info.password # <<>>)
HasName(info) == Bit(info.username # <<>> \/ info.password # <<>>)

\* The types of it.
LEMMA InfoType ==
    ASSUME NEW info \in ConnectInfos
    PROVE  /\ info.client_id \in Seq(Nat) /\ info.will_topic \in Seq(Nat)
           /\ info.will_message \in Seq(Nat) /\ info.username \in Seq(Nat)
           /\ info.password \in Seq(Nat) /\ info.keepalive \in TwoByteNumbers
           /\ info.will_qos \in 0..2 /\ info.will_retain \in BOOLEAN
           /\ info.clean_session \in BOOLEAN /\ info.protocol \in {"3.1", "3.1.1"}
           /\ HasWill(info) \in 0..1 /\ HasName(info) \in 0..1 /\ HasPassword(info) \in 0..1
           /\ Clean(info) \in 0..1
  BY OutputAssumption DEF Texts, HasWill, HasName, HasPassword, Clean, Bit

\* The flags that are set.
WillQos(info) == IF info.will_topic # <<>> THEN info.will_qos ELSE 0
WillRetain(info) == Bit(info.will_topic # <<>> /\ info.will_retain)

\* ConnectFlags puts together what is set.
LEMMA FlagsWritten ==
    ASSUME NEW info \in ConnectInfos
    PROVE  ConnectFlags(info) = FlagsOf(Clean(info), HasWill(info), WillQos(info),
                                        WillRetain(info), HasName(info),
                                        HasPassword(info))
<1> DEFINE will == IF info.will_topic = <<>> THEN 0
                   ELSE 4 + 8 * (info.will_qos % 4) + Flag(info.will_retain, 32)
<1>1. Flag(info.clean_session, 2) = 2 * Clean(info)
  BY DEF Flag, Bit, Clean
<1>2. will = HasWill(info) * 4 + 8 * WillQos(info) + 32 * WillRetain(info)
  <2>1. info.will_qos \in 0..2 /\ info.will_qos % 4 = info.will_qos
    BY InfoType
  <2>2. CASE info.will_topic = <<>>
    BY <2>2 DEF HasWill, WillQos, WillRetain, Bit
  <2>3. CASE info.will_topic # <<>>
    <3>1. CASE info.will_retain
      BY <2>1, <2>3, <3>1 DEF HasWill, WillQos, WillRetain, Bit, Flag
    <3>2. CASE ~info.will_retain
      BY <2>1, <2>3, <3>2 DEF HasWill, WillQos, WillRetain, Bit, Flag
    <3> QED
      BY <3>1, <3>2
  <2> QED
    BY <2>2, <2>3
<1>3. Flag(info.username # <<>> \/ info.password # <<>>, 128) = 128 * HasName(info)
  BY DEF Flag, Bit, HasName
<1>4. Flag(info.password # <<>>, 64) = 64 * HasPassword(info)
  BY DEF Flag, Bit, HasPassword
<1>5. ConnectFlags(info) = Flag(info.clean_session, 2) + will
                             + Flag(info.username # <<>> \/ info.password # <<>>, 128)
                             + Flag(info.password # <<>>, 64)
  BY DEF ConnectFlags
<1>6. /\ Clean(info) \in 0..1 /\ HasWill(info) \in 0..1
      /\ WillRetain(info) \in 0..1 /\ HasName(info) \in 0..1
      /\ HasPassword(info) \in 0..1 /\ WillQos(info) \in 0..2
  BY InfoType DEF Bit, WillQos, WillRetain
<1> HIDE DEF will
<1> QED
  BY <1>1, <1>2, <1>3, <1>4, <1>5, <1>6 DEF FlagsOf

\* The strings that are written.
LEMMA StringsWritten ==
    ASSUME NEW info \in ConnectInfos
    PROVE  ConnectStrings(info) =
               StringsOf(info.client_id, HasWill(info), info.will_topic, info.will_message,
                         HasName(info), info.username, HasPassword(info), info.password)
<1>1. (IF info.will_topic = <<>> THEN <<>>
       ELSE String(info.will_topic) \o String(info.will_message))
        = Maybe(HasWill(info), String(info.will_topic) \o String(info.will_message))
  BY DEF Maybe, HasWill, Bit
<1>2. (IF info.username = <<>> /\ info.password = <<>> THEN <<>> ELSE String(info.username))
        = Maybe(HasName(info), String(info.username))
  BY DEF Maybe, HasName, Bit
<1>3. (IF info.password = <<>> THEN <<>> ELSE String(info.password))
        = Maybe(HasPassword(info), String(info.password))
  BY DEF Maybe, HasPassword, Bit
<1> QED
  BY <1>1, <1>2, <1>3 DEF ConnectStrings, StringsOf

\* How many bytes the name of the protocol and its version have.
NamesLength(info) == IF info.protocol = "3.1" THEN 9 ELSE 7

\* The parts of a CONNECT.
LEMMA ConnectParts ==
    ASSUME NEW info \in ConnectInfos
    PROVE  /\ ProtocolHeader(info.protocol) \in Seq(Nat)
           /\ Len(ProtocolHeader(info.protocol)) = NamesLength(info)
           /\ ConnectFlags(info) \in Nat
           /\ TwoBytes(info.keepalive) \in Seq(Nat) /\ Len(TwoBytes(info.keepalive)) = 2
           /\ ConnectStrings(info) \in Seq(Nat)
           /\ ConnectBody(info) \in Seq(Nat)
           /\ Len(ConnectBody(info)) = NamesLength(info) + 3 + Len(ConnectStrings(info))
<1> DEFINE H == ProtocolHeader(info.protocol)
           F == <<ConnectFlags(info)>>
           K == TwoBytes(info.keepalive)
           S == ConnectStrings(info)
<1>1. H \in Seq(Nat) /\ Len(H) = NamesLength(info)
  <2>1. CASE info.protocol = "3.1"
    BY <2>1 DEF ProtocolHeader, NamesLength
  <2>2. CASE info.protocol # "3.1"
    BY <2>2 DEF ProtocolHeader, NamesLength
  <2> QED
    BY <2>1, <2>2
<1>2. ConnectFlags(info) \in Nat
  <2>1. /\ Clean(info) \in 0..1 /\ HasWill(info) \in 0..1
        /\ WillRetain(info) \in 0..1 /\ HasName(info) \in 0..1
        /\ HasPassword(info) \in 0..1 /\ WillQos(info) \in 0..2
    BY InfoType DEF Bit, WillQos, WillRetain
  <2> DEFINE n == FlagsOf(Clean(info), HasWill(info), WillQos(info), WillRetain(info),
                          HasName(info), HasPassword(info))
  <2>2. n \in Nat
    BY <2>1 DEF FlagsOf
  <2>3. ConnectFlags(info) = n
    BY FlagsWritten
  <2> QED
    BY <2>2, <2>3
<1>3. F \in Seq(Nat) /\ Len(F) = 1
  BY <1>2
<1>4. K \in Seq(Nat) /\ Len(K) = 2
  BY InfoType, IdType
<1>5. S \in Seq(Nat)
  <2> DEFINE w == HasWill(info)
             v == HasName(info)
             p == HasPassword(info)
             c == info.client_id
             t == info.will_topic
             m == info.will_message
             u == info.username
             s == info.password
  <2>1. /\ c \in Seq(Nat) /\ t \in Seq(Nat) /\ m \in Seq(Nat) /\ u \in Seq(Nat) /\ s \in Seq(Nat)
        /\ w \in 0..1 /\ v \in 0..1 /\ p \in 0..1
    BY InfoType
  <2>2. S = StringsOf(c, w, t, m, v, u, p, s)
    BY StringsWritten
  <2> HIDE DEF S, c, w, t, m, v, u, p, s
  <2>3. StringsOf(c, w, t, m, v, u, p, s) \in Seq(Nat)
    BY <2>1, StringsType
  <2> QED
    BY <2>2, <2>3
<1>6. ConnectBody(info) = H \o F \o K \o S
  BY DEF ConnectBody
<1>7. NamesLength(info) \in Nat
  BY DEF NamesLength
<1> HIDE DEF H, F, K, S
<1> DEFINE HF == H \o F
           HFK == HF \o K
<1>8. HF \in Seq(Nat) /\ Len(HF) = Len(H) + Len(F)
  BY <1>1, <1>3, ConcatProperties
<1> HIDE DEF HF
<1>9. HFK \in Seq(Nat) /\ Len(HFK) = Len(HF) + Len(K)
  BY <1>4, <1>8, ConcatProperties
<1> HIDE DEF HFK
<1>10. HFK \o S \in Seq(Nat) /\ Len(HFK \o S) = Len(HFK) + Len(S)
  BY <1>5, <1>9, ConcatProperties
<1>11. ConnectBody(info) = HFK \o S
  BY <1>6 DEF HF, HFK
<1>12. Len(HFK) = NamesLength(info) + 3
  BY <1>1, <1>3, <1>4, <1>7, <1>8, <1>9
<1>13. Len(ConnectBody(info)) = NamesLength(info) + 3 + Len(S)
  BY <1>10, <1>11, <1>12
<1> QED
  BY <1>1, <1>2, <1>4, <1>5, <1>10, <1>11, <1>13 DEF H, K, S

\* Where the parts of a CONNECT are.
ConnectPlaces(b, k, info) ==
    LET names == k + NamesLength(info)
    IN  /\ names \in Nat
        /\ b[names + 1] = ConnectFlags(info)
        /\ Number(b, names + 2) = info.keepalive
        /\ Walk(b, names + 3, info.client_id, HasWill(info), info.will_topic, info.will_message,
                HasName(info), info.username, HasPassword(info), info.password)

\* A CONNECT that was put together is at its places.
LEMMA ConnectPlaced ==
    ASSUME NEW info \in ConnectInfos, NEW b, NEW tb, NEW ld,
           Fits(ConnectBody(info)), Framed(b, tb, ld, ConnectBody(info), <<>>)
    PROVE  ConnectPlaces(b, 1 + ld, info)
<1> DEFINE H == ProtocolHeader(info.protocol)
           F == <<ConnectFlags(info)>>
           K == TwoBytes(info.keepalive)
           S == ConnectStrings(info)
           k == 1 + ld
           h == NamesLength(info)
           body == ConnectBody(info)
<1>1. H \in Seq(Nat) /\ Len(H) = h
  BY ConnectParts
<1>2. F \in Seq(Nat) /\ Len(F) = 1 /\ F[1] = ConnectFlags(info)
  BY ConnectParts
<1>3. K \in Seq(Nat) /\ Len(K) = 2
  BY ConnectParts
<1>4. S \in Seq(Nat) /\ body \in Seq(Nat) /\ Len(body) = h + 3 + Len(S)
  BY ConnectParts
<1>5. body = H \o F \o K \o S
  BY DEF ConnectBody
<1>6. h \in Nat
  BY DEF NamesLength
<1>7. 5 + Len(body) <= buffer_length /\ buffer_length \in TwoByteNumbers
  BY OutputAssumption DEF Fits, MQTT_MAX_FIXED_HEADER_SIZE
<1>8. Framed(b, tb, ld, body, <<>>)
  OBVIOUS
<1> HIDE DEF H, F, K, S, h, body
<1>9. /\ b \in Seq(Nat) /\ ld \in 1..4 /\ Len(b) = 1 + ld + Len(body) /\ At(b, 1 + ld, body)
  BY <1>4, <1>8, BodyRead
<1>10. k \in Nat
  BY <1>9
<1>11. At(b, k, body) /\ Len(b) = k + Len(body)
  BY <1>9
<1> HIDE DEF k
<1> DEFINE HF == H \o F
           HFK == HF \o K
<1>12. HF \in Seq(Nat) /\ Len(HF) = h + 1
  <2>1. HF \in Seq(Nat) /\ Len(HF) = Len(H) + Len(F)
    BY <1>1, <1>2, ConcatProperties
  <2> HIDE DEF HF
  <2> QED
    BY <1>1, <1>2, <2>1
<1>13. body = HFK \o S
  BY <1>5
<1> HIDE DEF HF
<1>14. HFK \in Seq(Nat) /\ Len(HFK) = h + 3
  <2>1. HFK \in Seq(Nat) /\ Len(HFK) = Len(HF) + Len(K)
    BY <1>3, <1>12, ConcatProperties
  <2> HIDE DEF HFK
  <2> QED
    BY <1>3, <1>6, <1>12, <2>1
<1> HIDE DEF HFK
<1>15. At(b, k, HFK) /\ At(b, k + Len(HFK), S)
  BY <1>4, <1>9, <1>10, <1>11, <1>13, <1>14, AtParts
<1>16. At(b, k, HF) /\ At(b, k + Len(HF), K)
  BY <1>3, <1>9, <1>10, <1>12, <1>15, AtParts DEF HFK
<1>17. At(b, k + Len(H), F)
  BY <1>1, <1>2, <1>9, <1>10, <1>16, AtParts DEF HF
<1> DEFINE names == k + h
<1>18. names \in Nat
  BY <1>6, <1>10
<1>19. k + Len(H) = names /\ k + Len(HF) = names + 1 /\ k + Len(HFK) = names + 3
  BY <1>1, <1>6, <1>10, <1>12, <1>14
<1> HIDE DEF names
<1>20. b[names + 1] = ConnectFlags(info)
  BY <1>2, <1>17, <1>19 DEF At
<1>21. Number(b, names + 2) = info.keepalive
  <2> DEFINE place == names + 1
  <2>1. At(b, place, TwoBytes(info.keepalive)) /\ place \in Nat /\ place + 1 = names + 2
    BY <1>16, <1>18, <1>19 DEF K
  <2> HIDE DEF place
  <2>2. info.keepalive \in TwoByteNumbers
    BY InfoType
  <2>3. Number(b, place + 1) = info.keepalive
    BY <1>9, <2>1, <2>2, NumberAt
  <2> QED
    BY <2>1, <2>3
<1>22. /\ At(b, names + 3, S) /\ Len(b) = (names + 3) + Len(S)
       /\ Len(S) \in TwoByteNumbers
  <2>1. At(b, names + 3, S)
    BY <1>15, <1>19
  <2>2. Len(b) = (names + 3) + Len(S)
    BY <1>4, <1>6, <1>10, <1>11 DEF names
  <2>3. buffer_length \in Nat
    BY OutputAssumption DEF TwoByteNumbers
  <2>4. Len(S) \in Nat /\ Len(S) <= buffer_length
    BY <1>4, <1>6, <1>7, <2>3
  <2>5. Len(S) \in TwoByteNumbers
    BY <1>7, <2>4, Smaller
  <2> QED
    BY <2>1, <2>2, <2>5
<1>23. Walk(b, names + 3, info.client_id, HasWill(info), info.will_topic, info.will_message,
            HasName(info), info.username, HasPassword(info), info.password)
  <2> DEFINE w == HasWill(info)
             v == HasName(info)
             p == HasPassword(info)
             c == info.client_id
             t == info.will_topic
             m == info.will_message
             u == info.username
             s == info.password
             place == names + 3
  <2>1. /\ c \in Seq(Nat) /\ t \in Seq(Nat) /\ m \in Seq(Nat) /\ u \in Seq(Nat) /\ s \in Seq(Nat)
        /\ w \in 0..1 /\ v \in 0..1 /\ p \in 0..1
    BY InfoType
  <2>2. S = StringsOf(c, w, t, m, v, u, p, s)
    BY StringsWritten DEF S
  <2>3. place \in Nat /\ At(b, place, S) /\ Len(b) = place + Len(S)
    BY <1>18, <1>22
  <2> HIDE DEF c, w, t, m, v, u, p, s, place
  <2>4. Walk(b, place, c, w, t, m, v, u, p, s)
    BY <1>9, <1>22, <2>1, <2>2, <2>3, StringsRead
  <2> QED
    BY <2>4 DEF c, w, t, m, v, u, p, s, place
<1>24. ConnectPlaces(b, k, info)
  BY <1>18, <1>20, <1>21, <1>23 DEF ConnectPlaces, names, h
<1> QED
  BY <1>24 DEF k

\* A CONNECT says what was asked.
LEMMA ConnectSaid ==
    ASSUME NEW info \in ConnectInfos, NEW b, NEW tb, NEW ld,
           Fits(ConnectBody(info)), Framed(b, tb, ld, ConnectBody(info), <<>>)
    PROVE  ConnectSays(b, info)
<1> DEFINE w == HasWill(info)
           v == HasName(info)
           p == HasPassword(info)
           names == FixedSize(b) + NamesLength(info)
           flags == b[names + 1]
           bit(n) == (flags \div n) % 2
           k == names + 3
           k1 == k + 2 + Len(info.client_id)
           k2 == Past(k1, w, info.will_topic)
           k3 == Past(k2, w, info.will_message)
           k4 == Past(k3, v, info.username)
           k5 == Past(k4, p, info.password)
<1>1. FixedSize(b) = 1 + ld
  BY DEF Framed
<1>2. /\ names \in Nat /\ flags = ConnectFlags(info) /\ Number(b, names + 2) = info.keepalive
      /\ Walk(b, k, info.client_id, w, info.will_topic, info.will_message, v, info.username,
              p, info.password)
  BY <1>1, ConnectPlaced DEF ConnectPlaces
<1>3. /\ Clean(info) \in 0..1 /\ w \in 0..1 /\ WillRetain(info) \in 0..1
      /\ v \in 0..1 /\ p \in 0..1 /\ WillQos(info) \in 0..2
  BY InfoType DEF Bit, WillQos, WillRetain
<1>4. /\ bit(2) = Clean(info) /\ bit(4) = w /\ (flags \div 8) % 4 = WillQos(info)
      /\ bit(32) = WillRetain(info) /\ bit(64) = p /\ bit(128) = v
  <2> DEFINE c == Clean(info)
             q == WillQos(info)
             r == WillRetain(info)
  <2>1. flags = FlagsOf(c, w, q, r, v, p)
    BY <1>2, FlagsWritten
  <2> HIDE DEF c, q, r, w, v, p, flags
  <2>2. c \in 0..1 /\ w \in 0..1 /\ q \in 0..2 /\ r \in 0..1 /\ v \in 0..1 /\ p \in 0..1
    BY <1>3 DEF c, q, r, w, v, p
  <2>3. FlagsAre(flags, c, w, q, r, v, p)
    BY <2>1, <2>2, FlagsRead
  <2> QED
    BY <2>3 DEF c, q, r, FlagsAre
<1>5. /\ Reads(b, k, info.client_id, k1)
      /\ w = 1 => Reads(b, k1, info.will_topic, k2) /\ Reads(b, k2, info.will_message, k3)
      /\ v = 1 => Reads(b, k3, info.username, k4)
      /\ p = 1 => Reads(b, k4, info.password, k5)
      /\ k5 = Len(b)
  BY <1>2 DEF Walk
<1> HIDE DEF w, v, p
<1>6. w # 1 => k2 = k1 /\ k3 = k2
  BY DEF Past
<1>7. v # 1 => k4 = k3
  BY DEF Past
<1>8. p # 1 => k5 = k4
  BY DEF Past
<1>9. names + 4 = k + 1
  BY <1>2
<1> HIDE DEF k5
<1> HIDE DEF k4
<1> HIDE DEF k3
<1> HIDE DEF k2
<1> HIDE DEF k1
<1> HIDE DEF k, names, bit
<1> DEFINE has(n) == bit(n) = 1
           first == names + 4
           topic == Behind(b, first)
           text == IF has(4) THEN Behind(b, topic) ELSE topic
           user == IF has(4) THEN Behind(b, text) ELSE text
           secret == IF has(128) THEN Behind(b, user) ELSE user
           end == IF has(64) THEN Behind(b, secret) ELSE secret
<1>10. topic = k1 + 1 /\ StringAt(b, first) = info.client_id
  BY <1>5, <1>9 DEF Reads
<1>11. text = k2 + 1 /\ (has(4) => StringAt(b, topic) = info.will_topic)
  <2> HIDE DEF topic
  <2> QED
    BY <1>4, <1>5, <1>6, <1>10 DEF Reads
<1>12. user = k3 + 1 /\ (has(4) => StringAt(b, text) = info.will_message)
  <2> HIDE DEF text
  <2> QED
    BY <1>4, <1>5, <1>6, <1>11 DEF Reads
<1>13. secret = k4 + 1 /\ (has(128) => StringAt(b, user) = info.username)
  <2> HIDE DEF user
  <2> QED
    BY <1>4, <1>5, <1>7, <1>12 DEF Reads
<1>14. end = k5 + 1 /\ (has(64) => StringAt(b, secret) = info.password)
  <2> HIDE DEF secret
  <2> QED
    BY <1>4, <1>5, <1>8, <1>13 DEF Reads
<1>15. end = Len(b) + 1
  BY <1>5, <1>14
<1>16. has(4) = (info.will_topic # <<>>)
  BY <1>4 DEF w, HasWill, Bit
<1>17. has(64) = (info.password # <<>>)
  BY <1>4 DEF p, HasPassword, Bit
<1>18. has(128) = (has(64) \/ info.username # <<>>)
  BY <1>4, <1>17 DEF v, HasName, Bit
<1>19. has(2) = info.clean_session
  BY <1>4, InfoType DEF Clean, Bit
<1>20. has(4) => (flags \div 8) % 4 = info.will_qos
  BY <1>4, <1>16 DEF WillQos
<1>21. has(4) => has(32) = info.will_retain
  BY <1>4, <1>16, InfoType DEF WillRetain, Bit
<1> QED
  BY <1>2, <1>10, <1>11, <1>12, <1>13, <1>14, <1>15, <1>16, <1>17, <1>18, <1>19, <1>20, <1>21
     DEF ConnectSays, names, bit, NamesLength

\* What is written is right, and what remains of a fragmented publish are numbers.
OutputInv ==
    /\ fragmented_msg_total_length \in Nat /\ fragmented_msg_data_offset \in Nat
    /\ unsent \in BOOLEAN
    /\ OutputRight

\* Nothing was written, and what is kept of a fragmented publish is told of.
LEMMA Unwritten ==
    ASSUME written' = NoMessage,
           fragmented_msg_total_length' \in Nat, fragmented_msg_data_offset' \in Nat,
           unsent' \in BOOLEAN,
           fragmented_msg_total_length' # 0 \/ fragmented_msg_data_offset' > 0 => unsent'
    PROVE  OutputInv'
  BY DEF OutputInv, OutputRight

\* A header has room for its bytes.
LEMMA HeaderRoom ==
    ASSUME NEW tb, NEW body, NEW n, Message(tb, body, n) # NoMessage
    PROVE  HeaderOffset(n) \in Nat
<1>1. Len(LengthBytes(n)) \in 1..5
  BY LengthCount
<1>2. ~(Len(LengthBytes(n)) + 1 > 5)
  BY DEF Message, MQTT_MAX_FIXED_HEADER_SIZE
<1> QED
  BY <1>1, <1>2 DEF HeaderOffset, MQTT_MAX_FIXED_HEADER_SIZE

\* What is beyond a number is no more.
LEMMA BeyondLess ==
    ASSUME NEW n \in Nat, NEW m \in Nat
    PROVE  Beyond(n, m) \in Nat /\ Beyond(n, m) <= n
  BY DEF Beyond

\* Writing a message that is no publish.
LEMMA WriteStep ==
    ASSUME OutputInv, NEW type \in OtherTypes, NEW id, NEW body \in Seq(Nat),
           Begins(type, id, body), Write(type, QosOf(type), id, body),
           type = "CONNECT" => \E info \in ConnectInfos : ConnectBody(info) = body
    PROVE  OutputInv'
<1> DEFINE length == FullLength(body, fragmented_msg_total_length)
           built == Message(TypeByte(type, 0, QosOf(type), 0), body, length)
<1>1. /\ fragmented_msg_total_length' = fragmented_msg_total_length /\ unsent' = unsent
      /\ fragmented_msg_total_length \in Nat /\ fragmented_msg_data_offset \in Nat
      /\ unsent \in BOOLEAN
      /\ (fragmented_msg_total_length # 0 \/ fragmented_msg_data_offset > 0 => unsent)
  BY DEF OutputInv, OutputRight, Write
<1>2. /\ fragmented_msg_data_offset' \in Nat
      /\ fragmented_msg_data_offset' <= fragmented_msg_data_offset
  <2>1. CASE Fits(body) /\ built # NoMessage
    <3>1. fragmented_msg_data_offset' = Beyond(fragmented_msg_data_offset, HeaderOffset(length))
      BY <2>1 DEF Write
    <3>2. HeaderOffset(length) \in Nat
      BY <2>1, HeaderRoom
    <3> QED
      BY <1>1, <3>1, <3>2, BeyondLess
  <2>2. CASE ~(Fits(body) /\ built # NoMessage)
    <3>1. fragmented_msg_data_offset' = fragmented_msg_data_offset
      BY <2>2 DEF Write
    <3> QED
      BY <1>1, <3>1
  <2> QED
    BY <2>1, <2>2
<1>3. fragmented_msg_total_length' # 0 \/ fragmented_msg_data_offset' > 0 => unsent'
  BY <1>1, <1>2
<1>4. CASE written' = NoMessage
  BY <1>1, <1>2, <1>3, <1>4, Unwritten
<1>5. CASE written' # NoMessage
  <2>1. Fits(body) /\ written' = built /\ asked' = Plain(type, id, body) /\ built # NoMessage
    BY <1>5 DEF Write, Wrote
  <2>2. ASSUME asked'.clean PROVE Says(written', asked')
    <3>1. fragmented_msg_total_length = 0
      BY <2>1, <2>2 DEF Plain
    <3>2. length = Len(body)
      BY <3>1 DEF FullLength
    <3> DEFINE b == Message(TypeByte(type, 0, QosOf(type), 0), body, Len(body))
    <3>3. written' = b /\ b # NoMessage
      BY <2>1, <3>2
    <3>4. ASSUME type = "CONNECT"
          PROVE  \E info \in ConnectInfos : ConnectBody(info) = body /\ ConnectSays(b, info)
      <4>1. PICK info \in ConnectInfos : ConnectBody(info) = body
        BY <3>4
      <4> DEFINE tb == TypeByte(type, 0, QosOf(type), 0)
      <4>2. tb \in Nat
        BY OtherValid, TypeByteNat, 0 \in 0..1
      <4> HIDE DEF tb
      <4>3. Framed(Message(tb, body, Len(body)), tb, Len(LengthBytes(Len(body))), body, <<>>)
        BY <3>3, <4>2, PlainFramed DEF tb
      <4>4. Framed(b, tb, Len(LengthBytes(Len(body))), ConnectBody(info), <<>>)
        BY <4>1, <4>3 DEF tb
      <4> HIDE DEF b
      <4>5. ConnectSays(b, info)
        BY <2>1, <4>1, <4>4, ConnectSaid
      <4> QED
        BY <4>1, <4>5
    <3> DEFINE clean == fragmented_msg_total_length = 0
    <3>5. Says(b, [type |-> type, id |-> id, body |-> body, clean |-> clean])
      <4> HIDE DEF clean
      <4> QED
        BY <3>3, <3>4, PlainSaid
    <3> HIDE DEF b
    <3> QED
      BY <2>1, <3>3, <3>5 DEF Plain
  <2> QED
    BY <1>1, <1>2, <1>3, <2>2 DEF OutputInv, OutputRight
<1> QED
  BY <1>4, <1>5

\* What is left of a publish that was built and not written.
LEMMA BuiltStep ==
    ASSUME OutputInv, NEW topic, NEW data \in Seq(Nat), NEW qos, NEW retain, NEW id,
           PublishBody(topic, qos, id) \in Seq(Nat),
           BuildPublish(topic, data, qos, retain, id).bytes # NoMessage,
           fragmented_msg_total_length' \in
               {0, BuildPublish(topic, data, qos, retain, id).total},
           fragmented_msg_data_offset' =
               Beyond(BuildPublish(topic, data, qos, retain, id).offset,
                      BuildPublish(topic, data, qos, retain, id).header),
           unsent' = (unsent \/ BuildPublish(topic, data, qos, retain, id).over),
           written' = NoMessage
    PROVE  OutputInv'
<1> DEFINE body == PublishBody(topic, qos, id)
           start == 5 + Len(body)
           over == start + Len(data) > buffer_length
           total == IF over THEN start + Len(data) ELSE 0
           offset == IF over THEN start ELSE fragmented_msg_data_offset
           text == body \o (IF over THEN SubSeq(data, 1, buffer_length - start) ELSE data)
           length == FullLength(text, total)
           built == BuildPublish(topic, data, qos, retain, id)
<1>1. built.total = total /\ built.offset = offset /\ built.over = over
  BY DEF BuildPublish, MQTT_MAX_FIXED_HEADER_SIZE
<1>2. /\ built.header = HeaderOffset(length)
      /\ built.bytes = Message(TypeByte("PUBLISH", 0, qos, retain), text, length)
  BY DEF BuildPublish, MQTT_MAX_FIXED_HEADER_SIZE
<1>3. /\ fragmented_msg_total_length \in Nat /\ fragmented_msg_data_offset \in Nat
      /\ unsent \in BOOLEAN
      /\ (fragmented_msg_total_length # 0 \/ fragmented_msg_data_offset > 0 => unsent)
  BY DEF OutputInv, OutputRight
<1>4. start \in Nat /\ Len(data) \in Nat /\ over \in BOOLEAN
  OBVIOUS
<1> HIDE DEF built, length, text, start, over
<1>5. total \in Nat /\ offset \in Nat
  BY <1>3, <1>4
<1>6. built.header \in Nat
  <2>1. built.bytes # NoMessage
    BY DEF built
  <2> QED
    BY <1>2, <2>1, HeaderRoom
<1>7. /\ fragmented_msg_data_offset' \in Nat /\ fragmented_msg_data_offset' <= offset
  <2>1. fragmented_msg_data_offset' = Beyond(offset, built.header)
    BY <1>1 DEF built
  <2> HIDE DEF offset
  <2> QED
    BY <1>5, <1>6, <2>1, BeyondLess
<1>8. fragmented_msg_total_length' \in {0, total} /\ unsent' = (unsent \/ over)
  BY <1>1 DEF built
<1>9. fragmented_msg_total_length' \in Nat /\ unsent' \in BOOLEAN
  BY <1>3, <1>4, <1>5, <1>8
<1>10. fragmented_msg_total_length' # 0 \/ fragmented_msg_data_offset' > 0 => unsent'
  <2>1. CASE over
    BY <1>8, <2>1
  <2>2. CASE ~over
    <3>1. total = 0 /\ offset = fragmented_msg_data_offset
      BY <2>2
    <3>2. fragmented_msg_total_length' = 0
      BY <1>8, <3>1
    <3>3. fragmented_msg_data_offset' > 0 => fragmented_msg_data_offset > 0
      BY <1>3, <1>7, <3>1
    <3> QED
      BY <1>3, <1>8, <3>2, <3>3
  <2> QED
    BY <2>1, <2>2
<1> QED
  BY <1>7, <1>9, <1>10, Unwritten

\* A publish.
LEMMA PublishRight ==
    ASSUME OutputInv, NEW p \in Publishes, NEW id \in MessageIds,
           \/ PublishRefused(p.topic, p.data, p.qos, p.retain, id)
           \/ PublishWritten(p.topic, p.data, p.qos, p.retain, id)
           \/ PublishNotStored(p.topic, p.data, p.qos, p.retain, id)
           \/ PublishNotSent(p.topic, p.data, p.qos, p.retain, id)
           \/ PublishCut(p.topic, p.data, p.qos, p.retain, id)
    PROVE  OutputInv'
<1> DEFINE topic == p.topic
           data == p.data
           qos == p.qos
           retain == p.retain
           built == BuildPublish(topic, data, qos, retain, id)
           body == PublishBody(topic, qos, id)
<1>1. /\ topic \in Seq(Nat) /\ data \in Seq(Nat) /\ qos \in 0..2 /\ retain \in 0..1
      /\ id \in TwoByteNumbers
  BY OutputAssumption DEF Texts
<1>2. \/ PublishRefused(topic, data, qos, retain, id)
      \/ PublishWritten(topic, data, qos, retain, id)
      \/ PublishNotStored(topic, data, qos, retain, id)
      \/ PublishNotSent(topic, data, qos, retain, id)
      \/ PublishCut(topic, data, qos, retain, id)
  OBVIOUS
<1> HIDE DEF topic, data, qos, retain
<1>3. body \in Seq(Nat) /\ Len(body) = 2 + Len(topic) + Flag(qos > 0, 2)
  BY <1>1, PublishBodyType
<1>4. /\ fragmented_msg_total_length \in Nat /\ fragmented_msg_data_offset \in Nat
      /\ unsent \in BOOLEAN
      /\ (fragmented_msg_total_length # 0 \/ fragmented_msg_data_offset > 0 => unsent)
  BY DEF OutputInv, OutputRight
<1>5. CASE PublishRefused(topic, data, qos, retain, id)
  BY <1>4, <1>5, Unwritten DEF PublishRefused, Wrote
<1>6. CASE PublishNotStored(topic, data, qos, retain, id)
  <2>1. /\ built.bytes # NoMessage
        /\ fragmented_msg_total_length' = built.total
        /\ fragmented_msg_data_offset' = Beyond(built.offset, built.header)
        /\ unsent' = (unsent \/ built.over)
        /\ written' = NoMessage
    BY <1>6 DEF PublishNotStored, Wrote
  <2> QED
    BY <1>1, <1>3, <2>1, BuiltStep
<1>7. CASE PublishNotSent(topic, data, qos, retain, id)
  <2>1. /\ built.bytes # NoMessage
        /\ fragmented_msg_total_length' = 0
        /\ fragmented_msg_data_offset' = Beyond(built.offset, built.header)
        /\ unsent' = (unsent \/ built.over)
        /\ written' = NoMessage
    BY <1>7 DEF PublishNotSent, Wrote
  <2> QED
    BY <1>1, <1>3, <2>1, BuiltStep
<1>8. CASE PublishCut(topic, data, qos, retain, id)
  <2>1. /\ fragmented_msg_total_length' = 0 /\ fragmented_msg_data_offset' = 0
        /\ written' = NoMessage
    BY <1>8 DEF PublishCut, Wrote
  <2>2. unsent' = FALSE
    BY <1>8 DEF PublishCut
  <2>3. ~(fragmented_msg_total_length' # 0 \/ fragmented_msg_data_offset' > 0)
    BY <2>1
  <2> QED
    BY <2>1, <2>2, <2>3, Unwritten
<1>9. CASE PublishWritten(topic, data, qos, retain, id)
  <2> DEFINE clean == built.over \/ fragmented_msg_data_offset = 0
             whole == Whole(topic, data, qos, retain, id)
             what == [Publishing(topic, data, qos, retain, id) EXCEPT !.clean = clean]
  <2>1. /\ topic # <<>> /\ Fits(body) /\ built.bytes # NoMessage
        /\ fragmented_msg_total_length' = 0 /\ fragmented_msg_data_offset' = 0
        /\ unsent' = FALSE
    BY <1>9 DEF PublishWritten
  <2>2. written' = whole /\ asked' = what
    BY <1>9 DEF PublishWritten, Wrote, Whole
  <2>3. ASSUME asked'.clean PROVE Says(written', asked')
    <3>1. clean
      BY <2>2, <2>3 DEF Publishing
    <3>2. PICK ld : Framed(whole, TypeByte("PUBLISH", 0, qos, retain), ld, body, data)
      <4>1. CASE built.over
        BY <1>1, <2>1, <4>1, LongFramed
      <4>2. CASE ~built.over
        BY <1>1, <2>1, <3>1, <4>2, ShortFramed
      <4> QED
        BY <4>1, <4>2
    <3>3. Len(topic) >= 1 /\ Len(topic) \in Nat
      BY <1>1, <2>1, EmptySeq
    <3>4. Len(topic) \in TwoByteNumbers
      <4>1. 5 + Len(body) <= buffer_length
        BY <2>1 DEF Fits, MQTT_MAX_FIXED_HEADER_SIZE
      <4>2. buffer_length \in TwoByteNumbers /\ buffer_length \in Nat
        BY OutputAssumption DEF TwoByteNumbers
      <4>3. Flag(qos > 0, 2) \in 0..2
        BY DEF Flag
      <4>4. Len(topic) <= buffer_length
        BY <1>3, <3>3, <4>1, <4>2, <4>3
      <4> QED
        BY <3>3, <4>2, <4>4, Smaller
    <3> HIDE DEF clean, whole
    <3>5. Says(whole, what)
      BY <1>1, <3>2, <3>3, <3>4, PublishSaid
    <3> QED
      BY <2>2, <3>5
  <2>4. unsent' \in BOOLEAN
    BY <2>1
  <2>5. ~(fragmented_msg_total_length' # 0 \/ fragmented_msg_data_offset' > 0)
    BY <2>1
  <2>6. fragmented_msg_total_length' \in Nat /\ fragmented_msg_data_offset' \in Nat
    BY <2>1
  <2> HIDE DEF clean, whole, what
  <2> QED
    BY <2>3, <2>4, <2>5, <2>6 DEF OutputInv, OutputRight
<1> QED
  BY <1>2, <1>5, <1>6, <1>7, <1>8, <1>9

\* Bytes in three parts.
LEMMA ThreeParts ==
    ASSUME NEW s \in Seq(Nat), NEW t \in Seq(Nat), NEW u \in Seq(Nat)
    PROVE  (s \o t) \o u = s \o (t \o u)
  BY ConcatAssociative, SMTT(30)

\* The bodies of the other messages begin as they should.
LEMMA Beginnings ==
    /\ \A id \in TwoByteNumbers :
          /\ IdBody(id) \in Seq(Nat)
          /\ \A type \in {"PUBACK", "PUBREC", "PUBREL", "PUBCOMP"} : Begins(type, id, IdBody(id))
          /\ \A topic \in Seq(Nat) :
                /\ UnsubscribeBody(topic, id) \in Seq(Nat)
                /\ Begins("UNSUBSCRIBE", id, UnsubscribeBody(topic, id))
                /\ \A qos \in 0..2 :
                      /\ SubscribeBody(topic, qos, id) \in Seq(Nat)
                      /\ Begins("SUBSCRIBE", id, SubscribeBody(topic, qos, id))
    /\ \A type \in {"CONNECT", "PINGREQ", "DISCONNECT"}, body \in Seq(Nat) : Begins(type, 0, body)
<1>1. ASSUME NEW id \in TwoByteNumbers
      PROVE  /\ IdBody(id) \in Seq(Nat)
             /\ \A type \in {"PUBACK", "PUBREC", "PUBREL", "PUBCOMP"} :
                    Begins(type, id, IdBody(id))
  <2> DEFINE two == TwoBytes(id)
  <2>1. two \in Seq(Nat) /\ two \o <<>> = two /\ <<>> \in Seq(Nat)
    BY IdType, NothingBehind
  <2> QED
    BY <2>1 DEF Begins, IdTypes, IdBody
<1>2. ASSUME NEW id \in TwoByteNumbers, NEW topic \in Seq(Nat)
      PROVE  /\ UnsubscribeBody(topic, id) \in Seq(Nat)
             /\ Begins("UNSUBSCRIBE", id, UnsubscribeBody(topic, id))
  <2> DEFINE two == TwoBytes(id)
             name == String(topic)
  <2>1. two \in Seq(Nat) /\ name \in Seq(Nat) /\ UnsubscribeBody(topic, id) = two \o name
    BY IdType, StringType DEF UnsubscribeBody
  <2>2. UnsubscribeBody(topic, id) \in Seq(Nat)
    <3> HIDE DEF two, name
    <3> QED
      BY <2>1, ConcatProperties
  <2> QED
    BY <2>1, <2>2 DEF Begins, IdTypes
<1>3. ASSUME NEW id \in TwoByteNumbers, NEW topic \in Seq(Nat), NEW qos \in 0..2
      PROVE  /\ SubscribeBody(topic, qos, id) \in Seq(Nat)
             /\ Begins("SUBSCRIBE", id, SubscribeBody(topic, qos, id))
  <2> DEFINE two == TwoBytes(id)
             name == String(topic)
             last == <<qos>>
             more == name \o last
  <2>1. two \in Seq(Nat) /\ name \in Seq(Nat) /\ last \in Seq(Nat)
    BY IdType, StringType
  <2>2. SubscribeBody(topic, qos, id) = (two \o name) \o last
    BY DEF SubscribeBody
  <2> HIDE DEF two, name, last
  <2>3. more \in Seq(Nat) /\ (two \o name) \o last = two \o more
    <3>1. more \in Seq(Nat)
      BY <2>1, ConcatProperties
    <3>2. (two \o name) \o last = two \o (name \o last)
      BY <2>1, ThreeParts
    <3> QED
      BY <3>1, <3>2
  <2> HIDE DEF more
  <2>4. two \o more \in Seq(Nat)
    BY <2>1, <2>3, ConcatProperties
  <2> QED
    BY <2>2, <2>3, <2>4 DEF Begins, IdTypes, two
<1>4. ASSUME NEW type \in {"CONNECT", "PINGREQ", "DISCONNECT"}, NEW body \in Seq(Nat)
      PROVE  Begins(type, 0, body)
  BY DEF Begins, IdTypes
<1> QED
  BY <1>1, <1>2, <1>3, <1>4

\* Every step keeps the invariant.
LEMMA OutputStep ==
    ASSUME OutputInv, [OutputNext]_outputVars
    PROVE  OutputInv'
<1>1. MessageIds \subseteq TwoByteNumbers /\ SubscribeTopics \subseteq Seq(Nat)
  BY OutputAssumption DEF Texts
<1>2. CASE WritePublish
  BY <1>2, PublishRight DEF WritePublish
<1>3. ASSUME NEW type \in {"PUBACK", "PUBREC", "PUBREL", "PUBCOMP"}, NEW id \in MessageIds,
             Answer(type, id)
      PROVE  OutputInv'
  <2>1. /\ id \in TwoByteNumbers /\ type \in OtherTypes /\ type # "CONNECT"
        /\ QosOf(type) = (IF type = "PUBREL" THEN 1 ELSE 0)
    BY <1>1 DEF OtherTypes, QosOf
  <2>2. Write(type, QosOf(type), id, IdBody(id))
    BY <1>3, <2>1 DEF Answer
  <2>3. IdBody(id) \in Seq(Nat) /\ Begins(type, id, IdBody(id))
    BY <2>1, Beginnings
  <2> QED
    BY <2>1, <2>2, <2>3, WriteStep
<1>4. ASSUME NEW topic \in SubscribeTopics, NEW id \in MessageIds, NEW qos \in 0..2,
             Subscribe(topic, qos, id)
      PROVE  OutputInv'
  <2> DEFINE body == SubscribeBody(topic, qos, id)
  <2>1. /\ id \in TwoByteNumbers /\ topic \in Seq(Nat) /\ "SUBSCRIBE" \in OtherTypes
        /\ QosOf("SUBSCRIBE") = 1
    BY <1>1 DEF OtherTypes, QosOf
  <2>2. Write("SUBSCRIBE", QosOf("SUBSCRIBE"), id, body)
    BY <1>4, <2>1 DEF Subscribe
  <2>3. body \in Seq(Nat) /\ Begins("SUBSCRIBE", id, body)
    BY <2>1, Beginnings
  <2> HIDE DEF body
  <2> QED
    BY <2>1, <2>2, <2>3, WriteStep
<1>5. ASSUME NEW topic \in SubscribeTopics, NEW id \in MessageIds, Unsubscribe(topic, id)
      PROVE  OutputInv'
  <2> DEFINE body == UnsubscribeBody(topic, id)
  <2>1. /\ id \in TwoByteNumbers /\ topic \in Seq(Nat) /\ "UNSUBSCRIBE" \in OtherTypes
        /\ QosOf("UNSUBSCRIBE") = 1
    BY <1>1 DEF OtherTypes, QosOf
  <2>2. Write("UNSUBSCRIBE", QosOf("UNSUBSCRIBE"), id, body)
    BY <1>5, <2>1 DEF Unsubscribe
  <2>3. body \in Seq(Nat) /\ Begins("UNSUBSCRIBE", id, body)
    BY <2>1, Beginnings
  <2> HIDE DEF body
  <2> QED
    BY <2>1, <2>2, <2>3, WriteStep
<1>6. CASE Ping \/ Disconnect
  <2> DEFINE none == <<>>
  <2>1. none \in Seq(Nat)
    OBVIOUS
  <2>2. /\ "PINGREQ" \in OtherTypes /\ "DISCONNECT" \in OtherTypes
        /\ QosOf("PINGREQ") = 0 /\ QosOf("DISCONNECT") = 0
    BY DEF OtherTypes, QosOf
  <2>3. \/ Write("PINGREQ", QosOf("PINGREQ"), 0, none)
        \/ Write("DISCONNECT", QosOf("DISCONNECT"), 0, none)
    BY <1>6, <2>2 DEF Ping, Disconnect
  <2> HIDE DEF none
  <2>4. Begins("PINGREQ", 0, none) /\ Begins("DISCONNECT", 0, none)
    BY <2>1, Beginnings
  <2> QED
    BY <2>1, <2>2, <2>3, <2>4, WriteStep
<1>7. ASSUME NEW info \in ConnectInfos, Connect(info)
      PROVE  OutputInv'
  <2> DEFINE body == ConnectBody(info)
  <2>1. "CONNECT" \in OtherTypes /\ QosOf("CONNECT") = 0
    BY DEF OtherTypes, QosOf
  <2>2. Write("CONNECT", QosOf("CONNECT"), 0, body)
    BY <1>7, <2>1 DEF Connect
  <2>3. body \in Seq(Nat) /\ \E x \in ConnectInfos : ConnectBody(x) = body
    BY ConnectParts
  <2> HIDE DEF body
  <2>4. Begins("CONNECT", 0, body)
    BY <2>3, Beginnings
  <2> QED
    BY <2>1, <2>2, <2>3, <2>4, WriteStep
<1>8. CASE UNCHANGED outputVars
  BY <1>8 DEF outputVars, OutputInv, OutputRight
<1> QED
  BY <1>2, <1>3, <1>4, <1>5, <1>6, <1>7, <1>8 DEF OutputNext

\* So it does from the start.
LEMMA OutputStart == OutputInit => OutputInv
<1> SUFFICES ASSUME OutputInit PROVE OutputInv
  OBVIOUS
<1>1. /\ fragmented_msg_total_length = 0 /\ fragmented_msg_data_offset = 0
      /\ written = NoMessage
  BY DEF OutputInit
<1>2. unsent \in BOOLEAN
  BY DEF OutputInit
<1>3. ~(fragmented_msg_total_length # 0 \/ fragmented_msg_data_offset > 0)
  BY <1>1
<1>4. fragmented_msg_total_length \in Nat /\ fragmented_msg_data_offset \in Nat
  BY <1>1
<1> QED
  BY <1>1, <1>2, <1>3, <1>4 DEF OutputInv, OutputRight

\* Whatever the client writes is one message that is read as what was asked, with its
\* fragments behind it: also after messages that were built and not sent, unless one of
\* them was longer than the buffer (mqtt_msg_publish, esp_mqtt_client_publish).
THEOREM MessagesCorrect == ClientSpec => []MessagesWritten
<1>1. ClientInit => OutputInv
  BY OutputStart DEF ClientInit
<1>2. OutputInv /\ [ClientNext]_allVars => OutputInv'
  <2> SUFFICES ASSUME OutputInv, [ClientNext]_allVars PROVE OutputInv'
    OBVIOUS
  <2>1. CASE OutputNext
    BY <2>1, OutputStep
  <2>2. CASE UNCHANGED outputVars
    BY <2>2, OutputStep
  <2> QED
    BY <2>1, <2>2 DEF ClientNext, InClient, allVars
<1>3. OutputInv => MessagesWritten
  BY DEF OutputInv, MessagesWritten
<1> QED
  BY <1>1, <1>2, <1>3, PTL DEF ClientSpec

\* A set of numbers with one up to six has a least one.
LEMMA LeastPresent ==
    ASSUME NEW S \in SUBSET (Nat \ {0}), NEW x \in S, x <= 6
    PROVE  Min(S) \in S /\ \A k \in S : Min(S) <= k
<1>1. x \in 1..6
  OBVIOUS
<1>2. \E m \in S : \A k \in S : m <= k
  BY <1>1, 1 \in S \/ 2 \in S \/ 3 \in S \/ 4 \in S \/ 5 \in S \/ 6 \in S
<1> QED
  BY <1>2 DEF Min

\* All bytes of a length continue but the last.
LEMMA SizeContinues ==
    ASSUME NEW b \in Seq(Nat), NEW f \in 2..5, f <= Len(b), FixedSize(b) = f, ~Continues(b[f])
    PROVE  \A k \in 2..(f - 1) : Continues(b[k])
<1> DEFINE ends == {k \in 2..Len(b) : ~Continues(b[k])}
<1>1. f \in ends /\ ends \in SUBSET (Nat \ {0}) /\ f <= 6
  OBVIOUS
<1>2. Min(ends) = f
  BY <1>1 DEF FixedSize
<1> HIDE DEF ends
<1>3. \A k \in ends : f <= k
  BY <1>1, <1>2, LeastPresent
<1> SUFFICES ASSUME NEW k \in 2..(f - 1), ~Continues(b[k]) PROVE FALSE
  OBVIOUS
<1>4. k \in ends /\ ~(f <= k)
  BY DEF ends
<1> QED
  BY <1>3, <1>4

\* Where a length that continues so far ends.
LEMMA SizeIs ==
    ASSUME NEW b \in Seq(Nat), NEW f \in 2..5, f <= Len(b),
           \A k \in 2..(f - 1) : Continues(b[k]), ~Continues(b[f])
    PROVE  FixedSize(b) = f
<1> DEFINE ends == {k \in 2..Len(b) : ~Continues(b[k])}
<1>1. f \in ends /\ ends \in SUBSET (Nat \ {0}) /\ f <= 6
  OBVIOUS
<1>2. \A k \in ends : f <= k
  OBVIOUS
<1>3. FixedSize(b) = Min(ends)
  BY <1>1 DEF FixedSize
<1> HIDE DEF ends
<1>4. Min(ends) \in ends /\ Min(ends) <= f
  BY <1>1, LeastPresent
<1>5. Min(ends) \in Nat /\ f <= Min(ends)
  BY <1>1, <1>2, <1>4
<1> QED
  BY <1>3, <1>4, <1>5

\* c and d have the same bytes as far as both go.
Alike(c, d) == \A i \in 1..Len(c) : i <= Len(d) => c[i] = d[i]

\* A message is told by its fixed header.
LEMMA HeaderSame ==
    ASSUME NEW c \in Seq(Nat), NEW d \in Seq(Nat), NEW f \in 2..5, f <= Len(c), f <= Len(d),
           Alike(c, d), FixedSize(d) = f, ~Continues(d[f])
    PROVE  /\ c[1] = d[1] /\ FixedSize(c) = f /\ ~Continues(c[f])
           /\ get_total_length(c) = get_total_length(d)
<1>1. \A i \in 1..f : c[i] = d[i]
  <2> TAKE i \in 1..f
  <2>1. i \in 1..Len(c) /\ i <= Len(d)
    OBVIOUS
  <2> QED
    BY <2>1 DEF Alike
<1>2. \A k \in 2..(f - 1) : Continues(c[k])
  <2>1. \A k \in 2..(f - 1) : Continues(d[k])
    BY SizeContinues
  <2>2. \A k \in 2..(f - 1) : k \in 1..f
    OBVIOUS
  <2> QED
    BY <1>1, <2>1, <2>2
<1>3. c[1] = d[1] /\ ~Continues(c[f])
  <2>1. 1 \in 1..f /\ f \in 1..f
    OBVIOUS
  <2> QED
    BY <1>1, <2>1
<1>4. FixedSize(c) = f
  BY <1>2, <1>3, SizeIs
<1>5. get_total_length(c) = get_total_length(d)
  <2> DEFINE digitc(k) == IF k <= FixedSize(c) THEN c[k] % LengthBase ELSE 0
             digitd(k) == IF k <= FixedSize(d) THEN d[k] % LengthBase ELSE 0
  <2>1. \A k \in 2..6 : digitc(k) = digitd(k)
    <3> TAKE k \in 2..6
    <3>1. CASE k <= f
      <4>1. k \in 1..f
        BY <3>1
      <4> QED
        BY <1>1, <1>4, <4>1
    <3>2. CASE ~(k <= f)
      BY <1>4, <3>2
    <3> QED
      BY <3>1, <3>2
  <2>2. /\ digitc(2) = digitd(2) /\ digitc(3) = digitd(3) /\ digitc(4) = digitd(4)
        /\ digitc(5) = digitd(5) /\ digitc(6) = digitd(6)
    BY <2>1
  <2>3. get_total_length(c) = FixedSize(c) + digitc(2) + LengthBase * (digitc(3)
            + LengthBase * (digitc(4) + LengthBase * (digitc(5) + LengthBase * digitc(6))))
    BY DEF get_total_length
  <2>4. get_total_length(d) = FixedSize(d) + digitd(2) + LengthBase * (digitd(3)
            + LengthBase * (digitd(4) + LengthBase * (digitd(5) + LengthBase * digitd(6))))
    BY DEF get_total_length
  <2> HIDE DEF digitc, digitd
  <2> QED
    BY <1>4, <2>2, <2>3, <2>4
<1> QED
  BY <1>3, <1>4, <1>5

\* What is at a place of d is in c, as far as that goes.
LEMMA AtAlike ==
    ASSUME NEW c \in Seq(Nat), NEW d \in Seq(Nat), Alike(c, d), NEW k \in Nat, NEW s \in Seq(Nat),
           At(d, k, s), k + Len(s) <= Len(c)
    PROVE  At(c, k, s)
<1> SUFFICES ASSUME NEW i \in 1..Len(s) PROVE c[k + i] = s[i]
  BY DEF At
<1>1. k + Len(s) <= Len(d) /\ d[k + i] = s[i]
  BY DEF At
<1>2. k + i \in 1..Len(c) /\ k + i <= Len(d)
  BY <1>1
<1> QED
  BY <1>1, <1>2 DEF Alike

-----------------------------------------------------------------------------
\* The parts of a message of the broker: its first byte, its body and the data behind.
QosIn(m) == IF m.type = "PUBLISH" THEN m.qos ELSE QosOf(m.type)
FirstByte(m) == TypeByte(m.type, 0, QosIn(m), 0)
BodyIn(m) ==
    CASE m.type = "PUBLISH" -> PublishBody(m.topic, m.qos, m.id)
      [] m.type = "SUBACK" -> IdBody(m.id) \o m.data
      [] m.type = "CONNACK" -> <<0, m.code>>
      [] m.type = "PINGRESP" -> <<>>
      [] OTHER -> IdBody(m.id)
DataIn(m) == IF m.type = "PUBLISH" THEN m.data ELSE <<>>

Acknowledgements == {"PUBACK", "PUBREC", "PUBREL", "PUBCOMP", "UNSUBACK"}

\* What a message of the broker is.
LEMMA BrokerMessage ==
    ASSUME NEW m \in BrokerMessages
    PROVE  /\ Bytes(m) # NoMessage
           /\ m.type \in {"PUBLISH", "SUBACK", "CONNACK", "PINGRESP"} \cup Acknowledgements
           /\ m.type = "PUBLISH" =>
                 /\ m = [type |-> "PUBLISH", topic |-> m.topic, data |-> m.data, qos |-> m.qos,
                         id |-> m.id]
                 /\ m.topic \in Seq(Nat) /\ Len(m.topic) >= 1 /\ Len(m.topic) \in TwoByteNumbers
                 /\ m.data \in Seq(Nat) /\ m.qos \in 0..2 /\ m.id \in TwoByteNumbers
                 /\ m.qos = 0 => m.id = 0
                 /\ 5 + Len(PublishBody(m.topic, m.qos, m.id)) <= in_buffer_length
           /\ m.type \in Acknowledgements =>
                 m = [type |-> m.type, id |-> m.id] /\ m.id \in TwoByteNumbers
           /\ m.type = "SUBACK" =>
                 /\ m = [type |-> "SUBACK", id |-> m.id, data |-> m.data]
                 /\ m.id \in TwoByteNumbers /\ m.data \in Seq(Nat) /\ Len(m.data) >= 1
                 /\ 2 + Len(m.data) < LengthBase /\ 4 + Len(m.data) <= in_buffer_length
           /\ m.type = "CONNACK" => m = [type |-> "CONNACK", code |-> m.code] /\ m.code \in Nat
           /\ m.type = "PINGRESP" => m = [type |-> "PINGRESP"]
<1>1. m \in BrokerFormats
  BY InputAssumption
<1>2. CASE m \in [type : {"PUBLISH"}, topic : Texts \ {<<>>}, data : Texts, qos : 0..2,
                  id : TwoByteNumbers]
  <2>1. /\ m = [type |-> "PUBLISH", topic |-> m.topic, data |-> m.data, qos |-> m.qos, id |-> m.id]
        /\ m.topic \in Seq(Nat) /\ m.topic # <<>> /\ m.type = "PUBLISH"
        /\ m.data \in Seq(Nat) /\ m.qos \in 0..2 /\ m.id \in TwoByteNumbers
    BY <1>2 DEF Texts
  <2>2. Len(m.topic) >= 1
    BY <2>1, EmptySeq
  <2>3. /\ Len(m.topic) \in TwoByteNumbers /\ (m.qos = 0 => m.id = 0) /\ Bytes(m) # NoMessage
        /\ 5 + Len(PublishBody(m.topic, m.qos, m.id)) <= in_buffer_length
    BY <2>1, InputAssumption DEF MQTT_MAX_FIXED_HEADER_SIZE
  <2> QED
    BY <2>1, <2>2, <2>3 DEF Acknowledgements
<1>3. CASE m \in [type : {"PUBACK", "PUBREC", "PUBREL", "PUBCOMP", "UNSUBACK"}, id : TwoByteNumbers]
  <2>1. m.type \in Acknowledgements /\ m = [type |-> m.type, id |-> m.id] /\ m.id \in TwoByteNumbers
    BY <1>3 DEF Acknowledgements
  <2> QED
    BY <2>1, InputAssumption DEF Acknowledgements
<1>4. CASE m \in [type : {"SUBACK"}, id : TwoByteNumbers, data : Texts \ {<<>>}]
  <2>1. /\ m = [type |-> "SUBACK", id |-> m.id, data |-> m.data] /\ m.type = "SUBACK"
        /\ m.id \in TwoByteNumbers /\ m.data \in Seq(Nat) /\ m.data # <<>>
    BY <1>4 DEF Texts
  <2>2. Len(m.data) >= 1
    BY <2>1, EmptySeq
  <2> QED
    BY <2>1, <2>2, InputAssumption DEF Acknowledgements
<1>5. CASE m \in [type : {"CONNACK"}, code : Nat]
  <2>1. m = [type |-> "CONNACK", code |-> m.code] /\ m.code \in Nat /\ m.type = "CONNACK"
    BY <1>5
  <2> QED
    BY <2>1, InputAssumption DEF Acknowledgements
<1>6. CASE m \in [type : {"PINGRESP"}]
  <2>1. m = [type |-> "PINGRESP"] /\ m.type = "PINGRESP"
    BY <1>6
  <2> QED
    BY <2>1, InputAssumption DEF Acknowledgements
<1> QED
  BY <1>1, <1>2, <1>3, <1>4, <1>5, <1>6 DEF BrokerFormats

\* A length of one digit has one byte.
LEMMA ShortLength ==
    ASSUME NEW n \in Nat, n < LengthBase
    PROVE  Len(LengthBytes(n)) = 1
<1> DEFINE shifted(m) == m \div LengthBase
           rest == <<n, shifted(n), shifted(shifted(n)), shifted(shifted(shifted(n))),
                     shifted(shifted(shifted(shifted(n))))>>
           S == {k \in 1..4 : rest[k + 1] = 0} \cup {5}
           count == Min(S)
<1>1. LengthBytes(n) = [k \in 1..count |-> (rest[k] % LengthBase) + Flag(k < count, LengthBase)]
  BY DEF LengthBytes
<1>2. shifted(n) = 0
  BY OutputAssumption
<1>3. rest[2] = 0
  BY <1>2
<1>4. 1 \in S /\ S \in SUBSET (1..5) /\ 5 \in S
  BY <1>3
<1> HIDE DEF S
<1>5. count \in 1..5 /\ count <= 1
  BY <1>4, LeastOf
<1>6. count = 1
  BY <1>5
<1> HIDE DEF count, rest
<1> QED
  BY <1>1, <1>6

\* How many bytes of a message tell its length.
DigitsIn(m) == Len(LengthBytes(Len(BodyIn(m)) + Len(DataIn(m))))

\* How a message of the broker is put together.
LEMMA BytesBuilt ==
    ASSUME NEW m \in BrokerMessages
    PROVE  /\ BodyIn(m) \in Seq(Nat) /\ DataIn(m) \in Seq(Nat)
           /\ FirstByte(m) \in Nat /\ has_valid_msg_hdr(FirstByte(m))
           /\ m.type \in DOMAIN Types /\ QosIn(m) \in 0..2
           /\ Bytes(m) = Message(FirstByte(m), BodyIn(m) \o DataIn(m),
                                 Len(BodyIn(m)) + Len(DataIn(m)))
<1> DEFINE Result == /\ BodyIn(m) \in Seq(Nat) /\ DataIn(m) \in Seq(Nat)
                     /\ has_valid_msg_hdr(FirstByte(m))
                     /\ m.type \in DOMAIN Types /\ QosIn(m) \in 0..2
                     /\ Bytes(m) = Message(FirstByte(m), BodyIn(m) \o DataIn(m),
                                           Len(BodyIn(m)) + Len(DataIn(m)))
<1> SUFFICES Result
  BY TypeByteNat, 0 \in 0..1 DEF FirstByte
<1>1. CASE m.type = "PUBLISH"
  <2> DEFINE body == PublishBody(m.topic, m.qos, m.id)
  <2>1. m.topic \in Seq(Nat) /\ m.data \in Seq(Nat) /\ m.qos \in 0..2 /\ m.id \in TwoByteNumbers
    BY <1>1, BrokerMessage
  <2>2. body \in Seq(Nat)
    BY <2>1, PublishBodyType
  <2>3. BodyIn(m) = body /\ DataIn(m) = m.data /\ QosIn(m) = m.qos
    BY <1>1 DEF BodyIn, DataIn, QosIn
  <2>4. Bytes(m) = Message(TypeByte(m.type, 0, m.qos, 0), body \o m.data, Len(body \o m.data))
    BY <1>1 DEF Bytes
  <2> HIDE DEF body
  <2>5. Len(body \o m.data) = Len(body) + Len(m.data)
    BY <2>1, <2>2, ConcatProperties
  <2>6. has_valid_msg_hdr(TypeByte("PUBLISH", 0, m.qos, 0))
    BY <2>1, PublishValid, 0 \in 0..1
  <2>7. "PUBLISH" \in DOMAIN Types
    BY DEF Types
  <2> QED
    BY <1>1, <2>1, <2>2, <2>3, <2>4, <2>5, <2>6, <2>7 DEF FirstByte
<1>2. ASSUME m.type # "PUBLISH", BodyIn(m) \in Seq(Nat), QosOf(m.type) \in 0..2,
             Bytes(m) = Message(TypeByte(m.type, 0, QosOf(m.type), 0), BodyIn(m), Len(BodyIn(m))),
             m.type \in OtherTypes
      PROVE  Result
  <2> DEFINE body == BodyIn(m)
             none == <<>>
  <2>1. DataIn(m) = none /\ QosIn(m) = QosOf(m.type)
    BY <1>2 DEF DataIn, QosIn
  <2>2. none \in Seq(Nat) /\ Len(none) = 0 /\ body \o none = body /\ Len(body) + 0 = Len(body)
    BY <1>2, NothingBehind
  <2>3. m.type \in DOMAIN Types /\ has_valid_msg_hdr(TypeByte(m.type, 0, QosOf(m.type), 0))
    BY <1>2, OtherValid
  <2> HIDE DEF none
  <2> QED
    BY <1>2, <2>1, <2>2, <2>3 DEF FirstByte
<1>3. CASE m.type \in Acknowledgements
  <2>1. BodyIn(m) = IdBody(m.id) /\ m.type # "PUBLISH" /\ m.type \in OtherTypes
    BY <1>3 DEF BodyIn, Acknowledgements, OtherTypes
  <2>2. QosOf(m.type) \in 0..2 /\ (m.type = "PUBREL" => QosOf(m.type) = 1)
        /\ (m.type # "PUBREL" => QosOf(m.type) = 0)
    BY <1>3 DEF QosOf, Acknowledgements
  <2>3. IdBody(m.id) \in Seq(Nat)
    BY <1>3, BrokerMessage, IdType DEF IdBody
  <2>4. Bytes(m) = Message(TypeByte(m.type, 0, QosOf(m.type), 0), IdBody(m.id), Len(IdBody(m.id)))
    BY <1>3, <2>2 DEF Bytes, Acknowledgements
  <2> QED
    BY <1>2, <2>1, <2>2, <2>3, <2>4
<1>4. CASE m.type = "SUBACK"
  <2> DEFINE two == IdBody(m.id)
             body == two \o m.data
  <2>1. BodyIn(m) = body /\ m.type \in OtherTypes /\ QosOf(m.type) = 0
    BY <1>4 DEF BodyIn, OtherTypes, QosOf
  <2>2. two \in Seq(Nat) /\ m.data \in Seq(Nat)
    BY <1>4, BrokerMessage, IdType DEF IdBody
  <2>3. body \in Seq(Nat)
    BY <2>2, ConcatProperties
  <2>4. Bytes(m) = Message(TypeByte(m.type, 0, 0, 0), body, Len(body))
    BY <1>4 DEF Bytes
  <2> HIDE DEF body
  <2> QED
    BY <1>2, <1>4, <2>1, <2>3, <2>4
<1>5. CASE m.type = "CONNACK"
  <2> DEFINE body == <<0, m.code>>
  <2>1. BodyIn(m) = body /\ m.type \in OtherTypes /\ QosOf(m.type) = 0
    BY <1>5 DEF BodyIn, OtherTypes, QosOf
  <2>2. body \in Seq(Nat)
    BY <1>5, BrokerMessage
  <2>3. Bytes(m) = Message(TypeByte(m.type, 0, 0, 0), body, Len(body))
    BY <1>5 DEF Bytes
  <2> HIDE DEF body
  <2> QED
    BY <1>2, <1>5, <2>1, <2>2, <2>3
<1>6. CASE m.type = "PINGRESP"
  <2> DEFINE body == <<>>
  <2>1. BodyIn(m) = body /\ m.type \in OtherTypes /\ QosOf(m.type) = 0
    BY <1>6 DEF BodyIn, OtherTypes, QosOf
  <2>2. body \in Seq(Nat)
    OBVIOUS
  <2>3. Bytes(m) = Message(TypeByte(m.type, 0, 0, 0), body, Len(body))
    BY <1>6 DEF Bytes
  <2> HIDE DEF body
  <2> QED
    BY <1>2, <1>6, <2>1, <2>2, <2>3
<1> QED
  BY <1>1, <1>3, <1>4, <1>5, <1>6, BrokerMessage

\* It is one whole message.
LEMMA BytesFramed ==
    ASSUME NEW m \in BrokerMessages
    PROVE  Framed(Bytes(m), FirstByte(m), DigitsIn(m), BodyIn(m), DataIn(m))
<1> DEFINE tb == FirstByte(m)
           body == BodyIn(m)
           data == DataIn(m)
           n == Len(body) + Len(data)
           none == <<>>
           b == Message(tb, body \o data, n)
<1>1. tb \in Nat /\ body \in Seq(Nat) /\ data \in Seq(Nat) /\ Bytes(m) = b /\ b # NoMessage
  BY BytesBuilt, BrokerMessage
<1> HIDE DEF tb, body, data
<1>2. Len(data) \in 0..Len(data) /\ Len(data) \in Nat
  BY <1>1
<1>3. SubSeq(data, 1, Len(data)) = data /\ SubSeq(data, Len(data) + 1, Len(data)) = none
  BY <1>1, CutAtEnd, Len(data) \in Nat, Len(data) >= Len(data)
<1>4. Framed(b \o none, tb, Len(LengthBytes(n)), body, data)
  <2>1. Message(tb, body \o SubSeq(data, 1, Len(data)), Len(body) + Len(data)) # NoMessage
    BY <1>1, <1>3
  <2>2. Framed(Message(tb, body \o SubSeq(data, 1, Len(data)), Len(body) + Len(data))
                   \o SubSeq(data, Len(data) + 1, Len(data)),
               tb, Len(LengthBytes(Len(body) + Len(data))), body, data)
    BY <1>1, <1>2, <2>1, MessageFramed
  <2> QED
    BY <1>3, <2>2
<1>5. b \in Seq(Nat)
  <2> DEFINE text == body \o data
             ds == LengthBytes(n)
  <2>1. b = (<<tb>> \o ds) \o text /\ ~(Len(ds) + 1 > 5)
    BY <1>1 DEF Message, MQTT_MAX_FIXED_HEADER_SIZE
  <2>2. text \in Seq(Nat)
    BY <1>1, ConcatProperties
  <2>3. n \in Nat /\ Len(ds) <= 4
    BY <1>1, <2>1, LengthCount
  <2> HIDE DEF n, b, text
  <2>4. ds \in Seq(Nat)
    BY <2>3, LengthWritten DEF IsLength
  <2> HIDE DEF ds
  <2>5. <<tb>> \o ds \in Seq(Nat)
    BY <1>1, <2>4
  <2> QED
    BY <2>1, <2>2, <2>5
<1> HIDE DEF b
<1>6. b \o none = b
  BY <1>5, NothingBehind
<1>7. Framed(b, tb, Len(LengthBytes(n)), body, data)
  BY <1>4, <1>6
<1> QED
  BY <1>1, <1>7 DEF tb, body, data, DigitsIn

\* Its size, and where its fixed header ends.
LEMMA BytesSize ==
    ASSUME NEW m \in BrokerMessages
    PROVE  /\ Bytes(m) \in Seq(Nat) /\ DigitsIn(m) \in 1..4 /\ 1 + DigitsIn(m) \in 2..5
           /\ Bytes(m)[1] = FirstByte(m) /\ FixedSize(Bytes(m)) = 1 + DigitsIn(m)
           /\ ~Continues(Bytes(m)[1 + DigitsIn(m)])
           /\ get_total_length(Bytes(m)) = Len(Bytes(m))
           /\ Len(Bytes(m)) = 1 + DigitsIn(m) + Len(BodyIn(m)) + Len(DataIn(m))
           /\ 1 + DigitsIn(m) <= Len(Bytes(m))
<1>1. Framed(Bytes(m), FirstByte(m), DigitsIn(m), BodyIn(m), DataIn(m))
  BY BytesFramed
<1>2. BodyIn(m) \in Seq(Nat) /\ DataIn(m) \in Seq(Nat)
  BY BytesBuilt
<1>3. Len(Bytes(m)) = 1 + DigitsIn(m) + Len(BodyIn(m)) + Len(DataIn(m)) /\ DigitsIn(m) \in 1..4
  BY <1>1 DEF Framed
<1>4. 1 + DigitsIn(m) <= Len(Bytes(m)) /\ 1 + DigitsIn(m) \in 2..5
  BY <1>2, <1>3
<1> QED
  BY <1>1, <1>3, <1>4 DEF Framed

\* A message that is no publish is short: one byte tells its length, and it fits in_buffer.
LEMMA ShortMessage ==
    ASSUME NEW m \in BrokerMessages, m.type # "PUBLISH"
    PROVE  /\ DigitsIn(m) = 1 /\ DataIn(m) = <<>> /\ Len(DataIn(m)) = 0
           /\ Len(Bytes(m)) = 2 + Len(BodyIn(m)) /\ Len(Bytes(m)) <= in_buffer_length
<1>1. DataIn(m) = <<>> /\ Len(DataIn(m)) = 0
  BY EmptySeq DEF DataIn
<1>2. /\ Len(BodyIn(m)) \in Nat /\ Len(BodyIn(m)) < LengthBase
      /\ 2 + Len(BodyIn(m)) <= in_buffer_length
  <2>1. LengthBase \in 4..128 /\ in_buffer_length \in Nat /\ in_buffer_length > 5
    BY InputAssumption DEF MQTT_MAX_FIXED_HEADER_SIZE
  <2>2. CASE m.type = "SUBACK"
    <3> DEFINE two == IdBody(m.id)
    <3>1. two \in Seq(Nat) /\ Len(two) = 2 /\ m.data \in Seq(Nat)
      BY <2>2, BrokerMessage, IdType DEF IdBody
    <3>2. BodyIn(m) = two \o m.data
      BY <2>2 DEF BodyIn
    <3> HIDE DEF two
    <3>5. Len(two \o m.data) = Len(two) + Len(m.data)
      BY <3>1, ConcatProperties
    <3>3. Len(BodyIn(m)) = 2 + Len(m.data) /\ Len(m.data) \in Nat
      BY <3>1, <3>2, <3>5
    <3>4. 2 + Len(m.data) < LengthBase /\ 4 + Len(m.data) <= in_buffer_length
      BY <2>2, BrokerMessage
    <3> QED
      BY <2>1, <3>3, <3>4
  <2>3. CASE m.type # "SUBACK"
    <3>1. Len(BodyIn(m)) \in {0, 2}
      <4>1. CASE m.type \in Acknowledgements
        <5>1. BodyIn(m) = IdBody(m.id)
          BY <4>1 DEF BodyIn, Acknowledgements
        <5>2. Len(IdBody(m.id)) = 2
          BY <4>1, BrokerMessage, IdType DEF IdBody
        <5> QED
          BY <5>1, <5>2
      <4>2. CASE m.type = "CONNACK"
        BY <4>2 DEF BodyIn
      <4>3. CASE m.type = "PINGRESP"
        BY <4>3 DEF BodyIn
      <4> QED
        BY <2>3, <4>1, <4>2, <4>3, BrokerMessage
    <3> DEFINE n == Len(BodyIn(m))
    <3>2. n = 0 \/ n = 2
      BY <3>1
    <3> HIDE DEF n
    <3>3. n \in Nat /\ n < LengthBase /\ 2 + n <= in_buffer_length
      BY <2>1, <3>2
    <3> QED
      BY <3>3 DEF n
  <2> QED
    BY <2>2, <2>3
<1>3. Len(BodyIn(m)) + Len(DataIn(m)) = Len(BodyIn(m))
  BY <1>1, <1>2
<1>4. DigitsIn(m) = 1
  BY <1>2, <1>3, ShortLength DEF DigitsIn
<1>5. Len(Bytes(m)) = 2 + Len(BodyIn(m))
  BY <1>1, <1>2, <1>4, BytesSize
<1> QED
  BY <1>1, <1>2, <1>4, <1>5

\* The first j bytes.
LEMMA FirstBytes ==
    ASSUME NEW s \in Seq(Nat), NEW j \in 0..Len(s)
    PROVE  /\ SubSeq(s, 1, j) \in Seq(Nat) /\ Len(SubSeq(s, 1, j)) = j
           /\ \A i \in 1..j : SubSeq(s, 1, j)[i] = s[i]
           /\ SubSeq(s, 1, j) = <<>> <=> j = 0
<1> DEFINE c == SubSeq(s, 1, j)
<1>1. c \in Seq(Nat) /\ Len(c) = j
  BY TwoParts
<1>2. 1 \in Int /\ j \in Int /\ \A i \in 1..j : s[i] \in Nat
  OBVIOUS
<1>3. \A i \in 1 .. j - 1 + 1 : c[i] = s[1 + i - 1]
  BY <1>2, SubSeqProperties
<1>4. \A i \in 1..j : c[i] = s[i]
  <2> TAKE i \in 1..j
  <2>1. i \in 1 .. j - 1 + 1 /\ 1 + i - 1 = i
    OBVIOUS
  <2> HIDE DEF c
  <2> QED
    BY <1>3, <2>1
<1> HIDE DEF c
<1>5. c = <<>> <=> j = 0
  BY <1>1, EmptySeq
<1> QED
  BY <1>1, <1>4, <1>5 DEF c

\* They are the first of what they are taken from, and of what that agrees with.
LEMMA AlikeFirst ==
    ASSUME NEW all \in Seq(Nat), NEW d \in Seq(Nat), Alike(all, d), NEW j \in 0..Len(all)
    PROVE  Alike(SubSeq(all, 1, j), d)
<1> DEFINE c == SubSeq(all, 1, j)
<1>1. Len(c) = j /\ \A i \in 1..j : c[i] = all[i]
  BY FirstBytes
<1> HIDE DEF c
<1>2. \A i \in 1..j : i \in 1..Len(all)
  OBVIOUS
<1>3. Alike(c, d)
  BY <1>1, <1>2 DEF Alike
<1> QED
  BY <1>3 DEF c

\* What has the fixed header of a message tells what it is.
LEMMA HeaderSeen ==
    ASSUME NEW m \in BrokerMessages, NEW c \in Seq(Nat), Alike(c, Bytes(m)),
           1 + DigitsIn(m) <= Len(c)
    PROVE  /\ FixedSize(c) = 1 + DigitsIn(m) /\ get_total_length(c) = Len(Bytes(m))
           /\ ~Continues(c[1 + DigitsIn(m)]) /\ c[1] = FirstByte(m)
           /\ get_type(c) = m.type /\ get_qos(c) = QosIn(m)
<1> DEFINE d == Bytes(m)
           f == 1 + DigitsIn(m)
<1>1. /\ d \in Seq(Nat) /\ f \in 2..5 /\ f <= Len(d) /\ FixedSize(d) = f /\ ~Continues(d[f])
      /\ d[1] = FirstByte(m) /\ get_total_length(d) = Len(d)
  BY BytesSize
<1> HIDE DEF d, f
<1>2. /\ c[1] = FirstByte(m) /\ FixedSize(c) = f /\ ~Continues(c[f])
      /\ get_total_length(c) = Len(d)
  <2>1. Alike(c, d) /\ f <= Len(c)
    BY DEF d, f
  <2> QED
    BY <1>1, <2>1, HeaderSame
<1>3. get_type(c) = m.type /\ get_qos(c) = QosIn(m)
  <2>1. m.type \in DOMAIN Types /\ QosIn(m) \in 0..2 /\ 0 \in 0..1
    BY BytesBuilt
  <2>2. c[1] = TypeByte(m.type, 0, QosIn(m), 0)
    BY <1>2 DEF FirstByte
  <2> QED
    BY <2>1, <2>2, TypeRead
<1> QED
  BY <1>2, <1>3 DEF d, f

\* Where mqtt_message_receive stops reading bytes of a length: never before its end.
LEMMA EndsRight ==
    ASSUME NEW m \in BrokerMessages, NEW all \in Seq(Nat), NEW j \in 0..Len(all),
           Alike(all, Bytes(m))
    PROVE  /\ \A n \in LengthEnds(SubSeq(all, 1, j), all) :
                 n \in j..Len(all) /\ 1 + DigitsIn(m) <= n
           /\ LengthEnds(SubSeq(all, 1, j), all) # {} =>
                 Min(LengthEnds(SubSeq(all, 1, j), all)) \in LengthEnds(SubSeq(all, 1, j), all)
<1> DEFINE b == SubSeq(all, 1, j)
           ends == LengthEnds(b, all)
           f == 1 + DigitsIn(m)
           d == Bytes(m)
           start == IF b = <<>> THEN 2 ELSE Len(b) + 1
           others == {n \in start..Len(all) : n >= 6 \/ ~Continues(all[n])}
<1>1. /\ b \in Seq(Nat) /\ Len(b) = j /\ (\A i \in 1..j : b[i] = all[i])
      /\ (b = <<>> <=> j = 0)
  BY FirstBytes
<1>2. f \in 2..5 /\ f <= Len(d) /\ \A k \in 2..(f - 1) : Continues(d[k])
  <2>1. f \in 2..5 /\ d \in Seq(Nat) /\ f <= Len(d) /\ FixedSize(d) = f /\ ~Continues(d[f])
    BY BytesSize
  <2> HIDE DEF f, d
  <2> QED
    BY <2>1, SizeContinues
<1>3. Alike(all, d)
  OBVIOUS
<1>4. ends = IF Len(b) > 1 /\ ~(Len(b) < 6 /\ Continues(Last(b))) THEN {Len(b)} ELSE others
  BY DEF LengthEnds
<1> HIDE DEF b, f, d, ends
<1>5. ASSUME NEW n \in 2..Len(all), n >= 6 \/ ~Continues(all[n]) PROVE f <= n
  <2> SUFFICES ASSUME ~(f <= n) PROVE FALSE
    OBVIOUS
  <2>1. n \in 2..(f - 1) /\ n \in 1..Len(all) /\ n <= Len(d) /\ ~(n >= 6)
    BY <1>2
  <2>2. Continues(d[n]) /\ all[n] = d[n]
    BY <1>2, <1>3, <2>1 DEF Alike
  <2> QED
    BY <1>5, <2>1, <2>2
<1>6. start \in Nat /\ start >= 2 /\ start >= j /\ (j <= 5 => start <= 6)
  BY <1>1
<1>7. CASE Len(b) > 1 /\ ~(Len(b) < 6 /\ Continues(Last(b)))
  <2>1. ends = {j} /\ j > 1 /\ (j >= 6 \/ ~Continues(all[j]))
    BY <1>1, <1>4, <1>7 DEF Last
  <2>2. j \in 2..Len(all)
    BY <2>1
  <2>3. f <= j
    BY <1>5, <2>1, <2>2
  <2>4. Min(ends) \in ends
    BY <2>1, j <= j DEF Min
  <2> QED
    BY <2>1, <2>2, <2>3, <2>4 DEF ends, b, f
<1>8. CASE ~(Len(b) > 1 /\ ~(Len(b) < 6 /\ Continues(Last(b))))
  <2>1. ends = others /\ j <= 5
    BY <1>1, <1>4, <1>8
  <2>2. ASSUME NEW n \in ends PROVE n \in j..Len(all) /\ f <= n
    <3>1. n \in start..Len(all) /\ (n >= 6 \/ ~Continues(all[n]))
      BY <2>1
    <3>2. n \in 2..Len(all) /\ n \in j..Len(all)
      BY <1>6, <3>1
    <3> QED
      BY <1>5, <3>1, <3>2
  <2>3. ASSUME NEW n \in ends PROVE Min(ends) \in ends
    <3>1. n \in start..Len(all) /\ (n >= 6 \/ ~Continues(all[n]))
      BY <2>1
    <3>2. ends \in SUBSET (Nat \ {0})
      BY <1>6, <2>1
    <3>3. CASE n <= 6
      BY <3>2, <3>3, LeastPresent
    <3>4. CASE ~(n <= 6)
      <4>1. 6 \in start..Len(all)
        BY <1>6, <2>1, <3>1, <3>4
      <4>2. 6 \in ends /\ 6 <= 6
        BY <2>1, <4>1
      <4> QED
        BY <3>2, <4>2, LeastPresent
    <3> QED
      BY <3>3, <3>4
  <2>4. ends # {} => Min(ends) \in ends
    BY <2>3
  <2> QED
    BY <2>2, <2>4 DEF ends, b, f
<1> QED
  BY <1>7, <1>8

\* How much of a message is read in one piece, once its length is known: all of it, or as
\* much of a publish as in_buffer takes.
Wants(wanted, m, all) ==
    \/ wanted = Received(Len(Bytes(m)))
    \/ m.type = "PUBLISH" /\ wanted = Unfinished(Len(all))
    \/ m.type = "PUBLISH" /\ wanted = Received(in_buffer_length)

\* mqtt_message_receive asks for no more than that.
LEMMA WantedRight ==
    ASSUME NEW m \in BrokerMessages, NEW all \in Seq(Nat), Alike(all, Bytes(m)),
           1 + DigitsIn(m) <= Len(all), NEW c
    PROVE  Wants(Wanted(IF Len(Bytes(m)) > in_buffer_length THEN all ELSE c, Len(Bytes(m))),
                 m, all)
<1> DEFINE total == Len(Bytes(m))
           f == 1 + DigitsIn(m)
           wanted == Wanted(IF total > in_buffer_length THEN all ELSE c, total)
<1>1. f \in Nat /\ FixedSize(all) = f /\ get_type(all) = m.type /\ get_qos(all) = QosIn(m)
  BY HeaderSeen, BytesSize
<1>2. total \in Nat /\ in_buffer_length \in Nat
  BY InputAssumption, BytesSize
<1>3. CASE total <= in_buffer_length
  BY <1>3 DEF Wanted, Wants
<1>4. CASE ~(total <= in_buffer_length)
  <2>1. total > in_buffer_length /\ wanted = Wanted(all, total)
    BY <1>2, <1>4
  <2>2. m.type = "PUBLISH"
    BY <1>4, ShortMessage
  <2>3. CASE Len(all) < f + 2
    <3>1. wanted = Unfinished(Len(all))
      BY <1>1, <1>4, <2>1, <2>2, <2>3 DEF Wanted
    <3> QED
      BY <2>2, <3>1 DEF Wants
  <2>4. CASE ~(Len(all) < f + 2)
    <3> DEFINE body == PublishBody(m.topic, m.qos, m.id)
               two == TwoBytes(Len(m.topic))
    <3>1. /\ m.topic \in Seq(Nat) /\ m.qos \in 0..2 /\ m.id \in TwoByteNumbers
          /\ Len(m.topic) \in TwoByteNumbers /\ 5 + Len(body) <= in_buffer_length
      BY <2>2, BrokerMessage
    <3>2. body \in Seq(Nat) /\ Len(body) = 2 + Len(m.topic) + Flag(m.qos > 0, 2)
      BY <3>1, PublishBodyType
    <3>3. BodyIn(m) = body /\ QosIn(m) = m.qos
      BY <2>2 DEF BodyIn, QosIn
    <3>4. two \in Seq(Nat) /\ Len(two) = 2
      BY <3>1, TwoBytesType
    <3>5. Bytes(m) \in Seq(Nat) /\ At(Bytes(m), f, body) /\ f \in 2..5
      BY <3>3, BytesFramed, BytesSize DEF Framed
    <3>6. At(Bytes(m), f, two)
      <4> DEFINE more == IF m.qos > 0 THEN TwoBytes(m.id) ELSE <<>>
                 rest == m.topic \o more
      <4>1. more \in Seq(Nat)
        BY <3>1, IdType
      <4>2. body = (two \o m.topic) \o more
        BY DEF PublishBody, String
      <4> HIDE DEF more, two, body, f
      <4>3. (two \o m.topic) \o more = two \o rest
        BY <3>1, <3>4, <4>1, ThreeParts
      <4>4. rest \in Seq(Nat)
        BY <3>1, <4>1, ConcatProperties
      <4> HIDE DEF rest
      <4> QED
        BY <3>4, <3>5, <4>2, <4>3, <4>4, AtParts
    <3> HIDE DEF two, body, f
    <3>7. At(all, f, two)
      <4>1. f + Len(two) <= Len(all)
        BY <1>1, <2>4, <3>4
      <4> QED
        BY <1>1, <3>4, <3>5, <3>6, <4>1, AtAlike
    <3>8. Number(all, f + 1) = Len(m.topic)
      BY <1>1, <3>1, <3>7, NumberAt DEF two
    <3>9. ~(f + Len(m.topic) + Flag(m.qos > 0, 2) > in_buffer_length)
      <4>1. Flag(m.qos > 0, 2) \in Nat /\ Len(m.topic) \in Nat
        BY <3>1 DEF Flag
      <4> QED
        BY <1>2, <3>1, <3>2, <3>5, <4>1
    <3>10. wanted = Received(in_buffer_length)
      BY <1>1, <1>4, <2>1, <2>2, <2>4, <3>3, <3>8, <3>9 DEF Wanted
    <3> QED
      BY <2>2, <3>10 DEF Wants
  <2> QED
    BY <2>3, <2>4
<1> QED
  BY <1>2, <1>3, <1>4

\* k bytes are a whole message, or what in_buffer takes of a publish.
Enough(k, m) == k >= Len(Bytes(m)) \/ (m.type = "PUBLISH" /\ k >= in_buffer_length)

\* A call of mqtt_message_receive takes all there is, or k bytes; those are the message, perhaps
\* with a byte that was swallowed, or the first of a publish that is too long for in_buffer.
Goes(got, j, m, all) ==
    \/ got = Unfinished(Len(all))
    \/ \E k \in j..Len(all) : got = Received(k) /\ 1 + DigitsIn(m) <= k /\ Enough(k, m)

\* What a call comes to when a message of the broker is next.
LEMMA ReceiveGoes ==
    ASSUME NEW m \in BrokerMessages, NEW all \in Seq(Nat), all # <<>>, NEW j \in 0..Len(all),
           Alike(all, Bytes(m))
    PROVE  Goes(MessageReceive(SubSeq(all, 1, j), all), j, m, all)
<1> DEFINE b == SubSeq(all, 1, j)
           ends == LengthEnds(b, all)
           n == Min(ends)
           c == SubSeq(all, 1, n)
           f == 1 + DigitsIn(m)
           total == Len(Bytes(m))
           wanted == Wanted(IF total > in_buffer_length THEN all ELSE c, total)
           got == MessageReceive(b, all)
<1>1. total \in Nat /\ in_buffer_length \in Nat /\ Len(all) \in Nat
  BY BytesSize, InputAssumption
<1>2. has_valid_msg_hdr(all[1])
  <2>1. 1 \in 1..Len(all) /\ 1 <= Len(Bytes(m))
    BY BytesSize, EmptySeq
  <2>2. all[1] = FirstByte(m)
    BY <2>1, BytesSize DEF Alike
  <2> QED
    BY <2>2, BytesBuilt
<1>3. CASE ends = {}
  <2>1. got = Unfinished(Len(all))
    BY <1>2, <1>3 DEF MessageReceive
  <2> QED
    BY <2>1 DEF Goes
<1>4. CASE ends # {}
  <2>1. n \in j..Len(all) /\ f <= n
    BY <1>4, EndsRight
  <2>0. f \in Nat /\ j \in Nat
    <3>1. f \in 2..5
      BY BytesSize
    <3> HIDE DEF f
    <3> QED
      BY <3>1
  <2>2. n \in 0..Len(all) /\ n \in Nat /\ f \in Nat /\ f <= Len(all)
    <3> HIDE DEF n, f
    <3> QED
      BY <1>1, <2>0, <2>1
  <2>3. c \in Seq(Nat) /\ Len(c) = n /\ Alike(c, Bytes(m))
    <3> HIDE DEF n
    <3>1. c \in Seq(Nat) /\ Len(c) = n
      BY <2>2, FirstBytes
    <3>2. Alike(c, Bytes(m))
      BY <2>2, AlikeFirst, BytesSize
    <3> QED
      BY <3>1, <3>2
  <2>4. get_total_length(c) = total
    BY <2>1, <2>3, HeaderSeen
  <2>5. Wants(wanted, m, all)
    BY <2>2, WantedRight
  <2>6. got = IF wanted.result # "received" THEN wanted
              ELSE IF n >= wanted.length THEN Received(n)
              ELSE IF Len(all) < wanted.length THEN Unfinished(Len(all))
              ELSE wanted
    BY <1>2, <1>4, <2>4 DEF MessageReceive
  <2> HIDE DEF n, c, f, total, wanted, ends, got
  <2>7. CASE m.type = "PUBLISH" /\ wanted = Unfinished(Len(all))
    <3>1. got = Unfinished(Len(all))
      BY <2>6, <2>7 DEF Unfinished
    <3> QED
      BY <3>1 DEF Goes, got
  <2>8. ASSUME NEW k \in Nat, wanted = Received(k), Enough(k, m)
        PROVE  Goes(got, j, m, all)
    <3>1. wanted.result = "received" /\ wanted.length = k
      BY <2>8 DEF Received
    <3>2. CASE n >= k
      <4>1. got = Received(n)
        BY <2>6, <3>1, <3>2
      <4>2. Enough(n, m)
        BY <1>1, <2>2, <2>8, <3>2 DEF Enough, total
      <4> QED
        BY <2>1, <4>1, <4>2 DEF Goes, f
    <3>3. CASE ~(n >= k) /\ Len(all) < k
      BY <2>6, <3>1, <3>3 DEF Goes
    <3>4. CASE ~(n >= k) /\ ~(Len(all) < k)
      <4>1. got = Received(k)
        BY <2>6, <2>8, <3>1, <3>4
      <4>2. k \in j..Len(all) /\ f <= k
        BY <1>1, <2>1, <2>2, <2>8, <3>4
      <4> QED
        BY <2>8, <4>1, <4>2 DEF Goes, f
    <3> QED
      BY <3>2, <3>3, <3>4
  <2>9. CASE wanted = Received(total)
    <3>1. total \in Nat
      BY <1>1
    <3>2. Enough(total, m)
      BY <3>1 DEF Enough, total
    <3>3. Goes(got, j, m, all)
      BY <2>8, <2>9, <3>1, <3>2
    <3> QED
      BY <3>3 DEF got
  <2>10. CASE m.type = "PUBLISH" /\ wanted = Received(in_buffer_length)
    <3>1. Enough(in_buffer_length, m)
      BY <1>1, <2>10 DEF Enough
    <3>2. Goes(got, j, m, all)
      BY <1>1, <2>8, <2>10, <3>1
    <3> QED
      BY <3>2 DEF got
  <2> QED
    BY <2>5, <2>7, <2>9, <2>10 DEF Wants, total, got
<1> QED
  BY <1>3, <1>4

\* A publish, or the first of one, is read as it was written.
LEMMA PublishSeen ==
    ASSUME NEW m \in BrokerMessages, m.type = "PUBLISH", NEW c \in Seq(Nat), Alike(c, Bytes(m)),
           NEW n \in 0..Len(m.data), Len(c) = 1 + DigitsIn(m) + Len(BodyIn(m)) + n
    PROVE  /\ get_publish_topic(c).found
           /\ PublishIn(c) = [m EXCEPT !.data = SubSeq(m.data, 1, n)]
<1> DEFINE d == Bytes(m)
           ld == DigitsIn(m)
           body == PublishBody(m.topic, m.qos, m.id)
           d1 == SubSeq(m.data, 1, n)
           d2 == SubSeq(m.data, n + 1, Len(m.data))
           start == 1 + ld + Len(body)
<1>1. /\ m = [type |-> "PUBLISH", topic |-> m.topic, data |-> m.data, qos |-> m.qos, id |-> m.id]
      /\ m.topic \in Seq(Nat) /\ Len(m.topic) >= 1 /\ Len(m.topic) \in TwoByteNumbers
      /\ m.data \in Seq(Nat) /\ m.qos \in 0..2 /\ m.id \in TwoByteNumbers /\ (m.qos = 0 => m.id = 0)
  BY BrokerMessage
<1>2. BodyIn(m) = body /\ DataIn(m) = m.data /\ QosIn(m) = m.qos
  BY DEF BodyIn, DataIn, QosIn
<1>3. body \in Seq(Nat) /\ Len(body) \in Nat
  <2>1. body \in Seq(Nat)
    BY <1>1, PublishBodyType
  <2> HIDE DEF body
  <2> QED
    BY <2>1
<1>4. d1 \in Seq(Nat) /\ d2 \in Seq(Nat) /\ Len(d1) = n /\ d1 \o d2 = m.data
  BY <1>1, TwoParts
<1>5. /\ d \in Seq(Nat) /\ ld \in 1..4 /\ At(d, 1 + ld, body) /\ At(d, start, m.data)
      /\ Len(d) = start + Len(m.data)
  BY <1>2, BytesFramed, BytesSize DEF Framed
<1>6. Len(c) = start + n /\ start \in Nat /\ 1 + ld <= Len(c) /\ Len(c) <= Len(d)
  <2> HIDE DEF ld, body, d
  <2>1. Len(m.data) \in Nat
    BY <1>1
  <2>2. Len(c) = start + n
    BY <1>2 DEF ld
  <2>3. start \in Nat
    BY <1>3, <1>5
  <2>4. 1 + ld <= Len(c)
    BY <1>3, <1>5, <2>2
  <2>5. Len(c) <= Len(d)
    <3> HIDE DEF start
    <3>1. n <= Len(m.data) /\ n \in Nat
      BY <2>1
    <3>2. Len(d) = start + Len(m.data)
      BY <1>5
    <3> QED
      BY <2>1, <2>2, <2>3, <3>1, <3>2
  <2> QED
    BY <2>2, <2>3, <2>4, <2>5
<1>7. /\ FixedSize(c) = 1 + ld /\ get_total_length(c) = Len(d) /\ c[1] = FirstByte(m)
      /\ get_type(c) = "PUBLISH" /\ get_qos(c) = m.qos
  BY <1>2, <1>6, HeaderSeen
<1>8. Alike(c, d)
  OBVIOUS
<1>9. c[1] = TypeByte("PUBLISH", 0, m.qos, 0) /\ 0 \in 0..1
  BY <1>2, <1>7 DEF FirstByte
<1> HIDE DEF d, ld, body, d1, d2, start
<1>10. At(c, 1 + ld, body)
  <2>1. 1 + ld \in Nat /\ (1 + ld) + Len(body) <= Len(c)
    BY <1>3, <1>5, <1>6 DEF start
  <2> QED
    BY <1>3, <1>5, <1>8, <2>1, AtAlike
<1>11. At(c, start, d1)
  <2>1. At(d, start, d1)
    BY <1>4, <1>5, <1>6, AtParts
  <2>2. start + Len(d1) <= Len(c)
    BY <1>4, <1>6
  <2> QED
    BY <1>4, <1>5, <1>6, <1>8, <2>1, <2>2, AtAlike
<1>12. Placed(c, ld, body, d1)
  BY <1>4, <1>5, <1>6, <1>10, <1>11 DEF Placed, start
<1>13. get_total_length(c) \in Nat /\ get_total_length(c) >= Len(c)
  BY <1>5, <1>6, <1>7
<1>14. /\ get_publish_topic(c) = Found(m.topic) /\ get_publish_data(c).text = d1
       /\ get_id(c, get_total_length(c)) = IF m.qos > 0 THEN m.id ELSE 0
  BY <1>1, <1>4, <1>7, <1>9, <1>12, <1>13, PublishRead DEF body
<1>15. get_id(c, get_total_length(c)) = m.id
  BY <1>1, <1>14
<1>16. PublishIn(c) = [type |-> "PUBLISH", topic |-> m.topic, data |-> d1, qos |-> m.qos,
                       id |-> m.id]
  BY <1>7, <1>14, <1>15 DEF PublishIn, Found
<1>17. [m EXCEPT !.data = d1] = [type |-> "PUBLISH", topic |-> m.topic, data |-> d1,
                                 qos |-> m.qos, id |-> m.id]
  <2> DEFINE r == [type |-> "PUBLISH", topic |-> m.topic, data |-> m.data, qos |-> m.qos,
                   id |-> m.id]
  <2>1. [r EXCEPT !.data = d1] = [type |-> "PUBLISH", topic |-> m.topic, data |-> d1,
                                  qos |-> m.qos, id |-> m.id]
    OBVIOUS
  <2>2. m = r
    BY <1>1
  <2> HIDE DEF r
  <2> QED
    BY <2>1, <2>2
<1> QED
  BY <1>14, <1>16, <1>17 DEF Found, d1

\* Any other message is acted on as it was written.
LEMMA OtherSeen ==
    ASSUME NEW m \in BrokerMessages, m.type # "PUBLISH"
    PROVE  /\ get_type(Bytes(m)) = m.type /\ OtherIn(Bytes(m)) = m
           /\ m.type = "SUBACK" => get_suback_data(Bytes(m)).found
<1> DEFINE d == Bytes(m)
           body == BodyIn(m)
<1>1. /\ d \in Seq(Nat) /\ DigitsIn(m) = 1 /\ FixedSize(d) = 2 /\ Len(d) = 2 + Len(body)
      /\ DataIn(m) = <<>> /\ d[1] = FirstByte(m)
  BY ShortMessage, BytesSize
<1>2. /\ Framed(d, TypeByte(m.type, 0, QosOf(m.type), 0), 1, body, <<>>)
      /\ body \in Seq(Nat)
  BY <1>1, BytesFramed, BytesBuilt DEF FirstByte, QosIn
<1>3. At(d, 2, body)
  BY <1>2 DEF Framed
<1>4. get_type(d) = m.type
  <2>1. m.type \in DOMAIN Types /\ QosIn(m) \in 0..2 /\ 0 \in 0..1
    BY BytesBuilt
  <2> QED
    BY <1>1, <2>1, TypeRead DEF FirstByte
<1>5. CASE m.type \in Acknowledgements
  <2>1. m = [type |-> m.type, id |-> m.id] /\ m.id \in TwoByteNumbers
    BY <1>5, BrokerMessage
  <2>2. body = TwoBytes(m.id)
    BY <1>5 DEF BodyIn, IdBody, Acknowledgements
  <2>3. TwoBytes(m.id) \in Seq(Nat)
    BY <2>1, IdType
  <2>4. m.type \in OtherTypes /\ m.type \in IdTypes
    BY <1>5 DEF OtherTypes, IdTypes, Acknowledgements
  <2>5. Begins(m.type, m.id, body)
    BY <2>1, <2>2, <2>3, <2>4, NothingBehind DEF Begins
  <2> HIDE DEF d, body
  <2>6. get_id(d, Len(d)) = m.id
    BY <1>1, <1>2, <2>4, <2>5, IdRead
  <2>7. OtherIn(d) = [type |-> m.type, id |-> m.id]
    BY <1>4, <1>5, <2>6 DEF OtherIn, Acknowledgements
  <2> QED
    BY <1>4, <1>5, <2>1, <2>7 DEF Acknowledgements, d
<1>6. CASE m.type = "SUBACK"
  <2> DEFINE two == TwoBytes(m.id)
  <2>1. /\ m = [type |-> "SUBACK", id |-> m.id, data |-> m.data] /\ m.id \in TwoByteNumbers
        /\ m.data \in Seq(Nat) /\ Len(m.data) >= 1
    BY <1>6, BrokerMessage
  <2>2. body = two \o m.data
    BY <1>6 DEF BodyIn, IdBody
  <2>3. two \in Seq(Nat) /\ Len(two) = 2
    BY <2>1, IdType
  <2>4. m.type \in OtherTypes
    BY <1>6 DEF OtherTypes
  <2>5. Begins(m.type, m.id, body)
    BY <1>6, <2>1, <2>2 DEF Begins, IdTypes
  <2> HIDE DEF d, body
  <2>6. get_id(d, Len(d)) = m.id
    BY <1>1, <1>2, <2>4, <2>5, IdRead
  <2> HIDE DEF two
  <2>7. At(d, 4, m.data)
    <3>1. 2 \in Nat /\ 2 + Len(two) = 4
      BY <2>3
    <3>2. d \in Seq(Nat) /\ At(d, 2, two \o m.data)
      BY <1>1, <1>3, <2>2
    <3>3. At(d, 2 + Len(two), m.data)
      BY <2>1, <2>3, <3>1, <3>2, AtParts
    <3> QED
      BY <3>1, <3>3
  <2>8. Len(d) = 4 + Len(m.data)
    <3>1. Len(two \o m.data) = Len(two) + Len(m.data)
      BY <2>1, <2>3, ConcatProperties
    <3> QED
      BY <1>1, <2>1, <2>2, <2>3, <3>1
  <2>9. SubSeq(d, 5, Len(d)) = m.data
    <3>1. SubSeq(d, 4 + 1, 4 + Len(m.data)) = m.data
      BY <1>1, <2>1, <2>7, AtCut, 4 \in Nat
    <3> QED
      BY <2>8, <3>1
  <2>10. get_suback_data(d) = Found(m.data)
    <3>1. Len(d) > 4
      BY <2>1, <2>8
    <3> QED
      BY <2>9, <3>1 DEF get_suback_data
  <2>11. OtherIn(d) = [type |-> "SUBACK", id |-> m.id, data |-> m.data]
    BY <1>4, <1>6, <2>6, <2>10 DEF OtherIn, Found
  <2> QED
    BY <1>4, <1>6, <2>1, <2>10, <2>11 DEF Found, d
<1>7. CASE m.type = "CONNACK"
  <2>1. m = [type |-> "CONNACK", code |-> m.code]
    BY <1>7, BrokerMessage
  <2>2. body = <<0, m.code>>
    BY <1>7 DEF BodyIn
  <2>3. d[4] = m.code
    <3>1. Len(<<0, m.code>>) = 2 /\ <<0, m.code>>[2] = m.code /\ 2 + 2 = 4
      OBVIOUS
    <3> QED
      BY <1>3, <2>2, <3>1 DEF At
  <2>4. OtherIn(d) = [type |-> "CONNACK", code |-> m.code]
    BY <1>4, <1>7, <2>3 DEF OtherIn, get_connect_return_code
  <2> QED
    BY <1>4, <1>7, <2>1, <2>4
<1>8. CASE m.type = "PINGRESP"
  <2>1. m = [type |-> "PINGRESP"]
    BY <1>8, BrokerMessage
  <2>2. OtherIn(d) = [type |-> "PINGRESP"]
    BY <1>4, <1>8 DEF OtherIn
  <2> QED
    BY <1>4, <1>8, <2>1, <2>2
<1> QED
  BY <1>5, <1>6, <1>7, <1>8, BrokerMessage

\* What was put together is taken apart.
LEMMA TakenApart ==
    ASSUME NEW s \in Seq(Nat), NEW t \in Seq(Nat)
    PROVE  /\ s \o t \in Seq(Nat) /\ Len(s \o t) = Len(s) + Len(t)
           /\ SubSeq(s \o t, 1, Len(s)) = s
           /\ SubSeq(s \o t, Len(s) + 1, Len(s \o t)) = t
<1>1. s \o t \in Seq(Nat) /\ Len(s \o t) = Len(s) + Len(t)
  BY ConcatProperties
<1>2. SubSeq(s \o t, 1, Len(s)) = s
  BY SubSeqOfConcat1, SubSeqFull
<1>3. SubSeq(s \o t, Len(s) + 1, Len(s) + Len(t)) = t
  BY SubSeqOfConcat2, SubSeqFull
<1> QED
  BY <1>1, <1>2, <1>3

\* Two sequences that agree have the same first bytes, and the same behind them.
LEMMA SameParts ==
    ASSUME NEW s \in Seq(Nat), NEW t \in Seq(Nat), NEW u \in Seq(Nat), NEW v \in Seq(Nat),
           s \o t = u \o v, Len(s) = Len(u)
    PROVE  s = u /\ t = v
<1>1. /\ SubSeq(s \o t, 1, Len(s)) = s
      /\ SubSeq(s \o t, Len(s) + 1, Len(s \o t)) = t
  BY TakenApart
<1>2. /\ SubSeq(u \o v, 1, Len(u)) = u
      /\ SubSeq(u \o v, Len(u) + 1, Len(u \o v)) = v
  BY TakenApart
<1> QED
  BY <1>1, <1>2

\* What follows one sequence and is followed by another.
LEMMA LikeFirst ==
    ASSUME NEW s \in Seq(Nat), NEW t \in Seq(Nat), NEW u \in Seq(Nat), NEW v \in Seq(Nat),
           s \o t = u \o v
    PROVE  Alike(s, u)
<1>1. /\ \A i \in 1 .. Len(s) + Len(t) : (s \o t)[i] = IF i <= Len(s) THEN s[i] ELSE t[i - Len(s)]
      /\ Len(s \o t) = Len(s) + Len(t)
  BY ConcatProperties
<1>2. /\ \A i \in 1 .. Len(u) + Len(v) : (u \o v)[i] = IF i <= Len(u) THEN u[i] ELSE v[i - Len(u)]
      /\ Len(u \o v) = Len(u) + Len(v)
  BY ConcatProperties
<1> SUFFICES ASSUME NEW i \in 1..Len(s), i <= Len(u) PROVE s[i] = u[i]
  BY DEF Alike
<1>3. i \in 1 .. Len(s) + Len(t) /\ i <= Len(s) /\ i \in 1 .. Len(u) + Len(v)
  OBVIOUS
<1>4. (s \o t)[i] = s[i]
  BY <1>1, <1>3
<1>5. (u \o v)[i] = u[i]
  BY <1>2, <1>3
<1> QED
  BY <1>4, <1>5

\* The least of three.
LEMMA LeastOfThree ==
    ASSUME NEW a \in Nat, NEW b \in Nat, NEW c \in Nat
    PROVE  /\ Min({a, b, c}) \in {a, b, c}
           /\ Min({a, b, c}) <= a /\ Min({a, b, c}) <= b /\ Min({a, b, c}) <= c
<1>1. \E m \in {a, b, c} : \A k \in {a, b, c} : m <= k
  <2>1. CASE a <= b /\ a <= c
    BY <2>1
  <2>2. CASE b <= a /\ b <= c
    BY <2>2
  <2>3. CASE c <= a /\ c <= b
    BY <2>3
  <2> QED
    BY <2>1, <2>2, <2>3
<1>2. /\ Min({a, b, c}) \in {a, b, c} /\ \A k \in {a, b, c} : Min({a, b, c}) <= k
  BY <1>1 DEF Min
<1> QED
  BY <1>2

-----------------------------------------------------------------------------
\* Bytes with the messages they are.
Pairs == Seq(Nat) \X Seq(BrokerMessages)
NoPair == <<<<>>, <<>>>>
LedBy(m, p) == <<Bytes(m) \o p[1], <<m>> \o p[2]>>

\* Messages of the broker one after another: the least set with none that takes one more
\* in front.
OneByOne(S) ==
    /\ NoPair \in S
    /\ \A m \in BrokerMessages, p \in S : LedBy(m, p) \in S
Laid == {p \in Pairs : \A S \in SUBSET Pairs : OneByOne(S) => p \in S}

\* A pair is one.
LEMMA PairParts ==
    ASSUME NEW p \in Pairs
    PROVE  p = <<p[1], p[2]>> /\ p[1] \in Seq(Nat) /\ p[2] \in Seq(BrokerMessages)
  BY DEF Pairs

\* A message in front makes another.
LEMMA LedByType ==
    ASSUME NEW m \in BrokerMessages, NEW p \in Pairs
    PROVE  LedBy(m, p) \in Pairs
<1>1. Bytes(m) \in Seq(Nat) /\ p[1] \in Seq(Nat) /\ p[2] \in Seq(BrokerMessages)
  BY BytesSize, PairParts
<1>2. Bytes(m) \o p[1] \in Seq(Nat)
  BY <1>1, ConcatProperties
<1>3. <<m>> \o p[2] \in Seq(BrokerMessages)
  <2>1. <<m>> \in Seq(BrokerMessages)
    OBVIOUS
  <2> QED
    BY <1>1, <2>1, ConcatProperties
<1> QED
  BY <1>2, <1>3 DEF Pairs, LedBy

\* What is laid is whole.
LEMMA LaidWhole ==
    Laid \in SUBSET Pairs /\ OneByOne(Laid)
<1>1. Laid \in SUBSET Pairs
  BY DEF Laid
<1>2. NoPair \in Laid
  <2>1. NoPair \in Pairs
    <3>1. <<>> \in Seq(Nat) /\ <<>> \in Seq(BrokerMessages)
      OBVIOUS
    <3> QED
      BY <3>1 DEF Pairs, NoPair
  <2>2. \A S \in SUBSET Pairs : OneByOne(S) => NoPair \in S
    BY DEF OneByOne
  <2> QED
    BY <2>1, <2>2 DEF Laid
<1>3. ASSUME NEW m \in BrokerMessages, NEW p \in Laid
      PROVE  LedBy(m, p) \in Laid
  <2>1. LedBy(m, p) \in Pairs
    BY <1>1, LedByType
  <2>2. ASSUME NEW S \in SUBSET Pairs, OneByOne(S)
        PROVE  LedBy(m, p) \in S
    <3>1. p \in S
      BY <2>2 DEF Laid
    <3> QED
      BY <2>2, <3>1 DEF OneByOne
  <2> QED
    BY <2>1, <2>2 DEF Laid
<1> QED
  BY <1>1, <1>2, <1>3 DEF OneByOne

\* What is laid out begins with a message unless it is empty.
LEMMA LaidBegins ==
    ASSUME NEW p \in Laid
    PROVE  p = NoPair \/ \E m \in BrokerMessages, q \in Laid : p = LedBy(m, q)
<1> DEFINE S == {x \in Laid : x = NoPair \/ \E m \in BrokerMessages, q \in Laid : x = LedBy(m, q)}
<1>1. S \in SUBSET Pairs
  BY LaidWhole
<1>2. OneByOne(S)
  <2>1. NoPair \in S
    BY LaidWhole DEF OneByOne
  <2>2. ASSUME NEW m \in BrokerMessages, NEW q \in S
        PROVE  LedBy(m, q) \in S
    BY LaidWhole DEF OneByOne
  <2> HIDE DEF S
  <2> QED
    BY <2>1, <2>2 DEF OneByOne
<1> HIDE DEF S
<1>3. p \in S
  BY <1>1, <1>2 DEF Laid
<1> QED
  BY <1>3 DEF S

\* It does not matter where messages begin.
LEMMA ThreeRuns ==
    ASSUME NEW s \in Seq(BrokerMessages), NEW t \in Seq(BrokerMessages),
           NEW u \in Seq(BrokerMessages)
    PROVE  (s \o t) \o u = s \o (t \o u)
  BY ConcatAssociative, SMTT(30)

\* A message may follow what is laid out.
LEMMA LaidGrows ==
    ASSUME NEW p \in Laid, NEW m \in BrokerMessages
    PROVE  <<p[1] \o Bytes(m), p[2] \o <<m>>>> \in Laid
<1> DEFINE Followed(x) == <<x[1] \o Bytes(m), x[2] \o <<m>>>>
           S == {x \in Laid : Followed(x) \in Laid}
<1>0. Bytes(m) \in Seq(Nat) /\ <<m>> \in Seq(BrokerMessages)
  BY BytesSize
<1>1. S \in SUBSET Pairs
  BY LaidWhole
<1>2. OneByOne(S)
  <2>1. NoPair \in S
    <3>1. LedBy(m, NoPair) \in Laid /\ NoPair \in Laid
      BY LaidWhole DEF OneByOne
    <3>2. /\ Bytes(m) \o <<>> = Bytes(m) /\ <<>> \o Bytes(m) = Bytes(m)
      BY <1>0, ConcatEmptySeq
    <3>3. <<m>> \o <<>> = <<m>> /\ <<>> \o <<m>> = <<m>>
      BY <1>0, ConcatEmptySeq
    <3>4. NoPair[1] = <<>> /\ NoPair[2] = <<>>
      BY DEF NoPair
    <3>5. Followed(NoPair) = LedBy(m, NoPair)
      BY <3>2, <3>3, <3>4 DEF LedBy
    <3> QED
      BY <3>1, <3>5
  <2>2. ASSUME NEW n \in BrokerMessages, NEW q \in S
        PROVE  LedBy(n, q) \in S
    <3>1. q \in Laid /\ Followed(q) \in Laid
      OBVIOUS
    <3>2. LedBy(n, q) \in Laid /\ LedBy(n, Followed(q)) \in Laid
      BY <3>1, LaidWhole DEF OneByOne
    <3>3. /\ Bytes(n) \in Seq(Nat) /\ q[1] \in Seq(Nat) /\ q[2] \in Seq(BrokerMessages)
          /\ <<n>> \in Seq(BrokerMessages)
      BY <3>1, BytesSize, LaidWhole, PairParts
    <3>4. (Bytes(n) \o q[1]) \o Bytes(m) = Bytes(n) \o (q[1] \o Bytes(m))
      BY <1>0, <3>3, ThreeParts
    <3>5. (<<n>> \o q[2]) \o <<m>> = <<n>> \o (q[2] \o <<m>>)
      BY <1>0, <3>3, ThreeRuns
    <3>6. Followed(LedBy(n, q)) = LedBy(n, Followed(q))
      BY <3>4, <3>5 DEF LedBy
    <3> QED
      BY <3>2, <3>6
  <2> HIDE DEF S
  <2> QED
    BY <2>1, <2>2 DEF OneByOne
<1> HIDE DEF S
<1>3. p \in S
  BY <1>1, <1>2 DEF Laid
<1> QED
  BY <1>3 DEF S

\* The bytes b begin with the first of the messages that are pending.
Starts(b, pending) ==
    \E m \in BrokerMessages, q \in Laid :
        /\ b = Bytes(m) \o q[1] /\ pending = <<m>> \o q[2]
        /\ q[1] \in Seq(Nat) /\ q[2] \in Seq(BrokerMessages) /\ q = <<q[1], q[2]>>

\* Where bytes are left a message is next.
LEMMA LaidNext ==
    ASSUME NEW b \in Seq(Nat), NEW pending, <<b, pending>> \in Laid, b # <<>>
    PROVE  Starts(b, pending)
<1>1. <<b, pending>> # NoPair
  BY DEF NoPair
<1>2. PICK m \in BrokerMessages, q \in Laid : <<b, pending>> = LedBy(m, q)
  BY <1>1, LaidBegins
<1>3. b = Bytes(m) \o q[1] /\ pending = <<m>> \o q[2]
  BY <1>2 DEF LedBy
<1>4. q[1] \in Seq(Nat) /\ q[2] \in Seq(BrokerMessages) /\ q = <<q[1], q[2]>>
  BY LaidWhole, PairParts
<1> QED
  BY <1>3, <1>4 DEF Starts

\* The first k bytes of b and a more of s, and what is left of s.
Takes(b, s, a, k) ==
    LET all == b \o SubSeq(s, 1, a)
        left == SubSeq(s, k - Len(b) + 1, Len(s))
    IN  /\ all \in Seq(Nat) /\ Len(all) = Len(b) + a
        /\ SubSeq(all, 1, k) \in Seq(Nat) /\ Len(SubSeq(all, 1, k)) = k
        /\ left \in Seq(Nat) /\ Len(left) = Len(s) - (k - Len(b))
        /\ SubSeq(all, 1, k) \o left = b \o s

\* Nothing is lost when a part of what is there is read.
LEMMA TakesFirst ==
    ASSUME NEW b \in Seq(Nat), NEW s \in Seq(Nat), NEW a \in 0..Len(s),
           NEW k \in Len(b)..(Len(b) + a)
    PROVE  Takes(b, s, a, k)
<1> DEFINE j == k - Len(b)
           s1 == SubSeq(s, 1, j)
           s2 == SubSeq(s, j + 1, Len(s))
           a1 == SubSeq(s, 1, a)
           a2 == SubSeq(s, a + 1, Len(s))
           all == b \o a1
           x == SubSeq(all, 1, k)
           y == SubSeq(all, k + 1, Len(all))
<1>1. Len(b) \in Nat /\ Len(s) \in Nat /\ a \in Nat /\ k \in Nat /\ j \in 0..Len(s)
  OBVIOUS
<1>2. /\ s1 \in Seq(Nat) /\ s2 \in Seq(Nat) /\ Len(s1) = j /\ Len(s2) = Len(s) - j
      /\ s1 \o s2 = s
  <2> HIDE DEF j
  <2> QED
    BY <1>1, TwoParts
<1>3. a1 \in Seq(Nat) /\ a2 \in Seq(Nat) /\ Len(a1) = a /\ a1 \o a2 = s
  BY TwoParts
<1> HIDE DEF s1, s2, a1, a2
<1>4. all \in Seq(Nat) /\ Len(all) = Len(b) + a
  <2>1. all \in Seq(Nat) /\ Len(all) = Len(b) + Len(a1)
    BY <1>3, ConcatProperties
  <2> QED
    BY <1>3, <2>1
<1>5. (b \o a1) \o a2 = b \o s /\ (b \o s1) \o s2 = b \o s
  <2>1. (b \o a1) \o a2 = b \o (a1 \o a2)
    BY <1>3, ThreeParts
  <2>2. (b \o s1) \o s2 = b \o (s1 \o s2)
    BY <1>2, ThreeParts
  <2> QED
    BY <1>2, <1>3, <2>1, <2>2
<1>6. k \in 0..Len(all)
  <2> HIDE DEF all
  <2> QED
    BY <1>1, <1>4
<1> HIDE DEF all
<1>7. x \in Seq(Nat) /\ y \in Seq(Nat) /\ Len(x) = k /\ x \o y = all
  BY <1>4, <1>6, TwoParts
<1> HIDE DEF x, y
<1>8. x \o (y \o a2) = b \o s
  <2>1. (x \o y) \o a2 = x \o (y \o a2)
    <3>1. x \in Seq(Nat) /\ y \in Seq(Nat) /\ a2 \in Seq(Nat)
      BY <1>3, <1>7
    <3> QED
      BY <3>1, ThreeParts
  <2> QED
    BY <1>5, <1>7, <2>1 DEF all
<1>9. b \o s1 \in Seq(Nat) /\ Len(b \o s1) = k
  <2>1. b \o s1 \in Seq(Nat) /\ Len(b \o s1) = Len(b) + Len(s1)
    BY <1>2, ConcatProperties
  <2>2. Len(b) + j = k
    BY <1>1
  <2> QED
    BY <1>2, <2>1, <2>2
<1>10. y \o a2 \in Seq(Nat)
  BY <1>3, <1>7, ConcatProperties
<1>11. x = b \o s1
  <2> DEFINE u == b \o s1
             v == y \o a2
  <2>1. x \o v = u \o s2 /\ Len(x) = Len(u)
    BY <1>5, <1>7, <1>8, <1>9
  <2>2. u \in Seq(Nat) /\ v \in Seq(Nat)
    BY <1>9, <1>10
  <2> HIDE DEF u, v
  <2>3. x = u
    BY <1>2, <1>7, <2>1, <2>2, SameParts
  <2> QED
    BY <2>3 DEF u
<1>12. x \o s2 = b \o s
  BY <1>5, <1>11
<1>13. all \in Seq(Nat) /\ Len(all) = Len(b) + a /\ x \in Seq(Nat) /\ Len(x) = k
       /\ s2 \in Seq(Nat) /\ Len(s2) = Len(s) - j /\ x \o s2 = b \o s
  BY <1>2, <1>4, <1>7, <1>12
<1> QED
  BY <1>13 DEF Takes, all, x, s2, a1, j

\* The publish m is read in b, whole or its first; what is left of it is in z, before t.
Part(m, b, z, t) ==
    \E first \in Seq(Nat), rest \in Seq(Nat) :
        /\ m.data = first \o rest /\ z = rest \o t
        /\ get_total_length(b) - Len(b) = Len(rest)
        /\ get_publish_topic(b).found
        /\ PublishIn(b) = [m EXCEPT !.data = first]

\* A publish is read so.
LEMMA PublishPart ==
    ASSUME NEW m \in BrokerMessages, m.type = "PUBLISH",
           NEW b \in Seq(Nat), NEW z \in Seq(Nat), NEW t \in Seq(Nat), b \o z = Bytes(m) \o t,
           1 + DigitsIn(m) <= Len(b), Len(b) <= Len(Bytes(m)), Enough(Len(b), m)
    PROVE  Part(m, b, z, t)
<1> DEFINE d == Bytes(m)
           start == 1 + DigitsIn(m) + Len(BodyIn(m))
           n == Len(b) - start
           first == SubSeq(m.data, 1, n)
           rest == SubSeq(m.data, n + 1, Len(m.data))
<1>1. Alike(b, d)
  BY BytesSize, LikeFirst
<1>2. get_total_length(b) = Len(d)
  BY <1>1, HeaderSeen
<1>3. /\ d \in Seq(Nat) /\ DigitsIn(m) \in 1..4 /\ BodyIn(m) \in Seq(Nat) /\ DataIn(m) = m.data
      /\ m.data \in Seq(Nat) /\ Len(d) = start + Len(m.data) /\ At(d, start, m.data)
  <2>1. DataIn(m) = m.data
    BY DEF DataIn
  <2>2. m.data \in Seq(Nat)
    BY BrokerMessage
  <2> QED
    BY <2>1, <2>2, BytesSize, BytesBuilt, BytesFramed DEF Framed
<1>4. 5 + Len(BodyIn(m)) <= in_buffer_length /\ in_buffer_length \in Nat
  <2>1. BodyIn(m) = PublishBody(m.topic, m.qos, m.id)
    BY DEF BodyIn
  <2> QED
    BY <2>1, BrokerMessage, InputAssumption
<1>5. Len(b) >= Len(d) \/ Len(b) >= in_buffer_length
  BY DEF Enough
<1> DEFINE c == Len(BodyIn(m))
           g == DigitsIn(m)
           u == Len(m.data)
           l == Len(b)
           e == Len(d)
<1>6. n \in 0..u /\ start \in Nat /\ l = start + n
  <2>1. c \in Nat /\ u \in Nat /\ l \in Nat /\ e \in Nat
    <3>1. d \in Seq(Nat) /\ BodyIn(m) \in Seq(Nat) /\ m.data \in Seq(Nat)
      BY <1>3
    <3> HIDE DEF d
    <3> QED
      BY <3>1
  <2>2. e = 1 + g + c + u /\ start = 1 + g + c /\ n = l - start /\ g \in 1..4
    BY <1>3
  <2>3. (l >= e \/ l >= in_buffer_length) /\ l <= e /\ 5 + c <= in_buffer_length
    BY <1>4, <1>5
  <2> HIDE DEF c, g, u, l, e, n, start
  <2>4. start \in Nat /\ start <= 5 + c /\ e = start + u
    BY <2>1, <2>2
  <2>5. l >= start
    BY <1>4, <2>1, <2>3, <2>4
  <2>6. n \in Nat /\ l = start + n
    BY <2>1, <2>2, <2>4, <2>5
  <2>7. n <= u
    BY <2>1, <2>3, <2>4, <2>6
  <2> QED
    BY <2>1, <2>4, <2>6, <2>7
<1>7. /\ first \in Seq(Nat) /\ rest \in Seq(Nat) /\ Len(first) = n /\ Len(rest) = u - n
      /\ first \o rest = m.data
  <2> HIDE DEF n
  <2> QED
    BY <1>3, <1>6, TwoParts DEF u
<1>8. get_publish_topic(b).found /\ PublishIn(b) = [m EXCEPT !.data = first]
  <2>1. l = 1 + g + c + n /\ n \in 0..Len(m.data)
    BY <1>6
  <2> HIDE DEF n
  <2> QED
    BY <1>1, <2>1, PublishSeen DEF l, g, c
<1>9. e - l = Len(rest)
  <2>1. e = start + u /\ u \in Nat
    BY <1>3
  <2> HIDE DEF e, l, start, u, n, rest
  <2> QED
    BY <1>6, <1>7, <2>1
<1>10. z = rest \o t
  <2> HIDE DEF first, n, start
  <2>1. At(d, start + Len(first), rest)
    <3>1. At(d, start, first \o rest)
      BY <1>3, <1>7
    <3> HIDE DEF rest, d
    <3> QED
      BY <1>3, <1>6, <1>7, <3>1, AtParts
  <2>2. start + Len(first) = l /\ l \in 0..e /\ e = l + Len(rest)
    <3>1. l \in Nat /\ e \in Nat /\ l <= e
      BY <1>3
    <3> HIDE DEF l, e, rest, u
    <3> QED
      BY <1>6, <1>7, <1>9, <3>1
  <2> DEFINE d1 == SubSeq(d, 1, l)
             d2 == SubSeq(d, l + 1, e)
  <2> HIDE DEF rest
  <2>3. d2 = rest
    <3>1. At(d, l, rest) /\ l \in Nat
      BY <2>1, <2>2
    <3>2. SubSeq(d, l + 1, l + Len(rest)) = rest
      BY <1>3, <1>7, <3>1, AtCut
    <3> QED
      BY <2>2, <3>2
  <2>4. d1 \in Seq(Nat) /\ Len(d1) = l /\ d1 \o d2 = d
    BY <1>3, <2>2, TwoParts DEF e
  <2> HIDE DEF d1, d2, d
  <2>5. d \o t = d1 \o (rest \o t)
    BY <1>7, <2>3, <2>4, ThreeParts
  <2>6. rest \o t \in Seq(Nat)
    BY <1>7, ConcatProperties
  <2>7. b \o z = d1 \o (rest \o t) /\ Len(b) = Len(d1)
    BY <2>4, <2>5 DEF d, l
  <2> DEFINE v == rest \o t
  <2>8. z = v
    <3>1. v \in Seq(Nat) /\ b \o z = d1 \o v
      BY <2>6, <2>7
    <3> HIDE DEF v
    <3> QED
      BY <2>4, <2>7, <3>1, SameParts
  <2> QED
    BY <2>8
<1> HIDE DEF first, rest
<1>11. get_total_length(b) - Len(b) = Len(rest)
  BY <1>2, <1>9 DEF d
<1> QED
  BY <1>7, <1>8, <1>10, <1>11 DEF Part

BadReasons == {"header", "topic", "too big", "suback", "no CONNACK"}

InputTypes ==
    /\ mode \in {"closed", "connecting", "polling", "delivering"}
    /\ reason \notin BadReasons
    /\ in_buffer \in Seq(Nat) /\ stream \in Seq(Nat) /\ arrived \in 0..Len(stream)
    /\ sent \in Seq(BrokerMessages) /\ delivered \in Seq(BrokerMessages)
    /\ sent # <<>> => sent[1].type = "CONNACK"

\* A publish is handed on, its first so far; the rest is next, and more messages behind it.
Amid(pending) ==
    /\ in_buffer = <<>>
    /\ \E m \in BrokerMessages, q \in Laid, first \in Seq(Nat), rest \in Seq(Nat) :
          /\ m.type = "PUBLISH" /\ m.data = first \o rest /\ Len(rest) > 0
          /\ pending = <<m>> \o q[2] /\ stream = rest \o q[1]
          /\ message = [publish |-> [m EXCEPT !.data = first], rest |-> Len(rest),
                        total |-> Len(m.data)]

\* The messages that were not acted on are those that are to be read.
Ahead(pending) ==
    /\ sent = delivered \o pending
    /\ mode = "connecting" => delivered = <<>>
    /\ mode \in {"connecting", "polling"} => <<in_buffer \o stream, pending>> \in Laid
    /\ mode = "delivering" => Amid(pending)

InputSound == InputTypes /\ \E pending \in Seq(BrokerMessages) : Ahead(pending)

InputInv == swallowed \/ InputSound

-----------------------------------------------------------------------------
\* A connection that was opened is sound, and so is one that was not.
LEMMA NothingSent ==
    ASSUME mode' \in {"closed", "connecting"}, reason' = "none", in_buffer' = <<>>, stream' = <<>>,
           arrived' = 0, sent' = <<>>, delivered' = <<>>
    PROVE  InputSound'
<1>1. <<>> \in Seq(Nat) /\ <<>> \in Seq(BrokerMessages) /\ Len(<<>>) = 0 /\ 0 \in 0..0
  OBVIOUS
<1>2. <<>> \o <<>> = <<>>
  BY <1>1, ConcatEmptySeq
<1>3. <<<<>>, <<>>>> \in Laid
  BY LaidWhole DEF OneByOne, NoPair
<1>4. InputTypes'
  BY <1>1 DEF InputTypes, BadReasons
<1>5. Ahead(<<>>)'
  BY <1>2, <1>3 DEF Ahead
<1> QED
  BY <1>1, <1>4, <1>5 DEF InputSound

\* The broker's next message goes behind.
LEMMA WritesKeep == InputSound /\ BrokerWrites => InputSound'
<1> SUFFICES ASSUME InputSound, BrokerWrites PROVE InputSound'
  OBVIOUS
<1>1. PICK pending \in Seq(BrokerMessages) : Ahead(pending)
  BY DEF InputSound
<1>2. PICK m \in BrokerMessages : /\ sent = <<>> <=> m.type = "CONNACK"
                                  /\ sent' = Append(sent, m)
                                  /\ stream' = stream \o Bytes(m)
  BY DEF BrokerWrites
<1> DEFINE more == pending \o <<m>>
<1>3. UNCHANGED <<mode, in_buffer, message, arrived, delivered, reason>>
  BY DEF BrokerWrites
<1>4. Bytes(m) \in Seq(Nat) /\ <<m>> \in Seq(BrokerMessages)
  BY BytesSize
<1>5. in_buffer \in Seq(Nat) /\ stream \in Seq(Nat) /\ delivered \in Seq(BrokerMessages)
      /\ sent \in Seq(BrokerMessages) /\ arrived \in 0..Len(stream)
  BY DEF InputSound, InputTypes
<1>6. InputTypes'
  <2>1. stream' \in Seq(Nat) /\ Len(stream') = Len(stream) + Len(Bytes(m))
    BY <1>2, <1>4, <1>5, ConcatProperties
  <2>2. arrived \in 0..Len(stream')
    BY <1>4, <1>5, <2>1
  <2>3. sent' \in Seq(BrokerMessages) /\ sent'[1].type = "CONNACK"
    <3>1. /\ sent' \in Seq(BrokerMessages) /\ (\A i \in 1..Len(sent) : sent'[i] = sent[i])
          /\ sent'[Len(sent) + 1] = m
      BY <1>2, <1>5, AppendProperties
    <3>2. CASE sent = <<>>
      <4>1. Len(sent) + 1 = 1
        BY <3>2
      <4> QED
        BY <1>2, <3>1, <3>2, <4>1
    <3>3. CASE sent # <<>>
      <4>1. 1 \in 1..Len(sent) /\ sent[1].type = "CONNACK"
        BY <1>5, <3>3, EmptySeq DEF InputSound, InputTypes
      <4> QED
        BY <3>1, <4>1
    <3> QED
      BY <3>2, <3>3
  <2> QED
    BY <1>3, <2>1, <2>2, <2>3 DEF InputSound, InputTypes
<1>7. sent' = delivered \o more
  <2>1. sent' = sent \o <<m>>
    BY <1>2, <1>5, AppendIsConcat
  <2>2. (delivered \o pending) \o <<m>> = delivered \o (pending \o <<m>>)
    BY <1>4, <1>5, ThreeRuns
  <2> QED
    BY <1>1, <2>1, <2>2 DEF Ahead
<1>8. more \in Seq(BrokerMessages)
  BY <1>4, ConcatProperties
<1>9. ASSUME mode \in {"connecting", "polling"} PROVE <<in_buffer \o stream', more>> \in Laid
  <2> DEFINE p == <<in_buffer \o stream, pending>>
  <2>1. p \in Laid /\ p[1] = in_buffer \o stream /\ p[2] = pending
    BY <1>1, <1>9 DEF Ahead
  <2> HIDE DEF p
  <2>2. <<p[1] \o Bytes(m), p[2] \o <<m>>>> \in Laid
    BY <2>1, LaidGrows
  <2>3. (in_buffer \o stream) \o Bytes(m) = in_buffer \o (stream \o Bytes(m))
    BY <1>4, <1>5, ThreeParts
  <2> QED
    BY <1>2, <2>1, <2>2, <2>3
<1>10. ASSUME mode = "delivering" PROVE Amid(more)'
  <2>1. in_buffer = <<>>
    BY <1>1, <1>10 DEF Ahead, Amid
  <2>2. PICK n \in BrokerMessages, q \in Laid, first \in Seq(Nat), rest \in Seq(Nat) :
          /\ n.type = "PUBLISH" /\ n.data = first \o rest /\ Len(rest) > 0
          /\ pending = <<n>> \o q[2] /\ stream = rest \o q[1]
          /\ message = [publish |-> [n EXCEPT !.data = first], rest |-> Len(rest),
                        total |-> Len(n.data)]
    BY <1>1, <1>10 DEF Ahead, Amid
  <2> DEFINE p == <<q[1] \o Bytes(m), q[2] \o <<m>>>>
  <2>3. p \in Laid
    BY LaidGrows
  <2>4. q[1] \in Seq(Nat) /\ q[2] \in Seq(BrokerMessages) /\ <<n>> \in Seq(BrokerMessages)
    BY LaidWhole, PairParts
  <2>5. more = <<n>> \o p[2]
    BY <1>4, <2>2, <2>4, ThreeRuns
  <2>6. stream' = rest \o p[1]
    BY <1>2, <1>4, <2>2, <2>4, ThreeParts
  <2> HIDE DEF p, more
  <2> QED
    BY <1>3, <2>1, <2>2, <2>3, <2>5, <2>6 DEF Amid
<1> HIDE DEF more
<1>11. Ahead(more)'
  BY <1>1, <1>3, <1>7, <1>9, <1>10 DEF Ahead
<1> QED
  BY <1>6, <1>8, <1>11 DEF InputSound

\* The next message was acted on.
LEMMA ActedOn ==
    ASSUME InputTypes, NEW m \in BrokerMessages, NEW q \in Laid,
           sent = delivered \o (<<m>> \o q[2]),
           delivered' = Append(delivered, m), in_buffer' = <<>>, stream' = q[1],
           arrived' \in 0..Len(q[1]), sent' = sent,
           mode' \in {"polling", "closed"}, reason' \notin BadReasons
    PROVE  InputSound'
<1>1. q = <<q[1], q[2]>> /\ q[1] \in Seq(Nat) /\ q[2] \in Seq(BrokerMessages)
  BY LaidWhole, PairParts
<1>2. delivered \in Seq(BrokerMessages) /\ <<m>> \in Seq(BrokerMessages)
  BY DEF InputTypes
<1>3. delivered' \in Seq(BrokerMessages) /\ delivered' = delivered \o <<m>>
  BY <1>2, AppendProperties, AppendIsConcat
<1>4. InputTypes'
  BY <1>1, <1>3 DEF InputTypes
<1>5. sent' = delivered' \o q[2]
  <2>1. (delivered \o <<m>>) \o q[2] = delivered \o (<<m>> \o q[2])
    BY <1>1, <1>2, ThreeRuns
  <2> QED
    BY <1>3, <2>1
<1>6. <<>> \o q[1] = q[1]
  BY <1>1, ConcatEmptySeq
<1>7. Ahead(q[2])'
  BY <1>1, <1>5, <1>6 DEF Ahead
<1> QED
  BY <1>1, <1>4, <1>7 DEF InputSound

\* A publish was answered.
LEMMA AnsweredKeeps ==
    ASSUME InputTypes, NEW m \in BrokerMessages, NEW q \in Laid,
           sent = delivered \o (<<m>> \o q[2]),
           Answered(m), in_buffer' = <<>>, stream' = q[1], arrived' \in 0..Len(q[1]), sent' = sent
    PROVE  InputSound'
<1>1. delivered' = Append(delivered, m)
  BY DEF Answered
<1>2. mode' \in {"polling", "closed"} /\ reason' \notin BadReasons
  <2>1. CASE Stay
    BY <2>1 DEF Stay, InputTypes
  <2>2. CASE CloseFor(IF m.qos > 0 THEN "write" ELSE "built")
    <3>1. mode' = "closed" /\ reason' \in {"write", "built"}
      BY <2>2 DEF CloseFor
    <3> QED
      BY <3>1 DEF BadReasons
  <2> QED
    BY <2>1, <2>2 DEF Answered
<1> QED
  BY <1>1, <1>2, ActedOn

\* More of a publish that is longer than in_buffer is read.
LEMMA MoreKeeps == InputSound /\ DeliverMore => InputSound'
<1> SUFFICES ASSUME InputSound, DeliverMore PROVE InputSound'
  OBVIOUS
<1>1. PICK pending \in Seq(BrokerMessages) : Ahead(pending)
  BY DEF InputSound
<1>2. mode = "delivering" /\ arrived > 0 /\ InputTypes
  BY DEF DeliverMore, InputSound
<1>3. PICK m \in BrokerMessages, q \in Laid, first \in Seq(Nat), rest \in Seq(Nat) :
          /\ m.type = "PUBLISH" /\ m.data = first \o rest /\ Len(rest) > 0
          /\ pending = <<m>> \o q[2] /\ stream = rest \o q[1]
          /\ message = [publish |-> [m EXCEPT !.data = first], rest |-> Len(rest),
                        total |-> Len(m.data)]
  BY <1>1, <1>2 DEF Ahead, Amid
<1>4. sent = delivered \o (<<m>> \o q[2]) /\ in_buffer = <<>>
  BY <1>1, <1>2, <1>3 DEF Ahead, Amid
<1>5. q = <<q[1], q[2]>> /\ q[1] \in Seq(Nat) /\ q[2] \in Seq(BrokerMessages)
  BY LaidWhole, PairParts
<1> DEFINE k == Min({arrived, message.rest, in_buffer_length})
           r1 == SubSeq(rest, 1, k)
           r2 == SubSeq(rest, k + 1, Len(rest))
           left == r2 \o q[1]
<1>6. k \in 1..Len(rest) /\ k <= arrived /\ arrived \in Nat
  <2>1. message.rest = Len(rest)
    BY <1>3
  <2>2. arrived \in Nat /\ Len(rest) \in Nat /\ in_buffer_length \in Nat /\ in_buffer_length > 0
    BY <1>2, InputAssumption DEF InputTypes, MQTT_MAX_FIXED_HEADER_SIZE
  <2>3. /\ k \in {arrived, Len(rest), in_buffer_length}
        /\ k <= arrived /\ k <= Len(rest) /\ k <= in_buffer_length
    BY <2>1, <2>2, LeastOfThree
  <2> HIDE DEF k
  <2> QED
    BY <1>2, <1>3, <2>2, <2>3
<1>7. /\ Take(k)
      /\ IF k < message.rest
         THEN /\ message' = [message EXCEPT
                     !.publish = [message.publish EXCEPT !.data = @ \o SubSeq(stream, 1, k)],
                     !.rest = @ - k]
              /\ UNCHANGED <<mode, delivered, reason>>
         ELSE /\ message' = Idle
              /\ Answered([message.publish EXCEPT !.data = @ \o SubSeq(stream, 1, k)])
      /\ UNCHANGED <<in_buffer, sent, swallowed>>
  BY DEF DeliverMore
<1> HIDE DEF k
<1>8. /\ r1 \in Seq(Nat) /\ r2 \in Seq(Nat) /\ Len(r1) = k /\ Len(r2) = Len(rest) - k
      /\ r1 \o r2 = rest
  BY <1>6, TwoParts
<1> HIDE DEF r1, r2
<1>9. left \in Seq(Nat) /\ stream = r1 \o left /\ Len(left) = Len(r2) + Len(q[1])
  <2>1. left \in Seq(Nat) /\ Len(left) = Len(r2) + Len(q[1])
    BY <1>5, <1>8, ConcatProperties
  <2>2. (r1 \o r2) \o q[1] = r1 \o (r2 \o q[1])
    <3>1. r1 \in Seq(Nat) /\ r2 \in Seq(Nat) /\ q[1] \in Seq(Nat)
      BY <1>5, <1>8
    <3> QED
      BY <3>1, ThreeParts
  <2> QED
    BY <1>3, <1>8, <2>1, <2>2
<1> HIDE DEF left
<1>10. /\ Len(r1 \o left) = Len(r1) + Len(left)
       /\ SubSeq(stream, 1, k) = r1 /\ stream' = left /\ arrived' \in 0..Len(left)
  <2>1. /\ SubSeq(r1 \o left, 1, Len(r1)) = r1 /\ Len(r1 \o left) = Len(r1) + Len(left)
        /\ SubSeq(r1 \o left, Len(r1) + 1, Len(r1 \o left)) = left
    BY <1>8, <1>9, TakenApart
  <2>2. SubSeq(stream, 1, k) = r1 /\ SubSeq(stream, k + 1, Len(stream)) = left
    BY <1>8, <1>9, <2>1
  <2>3. stream' = left /\ arrived' = arrived - k
    BY <1>7, <2>2 DEF Take
  <2>4. arrived \in 0..Len(stream) /\ Len(stream) = k + Len(left)
    BY <1>2, <1>8, <1>9, <2>1 DEF InputTypes
  <2>5. arrived - k \in 0..Len(left)
    BY <1>6, <1>9, <2>4
  <2> QED
    BY <2>1, <2>2, <2>3, <2>5
<1> DEFINE so == first \o r1
           handed == [m EXCEPT !.data = so]
<1>11. so \in Seq(Nat) /\ m.data = so \o r2
  <2>1. (first \o r1) \o r2 = first \o (r1 \o r2)
    BY <1>8, ThreeParts
  <2> QED
    BY <1>3, <1>8, <2>1, ConcatProperties
<1>12. [message.publish EXCEPT !.data = @ \o SubSeq(stream, 1, k)] = handed
  <2>1. /\ m = [type |-> "PUBLISH", topic |-> m.topic, data |-> m.data, qos |-> m.qos,
                id |-> m.id]
    BY <1>3, BrokerMessage
  <2>2. message.publish = [m EXCEPT !.data = first] /\ message.publish.data = first
    BY <1>3, <2>1
  <2> HIDE DEF so
  <2>3. [[m EXCEPT !.data = first] EXCEPT !.data = so] = [m EXCEPT !.data = so]
    BY <2>1
  <2>4. [message.publish EXCEPT !.data = @ \o SubSeq(stream, 1, k)]
            = [message.publish EXCEPT !.data = message.publish.data \o SubSeq(stream, 1, k)]
    OBVIOUS
  <2>5. message.publish.data \o SubSeq(stream, 1, k) = so
    BY <1>10, <2>2 DEF so
  <2> QED
    BY <2>2, <2>3, <2>4, <2>5
<1> HIDE DEF so
<1>13. message.rest = Len(rest)
  BY <1>3
<1>14. CASE k < Len(rest)
  <2>1. message' = [message EXCEPT !.publish = handed, !.rest = @ - k]
    BY <1>7, <1>12, <1>13, <1>14
  <2>2. message' = [publish |-> handed, rest |-> Len(rest) - k, total |-> Len(m.data)]
    BY <1>3, <2>1
  <2>3. Len(r2) > 0 /\ Len(rest) - k = Len(r2)
    BY <1>6, <1>8, <1>14
  <2>4. UNCHANGED <<mode, delivered, reason, in_buffer, sent>>
    BY <1>7, <1>13, <1>14
  <2>5. stream' = r2 \o q[1]
    BY <1>10 DEF left
  <2>6. Amid(pending)'
    BY <1>3, <1>4, <1>8, <1>11, <2>2, <2>3, <2>4, <2>5 DEF Amid
  <2>7. Ahead(pending)'
    BY <1>1, <1>2, <2>4, <2>6 DEF Ahead
  <2>8. InputTypes'
    BY <1>2, <1>9, <1>10, <2>4 DEF InputTypes
  <2> QED
    BY <2>7, <2>8 DEF InputSound
<1>15. CASE ~(k < Len(rest))
  <2>1. Answered(handed) /\ UNCHANGED <<in_buffer, sent>>
    BY <1>7, <1>12, <1>13, <1>15
  <2>2. r2 = <<>>
    <3>1. Len(r2) = 0
      BY <1>6, <1>8, <1>15
    <3> QED
      BY <1>8, <3>1, EmptySeq
  <2>3. m.data = so
    BY <1>11, <2>2, ConcatEmptySeq
  <2>4. handed = m
    <3>1. m = [type |-> "PUBLISH", topic |-> m.topic, data |-> m.data, qos |-> m.qos,
               id |-> m.id]
      BY <1>3, BrokerMessage
    <3> QED
      BY <2>3, <3>1
  <2>5. left = q[1]
    BY <1>5, <2>2, ConcatEmptySeq DEF left
  <2>6. in_buffer' = <<>>
    BY <1>4, <2>1
  <2> HIDE DEF handed
  <2> QED
    BY <1>2, <1>4, <1>10, <2>1, <2>4, <2>5, <2>6, AnsweredKeeps
<1> QED
  BY <1>14, <1>15

\* A message of the broker, or the first of a publish, is in in_buffer; z was not read.
LEMMA ProcessKeeps ==
    ASSUME InputTypes, mode \in {"connecting", "polling"}, mode = "connecting" => delivered = <<>>,
           NEW m \in BrokerMessages, NEW q \in Laid, sent = delivered \o (<<m>> \o q[2]),
           NEW b \in Seq(Nat), NEW z \in Seq(Nat), b \o z = Bytes(m) \o q[1],
           1 + DigitsIn(m) <= Len(b), Len(b) <= Len(Bytes(m)), Enough(Len(b), m),
           stream' = z, arrived' \in 0..Len(z), sent' = sent,
           IF mode = "connecting" THEN Connected(b) ELSE Process(b)
    PROVE  InputSound'
<1>1. q = <<q[1], q[2]>> /\ q[1] \in Seq(Nat) /\ q[2] \in Seq(BrokerMessages)
  BY LaidWhole, PairParts
<1>2. Bytes(m) \in Seq(Nat) /\ get_type(b) = m.type
  <2>1. Bytes(m) \in Seq(Nat)
    BY BytesSize
  <2>2. Alike(b, Bytes(m))
    BY <1>1, <2>1, LikeFirst
  <2> QED
    BY <2>1, <2>2, HeaderSeen
<1>3. mode = "connecting" => m.type = "CONNACK"
  <2> SUFFICES ASSUME mode = "connecting" PROVE m.type = "CONNACK"
    OBVIOUS
  <2>1. delivered = <<>>
    OBVIOUS
  <2>2. <<m>> \in Seq(BrokerMessages) /\ Len(<<m>>) = 1 /\ <<m>>[1] = m
    OBVIOUS
  <2> DEFINE came == <<m>> \o q[2]
  <2>3. came \in Seq(BrokerMessages) /\ came[1] = m /\ Len(came) = 1 + Len(q[2])
    <3>1. 1 \in 1 .. Len(<<m>>) + Len(q[2]) /\ 1 <= Len(<<m>>)
      BY <1>1, <2>2
    <3> QED
      BY <1>1, <2>2, <3>1, ConcatProperties
  <2> HIDE DEF came
  <2>4. sent = came
    <3>1. sent = delivered \o came
      BY DEF came
    <3> QED
      BY <2>1, <2>3, <3>1, ConcatEmptySeq
  <2>5. sent # <<>>
    <3>1. Len(sent) # 0
      BY <1>1, <2>3, <2>4
    <3> QED
      BY <3>1
  <2> QED
    BY <2>3, <2>4, <2>5 DEF InputTypes
<1>4. CASE m.type = "PUBLISH"
  <2>1. mode = "polling" /\ Deliver(b)
    BY <1>2, <1>3, <1>4 DEF Process
  <2>2. PICK first \in Seq(Nat), rest \in Seq(Nat) :
              /\ m.data = first \o rest /\ z = rest \o q[1]
              /\ get_total_length(b) - Len(b) = Len(rest)
              /\ get_publish_topic(b).found
              /\ PublishIn(b) = [m EXCEPT !.data = first]
    <3>1. Part(m, b, z, q[1])
      BY <1>1, <1>4, PublishPart
    <3> QED
      BY <3>1 DEF Part
  <2>3. m = [type |-> "PUBLISH", topic |-> m.topic, data |-> m.data, qos |-> m.qos, id |-> m.id]
    BY <1>4, BrokerMessage
  <2>4. IF Len(rest) > 0
        THEN /\ mode' = "delivering" /\ in_buffer' = <<>>
             /\ message' = [publish |-> [m EXCEPT !.data = first], rest |-> Len(rest),
                            total |-> Len([m EXCEPT !.data = first].data) + Len(rest)]
             /\ UNCHANGED <<delivered, reason>>
        ELSE in_buffer' = <<>> /\ Answered([m EXCEPT !.data = first])
    BY <2>1, <2>2 DEF Deliver
  <2>5. CASE Len(rest) > 0
    <3>1. [m EXCEPT !.data = first].data = first
      BY <2>3
    <3>2. Len(first) + Len(rest) = Len(m.data)
      BY <2>2, ConcatProperties
    <3>3. message' = [publish |-> [m EXCEPT !.data = first], rest |-> Len(rest),
                      total |-> Len(m.data)]
      BY <2>4, <2>5, <3>1, <3>2
    <3>4. mode' = "delivering" /\ in_buffer' = <<>> /\ UNCHANGED <<delivered, reason>>
      BY <2>4, <2>5
    <3> DEFINE pending == <<m>> \o q[2]
    <3>5. Amid(pending)'
      BY <1>4, <2>2, <2>5, <3>3, <3>4 DEF Amid
    <3>6. pending \in Seq(BrokerMessages)
      <4>1. <<m>> \in Seq(BrokerMessages)
        OBVIOUS
      <4> QED
        BY <1>1, <4>1, ConcatProperties
    <3>7. Ahead(pending)'
      BY <3>4, <3>5 DEF Ahead
    <3>8. InputTypes'
      <4>1. <<>> \in Seq(Nat)
        OBVIOUS
      <4> QED
        BY <3>4, <4>1 DEF InputTypes
    <3> HIDE DEF pending
    <3> QED
      BY <3>6, <3>7, <3>8 DEF InputSound
  <2>6. CASE ~(Len(rest) > 0)
    <3>1. rest = <<>>
      <4>1. Len(rest) = 0
        BY <2>6
      <4> QED
        BY <4>1, EmptySeq
    <3>2. m.data = first /\ z = q[1]
      BY <1>1, <2>2, <3>1, ConcatEmptySeq
    <3>3. [m EXCEPT !.data = first] = m
      BY <2>3, <3>2
    <3>4. in_buffer' = <<>> /\ Answered(m)
      BY <2>4, <2>6, <3>3
    <3> QED
      BY <3>2, <3>4, AnsweredKeeps
  <2> QED
    BY <2>5, <2>6
<1>5. CASE m.type # "PUBLISH"
  <2>1. Len(b) = Len(Bytes(m))
    <3>1. Len(b) >= Len(Bytes(m))
      BY <1>5 DEF Enough
    <3> QED
      BY <1>2, <3>1
  <2>2. b = Bytes(m) /\ z = q[1]
    BY <1>1, <1>2, <2>1, SameParts
  <2>3. OtherIn(b) = m /\ (m.type = "SUBACK" => get_suback_data(b).found)
    BY <1>5, <2>2, OtherSeen
  <2>4. CASE mode = "connecting"
    <3>1. in_buffer' = <<>> /\ delivered' = Append(delivered, m)
      BY <1>2, <1>3, <2>3, <2>4 DEF Connected
    <3>2. mode' \in {"polling", "closed"} /\ reason' \notin BadReasons
      <4>1. Stay \/ CloseFor("refused")
        BY <1>2, <1>3, <2>4 DEF Connected
      <4> QED
        BY <4>1 DEF Stay, CloseFor, BadReasons, InputTypes
    <3> QED
      BY <2>2, <3>1, <3>2, ActedOn
  <2>5. CASE mode # "connecting"
    <3>1. in_buffer' = <<>> /\ delivered' = Append(delivered, m)
      BY <1>2, <1>5, <2>3, <2>5 DEF Process
    <3>2. Stay
      BY <1>2, <1>5, <2>3, <2>5 DEF Process
    <3>3. mode' \in {"polling", "closed"} /\ reason' \notin BadReasons
      BY <3>2 DEF Stay, InputTypes
    <3> QED
      BY <2>2, <3>1, <3>3, ActedOn
  <2> QED
    BY <2>4, <2>5
<1> QED
  BY <1>4, <1>5

\* mqtt_message_receive reads on, and what is whole is acted on.
LEMMA ReadKeeps == InputSound /\ ReadMessage => swallowed' \/ InputSound'
<1> SUFFICES ASSUME InputSound, ReadMessage PROVE swallowed' \/ InputSound'
  OBVIOUS
<1>1. PICK pending \in Seq(BrokerMessages) : Ahead(pending)
  BY DEF InputSound
<1>2. InputTypes /\ mode \in {"connecting", "polling"}
  BY DEF InputSound, ReadMessage
<1>3. /\ <<in_buffer \o stream, pending>> \in Laid /\ sent = delivered \o pending
      /\ mode = "connecting" => delivered = <<>>
  BY <1>1, <1>2 DEF Ahead
<1> DEFINE j == Len(in_buffer)
           s1 == SubSeq(stream, 1, arrived)
           all == in_buffer \o s1
           got == MessageReceive(in_buffer, all)
           left(n) == SubSeq(stream, n - j + 1, Len(stream))
<1>4. /\ in_buffer \in Seq(Nat) /\ stream \in Seq(Nat) /\ arrived \in 0..Len(stream)
      /\ j \in Nat /\ arrived \in Nat
  BY <1>2 DEF InputTypes
<1>5. ASSUME NEW n \in j..(j + arrived)
      PROVE  /\ all \in Seq(Nat) /\ Len(all) = j + arrived
             /\ SubSeq(all, 1, n) \in Seq(Nat) /\ Len(SubSeq(all, 1, n)) = n
             /\ left(n) \in Seq(Nat) /\ Len(left(n)) = Len(stream) - (n - j)
             /\ SubSeq(all, 1, n) \o left(n) = in_buffer \o stream
  <2>1. Takes(in_buffer, stream, arrived, n)
    BY <1>4, <1>5, TakesFirst
  <2> QED
    BY <2>1 DEF Takes
<1>6. all \in Seq(Nat) /\ Len(all) = j + arrived /\ SubSeq(all, 1, j) = in_buffer
  <2>1. s1 \in Seq(Nat) /\ Len(s1) = arrived
    BY <1>4, FirstBytes
  <2> HIDE DEF s1
  <2> QED
    BY <1>4, <2>1, TakenApart
<1>7. /\ Take(IF got.result = "failed" THEN arrived ELSE got.length - j)
      /\ CASE got.result = "failed" ->
                /\ CloseFor(got.reason)
                /\ UNCHANGED <<in_buffer, message, delivered, swallowed>>
           [] got.result = "unfinished" ->
                /\ in_buffer' = SubSeq(all, 1, got.length)
                /\ UNCHANGED <<mode, message, delivered, reason, swallowed>>
           [] got.result = "received" ->
                \E b \in {SubSeq(all, 1, got.length)} :
                    /\ swallowed' = (swallowed \/ Len(b) > get_total_length(b))
                    /\ IF mode = "connecting" THEN Connected(b) ELSE Process(b)
      /\ UNCHANGED sent
  BY DEF ReadMessage
<1> HIDE DEF all, got, left
<1>8. ASSUME NEW n \in j..(j + arrived)
      PROVE  arrived - (n - j) \in 0..Len(left(n))
  <2>1. Len(left(n)) = Len(stream) - (n - j)
    BY <1>5
  <2> HIDE DEF j
  <2> QED
    BY <1>4, <2>1
<1>9. ASSUME NEW n \in j..(j + arrived), got = Unfinished(n)
      PROVE  InputSound'
  <2>1. got.result = "unfinished" /\ got.length = n
    BY <1>9 DEF Unfinished
  <2>2. stream' = left(n) /\ arrived' = arrived - (n - j)
    BY <1>7, <2>1 DEF Take, left
  <2>3. /\ in_buffer' = SubSeq(all, 1, n)
        /\ UNCHANGED <<mode, message, delivered, reason, sent>>
    BY <1>7, <2>1
  <2>4. in_buffer' \o stream' = in_buffer \o stream
    BY <1>5, <2>2, <2>3
  <2>5. Ahead(pending)'
    BY <1>1, <1>2, <2>3, <2>4 DEF Ahead
  <2>6. arrived' \in 0..Len(stream')
    BY <1>8, <2>2
  <2>7. InputTypes'
    BY <1>2, <1>5, <2>2, <2>3, <2>6 DEF InputTypes
  <2> QED
    BY <2>5, <2>7 DEF InputSound
<1>10. CASE all = <<>>
  <2>1. got = Unfinished(0)
    BY <1>10 DEF got, MessageReceive
  <2>2. j + arrived = 0
    BY <1>6, <1>10
  <2>3. 0 \in j..(j + arrived)
    <3> HIDE DEF j
    <3> QED
      BY <1>4, <2>2
  <2> QED
    BY <1>9, <2>1, <2>3
<1>11. CASE all # <<>>
  <2> DEFINE y == left(j + arrived)
  <2>1. y \in Seq(Nat) /\ all \o y = in_buffer \o stream
    <3>1. PICK n \in j..(j + arrived) : n = j + arrived
      <4> HIDE DEF j
      <4> QED
        BY <1>4
    <3>2. SubSeq(all, 1, n) = all
      BY <1>6, <3>1, SubSeqFull
    <3>3. left(n) \in Seq(Nat) /\ SubSeq(all, 1, n) \o left(n) = in_buffer \o stream
      BY <1>5, <3>1
    <3>4. y = left(n)
      BY <3>1
    <3> QED
      BY <3>2, <3>3, <3>4
  <2> HIDE DEF y
  <2>2. in_buffer \o stream \in Seq(Nat) /\ in_buffer \o stream # <<>>
    <3>1. in_buffer \o stream \in Seq(Nat)
      BY <1>4, ConcatProperties
    <3>2. all \o y # <<>>
      BY <1>6, <1>11, <2>1, ConcatEqualIffEmpty
    <3> QED
      BY <2>1, <3>1, <3>2
  <2>3. PICK m \in BrokerMessages, q \in Laid :
              /\ in_buffer \o stream = Bytes(m) \o q[1] /\ pending = <<m>> \o q[2]
              /\ q[1] \in Seq(Nat) /\ q[2] \in Seq(BrokerMessages) /\ q = <<q[1], q[2]>>
    <3>1. Starts(in_buffer \o stream, pending)
      BY <1>3, <2>2, LaidNext
    <3> QED
      BY <3>1 DEF Starts
  <2>4. Bytes(m) \in Seq(Nat)
    BY BytesSize
  <2>5. Alike(all, Bytes(m))
    <3>1. all \o y = Bytes(m) \o q[1]
      BY <2>1, <2>3
    <3> QED
      BY <1>6, <2>1, <2>3, <2>4, <3>1, LikeFirst
  <2>6. j \in 0..Len(all)
    <3> HIDE DEF j
    <3> QED
      BY <1>4, <1>6
  <2>7. Goes(got, j, m, all)
    <3>1. Goes(MessageReceive(SubSeq(all, 1, j), all), j, m, all)
      BY <1>6, <1>11, <2>5, <2>6, ReceiveGoes
    <3> QED
      BY <1>6, <3>1 DEF got
  <2>8. CASE got = Unfinished(Len(all))
    <3>1. Len(all) \in j..(j + arrived)
      <4> HIDE DEF j
      <4> QED
        BY <1>4, <1>6
    <3> QED
      BY <1>9, <2>8, <3>1
  <2>9. ASSUME NEW k \in j..Len(all), got = Received(k), 1 + DigitsIn(m) <= k, Enough(k, m)
        PROVE  swallowed' \/ InputSound'
    <3> DEFINE b == SubSeq(all, 1, k)
               z == left(k)
    <3>1. k \in j..(j + arrived)
      BY <1>6
    <3>2. /\ b \in Seq(Nat) /\ Len(b) = k /\ z \in Seq(Nat) /\ b \o z = Bytes(m) \o q[1]
          /\ arrived - (k - j) \in 0..Len(z)
      BY <1>5, <1>8, <2>3, <3>1
    <3>3. got.result = "received" /\ got.length = k
      BY <2>9 DEF Received
    <3>4. stream' = z /\ arrived' = arrived - (k - j) /\ sent' = sent
      BY <1>7, <3>3 DEF Take, left
    <3>5. /\ swallowed' = (swallowed \/ Len(b) > get_total_length(b))
          /\ IF mode = "connecting" THEN Connected(b) ELSE Process(b)
      BY <1>7, <3>3
    <3> HIDE DEF b, z
    <3>6. get_total_length(b) = Len(Bytes(m))
      <4>1. Alike(b, Bytes(m))
        BY <2>3, <2>4, <3>2, LikeFirst
      <4> QED
        BY <2>9, <3>2, <4>1, HeaderSeen
    <3>7. CASE Len(b) > Len(Bytes(m))
      BY <3>5, <3>6, <3>7
    <3>8. CASE ~(Len(b) > Len(Bytes(m)))
      <4>1. Len(b) <= Len(Bytes(m)) /\ Enough(Len(b), m) /\ 1 + DigitsIn(m) <= Len(b)
        BY <2>4, <2>9, <3>2, <3>8
      <4>2. sent = delivered \o (<<m>> \o q[2])
        BY <1>3, <2>3
      <4>3. arrived' \in 0..Len(z)
        BY <3>2, <3>4
      <4>4. InputSound'
        BY <1>2, <1>3, <3>2, <3>4, <3>5, <4>1, <4>2, <4>3, ProcessKeeps
      <4> QED
        BY <4>4
    <3> QED
      BY <3>7, <3>8
  <2> QED
    BY <2>7, <2>8, <2>9 DEF Goes
<1> QED
  BY <1>10, <1>11

\* mqtt_message_receive fails, goes on in its next call or has a message.
LEMMA ResultIs ==
    \A b, all : MessageReceive(b, all).result \in {"failed", "unfinished", "received"}
<1> DEFINE Results == {"failed", "unfinished", "received"}
<1>1. /\ \A why : Failed(why).result \in Results
      /\ \A n : Unfinished(n).result \in Results /\ Received(n).result \in Results
  BY DEF Failed, Unfinished, Received
<1> HIDE DEF Results
<1>2. \A head, total : Wanted(head, total).result \in Results
  BY <1>1 DEF Wanted
<1> SUFFICES ASSUME NEW b, NEW all PROVE MessageReceive(b, all).result \in Results
  BY DEF Results
<1> DEFINE n == Min(LengthEnds(b, all))
           total == get_total_length(SubSeq(all, 1, n))
           wanted == Wanted(IF total > in_buffer_length THEN all ELSE SubSeq(all, 1, n), total)
           last == IF wanted.result # "received" THEN wanted
                   ELSE IF n >= wanted.length THEN Received(n)
                   ELSE IF Len(all) < wanted.length THEN Unfinished(Len(all))
                   ELSE wanted
<1>3. MessageReceive(b, all) =
          IF all = <<>> THEN Unfinished(0)
          ELSE IF b = <<>> /\ ~has_valid_msg_hdr(all[1]) THEN Failed("header")
          ELSE IF LengthEnds(b, all) = {} THEN Unfinished(Len(all))
          ELSE last
  BY DEF MessageReceive
<1>4. wanted.result \in Results
  BY <1>2
<1> HIDE DEF n, total, wanted
<1>5. last.result \in Results
  BY <1>1, <1>4
<1> HIDE DEF last
<1> QED
  BY <1>1, <1>3, <1>5

\* Every step keeps the invariant.
LEMMA InputStep == InputInv /\ [InputNext]_inputVars => InputInv'
<1> SUFFICES ASSUME InputInv, [InputNext]_inputVars PROVE InputInv'
  OBVIOUS
<1>1. CASE Open
  BY <1>1, NothingSent DEF Open, InputInv
<1>2. CASE swallowed /\ ~Open
  <2>1. swallowed'
    <3>1. CASE ReadMessage
      <4>1. \/ UNCHANGED swallowed
            \/ \E b : swallowed' = (swallowed \/ Len(b) > get_total_length(b))
        <5> DEFINE all == in_buffer \o SubSeq(stream, 1, arrived)
        <5>1. PICK got \in {MessageReceive(in_buffer, all)} :
                 CASE got.result = "failed" ->
                        /\ CloseFor(got.reason)
                        /\ UNCHANGED <<in_buffer, message, delivered, swallowed>>
                   [] got.result = "unfinished" ->
                        /\ in_buffer' = SubSeq(all, 1, got.length)
                        /\ UNCHANGED <<mode, message, delivered, reason, swallowed>>
                   [] got.result = "received" ->
                        \E b \in {SubSeq(all, 1, got.length)} :
                            /\ swallowed' = (swallowed \/ Len(b) > get_total_length(b))
                            /\ IF mode = "connecting" THEN Connected(b) ELSE Process(b)
          BY <3>1 DEF ReadMessage
        <5>2. got.result \in {"failed", "unfinished", "received"}
          BY ResultIs
        <5> HIDE DEF all
        <5> QED
          BY <5>1, <5>2
      <4> QED
        BY <1>2, <4>1
    <3> QED
      BY <1>2, <3>1 DEF InputNext, inputVars, brokers, histories, BrokerWrites, Arrive,
         DeliverMore, GiveUp
  <2> QED
    BY <2>1 DEF InputInv
<1>3. CASE ~swallowed
  <2>1. InputSound
    BY <1>3 DEF InputInv
  <2>2. CASE BrokerWrites
    BY <2>1, <2>2, WritesKeep DEF InputInv
  <2>3. CASE ReadMessage
    BY <2>1, <2>3, ReadKeeps DEF InputInv
  <2>4. CASE DeliverMore
    BY <2>1, <2>4, MoreKeeps DEF InputInv
  <2>5. CASE Arrive
    <3>1. PICK n \in (arrived + 1)..Len(stream) : arrived' = n
      BY <2>5 DEF Arrive
    <3>2. UNCHANGED <<mode, in_buffer, message, stream, sent, delivered, reason>>
      BY <2>5 DEF Arrive
    <3>3. arrived' \in 0..Len(stream)
      BY <2>1, <3>1 DEF InputSound, InputTypes
    <3>4. InputTypes'
      BY <2>1, <3>2, <3>3 DEF InputSound, InputTypes
    <3>5. PICK pending \in Seq(BrokerMessages) : Ahead(pending)
      BY <2>1 DEF InputSound
    <3>6. Ahead(pending)'
      BY <3>2, <3>5 DEF Ahead, Amid
    <3> QED
      BY <3>4, <3>6 DEF InputSound, InputInv
  <2>6. CASE GiveUp
    <3>1. UNCHANGED <<in_buffer, message, sent, stream, arrived, delivered>>
      BY <2>6 DEF GiveUp, brokers, histories
    <3>2. mode' = "closed" /\ reason' = "transport"
      BY <2>6 DEF GiveUp, CloseFor
    <3>3. InputTypes'
      BY <2>1, <3>1, <3>2 DEF InputSound, InputTypes, BadReasons
    <3>4. PICK pending \in Seq(BrokerMessages) : Ahead(pending)
      BY <2>1 DEF InputSound
    <3>5. Ahead(pending)'
      BY <3>1, <3>2, <3>4 DEF Ahead
    <3> QED
      BY <3>3, <3>5 DEF InputSound, InputInv
  <2>7. CASE UNCHANGED inputVars
    <3>1. UNCHANGED <<mode, in_buffer, message, stream, arrived, sent, delivered, reason>>
      BY <2>7 DEF inputVars
    <3>2. InputTypes'
      BY <2>1, <3>1 DEF InputSound, InputTypes
    <3>3. PICK pending \in Seq(BrokerMessages) : Ahead(pending)
      BY <2>1 DEF InputSound
    <3>4. Ahead(pending)'
      BY <3>1, <3>3 DEF Ahead, Amid
    <3> QED
      BY <3>2, <3>4 DEF InputSound, InputInv
  <2> QED
    BY <1>1, <2>2, <2>3, <2>4, <2>5, <2>6, <2>7 DEF InputNext
<1> QED
  BY <1>1, <1>2, <1>3

\* What was acted on is what was sent so far, and the publish that is handed on is the next.
LEMMA SoundRead == InputInv => InputRead
<1> SUFFICES ASSUME InputInv, ~swallowed PROVE InputRead
  BY DEF InputRead
<1>1. InputSound
  BY DEF InputInv
<1>2. PICK pending \in Seq(BrokerMessages) : Ahead(pending)
  BY <1>1 DEF InputSound
<1>3. sent = delivered \o pending /\ delivered \in Seq(BrokerMessages)
  BY <1>1, <1>2 DEF InputSound, InputTypes, Ahead
<1>4. IsPrefix(delivered, sent)
  <2>1. Len(sent) = Len(delivered) + Len(pending)
    BY <1>3, ConcatProperties
  <2>2. SubSeq(delivered \o pending, 1, Len(delivered)) = SubSeq(delivered, 1, Len(delivered))
    BY <1>3, SubSeqOfConcat1, SubSeqEmpty
  <2>3. Len(delivered) <= Len(sent)
    BY <1>3, <2>1
  <2> QED
    BY <1>3, <2>2, <2>3 DEF IsPrefix
<1>5. reason \notin {"header", "topic", "too big", "suback", "no CONNACK"}
  BY <1>1 DEF InputSound, InputTypes, BadReasons
<1>6. ASSUME mode = "delivering"
      PROVE  LET m == sent[Len(delivered) + 1]
             IN  /\ IsPrefix(message.publish.data, m.data)
                 /\ message.total = Len(m.data)
                 /\ message.rest = Len(m.data) - Len(message.publish.data)
  <2>1. PICK m \in BrokerMessages, q \in Laid, first \in Seq(Nat), rest \in Seq(Nat) :
          /\ m.type = "PUBLISH" /\ m.data = first \o rest /\ Len(rest) > 0
          /\ pending = <<m>> \o q[2]
          /\ message = [publish |-> [m EXCEPT !.data = first], rest |-> Len(rest),
                        total |-> Len(m.data)]
    BY <1>2, <1>6 DEF Ahead, Amid
  <2>2. q[2] \in Seq(BrokerMessages) /\ <<m>> \in Seq(BrokerMessages)
    BY LaidWhole, PairParts
  <2>3. pending[1] = m /\ Len(pending) >= 1
    <3>1. Len(<<m>>) = 1 /\ <<m>>[1] = m
      OBVIOUS
    <3>2. 1 \in 1 .. Len(<<m>>) + Len(q[2]) /\ 1 <= Len(<<m>>)
      BY <2>2, <3>1
    <3>3. Len(pending) = 1 + Len(q[2])
      BY <2>1, <2>2, <3>1, ConcatProperties
    <3>4. pending[1] = m
      BY <2>1, <2>2, <3>1, <3>2, ConcatProperties
    <3> QED
      BY <2>2, <3>3, <3>4
  <2>4. sent[Len(delivered) + 1] = m
    <3> DEFINE i == Len(delivered) + 1
    <3>1. i \in 1 .. Len(delivered) + Len(pending) /\ ~(i <= Len(delivered))
          /\ i - Len(delivered) = 1
      BY <1>3, <2>3
    <3>2. (delivered \o pending)[i] =
              IF i <= Len(delivered) THEN delivered[i] ELSE pending[i - Len(delivered)]
      BY <1>3, <3>1, ConcatProperties
    <3> HIDE DEF i
    <3>3. sent[i] = m
      BY <1>3, <2>3, <3>1, <3>2
    <3> QED
      BY <3>3 DEF i
  <2>5. message.publish.data = first
    <3>1. m = [type |-> "PUBLISH", topic |-> m.topic, data |-> m.data, qos |-> m.qos,
               id |-> m.id]
      BY <2>1, BrokerMessage
    <3>2. [m EXCEPT !.data = first].data = first
      BY <3>1
    <3> QED
      BY <2>1, <3>2
  <2>6. Len(m.data) = Len(first) + Len(rest) /\ SubSeq(m.data, 1, Len(first)) = first
    BY <2>1, TakenApart
  <2>7. IsPrefix(first, m.data)
    <3>1. SubSeq(first, 1, Len(first)) = first
      BY SubSeqFull
    <3>2. Len(first) <= Len(m.data)
      BY <2>6
    <3> QED
      BY <2>6, <3>1, <3>2 DEF IsPrefix
  <2>8. message.total = Len(m.data) /\ message.rest = Len(m.data) - Len(first)
    <3>1. message.total = Len(m.data) /\ message.rest = Len(rest)
      BY <2>1
    <3>2. Len(rest) = Len(m.data) - Len(first)
      BY <2>6
    <3> QED
      BY <3>1, <3>2
  <2> QED
    BY <2>4, <2>5, <2>7, <2>8
<1> QED
  BY <1>4, <1>5, <1>6 DEF InputRead

\* However the bytes of the broker's messages are cut into pieces, they are acted on in their
\* order, each as it was written (mqtt_message_receive, mqtt_process_receive,
\* deliver_publish, esp_mqtt_connect), until a byte of one is taken for a length.
THEOREM ReadingCorrect == ClientSpec => []MessagesRead
<1>1. ClientInit => InputInv
  <2> SUFFICES ASSUME InputInit PROVE InputInv
    BY DEF ClientInit
  <2>1. <<>> \in Seq(Nat) /\ <<>> \in Seq(BrokerMessages) /\ 0 \in 0..Len(<<>>)
    OBVIOUS
  <2>2. <<>> \o <<>> = <<>>
    BY <2>1, ConcatEmptySeq
  <2>3. InputTypes
    BY <2>1 DEF InputInit, InputTypes, BadReasons
  <2>4. Ahead(<<>>)
    BY <2>2 DEF InputInit, Ahead
  <2> QED
    BY <2>1, <2>3, <2>4 DEF InputInv, InputSound
<1>2. InputInv /\ [ClientNext]_allVars => InputInv'
  <2> SUFFICES ASSUME InputInv, [ClientNext]_allVars PROVE InputInv'
    OBVIOUS
  <2>1. CASE InputNext
    BY <2>1, InputStep
  <2>2. CASE UNCHANGED inputVars
    BY <2>2, InputStep
  <2> QED
    BY <2>1, <2>2 DEF ClientNext, InClient, allVars
<1>3. InputInv => MessagesRead
  BY SoundRead DEF MessagesRead
<1> QED
  BY <1>1, <1>2, <1>3, PTL DEF ClientSpec
=============================================================================
