----------------------------- MODULE StreamsProofs -----------------------------
(* Delivered for every number of strategies, filters and updates, as long as    *)
(* fewer connections are lost than two stream ids are apart.                    *)
EXTENDS Streams, FiniteSetTheorems, TLAPS

\* A book or raw data on its way from a stream to the strategies
Message == [stream : Nat, id : Nat, version : Nat]
StreamRecord ==
  [filter : Filter, id : Nat, listener : Nat, conn : Connection, cache : Nat,
   out : Seq(Message), snapping : BOOLEAN]

Types ==
  /\ strategies \in Seq(Strategy) /\ subscribed \in [Strategy -> Nat]
  /\ stream \in Seq(StreamRecord)
  /\ started \in Nat /\ running \in BOOLEAN
  /\ handler \in Seq(Message) /\ event \in Seq(Message) /\ Len(event) <= 1 /\ at \in Nat
  /\ received \in [Strategy -> SUBSET (Nat \X Nat)]
  /\ drops \in 0..MaxDrops

\* The ids of a stream and its listener only grow, by one with every subscription,
\* and a subscription after the first needs a drop before it.
IdsOf(i, t, d) ==
  /\ t.id >= StreamId(i)
  /\ t.listener <= StreamId(i) + d + 1
  /\ t.listener # 0 => t.listener > StreamId(i) /\ t.listener \in {t.id, t.id + 1}
  /\ t.conn \in {"idle", "down"} => t.id <= StreamId(i) + d
  /\ t.conn = "subscribing" => t.listener = t.id + 1
  /\ t.conn = "up" => t.listener = t.id
  /\ t.cache > 0 => t.id > StreamId(i) /\ t.listener > StreamId(i)
\* A stream that was not started has received nothing.
IdleOf(i, t, n) ==
  /\ i > n => t.conn = "idle"
  /\ t.conn = "idle" => /\ t.id = StreamId(i) /\ t.listener = 0
                        /\ t.cache = 0 /\ t.out = <<>>
IdsOK ==
  \A i \in 1..Len(stream) : IdsOf(i, stream[i], drops) /\ IdleOf(i, stream[i], started)

\* A message carries an id that its listener has or had.
MessageOK(e) ==
  /\ e.stream \in 1..Len(stream)
  /\ StreamId(e.stream) < e.id /\ e.id <= stream[e.stream].listener
  /\ stream[e.stream].id > StreamId(e.stream)
QueuesOK ==
  /\ \A i \in 1..Len(stream) : \A e \in Range(stream[i].out) : MessageOK(e)
  /\ \A e \in Range(handler) : MessageOK(e)
  /\ \A e \in Range(event) : MessageOK(e)

MainOK ==
  /\ started <= Len(stream)
  /\ started > 0 => strategies = Added
  /\ started = 0 => \A s \in Strategy : received[s] = {}
  /\ stream # <<>> => strategies # <<>>
  /\ event # <<>> => at \in 1..Len(strategies)

SubscribedOK == \A s \in Range(strategies) : subscribed[s] \in 1..Len(stream)

OwnOK == \A s \in Strategy : \A r \in received[s] : r[1] = subscribed[s]
Arrived(s) ==
  LET i == subscribed[s] IN
  ~Reconnected(i) =>
    \A v \in 1..stream[i].cache : <<i, v>> \in received[s] \/ OnItsWay(i, v, s)
AllArrive == \A s \in Range(strategies) : Arrived(s)

IInv == Types /\ IdsOK /\ QueuesOK /\ MainOK /\ SubscribedOK /\ OwnOK /\ AllArrive

------------------------------------------------------------------------------
(* Sequences *)

LEMMA RangeOfAppend ==
  ASSUME NEW S, NEW q \in Seq(S), NEW e \in S
  PROVE  Append(q, e) \in Seq(S) /\ Range(Append(q, e)) = Range(q) \cup {e}
<1>1. /\ Append(q, e) \in Seq(S) /\ Len(Append(q, e)) = Len(q) + 1 /\ Len(q) \in Nat
      /\ Append(q, e)[Len(q) + 1] = e
      /\ \A k \in 1..Len(q) : Append(q, e)[k] = q[k]
      /\ DOMAIN q = 1..Len(q) /\ DOMAIN Append(q, e) = 1..Len(Append(q, e))
  OBVIOUS
<1>2. 1..(Len(q) + 1) = 1..Len(q) \cup {Len(q) + 1}
  BY <1>1
<1> QED BY <1>1, <1>2 DEF Range

LEMMA RangeOfTail ==
  ASSUME NEW S, NEW q \in Seq(S), q # <<>>
  PROVE  /\ Tail(q) \in Seq(S) /\ Head(q) \in S
         /\ Range(q) = Range(Tail(q)) \cup {Head(q)}
<1>1. /\ Tail(q) \in Seq(S) /\ Len(q) \in Nat /\ Len(q) >= 1 /\ Len(Tail(q)) = Len(q) - 1
      /\ Head(q) = q[1] /\ Head(q) \in S
      /\ DOMAIN q = 1..Len(q) /\ DOMAIN Tail(q) = 1..Len(Tail(q))
  OBVIOUS
<1>2. \A k \in 1..Len(Tail(q)) : Tail(q)[k] = q[k + 1] /\ k + 1 \in 1..Len(q)
  BY <1>1
<1>3. \A k \in 1..Len(q) : k = 1 \/ (k - 1 \in 1..Len(Tail(q)) /\ Tail(q)[k - 1] = q[k])
  <2> TAKE k \in 1..Len(q)
  <2>1. k # 1 => k - 1 \in 1..Len(Tail(q)) /\ (k - 1) + 1 = k
    BY <1>1
  <2> QED BY <2>1, <1>2
<1>4. Range(q) \subseteq Range(Tail(q)) \cup {Head(q)}
  <2> SUFFICES ASSUME NEW k \in 1..Len(q)
               PROVE  q[k] \in Range(Tail(q)) \/ q[k] = Head(q)
    BY <1>1 DEF Range
  <2>1. CASE k = 1
    BY <1>1, <2>1
  <2>2. CASE k # 1
    <3>1. k - 1 \in DOMAIN Tail(q) /\ Tail(q)[k - 1] = q[k]
      BY <1>1, <1>3, <2>2
    <3> QED BY <3>1 DEF Range
  <2> QED BY <2>1, <2>2
<1>5. Range(Tail(q)) \cup {Head(q)} \subseteq Range(q)
  BY <1>1, <1>2 DEF Range
<1> QED BY <1>1, <1>4, <1>5

LEMMA RangeOfOne ==
  ASSUME NEW S, NEW e \in S
  PROVE  <<e>> \in Seq(S) /\ Range(<<e>>) = {e} /\ Len(<<e>>) = 1
BY DEF Range

LEMMA RangeOfNone ==
  ASSUME NEW S
  PROVE  <<>> \in Seq(S) /\ Range(<<>>) = {} /\ Len(<<>>) = 0
BY DEF Range

------------------------------------------------------------------------------
(* The streams *)

\* What a step does to one stream, the others being as they were
OneStream(i, t) ==
  /\ stream' \in Seq(StreamRecord) /\ Len(stream') = Len(stream) /\ Len(stream) \in Nat
  /\ t \in StreamRecord /\ stream'[i] = t
  /\ \A j \in 1..Len(stream) : j # i => stream'[j] = stream[j]

LEMMA SetStream ==
  ASSUME stream \in Seq(StreamRecord), NEW i \in 1..Len(stream), NEW t \in StreamRecord,
         stream' = [stream EXCEPT ![i] = t]
  PROVE  OneStream(i, t)
BY DEF OneStream

LEMMA ConnRecord ==
  ASSUME NEW t \in StreamRecord, NEW c \in Connection
  PROVE  [t EXCEPT !.conn = c] \in StreamRecord
BY DEF StreamRecord

LEMMA ListenerRecord ==
  ASSUME NEW t \in StreamRecord, NEW c \in Connection, NEW n \in Nat
  PROVE  [t EXCEPT !.conn = c, !.listener = n] \in StreamRecord
BY DEF StreamRecord

LEMMA IdRecord ==
  ASSUME NEW t \in StreamRecord, NEW c \in Connection, NEW n \in Nat
  PROVE  [t EXCEPT !.conn = c, !.id = n] \in StreamRecord
BY DEF StreamRecord

LEMMA CacheRecord ==
  ASSUME NEW t \in StreamRecord, NEW n \in Nat
  PROVE  [t EXCEPT !.cache = n] \in StreamRecord
BY DEF StreamRecord

LEMMA BookRecord ==
  ASSUME NEW t \in StreamRecord, NEW n \in Nat, NEW q \in Seq(Message)
  PROVE  [t EXCEPT !.cache = n, !.out = q] \in StreamRecord
BY DEF StreamRecord

LEMMA OutRecord ==
  ASSUME NEW t \in StreamRecord, NEW q \in Seq(Message)
  PROVE  [t EXCEPT !.out = q] \in StreamRecord
BY DEF StreamRecord

LEMMA SnapRecord ==
  ASSUME NEW t \in StreamRecord, NEW b \in BOOLEAN
  PROVE  [t EXCEPT !.snapping = b] \in StreamRecord
BY DEF StreamRecord

LEMMA Fields ==
  ASSUME NEW t \in StreamRecord
  PROVE  /\ t.filter \in Filter /\ t.id \in Nat /\ t.listener \in Nat /\ t.conn \in Connection
         /\ t.cache \in Nat /\ t.out \in Seq(Message) /\ t.snapping \in BOOLEAN
BY DEF StreamRecord

LEMMA TypesOf ==
  ASSUME Types
  PROVE  /\ stream \in Seq(StreamRecord) /\ Len(stream) \in Nat
         /\ \A i \in 1..Len(stream) : stream[i] \in StreamRecord
         /\ drops \in Nat /\ started \in Nat
         /\ {"idle", "down", "subscribing", "up"} \subseteq Connection
BY FilterAssumption DEF Types, Connection

LEMMA SubscribeSets ==
  ASSUME Types, NEW i \in 1..Len(stream), Subscribe(i)
  PROVE  OneStream(i, [stream[i] EXCEPT !.conn = "subscribing", !.listener = stream[i].id + 1])
<1>1. stream[i] \in StreamRecord /\ stream[i].id + 1 \in Nat /\ "subscribing" \in Connection
  BY TypesOf, Fields DEF Connection
<1>2. [stream[i] EXCEPT !.conn = "subscribing", !.listener = stream[i].id + 1] \in StreamRecord
  BY <1>1, ListenerRecord
<1>3. stream' = [stream EXCEPT ![i] = [stream[i] EXCEPT !.conn = "subscribing", !.listener = stream[i].id + 1]]
  BY DEF Subscribe, Becomes
<1> QED BY <1>2, <1>3, SetStream, TypesOf

LEMMA SubscribedSets ==
  ASSUME Types, NEW i \in 1..Len(stream), Subscribed(i)
  PROVE  OneStream(i, [stream[i] EXCEPT !.conn = "up", !.id = stream[i].listener])
<1>1. stream[i] \in StreamRecord /\ stream[i].listener \in Nat /\ "up" \in Connection
  BY TypesOf, Fields DEF Connection
<1>2. [stream[i] EXCEPT !.conn = "up", !.id = stream[i].listener] \in StreamRecord
  BY <1>1, IdRecord
<1>3. stream' = [stream EXCEPT ![i] = [stream[i] EXCEPT !.conn = "up", !.id = stream[i].listener]]
  BY DEF Subscribed, Becomes
<1> QED BY <1>2, <1>3, SetStream, TypesOf

LEMMA DropSets ==
  ASSUME Types, NEW i \in 1..Len(stream), Drop(i)
  PROVE  OneStream(i, [stream[i] EXCEPT !.conn = "down"])
<1>1. stream[i] \in StreamRecord /\ "down" \in Connection
  BY TypesOf, Fields DEF Connection
<1>2. [stream[i] EXCEPT !.conn = "down"] \in StreamRecord
  BY <1>1, ConnRecord
<1>3. stream' = [stream EXCEPT ![i] = [stream[i] EXCEPT !.conn = "down"]]
  BY DEF Drop, Becomes
<1> QED BY <1>2, <1>3, SetStream, TypesOf

LEMMA ForwardSets ==
  ASSUME Types, NEW i \in 1..Len(stream), Forward(i)
  PROVE  OneStream(i, [stream[i] EXCEPT !.out = Tail(@)])
<1>1. stream[i] \in StreamRecord /\ Tail(stream[i].out) \in Seq(Message)
  BY TypesOf, Fields, RangeOfTail DEF Forward
<1>2. [stream[i] EXCEPT !.out = Tail(@)] \in StreamRecord
  BY <1>1, OutRecord
<1>3. stream' = [stream EXCEPT ![i] = [stream[i] EXCEPT !.out = Tail(@)]]
  BY DEF Forward, Becomes
<1> QED BY <1>2, <1>3, SetStream, TypesOf

LEMMA TimeOutSets ==
  ASSUME Types, NEW i \in 1..Len(stream), TimeOut(i)
  PROVE  OneStream(i, [stream[i] EXCEPT !.snapping = TRUE])
<1>1. stream[i] \in StreamRecord /\ TRUE \in BOOLEAN
  BY TypesOf, Fields DEF Connection
<1>2. [stream[i] EXCEPT !.snapping = TRUE] \in StreamRecord
  BY <1>1, SnapRecord
<1>3. stream' = [stream EXCEPT ![i] = [stream[i] EXCEPT !.snapping = TRUE]]
  BY DEF TimeOut, Becomes
<1> QED BY <1>2, <1>3, SetStream, TypesOf

LEMMA SnapSets ==
  ASSUME Types, NEW i \in 1..Len(stream), Snap(i)
  PROVE  OneStream(i, [stream[i] EXCEPT !.snapping = FALSE])
<1>1. stream[i] \in StreamRecord /\ FALSE \in BOOLEAN
  BY TypesOf, Fields DEF Connection
<1>2. [stream[i] EXCEPT !.snapping = FALSE] \in StreamRecord
  BY <1>1, SnapRecord
<1>3. stream' = [stream EXCEPT ![i] = [stream[i] EXCEPT !.snapping = FALSE]]
  BY DEF Snap, Becomes
<1> QED BY <1>2, <1>3, SetStream, TypesOf

------------------------------------------------------------------------------
(* What a step on one stream keeps *)

\* Ids only grow, and a stream is asked for the same as long as it lives.
Grows ==
  /\ Len(stream) <= Len(stream')
  /\ \A j \in 1..Len(stream) :
       /\ stream'[j].filter = stream[j].filter
       /\ stream[j].id <= stream'[j].id /\ stream[j].listener <= stream'[j].listener

LEMMA GrownMessage ==
  ASSUME stream \in Seq(StreamRecord), stream' \in Seq(StreamRecord), Grows,
         NEW e \in Message, MessageOK(e)
  PROVE  MessageOK(e)'
<1>1. Len(stream) \in Nat /\ Len(stream') \in Nat /\ Len(stream) <= Len(stream')
  BY DEF Grows
<1>2. e.stream \in 1..Len(stream) /\ e.stream \in 1..Len(stream') /\ e.id \in Nat
  BY <1>1 DEF MessageOK, Message
<1>3. /\ stream[e.stream] \in StreamRecord /\ stream'[e.stream] \in StreamRecord
      /\ stream[e.stream].id <= stream'[e.stream].id
      /\ stream[e.stream].listener <= stream'[e.stream].listener
  BY <1>2 DEF Grows
<1>4. /\ stream[e.stream].id \in Nat /\ stream'[e.stream].id \in Nat
      /\ stream[e.stream].listener \in Nat /\ stream'[e.stream].listener \in Nat
      /\ StreamId(e.stream) \in Nat
  <2>1. e.stream \in Nat
    BY <1>1, <1>2
  <2>2. StreamId(e.stream) \in Nat
    BY <2>1 DEF StreamId, IdStep
  <2> QED BY <1>3, <2>2, Fields
<1>5. /\ StreamId(e.stream) < e.id /\ e.id <= stream[e.stream].listener
      /\ stream[e.stream].id > StreamId(e.stream)
  BY DEF MessageOK
<1>6. /\ e.id <= stream'[e.stream].listener /\ stream'[e.stream].id > StreamId(e.stream)
  BY <1>2, <1>3, <1>4, <1>5
<1> QED BY <1>2, <1>5, <1>6 DEF MessageOK

LEMMA GrownSubscribed ==
  ASSUME stream \in Seq(StreamRecord), stream' \in Seq(StreamRecord), Grows,
         SubscribedOK, UNCHANGED <<strategies, subscribed>>
  PROVE  SubscribedOK'
<1>1. Len(stream) \in Nat /\ Len(stream') \in Nat /\ Len(stream) <= Len(stream')
  BY DEF Grows
<1> SUFFICES ASSUME NEW s \in Range(strategies)
             PROVE  subscribed[s] \in 1..Len(stream')
  BY DEF SubscribedOK
<1>2. subscribed[s] \in 1..Len(stream)
  BY DEF SubscribedOK
<1> QED BY <1>1, <1>2

\* What a thread may do: stream i becomes t and handler_queue takes what left it.
ThreadStep(i, t) ==
  /\ OneStream(i, t)
  /\ t.filter = stream[i].filter
  /\ stream[i].id <= t.id /\ stream[i].listener <= t.listener
  /\ IdsOf(i, t, drops') /\ IdleOf(i, t, started')
  /\ UNCHANGED <<strategies, subscribed, delivery>> /\ running' \in BOOLEAN
  /\ started' \in Nat /\ started <= started' /\ started' <= Len(stream)
  /\ started' > 0 => strategies = Added
  /\ drops' \in 0..MaxDrops /\ drops <= drops'
  /\ handler' \in Seq(Message)
  /\ \A e \in Range(t.out) \cup Range(handler') :
       e \in Range(stream[i].out) \cup Range(handler) \/ MessageOK(e)
  /\ Range(handler) \subseteq Range(handler')
  /\ Range(stream[i].out) \subseteq Range(t.out) \cup Range(handler')
  /\ \/ t.cache = stream[i].cache
     \/ /\ t.cache = stream[i].cache + 1
        /\ \E e \in Range(t.out) \cup Range(handler') : e.stream = i /\ e.version = t.cache

LEMMA ThreadGrows ==
  ASSUME Types, NEW i \in 1..Len(stream), NEW t, ThreadStep(i, t)
  PROVE  Grows /\ stream \in Seq(StreamRecord) /\ stream' \in Seq(StreamRecord)
<1>1. OneStream(i, t) /\ stream \in Seq(StreamRecord) /\ Len(stream) \in Nat
  BY TypesOf DEF ThreadStep
<1>2. \A j \in 1..Len(stream) : stream[j] \in StreamRecord
  BY TypesOf
<1>3. \A j \in 1..Len(stream) : stream[j].id \in Nat /\ stream[j].listener \in Nat
  BY <1>2, Fields
<1>4. /\ t.filter = stream[i].filter
      /\ stream[i].id <= t.id /\ stream[i].listener <= t.listener
  BY DEF ThreadStep
<1>5. /\ Len(stream') = Len(stream) /\ stream'[i] = t
      /\ \A j \in 1..Len(stream) : j # i => stream'[j] = stream[j]
      /\ stream' \in Seq(StreamRecord)
  BY <1>1 DEF OneStream
<1> QED BY <1>1, <1>3, <1>4, <1>5 DEF Grows

LEMMA ThreadTypes ==
  ASSUME Types, NEW i \in 1..Len(stream), NEW t, ThreadStep(i, t)
  PROVE  Types'
<1>1. UNCHANGED <<strategies, subscribed, event, at, received>>
  BY DEF ThreadStep, delivery
<1>2. stream' \in Seq(StreamRecord)
  BY ThreadGrows
<1> QED BY <1>1, <1>2 DEF Types, ThreadStep

LEMMA ThreadIds ==
  ASSUME Types, IdsOK, NEW i \in 1..Len(stream), NEW t, ThreadStep(i, t)
  PROVE  IdsOK'
<1>1. /\ Len(stream') = Len(stream) /\ stream'[i] = t
      /\ \A j \in 1..Len(stream) : j # i => stream'[j] = stream[j]
      /\ IdsOf(i, t, drops') /\ IdleOf(i, t, started')
  BY DEF ThreadStep, OneStream
<1> SUFFICES ASSUME NEW j \in 1..Len(stream)
             PROVE  IdsOf(j, stream'[j], drops') /\ IdleOf(j, stream'[j], started')
  BY <1>1 DEF IdsOK
<1>2. CASE j = i
  BY <1>1, <1>2
<1>3. CASE j # i
  <2>1. stream'[j] = stream[j] /\ stream[j] \in StreamRecord
    BY <1>1, <1>3, TypesOf
  <2>2. IdsOf(j, stream[j], drops) /\ IdleOf(j, stream[j], started)
    BY DEF IdsOK
  <2>3. /\ drops \in Nat /\ drops' \in Nat /\ drops <= drops'
        /\ started \in Nat /\ started' \in Nat /\ started <= started'
    BY TypesOf, FilterAssumption DEF ThreadStep
  <2>4. stream[j].id \in Nat /\ stream[j].listener \in Nat /\ StreamId(j) \in Nat
    BY <2>1, Fields DEF StreamId, IdStep
  <2>5. IdsOf(j, stream[j], drops')
    <3>1. \A n \in Nat : n <= StreamId(j) + drops => n <= StreamId(j) + drops'
      BY <2>3, <2>4
    <3>2. \A n \in Nat : n <= StreamId(j) + drops + 1 => n <= StreamId(j) + drops' + 1
      BY <2>3, <2>4
    <3> QED BY <2>2, <2>4, <3>1, <3>2 DEF IdsOf
  <2>6. IdleOf(j, stream[j], started')
    BY <2>2, <2>3 DEF IdleOf
  <2> QED BY <2>1, <2>5, <2>6
<1> QED BY <1>2, <1>3

LEMMA ThreadQueues ==
  ASSUME Types, QueuesOK, NEW i \in 1..Len(stream), NEW t, ThreadStep(i, t)
  PROVE  QueuesOK'
<1>1. /\ Len(stream') = Len(stream) /\ stream'[i] = t /\ t \in StreamRecord
      /\ \A j \in 1..Len(stream) : j # i => stream'[j] = stream[j]
      /\ event' = event
  BY DEF ThreadStep, OneStream, delivery
<1>2. /\ \A e \in Range(t.out) \cup Range(handler') : e \in Message
      /\ \A j \in 1..Len(stream) : \A e \in Range(stream[j].out) : e \in Message
      /\ \A e \in Range(event) : e \in Message
  <2>1. t.out \in Seq(Message) /\ handler' \in Seq(Message) /\ event \in Seq(Message)
    BY <1>1, Fields DEF Types, ThreadStep
  <2>2. \A j \in 1..Len(stream) : stream[j].out \in Seq(Message)
    BY TypesOf, Fields
  <2> QED BY <2>1, <2>2 DEF Range
<1>3. \A e \in Message : MessageOK(e) => MessageOK(e)'
  BY ThreadGrows, GrownMessage
<1>4. \A e \in Range(t.out) \cup Range(handler') : MessageOK(e)
  BY DEF ThreadStep, QueuesOK
<1>5. \A j \in 1..Len(stream) : \A e \in Range(stream'[j].out) : MessageOK(e)'
  <2> TAKE j \in 1..Len(stream)
  <2>1. CASE j = i
    BY <2>1, <1>1, <1>2, <1>3, <1>4
  <2>2. CASE j # i
    BY <2>2, <1>1, <1>2, <1>3 DEF QueuesOK
  <2> QED BY <2>1, <2>2
<1>6. \A e \in Range(handler') : MessageOK(e)'
  BY <1>2, <1>3, <1>4
<1>7. \A e \in Range(event') : MessageOK(e)'
  BY <1>1, <1>2, <1>3 DEF QueuesOK
<1> QED BY <1>1, <1>5, <1>6, <1>7 DEF QueuesOK

LEMMA ThreadMain ==
  ASSUME Types, MainOK, NEW i \in 1..Len(stream), NEW t, ThreadStep(i, t)
  PROVE  MainOK'
<1>1. /\ UNCHANGED <<strategies, received, event, at>> /\ Len(stream') = Len(stream)
      /\ started' <= Len(stream) /\ started <= started' /\ started \in Nat /\ started' \in Nat
      /\ started' > 0 => strategies = Added
  BY DEF ThreadStep, OneStream, delivery, Types
<1>2. stream # <<>>
  BY TypesOf
<1>3. strategies # <<>> /\ (started = 0 => \A s \in Strategy : received[s] = {})
      /\ (event # <<>> => at \in 1..Len(strategies))
  BY <1>2 DEF MainOK
<1>4. started' = 0 => started = 0
  BY <1>1
<1> QED BY <1>1, <1>3, <1>4 DEF MainOK

LEMMA ThreadArrive ==
  ASSUME Types, IdsOK, SubscribedOK, AllArrive, NEW i \in 1..Len(stream), NEW t, ThreadStep(i, t)
  PROVE  AllArrive'
<1>1. /\ Len(stream') = Len(stream) /\ stream'[i] = t /\ t \in StreamRecord
      /\ \A j \in 1..Len(stream) : j # i => stream'[j] = stream[j]
      /\ UNCHANGED <<strategies, subscribed, received, event, at>>
  BY DEF ThreadStep, OneStream, delivery
<1> SUFFICES ASSUME NEW s \in Range(strategies)
             PROVE  Arrived(s)'
  BY <1>1 DEF AllArrive
<1> DEFINE j == subscribed[s]
<1>2. j \in 1..Len(stream) /\ Arrived(s)
  BY DEF SubscribedOK, AllArrive
<1>3. /\ Range(handler) \subseteq Range(handler')
      /\ Range(stream[i].out) \subseteq Range(t.out) \cup Range(handler')
  BY DEF ThreadStep
<1>4. ASSUME NEW v, OnItsWay(j, v, s)
      PROVE  OnItsWay(j, v, s)'
  <2>1. CASE \E k \in at..Len(strategies) :
               event # <<>> /\ event[1].stream = j /\ event[1].version = v /\ strategies[k] = s
    BY <2>1, <1>1 DEF OnItsWay
  <2>2. CASE \E e \in Range(stream[j].out) \cup Range(handler) :
               e.stream = j /\ e.version = v
    <3>1. PICK e \in Range(stream[j].out) \cup Range(handler) : e.stream = j /\ e.version = v
      BY <2>2
    <3>2. e \in Range(stream'[j].out) \cup Range(handler')
      BY <3>1, <1>1, <1>2, <1>3
    <3> QED BY <3>1, <3>2, <1>1 DEF OnItsWay
  <2> QED BY <1>4, <2>1, <2>2 DEF OnItsWay
<1>5. Reconnected(j) => Reconnected(j)'
  <2>1. stream[j].listener <= stream'[j].listener
    BY <1>2, ThreadGrows DEF Grows
  <2>2. stream[j].listener \in Nat /\ stream'[j].listener \in Nat /\ StreamId(j) \in Nat
    <3>1. stream[j] \in StreamRecord /\ stream'[j] \in StreamRecord
      BY <1>1, <1>2, TypesOf
    <3> QED BY <3>1, <1>2, Fields DEF StreamId, IdStep
  <2>3. j' = j
    BY <1>1
  <2> QED BY <2>1, <2>2, <2>3 DEF Reconnected
<1>6. ASSUME ~Reconnected(j)', NEW v \in 1..stream'[j].cache
      PROVE  <<j, v>> \in received[s] \/ OnItsWay(j, v, s)'
  <2>1. CASE v \in 1..stream[j].cache
    BY <2>1, <1>2, <1>4, <1>5, <1>6 DEF Arrived
  <2>2. CASE v \notin 1..stream[j].cache
    <3>1. j = i
      BY <2>2, <1>1, <1>2, <1>6
    <3>2. stream[i].cache \in Nat
      BY TypesOf, Fields
    <3>3. /\ t.cache = stream[i].cache + 1
          /\ \E e \in Range(t.out) \cup Range(handler') : e.stream = i /\ e.version = t.cache
      BY <3>1, <2>2, <1>1, <1>6 DEF ThreadStep
    <3>4. v = t.cache
      BY <3>1, <3>2, <3>3, <2>2, <1>1, <1>6
    <3>5. \E e \in Range(stream'[j].out) \cup Range(handler') : e.stream = j /\ e.version = v
      BY <3>1, <3>3, <3>4, <1>1
    <3> QED BY <3>5, <1>1 DEF OnItsWay
  <2> QED BY <2>1, <2>2
<1> QED BY <1>1, <1>6 DEF Arrived

LEMMA ThreadKeeps ==
  ASSUME IInv, NEW i \in 1..Len(stream), NEW t, ThreadStep(i, t)
  PROVE  IInv'
<1>1. Grows /\ stream \in Seq(StreamRecord) /\ stream' \in Seq(StreamRecord)
  BY ThreadGrows DEF IInv
<1>2. UNCHANGED <<strategies, subscribed, received>>
  BY DEF ThreadStep, delivery
<1>3. SubscribedOK' /\ OwnOK'
  BY <1>1, <1>2, GrownSubscribed DEF IInv, OwnOK
<1> QED
  BY <1>3, ThreadTypes, ThreadIds, ThreadQueues, ThreadMain, ThreadArrive DEF IInv

------------------------------------------------------------------------------
(* The steps of the threads *)

\* What holds of one stream in every state
LEMMA OfStream ==
  ASSUME IInv, NEW i \in 1..Len(stream)
  PROVE  /\ stream[i] \in StreamRecord
         /\ IdsOf(i, stream[i], drops) /\ IdleOf(i, stream[i], started)
         /\ drops \in Nat /\ StreamId(i) \in Nat
         /\ started \in Nat /\ started <= Len(stream)
         /\ started > 0 => strategies = Added
BY TypesOf DEF IInv, IdsOK, MainOK, StreamId, IdStep

\* A step that changes the connection of a stream and nothing it has received
LEMMA QuietStep ==
  ASSUME IInv, NEW i \in 1..Len(stream), NEW t, OneStream(i, t),
         t.filter = stream[i].filter, t.cache = stream[i].cache, t.out = stream[i].out,
         stream[i].id <= t.id, stream[i].listener <= t.listener,
         IdsOf(i, t, drops'), IdleOf(i, t, started),
         UNCHANGED <<engine, handler, delivery>>, drops' \in 0..MaxDrops, drops <= drops'
  PROVE  IInv'
<1>1. UNCHANGED <<strategies, subscribed, started, running, handler>>
  BY DEF engine
<1>2. /\ handler \in Seq(Message) /\ running \in BOOLEAN /\ started \in Nat
      /\ started <= Len(stream) /\ (started > 0 => strategies = Added)
  BY OfStream DEF IInv, Types
<1>3. ThreadStep(i, t)
  BY <1>1, <1>2 DEF ThreadStep
<1> QED BY <1>3, ThreadKeeps

LEMMA SubscribeKeeps ==
  ASSUME IInv, NEW i \in 1..Len(stream), Subscribe(i)
  PROVE  IInv'
<1> DEFINE t == [stream[i] EXCEPT !.conn = "subscribing", !.listener = stream[i].id + 1]
<1>1. OneStream(i, t) /\ stream[i] \in StreamRecord
  BY SubscribeSets, OfStream DEF IInv
<1>2. /\ t.filter = stream[i].filter /\ t.cache = stream[i].cache /\ t.out = stream[i].out
      /\ t.id = stream[i].id /\ t.listener = stream[i].id + 1 /\ t.conn = "subscribing"
  BY <1>1 DEF StreamRecord
<1>3. /\ stream[i].id \in Nat /\ stream[i].listener \in Nat /\ stream[i].cache \in Nat
  BY <1>1, Fields
<1> HIDE DEF t
<1>4. stream[i].conn = "down" /\ drops' = drops /\ UNCHANGED <<engine, handler, delivery>>
  BY DEF Subscribe
<1>5. IdsOf(i, stream[i], drops) /\ IdleOf(i, stream[i], started)
      /\ StreamId(i) \in Nat /\ drops \in Nat
  BY OfStream
<1>6. /\ stream[i].id >= StreamId(i) /\ stream[i].id <= StreamId(i) + drops
      /\ stream[i].listener <= stream[i].id + 1
  BY <1>3, <1>4, <1>5 DEF IdsOf
<1>7. IdsOf(i, t, drops')
  BY <1>2, <1>3, <1>4, <1>5, <1>6 DEF IdsOf
<1>8. IdleOf(i, t, started)
  BY <1>2, <1>4, <1>5 DEF IdleOf
<1>9. drops \in 0..MaxDrops /\ drops <= drops /\ stream[i].id <= stream[i].id
  BY <1>3, <1>5 DEF IInv, Types
<1> QED BY <1>1, <1>2, <1>4, <1>6, <1>7, <1>8, <1>9, QuietStep

LEMMA SubscribedKeeps ==
  ASSUME IInv, NEW i \in 1..Len(stream), Subscribed(i)
  PROVE  IInv'
<1> DEFINE t == [stream[i] EXCEPT !.conn = "up", !.id = stream[i].listener]
<1>1. OneStream(i, t) /\ stream[i] \in StreamRecord
  BY SubscribedSets, OfStream DEF IInv
<1>2. /\ t.filter = stream[i].filter /\ t.cache = stream[i].cache /\ t.out = stream[i].out
      /\ t.id = stream[i].listener /\ t.listener = stream[i].listener /\ t.conn = "up"
  BY <1>1 DEF StreamRecord
<1>3. /\ stream[i].id \in Nat /\ stream[i].listener \in Nat /\ stream[i].cache \in Nat
  BY <1>1, Fields
<1> HIDE DEF t
<1>4. stream[i].conn = "subscribing" /\ drops' = drops /\ UNCHANGED <<engine, handler, delivery>>
  BY DEF Subscribed
<1>5. IdsOf(i, stream[i], drops) /\ IdleOf(i, stream[i], started)
      /\ StreamId(i) \in Nat /\ drops \in Nat
  BY OfStream
<1>6. stream[i].id <= stream[i].listener /\ stream[i].listener <= stream[i].listener
  BY <1>3, <1>4, <1>5 DEF IdsOf
<1>7. IdsOf(i, t, drops')
  BY <1>2, <1>3, <1>4, <1>5, <1>6 DEF IdsOf
<1>8. IdleOf(i, t, started)
  BY <1>2, <1>4, <1>5 DEF IdleOf
<1>9. drops \in 0..MaxDrops /\ drops <= drops
  BY <1>5 DEF IInv, Types
<1> QED BY <1>1, <1>2, <1>4, <1>6, <1>7, <1>8, <1>9, QuietStep

LEMMA DropKeeps ==
  ASSUME IInv, NEW i \in 1..Len(stream), Drop(i)
  PROVE  IInv'
<1> DEFINE t == [stream[i] EXCEPT !.conn = "down"]
<1>1. OneStream(i, t) /\ stream[i] \in StreamRecord
  BY DropSets, OfStream DEF IInv
<1>2. /\ t.filter = stream[i].filter /\ t.cache = stream[i].cache /\ t.out = stream[i].out
      /\ t.id = stream[i].id /\ t.listener = stream[i].listener /\ t.conn = "down"
  BY <1>1 DEF StreamRecord
<1>3. /\ stream[i].id \in Nat /\ stream[i].listener \in Nat /\ stream[i].cache \in Nat
  BY <1>1, Fields
<1> HIDE DEF t
<1>4. /\ stream[i].conn \in {"subscribing", "up"} /\ drops < MaxDrops /\ drops' = drops + 1
      /\ UNCHANGED <<engine, handler, delivery>>
  BY DEF Drop
<1>5. IdsOf(i, stream[i], drops) /\ IdleOf(i, stream[i], started)
      /\ StreamId(i) \in Nat /\ drops \in Nat
  BY OfStream
<1>6. stream[i].id <= StreamId(i) + drops + 1
  BY <1>3, <1>4, <1>5 DEF IdsOf
<1>7. IdsOf(i, t, drops')
  BY <1>2, <1>3, <1>4, <1>5, <1>6 DEF IdsOf
<1>8. IdleOf(i, t, started)
  BY <1>2, <1>4, <1>5 DEF IdleOf
<1>9. drops' \in 0..MaxDrops /\ drops <= drops'
      /\ stream[i].id <= stream[i].id /\ stream[i].listener <= stream[i].listener
  BY <1>3, <1>4, <1>5, FilterAssumption
<1> QED BY <1>1, <1>2, <1>4, <1>7, <1>8, <1>9, QuietStep

\* TimeOut, and the part of Snap that is about the stream
LEMMA SnappingKeeps ==
  ASSUME IInv, NEW i \in 1..Len(stream), NEW b \in BOOLEAN,
         OneStream(i, [stream[i] EXCEPT !.snapping = b])
  PROVE  LET t == [stream[i] EXCEPT !.snapping = b] IN
         /\ t.filter = stream[i].filter /\ t.cache = stream[i].cache /\ t.out = stream[i].out
         /\ stream[i].id <= t.id /\ stream[i].listener <= t.listener
         /\ IdsOf(i, t, drops) /\ IdleOf(i, t, started)
<1> DEFINE t == [stream[i] EXCEPT !.snapping = b]
<1>1. stream[i] \in StreamRecord
  BY OfStream
<1>2. /\ t.filter = stream[i].filter /\ t.cache = stream[i].cache /\ t.out = stream[i].out
      /\ t.id = stream[i].id /\ t.listener = stream[i].listener /\ t.conn = stream[i].conn
  BY <1>1 DEF StreamRecord
<1>3. /\ stream[i].id \in Nat /\ stream[i].listener \in Nat
  BY <1>1, Fields
<1> HIDE DEF t
<1>4. IdsOf(i, stream[i], drops) /\ IdleOf(i, stream[i], started)
  BY OfStream
<1>5. stream[i].id <= t.id /\ stream[i].listener <= t.listener
  BY <1>2, <1>3
<1>6. IdsOf(i, t, drops)
  BY <1>2, <1>4 DEF IdsOf
<1>7. IdleOf(i, t, started)
  BY <1>2, <1>4 DEF IdleOf
<1> QED BY <1>2, <1>5, <1>6, <1>7 DEF t

LEMMA TimeOutKeeps ==
  ASSUME IInv, NEW i \in 1..Len(stream), TimeOut(i)
  PROVE  IInv'
<1> DEFINE t == [stream[i] EXCEPT !.snapping = TRUE]
<1>1. OneStream(i, t)
  BY TimeOutSets DEF IInv
<1>2. /\ t.filter = stream[i].filter /\ t.cache = stream[i].cache /\ t.out = stream[i].out
      /\ stream[i].id <= t.id /\ stream[i].listener <= t.listener
      /\ IdsOf(i, t, drops) /\ IdleOf(i, t, started)
  BY <1>1, SnappingKeeps
<1> HIDE DEF t
<1>3. drops' = drops /\ UNCHANGED <<engine, handler, delivery>>
  BY DEF TimeOut
<1>4. drops \in 0..MaxDrops /\ drops <= drops
  BY TypesOf DEF IInv, Types
<1> QED BY <1>1, <1>2, <1>3, <1>4, QuietStep

LEMMA EventMessage ==
  ASSUME IInv, NEW i \in 1..Len(stream), NEW v \in Nat,
         StreamId(i) < stream[i].id, StreamId(i) < stream[i].listener
  PROVE  /\ Event(i, v) \in Message /\ MessageOK(Event(i, v))
         /\ Event(i, v).stream = i /\ Event(i, v).version = v
<1>1. stream[i].listener \in Nat /\ stream[i].id \in Nat /\ i \in Nat
  BY OfStream, Fields
<1>2. /\ Event(i, v).stream = i /\ Event(i, v).version = v
      /\ Event(i, v).id = stream[i].listener /\ Event(i, v) \in Message
  BY <1>1 DEF Event, Message
<1> QED BY <1>1, <1>2 DEF MessageOK

\* The queues of a step that puts e at the end of handler_queue
LEMMA Handed ==
  ASSUME handler \in Seq(Message), NEW e \in Message, handler' = Append(handler, e)
  PROVE  handler' \in Seq(Message) /\ Range(handler') = Range(handler) \cup {e}
BY RangeOfAppend

LEMMA SnapKeeps ==
  ASSUME IInv, NEW i \in 1..Len(stream), Snap(i)
  PROVE  IInv'
<1> DEFINE t == [stream[i] EXCEPT !.snapping = FALSE]
<1>1. OneStream(i, t)
  BY SnapSets DEF IInv
<1>2. /\ t.filter = stream[i].filter /\ t.cache = stream[i].cache /\ t.out = stream[i].out
      /\ stream[i].id <= t.id /\ stream[i].listener <= t.listener
      /\ IdsOf(i, t, drops) /\ IdleOf(i, t, started)
  BY <1>1, SnappingKeeps
<1> HIDE DEF t
<1>3. drops' = drops /\ UNCHANGED <<engine, delivery>> /\ handler' = handler \o SnapOf(i)
  BY DEF Snap
<1>4. drops \in 0..MaxDrops /\ drops <= drops /\ handler \in Seq(Message)
  BY TypesOf DEF IInv, Types
<1>5. CASE SnapOf(i) = <<>>
  <2>1. handler' = handler
    BY <1>3, <1>4, <1>5
  <2> QED BY <2>1, <1>1, <1>2, <1>3, <1>4, QuietStep
<1>6. CASE SnapOf(i) # <<>>
  <2>1. SnapOf(i) = <<Event(i, stream[i].cache)>> /\ stream[i].cache > 0
    BY <1>6 DEF SnapOf
  <2>2. stream[i].cache \in Nat /\ StreamId(i) < stream[i].id /\ StreamId(i) < stream[i].listener
    BY <2>1, OfStream, Fields DEF IdsOf
  <2> DEFINE e == Event(i, stream[i].cache)
  <2>3. e \in Message /\ MessageOK(e)
    BY <2>2, EventMessage
  <2>4. SnapOf(i) = <<e>>
    BY <2>1
  <2> HIDE DEF e
  <2>5. handler' = Append(handler, e)
    BY <2>3, <2>4, <1>3, <1>4
  <2>6. handler' \in Seq(Message) /\ Range(handler') = Range(handler) \cup {e}
    BY <2>3, <2>5, <1>4, Handed
  <2>7. UNCHANGED <<strategies, subscribed, started, running, delivery>>
    BY <1>3 DEF engine
  <2>8. /\ running \in BOOLEAN /\ started \in Nat /\ started <= started
        /\ started <= Len(stream) /\ (started > 0 => strategies = Added)
    BY OfStream DEF IInv, Types
  <2>9. ThreadStep(i, t)
    BY <1>1, <1>2, <1>3, <1>4, <2>3, <2>6, <2>7, <2>8 DEF ThreadStep
  <2> QED BY <2>9, ThreadKeeps
<1> QED BY <1>5, <1>6

LEMMA ForwardKeeps ==
  ASSUME IInv, NEW i \in 1..Len(stream), Forward(i)
  PROVE  IInv'
<1> DEFINE t == [stream[i] EXCEPT !.out = Tail(@)]
<1>1. OneStream(i, t) /\ stream[i] \in StreamRecord
  BY ForwardSets, OfStream DEF IInv
<1>2. /\ t.filter = stream[i].filter /\ t.cache = stream[i].cache /\ t.out = Tail(stream[i].out)
      /\ t.id = stream[i].id /\ t.listener = stream[i].listener /\ t.conn = stream[i].conn
  BY <1>1 DEF StreamRecord
<1>3. /\ stream[i].id \in Nat /\ stream[i].listener \in Nat /\ stream[i].out \in Seq(Message)
  BY <1>1, Fields
<1> HIDE DEF t
<1>4. /\ stream[i].out # <<>> /\ handler' = Append(handler, Head(stream[i].out))
      /\ drops' = drops /\ UNCHANGED <<engine, delivery>>
  BY DEF Forward
<1>5. IdsOf(i, stream[i], drops) /\ IdleOf(i, stream[i], started)
  BY OfStream
<1>6. IdsOf(i, t, drops')
  BY <1>2, <1>4, <1>5 DEF IdsOf
<1>7. IdleOf(i, t, started)
  BY <1>2, <1>4, <1>5 DEF IdleOf
<1> DEFINE e == Head(stream[i].out)
<1>8. /\ e \in Message /\ Range(stream[i].out) = Range(t.out) \cup {e}
  BY <1>2, <1>3, <1>4, RangeOfTail
<1>9. handler \in Seq(Message) /\ handler' = Append(handler, e)
  BY <1>4 DEF IInv, Types
<1> HIDE DEF e
<1>10. handler' \in Seq(Message) /\ Range(handler') = Range(handler) \cup {e}
  BY <1>8, <1>9, Handed
<1>11. UNCHANGED <<strategies, subscribed, started, running, delivery>>
  BY <1>4 DEF engine
<1>12. /\ running \in BOOLEAN /\ started \in Nat /\ started <= started
       /\ started <= Len(stream) /\ (started > 0 => strategies = Added)
       /\ drops' \in 0..MaxDrops /\ drops <= drops'
  BY <1>4, OfStream DEF IInv, Types
<1>13. stream[i].id <= t.id /\ stream[i].listener <= t.listener
  BY <1>2, <1>3
<1>14. ThreadStep(i, t)
  BY <1>1, <1>2, <1>6, <1>7, <1>8, <1>10, <1>11, <1>12, <1>13 DEF ThreadStep
<1> QED BY <1>14, ThreadKeeps

LEMMA ReceiveKeeps ==
  ASSUME IInv, NEW i \in 1..Len(stream), Receive(i)
  PROVE  IInv'
<1> DEFINE v == stream[i].cache + 1  e == Event(i, v)
<1>1. /\ stream[i] \in StreamRecord /\ IdsOf(i, stream[i], drops) /\ IdleOf(i, stream[i], started)
      /\ StreamId(i) \in Nat /\ StreamId(i) > 0 /\ stream \in Seq(StreamRecord)
  <2>1. i \in Nat
    BY OfStream
  <2> QED BY <2>1, OfStream DEF StreamId, IdStep, IInv, Types
<1>2. /\ stream[i].id \in Nat /\ stream[i].listener \in Nat /\ stream[i].cache \in Nat
      /\ stream[i].out \in Seq(Message) /\ v \in Nat /\ v > 0
  BY <1>1, Fields
<1>3. /\ stream[i].conn = "up" /\ drops' = drops /\ UNCHANGED <<engine, delivery>>
  BY DEF Receive
<1>4. stream[i].listener = stream[i].id /\ StreamId(i) < stream[i].listener
  BY <1>1, <1>2, <1>3 DEF IdsOf
<1>5. e \in Message /\ MessageOK(e) /\ e.stream = i /\ e.version = v
  BY <1>2, <1>4, EventMessage
<1>6. /\ UNCHANGED <<strategies, subscribed, started, running, delivery>>
      /\ running' \in BOOLEAN /\ started' \in Nat /\ started <= started'
      /\ started' <= Len(stream) /\ (started' > 0 => strategies = Added)
      /\ drops' \in 0..MaxDrops /\ drops <= drops'
  BY <1>3, OfStream DEF IInv, Types, engine
<1>7. handler \in Seq(Message)
  BY DEF IInv, Types
<1>8. ASSUME NEW t \in StreamRecord, OneStream(i, t), t.filter = stream[i].filter,
             t.id = stream[i].id, t.listener = stream[i].listener, t.conn = "up", t.cache = v,
             handler' \in Seq(Message),
             Range(t.out) \cup Range(handler') =
               Range(stream[i].out) \cup Range(handler) \cup {e},
             Range(handler) \subseteq Range(handler')
      PROVE  IInv'
  <2>1. IdsOf(i, t, drops')
    BY <1>1, <1>2, <1>3, <1>4, <1>8 DEF IdsOf
  <2>2. IdleOf(i, t, started')
    BY <1>1, <1>3, <1>6, <1>8 DEF IdleOf
  <2>3. stream[i].id <= t.id /\ stream[i].listener <= t.listener
    BY <1>2, <1>8
  <2>4. \A m \in Range(t.out) \cup Range(handler') :
          m \in Range(stream[i].out) \cup Range(handler) \/ MessageOK(m)
    BY <1>5, <1>8
  <2>5. \E m \in Range(t.out) \cup Range(handler') : m.stream = i /\ m.version = t.cache
    BY <1>5, <1>8
  <2>6. Range(stream[i].out) \subseteq Range(t.out) \cup Range(handler')
    BY <1>8
  <2>7. ThreadStep(i, t)
    BY <1>6, <1>8, <2>1, <2>2, <2>3, <2>4, <2>5, <2>6 DEF ThreadStep
  <2> QED BY <2>7, ThreadKeeps
<1>9. CASE /\ handler' = Append(handler, e)
           /\ Becomes(i, [stream[i] EXCEPT !.cache = e.version])
  <2> DEFINE t == [stream[i] EXCEPT !.cache = v]
  <2>1. t \in StreamRecord
    BY <1>1, <1>2, CacheRecord
  <2>2. /\ t.filter = stream[i].filter /\ t.cache = v /\ t.out = stream[i].out
        /\ t.id = stream[i].id /\ t.listener = stream[i].listener /\ t.conn = stream[i].conn
    BY <1>1 DEF StreamRecord
  <2>3. stream' = [stream EXCEPT ![i] = t]
    BY <1>5, <1>9 DEF Becomes
  <2> HIDE DEF t, e, v
  <2>4. OneStream(i, t)
    BY <1>1, <2>1, <2>3, SetStream
  <2>5. handler' \in Seq(Message) /\ Range(handler') = Range(handler) \cup {e}
    BY <1>5, <1>7, <1>9, Handed
  <2>6. Range(t.out) \cup Range(handler') = Range(stream[i].out) \cup Range(handler) \cup {e}
    BY <2>2, <2>5
  <2> QED BY <1>3, <1>8, <2>1, <2>2, <2>4, <2>5, <2>6
<1>10. CASE /\ handler' = handler
            /\ Becomes(i, [stream[i] EXCEPT !.cache = e.version, !.out = Append(@, e)])
  <2> DEFINE o == Append(stream[i].out, e)  t == [stream[i] EXCEPT !.cache = v, !.out = o]
  <2> HIDE DEF e
  <2>1. o \in Seq(Message) /\ Range(o) = Range(stream[i].out) \cup {e}
    BY <1>2, <1>5, RangeOfAppend
  <2>2. stream' = [stream EXCEPT ![i] = t]
    BY <1>5, <1>10 DEF Becomes
  <2> HIDE DEF o
  <2>3. t \in StreamRecord
    BY <1>1, <1>2, <2>1, BookRecord
  <2>4. /\ t.filter = stream[i].filter /\ t.cache = v /\ t.out = o
        /\ t.id = stream[i].id /\ t.listener = stream[i].listener /\ t.conn = stream[i].conn
    BY <1>1 DEF StreamRecord
  <2> HIDE DEF t, v
  <2>5. OneStream(i, t)
    BY <1>1, <2>2, <2>3, SetStream
  <2>6. Range(t.out) \cup Range(handler') = Range(stream[i].out) \cup Range(handler) \cup {e}
    BY <2>1, <2>4, <1>10
  <2> QED BY <1>3, <1>7, <1>8, <1>10, <2>3, <2>4, <2>5, <2>6
<1> QED BY <1>9, <1>10 DEF Receive

LEMMA StartStreamKeeps ==
  ASSUME IInv, StartStream
  PROVE  IInv'
<1> DEFINE i == started + 1  t == [stream[i] EXCEPT !.conn = "down"]
<1>1. i \in 1..Len(stream) /\ started \in Nat
  BY TypesOf DEF IInv, StartStream
<1>2. /\ stream[i] \in StreamRecord /\ IdsOf(i, stream[i], drops) /\ IdleOf(i, stream[i], started)
      /\ StreamId(i) \in Nat /\ stream \in Seq(StreamRecord) /\ drops \in Nat
  BY <1>1, OfStream DEF IInv, Types
<1>3. t \in StreamRecord
  BY <1>2, ConnRecord DEF Connection
<1>4. stream' = [stream EXCEPT ![i] = t]
  BY DEF StartStream, Becomes
<1>5. /\ t.filter = stream[i].filter /\ t.cache = stream[i].cache /\ t.out = stream[i].out
      /\ t.id = stream[i].id /\ t.listener = stream[i].listener /\ t.conn = "down"
  BY <1>2 DEF StreamRecord
<1>6. stream[i].id \in Nat /\ stream[i].listener \in Nat
  BY <1>2, Fields
<1>7. /\ started' = i /\ strategies = Added /\ drops' = drops
      /\ UNCHANGED <<strategies, subscribed, running, handler, delivery>>
  BY DEF StartStream
<1> HIDE DEF t
<1>8. OneStream(i, t)
  BY <1>1, <1>2, <1>3, <1>4, SetStream
<1>9. stream[i].id = StreamId(i) /\ stream[i].listener = 0 /\ stream[i].cache = 0
  BY <1>1, <1>2 DEF IdleOf
<1>10. IdsOf(i, t, drops')
  BY <1>2, <1>5, <1>7, <1>9 DEF IdsOf
<1>11. IdleOf(i, t, started')
  BY <1>1, <1>5, <1>7 DEF IdleOf
<1>12. /\ drops' \in 0..MaxDrops /\ drops <= drops' /\ running' \in BOOLEAN
       /\ handler' \in Seq(Message) /\ handler' = handler
  BY <1>2, <1>7 DEF IInv, Types
<1>13. /\ started' \in Nat /\ started <= started' /\ started' <= Len(stream)
       /\ stream[i].id <= t.id /\ stream[i].listener <= t.listener
  BY <1>1, <1>5, <1>6, <1>7
<1>14. ThreadStep(i, t)
  BY <1>5, <1>7, <1>8, <1>10, <1>11, <1>12, <1>13 DEF ThreadStep
<1> QED BY <1>1, <1>14, ThreadKeeps

------------------------------------------------------------------------------
(* The steps of the main thread *)

\* Strategies are added while no stream has been started.
LEMMA AddedBefore ==
  ASSUME IInv, AddStrategy
  PROVE  /\ started = 0
         /\ \A j \in 1..Len(stream) : stream[j].conn = "idle"
<1>1. strategies # Added /\ started \in Nat
  BY TypesOf DEF AddStrategy, IInv
<1>2. started = 0
  BY <1>1 DEF IInv, MainOK
<1>3. \A j \in 1..Len(stream) : stream[j].conn = "idle"
  <2> TAKE j \in 1..Len(stream)
  <2>1. IdleOf(j, stream[j], started) /\ j > started
    BY <1>2, OfStream
  <2> QED BY <2>1 DEF IdleOf
<1> QED BY <1>2, <1>3

\* The stream of the strategy that is added, found or made
LEMMA AddedStream ==
  ASSUME IInv, AddStrategy
  PROVE  LET s == Added[Len(strategies) + 1] IN
         /\ s \in Strategy /\ strategies' = Append(strategies, s)
         /\ stream' \in Seq(StreamRecord) /\ Grows
         /\ \A j \in 1..Len(stream') :
              IdsOf(j, stream'[j], drops) /\ IdleOf(j, stream'[j], 0) /\ stream'[j].conn = "idle"
         /\ \E i \in 1..Len(stream') : subscribed' = [subscribed EXCEPT ![s] = i]
<1> DEFINE s == Added[Len(strategies) + 1]
<1>1. /\ stream \in Seq(StreamRecord) /\ Len(stream) \in Nat
      /\ \A j \in 1..Len(stream) : stream[j] \in StreamRecord
      /\ started = 0 /\ drops \in Nat
  BY TypesOf, AddedBefore DEF IInv
<1>2. s \in Strategy /\ strategies' = Append(strategies, s)
  <2>1. strategies \in Seq(Strategy) /\ Added \in Seq(Strategy) /\ Len(strategies) < Len(Added)
    BY FilterAssumption DEF IInv, Types, AddStrategy
  <2> QED BY <2>1 DEF AddStrategy
<1>3. FilterOf[s] \in Filter
  BY <1>2, FilterAssumption
<1>4. \A j \in 1..Len(stream) :
        IdsOf(j, stream[j], drops) /\ IdleOf(j, stream[j], 0) /\ stream[j].conn = "idle"
  BY <1>1, OfStream, AddedBefore
<1>5. CASE UNCHANGED stream /\ \E i \in Same(s) : subscribed' = [subscribed EXCEPT ![s] = i]
  <2>1. \A j \in 1..Len(stream) : stream[j].id \in Nat /\ stream[j].listener \in Nat
    BY <1>1, Fields
  <2>2. Grows
    BY <2>1, <1>1, <1>5 DEF Grows
  <2> QED BY <2>2, <1>1, <1>2, <1>4, <1>5 DEF Same
<1>6. CASE /\ stream' = Append(stream, NewStream(FilterOf[s]))
           /\ subscribed' = [subscribed EXCEPT ![s] = Len(stream')]
  <2> DEFINE n == Len(stream) + 1  t == NewStream(FilterOf[s])
  <2>1. StreamId(n) \in Nat /\ n \in Nat /\ n > 0
    BY <1>1 DEF StreamId, IdStep
  <2>2. /\ t.filter = FilterOf[s] /\ t.id = StreamId(n) /\ t.listener = 0 /\ t.conn = "idle"
        /\ t.cache = 0 /\ t.out = <<>>
    BY DEF NewStream
  <2>3. t \in StreamRecord
    BY <1>3, <2>1 DEF NewStream, StreamRecord, Connection
  <2> HIDE DEF t
  <2>4. stream' = Append(stream, t)
    BY <1>6 DEF t
  <2>5. /\ stream' \in Seq(StreamRecord) /\ Len(stream') = n /\ stream'[n] = t
        /\ \A j \in 1..Len(stream) : stream'[j] = stream[j]
    BY <2>3, <2>4, <1>1
  <2>6. \A j \in 1..Len(stream) : stream[j].id \in Nat /\ stream[j].listener \in Nat
    BY <1>1, Fields
  <2>7. Grows
    BY <2>5, <2>6, <1>1 DEF Grows
  <2>8. IdsOf(n, t, drops) /\ IdleOf(n, t, 0)
    BY <2>1, <2>2, <1>1 DEF IdsOf, IdleOf
  <2>9. \A j \in 1..Len(stream') :
          IdsOf(j, stream'[j], drops) /\ IdleOf(j, stream'[j], 0) /\ stream'[j].conn = "idle"
    <3> TAKE j \in 1..Len(stream')
    <3>1. j = n \/ j \in 1..Len(stream)
      BY <2>5, <1>1
    <3> QED BY <3>1, <2>2, <2>5, <2>8, <1>4
  <2>10. n \in 1..Len(stream') /\ subscribed' = [subscribed EXCEPT ![s] = n]
    BY <2>1, <2>5, <1>6
  <2> QED BY <1>2, <2>5, <2>7, <2>9, <2>10
<1> QED BY <1>5, <1>6 DEF AddStrategy

LEMMA AddStrategyKeeps ==
  ASSUME IInv, AddStrategy
  PROVE  IInv'
<1> DEFINE s == Added[Len(strategies) + 1]
<1>1. /\ s \in Strategy /\ strategies' = Append(strategies, s)
      /\ stream' \in Seq(StreamRecord) /\ Grows
      /\ \A j \in 1..Len(stream') :
           IdsOf(j, stream'[j], drops) /\ IdleOf(j, stream'[j], 0) /\ stream'[j].conn = "idle"
  BY AddedStream
<1>2. PICK i \in 1..Len(stream') : subscribed' = [subscribed EXCEPT ![s] = i]
  BY AddedStream
<1>3. started = 0 /\ UNCHANGED <<started, running, handler, event, at, received, drops>>
  BY AddedBefore DEF AddStrategy, delivery
<1> HIDE DEF s
<1>4. /\ strategies \in Seq(Strategy) /\ subscribed \in [Strategy -> Nat]
      /\ stream \in Seq(StreamRecord) /\ Len(stream') \in Nat
  BY <1>1 DEF IInv, Types
<1>5. strategies' \in Seq(Strategy) /\ Range(strategies') = Range(strategies) \cup {s}
      /\ strategies' # <<>> /\ Len(strategies') = Len(strategies) + 1 /\ Len(strategies) \in Nat
  <2>1. Append(strategies, s) \in Seq(Strategy)
        /\ Range(Append(strategies, s)) = Range(strategies) \cup {s}
    BY <1>1, <1>4, RangeOfAppend
  <2>2. Len(Append(strategies, s)) = Len(strategies) + 1 /\ Len(strategies) \in Nat
        /\ Append(strategies, s) # <<>>
    BY <1>1, <1>4
  <2> QED BY <2>1, <2>2, <1>1
<1>6. subscribed' \in [Strategy -> Nat]
  <2>1. i \in Nat
    BY <1>4
  <2> QED BY <2>1, <1>2, <1>4
<1>7. Types'
  BY <1>1, <1>3, <1>5, <1>6 DEF IInv, Types
<1>8. IdsOK'
  BY <1>1, <1>3 DEF IdsOK
<1>9. \A j \in 1..Len(stream') : stream'[j].cache = 0 /\ stream'[j].out = <<>>
  BY <1>1 DEF IdleOf
<1>10. QueuesOK'
  <2>1. \A e \in Range(handler) : e \in Message /\ MessageOK(e)'
    BY <1>1, <1>4, GrownMessage DEF IInv, Types, QueuesOK, Range
  <2>2. \A e \in Range(event) : e \in Message /\ MessageOK(e)'
    BY <1>1, <1>4, GrownMessage DEF IInv, Types, QueuesOK, Range
  <2>3. \A j \in 1..Len(stream') : Range(stream'[j].out) = {}
    BY <1>9 DEF Range
  <2> QED BY <1>3, <2>1, <2>2, <2>3 DEF QueuesOK
<1>11. MainOK'
  <2>1. event # <<>> => at \in 1..Len(strategies')
    BY <1>5 DEF IInv, MainOK
  <2> QED BY <2>1, <1>3, <1>4, <1>5 DEF IInv, MainOK
<1>12. SubscribedOK'
  <2> SUFFICES ASSUME NEW r \in Range(strategies')
               PROVE  subscribed'[r] \in 1..Len(stream')
    BY DEF SubscribedOK
  <2>1. CASE r = s
    BY <2>1, <1>1, <1>2, <1>4
  <2>2. CASE r # s
    <3>1. r \in Range(strategies) /\ subscribed'[r] = subscribed[r]
      BY <2>2, <1>2, <1>4, <1>5
    <3>2. subscribed[r] \in 1..Len(stream)
      BY <3>1 DEF IInv, SubscribedOK
    <3>3. subscribed[r] \in 1..Len(stream')
      BY <3>2, <1>1, <1>4 DEF Grows
    <3> QED BY <3>1, <3>3
  <2> QED BY <2>1, <2>2
<1>13. OwnOK'
  <2>1. \A n \in Strategy : received'[n] = {}
    BY <1>3 DEF IInv, MainOK
  <2> QED BY <2>1 DEF OwnOK
<1>14. AllArrive'
  <2> SUFFICES ASSUME NEW r \in Range(strategies')
               PROVE  Arrived(r)'
    BY DEF AllArrive
  <2>1. subscribed'[r] \in 1..Len(stream')
    BY <1>12 DEF SubscribedOK
  <2>2. 1..stream'[subscribed'[r]].cache = {}
    BY <2>1, <1>9
  <2> QED BY <2>2 DEF Arrived
<1> QED BY <1>7, <1>8, <1>10, <1>11, <1>12, <1>13, <1>14 DEF IInv

\* The main thread goes on, a market changes, or nothing happens.
LEMMA IdleKeeps ==
  ASSUME IInv, running' \in BOOLEAN,
         UNCHANGED <<strategies, subscribed, stream, started, handler, event, at, received, drops>>
  PROVE  IInv'
<1>1. Types'
  <2>1. Types
    BY DEF IInv
  <2> QED BY <2>1 DEF Types
<1>2. MainOK'
  BY DEF IInv, MainOK
<1>3. IdsOK'
  BY DEF IInv, IdsOK
<1>4. QueuesOK'
  <2>1. \A e : MessageOK(e)' <=> MessageOK(e)
    BY DEF MessageOK
  <2> QED BY <2>1 DEF IInv, QueuesOK
<1>5. SubscribedOK' /\ OwnOK'
  BY DEF IInv, SubscribedOK, OwnOK
<1>6. AllArrive'
  <2>1. \A s \in Range(strategies) : Arrived(s) => Arrived(s)'
    BY DEF Arrived, Reconnected, OnItsWay
  <2> QED BY <2>1 DEF IInv, AllArrive
<1> QED BY <1>1, <1>2, <1>3, <1>4, <1>5, <1>6 DEF IInv

\* A step that leaves the streams as they are
LEMMA StillStreams ==
  ASSUME IInv, UNCHANGED <<strategies, subscribed, stream, started, drops>>
  PROVE  /\ IdsOK' /\ SubscribedOK'
         /\ \A e : MessageOK(e)' <=> MessageOK(e)
         /\ \A i \in 1..Len(stream) : \A e \in Range(stream[i].out) : MessageOK(e)
<1>1. IdsOK'
  BY DEF IInv, IdsOK
<1>2. SubscribedOK'
  BY DEF IInv, SubscribedOK
<1>3. \A e : MessageOK(e)' <=> MessageOK(e)
  BY DEF MessageOK
<1> QED BY <1>1, <1>2, <1>3 DEF IInv, QueuesOK

LEMMA TakeEventKeeps ==
  ASSUME IInv, TakeEvent
  PROVE  IInv'
<1> DEFINE h == Head(handler)
<1>1. /\ UNCHANGED <<strategies, subscribed, stream, started, running, received, drops>>
      /\ event = <<>> /\ handler # <<>> /\ event' = <<h>> /\ handler' = Tail(handler) /\ at' = 1
  BY DEF TakeEvent, engine
<1>2. /\ handler' \in Seq(Message) /\ h \in Message /\ Range(handler) = Range(handler') \cup {h}
  <2>1. handler \in Seq(Message)
    BY DEF IInv, Types
  <2> QED BY <1>1, <2>1, RangeOfTail
<1> HIDE DEF h
<1>3. /\ event' \in Seq(Message) /\ Len(event') = 1 /\ Range(event') = {h} /\ event' # <<>>
      /\ event'[1] = h
  BY <1>1, <1>2, RangeOfOne
<1>4. /\ IdsOK' /\ SubscribedOK'
      /\ \A e : MessageOK(e)' <=> MessageOK(e)
      /\ \A i \in 1..Len(stream) : \A e \in Range(stream[i].out) : MessageOK(e)
  BY <1>1, StillStreams
<1>5. \A e \in Range(handler) : MessageOK(e)
  BY DEF IInv, QueuesOK
<1>6. QueuesOK'
  BY <1>1, <1>2, <1>3, <1>4, <1>5 DEF QueuesOK
<1>7. Types'
  <2>1. Types
    BY DEF IInv
  <2>2. at' \in Nat /\ Len(event') <= 1
    BY <1>1, <1>3
  <2> QED BY <2>1, <2>2, <1>1, <1>2, <1>3 DEF Types
<1>8. strategies # <<>> /\ 1 \in 1..Len(strategies) /\ Len(strategies) \in Nat
      /\ DOMAIN strategies = 1..Len(strategies)
  <2>1. h.stream \in 1..Len(stream)
    BY <1>2, <1>5 DEF MessageOK
  <2>2. stream # <<>>
    BY <2>1, TypesOf DEF IInv
  <2>3. strategies # <<>> /\ strategies \in Seq(Strategy)
    BY <2>2 DEF IInv, MainOK, Types
  <2> QED BY <2>3
<1>9. MainOK'
  BY <1>1, <1>8 DEF IInv, MainOK
<1>10. OwnOK'
  BY <1>1 DEF IInv, OwnOK
<1>11. ASSUME NEW s \in Range(strategies), NEW i, NEW v, OnItsWay(i, v, s)
       PROVE  OnItsWay(i, v, s)'
  <2>1. PICK e \in Range(stream[i].out) \cup Range(handler) : e.stream = i /\ e.version = v
    BY <1>1, <1>11 DEF OnItsWay
  <2>2. CASE e = h
    <3>1. PICK k \in 1..Len(strategies) : strategies[k] = s
      BY <1>8 DEF Range
    <3> QED BY <3>1, <2>1, <2>2, <1>1, <1>3 DEF OnItsWay
  <2>3. CASE e # h
    BY <2>1, <2>3, <1>1, <1>2 DEF OnItsWay
  <2> QED BY <2>2, <2>3
<1>12. AllArrive'
  <2> SUFFICES ASSUME NEW s \in Range(strategies), NEW i, i = subscribed[s],
                      ~Reconnected(i), NEW v \in 1..stream[i].cache
               PROVE  <<i, v>> \in received[s] \/ OnItsWay(i, v, s)'
    BY <1>1 DEF AllArrive, Arrived, Reconnected, OnItsWay
  <2>1. <<i, v>> \in received[s] \/ OnItsWay(i, v, s)
    BY DEF IInv, AllArrive, Arrived
  <2> QED BY <2>1, <1>11
<1> QED BY <1>4, <1>6, <1>7, <1>9, <1>10, <1>12 DEF IInv

\* The ids of two streams never meet.
LEMMA IdsApart ==
  ASSUME IInv, MaxDrops < IdStep - 1, NEW e \in Message, MessageOK(e),
         NEW j \in 1..Len(stream), e.id = stream[j].id
  PROVE  e.stream = j
<1> DEFINE i == e.stream
<1>1. i \in 1..Len(stream) /\ StreamId(i) < e.id /\ e.id <= stream[i].listener
  BY DEF MessageOK
<1>2. /\ stream[i] \in StreamRecord /\ stream[j] \in StreamRecord
      /\ IdsOf(i, stream[i], drops) /\ IdsOf(j, stream[j], drops) /\ drops \in Nat
  BY <1>1, OfStream
<1>3. /\ stream[i].listener \in Nat /\ stream[j].listener \in Nat /\ stream[j].id \in Nat
      /\ e.id \in Nat
  BY <1>2, Fields DEF Message
<1>4. drops <= 998
  BY <1>2, FilterAssumption DEF IInv, Types, IdStep
<1>5. /\ stream[i].listener <= StreamId(i) + drops + 1 /\ StreamId(j) <= stream[j].id
      /\ (stream[j].id <= StreamId(j) + drops \/ stream[j].id <= stream[j].listener)
      /\ stream[j].listener <= StreamId(j) + drops + 1
  <2>1. stream[j].conn \in {"idle", "down", "subscribing", "up"}
    BY <1>2, Fields DEF Connection
  <2> QED BY <2>1, <1>2, <1>3 DEF IdsOf
<1>6. i \in Nat /\ j \in Nat /\ StreamId(i) = 1000 * (i + 1) /\ StreamId(j) = 1000 * (j + 1)
  BY <1>1, TypesOf DEF StreamId, IdStep, IInv
<1> HIDE DEF i
<1>7. /\ 1000 * (i + 1) < e.id /\ e.id <= 1000 * (i + 1) + 999
      /\ 1000 * (j + 1) <= e.id /\ e.id <= 1000 * (j + 1) + 999
  <2>1. StreamId(i) \in Nat /\ StreamId(j) \in Nat
    BY <1>6, SMT
  <2>2. e.id <= StreamId(i) + 999
    <3>1. e.id <= stream[i].listener /\ stream[i].listener <= StreamId(i) + drops + 1
      BY <1>1, <1>5
    <3>2. drops \in Nat /\ e.id \in Nat /\ stream[i].listener \in Nat
      BY <1>2, <1>3
    <3> QED BY <3>1, <3>2, <2>1, <1>4, SMT
  <2>3. e.id <= StreamId(j) + 999
    <3>1. /\ e.id <= StreamId(j) + drops \/ e.id <= StreamId(j) + drops + 1
          /\ drops \in Nat /\ e.id \in Nat
      BY <2>1, <1>2, <1>3, <1>5
    <3> QED BY <3>1, <2>1, <1>4, SMT
  <2>4. e.id >= StreamId(j)
    BY <1>5
  <2> QED BY <2>2, <2>3, <2>4, <1>1, <1>6, SMT
<1>8. i < j + 1 /\ j < i + 1
  BY <1>3, <1>6, <1>7, SMT
<1> QED BY <1>6, <1>8 DEF i

LEMMA OfferKeeps ==
  ASSUME IInv, MaxDrops < IdStep - 1, Offer
  PROVE  IInv'
<1> DEFINE s == strategies[at]  e == event[1]  r == <<e.stream, e.version>>
<1>1. /\ UNCHANGED <<strategies, subscribed, stream, started, running, handler, drops>>
      /\ event # <<>>
      /\ received' = [received EXCEPT ![s] = IF Wanted(s, e) THEN @ \cup {r} ELSE @]
      /\ \/ at < Len(strategies) /\ at' = at + 1 /\ event' = event
         \/ at = Len(strategies) /\ at' = 0 /\ event' = <<>>
  BY DEF Offer, engine
<1>2. /\ strategies \in Seq(Strategy) /\ event \in Seq(Message) /\ Len(event) <= 1
      /\ at \in Nat /\ received \in [Strategy -> SUBSET (Nat \X Nat)]
      /\ handler \in Seq(Message) /\ Len(strategies) \in Nat
  BY DEF IInv, Types
<1>3. at \in 1..Len(strategies) /\ s \in Strategy /\ s \in Range(strategies)
  <2>1. at \in 1..Len(strategies)
    BY <1>1 DEF IInv, MainOK
  <2> QED BY <2>1, <1>2 DEF Range
<1>4. e \in Message /\ MessageOK(e) /\ r \in Nat \X Nat /\ r[1] = e.stream
  <2>1. e \in Range(event) /\ e \in Message
    BY <1>1, <1>2 DEF Range
  <2>2. MessageOK(e)
    BY <2>1 DEF IInv, QueuesOK
  <2> QED BY <2>1, <2>2 DEF Message
<1>5. subscribed[s] \in 1..Len(stream)
  BY <1>3 DEF IInv, SubscribedOK
<1> HIDE DEF e, s, r
<1>6. Wanted(s, e) => e.stream = subscribed[s]
  BY <1>4, <1>5, IdsApart DEF Wanted, StreamIds
<1>7. /\ \A n \in Strategy : received[n] \subseteq received'[n]
      /\ \A n \in Strategy : received'[n] \subseteq received[n] \/ (n = s /\ Wanted(s, e))
      /\ received'[s] \subseteq received[s] \cup {r}
      /\ Wanted(s, e) => r \in received'[s]
      /\ received' \in [Strategy -> SUBSET (Nat \X Nat)]
  BY <1>1, <1>2, <1>3, <1>4
<1>8. /\ IdsOK' /\ SubscribedOK'
      /\ \A m : MessageOK(m)' <=> MessageOK(m)
      /\ \A i \in 1..Len(stream) : \A m \in Range(stream[i].out) : MessageOK(m)
  BY <1>1, StillStreams
<1>9. QueuesOK'
  <2>1. Range(event') \subseteq Range(event)
    BY <1>1 DEF Range
  <2>2. \A m \in Range(event) : MessageOK(m)
    BY DEF IInv, QueuesOK
  <2>3. \A m \in Range(handler) : MessageOK(m)
    BY DEF IInv, QueuesOK
  <2> QED BY <2>1, <2>2, <2>3, <1>1, <1>8 DEF QueuesOK
<1>10. Types'
  <2>1. event' \in Seq(Message) /\ Len(event') <= 1 /\ at' \in Nat
    <3>1. <<>> \in Seq(Message) /\ Len(<<>>) = 0
      BY RangeOfNone
    <3>2. CASE at < Len(strategies) /\ at' = at + 1 /\ event' = event
      BY <3>2, <1>2
    <3>3. CASE at = Len(strategies) /\ at' = 0 /\ event' = <<>>
      BY <3>1, <3>3
    <3> QED BY <3>2, <3>3, <1>1
  <2>2. Types
    BY DEF IInv
  <2> QED BY <2>1, <2>2, <1>1, <1>7 DEF Types
<1>11. MainOK'
  <2>1. event' # <<>> => at' \in 1..Len(strategies)
    BY <1>1, <1>2, <1>3
  <2>2. started # 0
    <3>1. SUFFICES ASSUME started = 0 PROVE FALSE
      OBVIOUS
    <3>2. e.stream \in 1..Len(stream) /\ StreamId(e.stream) < e.id
          /\ e.id <= stream[e.stream].listener
      BY <1>4 DEF MessageOK
    <3>3. e.stream > started /\ IdleOf(e.stream, stream[e.stream], started)
          /\ StreamId(e.stream) \in Nat
      BY <3>1, <3>2, OfStream
    <3>4. stream[e.stream].listener = 0
      BY <3>3 DEF IdleOf
    <3>5. e.id \in Nat
      BY <1>4 DEF Message
    <3> QED BY <3>2, <3>3, <3>4, <3>5
  <2> QED BY <2>1, <2>2, <1>1 DEF IInv, MainOK
<1>12. OwnOK'
  <2> SUFFICES ASSUME NEW n \in Strategy, NEW q \in received'[n]
               PROVE  q[1] = subscribed[n]
    BY <1>1 DEF OwnOK
  <2>1. CASE q \in received[n]
    BY <2>1 DEF IInv, OwnOK
  <2>2. CASE q \notin received[n]
    <3>1. n = s /\ Wanted(s, e) /\ q = r
      BY <2>2, <1>7
    <3> QED BY <3>1, <1>4, <1>6
  <2> QED BY <2>1, <2>2
<1>13. AllArrive'
  <2> SUFFICES ASSUME NEW n \in Range(strategies), NEW i, i = subscribed[n],
                      ~Reconnected(i), NEW v \in 1..stream[i].cache
               PROVE  <<i, v>> \in received'[n] \/ OnItsWay(i, v, n)'
    BY <1>1 DEF AllArrive, Arrived, Reconnected, OnItsWay
  <2>1. n \in Strategy /\ i \in 1..Len(stream)
    BY <1>2 DEF Range, IInv, SubscribedOK
  <2>2. CASE <<i, v>> \in received[n]
    BY <2>1, <2>2, <1>7
  <2>3. CASE \E m \in Range(stream[i].out) \cup Range(handler) : m.stream = i /\ m.version = v
    BY <2>3, <1>1 DEF OnItsWay
  <2>4. CASE /\ e.stream = i /\ e.version = v
             /\ \E k \in at..Len(strategies) : strategies[k] = n
    <3>1. PICK k \in at..Len(strategies) : strategies[k] = n
      BY <2>4
    <3>2. CASE k = at
      <4>1. n = s
        BY <3>1, <3>2 DEF s
      <4>2. e.id = stream[i].id
        <5>1. /\ stream[i] \in StreamRecord /\ IdsOf(i, stream[i], drops) /\ StreamId(i) \in Nat
          BY <2>1, OfStream
        <5>2. /\ stream[i].id \in Nat /\ stream[i].listener \in Nat /\ e.id \in Nat
          BY <5>1, <1>4, Fields DEF Message
        <5>3. /\ StreamId(i) < e.id /\ e.id <= stream[i].listener
              /\ stream[i].id > StreamId(i)
          BY <2>4, <1>4 DEF MessageOK
        <5>4. stream[i].listener <= StreamId(i) + 1
          BY <5>1, <5>2 DEF Reconnected
        <5>5. stream[i].id <= stream[i].listener
          BY <5>1, <5>2, <5>3, <5>4 DEF IdsOf
        <5> QED BY <5>1, <5>2, <5>3, <5>4, <5>5
      <4>3. Wanted(s, e)
        BY <4>1, <4>2 DEF Wanted, StreamIds
      <4> QED BY <4>1, <4>3, <2>4, <1>7 DEF r
    <3>3. CASE k # at
      <4>1. at < Len(strategies) /\ k \in (at + 1)..Len(strategies)
        BY <3>1, <3>3, <1>2
      <4>2. at' = at + 1 /\ event' = event
        BY <4>1, <1>1, <1>2
      <4> QED BY <4>1, <4>2, <3>1, <2>4, <1>1 DEF OnItsWay, e
    <3> QED BY <3>2, <3>3
  <2>5. <<i, v>> \in received[n] \/ OnItsWay(i, v, n)
    BY DEF IInv, AllArrive, Arrived
  <2> QED BY <2>2, <2>3, <2>4, <2>5 DEF OnItsWay, e
<1> QED BY <1>8, <1>9, <1>10, <1>11, <1>12, <1>13 DEF IInv

------------------------------------------------------------------------------
LEMMA InitHolds ==
  Init => IInv
<1> SUFFICES ASSUME Init PROVE IInv
  OBVIOUS
<1>1. Types
  <2>1. /\ strategies \in Seq(Strategy) /\ stream \in Seq(StreamRecord)
        /\ handler \in Seq(Message) /\ event \in Seq(Message) /\ Len(event) <= 1
    <3>1. \A S : <<>> \in Seq(S)
      BY RangeOfNone
    <3>2. Len(event) = 0
      BY RangeOfNone DEF Init
    <3> QED BY <3>1, <3>2 DEF Init
  <2>2. started \in Nat /\ running \in BOOLEAN /\ at \in Nat
    BY DEF Init
  <2>3. drops \in 0..MaxDrops
    <3>1. MaxDrops \in Nat
      BY FilterAssumption
    <3> QED BY <3>1 DEF Init
  <2>4. subscribed \in [Strategy -> Nat]
    BY DEF Init
  <2>5. received \in [Strategy -> SUBSET (Nat \X Nat)]
    BY DEF Init
  <2> QED BY <2>1, <2>2, <2>3, <2>4, <2>5 DEF Types
<1>2. Len(stream) = 0 /\ 1..Len(stream) = {} /\ Range(handler) = {} /\ Range(event) = {}
  BY DEF Init, Range
<1>3. IdsOK /\ QueuesOK
  BY <1>2 DEF IdsOK, QueuesOK
<1>4. MainOK
  BY <1>2 DEF Init, MainOK
<1>5. SubscribedOK /\ AllArrive
  BY DEF Init, Range, SubscribedOK, AllArrive
<1>6. OwnOK
  BY DEF Init, OwnOK
<1> QED BY <1>1, <1>3, <1>4, <1>5, <1>6 DEF IInv

LEMMA NextKeeps ==
  ASSUME IInv, MaxDrops < IdStep - 1, [Next]_vars
  PROVE  IInv'
<1>1. CASE AddStrategy
  BY <1>1, AddStrategyKeeps
<1>2. CASE StartStream
  BY <1>2, StartStreamKeeps
<1>3. CASE Started
  BY <1>3, IdleKeeps DEF Started, delivery
<1>4. CASE TakeEvent
  BY <1>4, TakeEventKeeps
<1>5. CASE Offer
  BY <1>5, OfferKeeps
<1>6. CASE \E i \in 1..Len(stream) : StreamThread(i) \/ Drop(i) \/ OutputThread(i)
  <2>1. PICK i \in 1..Len(stream) : StreamThread(i) \/ Drop(i) \/ OutputThread(i)
    BY <1>6
  <2>2. CASE StreamThread(i)
    BY <2>2, SubscribeKeeps, SubscribedKeeps, ReceiveKeeps DEF StreamThread
  <2>3. CASE Drop(i)
    BY <2>3, DropKeeps
  <2>4. CASE OutputThread(i)
    BY <2>4, ForwardKeeps, TimeOutKeeps, SnapKeeps DEF OutputThread
  <2> QED BY <2>1, <2>2, <2>3, <2>4
<1>7. CASE \E f \in Filter : Publish(f)
  <2>1. running \in BOOLEAN
    BY DEF IInv, Types
  <2> QED BY <2>1, <1>7, IdleKeeps DEF Publish, engine, delivery
<1>8. CASE UNCHANGED vars
  <2>1. running \in BOOLEAN
    BY DEF IInv, Types
  <2> QED BY <2>1, <1>8, IdleKeeps DEF vars
<1> QED BY <1>1, <1>2, <1>3, <1>4, <1>5, <1>6, <1>7, <1>8 DEF Next, MainThread

LEMMA IInvDelivers ==
  IInv => Delivered
<1> SUFFICES ASSUME IInv, NEW s \in Range(strategies)
             PROVE  /\ \A r \in received[s] : r[1] = subscribed[s]
                    /\ Arrived(s)
  BY DEF Delivered, Arrived
<1>1. s \in Strategy
  BY DEF IInv, Types, Range
<1> QED BY <1>1 DEF IInv, OwnOK, AllArrive

\* Whatever strategies share whatever streams, a strategy is given all that its
\* stream received until it subscribed again, and nothing of another stream,
\* while fewer connections are lost than the ids of two streams are apart
\* (streams.py: _increment_stream_id; strategy.py: stream_ids).
THEOREM DeliveredSafe ==
  ASSUME MaxDrops < IdStep - 1
  PROVE  Spec => []Delivered
<1>1. IInv /\ [Next]_vars => IInv'
  BY NextKeeps
<1> QED BY <1>1, InitHolds, IInvDelivers, PTL DEF Spec

------------------------------------------------------------------------------
(* The types, exactly *)

\* Every stream is asked for something else: a stream serves who asks for the same.
Distinct ==
  \A i, j \in 1..Len(stream) : stream[i].filter = stream[j].filter => i = j
\* The threads run from Streams.start on.
Running == \A i \in 1..Len(stream) : i <= started => stream[i].conn # "idle"
\* A stream has received no more than its market has changed.
CacheOK == \A i \in 1..Len(stream) : stream[i].cache <= published[stream[i].filter]
AddedSoFar ==
  /\ Len(strategies) <= Len(Added)
  /\ \A k \in 1..Len(strategies) : strategies[k] = Added[k]
TInv ==
  /\ AddedSoFar /\ \A s \in Strategy : s \in Range(strategies) \/ subscribed[s] = 0
  /\ Distinct /\ Running /\ CacheOK
  /\ published \in [Filter -> Nat] /\ \A f \in Filter : published[f] <= MaxUpdates[f]
  /\ event = <<>> => at = 0
  /\ known \subseteq Filter

\* A step of a thread, or of the main thread that starts one: stream i becomes t.
Works(i, t) ==
  /\ OneStream(i, t)
  /\ t.filter = stream[i].filter /\ t.conn # "idle"
  /\ t.cache <= published[stream[i].filter]
  /\ started' = started \/ (started' = i /\ i = started + 1)
  /\ UNCHANGED <<strategies, subscribed, published, event, at, known>>

LEMMA ThreadTInv ==
  ASSUME Types, TInv, NEW i \in 1..Len(stream), NEW t, Works(i, t)
  PROVE  TInv'
<1>1. /\ Len(stream') = Len(stream) /\ stream'[i] = t /\ Len(stream) \in Nat /\ started \in Nat
      /\ \A j \in 1..Len(stream) : j # i => stream'[j] = stream[j]
  BY TypesOf DEF Works, OneStream
<1>2. \A j \in 1..Len(stream) : stream'[j].filter = stream[j].filter
  BY <1>1 DEF Works
<1>3. Distinct'
  BY <1>1, <1>2 DEF TInv, Distinct
<1>4. Running'
  <2> SUFFICES ASSUME NEW j \in 1..Len(stream), j <= started', j # i
               PROVE  stream[j].conn # "idle"
    BY <1>1 DEF Running, Works
  <2>1. j <= started
    BY <1>1 DEF Works
  <2> QED BY <2>1 DEF TInv, Running
<1>5. CacheOK'
  BY <1>1 DEF TInv, CacheOK, Works
<1> QED BY <1>3, <1>4, <1>5 DEF TInv, AddedSoFar, Works

\* The thread of a stream and a lost connection
LEMMA SubscribeTInv ==
  ASSUME Types, TInv, NEW i \in 1..Len(stream), Subscribe(i) PROVE TInv'
<1> DEFINE t == [stream[i] EXCEPT !.conn = "subscribing", !.listener = stream[i].id + 1]
<1>1. OneStream(i, t) /\ stream[i] \in StreamRecord
  BY SubscribeSets, TypesOf
<1>2. t.filter = stream[i].filter /\ t.conn = "subscribing" /\ t.cache = stream[i].cache
  BY <1>1 DEF StreamRecord
<1>3. /\ UNCHANGED <<strategies, subscribed, published, event, at, known>> /\ started' = started
      /\ stream[i].cache <= published[stream[i].filter]
  BY DEF Subscribe, engine, delivery, TInv, CacheOK
<1> HIDE DEF t
<1>4. Works(i, t)
  BY <1>1, <1>2, <1>3 DEF Works
<1> QED BY <1>4, ThreadTInv

LEMMA SubscribedTInv ==
  ASSUME Types, TInv, NEW i \in 1..Len(stream), Subscribed(i) PROVE TInv'
<1> DEFINE t == [stream[i] EXCEPT !.conn = "up", !.id = stream[i].listener]
<1>1. OneStream(i, t) /\ stream[i] \in StreamRecord
  BY SubscribedSets, TypesOf
<1>2. t.filter = stream[i].filter /\ t.conn = "up" /\ t.cache = stream[i].cache
  BY <1>1 DEF StreamRecord
<1>3. /\ UNCHANGED <<strategies, subscribed, published, event, at, known>> /\ started' = started
      /\ stream[i].cache <= published[stream[i].filter]
  BY DEF Subscribed, engine, delivery, TInv, CacheOK
<1> HIDE DEF t
<1>4. Works(i, t)
  BY <1>1, <1>2, <1>3 DEF Works
<1> QED BY <1>4, ThreadTInv

LEMMA DropTInv ==
  ASSUME Types, TInv, NEW i \in 1..Len(stream), Drop(i) PROVE TInv'
<1> DEFINE t == [stream[i] EXCEPT !.conn = "down"]
<1>1. OneStream(i, t) /\ stream[i] \in StreamRecord
  BY DropSets, TypesOf
<1>2. t.filter = stream[i].filter /\ t.conn = "down" /\ t.cache = stream[i].cache
  BY <1>1 DEF StreamRecord
<1>3. /\ UNCHANGED <<strategies, subscribed, published, event, at, known>> /\ started' = started
      /\ stream[i].cache <= published[stream[i].filter]
  BY DEF Drop, engine, delivery, TInv, CacheOK
<1> HIDE DEF t
<1>4. Works(i, t)
  BY <1>1, <1>2, <1>3 DEF Works
<1> QED BY <1>4, ThreadTInv

LEMMA ReceiveTInv ==
  ASSUME Types, TInv, NEW i \in 1..Len(stream), Receive(i) PROVE TInv'
<1> DEFINE n == stream[i].cache + 1  e == Event(i, n)
<1>1. /\ stream[i] \in StreamRecord /\ stream[i].conn = "up" /\ n \in Nat
      /\ stream[i].filter \in Filter /\ published[stream[i].filter] \in Nat
  BY TypesOf, Fields DEF Receive, TInv
<1>2. stream[i].cache < published[stream[i].filter] /\ stream[i].cache \in Nat
  BY <1>1, Fields DEF Receive
<1>3. n <= published[stream[i].filter]
  BY <1>1, <1>2
<1>4. UNCHANGED <<strategies, subscribed, published, event, at, known>> /\ started' = started
  BY DEF Receive, engine, delivery
<1>5. e \in Message /\ e.version = n
  <2>1. i \in Nat /\ stream[i].listener \in Nat
    BY <1>1, TypesOf, Fields
  <2> QED BY <2>1, <1>1 DEF Event, Message
<1>6. CASE stream' = [stream EXCEPT ![i] = [stream[i] EXCEPT !.cache = e.version]]
  <2> DEFINE t == [stream[i] EXCEPT !.cache = e.version]
  <2>1. t \in StreamRecord
    BY <1>1, <1>5, CacheRecord
  <2>2. OneStream(i, t)
    BY <2>1, <1>6, SetStream, TypesOf
  <2>3. t.filter = stream[i].filter /\ t.conn = "up" /\ t.cache = n
    BY <1>1, <1>5 DEF StreamRecord
  <2> HIDE DEF t
  <2>4. Works(i, t)
    BY <2>2, <2>3, <1>3, <1>4 DEF Works
  <2> QED BY <2>4, ThreadTInv
<1>7. CASE stream' = [stream EXCEPT ![i] =
                        [stream[i] EXCEPT !.cache = e.version, !.out = Append(@, e)]]
  <2> DEFINE t == [stream[i] EXCEPT !.cache = e.version, !.out = Append(@, e)]
  <2>1. stream[i].out \in Seq(Message)
    BY <1>1, Fields
  <2>2. Append(stream[i].out, e) \in Seq(Message)
    BY <2>1, <1>5
  <2>3. t \in StreamRecord
    BY <2>2, <1>1, <1>5, BookRecord
  <2>4. OneStream(i, t)
    BY <2>3, <1>7, SetStream, TypesOf
  <2>5. t.filter = stream[i].filter /\ t.conn = "up" /\ t.cache = n
    BY <1>1, <1>5 DEF StreamRecord
  <2> HIDE DEF t
  <2>6. Works(i, t)
    BY <2>4, <2>5, <1>3, <1>4 DEF Works
  <2> QED BY <2>6, ThreadTInv
<1> QED BY <1>6, <1>7 DEF Receive, Becomes

\* The output thread touches neither the connection nor the cache.
LEMMA OutputTInv ==
  ASSUME Types, TInv, NEW i \in 1..Len(stream), OutputThread(i) PROVE TInv'
<1>1. /\ stream[i] \in StreamRecord /\ i <= started
      /\ stream[i].cache <= published[stream[i].filter] /\ stream[i].conn # "idle"
      /\ UNCHANGED <<strategies, subscribed, published, event, at, known>> /\ started' = started
  BY TypesOf DEF OutputThread, Forward, TimeOut, Snap, Output, engine, delivery,
                 TInv, CacheOK, Running
<1>2. ASSUME NEW t, OneStream(i, t), t.filter = stream[i].filter,
             t.conn = stream[i].conn, t.cache = stream[i].cache
      PROVE  TInv'
  <2>1. Works(i, t)
    BY <1>1, <1>2 DEF Works
  <2> QED BY <2>1, ThreadTInv
<1>3. CASE Forward(i)
  <2> DEFINE t == [stream[i] EXCEPT !.out = Tail(@)]
  <2>1. t.filter = stream[i].filter /\ t.conn = stream[i].conn /\ t.cache = stream[i].cache
    BY <1>1 DEF StreamRecord
  <2> QED BY <2>1, <1>2, <1>3, ForwardSets
<1>4. CASE TimeOut(i)
  <2> DEFINE t == [stream[i] EXCEPT !.snapping = TRUE]
  <2>1. t.filter = stream[i].filter /\ t.conn = stream[i].conn /\ t.cache = stream[i].cache
    BY <1>1 DEF StreamRecord
  <2> QED BY <2>1, <1>2, <1>4, TimeOutSets
<1>5. CASE Snap(i)
  <2> DEFINE t == [stream[i] EXCEPT !.snapping = FALSE]
  <2>1. t.filter = stream[i].filter /\ t.conn = stream[i].conn /\ t.cache = stream[i].cache
    BY <1>1 DEF StreamRecord
  <2> QED BY <2>1, <1>2, <1>5, SnapSets
<1> QED BY <1>3, <1>4, <1>5 DEF OutputThread

LEMMA StartStreamTInv ==
  ASSUME Types, TInv, StartStream PROVE TInv'
<1> DEFINE i == started + 1  t == [stream[i] EXCEPT !.conn = "down"]
<1>1. /\ i \in 1..Len(stream) /\ started \in Nat /\ stream[i] \in StreamRecord
      /\ stream \in Seq(StreamRecord)
  <2>1. started \in Nat /\ Len(stream) \in Nat /\ started < Len(stream)
    BY TypesOf DEF StartStream
  <2> QED BY <2>1, TypesOf
<1>2. t \in StreamRecord
  BY <1>1, ConnRecord DEF Connection
<1>3. OneStream(i, t)
  BY <1>1, <1>2, SetStream DEF StartStream, Becomes
<1>4. t.filter = stream[i].filter /\ t.conn = "down" /\ t.cache = stream[i].cache
  BY <1>1 DEF StreamRecord
<1>5. /\ UNCHANGED <<strategies, subscribed, published, event, at, known>> /\ started' = i
      /\ stream[i].cache <= published[stream[i].filter]
  BY <1>1 DEF StartStream, delivery, TInv, CacheOK
<1> HIDE DEF t
<1>6. Works(i, t)
  BY <1>1, <1>3, <1>4, <1>5 DEF Works
<1> QED BY <1>1, <1>6, ThreadTInv

\* A strategy shares the stream that is asked for the same, if there is one.
LEMMA AddStrategyTInv ==
  ASSUME IInv, TInv, AddStrategy PROVE TInv'
<1> DEFINE s == Added[Len(strategies) + 1]
<1>1. /\ strategies' = Append(strategies, s)
      /\ UNCHANGED <<started, published, event, at, known>>
      /\ started = 0 /\ Len(strategies) < Len(Added)
  BY AddedBefore DEF AddStrategy, delivery
<1>2. /\ strategies \in Seq(Strategy) /\ Added \in Seq(Strategy) /\ s \in Strategy
      /\ subscribed \in [Strategy -> Nat] /\ stream \in Seq(StreamRecord) /\ Len(stream) \in Nat
      /\ \A j \in 1..Len(stream) : stream[j] \in StreamRecord
  BY AddedStream, TypesOf, FilterAssumption DEF IInv, Types
<1>3. AddedSoFar'
  <2>1. /\ Len(strategies') = Len(strategies) + 1 /\ Len(strategies) \in Nat
        /\ strategies'[Len(strategies) + 1] = s
        /\ \A k \in 1..Len(strategies) : strategies'[k] = strategies[k]
    BY <1>1, <1>2
  <2>2. Len(Added) \in Nat
    BY <1>2
  <2> QED BY <2>1, <2>2, <1>1 DEF TInv, AddedSoFar
<1>4. \A n \in Strategy : n \in Range(strategies') \/ subscribed'[n] = 0
  <2>1. Range(strategies') = Range(strategies) \cup {s}
    BY <1>1, <1>2, RangeOfAppend
  <2>2. \E i \in 1..Len(stream') : subscribed' = [subscribed EXCEPT ![s] = i]
    BY AddedStream
  <2>3. \A n \in Strategy : n # s => subscribed'[n] = subscribed[n]
    BY <2>2, <1>2
  <2> QED BY <2>1, <2>3 DEF TInv
<1> HIDE DEF s
<1>5. Running'
  <2>1. /\ stream' \in Seq(StreamRecord) /\ started' = 0
    BY AddedStream, <1>1
  <2> QED BY <2>1 DEF Running
<1>6. CASE UNCHANGED stream
  <2>1. Distinct' /\ CacheOK'
    BY <1>1, <1>6 DEF TInv, Distinct, CacheOK
  <2> QED BY <2>1, <1>1, <1>3, <1>4, <1>5 DEF TInv
<1>7. CASE Same(s) = {} /\ stream' = Append(stream, NewStream(FilterOf[s]))
  <2> DEFINE t == NewStream(FilterOf[s])
  <2>1. /\ FilterOf[s] \in Filter /\ t.filter = FilterOf[s] /\ t.cache = 0
    BY <1>2, FilterAssumption DEF NewStream
  <2> HIDE DEF t
  <2>2. /\ Len(stream') = Len(stream) + 1 /\ stream'[Len(stream) + 1] = t
        /\ \A j \in 1..Len(stream) : stream'[j] = stream[j]
    BY <1>2, <1>7 DEF t
  <2>3. \A j \in 1..Len(stream) : stream[j].filter # FilterOf[s]
    BY <1>2, <1>7, FilterAssumption DEF Same
  <2>4. \A j \in 1..Len(stream') : j = Len(stream) + 1 \/ j \in 1..Len(stream)
    BY <1>2, <2>2
  <2>5. Distinct'
    BY <2>1, <2>2, <2>3, <2>4 DEF TInv, Distinct
  <2>6. published[FilterOf[s]] \in Nat
    BY <2>1 DEF TInv
  <2>7. CacheOK'
    BY <1>1, <2>1, <2>2, <2>4, <2>6 DEF TInv, CacheOK
  <2> QED BY <2>5, <2>7, <1>1, <1>3, <1>4, <1>5 DEF TInv
<1> QED BY <1>6, <1>7 DEF AddStrategy, s

LEMMA TakeEventTInv ==
  ASSUME IInv, TInv, TakeEvent PROVE TInv'
<1>1. /\ UNCHANGED <<strategies, subscribed, stream, started, published>>
      /\ handler # <<>> /\ event' = <<Head(handler)>>
      /\ known' = known \cup {stream[Head(handler).stream].filter}
  BY DEF TakeEvent, engine
<1>2. Head(handler) \in Range(handler)
  BY <1>1, RangeOfTail DEF IInv, Types
<1>3. Head(handler).stream \in 1..Len(stream)
  BY <1>2 DEF IInv, QueuesOK, MessageOK
<1>4. stream[Head(handler).stream].filter \in Filter
  BY <1>3, TypesOf, Fields DEF IInv
<1>5. event' # <<>>
  BY <1>1
<1>6. AddedSoFar' /\ Distinct' /\ Running' /\ CacheOK'
  BY <1>1 DEF TInv, AddedSoFar, Distinct, Running, CacheOK
<1> QED BY <1>1, <1>4, <1>5, <1>6 DEF TInv

LEMMA StillTInv ==
  ASSUME TInv, UNCHANGED <<strategies, subscribed, stream, started, known, published>>,
         event' = <<>> => at' = 0
  PROVE  TInv'
BY DEF TInv, AddedSoFar, Distinct, Running, CacheOK

LEMMA PublishTInv ==
  ASSUME Types, TInv, NEW f \in Filter, Publish(f) PROVE TInv'
<1>1. /\ published[f] < MaxUpdates[f] /\ published' = [published EXCEPT ![f] = @ + 1]
      /\ UNCHANGED <<strategies, subscribed, stream, started, event, at, known>>
  BY DEF Publish, engine, delivery
<1>2. published \in [Filter -> Nat] /\ MaxUpdates[f] \in Nat
  BY FilterAssumption DEF TInv
<1>3. /\ published' \in [Filter -> Nat]
      /\ \A g \in Filter : published[g] <= published'[g] /\ published'[g] <= MaxUpdates[g]
  BY <1>1, <1>2 DEF TInv
<1>4. CacheOK'
  <2> SUFFICES ASSUME NEW i \in 1..Len(stream)
               PROVE  stream[i].cache <= published'[stream[i].filter]
    BY <1>1 DEF CacheOK
  <2>1. /\ stream[i].filter \in Filter /\ stream[i].cache \in Nat
        /\ stream[i].cache <= published[stream[i].filter]
    BY TypesOf, Fields DEF TInv, CacheOK
  <2>2. published[stream[i].filter] \in Nat /\ published'[stream[i].filter] \in Nat
    BY <2>1, <1>2, <1>3
  <2> QED BY <2>1, <2>2, <1>3
<1>5. AddedSoFar' /\ Distinct' /\ Running'
  BY <1>1 DEF TInv, AddedSoFar, Distinct, Running
<1> QED BY <1>1, <1>3, <1>4, <1>5 DEF TInv

LEMMA NextTInv ==
  ASSUME IInv, TInv, [Next]_vars PROVE TInv'
<1>1. Types
  BY DEF IInv
<1>2. CASE AddStrategy
  BY <1>2, AddStrategyTInv
<1>3. CASE StartStream
  BY <1>1, <1>3, StartStreamTInv
<1>4. CASE Started
  BY <1>4, StillTInv DEF Started, delivery, TInv
<1>5. CASE TakeEvent
  BY <1>5, TakeEventTInv
<1>6. CASE Offer
  <2>1. UNCHANGED <<strategies, subscribed, stream, started, known, published>>
    BY <1>6 DEF Offer, engine
  <2>2. event # <<>> /\ (event' = event \/ at' = 0)
    BY <1>6 DEF Offer
  <2> QED BY <2>1, <2>2, StillTInv
<1>7. CASE \E i \in 1..Len(stream) : StreamThread(i) \/ Drop(i) \/ OutputThread(i)
  BY <1>1, <1>7, SubscribeTInv, SubscribedTInv, ReceiveTInv, DropTInv, OutputTInv
  DEF StreamThread
<1>8. CASE \E f \in Filter : Publish(f)
  BY <1>1, <1>8, PublishTInv
<1>9. CASE UNCHANGED vars
  BY <1>9, StillTInv DEF vars, TInv
<1> QED BY <1>2, <1>3, <1>4, <1>5, <1>6, <1>7, <1>8, <1>9 DEF Next, MainThread

LEMMA InitTInv ==
  Init => TInv
<1> SUFFICES ASSUME Init PROVE TInv
  OBVIOUS
<1>1. Len(strategies) = 0 /\ Len(stream) = 0 /\ 1..0 = {} /\ Len(Added) \in Nat
  BY FilterAssumption DEF Init
<1>2. AddedSoFar /\ Distinct /\ Running /\ CacheOK
  BY <1>1 DEF AddedSoFar, Distinct, Running, CacheOK
<1>3. /\ published \in [Filter -> Nat] /\ \A f \in Filter : published[f] <= MaxUpdates[f]
  BY FilterAssumption DEF Init
<1> QED BY <1>2, <1>3 DEF Init, TInv

\* There are no more streams than things to ask for.
LEMMA StreamsAreFew ==
  ASSUME Types, Distinct, IsFiniteSet(Filter)
  PROVE  Len(stream) <= Cardinality(Filter) /\ Cardinality(Filter) \in Nat
<1> DEFINE D == 1..Len(stream)  g == [i \in D |-> stream[i].filter]
<1>1. Len(stream) \in Nat /\ \A i \in D : stream[i].filter \in Filter
  BY TypesOf, Fields
<1>2. IsFiniteSet(D) /\ Cardinality(D) = Len(stream)
  <2>1. 1 \in Int /\ Len(stream) \in Int
    BY <1>1
  <2>2. /\ IsFiniteSet(D)
        /\ Cardinality(D) = IF 1 > Len(stream) THEN 0 ELSE Len(stream) - 1 + 1
    BY ONLY <2>1, FS_Interval
  <2> QED BY <2>2, <1>1
<1>3. g \in Injection(D, Filter)
  <2>1. g \in [D -> Filter]
    BY <1>1
  <2>2. \A i, j \in D : g[i] = g[j] => i = j
    BY DEF Distinct
  <2> QED BY <2>1, <2>2 DEF Injection, IsInjective
<1>4. Cardinality(D) <= Cardinality(Filter)
  BY <1>3, FS_Injection
<1> QED BY <1>2, <1>4, FS_CardinalityType

LEMMA TInvTypes ==
  ASSUME IInv, TInv, IsFiniteSet(Filter)
  PROVE  TypeOK
<1>1. /\ Types /\ Len(stream) <= Cardinality(Filter) /\ Cardinality(Filter) \in Nat
      /\ Len(stream) \in Nat /\ started \in Nat
  BY StreamsAreFew, TypesOf DEF IInv, TInv
<1>2. IsPrefix(strategies, Added)
  <2>1. /\ strategies \in Seq(Strategy) /\ Added \in Seq(Strategy)
        /\ Len(strategies) <= Len(Added) /\ Len(strategies) \in Nat /\ Len(Added) \in Nat
        /\ \A k \in 1..Len(strategies) : strategies[k] = Added[k]
    BY <1>1, FilterAssumption DEF Types, TInv, AddedSoFar
  <2>2. SubSeq(strategies, 1, Len(strategies)) = SubSeq(Added, 1, Len(strategies))
    BY <2>1
  <2> QED BY <2>1, <2>2 DEF IsPrefix
<1>3. \A s \in Strategy :
        /\ s \in Range(strategies) <=> subscribed[s] \in 1..Len(stream)
        /\ subscribed[s] \in 0..Cardinality(Filter)
  BY <1>1 DEF IInv, SubscribedOK, TInv
<1>4. subscribed \in [Strategy -> 0..Cardinality(Filter)]
  BY <1>1, <1>3 DEF Types
<1>5. ASSUME NEW i \in 1..Len(stream)
      PROVE  /\ stream[i].filter \in Filter /\ stream[i].conn \in Connection
             /\ stream[i].listener \in {0, stream[i].id, stream[i].id + 1}
             /\ stream[i].conn = "up" => stream[i].listener = stream[i].id
             /\ stream[i].cache \in 0..published[stream[i].filter]
             /\ stream[i].conn = "idle" <=> i > started
  <2>1. /\ stream[i].filter \in Filter /\ stream[i].conn \in Connection /\ stream[i].cache \in Nat
    BY <1>1, TypesOf, Fields
  <2>2. IdsOf(i, stream[i], drops) /\ IdleOf(i, stream[i], started)
    BY DEF IInv, IdsOK
  <2>3. published[stream[i].filter] \in Nat /\ stream[i].cache <= published[stream[i].filter]
    BY <2>1 DEF TInv, CacheOK
  <2>4. stream[i].conn = "idle" <=> i > started
    BY <2>2, <1>1 DEF IdleOf, TInv, Running
  <2> QED BY <2>1, <2>2, <2>3, <2>4 DEF IdsOf
<1>6. /\ started \in 0..Len(stream) /\ running \in BOOLEAN
  BY <1>1 DEF IInv, Types, MainOK
<1>7. Len(event) \in {0, 1} /\ at \in 0..Len(strategies) /\ (at = 0 <=> event = <<>>)
  <2>1. /\ event \in Seq(Message) /\ Len(event) <= 1 /\ at \in Nat /\ Len(strategies) \in Nat
    BY <1>1 DEF Types
  <2>2. Len(event) \in Nat /\ (event = <<>> <=> Len(event) = 0)
    BY <2>1
  <2>3. (event # <<>> => at \in 1..Len(strategies)) /\ (event = <<>> => at = 0)
    BY DEF IInv, MainOK, TInv
  <2> QED BY <2>1, <2>2, <2>3
<1>8. /\ known \subseteq Filter /\ drops \in 0..MaxDrops
      /\ \A f \in Filter : published[f] \in 0..MaxUpdates[f]
  BY <1>1, FilterAssumption DEF Types, TInv
<1> QED BY <1>2, <1>3, <1>4, <1>5, <1>6, <1>7, <1>8 DEF TypeOK

\* Strategies that ask for the same share one stream, so that there are never more
\* streams than things to ask for; a strategy has a stream from the moment it is
\* added; a listener has the id of its stream or the next one (streams.py:
\* add_stream; marketstream.py: run), while fewer connections are lost than the
\* ids of two streams are apart.
THEOREM TypeOKSafe ==
  ASSUME IsFiniteSet(Filter), MaxDrops < IdStep - 1
  PROVE  Spec => []TypeOK
<1>1. IInv /\ TInv /\ [Next]_vars => (IInv /\ TInv)'
  BY NextKeeps, NextTInv
<1>2. IInv /\ TInv => TypeOK
  BY TInvTypes
<1>3. Init => IInv /\ TInv
  BY InitHolds, InitTInv
<1> QED BY <1>1, <1>2, <1>3, PTL DEF Spec

==============================================================================
