------------------------------- MODULE Streams -------------------------------
(***************************************************************************)
(* How the books of the market streams reach the strategies: a strategy    *)
(* shares the first stream that serves it (streams.py), every stream       *)
(* has a thread that subscribes and subscribes again when the connection   *)
(* is lost, and a thread that forwards what the listener puts out or,      *)
(* after streaming_timeout, a snap of its cache (marketstream.py,          *)
(* datastream.py), and the main thread offers every book to the strategies *)
(* that have its stream id at that moment (baseflumine.py, strategy.py).   *)
(* The listener and the connection are betfairlightweight's: external.     *)
(***************************************************************************)
EXTENDS Naturals, FiniteSets, Sequences, SequencesExt

CONSTANTS
  Added,       \* the strategies, in the order they are added
  Filter,      \* what a stream is asked for: class, filters, timeout, conflation
  FilterOf,    \* what each strategy asks for
  Serves,      \* the filters whose streams serve one that asks for f: f itself and,
               \* as isinstance has it, those with a subclass of its stream class
  Snaps,       \* filters with a streaming_timeout
  Raw,         \* filters of a DataStream
  MaxUpdates,  \* updates of the market of each filter
  MaxDrops,    \* connections lost or refused, of all streams
  MaxQueue     \* a snap is taken only while fewer events wait

Strategy == Range(Added)

ASSUME FilterAssumption ==
  /\ Added \in Seq(Strategy)
  /\ FilterOf \in [Strategy -> Filter] /\ Snaps \cap Raw = {}
  /\ Serves \in [Filter -> SUBSET Filter]
  /\ \A f \in Filter : /\ f \in Serves[f]
                       /\ \A g \in Serves[f] : /\ g \in Snaps <=> f \in Snaps
                                             /\ g \in Raw <=> f \in Raw
  /\ MaxUpdates \in [Filter -> Nat] /\ MaxDrops \in Nat

VARIABLES
  strategies,  \* the strategies added so far
  subscribed,  \* the stream of a strategy, 0 before it is added
  stream,      \* Streams._streams with their listeners and output threads
  started,     \* streams the main thread has started
  running,     \* the main thread has passed Streams.start
  handler,     \* handler_queue
  event,       \* the event the main thread is at, as a sequence of none or one
  at,          \* the strategy it offers the event to
  known,       \* filters whose market the main thread has added
  published,   \* updates of the exchange
  received,    \* what the strategies were given
  drops
vars == <<strategies, subscribed, stream, started, running, handler, event, at,
          known, published, received, drops>>
engine == <<strategies, subscribed, started, running>>
delivery == <<event, at, known, received>>

Connection == {"idle", "down", "subscribing", "up"}
\* A book or raw data: of which stream, the id it carries, the version it shows
Event(i, v) == [stream |-> i, id |-> stream[i].listener, version |-> v]

TypeOK ==
  /\ IsPrefix(strategies, Added)
  /\ subscribed \in [Strategy -> 0..Cardinality(Filter)]
  /\ \A s \in Strategy : s \in Range(strategies) <=> subscribed[s] \in 1..Len(stream)
  /\ \A i \in 1..Len(stream) :
       /\ stream[i].filter \in Filter /\ stream[i].conn \in Connection
       /\ stream[i].listener \in {0, stream[i].id, stream[i].id + 1}
       /\ stream[i].conn = "up" => stream[i].listener = stream[i].id
       /\ stream[i].cache \in 0..published[stream[i].filter]
       /\ stream[i].conn = "idle" <=> i > started
  /\ started \in 0..Len(stream) /\ running \in BOOLEAN
  /\ Len(event) \in {0, 1} /\ at \in 0..Len(strategies)
  /\ at = 0 <=> event = <<>>
  /\ known \subseteq Filter
  /\ \A f \in Filter : published[f] \in 0..MaxUpdates[f]
  /\ drops \in 0..MaxDrops

Init ==
  /\ strategies = <<>> /\ subscribed = [s \in Strategy |-> 0]
  /\ stream = <<>> /\ started = 0 /\ running = FALSE
  /\ handler = <<>> /\ event = <<>> /\ at = 0 /\ known = {}
  /\ published = [f \in Filter |-> 0]
  /\ received = [s \in Strategy |-> {}]
  /\ drops = 0

----------------------------------------------------------------------------
(* The main thread *)

IdStep == 1000
\* _increment_stream_id; the first id is the order stream's.
StreamId(i) == IdStep * (i + 1)
NewStream(f) ==
  [filter |-> f, id |-> StreamId(Len(stream) + 1), listener |-> 0, conn |-> "idle",
   cache |-> 0, out |-> <<>>, snapping |-> FALSE]

\* The streams a strategy may share
Same(s) == {i \in 1..Len(stream) : stream[i].filter \in Serves[FilterOf[s]]}

AddStrategy ==
  /\ Len(strategies) < Len(Added)
  /\ LET s == Added[Len(strategies) + 1] IN
       /\ strategies' = Append(strategies, s)
       /\ \/ /\ \E i \in Same(s) : /\ \A j \in Same(s) : i <= j
                                  /\ subscribed' = [subscribed EXCEPT ![s] = i]
             /\ UNCHANGED stream
          \/ /\ Same(s) = {}
             /\ stream' = Append(stream, NewStream(FilterOf[s]))
             /\ subscribed' = [subscribed EXCEPT ![s] = Len(stream')]
  /\ UNCHANGED <<started, running, handler, delivery, published, drops>>

Becomes(i, t) == stream' = [stream EXCEPT ![i] = t]

\* The connection is made somewhere in the subscription.
Connected(i) == i > 0 => stream[i].conn \in {"subscribing", "up"}

\* Streams.start: a stream is started when the one before has connected.
StartStream ==
  /\ strategies = Added
  /\ started < Len(stream) /\ Connected(started)
  /\ started' = started + 1
  /\ Becomes(started + 1, [stream[started + 1] EXCEPT !.conn = "down"])
  /\ UNCHANGED <<strategies, subscribed, running, handler, delivery, published, drops>>

Started ==
  /\ ~running /\ started > 0 /\ started = Len(stream) /\ Connected(started)
  /\ running' = TRUE
  /\ UNCHANGED <<strategies, subscribed, stream, started, handler, delivery, published, drops>>

\* The market of an event is added whoever wants the event.
TakeEvent ==
  /\ running /\ event = <<>> /\ handler # <<>>
  /\ event' = <<Head(handler)>> /\ handler' = Tail(handler)
  /\ at' = 1
  /\ known' = known \cup {stream[Head(handler).stream].filter}
  /\ UNCHANGED <<engine, stream, published, received, drops>>

\* Mutant: the ids are noted when the strategy is added, as historic_stream_ids are.
StreamIds_Noted(s) == {StreamId(subscribed[s])}
\* Strategy.stream_ids, as they are when the strategy is asked
StreamIds(s) == {stream[subscribed[s]].id}

Wanted(s, e) == e.id \in StreamIds(s)

\* check_market and process_market_book of one strategy, or process_raw_data
Offer ==
  /\ event # <<>>
  /\ LET s == strategies[at]  e == event[1] IN
       received' = [received EXCEPT ![s] =
         IF Wanted(s, e) THEN @ \cup {<<e.stream, e.version>>} ELSE @]
  /\ \/ at < Len(strategies) /\ at' = at + 1 /\ UNCHANGED event
     \/ at = Len(strategies) /\ at' = 0 /\ event' = <<>>
  /\ UNCHANGED <<engine, stream, handler, known, published, drops>>

----------------------------------------------------------------------------
(* The thread of a stream *)

\* subscribe_to_markets gives its listener the next id; with clk the cache is kept.
Subscribe(i) ==
  /\ stream[i].conn = "down"
  /\ Becomes(i, [stream[i] EXCEPT !.conn = "subscribing", !.listener = stream[i].id + 1])
  /\ UNCHANGED <<engine, handler, delivery, published, drops>>

\* Mutant: the id subscribe_to_markets returns is not kept.
Subscribed_Unnoted(i) ==
  /\ stream[i].conn = "subscribing"
  /\ Becomes(i, [stream[i] EXCEPT !.conn = "up"])
  /\ UNCHANGED <<engine, handler, delivery, published, drops>>
\* self.stream_id = self._stream.subscribe_to_markets(...); self._stream.start()
Subscribed(i) ==
  /\ stream[i].conn = "subscribing"
  /\ Becomes(i, [stream[i] EXCEPT !.conn = "up", !.id = stream[i].listener])
  /\ UNCHANGED <<engine, handler, delivery, published, drops>>

\* The subscription is refused or the connection lost: run raises and is retried.
Drop(i) ==
  /\ drops < MaxDrops /\ drops' = drops + 1
  /\ stream[i].conn \in {"subscribing", "up"}
  /\ Becomes(i, [stream[i] EXCEPT !.conn = "down"])
  /\ UNCHANGED <<engine, handler, delivery, published>>

\* The next update: a MarketStream's book waits for its output thread, the data of
\* a DataStream goes to handler_queue as it is.
Receive(i) ==
  /\ stream[i].conn = "up" /\ stream[i].cache < published[stream[i].filter]
  /\ LET e == Event(i, stream[i].cache + 1) IN
       \/ /\ stream[i].filter \in Raw
          /\ handler' = Append(handler, e)
          /\ Becomes(i, [stream[i] EXCEPT !.cache = e.version])
       \/ /\ stream[i].filter \notin Raw
          /\ Becomes(i, [stream[i] EXCEPT !.cache = e.version, !.out = Append(@, e)])
          /\ UNCHANGED handler
  /\ UNCHANGED <<engine, delivery, published, drops>>

----------------------------------------------------------------------------
(* The output thread of a MarketStream: handle_output *)

Output(i) == i <= started /\ stream[i].filter \notin Raw

Forward(i) ==
  /\ Output(i) /\ ~stream[i].snapping /\ stream[i].out # <<>>
  /\ handler' = Append(handler, Head(stream[i].out))
  /\ Becomes(i, [stream[i] EXCEPT !.out = Tail(@)])
  /\ UNCHANGED <<engine, delivery, published, drops>>

\* queue.Empty after streaming_timeout; the listener may be faster than the snap.
TimeOut(i) ==
  /\ Output(i) /\ ~stream[i].snapping /\ stream[i].out = <<>>
  /\ stream[i].filter \in Snaps
  /\ Becomes(i, [stream[i] EXCEPT !.snapping = TRUE])
  /\ UNCHANGED <<engine, handler, delivery, published, drops>>

\* Mutant: snap answers only while there is no market.
SnapOf_First(i) ==
  IF stream[i].cache > 0 /\ known = {} THEN <<Event(i, stream[i].cache)>> ELSE <<>>
\* snap answers for the open markets, for all markets when there is none.
SnapOf(i) ==
  IF stream[i].cache > 0 /\ (known = {} \/ stream[i].filter \in known)
  THEN <<Event(i, stream[i].cache)>> ELSE <<>>

Snap(i) ==
  /\ Output(i) /\ stream[i].snapping /\ Len(handler) < MaxQueue
  /\ Becomes(i, [stream[i] EXCEPT !.snapping = FALSE])
  /\ handler' = handler \o SnapOf(i)
  /\ UNCHANGED <<engine, delivery, published, drops>>

----------------------------------------------------------------------------
\* A market changes at the exchange.
Publish(f) ==
  /\ published[f] < MaxUpdates[f]
  /\ published' = [published EXCEPT ![f] = @ + 1]
  /\ UNCHANGED <<engine, stream, handler, delivery, drops>>

MainThread ==
  \/ AddStrategy \/ StartStream \/ Started \/ TakeEvent \/ Offer
StreamThread(i) == Subscribe(i) \/ Subscribed(i) \/ Receive(i)
OutputThread(i) == Forward(i) \/ TimeOut(i) \/ Snap(i)

Next ==
  \/ MainThread
  \/ \E i \in 1..Len(stream) : StreamThread(i) \/ Drop(i) \/ OutputThread(i)
  \/ \E f \in Filter : Publish(f)

Spec == Init /\ [][Next]_vars

Index == 1..Cardinality(Filter)
\* The main loop takes events while there are some; tenacity retries for ever.
FairSpec ==
  /\ Spec
  /\ WF_vars(MainThread)
  /\ \A i \in Index : /\ WF_vars(i <= Len(stream) /\ StreamThread(i))
                      /\ WF_vars(i <= Len(stream) /\ OutputThread(i))

----------------------------------------------------------------------------
\* A stream subscribed once only keeps the id of its first subscription.
Reconnected(i) == stream[i].listener > StreamId(i) + 1

\* What of stream i has been received and not been offered to strategy s yet
OnItsWay(i, v, s) ==
  LET shows(e) == e.stream = i /\ e.version = v IN
  \/ \E e \in Range(stream[i].out) \cup Range(handler) : shows(e)
  \/ /\ event # <<>> /\ shows(event[1])
     /\ \E k \in at..Len(strategies) : strategies[k] = s

\* A strategy is given what its stream received, all of it, unless the stream
\* subscribed again (the id changes and what is queued with the old one is passed
\* over), and never what another stream received, although ids change on threads
\* of their own and grow from their starting points.
Delivered ==
  \A s \in Range(strategies) :
    LET i == subscribed[s] IN
    /\ \A r \in received[s] : r[1] = i
    /\ ~Reconnected(i) =>
         \A v \in 1..stream[i].cache : <<i, v>> \in received[s] \/ OnItsWay(i, v, s)

\* With a streaming_timeout a strategy comes to see what its stream has received,
\* or something newer, through any number of lost connections: what was passed
\* over with an old id is in the next snap.
CatchUp ==
  \A s \in Strategy : \A f \in Serves[FilterOf[s]] \cap Snaps : \A v \in 1..MaxUpdates[f] :
    (/\ subscribed[s] # 0 /\ stream[subscribed[s]].filter = f
     /\ stream[subscribed[s]].cache >= v) ~> \E r \in received[s] : r[2] >= v
=============================================================================
