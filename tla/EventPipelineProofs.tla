------------------------ MODULE EventPipelineProofs ------------------------
(***************************************************************************)
(* Hub, relay and store each see the engine's events in order and at most  *)
(* once, for all capacities and any number of events and restarts.         *)
(*                                                                         *)
(* An event is somewhere between the engine and a sink: in eventChan, in   *)
(* the hands of the fan-out, or in the sink's own channel.  The invariant  *)
(* says that the numbers found along this way only rise, from what the     *)
(* sink has got up to what has been printed.                               *)
(***************************************************************************)
EXTENDS EventPipeline, FiniteSetTheorems, SequenceTheorems, TLAPS

\* The number of the last tick stored
StoredLast == IF stored = <<>> THEN 0 ELSE stored[Len(stored)].n

\* The numbers in q rise, above got and up to high
Rising(q, got, high) ==
    /\ got \in 0..high
    /\ \A i \in 1..Len(q) : q[i] \in (got + 1)..high
    /\ \A i, j \in 1..Len(q) : i < j => q[i] < q[j]

\* Number x comes after got and all of q
After(x, q, got) == got < x /\ \A i \in 1..Len(q) : q[i] < x

\* The events in eventChan rise
ChanRises ==
    /\ \A i \in 1..Len(eventChan) : eventChan[i].n \in 1..printed
    /\ \A i, j \in 1..Len(eventChan) : i < j => eventChan[i].n < eventChan[j].n

\* The event in the hands of the fan-out comes before those in eventChan
InHandFirst ==
    fan # "take" => /\ ev.n \in 1..printed
                    /\ \A i \in 1..Len(eventChan) : ev.n < eventChan[i].n

\* A sink with channel q that has got this far, and is offered the event in
\* hand at one of the stages
Sink(q, got, stages) ==
    /\ Rising(q, got, printed)
    /\ \A k \in 1..Len(eventChan) : After(eventChan[k].n, q, got)
    /\ fan \in stages => After(ev.n, q, got)

HubSink   == Sink(hubQ, hubGot, {"hub"})
RelaySink == Sink(relayQ, relayGot, {"hub", "relay"})
StoreSink == Sink(<<>>, StoredLast, {"hub", "relay", "store"})

PipeInv ==
    /\ PipeTypeOK /\ stored \in Seq(Event)
    /\ ChanRises /\ InHandFirst
    /\ HubSink /\ RelaySink /\ StoreSink

-----------------------------------------------------------------------------
(* Queues of numbers *)

(* Offering a number to a channel keeps it rising, and keeps it before      *)
(* whatever came after both.                                                *)
LEMMA OfferRises ==
    ASSUME NEW q \in Seq(Nat), NEW got \in Nat, NEW high \in Nat, NEW cap \in Nat,
           NEW x \in 1..high, Rising(q, got, high), After(x, q, got), Len(q) =< cap
    PROVE  /\ Offer(q, x, cap) \in Seq(Nat) /\ Len(Offer(q, x, cap)) =< cap
           /\ Rising(Offer(q, x, cap), got, high)
           /\ \A y \in Nat : y > x /\ After(y, q, got) => After(y, Offer(q, x, cap), got)
  <1>1. CASE Len(q) < cap
    <2>1. /\ Offer(q, x, cap) = Append(q, x)
          /\ Append(q, x) \in Seq(Nat) /\ Len(Append(q, x)) = Len(q) + 1
          /\ \A i \in 1..Len(q) + 1 : Append(q, x)[i] = IF i = Len(q) + 1 THEN x ELSE q[i]
      BY <1>1 DEF Offer
    <2> QED
      BY <1>1, <2>1 DEF Rising, After
  <1>2. CASE ~(Len(q) < cap)
    BY <1>2 DEF Offer
  <1> QED
    BY <1>1, <1>2

(* Taking the head of a channel: the rest rises above it.                   *)
LEMMA TakeRises ==
    ASSUME NEW q \in Seq(Nat), NEW got \in Nat, NEW high \in Nat,
           Rising(q, got, high), q # <<>>
    PROVE  /\ Head(q) \in (got + 1)..high /\ Tail(q) \in Seq(Nat)
           /\ Len(q) \in Nat /\ Len(Tail(q)) = Len(q) - 1
           /\ Rising(Tail(q), Head(q), high)
           /\ \A y \in Nat : After(y, q, got) => After(y, Tail(q), Head(q))
  <1>1. /\ Len(q) \in Nat /\ Len(q) > 0 /\ Head(q) = q[1] /\ Tail(q) \in Seq(Nat)
        /\ Len(Tail(q)) = Len(q) - 1
        /\ \A i \in 1..Len(q) - 1 : Tail(q)[i] = q[i + 1]
    OBVIOUS
  <1> QED
    BY <1>1 DEF Rising, After

(* A channel that has been emptied rises.                                   *)
LEMMA EmptyRises ==
    ASSUME NEW got \in Nat, NEW high \in Nat, got =< high
    PROVE  /\ <<>> \in Seq(Nat) /\ Len(<<>>) = 0
           /\ Rising(<<>>, got, high)
           /\ \A y \in Nat : y > got => After(y, <<>>, got)
  BY DEF Rising, After

(* More has been printed: a rising queue stays one.                         *)
LEMMA RisingGrows ==
    ASSUME NEW q \in Seq(Nat), NEW got \in Nat, NEW high \in Nat, Rising(q, got, high)
    PROVE  Rising(q, got, high + 1) /\ After(high + 1, q, got)
  BY DEF Rising, After

-----------------------------------------------------------------------------
(* The steps *)

(* The initial state.                                                       *)
LEMMA PipeInitInv == ASSUME PipeInit PROVE PipeInv
  <1>1. /\ 0 \in Nat /\ Len(<<>>) = 0 /\ Rising(<<>>, 0, 0)
        /\ <<>> \in Seq(Event) /\ <<>> \in Seq(Nat)
    BY EmptyRises
  <1>2. NoEvent \in Event
    BY DEF NoEvent, Event
  <1>3. PipeTypeOK
    <2>1. StoreTypeOK
      BY DEF PipeInit, StoreInit, StoreTypeOK
    <2> QED
      BY <1>1, <1>2, <2>1, PipelineAssumption DEF PipeInit, PipeTypeOK
  <1>4. StoredLast = 0
    BY DEF PipeInit, StoreInit, StoredLast
  <1> QED
    BY <1>1, <1>3, <1>4 DEF PipeInit, StoreInit, PipeInv, ChanRises, InHandFirst, HubSink,
       RelaySink, StoreSink, Sink

(* A record with the fields of an event is one.                             *)
LEMMA EventFields ==
    ASSUME NEW n \in Nat, NEW t \in {"tick", "fill", "reject", ""}, NEW ts \in Nat
    PROVE  [n |-> n, type |-> t, ts |-> ts] \in Event
  BY DEF Event

(* A line is printed, and accepted by eventChan or not.                     *)
LEMMA ScanInv ==
    ASSUME PipeInv, NEW kind, NEW ts \in Nat, Scan(kind, ts)
    PROVE  PipeInv'
  <1> DEFINE e == [n |-> printed', type |-> ExtractType(kind), ts |-> ts]
  <1>1. /\ printed \in Nat /\ printed' = printed + 1 /\ eventChan \in Seq(Event)
        /\ eventChan' = Offer(eventChan, e, ChanCap)
        /\ UNCHANGED <<fan, ev, hubQ, hubGot, relayQ, relayGot, restarts>>
        /\ UNCHANGED <<rows, lastId, trims, db, stored, overdue>>
    BY DEF PipeInv, PipeTypeOK, Scan, sinkVars, storeVars
  <1>2. ExtractType(kind) \in {"tick", "fill", "reject", ""}
    <2>1. CASE kind \in {"tick", "fill", "reject"}
      BY <2>1 DEF ExtractType
    <2>2. CASE kind \notin {"tick", "fill", "reject"}
      BY <2>2 DEF ExtractType
    <2> QED
      BY <2>1, <2>2
  <1>3. e \in Event /\ e.n = printed + 1
    <2> printed' \in Nat
      BY <1>1
    <2>1. e \in Event
      BY <1>2, EventFields, Zenon
    <2>2. e.n = printed'
      OBVIOUS
    <2> QED
      BY <1>1, <2>1, <2>2
  <1> HIDE DEF e
  <1>4. /\ eventChan' \in Seq(Event) /\ Len(eventChan') =< ChanCap
        /\ \A i \in 1..Len(eventChan') :
             \/ i =< Len(eventChan) /\ eventChan'[i] = eventChan[i]
             \/ i = Len(eventChan) + 1 /\ eventChan'[i].n = printed + 1
        /\ Len(eventChan) \in Nat /\ Len(eventChan') \in Nat
    <2>1. Len(eventChan) =< ChanCap /\ ChanCap \in Nat /\ Len(eventChan) \in Nat
      BY <1>1, PipelineAssumption DEF PipeInv, PipeTypeOK
    <2>2. CASE Len(eventChan) < ChanCap
      <3>1. eventChan' = Append(eventChan, e)
        BY <1>1, <2>2 DEF Offer
      <3> QED
        BY <1>1, <1>3, <2>1, <2>2, <3>1
    <2>3. CASE ~(Len(eventChan) < ChanCap)
      BY <1>1, <2>1, <2>3 DEF Offer
    <2> QED
      BY <2>2, <2>3
  <1>5. PipeTypeOK' /\ (stored \in Seq(Event))'
    BY <1>1, <1>4 DEF PipeInv, PipeTypeOK, StoreTypeOK
  <1>6. ChanRises'
    <2>1. ASSUME NEW i \in 1..Len(eventChan') PROVE eventChan'[i].n \in 1..printed'
      <3>1. CASE i =< Len(eventChan) /\ eventChan'[i] = eventChan[i]
        BY <1>1, <1>4, <3>1 DEF PipeInv, ChanRises
      <3>2. CASE i = Len(eventChan) + 1 /\ eventChan'[i].n = printed + 1
        BY <1>1, <3>2
      <3> QED
        BY <1>4, <3>1, <3>2
    <2>2. ASSUME NEW i \in 1..Len(eventChan'), NEW j \in 1..Len(eventChan'), i < j
          PROVE  eventChan'[i].n < eventChan'[j].n
      BY <1>1, <1>4, <2>2, SMTT(30) DEF PipeInv, ChanRises
    <2> QED
      BY <2>1, <2>2 DEF ChanRises
  <1>7. InHandFirst'
    <2> SUFFICES ASSUME fan # "take"
                 PROVE  /\ ev.n \in 1..printed + 1
                        /\ \A i \in 1..Len(eventChan') : ev.n < eventChan'[i].n
      BY <1>1 DEF InHandFirst
    <2>1. ev.n \in 1..printed /\ \A i \in 1..Len(eventChan) : ev.n < eventChan[i].n
      BY DEF PipeInv, InHandFirst
    <2>2. ASSUME NEW i \in 1..Len(eventChan') PROVE ev.n < eventChan'[i].n
      <3>1. CASE i =< Len(eventChan) /\ eventChan'[i] = eventChan[i]
        BY <1>4, <2>1, <3>1
      <3>2. CASE i = Len(eventChan) + 1 /\ eventChan'[i].n = printed + 1
        BY <1>1, <2>1, <3>2
      <3> QED
        BY <1>4, <3>1, <3>2
    <2> QED
      BY <1>1, <2>1, <2>2
  <1>8. ASSUME NEW q \in Seq(Nat), NEW got \in Nat, Rising(q, got, printed),
               \A k \in 1..Len(eventChan) : After(eventChan[k].n, q, got)
        PROVE  /\ Rising(q, got, printed')
               /\ \A k \in 1..Len(eventChan') : After(eventChan'[k].n, q, got)
    <2>1. Rising(q, got, printed + 1) /\ After(printed + 1, q, got)
      BY <1>1, <1>8, RisingGrows
    <2>2. ASSUME NEW k \in 1..Len(eventChan') PROVE After(eventChan'[k].n, q, got)
      <3>1. CASE k =< Len(eventChan) /\ eventChan'[k] = eventChan[k]
        BY <1>4, <1>8, <3>1
      <3>2. CASE k = Len(eventChan) + 1 /\ eventChan'[k].n = printed + 1
        BY <2>1, <3>2
      <3> QED
        BY <1>4, <3>1, <3>2
    <2> QED
      BY <1>1, <2>1, <2>2
  <1>9. HubSink'
    BY <1>1, <1>8 DEF PipeInv, PipeTypeOK, HubSink, Sink
  <1>10. RelaySink'
    BY <1>1, <1>8 DEF PipeInv, PipeTypeOK, RelaySink, Sink
  <1>11. StoreSink'
    <2>1. StoredLast \in Nat /\ StoredLast' = StoredLast /\ <<>> \in Seq(Nat)
      BY <1>1 DEF PipeInv, StoreSink, Sink, Rising, StoredLast
    <2> QED
      BY <1>1, <1>8, <2>1 DEF PipeInv, StoreSink, Sink
  <1> QED
    BY <1>5, <1>6, <1>7, <1>9, <1>10, <1>11 DEF PipeInv

(* The fan-out takes the head of eventChan: it came before the rest, and    *)
(* after all that the sinks have seen.                                      *)
LEMMA FanTakeInv == ASSUME PipeInv, FanTake PROVE PipeInv'
  <1>1. /\ fan' = "hub" /\ eventChan \in Seq(Event) /\ eventChan # <<>>
        /\ ev' = Head(eventChan) /\ eventChan' = Tail(eventChan)
        /\ UNCHANGED <<printed, hubQ, hubGot, relayQ, relayGot, restarts>>
        /\ UNCHANGED <<rows, lastId, trims, db, stored, overdue>>
    BY DEF PipeInv, PipeTypeOK, FanTake, sinkVars, storeVars
  <1>2. /\ Len(eventChan) \in Nat \ {0} /\ ev' = eventChan[1] /\ ev' \in Event
        /\ eventChan' \in Seq(Event) /\ Len(eventChan') = Len(eventChan) - 1
        /\ \A i \in 1..Len(eventChan') : eventChan'[i] = eventChan[i + 1]
    BY <1>1
  <1>3. PipeTypeOK' /\ (stored \in Seq(Event))'
    BY <1>1, <1>2, PipelineAssumption DEF PipeInv, PipeTypeOK, StoreTypeOK
  <1>4. ChanRises' /\ InHandFirst'
    BY <1>1, <1>2 DEF PipeInv, ChanRises, InHandFirst
  <1>5. StoredLast' = StoredLast
    BY <1>1 DEF StoredLast
  <1>6. HubSink' /\ RelaySink' /\ StoreSink'
    BY <1>1, <1>2, <1>5 DEF PipeInv, HubSink, RelaySink, StoreSink, Sink
  <1> QED
    BY <1>3, <1>4, <1>6 DEF PipeInv

(* hub.Broadcast: the event joins the hub's channel or is dropped.          *)
LEMMA FanHubInv == ASSUME PipeInv, FanHub PROVE PipeInv'
  <1>1. /\ fan = "hub" /\ fan' = "relay" /\ hubQ' = Offer(hubQ, ev.n, HubCap)
        /\ UNCHANGED <<printed, eventChan, ev, hubGot, relayQ, relayGot, restarts>>
        /\ UNCHANGED <<rows, lastId, trims, db, stored, overdue>>
    BY DEF FanHub, storeVars
  <1>2. /\ hubQ \in Seq(Nat) /\ hubGot \in Nat /\ printed \in Nat /\ HubCap \in Nat
        /\ ev.n \in 1..printed /\ Len(hubQ) =< HubCap
        /\ Rising(hubQ, hubGot, printed) /\ After(ev.n, hubQ, hubGot)
    BY <1>1, PipelineAssumption DEF PipeInv, PipeTypeOK, InHandFirst, HubSink, Sink
  <1>3. /\ hubQ' \in Seq(Nat) /\ Len(hubQ') =< HubCap /\ Rising(hubQ', hubGot, printed)
        /\ \A y \in Nat : y > ev.n /\ After(y, hubQ, hubGot) => After(y, hubQ', hubGot)
    BY <1>1, <1>2, OfferRises
  <1>4. PipeTypeOK' /\ (stored \in Seq(Event))'
    BY <1>1, <1>3 DEF PipeInv, PipeTypeOK, StoreTypeOK
  <1>5. ChanRises' /\ InHandFirst'
    BY <1>1 DEF PipeInv, ChanRises, InHandFirst
  <1>6. HubSink'
    BY <1>1, <1>2, <1>3 DEF PipeInv, ChanRises, InHandFirst, HubSink, Sink
  <1>7. StoredLast' = StoredLast
    BY <1>1 DEF StoredLast
  <1>8. RelaySink' /\ StoreSink'
    BY <1>1, <1>7 DEF PipeInv, RelaySink, StoreSink, Sink
  <1> QED
    BY <1>4, <1>5, <1>6, <1>8 DEF PipeInv

(* The relay is offered the event, and the fan-out is done with it unless   *)
(* it is a tick.                                                            *)
LEMMA FanRelayInv == ASSUME PipeInv, FanRelay PROVE PipeInv'
  <1>1. /\ fan = "relay" /\ relayQ' = Offer(relayQ, ev.n, RelayCap)
        /\ \/ fan' = "store" /\ ev' = ev
           \/ fan' = "take" /\ ev' = NoEvent
        /\ UNCHANGED <<printed, eventChan, hubQ, hubGot, relayGot, restarts>>
        /\ UNCHANGED <<rows, lastId, trims, db, stored, overdue>>
    BY DEF FanRelay, storeVars
  <1>2. /\ relayQ \in Seq(Nat) /\ relayGot \in Nat /\ printed \in Nat /\ RelayCap \in Nat
        /\ ev.n \in 1..printed /\ Len(relayQ) =< RelayCap
        /\ Rising(relayQ, relayGot, printed) /\ After(ev.n, relayQ, relayGot)
    BY <1>1, PipelineAssumption DEF PipeInv, PipeTypeOK, InHandFirst, RelaySink, Sink
  <1>3. /\ relayQ' \in Seq(Nat) /\ Len(relayQ') =< RelayCap
        /\ Rising(relayQ', relayGot, printed)
        /\ \A y \in Nat : y > ev.n /\ After(y, relayQ, relayGot)
                           => After(y, relayQ', relayGot)
    BY <1>1, <1>2, OfferRises
  <1>4. NoEvent \in Event
    BY EventFields DEF NoEvent
  <1>5. PipeTypeOK' /\ (stored \in Seq(Event))'
    BY <1>1, <1>3, <1>4 DEF PipeInv, PipeTypeOK, StoreTypeOK
  <1>6. ChanRises' /\ InHandFirst'
    BY <1>1 DEF PipeInv, ChanRises, InHandFirst
  <1>7. RelaySink'
    BY <1>1, <1>2, <1>3 DEF PipeInv, ChanRises, InHandFirst, RelaySink, Sink
  <1>8. StoredLast' = StoredLast
    BY <1>1 DEF StoredLast
  <1>9. HubSink' /\ StoreSink'
    BY <1>1, <1>8 DEF PipeInv, HubSink, StoreSink, Sink
  <1> QED
    BY <1>5, <1>6, <1>7, <1>9 DEF PipeInv

(* A tick is stored, or the insert fails.                                   *)
LEMMA FanStoreInv == ASSUME PipeInv, FanStore PROVE PipeInv'
  <1>1. /\ fan = "store" /\ fan' = "take" /\ ev' = NoEvent /\ StoreTick(ev)
        /\ UNCHANGED <<printed, eventChan, hubQ, hubGot, relayQ, relayGot, restarts>>
    BY DEF FanStore, sinkVars
  <1>2. ev \in Event /\ stored \in Seq(Event) /\ printed \in Nat /\ ev.n \in 1..printed
    BY <1>1 DEF PipeInv, PipeTypeOK, InHandFirst
  <1>3. NoEvent \in Event
    BY EventFields DEF NoEvent
  <1>4. (StoreTypeOK /\ stored \in Seq(Event))'
    <2>1. StoreTypeOK
      BY DEF PipeInv, PipeTypeOK
    <2>2. CASE UNCHANGED storeVars
      BY <1>2, <2>1, <2>2 DEF storeVars, StoreTypeOK
    <2>3. CASE ~UNCHANGED storeVars
      <3>1. /\ lastId' = lastId + 1 /\ trims' = trims + 1
            /\ rows' = rows \cup {[id |-> lastId', ts |-> ev.ts, raw |-> ev.n]}
            /\ stored' = Append(stored, ev) /\ UNCHANGED <<db, overdue>>
        BY <1>1, <2>3 DEF StoreTick
      <3>2. \A r \in rows' : r.id \in 1..lastId'
        BY <2>1, <3>1 DEF StoreTypeOK
      <3> QED
        BY <1>2, <2>1, <3>1, <3>2 DEF StoreTypeOK
    <2> QED
      BY <2>2, <2>3
  <1>5. PipeTypeOK'
    BY <1>1, <1>3, <1>4 DEF PipeInv, PipeTypeOK
  <1>6. ChanRises' /\ InHandFirst'
    BY <1>1 DEF PipeInv, ChanRises, InHandFirst
  <1>7. HubSink' /\ RelaySink'
    BY <1>1 DEF PipeInv, HubSink, RelaySink, Sink
  <1>8. StoredLast' \in {StoredLast, ev.n}
    BY <1>1, <1>2 DEF StoreTick, storeVars, StoredLast
  <1>9. StoreSink'
    BY <1>1, <1>2, <1>8 DEF PipeInv, ChanRises, InHandFirst, StoreSink, Sink, Rising, After
  <1> QED
    BY <1>4, <1>5, <1>6, <1>7, <1>9 DEF PipeInv

(* Hub.Run takes an event: the next one, of a higher number.                *)
LEMMA HubTakesInv == ASSUME PipeInv, HubTakes PROVE PipeInv' /\ hubGot' \in (hubGot + 1)..printed
  <1>1. /\ hubQ # <<>> /\ hubGot' = Head(hubQ) /\ hubQ' = Tail(hubQ)
        /\ UNCHANGED <<printed, eventChan, fan, ev, relayQ, relayGot, restarts>>
        /\ UNCHANGED <<rows, lastId, trims, db, stored, overdue>>
    BY DEF HubTakes, storeVars
  <1>2. /\ hubQ \in Seq(Nat) /\ hubGot \in Nat /\ printed \in Nat
        /\ Rising(hubQ, hubGot, printed)
    BY DEF PipeInv, PipeTypeOK, HubSink, Sink
  <1>3. /\ hubGot' \in (hubGot + 1)..printed /\ hubQ' \in Seq(Nat)
        /\ Len(hubQ) \in Nat /\ Len(hubQ') = Len(hubQ) - 1
        /\ Rising(hubQ', hubGot', printed)
        /\ \A y \in Nat : After(y, hubQ, hubGot) => After(y, hubQ', hubGot')
    BY <1>1, <1>2, TakeRises
  <1>4. PipeTypeOK' /\ (stored \in Seq(Event))'
    BY <1>1, <1>2, <1>3, PipelineAssumption, SMTT(30) DEF PipeInv, PipeTypeOK, StoreTypeOK
  <1>5. ChanRises' /\ InHandFirst'
    BY <1>1 DEF PipeInv, ChanRises, InHandFirst
  <1>6. HubSink'
    BY <1>1, <1>2, <1>3 DEF PipeInv, ChanRises, InHandFirst, HubSink, Sink
  <1>7. StoredLast' = StoredLast
    BY <1>1 DEF StoredLast
  <1>8. RelaySink' /\ StoreSink'
    BY <1>1, <1>7 DEF PipeInv, RelaySink, StoreSink, Sink
  <1> QED
    BY <1>3, <1>4, <1>5, <1>6, <1>8 DEF PipeInv

(* Relay.fanOut takes an event: the next one, of a higher number.           *)
LEMMA RelayTakesInv ==
    ASSUME PipeInv, RelayTakes PROVE PipeInv' /\ relayGot' \in (relayGot + 1)..printed
  <1>1. /\ relayQ # <<>> /\ relayGot' = Head(relayQ) /\ relayQ' = Tail(relayQ)
        /\ UNCHANGED <<printed, eventChan, fan, ev, hubQ, hubGot, restarts>>
        /\ UNCHANGED <<rows, lastId, trims, db, stored, overdue>>
    BY DEF RelayTakes, storeVars
  <1>2. /\ relayQ \in Seq(Nat) /\ relayGot \in Nat /\ printed \in Nat
        /\ Rising(relayQ, relayGot, printed)
    BY DEF PipeInv, PipeTypeOK, RelaySink, Sink
  <1>3. /\ relayGot' \in (relayGot + 1)..printed /\ relayQ' \in Seq(Nat)
        /\ Len(relayQ) \in Nat /\ Len(relayQ') = Len(relayQ) - 1
        /\ Rising(relayQ', relayGot', printed)
        /\ \A y \in Nat : After(y, relayQ, relayGot) => After(y, relayQ', relayGot')
    BY <1>1, <1>2, TakeRises
  <1>4. PipeTypeOK' /\ (stored \in Seq(Event))'
    BY <1>1, <1>2, <1>3, PipelineAssumption, SMTT(30) DEF PipeInv, PipeTypeOK, StoreTypeOK
  <1>5. ChanRises' /\ InHandFirst'
    BY <1>1 DEF PipeInv, ChanRises, InHandFirst
  <1>6. RelaySink'
    BY <1>1, <1>2, <1>3 DEF PipeInv, ChanRises, InHandFirst, RelaySink, Sink
  <1>7. StoredLast' = StoredLast
    BY <1>1 DEF StoredLast
  <1>8. HubSink' /\ StoreSink'
    BY <1>1, <1>7 DEF PipeInv, HubSink, StoreSink, Sink
  <1> QED
    BY <1>3, <1>4, <1>5, <1>6, <1>8 DEF PipeInv

(* The goroutines and the ends of the store leave the events alone.         *)
LEMMA StoreInv == ASSUME PipeInv, (Trim \/ CloseStore) /\ StoreOther PROVE PipeInv'
  <1>1. /\ UNCHANGED <<printed, eventChan, fan, ev, hubQ, hubGot, relayQ, relayGot>>
        /\ UNCHANGED <<restarts, stored, lastId>>
    BY DEF Trim, CloseStore, StoreOther, sinkVars
  <1>2. rows' \subseteq rows
    BY DEF Trim, CloseStore, Trimmed, Newest
  <1>3. StoreTypeOK'
    <2>1. StoreTypeOK
      BY DEF PipeInv, PipeTypeOK
    <2>2. \A r \in rows' : r.id \in 1..lastId'
      BY <1>1, <1>2, <2>1 DEF StoreTypeOK
    <2>3. (trims \in Nat /\ db \in {"open", "closed"})'
      BY <2>1 DEF Trim, CloseStore, StoreTypeOK
    <2>4. (overdue \in BOOLEAN)'
      BY <2>1 DEF Trim, CloseStore, StoreTypeOK
    <2> QED
      BY <1>1, <2>1, <2>2, <2>3, <2>4 DEF StoreTypeOK
  <1>4. StoredLast' = StoredLast
    BY <1>1 DEF StoredLast
  <1> QED
    BY <1>1, <1>3, <1>4 DEF PipeInv, PipeTypeOK, ChanRises, InHandFirst, HubSink, RelaySink,
       StoreSink, Sink

(* A restart loses what is under way; what is printed later comes after all *)
(* that the sinks have got.                                                 *)
LEMMA RestartInv == ASSUME PipeInv, ServerRestart PROVE PipeInv'
  <1>1. /\ eventChan' = <<>> /\ fan' = "take" /\ ev' = NoEvent
        /\ hubQ' = <<>> /\ relayQ' = <<>> /\ restarts' = restarts + 1 /\ trims' = 0
        /\ db' = "open" /\ overdue' \in BOOLEAN
        /\ UNCHANGED <<printed, hubGot, relayGot, rows, lastId, stored>>
    BY DEF ServerRestart, ReopenStore
  <1>2. NoEvent \in Event
    BY EventFields DEF NoEvent
  <1>3. StoredLast' = StoredLast
    BY <1>1 DEF StoredLast
  <1>4. /\ {hubGot, relayGot, StoredLast} \subseteq Nat /\ printed \in Nat
        /\ hubGot =< printed /\ relayGot =< printed /\ StoredLast =< printed
    BY DEF PipeInv, PipeTypeOK, HubSink, RelaySink, StoreSink, Sink, Rising
  <1>5. /\ Rising(<<>>, hubGot, printed) /\ Rising(<<>>, relayGot, printed)
        /\ Rising(<<>>, StoredLast, printed)
        /\ <<>> \in Seq(Nat) /\ <<>> \in Seq(Event) /\ Len(<<>>) = 0
    BY <1>4, EmptyRises
  <1>6. PipeTypeOK' /\ (stored \in Seq(Event))'
    BY <1>1, <1>2, <1>5, PipelineAssumption DEF PipeInv, PipeTypeOK, StoreTypeOK
  <1>7. ChanRises' /\ InHandFirst'
    BY <1>1, <1>5 DEF ChanRises, InHandFirst
  <1>8. HubSink' /\ RelaySink' /\ StoreSink'
    BY <1>1, <1>3, <1>5 DEF HubSink, RelaySink, StoreSink, Sink
  <1> QED
    BY <1>6, <1>7, <1>8 DEF PipeInv

(* Every step preserves the invariant.                                      *)
LEMMA PipeStepInv == ASSUME PipeInv, [PipeNext]_pipeVars PROVE PipeInv'
  <1>1. CASE UNCHANGED pipeVars
    <2>1. /\ UNCHANGED <<printed, eventChan, fan, ev, hubQ, hubGot, relayQ, relayGot>>
          /\ UNCHANGED <<restarts, rows, lastId, trims, db, stored, overdue>>
      BY <1>1 DEF pipeVars, sinkVars, storeVars
    <2> QED
      BY <2>1 DEF PipeInv, PipeTypeOK, StoreTypeOK, ChanRises, InHandFirst, HubSink,
         RelaySink, StoreSink, Sink, StoredLast
  <1>2. CASE PipeNext
    <2>1. ASSUME NEW ts \in Times, Scan("tick", ts) PROVE PipeInv'
      BY <2>1, ScanInv, PipelineAssumption
    <2>2. ASSUME NEW k \in Kinds, Scan(k, 0) PROVE PipeInv'
      BY <2>2, ScanInv
    <2>3. ASSUME FanOut PROVE PipeInv'
      BY <2>3, FanTakeInv, FanHubInv, FanRelayInv, FanStoreInv DEF FanOut
    <2> QED
      BY <1>2, <2>1, <2>2, <2>3, HubTakesInv, RelayTakesInv, StoreInv, RestartInv DEF PipeNext
  <1> QED
    BY <1>1, <1>2

(* The invariant holds throughout.                                          *)
THEOREM PipeInvariant == PipeSpec => []PipeInv
  BY PipeInitInv, PipeStepInv, PTL DEF PipeSpec

(* The pipeline is well typed, and none of its channels ever holds more     *)
(* than its capacity.                                                       *)
THEOREM PipeTypeCorrect == PipeSpec => []PipeTypeOK
  <1>1. PipeInv => PipeTypeOK
    BY DEF PipeInv
  <1> QED
    BY <1>1, PipeInvariant, PTL

-----------------------------------------------------------------------------
(* The refinement *)

(* What a step does to the number printed and to what the hub has got is a  *)
(* step of the abstract queue.                                              *)
LEMMA HubRefines ==
    ASSUME PipeInv, [PipeNext]_pipeVars
    PROVE  [HubView!Send \/ HubView!Deliver]_<<printed, hubGot>>
  <1>1. CASE UNCHANGED pipeVars
    BY <1>1 DEF pipeVars, sinkVars
  <1>2. ASSUME NEW k, NEW ts, Scan(k, ts) PROVE HubView!Send
    BY <1>2 DEF Scan, sinkVars, HubView!Send
  <1>3. ASSUME HubTakes PROVE HubView!Deliver
    BY <1>3, HubTakesInv DEF HubTakes, HubView!Deliver
  <1>4. ASSUME \/ FanOut \/ RelayTakes \/ ServerRestart
               \/ (Trim \/ CloseStore) /\ StoreOther
        PROVE  UNCHANGED <<printed, hubGot>>
    BY <1>4 DEF FanOut, FanTake, FanHub, FanRelay, FanStore, RelayTakes, ServerRestart,
       StoreOther, sinkVars
  <1> QED
    BY <1>1, <1>2, <1>3, <1>4 DEF PipeNext

(* The same of the relay.                                                   *)
LEMMA RelayRefines ==
    ASSUME PipeInv, [PipeNext]_pipeVars
    PROVE  [RelayView!Send \/ RelayView!Deliver]_<<printed, relayGot>>
  <1>1. CASE UNCHANGED pipeVars
    BY <1>1 DEF pipeVars, sinkVars
  <1>2. ASSUME NEW k, NEW ts, Scan(k, ts) PROVE RelayView!Send
    BY <1>2 DEF Scan, sinkVars, RelayView!Send
  <1>3. ASSUME RelayTakes PROVE RelayView!Deliver
    BY <1>3, RelayTakesInv DEF RelayTakes, RelayView!Deliver
  <1>4. ASSUME \/ FanOut \/ HubTakes \/ ServerRestart
               \/ (Trim \/ CloseStore) /\ StoreOther
        PROVE  UNCHANGED <<printed, relayGot>>
    BY <1>4 DEF FanOut, FanTake, FanHub, FanRelay, FanStore, HubTakes, ServerRestart,
       StoreOther, sinkVars
  <1> QED
    BY <1>1, <1>2, <1>3, <1>4 DEF PipeNext

(* The same of the store, which gets an event when the insert succeeds.     *)
LEMMA StoreRefines ==
    ASSUME PipeInv, [PipeNext]_pipeVars
    PROVE  [StoreView!Send \/ StoreView!Deliver]_<<printed, StoredLast>>
  <1>1. ASSUME UNCHANGED stored PROVE StoredLast' = StoredLast
    BY <1>1 DEF StoredLast
  <1>2. CASE UNCHANGED pipeVars
    BY <1>1, <1>2 DEF pipeVars, storeVars
  <1>3. ASSUME NEW k, NEW ts, Scan(k, ts) PROVE StoreView!Send
    BY <1>1, <1>3 DEF Scan, storeVars, StoreView!Send, StoredLast
  <1>4. ASSUME FanStore PROVE StoreView!Deliver \/ UNCHANGED <<printed, StoredLast>>
    <2>1. /\ ev \in Event /\ stored \in Seq(Event) /\ printed \in Nat
          /\ ev.n \in 1..printed /\ StoredLast \in Nat /\ StoredLast < ev.n
      BY <1>4 DEF FanStore, PipeInv, PipeTypeOK, InHandFirst, StoreSink, Sink, Rising, After
    <2>2. UNCHANGED printed /\ StoredLast' \in {StoredLast, ev.n}
      BY <1>4, <2>1 DEF FanStore, StoreTick, storeVars, StoredLast
    <2>3. CASE StoredLast' = ev.n
      BY <2>1, <2>2, <2>3 DEF StoreView!Deliver, StoredLast
    <2> QED
      BY <2>2, <2>3
  <1>5. ASSUME \/ FanTake \/ FanHub \/ FanRelay \/ HubTakes \/ RelayTakes \/ ServerRestart
               \/ (Trim \/ CloseStore) /\ StoreOther
        PROVE  UNCHANGED <<printed, StoredLast>>
    BY <1>1, <1>5 DEF FanTake, FanHub, FanRelay, HubTakes, RelayTakes, ServerRestart,
       ReopenStore, Trim, CloseStore, StoreOther, storeVars
  <1> QED
    BY <1>2, <1>3, <1>4, <1>5 DEF PipeNext, FanOut

(* Hub, relay and store each implement the abstract lossy queue: whatever   *)
(* is dropped on the way, fails or is lost in a restart, none of them ever  *)
(* sees an event twice or after a later one.                                *)
THEOREM PipelineRefines == PipeSpec => SinksInOrder
  <1>1. PipeInit => HubView!LFInit /\ RelayView!LFInit /\ StoreView!LFInit
    BY DEF PipeInit, StoreInit, HubView!LFInit, RelayView!LFInit, StoreView!LFInit
  <1>2. PipeInv /\ [PipeNext]_pipeVars => [HubView!Send \/ HubView!Deliver]_<<printed, hubGot>>
    BY HubRefines
  <1>3. PipeInv /\ [PipeNext]_pipeVars
          => [RelayView!Send \/ RelayView!Deliver]_<<printed, relayGot>>
    BY RelayRefines
  <1>4. PipeInv /\ [PipeNext]_pipeVars
          => [StoreView!Send \/ StoreView!Deliver]_<<printed,
                IF stored = <<>> THEN 0 ELSE stored[Len(stored)].n>>
    BY StoreRefines DEF StoredLast
  <1> QED
    BY <1>1, <1>2, <1>3, <1>4, PipeInvariant, PTL DEF PipeSpec, SinksInOrder, HubView!LFSpec,
       RelayView!LFSpec, StoreView!LFSpec

-----------------------------------------------------------------------------
(* The tick store: the table is at any time an unbroken run of the last     *)
(* ticks stored                                                             *)

\* The row of the i-th tick stored, and those of the ticks after a up to b
Row(i) == [id |-> i, ts |-> stored[i].ts, raw |-> stored[i].n]
Table(a, b) == {Row(i) : i \in (a + 1)..b}

\* The first low ticks have been trimmed away, and never too many
TableFrom(low) ==
    /\ rows = Table(low, lastId)
    /\ low = 0 \/ lastId - low >= Keep
    /\ trims = 0 /\ ~overdue => lastId - low =< Keep

TableInv == Len(stored) = lastId /\ \E low \in 0..lastId : TableFrom(low)

\* The ticks that are not among the last n
Cut(low, high, n) == IF high - n > low THEN high - n ELSE low

(* The rows after a up to b are b - a. *)
LEMMA TableCount ==
    ASSUME NEW a \in Nat, NEW b \in Nat, a =< b
    PROVE  IsFiniteSet(Table(a, b)) /\ Cardinality(Table(a, b)) = b - a
  <1> DEFINE I == (a + 1)..b
             f == [i \in I |-> Row(i)]
  <1>1. IsFiniteSet(I) /\ Cardinality(I) = b - a
    <2>1. IsFiniteSet(I) /\ Cardinality(I) = IF a + 1 > b THEN 0 ELSE b - (a + 1) + 1
      BY FS_Interval
    <2> QED
      BY <2>1
  <1>2. f \in [I -> Table(a, b)]
    BY DEF Table
  <1>3. \A i, j \in I : f[i] = f[j] => i = j
    BY DEF Row
  <1>4. \A r \in Table(a, b) : \E i \in I : f[i] = r
    BY DEF Table
  <1>5. f \in Bijection(I, Table(a, b))
    BY <1>2, <1>3, <1>4 DEF Bijection, Injection, Surjection, IsInjective
  <1>6. ExistsBijection(I, Table(a, b))
    BY <1>5 DEF ExistsBijection
  <1> HIDE DEF I, f
  <1> QED
    BY <1>1, <1>6, FS_Bijection

(* The newest n rows of an unbroken run are the end of it. *)
LEMMA NewestOfTable ==
    ASSUME NEW low \in Nat, NEW high \in Nat, low =< high, NEW n \in Nat
    PROVE  Newest(Table(low, high), n) = Table(Cut(low, high, n), high)
  <1> DEFINE T == Table(low, high)
  <1>1. ASSUME NEW i \in (low + 1)..high
        PROVE  (Cardinality({s \in T : s.id > Row(i).id}) < n) <=> (i > high - n)
    <2>1. {s \in T : s.id > Row(i).id} = Table(i, high)
      <3>1. \A s : s \in Table(i, high) <=> \E j \in (i + 1)..high : s = Row(j)
        BY DEF Table
      <3>2. \A s : s \in T <=> \E j \in (low + 1)..high : s = Row(j)
        BY DEF Table
      <3>3. \A j : Row(j).id = j
        BY DEF Row
      <3>4. ASSUME NEW s \in T, s.id > Row(i).id PROVE s \in Table(i, high)
        BY <3>1, <3>2, <3>3, <3>4
      <3>5. ASSUME NEW s \in Table(i, high) PROVE s \in T /\ s.id > Row(i).id
        BY <3>1, <3>2, <3>3, <3>5
      <3> HIDE DEF T
      <3> QED
        BY <3>4, <3>5
    <2>2. Cardinality(Table(i, high)) = high - i
      BY TableCount
    <2>3. (high - i < n) <=> (i > high - n)
      OBVIOUS
    <2> QED
      BY <2>1, <2>2, <2>3, Zenon
  <1>2. ASSUME NEW i \in (low + 1)..high
        PROVE  (i > high - n) <=> (i \in (Cut(low, high, n) + 1)..high)
    BY DEF Cut
  <1>3. (Cut(low, high, n) + 1)..high \subseteq (low + 1)..high
    BY DEF Cut
  <1>4. Newest(T, n) = {r \in T : Cardinality({s \in T : s.id > r.id}) < n}
    BY DEF Newest
  <1>5. ASSUME NEW r \in Newest(T, n) PROVE r \in Table(Cut(low, high, n), high)
    <2>1. PICK i \in (low + 1)..high : r = Row(i)
      BY <1>4, <1>5 DEF Table
    <2>2. i \in (Cut(low, high, n) + 1)..high
      BY <1>1, <1>2, <1>4, <1>5, <2>1
    <2> QED
      BY <2>1, <2>2 DEF Table
  <1>6. ASSUME NEW r \in Table(Cut(low, high, n), high) PROVE r \in Newest(T, n)
    <2>1. PICK i \in (Cut(low, high, n) + 1)..high : r = Row(i)
      BY <1>6 DEF Table
    <2>2. i \in (low + 1)..high
      BY <1>3, <2>1
    <2>3. r \in T /\ Cardinality({s \in T : s.id > r.id}) < n
      BY <1>1, <1>2, <2>1, <2>2 DEF Table
    <2> QED
      BY <1>4, <2>3
  <1> QED
    BY <1>5, <1>6

(* The ticks before an insert keep their rows. *)
LEMMA StoredTable ==
    ASSUME PipeInv, TableInv, FanStore PROVE TableInv'
  <1>1. /\ stored \in Seq(Event) /\ lastId \in Nat /\ trims \in Nat /\ ev \in Event
        /\ Len(stored) = lastId /\ Keep \in Nat
    BY StoreAssumption DEF PipeInv, PipeTypeOK, StoreTypeOK, TableInv
  <1>2. PICK low \in 0..lastId : TableFrom(low)
    BY DEF TableInv
  <1>3. CASE UNCHANGED storeVars
    BY <1>3 DEF storeVars, TableInv, TableFrom, Table, Row
  <1>4. CASE ~UNCHANGED storeVars
    <2>1. /\ lastId' = lastId + 1 /\ trims' = trims + 1
          /\ rows' = rows \cup {[id |-> lastId', ts |-> ev.ts, raw |-> ev.n]}
          /\ stored' = Append(stored, ev)
      BY <1>4 DEF FanStore, StoreTick
    <2>2. /\ Len(stored') = lastId' /\ stored'[lastId + 1] = ev
          /\ \A i \in 1..lastId : stored'[i] = stored[i]
      BY <1>1, <2>1
    <2>3. rows' = Table(low, lastId)'
      <3> DEFINE new == [id |-> lastId', ts |-> ev.ts, raw |-> ev.n]
      <3>1. \A i \in (low + 1)..lastId : Row(i)' = Row(i)
        BY <1>1, <2>2 DEF Row
      <3>2. \A k : k = lastId + 1 => Row(k)' = new
        BY <2>1, <2>2 DEF Row
      <3>3. \A i : i \in (low + 1)..(lastId + 1) <=> (i \in (low + 1)..lastId \/ i = lastId + 1)
        BY <1>1
      <3>4. \A r : r \in Table(low, lastId) <=> \E i \in (low + 1)..lastId : r = Row(i)
        BY DEF Table
      <3>5. \A r : r \in Table(low, lastId)' <=> \E i \in (low + 1)..(lastId + 1) : r = Row(i)'
        BY <2>1 DEF Table
      <3>6. rows' = Table(low, lastId) \cup {new}
        BY <1>2, <2>1 DEF TableFrom
      <3> HIDE DEF new
      <3>7. \A r : r \in rows' <=> r \in Table(low, lastId)'
        BY <3>1, <3>2, <3>3, <3>4, <3>5, <3>6
      <3> QED
        BY <3>7
    <2>4. (low = 0 \/ lastId' - low >= Keep) /\ trims' # 0 /\ low \in 0..lastId'
      BY <1>1, <1>2, <2>1 DEF TableFrom
    <2> QED
      BY <2>2, <2>3, <2>4 DEF TableInv, TableFrom
  <1> QED
    BY <1>3, <1>4

(* A trim cuts the run to its last Keep rows, or fails and says so. *)
LEMMA TrimTable ==
    ASSUME PipeInv, TableInv, Trim PROVE TableInv'
  <1>1. /\ lastId \in Nat /\ trims \in Nat /\ Len(stored) = lastId /\ Keep \in Nat
        /\ lastId' = lastId /\ stored' = stored
    BY StoreAssumption DEF PipeInv, PipeTypeOK, StoreTypeOK, TableInv, Trim
  <1>2. PICK low \in 0..lastId : TableFrom(low)
    BY DEF TableInv
  <1>3. CASE rows' = Trimmed
    <2>0. PICK cut : cut = Cut(low, lastId, Keep)
      OBVIOUS
    <2>1. rows' = Table(cut, lastId)
      BY <1>1, <1>2, <1>3, <2>0, NewestOfTable DEF Trimmed, TableFrom
    <2>2. cut \in 0..lastId /\ (cut = 0 \/ lastId - cut >= Keep) /\ lastId - cut =< Keep
      BY <1>1, <1>2, <2>0 DEF Cut, TableFrom
    <2>3. Table(cut, lastId)' = Table(cut, lastId)
      BY <1>1 DEF Table, Row
    <2> QED
      BY <1>1, <2>1, <2>2, <2>3 DEF TableInv, TableFrom
  <1>4. CASE UNCHANGED rows /\ overdue' = TRUE
    BY <1>1, <1>2, <1>4 DEF TableInv, TableFrom, Table, Row
  <1> QED
    BY <1>3, <1>4 DEF Trim

(* Every step keeps the table an unbroken run. *)
LEMMA TableStep == ASSUME PipeInv, TableInv, [PipeNext]_pipeVars PROVE TableInv'
  <1>1. CASE UNCHANGED <<rows, lastId, trims, stored, overdue>>
    BY <1>1 DEF TableInv, TableFrom, Table, Row
  <1>2. CASE FanStore
    BY <1>2, StoredTable
  <1>3. CASE Trim
    BY <1>3, TrimTable
  <1>4. CASE ServerRestart
    <2>1. UNCHANGED <<rows, lastId, stored>> /\ trims' = 0 /\ overdue' = (overdue \/ trims > 0)
      BY <1>4 DEF ServerRestart, ReopenStore
    <2>2. PICK low \in 0..lastId : TableFrom(low)
      BY DEF TableInv
    <2>3. trims \in Nat
      BY DEF PipeInv, PipeTypeOK, StoreTypeOK
    <2>4. trims' = 0 /\ ~overdue' => lastId - low =< Keep
      <3>1. trims > 0 \/ trims = 0
        BY <2>3
      <3> QED
        BY <2>1, <2>2, <3>1, Zenon DEF TableFrom
    <2> QED
      BY <2>1, <2>2, <2>4 DEF TableInv, TableFrom, Table, Row
  <1>5. CASE UNCHANGED pipeVars
    BY <1>1, <1>5 DEF pipeVars, storeVars
  <1>6. CASE \E kind, ts : Scan(kind, ts)
    BY <1>1, <1>6 DEF Scan, storeVars
  <1>7. CASE FanTake \/ FanHub \/ FanRelay \/ HubTakes \/ RelayTakes \/ CloseStore
    BY <1>1, <1>7 DEF FanTake, FanHub, FanRelay, HubTakes, RelayTakes, CloseStore, storeVars
  <1> QED
    BY <1>2, <1>3, <1>4, <1>5, <1>6, <1>7 DEF PipeNext, FanOut

(* The table is an unbroken run of the last ticks stored, throughout.       *)
THEOREM TableInvariant == PipeSpec => []TableInv
  <1>1. PipeInit => TableInv
    <2> SUFFICES ASSUME PipeInit PROVE TableInv
      OBVIOUS
    <2>1. rows = {} /\ lastId = 0 /\ stored = <<>> /\ Keep \in Nat
      BY StoreAssumption DEF PipeInit, StoreInit
    <2>2. Table(0, 0) = {}
      BY DEF Table
    <2> QED
      BY <2>1, <2>2 DEF TableInv, TableFrom
  <1>2. PipeInv /\ TableInv /\ [PipeNext]_pipeVars => TableInv'
    BY TableStep
  <1> QED
    BY <1>1, <1>2, PipeInvariant, PTL DEF PipeSpec

(* However inserts, trims, failures and restarts interleave, the table is   *)
(* within its bound once the trims have ended and the last one worked.      *)
THEOREM TableBounded == PipeSpec => []RowsBounded
  <1>1. PipeInv /\ TableInv => RowsBounded
    <2> SUFFICES ASSUME PipeInv, TableInv, trims = 0, ~overdue
                 PROVE  Cardinality(rows) =< Keep
      BY DEF RowsBounded
    <2>1. lastId \in Nat
      BY DEF PipeInv, PipeTypeOK, StoreTypeOK
    <2>2. PICK low \in 0..lastId : TableFrom(low)
      BY DEF TableInv
    <2>3. rows = Table(low, lastId) /\ lastId - low =< Keep
      BY <2>2 DEF TableFrom
    <2>4. Cardinality(Table(low, lastId)) = lastId - low
      BY <2>1, TableCount
    <2> QED
      BY <2>3, <2>4
  <1> QED
    BY <1>1, PipeInvariant, TableInvariant, PTL

-----------------------------------------------------------------------------
(* Sorting: every finite set of rows has a sorted enumeration, and a run    *)
(* whose stamps do not fall is its own                                      *)

Sorted(s) == \A i, j \in DOMAIN s : i < j => OldestFirst(s[i], s[j])

\* Rows of a table: the id is a key
RowSet(T) ==
    /\ \A r \in T : r.id \in Nat /\ r.ts \in Nat
    /\ \A r, s \in T : r.id = s.id => r = s

(* A set of naturals that is not empty has a smallest element. *)
LEMMA SmallestExists ==
    ASSUME NEW S, S \subseteq Nat, S # {}
    PROVE  \E m \in S : \A k \in S : m =< k
  <1>1. PICK m \in S : \A k \in S : <<k, m>> \notin OpToRel(<, Nat)
    BY NatLessThanWellFounded, WFMin
  <1>2. ASSUME NEW k \in S, k < m PROVE <<k, m>> \in OpToRel(<, Nat)
    BY <1>2 DEF OpToRel
  <1>3. \A k \in S : ~(k < m)
    BY <1>1, <1>2, Zenon
  <1> QED
    BY <1>3

(* A strictly increasing function on 1..n into 1..n is the identity. *)
LEMMA IncreasingIsIdentity ==
    ASSUME NEW n \in Nat, NEW f \in [1..n -> 1..n],
           \A i, j \in 1..n : i < j => f[i] < f[j]
    PROVE  \A i \in 1..n : f[i] = i
  <1>1. ASSUME NEW i \in 1..n, f[i] < i PROVE FALSE
    <2> DEFINE Low == {k \in 1..n : f[k] < k}
    <2>0. Low \subseteq Nat /\ i \in Low
      BY <1>1
    <2>1. PICK m \in Low : \A k \in Low : m =< k
      <3> HIDE DEF Low
      <3> QED
        BY <2>0, SmallestExists, Zenon
    <2>2. m \in 1..n /\ f[m] < m /\ f[m] \in 1..n
      BY <2>1
    <2>3. m - 1 \in 1..n /\ m - 1 < m
      BY <2>2
    <2>4. f[m - 1] >= m - 1 /\ f[m - 1] < f[m]
      <3>1. m - 1 \notin Low
        BY <2>1, <2>3
      <3>2. f[m - 1] \in Nat
        BY <2>3
      <3> QED
        BY <2>2, <2>3, <3>1, <3>2
    <2> QED
      BY <2>2, <2>3, <2>4
  <1>2. ASSUME NEW i \in 1..n, f[i] > i PROVE FALSE
    <2> DEFINE High == {k \in 0..n : k < n /\ f[n - k] > n - k}
    <2>1. n - i \in High
      <3>1. n - (n - i) = i /\ n - i \in 0..n /\ n - i < n
        OBVIOUS
      <3> QED
        BY <1>2, <3>1
    <2>2. PICK m \in High : \A k \in High : m =< k
      <3>1. High \subseteq Nat
        OBVIOUS
      <3> HIDE DEF High
      <3> QED
        BY <2>1, <3>1, SmallestExists, Zenon
    <2>3. PICK t \in 1..n : t = n - m
      BY <2>2
    <2>4. f[t] > t /\ f[t] \in 1..n
      BY <2>2, <2>3
    <2>5. t + 1 \in 1..n /\ f[t + 1] > f[t] /\ f[t + 1] \in 1..n
      <3>1. t + 1 \in 1..n
        BY <2>4
      <3> QED
        BY <3>1
    <2>6. m - 1 \in 0..n /\ m - 1 < n /\ n - (m - 1) = t + 1
      BY <2>2, <2>3, <2>5
    <2>7. m - 1 \notin High
      BY <2>2, <2>6, SMTT(30)
    <2> QED
      BY <2>4, <2>5, <2>6, <2>7
  <1>3. ASSUME NEW i \in 1..n PROVE f[i] = i
    <2>1. f[i] \in Nat
      OBVIOUS
    <2> QED
      BY <1>1, <1>2, <2>1
  <1> QED
    BY <1>3

(* Stamps that do not fall from one to the next do not fall at all. *)
LEMMA SteadyStamps ==
    ASSUME NEW n \in Nat, NEW f \in [1..n -> Nat],
           \A i \in 1..(n - 1) : f[i] =< f[i + 1]
    PROVE  \A i, j \in 1..n : i < j => f[i] =< f[j]
  <1> SUFFICES ASSUME NEW i \in 1..n, NEW j \in 1..n, i < j, ~(f[i] =< f[j])
               PROVE  FALSE
    OBVIOUS
  <1> DEFINE Bad == {k \in 1..n : i < k /\ ~(f[i] =< f[k])}
  <1>1. PICK m \in Bad : \A k \in Bad : m =< k
    <2>1. Bad \subseteq Nat /\ j \in Bad
      OBVIOUS
    <2> HIDE DEF Bad
    <2> QED
      BY <2>1, SmallestExists, Zenon
  <1>2. m \in 1..n /\ i < m /\ ~(f[i] =< f[m])
    BY <1>1
  <1>3. m - 1 \in 1..(n - 1) /\ f[m - 1] =< f[(m - 1) + 1] /\ (m - 1) + 1 = m
    <2>1. m - 1 \in 1..(n - 1) /\ (m - 1) + 1 = m
      BY <1>2
    <2> QED
      BY <2>1
  <1>4. m - 1 \notin Bad
    BY <1>1, <1>2
  <1>5. f[i] =< f[m - 1]
    <2>1. CASE m - 1 = i
      BY <2>1
    <2>2. CASE m - 1 # i
      BY <1>2, <1>3, <1>4, <2>2
    <2> QED
      BY <2>1, <2>2
  <1>6. f[i] \in Nat /\ f[m - 1] \in Nat /\ f[m] \in Nat
    BY <1>2, <1>3
  <1> QED
    BY <1>2, <1>3, <1>5, <1>6

(* ORDER BY ts ASC, id ASC orders any two rows of a table. *)
LEMMA RowsOrdered ==
    ASSUME NEW T, RowSet(T)
    PROVE  /\ \A r \in T : ~OldestFirst(r, r)
           /\ \A r, s, t \in T : OldestFirst(r, s) /\ OldestFirst(s, t) => OldestFirst(r, t)
           /\ \A r, s \in T : r = s \/ OldestFirst(r, s) \/ OldestFirst(s, r)
  BY DEF RowSet, OldestFirst

(* Some row of a set comes after all the others. *)
LEMMA LatestRow ==
    ASSUME NEW T, RowSet(T), IsFiniteSet(T), NEW A \in SUBSET T, A # {}
    PROVE  \E m \in A : \A r \in A \ {m} : OldestFirst(r, m)
  <1> DEFINE Later(x) == {y \in A : OldestFirst(x, y)}
             Laters == {Later(x) : x \in A}
  <1>1. IsWellFoundedOn(StrictSubsetOrdering(T), SUBSET T)
    BY FS_StrictSubsetOrderingWellFounded, FS_FiniteSubsetsOfFinite
  <1>2. Laters \subseteq SUBSET T /\ Laters # {}
    OBVIOUS
  <1>3. PICK u \in Laters : \A v \in Laters : <<v, u>> \notin StrictSubsetOrdering(T)
    BY <1>1, <1>2, WFMin
  <1>4. PICK m \in A : u = Later(m)
    OBVIOUS
  <1>5. ASSUME NEW y \in A, OldestFirst(m, y) PROVE FALSE
    <2>1. Later(y) \subseteq Later(m) /\ y \in Later(m) /\ y \notin Later(y)
      BY <1>5, RowsOrdered
    <2>2. <<Later(y), Later(m)>> \in StrictSubsetOrdering(T)
      BY <2>1 DEF StrictSubsetOrdering
    <2> QED
      BY <1>3, <1>4, <2>2
  <1> QED
    BY <1>5, RowsOrdered

(* Every finite set of rows can be listed in order: of the sets that could  *)
(* not, a smallest would have a latest row, and be listed by putting that   *)
(* row after the others.                                                    *)
LEMMA SortedExists ==
    ASSUME NEW T, RowSet(T), IsFiniteSet(T)
    PROVE  \E s \in SetToSeqs(T) : Sorted(s)
  <1> DEFINE Listed(A) == \E s \in SetToSeqs(A) : Sorted(s)
             Bad == {A \in SUBSET T : ~Listed(A)}
  <1> SUFFICES ASSUME Bad # {} PROVE FALSE
    OBVIOUS
  <1>1. IsWellFoundedOn(StrictSubsetOrdering(T), SUBSET T)
    BY FS_StrictSubsetOrderingWellFounded, FS_FiniteSubsetsOfFinite
  <1>2. PICK A \in Bad : \A B \in Bad : <<B, A>> \notin StrictSubsetOrdering(T)
    <2>1. Bad \subseteq SUBSET T
      OBVIOUS
    <2> HIDE DEF Bad
    <2> QED
      BY <1>1, <2>1, WFMin
  <1>3. A \in SUBSET T /\ ~Listed(A)
    BY <1>2
  <1>4. A # {}
    <2> SUFFICES ASSUME A = {} PROVE FALSE
      OBVIOUS
    <2>1. Cardinality(A) = 0 /\ 1..0 = {}
      BY FS_EmptySet
    <2>2. <<>> \in [1..Cardinality(A) -> A] /\ DOMAIN <<>> = {}
      BY <2>1
    <2>3. <<>> \in SetToSeqs(A)
      BY <2>1, <2>2 DEF SetToSeqs
    <2> QED
      BY <1>3, <2>2, <2>3 DEF Sorted
  <1>5. PICK m \in A : \A r \in A \ {m} : OldestFirst(r, m)
    BY <1>3, <1>4, LatestRow
  <1> DEFINE B == A \ {m}
             k == Cardinality(B)
  <1>6. PICK s \in SetToSeqs(B) : Sorted(s)
    <2>1. <<B, A>> \in StrictSubsetOrdering(T)
      BY <1>3 DEF StrictSubsetOrdering
    <2> QED
      BY <1>2, <1>3, <2>1
  <1>7. k \in Nat /\ Cardinality(A) = k + 1
    <2>1. IsFiniteSet(A) /\ IsFiniteSet(B)
      BY <1>3, FS_Subset
    <2>2. Cardinality(A) \in Nat /\ k \in Nat /\ k = Cardinality(A) - 1
      BY <2>1, FS_CardinalityType, FS_RemoveElement
    <2> QED
      BY <2>2
  <1> HIDE DEF k
  <1>8. s \in [1..k -> B] /\ \A i, j \in 1..k : i # j => s[i] # s[j]
    BY <1>6 DEF SetToSeqs, k
  <1> DEFINE t == [i \in 1..(k + 1) |-> IF i = k + 1 THEN m ELSE s[i]]
  <1>9. t[k + 1] = m /\ \A i \in 1..k : t[i] = s[i] /\ t[i] \in B
    BY <1>7, <1>8
  <1>10. \A i \in 1..(k + 1) : i \in 1..k \/ i = k + 1
    BY <1>7
  <1>11. t \in [1..(k + 1) -> A] /\ DOMAIN t = 1..(k + 1)
    BY <1>8, <1>10
  <1> HIDE DEF t
  <1>12. \A i, j \in 1..(k + 1) : i # j => t[i] # t[j]
    BY <1>8, <1>9, <1>10
  <1>13. t \in SetToSeqs(A)
    BY <1>7, <1>11, <1>12 DEF SetToSeqs
  <1>14. Sorted(t)
    <2> SUFFICES ASSUME NEW i \in 1..(k + 1), NEW j \in 1..(k + 1), i < j
                 PROVE  OldestFirst(t[i], t[j])
      BY <1>11 DEF Sorted
    <2>1. i \in 1..k
      BY <1>7
    <2>2. CASE j \in 1..k
      BY <1>6, <1>8, <1>9, <2>1, <2>2 DEF Sorted
    <2>3. CASE j = k + 1
      BY <1>5, <1>9, <2>1, <2>3
    <2> QED
      BY <1>10, <2>2, <2>3
  <1> QED
    BY <1>3, <1>13, <1>14

(* History(n) lists the k rows of A in order, each of them once. *)
Lists(n, A, k) ==
    \E s \in [1..k -> A] :
        /\ Sorted(s)
        /\ \A r \in A : \E i \in 1..k : s[i] = r
        /\ History(n) = [i \in 1..k |-> [n |-> s[i].raw, ts |-> s[i].ts]]

(* What History answers: a sorted list of the newest rows, each once. *)
LEMMA HistoryLists ==
    ASSUME NEW a \in Nat, NEW b \in Nat, a =< b, NEW n \in Nat,
           Newest(rows, n) = Table(a, b), RowSet(Table(a, b))
    PROVE  Lists(n, Table(a, b), b - a)
  <1> DEFINE N == Table(a, b)
             s == CHOOSE u \in SetToSeqs(N) : Sorted(u)
  <1>1. IsFiniteSet(N) /\ Cardinality(N) = b - a /\ RowSet(N)
    BY TableCount
  <1> HIDE DEF N
  <1>2. s \in SetToSeqs(N) /\ Sorted(s)
    BY <1>1, SortedExists
  <1>3. History(n) = [i \in DOMAIN s |-> [n |-> s[i].raw, ts |-> s[i].ts]]
    BY DEF History, Sorted, N
  <1> HIDE DEF s
  <1>4. s \in [1..(b - a) -> N] /\ \A i, j \in 1..(b - a) : i # j => s[i] # s[j]
    BY <1>1, <1>2 DEF SetToSeqs
  <1>5. s \in Injection(1..(b - a), N)
    BY <1>4 DEF Injection, IsInjective
  <1>6. Cardinality(1..(b - a)) = b - a
    <2>1. b - a \in Nat /\ 1 \in Int
      OBVIOUS
    <2>2. Cardinality(1..(b - a)) = IF 1 > b - a THEN 0 ELSE b - a - 1 + 1
      BY <2>1, FS_Interval
    <2> QED
      BY <2>1, <2>2
  <1>7. s \in Surjection(1..(b - a), N)
    BY <1>1, <1>5, <1>6, FS_Injection
  <1>8. \A r \in N : \E i \in 1..(b - a) : s[i] = r
    BY <1>7 DEF Surjection
  <1> QED
    BY <1>2, <1>3, <1>4, <1>8 DEF N, Lists

(* u is what is left of st, of length h, once its first a elements go. *)
IsTail(u, st, a, h) ==
    /\ DOMAIN u = 1..(h - a)
    /\ \A i \in 1..(h - a) : u[i] = st[a + i]

LEMMA TailOfSeq ==
    ASSUME NEW E, NEW st \in Seq(E), NEW a \in Nat, NEW h \in Nat, h = Len(st), a =< h
    PROVE  IsTail(SubSeq(st, a + 1, h), st, a, h)
  <1>1. Len(SubSeq(st, a + 1, h)) = h - a
    OBVIOUS
  <1>2. SubSeq(st, a + 1, h) \in Seq(E)
    OBVIOUS
  <1>3. \A i \in 1..(h - a) : SubSeq(st, a + 1, h)[i] = st[a + i]
    OBVIOUS
  <1>4. DOMAIN SubSeq(st, a + 1, h) = 1..(h - a)
    BY <1>1, <1>2, LenProperties, Zenon
  <1> QED
    BY <1>3, <1>4, Zenon DEF IsTail

(* The last l elements of a sequence, read off its end. *)
LEMMA LastOfSeq ==
    ASSUME NEW E, NEW st \in Seq(E), NEW l \in Nat, NEW h \in Nat, h = Len(st),
           NEW a \in Nat, a = IF h > l THEN h - l ELSE 0
    PROVE  IsTail(LastOf(st, l), st, a, h)
  <1>1. a =< h
    OBVIOUS
  <1>2. Max({1, h - l + 1}) = a + 1
    <2>1. a + 1 \in {1, h - l + 1} /\ \A y \in {1, h - l + 1} : a + 1 >= y
      OBVIOUS
    <2>2. \A x \in {1, h - l + 1} : (\A y \in {1, h - l + 1} : x >= y) => x = a + 1
      BY <2>1
    <2> QED
      BY <2>1, <2>2 DEF Max
  <1>3. LastOf(st, l) = SubSeq(st, a + 1, h)
    BY <1>2 DEF LastOf
  <1>4. IsTail(SubSeq(st, a + 1, h), st, a, h)
    BY <1>1, TailOfSeq, Zenon
  <1> QED
    BY <1>3, <1>4, Zenon

(* GET /api/history answers with the last ticks stored, in their order as   *)
(* long as the stamps do not fall: the table never lacks a tick a request   *)
(* may ask for, and sorting a run by stamp and id gives the run itself.     *)
THEOREM HistoryNewest == PipeSpec => []HistoryIsNewest
  <1>1. PipeInv /\ TableInv => HistoryIsNewest
    <2> SUFFICES ASSUME PipeInv, TableInv, NEW q \in 0..(MaxLimit + 1)
                 PROVE  LET answer == History(Limit(q))
                            last   == [i \in DOMAIN LastOf(stored, Limit(q)) |->
                                         [n |-> LastOf(stored, Limit(q))[i].n,
                                          ts |-> LastOf(stored, Limit(q))[i].ts]]
                            steady == \A i \in 1..(Len(last) - 1) : last[i].ts =< last[i + 1].ts
                        IN  /\ ToSet(answer) = ToSet(last)
                            /\ steady => answer = last
      BY DEF HistoryIsNewest
    <2>1. /\ stored \in Seq(Event) /\ lastId \in Nat /\ Len(stored) = lastId
          /\ Keep \in Nat /\ MaxLimit \in 1..Keep /\ DefaultLimit \in 1..MaxLimit
      BY StoreAssumption DEF PipeInv, PipeTypeOK, StoreTypeOK, TableInv
    <2>2. PICK l : l = Limit(q)
      OBVIOUS
    <2>3. l \in 1..MaxLimit /\ l \in Nat
      BY <2>1, <2>2 DEF Limit
    <2>4. PICK low \in 0..lastId : TableFrom(low)
      BY DEF TableInv
    <2>5. PICK a \in 0..lastId : a = Cut(low, lastId, l)
      <3>1. Cut(low, lastId, l) \in 0..lastId
        BY <2>1, <2>3 DEF Cut
      <3> QED
        BY <3>1
    <2>6. a \in Nat /\ a = IF lastId > l THEN lastId - l ELSE 0
      BY <2>1, <2>3, <2>4, <2>5 DEF Cut, TableFrom
    <2>7. PICK n \in Nat : n = lastId - a
      BY <2>1, <2>6
    <2>8. Newest(rows, l) = Table(a, lastId)
      BY <2>1, <2>3, <2>4, <2>5, NewestOfTable DEF TableFrom
    <2>9. \A i \in 1..n : /\ a + i \in (a + 1)..lastId /\ a + i \in 1..lastId
                           /\ stored[a + i] \in Event /\ stored[a + i].ts \in Nat
      <3> SUFFICES ASSUME NEW i \in 1..n
                   PROVE  /\ a + i \in (a + 1)..lastId /\ a + i \in 1..lastId
                          /\ stored[a + i] \in Event /\ stored[a + i].ts \in Nat
        OBVIOUS
      <3>1. a + i \in (a + 1)..lastId /\ a + i \in 1..lastId
        BY <2>1, <2>6, <2>7
      <3>2. stored[a + i] \in Event
        BY <2>1, <3>1, ElementOfSeq
      <3> QED
        BY <3>1, <3>2 DEF Event
    <2>10. \A r : r \in Table(a, lastId) <=> \E i \in 1..n : r = Row(a + i)
      <3>1. ASSUME NEW r \in Table(a, lastId) PROVE \E i \in 1..n : r = Row(a + i)
        <4>1. PICK x \in (a + 1)..lastId : r = Row(x)
          BY <3>1 DEF Table
        <4>2. x - a \in 1..n /\ a + (x - a) = x
          BY <2>1, <2>6, <2>7
        <4> QED
          BY <4>1, <4>2
      <3>2. ASSUME NEW i \in 1..n PROVE Row(a + i) \in Table(a, lastId)
        BY <2>9 DEF Table
      <3> QED
        BY <3>1, <3>2
    <2>11. \A i \in 1..n : /\ Row(a + i).id = a + i /\ Row(a + i).ts = stored[a + i].ts
                            /\ Row(a + i).raw = stored[a + i].n
      BY DEF Row
    <2>12. RowSet(Table(a, lastId))
      <3>1. \A r \in Table(a, lastId) : r.id \in Nat /\ r.ts \in Nat
        BY <2>6, <2>9, <2>10, <2>11
      <3>2. \A r, s \in Table(a, lastId) : r.id = s.id => r = s
        <4> SUFFICES ASSUME NEW r \in Table(a, lastId), NEW s \in Table(a, lastId),
                            r.id = s.id
                     PROVE  r = s
          OBVIOUS
        <4>1. PICK i \in 1..n, j \in 1..n : r = Row(a + i) /\ s = Row(a + j)
          BY <2>10
        <4>2. a + i = a + j
          BY <2>11, <4>1
        <4> QED
          BY <4>1, <4>2
      <3> QED
        BY <3>1, <3>2 DEF RowSet
    <2>13. PICK s \in [1..n -> Table(a, lastId)] :
             /\ Sorted(s)
             /\ \A r \in Table(a, lastId) : \E i \in 1..n : s[i] = r
             /\ History(l) = [i \in 1..n |-> [n |-> s[i].raw, ts |-> s[i].ts]]
      <3>1. a =< lastId
        BY <2>1, <2>5
      <3>2. Lists(l, Table(a, lastId), lastId - a)
        BY <2>1, <2>3, <2>6, <2>8, <2>12, <3>1, HistoryLists
      <3>3. Lists(l, Table(a, lastId), n)
        BY <2>7, <3>2
      <3> QED
        BY <3>3, Zenon DEF Lists
    <2> DEFINE last == [i \in 1..n |-> [n |-> stored[a + i].n, ts |-> stored[a + i].ts]]
               answer == [i \in 1..n |-> [n |-> s[i].raw, ts |-> s[i].ts]]
    <2>14. last = [i \in DOMAIN LastOf(stored, l) |->
                     [n |-> LastOf(stored, l)[i].n, ts |-> LastOf(stored, l)[i].ts]]
      <3>1. /\ DOMAIN LastOf(stored, l) = 1..n
            /\ \A i \in 1..n : LastOf(stored, l)[i] = stored[a + i]
        <4>1. PICK st \in Seq(Event), h \in Nat : st = stored /\ h = lastId /\ h = Len(st)
          BY <2>1
        <4>2. a = IF h > l THEN h - l ELSE 0
          BY <2>6, <4>1
        <4>3. IsTail(LastOf(st, l), st, a, h)
          BY <2>3, <2>6, <4>1, <4>2, LastOfSeq, Zenon
        <4>4. n = h - a
          BY <2>7, <4>1
        <4> QED
          BY <4>1, <4>3, <4>4, Zenon DEF IsTail
      <3> QED
        BY <3>1
    <2>15. Len(last) = n
      BY <2>7
    <2>16. ToSet(answer) = ToSet(last)
      <3>1. ASSUME NEW i \in 1..n PROVE \E j \in 1..n : answer[i] = last[j]
        <4>1. PICK j \in 1..n : s[i] = Row(a + j)
          BY <2>10, <2>13
        <4> QED
          BY <2>11, <4>1
      <3>2. ASSUME NEW j \in 1..n PROVE \E i \in 1..n : answer[i] = last[j]
        <4>1. PICK i \in 1..n : s[i] = Row(a + j)
          BY <2>10, <2>13
        <4> QED
          BY <2>11, <4>1
      <3>3. DOMAIN answer = 1..n /\ DOMAIN last = 1..n
        OBVIOUS
      <3> HIDE DEF answer, last
      <3>4. ToSet(answer) = {answer[i] : i \in 1..n} /\ ToSet(last) = {last[i] : i \in 1..n}
        BY <3>3 DEF ToSet
      <3>5. {answer[i] : i \in 1..n} = {last[i] : i \in 1..n}
        <4>1. ASSUME NEW x \in {answer[i] : i \in 1..n} PROVE x \in {last[i] : i \in 1..n}
          <5>1. PICK i \in 1..n : x = answer[i]
            OBVIOUS
          <5>2. PICK j \in 1..n : answer[i] = last[j]
            BY <3>1
          <5> QED
            BY <5>1, <5>2
        <4>2. ASSUME NEW x \in {last[i] : i \in 1..n} PROVE x \in {answer[i] : i \in 1..n}
          <5>1. PICK j \in 1..n : x = last[j]
            OBVIOUS
          <5>2. PICK i \in 1..n : answer[i] = last[j]
            BY <3>2
          <5> QED
            BY <5>1, <5>2
        <4> QED
          BY <4>1, <4>2
      <3> QED
        BY <3>4, <3>5
    <2>17. ASSUME \A i \in 1..(n - 1) : last[i].ts =< last[i + 1].ts
           PROVE  answer = last
      <3> DEFINE stamp == [i \in 1..n |-> stored[a + i].ts]
                 f == [i \in 1..n |-> s[i].id - a]
      <3>1. \A i, j \in 1..n : i < j => stamp[i] =< stamp[j]
        <4>1. stamp \in [1..n -> Nat]
          BY <2>9
        <4>2. \A i \in 1..(n - 1) : stamp[i] =< stamp[i + 1]
          <5> SUFFICES ASSUME NEW i \in 1..(n - 1) PROVE stamp[i] =< stamp[i + 1]
            OBVIOUS
          <5>1. i \in 1..n /\ i + 1 \in 1..n
            BY <2>7
          <5> QED
            BY <2>17, <5>1
        <4> HIDE DEF stamp
        <4> QED
          BY <4>1, <4>2, SteadyStamps
      <3>2. \A i \in 1..n : f[i] \in 1..n /\ s[i] = Row(a + f[i])
        <4> SUFFICES ASSUME NEW i \in 1..n PROVE f[i] \in 1..n /\ s[i] = Row(a + f[i])
          OBVIOUS
        <4>1. PICK j \in 1..n : s[i] = Row(a + j)
          BY <2>10, <2>13
        <4>2. s[i].id = a + j
          BY <2>11, <4>1
        <4>3. f[i] = j
          BY <2>6, <4>2
        <4> QED
          BY <4>1, <4>3
      <3>3. f \in [1..n -> 1..n]
        BY <3>2
      <3> HIDE DEF f
      <3>4. ASSUME NEW i \in 1..n, NEW j \in 1..n, i < j PROVE f[i] < f[j]
        <4>1. OldestFirst(s[i], s[j])
          BY <2>13, <3>4 DEF Sorted
        <4>2. f[i] \in 1..n /\ f[j] \in 1..n
          BY <3>2
        <4>3. /\ s[i].ts = stamp[f[i]] /\ s[i].id = a + f[i]
              /\ s[j].ts = stamp[f[j]] /\ s[j].id = a + f[j]
          BY <2>11, <3>2, <4>2
        <4>4. stamp[f[i]] \in Nat /\ stamp[f[j]] \in Nat
          BY <2>9, <4>2
        <4> HIDE DEF stamp
        <4>5. f[j] < f[i] => stamp[f[j]] =< stamp[f[i]]
          BY <3>1, <4>2
        <4>6. \/ stamp[f[i]] < stamp[f[j]]
              \/ stamp[f[i]] = stamp[f[j]] /\ a + f[i] < a + f[j]
          BY <4>1, <4>3 DEF OldestFirst
        <4>7. f[i] # f[j]
          BY <4>2, <4>4, <4>6, <2>6
        <4> QED
          BY <2>6, <4>2, <4>4, <4>5, <4>6, <4>7, SMTT(60)
      <3>5. \A i \in 1..n : f[i] = i
        BY <3>3, <3>4, IncreasingIsIdentity
      <3>6. \A i \in 1..n : s[i] = Row(a + i)
        BY <3>2, <3>5
      <3>7. \A i \in 1..n : answer[i] = last[i]
        BY <2>11, <3>6
      <3> QED
        BY <3>7
    <2> HIDE DEF answer, last
    <2>18. History(Limit(q)) = answer
      BY <2>2, <2>13 DEF answer
    <2> QED
      BY <2>2, <2>14, <2>15, <2>16, <2>17, <2>18
  <1> QED
    BY <1>1, PipeInvariant, TableInvariant, PTL
=============================================================================
