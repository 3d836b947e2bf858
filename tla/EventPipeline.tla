--------------------------- MODULE EventPipeline ---------------------------
(***************************************************************************)
(* The way of the engine's events through the server: the scan loop of     *)
(* Runner.run puts each line into eventChan, main's fan-out goroutine      *)
(* takes it and offers it to the hub, then to the relay, then, if it is a  *)
(* tick, to the store.  Whoever is full loses the event, and nobody        *)
(* further up is made to wait.                                             *)
(*                                                                         *)
(* The engine's lines are numbered as it prints them, over all of its      *)
(* incarnations.                                                           *)
(***************************************************************************)
EXTENDS TickStore

CONSTANTS ChanCap,      \* capacity of eventChan (500)
          HubCap,       \* capacity of h.broadcast (256)
          RelayCap,     \* capacity of r.tickSub (256)
          Kinds,        \* kinds of lines that are not ticks
          Times,        \* stamps of ticks, in seconds; those of other lines are not read
          MaxEvents,    \* bound on the lines printed
          MaxRestarts   \* bound on the restarts of the server

ASSUME PipelineAssumption ==
    /\ {ChanCap, HubCap, RelayCap} \subseteq Nat \ {0}
    /\ {MaxEvents, MaxRestarts} \subseteq Nat /\ "tick" \notin Kinds
    /\ Times \subseteq Nat

VARIABLES
    printed,    \* number of lines printed
    eventChan,  \* main's eventChan
    fan,        \* the fan-out goroutine: what it does next
    ev,         \* the event it has taken
    hubQ,       \* h.broadcast
    hubGot,     \* the last event Hub.Run has received
    relayQ,     \* r.tickSub
    relayGot,   \* the last event Relay.fanOut has received
    restarts    \* restarts of the server

sinkVars == <<hubQ, hubGot, relayQ, relayGot>>
pipeVars == <<printed, eventChan, fan, ev, sinkVars, restarts, storeVars>>

NoEvent == [n |-> 0, type |-> "", ts |-> 0]

PipeInit ==
    /\ StoreInit
    /\ printed = 0 /\ eventChan = <<>> /\ fan = "take" /\ ev = NoEvent
    /\ hubQ = <<>> /\ hubGot = 0 /\ relayQ = <<>> /\ relayGot = 0
    /\ restarts = 0

\* extractType
ExtractType(kind) == IF kind \in {"tick", "fill", "reject"} THEN kind ELSE ""

\* Fault: a full channel is waited for in a goroutine, and overtaken.
Overtaken(chan, e, cap) == IF Len(chan) < cap THEN Append(chan, e) ELSE <<e>> \o Tail(chan)

\* Fault: the event is queued whether there is room or not.
Queued(chan, e, cap) == IF Len(chan) =< cap THEN Append(chan, e) ELSE chan

\* select { case chan <- e: default: }
Offer(chan, e, cap) == IF Len(chan) < cap THEN Append(chan, e) ELSE chan

\* One turn of the scan loop of Runner.run
Scan(kind, ts) ==
    /\ printed < MaxEvents
    /\ printed' = printed + 1
    /\ eventChan' = Offer(eventChan, [n |-> printed', type |-> ExtractType(kind), ts |-> ts],
                          ChanCap)
    /\ UNCHANGED <<fan, ev, sinkVars, restarts, storeVars>>

\* for ev := range eventChan
FanTake ==
    /\ fan = "take" /\ eventChan # <<>>
    /\ ev' = Head(eventChan) /\ eventChan' = Tail(eventChan)
    /\ fan' = "hub"
    /\ UNCHANGED <<printed, sinkVars, restarts, storeVars>>

\* Fault: h.broadcast <- data without a default case.
BlockingHub ==
    /\ fan = "hub" /\ fan' = "relay"
    /\ Len(hubQ) < HubCap /\ hubQ' = Append(hubQ, ev.n)
    /\ UNCHANGED <<printed, eventChan, ev, hubGot, relayQ, relayGot, restarts, storeVars>>

\* hub.Broadcast(ev.Raw)
FanHub ==
    /\ fan = "hub" /\ fan' = "relay"
    /\ hubQ' = Offer(hubQ, ev.n, HubCap)
    /\ UNCHANGED <<printed, eventChan, ev, hubGot, relayQ, relayGot, restarts, storeVars>>

\* relay.TickSub() <- ev.Raw, and the test for a tick
FanRelay ==
    /\ fan = "relay"
    /\ relayQ' = Offer(relayQ, ev.n, RelayCap)
    /\ IF ev.type = "tick" THEN fan' = "store" /\ UNCHANGED ev
                           ELSE fan' = "take" /\ ev' = NoEvent
    /\ UNCHANGED <<printed, eventChan, hubQ, hubGot, relayGot, restarts, storeVars>>

\* store.StoreTick(ev.Raw); an error is only logged
FanStore ==
    /\ fan = "store" /\ fan' = "take"
    /\ StoreTick(ev)
    /\ ev' = NoEvent
    /\ UNCHANGED <<printed, eventChan, sinkVars, restarts>>

FanOut == FanTake \/ FanHub \/ FanRelay \/ FanStore

\* Hub.Run receives from h.broadcast
HubTakes ==
    /\ hubQ # <<>> /\ hubGot' = Head(hubQ) /\ hubQ' = Tail(hubQ)
    /\ UNCHANGED <<printed, eventChan, fan, ev, relayQ, relayGot, restarts, storeVars>>

\* Relay.fanOut receives from r.tickSub
RelayTakes ==
    /\ relayQ # <<>> /\ relayGot' = Head(relayQ) /\ relayQ' = Tail(relayQ)
    /\ UNCHANGED <<printed, eventChan, fan, ev, hubQ, hubGot, restarts, storeVars>>

StoreOther == UNCHANGED <<printed, eventChan, fan, ev, sinkVars, restarts>>

\* The server ends, in good order or not, and is started again
ServerRestart ==
    /\ restarts < MaxRestarts
    /\ restarts' = restarts + 1
    /\ eventChan' = <<>> /\ fan' = "take" /\ ev' = NoEvent /\ hubQ' = <<>> /\ relayQ' = <<>>
    /\ ReopenStore
    /\ UNCHANGED <<printed, hubGot, relayGot>>

PipeNext ==
    \/ \E ts \in Times : Scan("tick", ts)
    \/ \E k \in Kinds : Scan(k, 0)
    \/ FanOut \/ HubTakes \/ RelayTakes
    \/ (Trim \/ CloseStore) /\ StoreOther
    \/ ServerRestart

PipeSpec == PipeInit /\ [][PipeNext]_pipeVars

\* The fan-out goroutine is scheduled and SQLite answers.  Hub and relay owe
\* nothing: they may be stuck.
PipeFairSpec == PipeSpec /\ WF_pipeVars(FanOut)

-----------------------------------------------------------------------------
Event == [n : Nat, type : {"tick", "fill", "reject", ""}, ts : Nat]

(* Type invariant; the three channels stay within their capacities.         *)
PipeTypeOK ==
    /\ StoreTypeOK
    /\ printed \in Nat /\ restarts \in Nat /\ ev \in Event
    /\ fan \in {"take", "hub", "relay", "store"}
    /\ eventChan \in Seq(Event) /\ Len(eventChan) =< ChanCap
    /\ hubQ \in Seq(Nat) /\ Len(hubQ) =< HubCap /\ hubGot \in Nat
    /\ relayQ \in Seq(Nat) /\ Len(relayQ) =< RelayCap /\ relayGot \in Nat

HubView   == INSTANCE LossyFifo WITH sent <- printed, got <- hubGot
RelayView == INSTANCE LossyFifo WITH sent <- printed, got <- relayGot
StoreView == INSTANCE LossyFifo WITH sent <- printed,
                got <- IF stored = <<>> THEN 0 ELSE stored[Len(stored)].n

(* Hub, relay and store each see the engine's events in order and at most   *)
(* once, through three channels that drop, failing inserts and restarts.    *)
SinksInOrder == HubView!LFSpec /\ RelayView!LFSpec /\ StoreView!LFSpec

\* Event n is in eventChan or in the hands of the fan-out goroutine
Waiting(n) == n = ev.n \/ \E i \in DOMAIN eventChan : eventChan[i].n = n

(* Every event that eventChan accepts is taken through the fan-out, however *)
(* stuck hub and relay are and whatever inserts fail.                       *)
EventsHandled == \A n \in 1..MaxEvents : Waiting(n) ~> ~Waiting(n)
=============================================================================
