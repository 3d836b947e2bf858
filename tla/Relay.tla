-------------------------------- MODULE Relay --------------------------------
(***************************************************************************)
(* The bridge between the engine and the sandboxes                         *)
(* (src/server/sandbox/relay.go): the goroutine fanOut, and for each       *)
(* attached sandbox HandleSandbox, which reads the container's orders, and *)
(* its writer, which feeds the container's stdin from the channel outCh.   *)
(* r.mu is held for a few lines at a time: each such stretch is a step.    *)
(*                                                                         *)
(* A trader id is attached at most once (SandboxManager), so the test for  *)
(* a successor's channel in the deferred function never fails.  Lines of a *)
(* container that are no orders are skipped and change nothing.  An order  *)
(* counts as forwarded when it has passed the rate limiter; SendOrder then *)
(* returns (Runner's CallsReturn), and its error is only logged.           *)
(***************************************************************************)
EXTENDS Integers, Sequences

CONSTANTS Sandboxes,   \* trader ids with a container
          Traders,     \* trader ids that fills and rejects are addressed to
          OutCap,      \* capacity of outCh (64)
          Limit,       \* orders a window admits (10)
          Window,      \* its length: one second, in units of the clock
          MaxEvents,   \* bound on the engine events received
          MaxOrders,   \* bound on the orders of a container
          MaxTime,     \* bound on the clock
          Nobody

ASSUME RelayAssumption ==
    /\ Sandboxes \subseteq Traders /\ Nobody \notin Traders
    /\ {OutCap, Limit, Window} \subseteq Nat \ {0}
    /\ {MaxEvents, MaxOrders, MaxTime} \subseteq Nat

VARIABLES
    received,   \* number of events fanOut has received
    found,      \* the sandbox whose channel fanOut has looked up, and hdr.TraderID
    lastTick,   \* r.lastTick: the number of that event, 0 for nil
    conns,      \* sandboxes in r.conns
    outCh,      \* outCh of each sandbox
    handler,    \* goroutine of HandleSandbox
    context,    \* lt: the tick it has read
    writer,     \* its writer
    inHand,     \* the message the writer is writing, as a sequence
    ctxDone,    \* the sandbox's context has been cancelled
    gone,       \* the container has stopped: its output is at its end
    clock,      \* time.Now()
    rlCount, rlWindow,   \* the rate limiter
    forwarded,  \* history: the times at which orders were forwarded to the engine
    orders,     \* orders read
    written,    \* history: the last engine event written, context aside
    offered     \* history: the newest tick put into outCh, or dropped as it was full

fanVars     == <<received, found, lastTick>>
handlerVars == <<handler, context>>
writerVars  == <<writer, inHand, written>>
limitVars   == <<clock, rlCount, rlWindow, forwarded, orders>>
relayVars   == <<fanVars, conns, outCh, handlerVars, writerVars, ctxDone, gone, limitVars,
                 offered>>

NoRoute == [ch |-> Nobody, to |-> Nobody]

RelayInit ==
    /\ received = 0 /\ found = NoRoute /\ lastTick = 0 /\ conns = {} /\ clock = 0
    /\ outCh     = [t \in Sandboxes |-> <<>>]
    /\ handler   = [t \in Sandboxes |-> "none"]
    /\ context   = [t \in Sandboxes |-> 0]
    /\ writer    = [t \in Sandboxes |-> "none"]
    /\ inHand    = [t \in Sandboxes |-> <<>>]
    /\ ctxDone   = [t \in Sandboxes |-> FALSE]
    /\ gone      = [t \in Sandboxes |-> FALSE]
    /\ rlCount   = [t \in Sandboxes |-> 0]
    /\ rlWindow  = [t \in Sandboxes |-> -1]
    /\ forwarded = [t \in Sandboxes |-> <<>>]
    /\ orders    = [t \in Sandboxes |-> 0]
    /\ written   = [t \in Sandboxes |-> 0]
    /\ offered   = [t \in Sandboxes |-> 0]

\* The kinds of message that come from the engine
EngineEvent == {"tick", "fill"}

Msg(kind, n, to) == [kind |-> kind, n |-> n, to |-> to]

\* Fault: there is one place more than the channel has.
OneTooMany(ch, m) == IF Len(ch) =< OutCap THEN Append(ch, m) ELSE ch

\* select { case ch <- m: default: }
Offer(ch, m) == IF Len(ch) < OutCap THEN Append(ch, m) ELSE ch

-----------------------------------------------------------------------------
(* Relay.fanOut                                                             *)

FanOther == UNCHANGED <<conns, handlerVars, writerVars, ctxDone, gone, limitVars>>

\* case "tick", under r.mu
FanTick ==
    /\ found = NoRoute /\ received < MaxEvents
    /\ received' = received + 1
    /\ lastTick' = received'
    /\ outCh' = [t \in Sandboxes |->
                   IF t \in conns THEN Offer(outCh[t], Msg("tick", received', Nobody))
                                  ELSE outCh[t]]
    /\ offered' = [t \in Sandboxes |-> IF t \in conns THEN received' ELSE offered[t]]
    /\ UNCHANGED found /\ FanOther

\* Fault: any channel will do.
AnyRoute(to) == conns

\* ch, ok := r.conns[hdr.TraderID]
Route(to) == conns \cap {to}

\* case "fill", "reject": look the channel up.  An event for nobody, or for
\* nobody attached, goes no further.
FanLookup(to) ==
    /\ found = NoRoute /\ received < MaxEvents
    /\ received' = received + 1
    /\ IF Route(to) = {} THEN found' = NoRoute
       ELSE \E t \in Route(to) : found' = [ch |-> t, to |-> to]
    /\ UNCHANGED <<lastTick, outCh, offered>> /\ FanOther

\* ... and send, without the lock; the sandbox may have detached meanwhile
FanSend ==
    /\ found # NoRoute
    /\ outCh' = [outCh EXCEPT ![found.ch] = Offer(@, Msg("fill", received, found.to))]
    /\ found' = NoRoute
    /\ UNCHANGED <<received, lastTick, offered>> /\ FanOther

FanOut == FanTick \/ FanSend \/ \E to \in Traders : FanLookup(to)

-----------------------------------------------------------------------------
(* Relay.HandleSandbox                                                      *)

\* Fault: the last tick is read before the channel is registered.
ReadFirst == [none |-> "read", read |-> "register", register |-> "send", send |-> "scan"]

\* The order of the steps up to the scan loop
Attaching == [none |-> "register", register |-> "read", read |-> "send", send |-> "scan"]

Step(t, at) == handler[t] = at /\ handler' = [handler EXCEPT ![t] = Attaching[at]]

\* Spawn starts the goroutine
Attach(t) ==
    /\ Step(t, "none")
    /\ UNCHANGED <<fanVars, conns, outCh, context, writerVars, ctxDone, gone, limitVars,
                   offered>>

\* r.conns[traderID] = outCh
Register(t) ==
    /\ Step(t, "register")
    /\ conns' = conns \cup {t}
    /\ UNCHANGED <<fanVars, outCh, context, writerVars, ctxDone, gone, limitVars, offered>>

\* lt := r.lastTick
ReadContext(t) ==
    /\ Step(t, "read")
    /\ context' = [context EXCEPT ![t] = lastTick]
    /\ UNCHANGED <<fanVars, conns, outCh, writerVars, ctxDone, gone, limitVars, offered>>

\* outCh <- lt, if there is one, and start the writer
SendContext(t) ==
    /\ Step(t, "send")
    /\ outCh' = IF context[t] = 0 THEN outCh
                ELSE [outCh EXCEPT ![t] = Offer(@, Msg("context", context[t], Nobody))]
    /\ offered' = [offered EXCEPT ![t] = IF context[t] > @ THEN context[t] ELSE @]
    /\ writer' = [writer EXCEPT ![t] = "select"]
    /\ UNCHANGED <<fanVars, conns, context, inHand, written, ctxDone, gone, limitVars>>

\* Fault: !now.Before(rlWindow), which is true at the very end of the window too.
NotBefore(t) == clock >= rlWindow[t]

\* now.After(rlWindow)
Expired(t) == clock > rlWindow[t]

\* Fault: the count is not reset with the window.
KeepCount(t) == rlCount[t]

\* rlCount = 0
FreshCount(t) == 0

\* The count that this order brings rlCount to
Counted(t) == 1 + IF Expired(t) THEN FreshCount(t) ELSE rlCount[t]

\* An order line: the rate limiter, then SendOrder or a rejection
OrderLine(t) ==
    /\ handler[t] = "scan" /\ ~gone[t] /\ orders[t] < MaxOrders
    /\ orders' = [orders EXCEPT ![t] = @ + 1]
    /\ rlWindow' = [rlWindow EXCEPT ![t] = IF Expired(t) THEN clock + Window ELSE @]
    /\ rlCount' = [rlCount EXCEPT ![t] = Counted(t)]
    /\ IF Counted(t) > Limit
       THEN /\ outCh' = [outCh EXCEPT ![t] = Offer(@, Msg("limited", 0, t))]
            /\ UNCHANGED forwarded
       ELSE /\ forwarded' = [forwarded EXCEPT ![t] = Append(@, clock)]
            /\ UNCHANGED outCh
    /\ UNCHANGED <<fanVars, conns, handlerVars, writerVars, ctxDone, gone, clock, offered>>

\* scanner.Scan() returns false: the output has ended, or a line is too long
ScanEnds(t) ==
    /\ handler[t] = "scan"
    /\ handler' = [handler EXCEPT ![t] = "wait"]
    /\ UNCHANGED <<fanVars, conns, outCh, context, writerVars, ctxDone, gone, limitVars,
                   offered>>

\* <-writerDone, and the deferred function
Detach(t) ==
    /\ handler[t] = "wait" /\ writer[t] = "done"
    /\ handler' = [handler EXCEPT ![t] = "done"]
    /\ conns' = conns \ {t}
    /\ UNCHANGED <<fanVars, outCh, context, writerVars, ctxDone, gone, limitVars, offered>>

-----------------------------------------------------------------------------
(* The writer                                                               *)

WriterOther == UNCHANGED <<fanVars, conns, handlerVars, ctxDone, gone, limitVars, offered>>

\* case msg := <-outCh
WriterTake(t) ==
    /\ writer[t] = "select" /\ outCh[t] # <<>>
    /\ inHand' = [inHand EXCEPT ![t] = <<Head(outCh[t])>>]
    /\ outCh'  = [outCh  EXCEPT ![t] = Tail(@)]
    /\ writer' = [writer EXCEPT ![t] = "write"]
    /\ UNCHANGED written /\ WriterOther

\* stdin.Write succeeds: the container has taken the message
WriteOk(t) ==
    /\ writer[t] = "write" /\ ~gone[t]
    /\ written' = [written EXCEPT ![t] =
                     IF Head(inHand[t]).kind \in EngineEvent THEN Head(inHand[t]).n ELSE @]
    /\ inHand' = [inHand EXCEPT ![t] = <<>>]
    /\ writer' = [writer EXCEPT ![t] = "select"]
    /\ UNCHANGED outCh /\ WriterOther

\* Fault: the writer waits for messages only.
NotWatched(t) == FALSE

\* <-ctx.Done() is ready
Watched(t) == ctxDone[t]

\* case <-ctx.Done(), or stdin.Write fails
WriterEnds(t) ==
    /\ \/ writer[t] = "select" /\ Watched(t)
       \/ writer[t] = "write" /\ gone[t]
    /\ writer' = [writer EXCEPT ![t] = "done"]
    /\ inHand' = [inHand EXCEPT ![t] = <<>>]
    /\ UNCHANGED <<outCh, written>> /\ WriterOther

-----------------------------------------------------------------------------
(* Manager, container and clock                                             *)

EnvOther == UNCHANGED <<fanVars, conns, outCh, handlerVars, writerVars, offered>>

CtxCancel(t) ==
    /\ ~ctxDone[t] /\ ctxDone' = [ctxDone EXCEPT ![t] = TRUE]
    /\ UNCHANGED <<gone, limitVars>> /\ EnvOther

ContainerStops(t) ==
    /\ ~gone[t] /\ gone' = [gone EXCEPT ![t] = TRUE]
    /\ UNCHANGED <<ctxDone, limitVars>> /\ EnvOther

TimePasses ==
    /\ clock < MaxTime /\ clock' = clock + 1
    /\ UNCHANGED <<rlCount, rlWindow, forwarded, orders, ctxDone, gone>> /\ EnvOther

HandleSandbox(t) == \/ Attach(t) \/ Register(t) \/ ReadContext(t) \/ SendContext(t)
                    \/ OrderLine(t) \/ ScanEnds(t) \/ Detach(t)

Writer(t) == WriterTake(t) \/ WriteOk(t) \/ WriterEnds(t)

RelayNext == \/ FanOut \/ TimePasses
             \/ \E t \in Sandboxes : \/ HandleSandbox(t) \/ Writer(t)
                                     \/ CtxCancel(t) \/ ContainerStops(t)

RelaySpec == RelayInit /\ [][RelayNext]_relayVars

\* Goroutines that can run do.  A container need not read its stdin (no
\* fairness on WriteOk), print anything, or stop.
RelayFairSpec ==
    /\ RelaySpec
    /\ \A t \in Sandboxes :
         /\ WF_relayVars(Register(t) \/ ReadContext(t) \/ SendContext(t) \/ Detach(t))
         /\ WF_relayVars(gone[t] /\ ScanEnds(t))
         /\ WF_relayVars(WriterTake(t) \/ WriterEnds(t))

-----------------------------------------------------------------------------
Message == [kind : {"tick", "fill", "context", "limited"}, n : Nat,
            to : Traders \cup {Nobody}]

(* Type invariant; outCh stays within its capacity.                         *)
RelayTypeOK ==
    /\ received \in Nat /\ lastTick \in Nat /\ clock \in 0..MaxTime
    /\ found \in [ch : Sandboxes, to : Traders] \cup {NoRoute} /\ conns \subseteq Sandboxes
    /\ outCh \in [Sandboxes -> Seq(Message)]
    /\ inHand \in [Sandboxes -> Seq(Message)]
    /\ \A t \in Sandboxes : Len(outCh[t]) =< OutCap
    /\ handler \in [Sandboxes -> {"none", "register", "read", "send", "scan", "wait", "done"}]
    /\ writer \in [Sandboxes -> {"none", "select", "write", "done"}]
    /\ \A f \in {context, rlCount, orders, written, offered} : f \in [Sandboxes -> Nat]
    /\ rlWindow \in [Sandboxes -> Int]
    /\ ctxDone \in [Sandboxes -> BOOLEAN] /\ gone \in [Sandboxes -> BOOLEAN]
    /\ forwarded \in [Sandboxes -> Seq(0..MaxTime)]

(* A sandbox gets the engine's events in order and at most once, the        *)
(* context tick aside, which may repeat or trail one of them; and only      *)
(* ticks and what is addressed to its own trader id.                        *)
RoutedInOrder ==
    \A t \in Sandboxes :
      LET way == inHand[t] \o outCh[t] IN
      \A i \in 1..Len(way) : way[i].kind \in EngineEvent =>
        /\ way[i].n > written[t]
        /\ \A j \in 1..(i - 1) : way[j].kind \in EngineEvent => way[j].n < way[i].n
        /\ way[i].kind = "fill" => way[i].to = t

(* No sandbox is left without market context: once it has been attached it  *)
(* has been offered the newest tick there is, whether that came before or   *)
(* during the attachment or later.                                          *)
ContextCurrent ==
    \A t \in conns : handler[t] \in {"scan", "wait"} => offered[t] = lastTick

(* The bound the rate limiter really enforces: its windows do not slide, so *)
(* a second can span the end of one and the start of the next, and up to    *)
(* 2 * Limit - 1 orders pass in it, never more.                             *)
RateBounded ==
    \A t \in Sandboxes :
      LET sent == forwarded[t] IN
      \A i, j \in 1..Len(sent) : j >= i + 2 * Limit - 1 => sent[j] > sent[i] + Window

(* An order is refused only if its sandbox has got Limit orders through in  *)
(* the second before it.                                                    *)
RefusalEarned ==
    [][\A t \in Sandboxes : orders'[t] > orders[t] /\ forwarded'[t] = forwarded[t] =>
         LET sent == forwarded[t] IN
         Len(sent) >= Limit /\ sent[Len(sent) - Limit + 1] >= clock - Window]_relayVars

(* When the container has stopped and its context is cancelled, the handler *)
(* and its writer end and the sandbox is no longer routed to, whatever they *)
(* were doing: attaching, writing, or waiting for each other.               *)
DetachedInTheEnd ==
    \A t \in Sandboxes :
        gone[t] /\ ctxDone[t] /\ handler[t] # "none"
          ~> handler[t] = "done" /\ writer[t] = "done" /\ t \notin conns
=============================================================================
