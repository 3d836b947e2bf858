------------------------------- MODULE Engine -------------------------------
(***************************************************************************)
(* The C++ simulation engine: the main thread's tick loop                  *)
(* (src/src/main.cpp, Simulation.cpp, PriceEngine.cpp, agents/) over the   *)
(* order book and the position tracker, and the stdin thread that feeds it *)
(* through the OrderQueue.  The two threads share only the queue (behind   *)
(* its mutex) and g_running (an atomic).                                   *)
(***************************************************************************)
EXTENDS OrderBook, PositionTracker, Protocol

CONSTANTS
    Makers, Takers, Whales,        \* ids of the built-in agents
    MakerQty, TakerQty, WhaleQty,  \* their order sizes
    Offset,                        \* midPrice * offset_: half the makers' spread
    StartPrice, Floor, MaxStep,    \* PriceEngine: start, kFloor, largest move
    MaxPrice,                      \* bound on the price walk
    Interval, Jitter,              \* WhaleTrader's schedule, in ticks
    Lines,                         \* lines that can arrive on stdin
    MaxLines,                      \* bound on the lines read, unless Flood
    Flood,                         \* TRUE: stdin never runs dry
    MaxQueue, MaxTick              \* bounds on the queue and on the ticks run

ASSUME EngineAssumption ==
    /\ {MakerQty, TakerQty, WhaleQty, Offset, StartPrice, Floor} \subseteq Nat \ {0}
    /\ {MaxStep, MaxPrice, Interval, Jitter, MaxLines, MaxQueue, MaxTick} \subseteq Nat
    /\ Offset < Floor /\ Floor =< StartPrice
    /\ Flood \in BOOLEAN
    /\ \A l \in Lines : {l.price, l.qty} \subseteq {NotNumeric} \cup Int
    /\ \A l \in Lines : ParseIncomingOrder(l) # NoOrder => l.trader_id \in Traders

VARIABLES
    pc,        \* main thread: "top" of its loop, "agents", "drain", "report", "emit", "exit"
    price,     \* PriceEngine::price_
    tick,      \* Simulation::tick_
    todo,      \* agents that have not acted in this tick (the shuffled order)
    nextAct,   \* WhaleTrader::nextActTick_
    queue,     \* OrderQueue::queue_
    cur,       \* the order drainOrderQueue last popped in this tick
    answers,   \* the fill and reject events emitted for it
    lastTick,  \* the last tick event emitted
    running,   \* g_running
    stdinPc,   \* stdin thread: at the loop "check", in "getline", or "done"
    lines      \* lines read so far

mainVars   == <<pc, price, tick, todo, nextAct, cur, answers, lastTick>>
stdinVars  == <<stdinPc, lines>>
engineVars == <<obVars, ptVars, mainVars, queue, running, stdinVars>>

Agents == Makers \cup Takers \cup Whales

NoTick == [tick |-> 0, price |-> 0, bid |-> 0, ask |-> 0]

\* OrderQueue::push
Push(order) == queue' = Append(queue, order)

\* Fault: the newest order comes first.
PopNewest == /\ queue # <<>> /\ cur' = queue[Len(queue)]
             /\ queue' = SubSeq(queue, 1, Len(queue) - 1)

\* OrderQueue::pop when it returns an order, into cur
Pop == queue # <<>> /\ cur' = Head(queue) /\ queue' = Tail(queue)

\* WhaleTrader::computeNextTick: interval_ plus jitter, at least 1
NextActs(t) == {t + Max({1, Interval + j}) : j \in (0 - Jitter)..Jitter}

EngineInit ==
    /\ OBInit /\ PTInit
    /\ pc = "top" /\ price = StartPrice /\ tick = 0 /\ todo = {}
    /\ nextAct \in [Whales -> NextActs(0)]
    /\ queue = <<>> /\ cur = NoOrder /\ answers = <<>> /\ lastTick = NoTick
    /\ running = TRUE /\ stdinPc = "check" /\ lines = 0

-----------------------------------------------------------------------------
(* The main thread                                                          *)

\* Fault: runTick keeps the book of the previous tick.
KeepBook == UNCHANGED bookVars

\* book_.clear() at the head of runTick
FreshBook == ClearBook

\* Fault: no floor.
NoFloor(candidate) == candidate

\* PriceEngine::nextPrice: never below kFloor
Floored(candidate) == IF candidate > Floor THEN candidate ELSE Floor

\* runTick: clear the book, move the price, shuffle the agents
BeginTick ==
    /\ pc = "top" /\ running /\ tick < MaxTick
    /\ FreshBook
    /\ \E step \in (0 - MaxStep)..MaxStep :
         LET candidate == price + step
         IN  /\ candidate =< MaxPrice
             /\ price' = Floored(candidate)
    /\ todo' = Agents
    /\ pc' = "agents"
    /\ UNCHANGED <<matchVars, ptVars, tick, nextAct, cur, answers, lastTick,
                   queue, running, stdinVars>>

\* main's loop condition is false: the process exits
Exit ==
    /\ pc = "top" /\ ~running
    /\ pc' = "exit"
    /\ UNCHANGED <<obVars, ptVars, price, tick, todo, nextAct, cur, answers,
                   lastTick, queue, running, stdinVars>>

Acting(a) ==
    /\ pc = "agents" /\ phase = "idle" /\ a \in todo
    /\ todo' = todo \ {a}
    /\ UNCHANGED <<ptVars, pc, price, tick, cur, answers, lastTick, queue,
                   running, stdinVars>>

\* MakerTrader::act leaves a book alone that is wider than its own quotes
Withholds == BestBid > 0 /\ BestAsk > 0 /\ Spread > 2 * Offset

MakerAct(m) ==
    /\ Acting(m)
    /\ IF Withholds THEN UNCHANGED bookVars
       ELSE /\ bids' = AddTo(bids, price - Offset, MakerQty)
            /\ asks' = AddTo(asks, price + Offset, MakerQty)
    /\ UNCHANGED <<matchVars, nextAct>>

TakerAct(t) ==
    /\ Acting(t)
    /\ \/ UNCHANGED obVars
       \/ \E side \in Sides : AddMarketOrder(side, TakerQty)
    /\ UNCHANGED nextAct

WhaleAct(w) ==
    /\ Acting(w)
    /\ \/ /\ tick < nextAct[w]
          /\ UNCHANGED <<obVars, nextAct>>
       \/ /\ tick >= nextAct[w]
          /\ \E side \in Sides : AddMarketOrder(side, WhaleQty)
          /\ \E next \in NextActs(tick) : nextAct' = [nextAct EXCEPT ![w] = next]

\* The loop of addMarketOrder, whoever called it; agents ignore the trades
Match ==
    /\ MatchLevel \/ MatchEnd \/ (pc = "agents" /\ MatchReturn)
    /\ UNCHANGED <<ptVars, mainVars, queue, running, stdinVars>>

AgentsDone ==
    /\ pc = "agents" /\ phase = "idle" /\ todo = {}
    /\ pc' = "drain"
    /\ UNCHANGED <<obVars, ptVars, price, tick, todo, nextAct, cur, answers,
                   lastTick, queue, running, stdinVars>>

\* emitFill and emitReject
Fill(t) == [type |-> "fill", trader |-> cur.trader, price |-> t.price, qty |-> t.qty]
Reject(reason) == [type |-> "reject", trader |-> cur'.trader, reason |-> reason]

\* One iteration of drainOrderQueue, up to the call of addMarketOrder
DrainPop ==
    /\ pc = "drain"
    /\ Pop
    /\ \/ /\ cur'.qty =< 0
          /\ answers' = <<Reject("invalid_qty")>>
          /\ UNCHANGED <<obVars, pc>>
       \/ /\ cur'.qty > 0 /\ cur'.type = "LIMIT" /\ cur'.price =< 0
          /\ answers' = <<Reject("invalid_price")>>
          /\ UNCHANGED <<obVars, pc>>
       \/ /\ cur'.qty > 0 /\ cur'.type = "LIMIT" /\ cur'.price > 0
          /\ AddLimitOrder(cur'.side, cur'.price, cur'.qty)
          /\ answers' = <<>>
          /\ UNCHANGED <<matchVars, pc>>
       \/ /\ cur'.qty > 0 /\ cur'.type = "MARKET"
          /\ AddMarketOrder(cur'.side, cur'.qty)
          /\ answers' = <<>>
          /\ pc' = "report"
    /\ UNCHANGED <<ptVars, price, tick, todo, nextAct, lastTick, running, stdinVars>>

\* for (const Trade& t : trades): recordFill, emitFill
ReportFill ==
    /\ pc = "report" /\ phase = "return" /\ Len(answers) < Len(trades)
    /\ LET t == trades[Len(answers) + 1]
       IN  /\ RecordFill(cur.trader, cur.side, t.price, t.qty)
           /\ answers' = Append(answers, Fill(t))
    /\ UNCHANGED <<obVars, pc, price, tick, todo, nextAct, cur, lastTick, queue,
                   running, stdinVars>>

\* Fault: a partly filled order is rejected as well.
RejectShortfall == IF remaining > 0 THEN Append(answers, Reject("insufficient_liquidity")) ELSE answers

AnswersAtEnd == IF trades = <<>> THEN <<Reject("insufficient_liquidity")>> ELSE answers

\* The rest of the iteration, and the end of the lifetime of trades
ReportEnd ==
    /\ pc = "report" /\ phase = "return" /\ Len(answers) = Len(trades)
    /\ cur' = cur
    /\ answers' = AnswersAtEnd
    /\ MatchReturn
    /\ pc' = "drain"
    /\ UNCHANGED <<ptVars, price, tick, todo, nextAct, lastTick, queue, running,
                   stdinVars>>

\* pop() returned nullopt
DrainEnd ==
    /\ pc = "drain" /\ queue = <<>>
    /\ pc' = "emit" /\ cur' = NoOrder /\ answers' = <<>>
    /\ UNCHANGED <<obVars, ptVars, price, tick, todo, nextAct, lastTick, queue,
                   running, stdinVars>>

\* emitTick, ++tick_, and the sleep before main's next check
EmitTick ==
    /\ pc = "emit"
    /\ lastTick' = [tick |-> tick, price |-> price, bid |-> BestBid, ask |-> BestAsk]
    /\ tick' = tick + 1
    /\ pc' = "top"
    /\ UNCHANGED <<obVars, ptVars, price, todo, nextAct, cur, answers, queue,
                   running, stdinVars>>

Act == \/ \E m \in Makers : MakerAct(m)
       \/ \E t \in Takers : TakerAct(t)
       \/ \E w \in Whales : WhaleAct(w)

Main == \/ BeginTick \/ Exit \/ Act \/ Match \/ AgentsDone
        \/ DrainPop \/ ReportFill \/ ReportEnd \/ DrainEnd \/ EmitTick

-----------------------------------------------------------------------------
(* The stdin thread and the signal handler                                  *)

StdinOther == UNCHANGED <<obVars, ptVars, mainVars, running>>

\* Fault: the thread does not look at g_running.
IgnoreStop == IF running THEN "getline" ELSE "getline"

\* g_running.load() in the loop condition
AfterCheck == IF running THEN "getline" ELSE "done"

StdinCheck ==
    /\ pc # "exit" /\ stdinPc = "check"
    /\ stdinPc' = AfterCheck
    /\ UNCHANGED <<lines, queue>> /\ StdinOther

\* getline, parse, push; malformed lines are discarded silently
StdinLine ==
    /\ pc # "exit" /\ stdinPc = "getline"
    /\ Flood \/ lines < MaxLines
    /\ Len(queue) < MaxQueue
    /\ \E l \in Lines :
         IF ParseIncomingOrder(l) = NoOrder THEN UNCHANGED queue
         ELSE Push(ParseIncomingOrder(l))
    /\ lines' = IF Flood THEN lines ELSE lines + 1
    /\ stdinPc' = "check"
    /\ StdinOther

\* getline fails: the server closed the pipe
StdinEof ==
    /\ pc # "exit" /\ stdinPc = "getline"
    /\ stdinPc' = "done"
    /\ UNCHANGED <<lines, queue>> /\ StdinOther

\* handleSignal, on the SIGTERM of Runner.Restart
Signal ==
    /\ pc # "exit" /\ running
    /\ running' = FALSE
    /\ UNCHANGED <<obVars, ptVars, mainVars, queue, stdinVars>>

EngineNext == Main \/ StdinCheck \/ StdinLine \/ StdinEof \/ Signal

EngineSpec == EngineInit /\ [][EngineNext]_engineVars

\* Both threads keep being scheduled; input and signals need not come.  Under
\* Flood the stdin thread also always finds a line.
EngineFairSpec ==
    /\ EngineSpec
    /\ WF_engineVars(Main)
    /\ WF_engineVars(StdinCheck)
    /\ Flood => WF_engineVars(StdinLine)

-----------------------------------------------------------------------------
IncomingOrder == [trader : Traders, side : Sides, type : {"LIMIT", "MARKET"},
                  price : Int, qty : Int]

FillEvent   == [type : {"fill"}, trader : Traders, price : Positive, qty : Positive]
RejectEvent == [type : {"reject"}, trader : Traders,
                reason : {"invalid_qty", "invalid_price", "insufficient_liquidity"}]

(* Type invariant of the engine. *)
EngineTypeOK ==
    /\ OBTypeOK /\ PTTypeOK
    /\ pc \in {"top", "agents", "drain", "report", "emit", "exit"}
    /\ price \in Nat /\ price >= Floor /\ tick \in Nat
    /\ todo \subseteq Agents
    /\ nextAct \in [Whales -> Nat]
    /\ queue \in Seq(IncomingOrder)
    /\ cur \in IncomingOrder \cup {NoOrder}
    /\ answers \in Seq(FillEvent \cup RejectEvent)
    /\ lastTick \in [tick : Nat, price : Nat, bid : Nat, ask : Nat]
    /\ running \in BOOLEAN /\ stdinPc \in {"check", "getline", "done"} /\ lines \in Nat

(* While the agents act, the book holds nothing but the quotes makers made  *)
(* in this very tick, one level a side: orders of the previous tick, and    *)
(* external limit orders, which drainOrderQueue adds after the agents, are  *)
(* gone.  So the book is not crossed when agents trade, external limit      *)
(* orders never meet the agents' flow, and the early return of              *)
(* MakerTrader::act for a wide book is never taken.                         *)
AgentBookFresh ==
    pc = "agents" => /\ DOMAIN bids \subseteq {price - Offset}
                     /\ DOMAIN asks \subseteq {price + Offset}
                     /\ ~Withholds

(* Once a market order has been handled, it has been answered exactly once  *)
(* in kind: either fills whose running total stays within its quantity, or  *)
(* a single rejection - never both, never silence.                          *)
MarketOrderAnswered ==
    pc = "drain" /\ cur # NoOrder /\ cur.type = "MARKET" =>
      \/ Len(answers) = 1 /\ answers[1].type = "reject"
      \/ /\ answers # <<>>
         /\ \A i \in DOMAIN answers : answers[i].type = "fill"
         /\ \E total \in [0..Len(answers) -> 0..cur.qty] :
              /\ total[0] = 0
              /\ \A i \in DOMAIN answers : total[i] = total[i - 1] + answers[i].qty

(* A market order with a valid quantity comes back without trades, and is   *)
(* then rejected for lack of liquidity, only if nothing at all rested on    *)
(* the other side when it was popped.                                       *)
RejectOnlyIfEmpty ==
    pc = "report" /\ phase = "return" /\ trades = <<>> => before = NoLevels

(* A SIGTERM ends the process, however busy stdin is: the drain loop cannot *)
(* be fed for ever, because the stdin thread stops at its next check.       *)
SignalExits == ~running ~> pc = "exit"

Orders == {ParseIncomingOrder(l) : l \in Lines} \ {NoOrder}

(* An order that the stdin thread has pushed is handled, at whatever point  *)
(* of the tick it arrived and whatever arrives after it: it is not lost     *)
(* between two ticks, nor overtaken for ever by an endless feed.  Only the  *)
(* exit of the process comes before it (or the bound on the ticks).         *)
OrderServed ==
    \A o \in Orders : (\E i \in DOMAIN queue : queue[i] = o)
                       ~> cur = o \/ pc = "exit" \/ tick = MaxTick
=============================================================================
