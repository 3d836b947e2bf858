----------------------------- MODULE EngineProofs -----------------------------
(***************************************************************************)
(* The engine, for any number of agents, any order sizes and any stream of *)
(* external orders: what the agents find in the book, how external market  *)
(* orders are answered, and that the book and the accounts keep inside the *)
(* engine what OrderBookProofs and PositionTrackerProofs show of them      *)
(* alone.                                                                  *)
(***************************************************************************)
EXTENDS Engine, OrderBookProofs, PositionTrackerProofs, FiniteSetTheorems, TLAPS

\* The levels that can exist while the agents act
OneLevelASide ==
    pc = "agents" => /\ DOMAIN bids \subseteq {price - Offset}
                     /\ DOMAIN asks \subseteq {price + Offset}

FreshInv == price \in Nat /\ OneLevelASide

-----------------------------------------------------------------------------
(* The loop of addMarketOrder never adds a level. *)
LEMMA MatchAddsNoLevel ==
    ASSUME MatchLevel \/ MatchEnd \/ MatchReturn
    PROVE  DOMAIN bids' \subseteq DOMAIN bids /\ DOMAIN asks' \subseteq DOMAIN asks
  <1>1. ASSUME NEW f, NEW p, NEW q PROVE DOMAIN TakeFrom(f, p, q) \subseteq DOMAIN f
    BY DEF TakeFrom, Erase
  <1>2. CASE MatchLevel
    BY <1>1, <1>2 DEF MatchLevel, Contra
  <1>3. CASE MatchEnd \/ MatchReturn
    BY <1>3 DEF MatchEnd, MatchReturn, bookVars
  <1> QED
    BY <1>2, <1>3

(* The best price of a side with one level is that level. *)
LEMMA MaxMinOfOne ==
    ASSUME NEW x \in Int
    PROVE  Max({x}) = x /\ Min({x}) = x
  BY DEF Max, Min

(* With at most one level a side, both made from the same mid price, a      *)
(* maker never finds the book wider than its own quotes.                    *)
LEMMA FreshNotWide ==
    ASSUME FreshInv, pc = "agents"
    PROVE  ~Withholds
  <1> SUFFICES ASSUME Withholds PROVE FALSE
    OBVIOUS
  <1>1. price \in Nat /\ Offset \in Nat
    BY EngineAssumption DEF FreshInv
  <1>2. DOMAIN bids = {price - Offset} /\ DOMAIN asks = {price + Offset}
    <2>1. BestBid > 0 /\ BestAsk > 0
      BY DEF Withholds
    <2>2. DOMAIN bids # {}
      <3>1. DOMAIN bids = {} => BestBid = 0
        BY DEF BestBid
      <3>2. ~(0 > 0)
        OBVIOUS
      <3> QED
        BY <2>1, <3>1, <3>2, Zenon
    <2>3. DOMAIN asks # {}
      <3>1. DOMAIN asks = {} => BestAsk = 0
        BY DEF BestAsk
      <3>2. ~(0 > 0)
        OBVIOUS
      <3> QED
        BY <2>1, <3>1, <3>2, Zenon
    <2> QED
      BY <2>2, <2>3 DEF FreshInv, OneLevelASide
  <1>3. BestBid = price - Offset /\ BestAsk = price + Offset
    BY <1>1, <1>2, MaxMinOfOne DEF BestBid, BestAsk
  <1> QED
    BY <1>1, <1>3 DEF Withholds, Spread

-----------------------------------------------------------------------------
(* The main thread's steps keep the book fresh while its agents act. *)
LEMMA MainFresh == ASSUME FreshInv, Main PROVE FreshInv'
  <1> USE DEF FreshInv, bookVars, obVars
  <1>1. CASE BeginTick
    <2>1. price' \in Nat
      <3>1. PICK step \in (0 - MaxStep)..MaxStep : price' = Floored(price + step)
        BY <1>1 DEF BeginTick
      <3>2. Floor \in Nat /\ MaxStep \in Nat /\ step \in Int
        BY EngineAssumption
      <3> QED
        BY <3>1, <3>2 DEF Floored
    <2>2. DOMAIN bids' = {} /\ DOMAIN asks' = {}
      BY <1>1 DEF BeginTick, FreshBook, ClearBook, NoLevels
    <2> QED
      BY <2>1, <2>2 DEF OneLevelASide
  <1>2. ASSUME NEW m \in Makers, MakerAct(m) PROVE FreshInv'
    BY <1>2 DEF MakerAct, Acting, AddTo, OneLevelASide
  <1>3. ASSUME NEW t \in Takers, TakerAct(t) PROVE FreshInv'
    BY <1>3 DEF TakerAct, Acting, AddMarketOrder, OneLevelASide
  <1>4. ASSUME NEW w \in Whales, WhaleAct(w) PROVE FreshInv'
    BY <1>4 DEF WhaleAct, Acting, AddMarketOrder, OneLevelASide
  <1>5. CASE Match
    BY <1>5, MatchAddsNoLevel DEF Match, mainVars, OneLevelASide
  <1>6. CASE Exit \/ AgentsDone \/ DrainEnd \/ EmitTick
    BY <1>6 DEF Exit, AgentsDone, DrainEnd, EmitTick, OneLevelASide
  <1>7. CASE DrainPop \/ ReportFill \/ ReportEnd
    BY <1>7 DEF DrainPop, ReportFill, ReportEnd, OneLevelASide
  <1> QED
    BY <1>1, <1>2, <1>3, <1>4, <1>5, <1>6, <1>7 DEF Main, Act

(* While the agents act, the book holds only this tick's quotes. *)
THEOREM AgentsSeeFreshBook == EngineSpec => []AgentBookFresh
  <1>1. EngineInit => FreshInv
    BY EngineAssumption DEF EngineInit, FreshInv, OneLevelASide
  <1>2. FreshInv /\ [EngineNext]_engineVars => FreshInv'
    <2> SUFFICES ASSUME FreshInv, [EngineNext]_engineVars PROVE FreshInv'
      OBVIOUS
    <2>1. CASE Main
      BY <2>1, MainFresh
    <2>2. CASE StdinCheck \/ StdinLine \/ StdinEof \/ Signal
      BY <2>2 DEF StdinCheck, StdinLine, StdinEof, Signal, StdinOther, obVars, bookVars,
                  mainVars, FreshInv, OneLevelASide
    <2>3. CASE UNCHANGED engineVars
      BY <2>3 DEF engineVars, obVars, bookVars, mainVars, FreshInv, OneLevelASide
    <2> QED
      BY <2>1, <2>2, <2>3 DEF EngineNext
  <1>3. FreshInv => AgentBookFresh
    BY FreshNotWide DEF FreshInv, OneLevelASide, AgentBookFresh
  <1> QED
    BY <1>1, <1>2, <1>3, PTL DEF EngineSpec
-----------------------------------------------------------------------------
(* The engine's inductive invariant                                         *)

\* The part of EngineTypeOK that is about the engine's own variables
MainTypeOK ==
    /\ pc \in {"top", "agents", "drain", "report", "emit", "exit"}
    /\ price \in Nat /\ price >= Floor /\ tick \in Nat
    /\ todo \subseteq Agents
    /\ nextAct \in [Whales -> Nat]
    /\ queue \in Seq(IncomingOrder)
    /\ cur \in IncomingOrder \cup {NoOrder}
    /\ answers \in Seq(FillEvent \cup RejectEvent)
    /\ lastTick \in [tick : Nat, price : Nat, bid : Nat, ask : Nat]
    /\ running \in BOOLEAN /\ stdinPc \in {"check", "getline", "done"} /\ lines \in Nat

\* addMarketOrder runs only inside the two loops that call it
Control ==
    /\ phase # "idle" => pc \in {"agents", "report"}
    /\ pc = "report" => phase # "idle"
    /\ pc \notin {"drain", "report"} => cur = NoOrder

\* The order in hand is the one the book works on, and the answers so far
\* are its first trades
Reporting ==
    pc = "report" =>
      /\ cur \in IncomingOrder /\ cur.type = "MARKET" /\ cur.qty > 0 /\ aggQty = cur.qty
      /\ Len(answers) =< Len(trades)
      /\ answers # <<>> => phase = "return"
      /\ \A i \in DOMAIN answers : answers[i] = Fill(trades[i])

EngineInv ==
    /\ OBInv /\ PTInv(Positive)
    /\ MainTypeOK /\ Control /\ Reporting /\ MarketOrderAnswered

-----------------------------------------------------------------------------
(* A finite, non-empty set of naturals has a largest and a smallest element. *)
LEMMA ExtremesExist ==
    ASSUME NEW S, S \subseteq Nat, IsFiniteSet(S), S # {}
    PROVE  Max(S) \in S /\ Min(S) \in S
  <1>1. IsWellFoundedOn(StrictSubsetOrdering(S), SUBSET S)
    BY FS_StrictSubsetOrderingWellFounded, FS_FiniteSubsetsOfFinite
  <1>2. \E x \in S : \A y \in S : x >= y
    <2> DEFINE Up(x) == {y \in S : y > x}
               Ups == {Up(x) : x \in S}
    <2>1. Ups \subseteq SUBSET S /\ Ups # {}
      OBVIOUS
    <2>2. PICK u \in Ups : \A v \in Ups : <<v, u>> \notin StrictSubsetOrdering(S)
      BY <1>1, <2>1, WFMin
    <2>3. PICK x \in S : u = Up(x)
      OBVIOUS
    <2>4. ASSUME NEW y \in S, y > x PROVE FALSE
      <3>1. \A z \in S : z > y => z > x
        BY <2>4
      <3>2. ~(y > y)
        OBVIOUS
      <3>3. Up(y) \subseteq Up(x) /\ y \in Up(x) /\ y \notin Up(y)
        BY <2>4, <3>1, <3>2, Zenon
      <3>4. <<Up(y), Up(x)>> \in StrictSubsetOrdering(S)
        BY <3>3 DEF StrictSubsetOrdering
      <3> QED
        BY <2>2, <2>3, <3>4
    <2> QED
      BY <2>4
  <1>3. \E x \in S : \A y \in S : x =< y
    <2> DEFINE Down(x) == {y \in S : y < x}
               Downs == {Down(x) : x \in S}
    <2>1. Downs \subseteq SUBSET S /\ Downs # {}
      OBVIOUS
    <2>2. PICK u \in Downs : \A v \in Downs : <<v, u>> \notin StrictSubsetOrdering(S)
      BY <1>1, <2>1, WFMin
    <2>3. PICK x \in S : u = Down(x)
      OBVIOUS
    <2>4. ASSUME NEW y \in S, y < x PROVE FALSE
      <3>1. \A z \in S : z < y => z < x
        BY <2>4
      <3>2. ~(y < y)
        OBVIOUS
      <3>3. Down(y) \subseteq Down(x) /\ y \in Down(x) /\ y \notin Down(y)
        BY <2>4, <3>1, <3>2, Zenon
      <3>4. <<Down(y), Down(x)>> \in StrictSubsetOrdering(S)
        BY <3>3 DEF StrictSubsetOrdering
      <3> QED
        BY <2>2, <2>3, <3>4
    <2> QED
      BY <2>4
  <1> QED
    BY <1>2, <1>3 DEF Max, Min

(* bestBid and bestAsk return prices, or 0. *)
LEMMA BestAreNat ==
    ASSUME OBTypeOK, FiniteBook
    PROVE  BestBid \in Nat /\ BestAsk \in Nat
  <1>1. DOMAIN bids \subseteq Nat /\ DOMAIN asks \subseteq Nat
    BY DEF OBTypeOK, Positive
  <1> QED
    BY <1>1, ExtremesExist DEF BestBid, BestAsk, FiniteBook

(* A whale's next tick lies in the future, whatever the jitter. *)
LEMMA NextActsNat ==
    ASSUME NEW t \in Nat, NEW n \in NextActs(t)
    PROVE  n \in Nat /\ n > t
  <1>1. PICK j \in (0 - Jitter)..Jitter : n = t + Max({1, Interval + j})
    BY DEF NextActs
  <1>2. j \in Int /\ Interval + j \in Int
    BY EngineAssumption
  <1>3. Max({1, Interval + j}) \in Nat /\ Max({1, Interval + j}) >= 1
    <2> DEFINE k == Interval + j
    <2>1. \E x \in {1, k} : \A y \in {1, k} : x >= y
      <3>1. CASE k >= 1
        BY <1>2, <3>1
      <3>2. CASE 1 >= k
        BY <1>2, <3>2
      <3> QED
        BY <1>2, <3>1, <3>2
    <2>2. Max({1, k}) \in {1, k} /\ Max({1, k}) >= 1
      BY <2>1 DEF Max
    <2> QED
      BY <1>2, <2>2
  <1> QED
    BY <1>1, <1>3

(* What the parser accepts is an order the queue may hold. *)
LEMMA ParsedIsOrder ==
    ASSUME NEW l \in Lines, ParseIncomingOrder(l) # NoOrder
    PROVE  ParseIncomingOrder(l) \in IncomingOrder
  <1>1. l.trader_id \in Traders /\ {l.price, l.qty} \subseteq {NotNumeric} \cup Int
    BY EngineAssumption
  <1> DEFINE type  == IF l.type = "MARKET" THEN "MARKET" ELSE "LIMIT"
             limit == IF l.price = NotNumeric THEN 0 ELSE l.price
  <1>2. /\ l.side \in Sides /\ l.qty # NotNumeric
        /\ ParseIncomingOrder(l) = [trader |-> l.trader_id, side |-> l.side, type |-> type,
                                    price |-> limit, qty |-> l.qty]
    BY Zenon DEF ParseIncomingOrder, Sides
  <1>3. type \in {"LIMIT", "MARKET"} /\ limit \in Int /\ l.qty \in Int
    BY <1>1, <1>2
  <1> HIDE DEF type, limit
  <1> QED
    BY <1>1, <1>2, <1>3 DEF IncomingOrder

(* The walk of addMarketOrder keeps the book's invariant. *)
LEMMA MatchInv ==
    ASSUME OBInv, MatchLevel \/ MatchEnd \/ MatchReturn
    PROVE  OBInv'
  BY MatchLevelInv, MatchEndInv, MatchReturnInv

(* The accounts of a state in which no fill was recorded. *)
LEMMA PTStutterInv ==
    ASSUME PTInv(Positive), UNCHANGED ptVars
    PROVE  PTInv(Positive)'
  BY DEF ptVars, PTInv, PTTypeOK, PositionOf, Agrees, CashExact, Positive

-----------------------------------------------------------------------------
(* Every step of the main thread keeps the invariant                        *)

(* The head of runTick: an empty book and a price no lower than the floor. *)
LEMMA BeginTickInv == ASSUME EngineInv, BeginTick PROVE EngineInv'
  <1> USE DEF EngineInv
  <1>1. /\ phase = "idle" /\ cur = NoOrder /\ pc' = "agents" /\ todo' = Agents
        /\ UNCHANGED <<matchVars, ptVars, tick, nextAct, cur, answers, lastTick,
                       queue, running, stdinVars>>
        /\ bids' = NoLevels /\ asks' = NoLevels
    BY DEF BeginTick, FreshBook, ClearBook, Control
  <1>2. OBInv'
    BY <1>1, NoLevelsLevels, BookChangeInv
  <1>3. PTInv(Positive)'
    BY <1>1, PTStutterInv
  <1>4. price' \in Nat /\ price' >= Floor
    <2>1. PICK step \in (0 - MaxStep)..MaxStep : price' = Floored(price + step)
      BY DEF BeginTick
    <2>2. Floor \in Nat /\ MaxStep \in Nat /\ step \in Int /\ price \in Nat
      BY EngineAssumption DEF MainTypeOK
    <2> QED
      BY <2>1, <2>2 DEF Floored
  <1>5. MainTypeOK'
    BY <1>1, <1>4 DEF MainTypeOK, stdinVars
  <1>6. Control' /\ Reporting' /\ MarketOrderAnswered'
    BY <1>1 DEF Control, Reporting, MarketOrderAnswered, matchVars
  <1> QED
    BY <1>2, <1>3, <1>5, <1>6

(* An agent leaves the engine's own variables alone, but for its turn. *)
LEMMA ActingKeeps ==
    ASSUME EngineInv, NEW a \in Agents, Acting(a), nextAct' \in [Whales -> Nat],
           OBInv'
    PROVE  EngineInv'
  <1> USE DEF EngineInv
  <1>1. /\ pc = "agents" /\ pc' = "agents" /\ cur' = NoOrder /\ todo' \subseteq Agents
        /\ UNCHANGED <<ptVars, price, tick, answers, lastTick, queue, running, stdinVars>>
    BY DEF Acting, Control, MainTypeOK
  <1>2. PTInv(Positive)'
    BY <1>1, PTStutterInv
  <1>3. MainTypeOK'
    BY <1>1 DEF MainTypeOK, stdinVars
  <1>4. Control' /\ Reporting' /\ MarketOrderAnswered'
    BY <1>1 DEF Control, Reporting, MarketOrderAnswered
  <1> QED
    BY <1>2, <1>3, <1>4

(* MakerTrader::act quotes positive prices: the floor exceeds the offset. *)
LEMMA MakerActInv == ASSUME EngineInv, NEW m \in Makers, MakerAct(m) PROVE EngineInv'
  <1> USE DEF EngineInv
  <1>1. phase = "idle" /\ UNCHANGED <<matchVars, nextAct>> /\ Acting(m) /\ m \in Agents
    BY DEF MakerAct, Acting, Agents
  <1>2. CASE UNCHANGED bookVars
    <2>1. OBInv'
      BY <1>1, <1>2, OBStutterInv DEF obVars
    <2> QED
      BY <1>1, <2>1, ActingKeeps DEF MainTypeOK
  <1>3. CASE /\ bids' = AddTo(bids, price - Offset, MakerQty)
             /\ asks' = AddTo(asks, price + Offset, MakerQty)
    <2>1. price - Offset \in Positive /\ price + Offset \in Positive /\ MakerQty \in Positive
      <3>1. /\ price \in Nat /\ Offset \in Nat /\ Floor \in Nat /\ MakerQty \in Nat \ {0}
            /\ Offset < Floor /\ price >= Floor
        BY EngineAssumption DEF MainTypeOK
      <3> QED
        BY <3>1 DEF Positive
    <2>2. Levels(bids) /\ Levels(asks)
      BY OBTypeLevels DEF OBInv
    <2>3. Levels(bids') /\ Levels(asks')
      BY <1>3, <2>1, <2>2, AddToLevels
    <2>4. OBInv'
      BY <1>1, <2>3, BookChangeInv
    <2> QED
      BY <1>1, <2>4, ActingKeeps DEF MainTypeOK
  <1> QED
    BY <1>2, <1>3 DEF MakerAct

(* TakerTrader::act places a market order, or nothing. *)
LEMMA TakerActInv == ASSUME EngineInv, NEW t \in Takers, TakerAct(t) PROVE EngineInv'
  <1> USE DEF EngineInv
  <1>1. UNCHANGED nextAct /\ Acting(t) /\ t \in Agents /\ TakerQty \in Nat
    BY EngineAssumption DEF TakerAct, Agents
  <1>2. CASE UNCHANGED obVars
    <2>1. OBInv'
      BY <1>2, OBStutterInv
    <2> QED
      BY <1>1, <2>1, ActingKeeps DEF MainTypeOK
  <1>3. ASSUME NEW side \in Sides, AddMarketOrder(side, TakerQty) PROVE EngineInv'
    <2>1. OBInv'
      BY <1>1, <1>3, AddMarketOrderInv
    <2> QED
      BY <1>1, <2>1, ActingKeeps DEF MainTypeOK
  <1> QED
    BY <1>2, <1>3 DEF TakerAct

(* WhaleTrader::act waits, or places a market order and picks its next tick. *)
LEMMA WhaleActInv == ASSUME EngineInv, NEW w \in Whales, WhaleAct(w) PROVE EngineInv'
  <1> USE DEF EngineInv
  <1>1. Acting(w) /\ w \in Agents /\ WhaleQty \in Nat
    BY EngineAssumption DEF WhaleAct, Agents
  <1>2. CASE UNCHANGED <<obVars, nextAct>>
    <2>1. OBInv'
      BY <1>2, OBStutterInv
    <2> QED
      BY <1>1, <1>2, <2>1, ActingKeeps DEF MainTypeOK
  <1>3. ASSUME NEW side \in Sides, AddMarketOrder(side, WhaleQty),
               NEW next \in NextActs(tick), nextAct' = [nextAct EXCEPT ![w] = next]
        PROVE  EngineInv'
    <2>1. OBInv'
      BY <1>1, <1>3, AddMarketOrderInv
    <2>2. nextAct' \in [Whales -> Nat]
      BY <1>3, NextActsNat DEF MainTypeOK
    <2> QED
      BY <1>1, <2>1, <2>2, ActingKeeps
  <1> QED
    BY <1>2, <1>3 DEF WhaleAct

(* The walk of addMarketOrder, for an agent or for an external order. *)
LEMMA MatchStepInv == ASSUME EngineInv, Match PROVE EngineInv'
  <1> USE DEF EngineInv
  <1>1. UNCHANGED <<ptVars, mainVars, queue, running, stdinVars>>
    BY DEF Match
  <1>2. OBInv'
    BY MatchInv DEF Match
  <1>3. PTInv(Positive)' /\ MainTypeOK'
    BY <1>1, PTStutterInv DEF MainTypeOK, mainVars, stdinVars
  <1>4. phase # "idle" /\ pc \in {"agents", "report"} /\ pc' = pc /\ cur' = cur
    BY <1>1 DEF Match, MatchLevel, MatchEnd, MatchReturn, Control, mainVars
  <1>5. MarketOrderAnswered'
    BY <1>4 DEF MarketOrderAnswered
  <1>6. CASE pc = "agents"
    BY <1>2, <1>3, <1>4, <1>5, <1>6 DEF Control, Reporting
  <1>7. CASE pc = "report" /\ (MatchLevel \/ MatchEnd)
    <2>1. phase = "loop" /\ aggQty' = aggQty /\ phase' # "idle" /\ answers' = answers
      BY <1>1, <1>7 DEF MatchLevel, MatchEnd, NextOrBreak, mainVars
    <2>2. answers = <<>> /\ Len(answers) = 0 /\ DOMAIN answers = {}
      BY <1>7, <2>1 DEF Reporting
    <2>3. Len(trades') \in Nat
      BY <1>2 DEF OBTypeOK, OBInv
    <2> QED
      BY <1>2, <1>3, <1>4, <1>5, <1>7, <2>1, <2>2, <2>3 DEF Control, Reporting
  <1> QED
    BY <1>4, <1>6, <1>7 DEF Match

(* One order popped: refused, rested in the book, or handed to the walk. *)
LEMMA DrainPopInv == ASSUME EngineInv, DrainPop PROVE EngineInv'
  <1> USE DEF EngineInv
  <1>1. /\ pc = "drain" /\ phase = "idle" /\ queue # <<>>
        /\ cur' = Head(queue) /\ queue' = Tail(queue)
        /\ UNCHANGED <<ptVars, price, tick, todo, nextAct, lastTick, running, stdinVars>>
    BY DEF DrainPop, Pop, Control
  <1>2. cur' \in IncomingOrder /\ queue' \in Seq(IncomingOrder)
    BY <1>1 DEF MainTypeOK
  <1>3. /\ cur'.trader \in Traders /\ cur'.side \in Sides /\ cur'.price \in Int
        /\ cur'.qty \in Int /\ cur'.type \in {"LIMIT", "MARKET"}
    BY <1>2 DEF IncomingOrder
  <1>4. PTInv(Positive)'
    BY <1>1, PTStutterInv
  <1>5. ASSUME answers' \in Seq(FillEvent \cup RejectEvent), pc' \in {"drain", "report"}
        PROVE  MainTypeOK'
    BY <1>1, <1>2, <1>5 DEF MainTypeOK, stdinVars
  <1>6. ASSUME NEW reason \in {"invalid_qty", "invalid_price"},
               answers' = <<Reject(reason)>>, UNCHANGED <<obVars, pc>>
        PROVE  EngineInv'
    <2>1. Reject(reason) \in RejectEvent /\ Reject(reason).type = "reject"
      BY <1>3 DEF Reject, RejectEvent
    <2>2. /\ answers' \in Seq(FillEvent \cup RejectEvent) /\ Len(answers') = 1
          /\ answers'[1].type = "reject"
      BY <1>6, <2>1
    <2>3. OBInv'
      BY <1>6, OBStutterInv
    <2>4. pc' = "drain" /\ phase' = "idle"
      BY <1>1, <1>6 DEF obVars, matchVars
    <2>5. Control' /\ Reporting' /\ MarketOrderAnswered'
      BY <2>2, <2>4 DEF Control, Reporting, MarketOrderAnswered
    <2> QED
      BY <1>4, <1>5, <2>2, <2>3, <2>4, <2>5
  <1>7. ASSUME cur'.qty > 0, cur'.type = "LIMIT", cur'.price > 0,
               AddLimitOrder(cur'.side, cur'.price, cur'.qty), answers' = <<>>,
               UNCHANGED <<matchVars, pc>>
        PROVE  EngineInv'
    <2>1. cur'.price \in Positive /\ cur'.qty \in Positive
      BY <1>3, <1>7 DEF Positive
    <2>2. OBInv'
      BY <1>1, <1>3, <1>7, <2>1, AddLimitOrderInv
    <2>3. pc' = "drain" /\ phase' = "idle" /\ answers' \in Seq(FillEvent \cup RejectEvent)
      BY <1>1, <1>7 DEF matchVars
    <2>4. Control' /\ Reporting' /\ MarketOrderAnswered'
      BY <1>7, <2>3 DEF Control, Reporting, MarketOrderAnswered
    <2> QED
      BY <1>4, <1>5, <2>2, <2>3, <2>4
  <1>8. ASSUME cur'.qty > 0, cur'.type = "MARKET", AddMarketOrder(cur'.side, cur'.qty),
               answers' = <<>>, pc' = "report"
        PROVE  EngineInv'
    <2>1. OBInv'
      BY <1>3, <1>8, AddMarketOrderInv
    <2>2. /\ phase' = "loop" /\ aggQty' = cur'.qty /\ trades' = <<>>
          /\ answers' \in Seq(FillEvent \cup RejectEvent)
      BY <1>8 DEF AddMarketOrder
    <2>3. Control' /\ Reporting' /\ MarketOrderAnswered'
      BY <1>2, <1>8, <2>2 DEF Control, Reporting, MarketOrderAnswered
    <2> QED
      BY <1>4, <1>5, <1>8, <2>1, <2>2, <2>3
  <1> QED
    BY <1>6, <1>7, <1>8 DEF DrainPop

(* One trade reported: recordFill, emitFill. *)
LEMMA ReportFillInv == ASSUME EngineInv, ReportFill PROVE EngineInv'
  <1> USE DEF EngineInv
  <1> DEFINE n == Len(answers)
             t == trades[n + 1]
  <1>1. /\ pc = "report" /\ phase = "return" /\ n < Len(trades)
        /\ RecordFill(cur.trader, cur.side, t.price, t.qty)
        /\ answers' = Append(answers, Fill(t))
        /\ UNCHANGED <<obVars, pc, price, tick, todo, nextAct, cur, lastTick, queue,
                       running, stdinVars>>
    BY DEF ReportFill
  <1>2. /\ cur \in IncomingOrder /\ cur.trader \in Traders /\ cur.side \in Sides
        /\ n \in Nat /\ Len(trades) \in Nat
        /\ trades \in Seq([price : Positive, qty : Positive])
        /\ answers \in Seq(FillEvent \cup RejectEvent)
    BY <1>1 DEF Reporting, IncomingOrder, MainTypeOK, OBInv, OBTypeOK
  <1>3. t.price \in Positive /\ t.qty \in Positive
    <2>1. t \in [price : Positive, qty : Positive]
      <3>1. n + 1 \in 1..Len(trades)
        BY <1>1, <1>2
      <3> QED
        BY <1>2, <3>1, ElementOfSeq, Zenon
    <2> QED
      BY <2>1
  <1>4. PTInv(Positive)'
    BY <1>1, <1>2, <1>3, RecordFillInv DEF Positive
  <1>5. OBInv'
    BY <1>1, OBStutterInv
  <1>6. Fill(t) \in FillEvent /\ Fill(t).type = "fill" /\ Fill(t).qty = t.qty
    BY <1>2, <1>3 DEF Fill, FillEvent
  <1> HIDE DEF t
  <1>7. /\ answers' \in Seq(FillEvent \cup RejectEvent) /\ Len(answers') = n + 1
        /\ DOMAIN answers = 1..n /\ DOMAIN answers' = 1..(n + 1)
        /\ answers'[n + 1] = Fill(t) /\ \A i \in 1..n : answers'[i] = answers[i]
    BY <1>1, <1>2, <1>6
  <1>8. MainTypeOK'
    BY <1>1, <1>7 DEF MainTypeOK, stdinVars
  <1>9. Reporting'
    <2>1. \A i \in 1..(n + 1) : answers'[i] = Fill(trades[i])
      <3>1. \A i \in 1..n : answers[i] = Fill(trades[i])
        BY <1>1, <1>7 DEF Reporting
      <3>2. \A i \in 1..(n + 1) : i \in 1..n \/ i = n + 1
        BY <1>2
      <3> QED
        BY <1>6, <1>7, <3>1, <3>2, Zenon DEF t
    <2> QED
      BY <1>1, <1>2, <1>7, <2>1 DEF Reporting, Fill, obVars, matchVars
  <1>10. Control' /\ MarketOrderAnswered'
    BY <1>1 DEF Control, MarketOrderAnswered, obVars, matchVars
  <1> QED
    BY <1>4, <1>5, <1>8, <1>9, <1>10

(* A market order leaves the drain loop answered, once and in kind. *)
LEMMA ReportEndInv == ASSUME EngineInv, ReportEnd PROVE EngineInv'
  <1> USE DEF EngineInv
  <1>1. /\ pc = "report" /\ phase = "return" /\ Len(answers) = Len(trades) /\ cur' = cur
        /\ answers' = AnswersAtEnd /\ MatchReturn /\ pc' = "drain" /\ phase' = "idle"
        /\ UNCHANGED <<ptVars, price, tick, todo, nextAct, lastTick, queue, running,
                       stdinVars>>
    BY DEF ReportEnd, MatchReturn
  <1>2. /\ cur \in IncomingOrder /\ cur.trader \in Traders /\ cur.qty = aggQty
        /\ answers \in Seq(FillEvent \cup RejectEvent)
        /\ trades \in Seq([price : Positive, qty : Positive])
    BY <1>1 DEF Reporting, IncomingOrder, MainTypeOK, OBInv, OBTypeOK
  <1>3. OBInv'
    BY <1>1, MatchInv
  <1>4. PTInv(Positive)'
    BY <1>1, PTStutterInv
  <1>5. answers' \in Seq(FillEvent \cup RejectEvent) /\ MarketOrderAnswered'
    <2>1. CASE trades = <<>>
      <3>1. /\ Reject("insufficient_liquidity") \in RejectEvent
            /\ Reject("insufficient_liquidity").type = "reject"
        BY <1>1, <1>2 DEF Reject, RejectEvent
      <3>2. answers' = <<Reject("insufficient_liquidity")>>
        BY <1>1, <2>1 DEF AnswersAtEnd
      <3>3. /\ answers' \in Seq(FillEvent \cup RejectEvent) /\ Len(answers') = 1
            /\ answers'[1].type = "reject"
        BY <3>1, <3>2
      <3> QED
        BY <3>3 DEF MarketOrderAnswered
    <2>2. CASE trades # <<>>
      <3>1. answers' = answers /\ answers # <<>> /\ DOMAIN answers = 1..Len(trades)
        BY <1>1, <1>2, <2>2 DEF AnswersAtEnd
      <3>2. \A i \in DOMAIN answers : answers[i].type = "fill" /\ answers[i].qty = trades[i].qty
        BY <1>1 DEF Reporting, Fill
      <3>3. PICK total \in [0..Len(trades) -> 0..aggQty] :
              /\ total[0] = 0
              /\ \A i \in 1..Len(trades) : total[i] = total[i - 1] + trades[i].qty
        BY DEF OBInv, FillsAddUp
      <3>4. /\ total \in [0..Len(answers) -> 0..cur.qty] /\ total[0] = 0
            /\ \A i \in DOMAIN answers : total[i] = total[i - 1] + answers[i].qty
        BY <1>1, <1>2, <3>1, <3>2, <3>3
      <3> QED
        BY <1>1, <1>2, <3>1, <3>2, <3>4, SMTT(30) DEF MarketOrderAnswered
    <2> QED
      BY <2>1, <2>2
  <1>6. MainTypeOK'
    BY <1>1, <1>5 DEF MainTypeOK, stdinVars
  <1>7. Control' /\ Reporting'
    BY <1>1 DEF Control, Reporting
  <1> QED
    BY <1>3, <1>4, <1>5, <1>6, <1>7

(* The end of the drain loop, of the agents' turns and of the process. *)
LEMMA QuietMainInv ==
    ASSUME EngineInv, Exit \/ AgentsDone \/ DrainEnd PROVE EngineInv'
  <1> USE DEF EngineInv
  <1>1. UNCHANGED <<obVars, ptVars, price, tick, todo, nextAct, lastTick, queue, running, stdinVars>>
    BY DEF Exit, AgentsDone, DrainEnd
  <1>2. phase' = "idle" /\ pc' \in {"exit", "drain", "emit"} /\ cur' = NoOrder
    BY <1>1 DEF Exit, AgentsDone, DrainEnd, Control, obVars, matchVars
  <1>3. answers' \in Seq(FillEvent \cup RejectEvent)
    BY DEF Exit, AgentsDone, DrainEnd, MainTypeOK
  <1>4. OBInv'
    BY <1>1, OBStutterInv
  <1>5. PTInv(Positive)'
    BY <1>1, PTStutterInv
  <1>6. MainTypeOK'
    BY <1>1, <1>2, <1>3 DEF MainTypeOK, stdinVars
  <1>7. Control' /\ Reporting' /\ MarketOrderAnswered'
    BY <1>2 DEF Control, Reporting, MarketOrderAnswered
  <1> QED
    BY <1>4, <1>5, <1>6, <1>7

(* The tick event quotes prices that exist. *)
LEMMA EmitTickInv == ASSUME EngineInv, EmitTick PROVE EngineInv'
  <1> USE DEF EngineInv
  <1>1. /\ pc = "emit" /\ pc' = "top" /\ tick' = tick + 1
        /\ lastTick' = [tick |-> tick, price |-> price, bid |-> BestBid, ask |-> BestAsk]
        /\ UNCHANGED <<obVars, ptVars, price, todo, nextAct, cur, answers, queue,
                       running, stdinVars>>
    BY DEF EmitTick
  <1>2. OBInv'
    BY <1>1, OBStutterInv
  <1>3. PTInv(Positive)'
    BY <1>1, PTStutterInv
  <1>4. BestBid \in Nat /\ BestAsk \in Nat
    BY BestAreNat DEF OBInv
  <1>5. MainTypeOK'
    BY <1>1, <1>4 DEF MainTypeOK, stdinVars
  <1>6. Control' /\ Reporting' /\ MarketOrderAnswered'
    BY <1>1 DEF Control, Reporting, MarketOrderAnswered, obVars, matchVars
  <1> QED
    BY <1>2, <1>3, <1>5, <1>6

(* The stdin thread and the signal handler touch only the queue, g_running  *)
(* and the thread's own state.                                              *)
LEMMA StdinInv ==
    ASSUME EngineInv, StdinCheck \/ StdinLine \/ StdinEof \/ Signal PROVE EngineInv'
  <1> USE DEF EngineInv
  <1>1. UNCHANGED <<obVars, ptVars, mainVars>>
    BY DEF StdinCheck, StdinLine, StdinEof, Signal, StdinOther
  <1>2. /\ running' \in BOOLEAN /\ stdinPc' \in {"check", "getline", "done"}
        /\ lines' \in Nat
    <2>1. running \in BOOLEAN /\ stdinPc \in {"check", "getline", "done"} /\ lines \in Nat
      BY DEF MainTypeOK
    <2>2. running' \in BOOLEAN
      BY <2>1, Zenon DEF StdinCheck, StdinLine, StdinEof, Signal, StdinOther
    <2>3. stdinPc' \in {"check", "getline", "done"}
      BY <2>1, Zenon DEF StdinCheck, StdinLine, StdinEof, Signal, AfterCheck, stdinVars
    <2>4. lines' \in Nat
      <3>1. lines' \in {lines, lines + 1}
        BY Zenon DEF StdinCheck, StdinLine, StdinEof, Signal, stdinVars
      <3> QED
        BY <2>1, <3>1
    <2> QED
      BY <2>2, <2>3, <2>4
  <1>3. queue' \in Seq(IncomingOrder)
    <2>1. CASE UNCHANGED queue
      BY <2>1 DEF MainTypeOK
    <2>2. CASE StdinLine /\ ~UNCHANGED queue
      <3>1. PICK l \in Lines : /\ ParseIncomingOrder(l) # NoOrder
                               /\ queue' = Append(queue, ParseIncomingOrder(l))
        BY <2>2 DEF StdinLine, Push
      <3>2. ParseIncomingOrder(l) \in IncomingOrder /\ queue \in Seq(IncomingOrder)
        BY <3>1, ParsedIsOrder DEF MainTypeOK
      <3> QED
        BY <3>1, <3>2
    <2> QED
      BY <2>1, <2>2 DEF StdinCheck, StdinEof, Signal
  <1>4. OBInv' /\ PTInv(Positive)'
    BY <1>1, OBStutterInv, PTStutterInv
  <1>5. MainTypeOK'
    BY <1>1, <1>2, <1>3 DEF MainTypeOK, mainVars
  <1>6. Control' /\ Reporting' /\ MarketOrderAnswered'
    BY <1>1 DEF Control, Reporting, MarketOrderAnswered, Fill, obVars, matchVars, mainVars
  <1> QED
    BY <1>4, <1>5, <1>6

-----------------------------------------------------------------------------
(* Any step of any thread. *)
LEMMA EngineStepInv == ASSUME EngineInv, [EngineNext]_engineVars PROVE EngineInv'
  <1>1. CASE Main
    <2>1. CASE Act
      BY <2>1, MakerActInv, TakerActInv, WhaleActInv DEF Act
    <2> QED
      BY <1>1, <2>1, BeginTickInv, MatchStepInv, DrainPopInv, ReportFillInv, ReportEndInv,
         QuietMainInv, EmitTickInv DEF Main
  <1>2. CASE StdinCheck \/ StdinLine \/ StdinEof \/ Signal
    BY <1>2, StdinInv
  <1>3. CASE UNCHANGED engineVars
    <2>1. UNCHANGED <<obVars, ptVars, mainVars, queue, running, stdinVars>>
      BY <1>3 DEF engineVars
    <2>2. OBInv' /\ PTInv(Positive)'
      BY <2>1, OBStutterInv, PTStutterInv DEF EngineInv
    <2>3. MainTypeOK' /\ Control' /\ Reporting' /\ MarketOrderAnswered'
      BY <2>1 DEF EngineInv, MainTypeOK, Control, Reporting, MarketOrderAnswered, Fill, obVars,
                  matchVars, mainVars, stdinVars
    <2> QED
      BY <2>2, <2>3 DEF EngineInv
  <1> QED
    BY <1>1, <1>2, <1>3 DEF EngineNext

(* The inductive invariant holds in every reachable state of the engine. *)
THEOREM EngineInvariant == EngineSpec => []EngineInv
  <1>1. EngineInit => EngineInv
    <2> SUFFICES ASSUME EngineInit PROVE EngineInv
      OBVIOUS
    <2>1. OBInv /\ PTInv(Positive)
      BY OBInitInv, PTInitInv DEF EngineInit
    <2>2. nextAct \in [Whales -> Nat]
      BY NextActsNat DEF EngineInit
    <2>3. MainTypeOK
      BY <2>2, EngineAssumption DEF EngineInit, MainTypeOK, NoTick
    <2>4. Control /\ Reporting /\ MarketOrderAnswered
      BY DEF EngineInit, OBInit, Control, Reporting, MarketOrderAnswered
    <2> QED
      BY <2>1, <2>3, <2>4 DEF EngineInv
  <1>2. EngineInv /\ [EngineNext]_engineVars => EngineInv'
    BY EngineStepInv
  <1> QED
    BY <1>1, <1>2, PTL DEF EngineSpec

(* The engine stays well-typed: no price below the floor, no order in the   *)
(* queue that parseIncomingOrder would not have built, no quote in a tick   *)
(* event that is not a price or 0.                                          *)
THEOREM EngineTypeCorrect == EngineSpec => []EngineTypeOK
  <1>1. EngineInv => EngineTypeOK
    BY DEF EngineInv, OBInv, PTInv, MainTypeOK, EngineTypeOK
  <1> QED
    BY <1>1, EngineInvariant, PTL

(* drainOrderQueue answers every market order, once and in kind, and never  *)
(* reports more than was ordered.                                           *)
THEOREM MarketOrdersAnswered == EngineSpec => []MarketOrderAnswered
  <1>1. EngineInv => MarketOrderAnswered
    BY DEF EngineInv
  <1> QED
    BY <1>1, EngineInvariant, PTL

(* A market order is refused for lack of liquidity only by an empty side:   *)
(* had anything rested there, nothing traded would mean that all of the     *)
(* order remained, and a walk that ends with quantity left has emptied the  *)
(* side.                                                                    *)
THEOREM RejectedOnlyIfEmpty == EngineSpec => []RejectOnlyIfEmpty
  <1>1. EngineInv => RejectOnlyIfEmpty
    <2> SUFFICES ASSUME EngineInv, pc = "report", phase = "return", trades = <<>>
                 PROVE  before = NoLevels
      BY DEF RejectOnlyIfEmpty
    <2>1. aggQty > 0 /\ OBInv
      BY DEF EngineInv, Reporting
    <2>2. remaining > 0
      <3>1. Len(trades) = 0
        OBVIOUS
      <3>2. PICK total : total[0] = 0 /\ total[0] + remaining = aggQty
        BY <2>1, <3>1 DEF OBInv, FillsAddUp
      <3> QED
        BY <2>1, <3>2 DEF OBInv, OBTypeOK
    <2>3. DOMAIN Contra(aggSide) = {}
      BY <2>1, <2>2 DEF OBInv, SweepComplete
    <2>4. DOMAIN trades = {}
      OBVIOUS
    <2>5. ASSUME NEW p \in DOMAIN before PROVE FALSE
      <3>1. before[p] \in Nat \ {0}
        BY <2>1 DEF OBInv, OBTypeOK, Positive
      <3>2. LeftAt(p) = before[p]
        BY <2>1, <2>4 DEF OBInv, LevelsConserved
      <3>3. LeftAt(p) = 0
        BY <2>3 DEF LeftAt
      <3> QED
        BY <3>1, <3>2, <3>3
    <2>6. before \in [DOMAIN before -> Positive] /\ DOMAIN before = {}
      BY <2>1, <2>5 DEF OBInv, OBTypeOK
    <2> QED
      BY <2>6 DEF NoLevels
  <1> QED
    BY <1>1, EngineInvariant, PTL

(* Inside the engine, with agents and external orders mixed, the walk of    *)
(* addMarketOrder still conserves every level, respects price priority,     *)
(* leaves nothing it could have taken and meets its reference.              *)
THEOREM EngineBookCorrect ==
    EngineSpec => [](LevelsConserved /\ PricePriority /\ SweepComplete /\ FillsMatchReference)
  <1>1. EngineInv => LevelsConserved /\ PricePriority /\ SweepComplete /\ FillsMatchReference
    BY ReferenceMet DEF EngineInv, OBInv
  <1> QED
    BY <1>1, EngineInvariant, PTL

\* The fill events of a finished report are the entries of the reference
\* allocation, one event each, addressed to the trader who sent the order
AnswersAreOwed ==
    pc = "report" /\ phase = "return" /\ Len(answers) = Len(trades) =>
      /\ \A i \in DOMAIN answers : answers[i].type = "fill" /\ answers[i].trader = cur.trader
      /\ {[price |-> answers[i].price, qty |-> answers[i].qty] : i \in DOMAIN answers}
           = {[price |-> p, qty |-> Owed[p]] : p \in {q \in DOMAIN before : Owed[q] > 0}}

(* What drainOrderQueue tells the sender of a market order is what price    *)
(* priority owed it: every level's share is reported, at the level's price, *)
(* and nothing else is.                                                     *)
THEOREM TraderToldAllocation == EngineSpec => []AnswersAreOwed
  <1>1. EngineInv => AnswersAreOwed
    <2> SUFFICES ASSUME EngineInv, pc = "report", phase = "return",
                        Len(answers) = Len(trades)
                 PROVE  AnswersAreOwed
      BY DEF AnswersAreOwed
    <2>1. \A i \in DOMAIN answers : answers[i] = Fill(trades[i])
      BY DEF EngineInv, Reporting
    <2>2. /\ trades \in Seq([price : Positive, qty : Positive])
          /\ answers \in Seq(FillEvent \cup RejectEvent)
      BY DEF EngineInv, MainTypeOK, OBInv, OBTypeOK
    <2>3. DOMAIN answers = DOMAIN trades
      BY <2>2
    <2>4. \A i \in DOMAIN trades : trades[i] \in [price : Positive, qty : Positive]
      <3>1. DOMAIN trades = 1..Len(trades)
        BY <2>2
      <3> QED
        BY <2>2, <3>1, ElementOfSeq
    <2>5. \A i \in DOMAIN answers :
            /\ answers[i].type = "fill" /\ answers[i].trader = cur.trader
            /\ answers[i].price = trades[i].price /\ answers[i].qty = trades[i].qty
      BY <2>1 DEF Fill
    <2>6. \A i \in DOMAIN answers :
            [price |-> answers[i].price, qty |-> answers[i].qty] = trades[i]
      BY <2>3, <2>4, <2>5
    <2>7. {[price |-> answers[i].price, qty |-> answers[i].qty] : i \in DOMAIN answers}
            = {trades[i] : i \in DOMAIN trades}
      BY <2>3, <2>6
    <2>8. {trades[i] : i \in DOMAIN trades}
            = {[price |-> p, qty |-> Owed[p]] : p \in {q \in DOMAIN before : Owed[q] > 0}}
      BY ReferenceMet DEF EngineInv, FillsMatchReference
    <2> QED
      BY <2>5, <2>7, <2>8, Zenon DEF AnswersAreOwed
  <1> QED
    BY <1>1, EngineInvariant, PTL

\* All that the engine may do to the book in one step: go on with a walk, or,
\* when none is under way, make one of the book's calls.  A maker's two limit
\* orders are one step, and they do not cross.
BookUse ==
    \/ MatchLevel \/ MatchEnd \/ MatchReturn
    \/ phase = "idle" /\ \E side \in Sides, qty \in Positive : AddMarketOrder(side, qty)
    \/ /\ phase = "idle" /\ UNCHANGED matchVars
       /\ \/ ClearBook
          \/ \E side \in Sides, p \in Positive, qty \in Positive : AddLimitOrder(side, p, qty)
          \/ \E bid \in Positive, ask \in Positive, qty \in Positive :
               bid < ask /\ bids' = AddTo(bids, bid, qty) /\ asks' = AddTo(asks, ask, qty)

(* The agents, the drain loop and the tick head share one book, and none of *)
(* them ever calls it while an addMarketOrder is under way, nor with a      *)
(* price or a quantity that is not positive, whatever stdin delivers.       *)
THEOREM EngineUsesBookInTurn == EngineSpec => [][BookUse]_obVars
  <1>1. EngineInv /\ [EngineNext]_engineVars => [BookUse]_obVars
    <2> SUFFICES ASSUME EngineInv, [EngineNext]_engineVars PROVE [BookUse]_obVars
      OBVIOUS
    <2>1. CASE BeginTick
      BY <2>1 DEF BeginTick, FreshBook, EngineInv, Control, BookUse
    <2>2. ASSUME NEW m \in Makers, MakerAct(m) PROVE [BookUse]_obVars
      <3>1. phase = "idle" /\ UNCHANGED matchVars
        BY <2>2 DEF MakerAct, Acting
      <3>2. CASE UNCHANGED bookVars
        BY <3>1, <3>2 DEF obVars
      <3>3. CASE /\ bids' = AddTo(bids, price - Offset, MakerQty)
                 /\ asks' = AddTo(asks, price + Offset, MakerQty)
        <4>1. /\ price \in Nat /\ Offset \in Nat \ {0} /\ Floor \in Nat
              /\ MakerQty \in Nat \ {0} /\ Offset < Floor /\ price >= Floor
          BY EngineAssumption DEF EngineInv, MainTypeOK
        <4>2. /\ price - Offset \in Positive /\ price + Offset \in Positive
              /\ MakerQty \in Positive /\ price - Offset < price + Offset
          BY <4>1 DEF Positive
        <4> QED
          BY <3>1, <3>3, <4>2 DEF BookUse
      <3> QED
        BY <2>2, <3>2, <3>3 DEF MakerAct
    <2>3. ASSUME NEW a, Acting(a), NEW side \in Sides, NEW qty \in Positive,
                 AddMarketOrder(side, qty)
          PROVE  BookUse
      BY <2>3 DEF Acting, BookUse
    <2>4. TakerQty \in Positive /\ WhaleQty \in Positive
      BY EngineAssumption DEF Positive
    <2>5. ASSUME NEW t \in Takers, TakerAct(t) PROVE [BookUse]_obVars
      BY <2>3, <2>4, <2>5 DEF TakerAct
    <2>6. ASSUME NEW w \in Whales, WhaleAct(w) PROVE [BookUse]_obVars
      BY <2>3, <2>4, <2>6 DEF WhaleAct
    <2>7. CASE Match
      BY <2>7 DEF Match, BookUse
    <2>8. CASE DrainPop
      <3>1. phase = "idle" /\ cur' \in IncomingOrder
        BY <2>8 DEF DrainPop, Pop, EngineInv, Control, MainTypeOK
      <3>2. cur'.side \in Sides /\ cur'.price \in Int /\ cur'.qty \in Int
        BY <3>1 DEF IncomingOrder
      <3>3. CASE UNCHANGED obVars
        BY <3>3
      <3>4. CASE /\ cur'.qty > 0 /\ cur'.price > 0 /\ UNCHANGED matchVars
                 /\ AddLimitOrder(cur'.side, cur'.price, cur'.qty)
        <4>1. cur'.price \in Positive /\ cur'.qty \in Positive
          BY <3>2, <3>4 DEF Positive
        <4> QED
          BY <3>1, <3>2, <3>4, <4>1 DEF BookUse
      <3>5. CASE cur'.qty > 0 /\ AddMarketOrder(cur'.side, cur'.qty)
        <4>1. cur'.qty \in Positive
          BY <3>2, <3>5 DEF Positive
        <4> QED
          BY <3>1, <3>2, <3>5, <4>1 DEF BookUse
      <3> QED
        BY <2>8, <3>3, <3>4, <3>5 DEF DrainPop
    <2>9. CASE ReportEnd
      BY <2>9 DEF ReportEnd, BookUse
    <2>10. CASE Exit \/ AgentsDone \/ ReportFill \/ DrainEnd \/ EmitTick
      BY <2>10 DEF Exit, AgentsDone, ReportFill, DrainEnd, EmitTick
    <2>11. CASE StdinCheck \/ StdinLine \/ StdinEof \/ Signal
      BY <2>11 DEF StdinCheck, StdinLine, StdinEof, Signal, StdinOther
    <2>12. CASE UNCHANGED engineVars
      BY <2>12 DEF engineVars
    <2> QED
      BY <2>1, <2>2, <2>5, <2>6, <2>7, <2>8, <2>9, <2>10, <2>11, <2>12
      DEF EngineNext, Main, Act
  <1> QED
    BY <1>1, EngineInvariant, PTL DEF EngineSpec

(* The accounts of the traders are exact for the fills the engine itself    *)
(* produces.                                                                *)
THEOREM EngineAccountsExact == EngineSpec => [](NetMatchesFills /\ EquityExact)
  <1>1. EngineInv => NetMatchesFills /\ EquityExact
    BY InvNet, InvEquity DEF EngineInv
  <1> QED
    BY <1>1, EngineInvariant, PTL
=============================================================================
