# market-sim: a verification project in TLA+

market-sim is a market simulator. A C++ engine (`src/src/`) runs a tick loop over an order
book, takes order lines on stdin and prints event lines on stdout. A Go server
(`src/server/`) supervises the engine, broadcasts its events to WebSocket clients, relays
them to trading scripts that run in Docker sandboxes, stores ticks in SQLite and serves a
small HTTP API. This directory models all of these parts, checks them with TLC on small
instances, and proves with TLAPS, for every value of the constants, all of their type and
safety invariants, a refinement and a number of action properties.

## Inventory

| Part | State | Operations | Interacts with |
|---|---|---|---|
| OrderBook (C++) | `bids_`, `asks_`: price to quantity | addLimitOrder, addMarketOrder, removeQty, clear, bestBid/bestAsk/spread | called by the agents and by drainOrderQueue, on one thread |
| PositionTracker (C++) | `positions_`: net, average cost, realised P&L, fills | recordFill, unrealisedPnL, snapshot | fed by drainOrderQueue, read by emitTick |
| Simulation, PriceEngine, agents, main (C++) | price, tick, whale schedules, `g_running` | runTick: clear, move the price, agents in a shuffled order, drain, emit | main thread; SIGTERM from the runner |
| OrderQueue, Protocol.h (C++) | FIFO behind a mutex | push, pop, parseIncomingOrder | stdin thread to main thread |
| Hub (`ws/hub.go`) | client set, broadcast channel, a send channel per client | Run (register, unregister, broadcast), Broadcast, ServeWS, readPump, writePump | fed by main's fan-out; orders go to the runner |
| Sandbox manager (`sandbox/manager.go`) | map of entries: status, container id, script directory, cancel | Spawn, Kill, monitor, cleanup, KillAll, List, Get, ContainerLogs | HTTP handlers, Docker, main's shutdown; starts the relay |
| Runner and config API (`engine/runner.go`, `api/handlers.go`) | args, current process, stdin pipe; current config | Start/run loop, SetArgs, Restart, SendOrder, POST config | engine process, hub, relay |
| Relay (`sandbox/relay.go`) | last tick, a channel per sandbox, rate window | fanOut, HandleSandbox | main's fan-out, containers, runner |
| Tick store (`db/store.go`) | table of ticks | StoreTick, trim, History, Close | main's fan-out, history API |
| Server main (`main.go`) | event channel | fan-out goroutine, shutdown | everything |

What is hard, and what makes each part correct:

* *OrderBook*: the walk of a market order over levels, its two exits and the erasing of
  exhausted levels. It must conserve quantity, respect price priority, and take all it can.
* *PositionTracker*: six branches, mirrored for shorts, of which some only show after
  particular sequences. Net position and equity must agree with the fills.
* *Engine*: two threads and a signal. A tick must start from a clean book, every market order
  must be answered once and in kind, no order may be lost or overtaken for ever between the
  threads, and a signal must end the process.
* *Hub*: three goroutines per client and Run share a channel that only one of them closes.
  No double close, no send on a closed channel in Run, no gap in what a client sees, nobody
  can stall the broadcaster, and everything is torn down in the end.
* *Sandbox manager*: the lock is held for a few lines at a time, and Spawn, Kill, the
  monitor and KillAll overlap freely around slow calls that fail. The cap, the watching of
  live sandboxes and the cleanup must survive every overlap.
* *Runner and config API*: a restart loop, crashes, and configuration changes overlap, and
  one mutex is held over a pipe write. The engine must run what was configured, read whole
  lines, come back after a restart and end with the server, and nobody may wait for ever.
* *Event pipeline and store*: bounded channels that drop, inserts that fail, a trim per
  insert, restarts. Every consumer must see events in order and once, and the history must
  be the newest ticks in their order.
* *Relay*: a sandbox joins a stream that goes on, stalls, and leaves through two goroutines
  that wait for each other. Events must be routed in order and only to their addressee, a
  new sandbox must get the market's context, the rate limiter must neither leak nor refuse
  without cause, and everything must end with the container.

`PROJECT.json` lists the hazards line by line, with the properties that would catch them.

## Modules

| Module | Models | Contents |
|---|---|---|
| `Order` | `Order.h` | sides, and the assumptions on prices and quantities |
| `OrderBook` | `OrderBook.{h,cpp}` | the book, called in any order; one step per level of a market order |
| `PositionTracker` | `PositionTracker.{h,cpp}` | recordFill, and a ledger that sums the fills (history) |
| `Protocol` | `Protocol.h` | parseIncomingOrder |
| `Engine` | `Simulation.cpp`, `PriceEngine.cpp`, `agents/`, `main.cpp`, `OrderQueue.h` | composes the four above with the tick loop, the stdin thread and the signal |
| `Hub` | `server/ws/hub.go` | Run, Broadcast, ServeWS, readPump, writePump |
| `SandboxManager` | `server/sandbox/manager.go`, POST and DELETE of `api/handlers.go`, shutdown of `main.go` | Spawn, Kill, monitor, KillAll |
| `Runner` | `server/engine/runner.go`, config handler of `api/handlers.go` | the restart loop, SetArgs, Restart, SendOrder, POST /api/config, the engine's stdin pipe |
| `LossyFifo` | | abstract: events arrive in order and at most once, any may be missing |
| `TickStore` | `server/db/store.go`, history handler of `api/handlers.go` | StoreTick, trims, History, Close and reopening |
| `EventPipeline` | fan-out of `main.go`, scan loop of `runner.go`, channels of `hub.go` and `relay.go` | extends `TickStore`; implements `LossyFifo` three times |
| `Relay` | `server/sandbox/relay.go` | fanOut, HandleSandbox, its writer, the rate limiter |
| `*Proofs` | | inductive invariants, lemmas and theorems of the module named |
| `MCEngine`, `MCRunner` | | constants for TLC |

How they fit together: `Engine` is the process that `Runner` supervises (its `SignalExits`
is a fairness assumption there); `EventPipeline` begins with the lines `Runner` scans and
ends where `Hub` and `Relay` take over; `SandboxManager` starts what `Relay` calls Attach and
cancels its context; `Hub` and `Relay` hand orders to `Runner`'s SendOrder (its `CallsReturn`
is what lets the hub assume that SendOrder returns).

The order book and the tracker are checked from their own modules, on their own; `Engine`
extends both and calls the same operators.

Definitions whose comment begins with *Fault:* are not part of any specification. Each stands
just before a definition and states how a plausible mistake in the same code would read; with
it in the place of that definition, TLC finds the property that `PROJECT.json` names under
`mutants` violated. They show that the properties are sensitive to the code.

### How state and actions correspond to the code

*OrderBook.* A side is a function from the prices present to positive quantities, the two
`std::map`s. `AddMarketOrder` is the call up to its loop, `MatchLevel` one iteration,
`MatchEnd` the loop condition turning false and `MatchReturn` the return; `phase`,
`remaining` and `trades` are the locals. `before` remembers the side as the call found it and
influences nothing. Order and trade ids are never read by any code and are left out.

*PositionTracker.* The code computes in doubles. The model computes the same formulas
exactly: prices and quantities are integers, and average cost and realised P&L are numerators
over a common denominator that `Extend` multiplies. Rounding is therefore not modelled.

*Engine.* `pc` is the place of the main thread in `runTick`. The shuffled order of agents is
a free choice among those that have not acted. Each pop of the queue is a step, each fill
reported another, so the stdin thread can push at any of these points. A line on stdin is
what the extractors of `Protocol.h` find in it; numbers are finite, as the server's JSON makes
them, although `stod` would read `nan` and `inf` too, and the guards of `drainOrderQueue` would
let them pass. The makers' offset is a fixed distance here
and a fixed share of the price in the code; within a tick the price does not change, so this
makes no difference inside a tick. The slack factor of 1e-6 in `MakerTrader::act` absorbs
rounding and has no counterpart in exact arithmetic. Takers may or may not act. The positions that emitTick
adds to every tenth tick only read the tracker. Both threads stop when main returns.

*Hub.* Channels are sequences with capacities; the unbuffered `register` and `unregister` are
rendezvous: a client waits in `serve = "register"` until Run takes it. Messages are numbered
in the order `h.broadcast` accepts them; a message dropped because it is full has no number.
Fan-out of one message to all clients is one step, since each client's channel is touched
separately. `last` is the number of the last message a client has been written (or, at first,
of the last one fanned out before it joined), and `Stretch` says that a queue holds, pongs aside, exactly the numbers of an interval, in order. `conn` is
"broken" when the peer is gone, "closed" when the server closed it.
A panic of Run takes the process down (`crashed`); a panic of readPump is recovered by
net/http after the deferred calls have run (`panicked`). An order keeps readPump in SendOrder
for a while; messages that are not valid orders or pings change nothing.

*SandboxManager.* Every stretch of code between two lock regions or calls to Docker is an
action: `spawn`, `mon` and the members of `calls` are program counters. Kill has three kinds
of callers: DELETE handlers, the main goroutine in KillAll, and the monitor's auto-kill. Each
DELETE request comes at most once (`requests`), and there may be any number of them. Four
sets of ids say for which of them which calls may fail: `BadWrite` (MkdirAll, WriteFile),
`BadRemove` (RemoveAll in cleanup), `BadDocker` (create, attach, start, stop) and `BadInspect`.
Failures of RemoveAll and ContainerStop are ignored, as in the code. A create, attach or start
under a cancelled context fails in any case, and one that fails may have taken effect. The
unlocked reads of `ContainerID` and `scriptDir` are steps of their own, so they see either
value. An id whose entry exists is never spawned again, since entries are never removed. `box`
is the container as the daemon sees it, and a script may end at any time.

*Runner.* `loop` is the place of the goroutine of Start and run; `published` says that `r.cmd`
and `r.stdinPipe` are set, which they always are together. Critical sections of `r.mu` are
single steps that wait for the lock, except SendOrder's, which holds it over the write: the
pipe takes a line in `Parts` pieces and blocks when it is full, and an engine that dies fails
the write. Arguments are the posted configuration; `Population` is what the engine's main
makes of them. An engine may exit at any time, by itself, by a signal or by its context.
`refused` and `raced` are history: they mark the two windows described under the
counterexamples below.

*TickStore.* A statement is one step, as SQLite runs it in its own transaction, and any may
fail (busy, disk full, closed). The table is a set of rows with the id AUTOINCREMENT gave.
`trims` counts the goroutines in trimOldTicks; they are alike. `stored` remembers the inserts.
History's ORDER BY chooses, among the lists of the newest rows, the one that is sorted; as ids
differ there is just one.

*EventPipeline.* Lines are numbered as the engine prints them, so that order and duplication
can be stated. Each of the three non-blocking sends is `Offer`. Hub and relay take events when
they like, or never. ServerRestart loses every channel and every trim under way, before,
during or after Close.

*Relay.* Every stretch of code under `r.mu`, and every channel operation outside it, is a
step: in particular fanOut looks a channel up in one step and sends in another, and a sandbox
registers, reads the last tick and sends it in three. The context tick is a message kind of
its own, as the code makes no attempt to order it. Time is a clock in whole units, `Window`
of which are a second; `forwarded` remembers when each order passed the limiter. An id is attached at most once, since the manager never removes an
entry, so the test for a successor's channel in the deferred function is always true. The demultiplexing of
the output stream and the stderr log are left out; a scan that ends early is in.

## Runs

| Run | Checks | Instance |
|---|---|---|
| `position_tracker` | equity identity (which implies the net position) | one trader (traders do not interact), three prices, quantities 1 to 3, five fills: enough to add, close partly, close, flip and flip back on both sides |
| `order_book` | conservation, priority, complete sweeps, agreement with a closed form | three prices, levels up to 2, orders of 1, 2 and 5: part of a level, all of it, several, and more than the side can hold in two levels |
| `engine` | fresh book, answers | one agent of each kind, seven kinds of line, three lines, two ticks, a price that moves and meets the floor, a signal at any time |
| `engine_sigterm` | every order is handled in its turn, and a SIGTERM ends the process, under endless input | as above, with `Flood` and two orders that change nothing and can be told apart |
| `hub` | no panic of Run, gap-free streams, the broadcaster is never stalled, a lost peer is cleaned up, an evicted client whose peer reads is torn down | two clients, channels of capacity 1, three messages: one in hand, one queued, one that evicts |
| `sandbox` | cap, watching, cleanup, a dead container is noticed, a published one does not outlive the server | two ids for one slot, one whose Docker calls fail and one whose disk fails, both with failing inspects, a DELETE request, monitors, KillAll: three callers of Kill for each id |
| `runner` | configuration, whole lines, no lasting wait, restart and shutdown | two senders and two POST handlers, two valid configurations and one that is refused, lines of two pieces in a pipe of two: a line can end up half in the pipe and half in the engine |
| `pipeline` | bounded table, right history, three refinements of `LossyFifo`, no event stuck | three events, ticks of two seconds in any order and fills, capacities 2, 1 and 1, a table of 2, two restarts |
| `relay` | routing, context, rate limit, teardown | one sandbox that is routed to and one id that is not, three events, a channel of 2, four orders at a limit of 2 in three instants: two whole windows and their seam |

One sandbox is enough in `relay`: sandboxes share only `lastTick` and the lookup, and events
for the other id exercise the routing. Capacities of 1 and 2 stand for 64, 256 and 500: full,
empty and in between all occur, and no code depends on another number.

Deadlock checking is off where the system may stop or a bound ends it: the fills, lines,
ticks, messages and orders are bounded, the engine and the server exit, and clients need not
come. The order book and the runner are checked for deadlock: the book can always be called,
and there is always somebody who can send an order or post a configuration.

In `sandbox`, `StoppedClean` speaks of the id whose disk works and whose Docker calls fail, and
`ShutdownStops` of the one whose container Docker can stop and whose disk fails.

Three runs end in a counterexample: each states what a comment says, and TLC shows
what the code does instead.

| Run | The text | What happens |
|---|---|---|
| `hub_panic` | `hub.go:136`: readPump exits on disconnect | after an eviction it answers a ping on the closed channel, and panics |
| `sandbox_exit` | `manager.go:272`: KillAll stops all running sandboxes | one spawned after its snapshot, while HTTP is still served, outlives the server; so does one in the snapshot whose Kill reads the container id before Spawn has set it |
| `runner_config` | `handlers.go:120`: new args apply when the engine comes up | run copies the arguments, a POST sets new ones and is refused a restart as nothing is published yet, and the engine that comes up runs the old ones |

`RunningConfig` states what does hold next to the last one: without a refused restart since
the copy, the engine in service runs the arguments last set; and they are what GET reports
unless two POSTs overlapped, in which case `current` and `r.args` can be left different for
good.

### What else the models show

These have no run of their own.

* A Kill, also by DELETE, that reads the container id after ContainerStart and before Spawn
  sets it (`manager.go:241` and `:176`) skips the stop and returns. Spawn then publishes the
  sandbox, whose monitor finds the context cancelled and returns, and the container runs on
  unwatched, although `manager.go:230` says that Kill stops it. Its slot is free. The cap of
  `readme.md:145` therefore holds for the containers nobody has asked to stop (`LiveCap`), not
  for all that run. A second DELETE, or KillAll, does stop such a container, and one that a
  failed inspect has given up on (`ShutdownStops`).
* A cancelled ContainerStart that was served after all leaves a container that runs under a
  status of error and without an id: no DELETE and no KillAll reaches it.
* A Kill that comes before Spawn has noted the script directory cleans nothing up; the script
  stays, under a status of error, until a second DELETE.
* When WriteFile fails after MkdirAll, the entry does not know of the directory, and neither
  setError nor the cleanup of a DELETE removes it, against `readme.md:149`. A directory that
  RemoveAll fails to remove stays as well. `StoppedClean` speaks of the other ids.
* writePump writes without a deadline. A peer that stays connected and does not read keeps it in
  its write after an eviction, and readPump with it, although `hub.go:104` says that the
  goroutine exits when send is closed. Therefore `EvictedTornDown` has a reading peer as its
  premise; `BroadcastProgress` has none.
* `relay.go:155` speaks of a sliding window of a second. The windows are fixed, one after the
  other, so a second across a seam lets up to 2 * 10 - 1 orders through (`RateBounded`), and never
  more.
* `relay.go:90` says that HandleSandbox blocks until the container stops or its context is
  cancelled. It needs both the end of the output and the end of its writer
  (`DetachedInTheEnd` has both as its premise).
* The context tick can repeat a tick, or come after a newer one. It is never missing
  (`ContextCurrent`) unless the channel was full.
* The engine ignores `--tick-ms` (`main.cpp:25`, and the fixed 500 of `main.cpp:61`), which
  `handlers.go:50` calls the adjustable tick rate: a POST that changes only tick_ms restarts
  the engine and changes nothing.
* History sorts by the second of the engine's clock before it sorts by id, so a clock that is
  set back reorders it; `HistoryIsNewest` says so.
* Limit orders are only ever added to the book, as the comment at `Simulation.cpp:77` says,
  while `readme.md:37` promises limit order matching; a tick can report a bid at or above the
  ask.
* `drainOrderQueue` has no bound: orders that arrive as fast as they are popped keep a tick
  from being emitted, although never a signal from being honoured (`SignalExits`).

### Fairness

* `EngineFairSpec`: the operating system schedules both threads, so a main thread that can
  take a step does, and the stdin thread gets back to its check. Nothing obliges anybody to
  send lines or signals, except under `Flood`, which is the assumption that stdin is always
  readable.
* `HubFairSpec`: Go schedules runnable goroutines: Run, which takes some case as long as one
  is ready, and each step of a pump that waits for nobody, are weakly fair. SendOrder returns
  (`CallsReturn`). A
  write needs the peer to make room, so `WriteOk` is not fair; `EvictedTornDown` makes
  its fairness a premise, for the one client it speaks of.
* `SMFairSpec`: monitors and calls of Kill go on, and Docker answers them. Spawn may take for
  ever, no request has to be made and no script has to end.
* `RunnerFairSpec`: goroutines run, and a goroutine that waits for `r.mu` gets it although
  others keep taking it: after a millisecond `sync.Mutex` hands the lock to its waiters in
  order. That is strong fairness for the sections that compete with senders for it. The
  engine honours a signal (`SignalExits`) and reads its stdin until there is one, and the
  kernel kills a process whose context is cancelled. The engine need not crash, and nobody
  has to send or post.
* `PipeFairSpec`: the fan-out goroutine runs and SQLite answers, if only with an error. Hub
  and relay owe nothing.
* `RelayFairSpec`: goroutines that can run do, and a scan ends when the output has. A container
  need not read, print or stop.

Assumed besides: the engine's lines are shorter than the scanner's 1 MB, and so are those of a
container's stderr (a longer one stops the goroutine that logs it, and with it StdCopy, and
HandleSandbox would not see the end of the output); an engine that is still alive when main
returns, before its context could kill it, ends when it next writes to its closed stdout.

## Proofs

Eight modules prove, for all values of the constants that satisfy the named assumptions
(positive prices and quantities, positive capacities, limits and windows, finitely many trader
ids, the makers' offset below the price floor, order lines whose fields are integers or not
numeric), that each of the following holds in every reachable state. Few of these properties are
inductive as the runs state them; what each proof adds is named.

* `PositionTrackerProofs`: `PTTypeOK`, `NetMatchesFills`, `EquityExact`, `AvgCostInRange`.
  The invariant says of each position that it *agrees* with its ledger: the net quantity is
  the ledger's, the cash identity `pnl - cost * net = den * cash` holds, and the average cost
  of an open position lies between two prices. The identity for every mark price follows
  from it and is not itself convenient for induction. One lemma for each kind of fill
  (extend, reduce, close or flip) is arithmetic only, and recordFill is their case split.
  `PTInv(P)` and the lemmas are about any set P of positive prices, so that they serve the
  tracker alone (P is `Prices`) and the tracker inside the engine (P is every positive price).
* `OrderBookProofs`: `OBTypeOK`, `LevelsConserved`, `PricePriority`, `SweepComplete`,
  `FillsAddUp`, `FillsMatchReference`, and that the loop terminates. The invariant adds that
  while the loop goes on every level that has traded is gone (`Exhausted`), so that each level
  trades once and the next best level comes right after all the better ones, that a side has
  finitely many levels (`FiniteBook`), and that nothing of a finished order is left over
  (`Rested`). `FillsAddUp` says that the trades add up to the filled part of the order: there
  is a running total over them that ends there, which needs no sum over a sequence.
  `FillsMatchReference` then follows in any single state. Trades go from better to worse
  levels, and all but the last take theirs whole, so what rests ahead of a level that traded
  is the running total before it, and what it is owed is what it traded; a level without a
  trade is untouched, so the order was used up by better ones and nothing is owed. The sums
  over sets of levels in the reference are a recursive function on subsets; that a sum
  loses exactly the term of the element removed, and grows with the set, is shown by taking a
  smallest set for which it fails. Termination is the variant argument: an iteration that goes
  on removes a level (`WalkDescends`). The lemmas about the calls are for any positive price
  and quantity, which the engine needs.
* `EngineProofs`: `AgentBookFresh`, by an invariant of its own: while the agents act, each side
  has at most the one level made from this tick's price, because `BeginTick` empties the book,
  market orders never add a level, and external orders come only later; so a maker never finds
  the book wider than its own quotes. `EngineTypeOK`, `MarketOrderAnswered`,
  `RejectOnlyIfEmpty`, and the properties of book and tracker inside the engine
  (`EngineBookCorrect`, `EngineAccountsExact`), by `EngineInv`: the invariants of the two
  components, addMarketOrder running only in the loops that call it (`Control`), and the
  answers so far being the first trades of the order in hand (`Reporting`). So what a trader
  is told is the allocation of `FillsMatchReference` (`TraderToldAllocation`). An order that is
  reported has traded or found nothing, by `SweepComplete`; its fills stay within its quantity, by `FillsAddUp`. Each step
  of the engine is a call of the book, a call of the tracker, or neither, and the components'
  lemmas say what that keeps. `EngineUsesBookInTurn` lists the calls: none of them comes while
  a market order is under way, and none has a price or quantity that is not positive. It is
  not a refinement of `OBSpec` only because a maker's two limit orders are one step and the
  quantities of `OBNext` are bounded.
* `HubProofs`: `HubTypeOK`, `HubNeverPanics`, `GapFree`. The first two rest on a registered
  client having an open channel, and a client that has not been served yet being neither
  registered nor closed (`Membership`), and on a writer in its write holding a message: a
  client leaves the set in the same step that closes its channel, and never comes back.
  `GapFree` rests on `h.broadcast` holding the numbers that follow the last one fanned out
  (`BroadcastNext`), and on a client that is about to be registered having nothing queued.
  Two more theorems say what the violation of `hub_panic` cannot do: a client that has been
  closed is never registered again (`EvictedForGood`), and only such clients panic, on their
  way through the deferred calls (`PanicIsContained`).
* `SandboxManagerProofs`: `SMTypeOK`, `LiveCap`, `LiveSupported`, `StoppedClean`,
  `ShutdownStops`. The cap is proved through slots: a container that nobody has asked to stop belongs to an entry that
  Spawn counts, and nothing marks an entry stopped or failed before its context has been
  cancelled. Cleanup is proved, for the ids whose disk calls succeed, through what is still due:
  a script on disk is noted in its entry or just about to be, and while a stopped sandbox has
  one, its Spawn is still under way and will change the status, or a Kill or a
  monitor is about to remove the script. `KillAllStopsPublished` (`ShutdownStops`) is what
  remains true of the comment that `sandbox_exit` refutes: a sandbox published before the
  signal, whose container Docker can stop, does not outlive the server, since until KillAll is
  through it is in its snapshot, or has its Stop before it, or is not running (`Reached`). `StoppedStays` says
  how a status may change: stopped is final once Spawn is over, and before that only an
  overtaken Spawn, under a cancelled context, shows the sandbox as running again.
* `RunnerProofs`: `RunnerTypeOK`, `LinesWhole`, `RunningConfig`. The loop and its process go
  through their states together (`LoopAndEngine`); `r.mu` is held exactly while a line is
  written, and only while the pipe is published (`LockHeld`), so a line begun for one process
  is never continued in the next one's pipe; the pieces the engine has not put
  together follow each other, and only the last line may be unfinished, by the holder of the
  lock (`Lines`). What sets `r.args` after run has copied it leaves a mark until the next copy:
  a POST on its way to Restart, a signal, or a refusal (`ArgsMarked`). The same invariant gives
  `OneEngineAtATime`: a launch finds no process, no published pipe and no writer.
* `EventPipelineProofs`: `PipeTypeOK`, and `SinksInOrder`, the refinement of `LossyFifo` by
  each of hub, relay and store. The invariant says that the numbers of the events found on the
  way to a sink rise: from what it has got, through its own channel, the event in the hands of
  the fan-out as long as this sink has yet to be offered it, and eventChan, up to what has been
  printed. So whatever a sink takes next has a higher number, which is a Deliver step; drops,
  failed inserts and restarts only remove numbers from the way, and stutter.
  Also `RowsBounded` and `HistoryIsNewest`, the store's part: the table is a run of the ticks
  ever stored, up to the newest, that a trim has never left shorter than `Keep`, and no longer
  than that once a trim has succeeded since the last insert (`TableInv`). So a request, which
  asks for at most `Keep` rows, never misses one. That the answer is in the order of storage
  is shown in two steps: a sorted list of a finite set of rows exists, and when the stamps do
  not fall, the position of a row in it is a strictly increasing map of an interval into
  itself, which is the identity. Where this calls for induction, the proof takes a least
  counterexample, which exists because a non-empty set of naturals has a least member.
* `RelayProofs`: `RelayTypeOK`, `RoutedInOrder`, `ContextCurrent`, `RateBounded`, and the action
  property `RefusalEarned`. Routing: the numbers between fanOut and a container rise, and an
  event whose channel has been looked up but not yet sent to is newer than all of them
  (`RouteOK`). Context: between registration and the scan loop a sandbox has read the newest
  tick or has been offered it since (`ContextOK`). Rate limiter (`LimiterOK`): the first of the
  orders counted in the current window was forwarded at its very start, and the order
  `Limit` places before it came more than a window's length earlier, because the limiter
  starts a window only when the previous one is over. Any `2 * Limit` orders in a row then
  span more than a window, and a refused order has `Limit` others within one.

Only model-checked:

* liveness (`SignalExits`, `OrderServed`, `BroadcastProgress`, `LostPeerCleanedUp`, `EvictedTornDown`,
  `DeadNoticed`, `CallsReturn`, `LoopServes`, `EventsHandled`, `DetachedInTheEnd`), which is
  beyond this prover, as is `ENABLED`;
* the three runs that end in a counterexample.

Conversely, the theorems without a property in `PROJECT.json` (`WalkTerminates`,
`AvgCostIsAverage`, `RejectedOnlyIfEmpty`, `TraderToldAllocation`, `EngineUsesBookInTurn`,
`EvictedForGood`, `PanicIsContained`, `StoppedStays`, `OneEngineAtATime` and a few more) have no
run: they follow from inductive invariants and hold for every instance.

## Not modelled

Rounding of doubles, order ids, JSON text, log lines and HTTP status codes; the depth lists
of a tick, which are prefixes of the book; random distributions, which become free choices;
the read-only routes; the sandbox image and its SDK, which hold no logic; the web page under
`server/static`; the generated files under `build/`. The text of an order between readPump or
the relay and `Protocol` is left out: the lines `Engine` reads are any the extractors can find.
The detached stdin thread of the engine still refers to `orderQueue` when main returns; what
happens then is undefined, and the model stops both threads instead.

## Plan

Everything in the inventory is modelled, every invariant of a passing run is proved, and so
are the refinement and the action properties. What could still be added:

1. The rounding of doubles in PositionTracker, with a bound on the drift of equity.
2. Engine and Runner composed, with the engine's real exit in the place of the fairness
   assumption that it honours a signal.
