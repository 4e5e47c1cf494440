# A TLA+ model of the live trading process

The process trades binary markets: it follows order books over WebSockets,
quotes through REST, keeps positions from a user channel, and moves from one
five-minute market to the next. It is a set of pinned threads, each the only
writer of its own state, joined by bounded single-producer queues. What can go
wrong lies between the threads: messages repeated, reordered or lost, answers
that come after a timeout, full queues, and threads that wait for one another.
The modules here model those parts from the source under `src/src/`, check them
with TLC on small instances and prove the central invariants with TLAPS for all
values of the constants.

## The system

| Thread | Part | State it owns | Talks to |
|---|---|---|---|
| T0 | market WebSocket client, `MarketStateStore`, order books | books | deltas to T2 (drops when full) |
| T1 | user WebSocket client, `ExecStateStore` | orders, trades, counted fills, positions | `user_queue` to T2 (spins, then fatal) |
| T2 | `StrategyScheduler`, strategy, risk gate, planner, `WorkingOrderTracker`, sinks | shadow books, tracker, mode, sessions | `strategy_to_exec_queue` to T3 (an intent that does not fit is lost) |
| T3 | `ExecutionGateway`, rate limiter, heartbeat, REST transports | requests in flight, SELL reservations | feedback to T2 (critical kinds spin, others drop) |
| T6 | UI bridge, watcher | latest values for display | control events to T2 |
| T7 | main thread: rotation coordinator or slot manager, then the shutdown cascade | current and next market, slots | an atomic phase, or a slot queue, to T2 |
| -- | shutdown thread | -- | stops the threads that feed others |
| -- | inventory service, RTDS and Binance feeds, recorder, logger | their own | queues |

What each part does that changes state:

- *ExecStateStore*: apply an order update, apply a trade update, sweep and
  evict, record and reverse a fill. Hard cases: several connections deliver
  everything more than once and in any order; the memory of counted fills ages.
- *WorkingOrderTracker*: intent sent, exec feedback, user update, collection of
  stale pending orders, clear. Hard cases: feedback lost, a user update that
  overtakes the acceptance, a late placement.
- *ExecutionGateway*: place, cancel, cancel all, their responses and timeouts,
  batches, heartbeat, SELL reservations. Hard cases: ambiguous answers, 429,
  425, 503, authentication failures, duplicate answers of redundant connections.
- *StrategyScheduler*: drain the queues by priority, run the strategy, control
  commands, sessions, the latency probe, the pause of a rotation. Hard cases: a
  stop in the middle of a session, the end of a session at a market boundary.
- *Rotation coordinator*: discover, pause T2, stop and start T0 and T1, swap
  markets, resume T2, end. *Shutdown*: two threads stop the same components.
- *Slot manager*: discover, promote, demote, redeem, announce over a queue.
- *Transports*: connect, submit, answer, time out, GOAWAY, reconnect; a callback
  may send again from inside the handler that fails its request.
- *WebSocket clients*: connect, subscribe, ping, notice silence, reconnect.
- *Books*: apply a snapshot or a batch of changes, send it on in pieces, copy it.
- *Inventory service*: split, merge and redeem on chain, poll, update inventory.
- *UI bridge and watcher*: one client at a time over handlers that share members;
  markets found, shown and rolled over between two threads.

`PROJECT.json` lists every part with its status, and the hazards of the code at
the lines where they bite, with the properties that cover them.

## Modules

| Module | Models | Source |
|---|---|---|
| `ExecStateStore` | T1's store, with the exchange and the user channel as environment | `state/exec_state_store.cpp`, `common/token_inventory.h` |
| `WorkingOrderTracker` | T2's table of sent orders, as operators on its state | `scheduler/working_order_tracker.cpp` |
| `OrderFlow` | T2, T3, T1, the queues, the network and the exchange around the tracker | `scheduler/strategy_scheduler.cpp`, `exec/execution_gateway.cpp`, sinks |
| `Rotation` | T7, T2, T0/T1, T3 and the shutdown thread: handshake, rotation, end of the process | `rotation/rotation_coordinator.cpp`, `main.cpp`, `scheduler/strategy_scheduler.cpp` |
| `Slots`, `Sessions` | T7's market slots and T2's map of them; T2's modes, sessions, stops and probe on top | `slot/*`, `scheduler/strategy_scheduler.cpp`, `scheduler/trading_session.h`, `scheduler/dry_run_simulator.cpp` |
| `GatewayOrders` | T3: batches and SELL reservations | `exec/execution_gateway.cpp`, `exec/inventory_safety.h` |
| `GatewayHealth` | T3: heartbeats, dead man's switch, degradation, T2's emergency stop | `exec/execution_gateway.cpp`, `exec/heartbeat_manager.cpp` |
| `RateLimiter` | T3: sliding windows and back-off | `exec/rate_limiter.cpp` |
| `RestTransport` | what the gateway relies on (abstract) | `rest/rest_transport.h` |
| `Http2Client`, `RestClient` | the two transports | `rest/http2_client.cpp`, `rest/rest_client.cpp` |
| `WsClients` | the market, user, RTDS and Binance clients | `ws/*`, `rtds/*`, `binance/*` |
| `MarketBooks` | T0's book, the delta queue, T2's copy | `book/order_book.cpp`, `state/market_state_store.cpp`, `scheduler/strategy_book_store.cpp` |
| `InventoryService` | on-chain operations, with fills, the poller and the strategy that drives them | `inventory/*`, `scheduler/inventory_test_strategy.cpp` |
| `TestStrategy` | the three-phase test strategy | `scheduler/test_strategy.cpp` |
| `UiBridge`, `Watcher` | T6's server, the series watcher | `ui_bridge/*` |
| `ExecStateStore_steps`, `ExecStateStore_proofs`, `ExecStateStoreOrders_proofs`, `Rotation_proofs`, `Sessions_proofs`, `Slots_proofs`, `GatewayHealth_proofs`, `MarketBooks_proofs` | inductive invariants, lemmas and theorems | |
| `MCExecStateStore`, `MCExecScenarios`, `MCOrderFlow`, `MCRotation`, `MCSessions`, `MCComponents` | constants and compositions for TLC | |

### ExecStateStore

`orders`, `trades`, `seen` and `next_sweep` are the maps of the store and its
sweep deadline; `positions`, `inventory` and `usdc` are what a fill moves;
`user_queue` holds, per event for T2, the set of fills the event calls new.
`DeliverOrder` and `DeliverTrade` are whole handlers: the sweep that opens them
(three evictions; ties in hash order are a choice), the early returns, the
update, `record_fill` or `reverse_fill`, and the push to T2. The four disjuncts
of `apply_trade_update` are the branches of the code: duplicate, MATCHED
overtaken by a later stage, forward move, new trade. The environment keeps every
message deliverable, any number of times, until it is `MaxDelay` old. `recorded`,
`reversed`, `ledger` and `t2_fills` are history variables: they count what was
done and feed no guard.

Left out: the PnL tracker, logging, the journal, the bootstrap of positions
(whose two stores agree at start, so that 0 stands for both). Sizes and prices
are small integers; `Cash` keeps the integer division of the code.

### WorkingOrderTracker and OrderFlow

An order is named by its client id and its exchange id by the same value, `NoId`
standing for an id nobody has told. Slots are searched in the order of the code.
`T2TakesFeedback` includes the emergency stop on `EXCHANGE_UNAVAILABLE`: cancels
for what is tracked, a CANCEL_ALL, DRY_RUN. The answer of T3's own rate limiter
is an open choice, so is every answer of the exchange; a request T3 has given up
on stays in the network and may be served later. `Publish` drops or spins by the
kind of the feedback. T2 sends a cancel also for an order without an exchange id,
which T3 refuses unsent as ORDER_REJECTED, and an acceptance may come without an
order id (`NOID`), which T3 reports the same way; in both cases T2 drops an order
that may be open. `disowned` is a history variable: the orders dropped like this,
and those that SET_MODE LIVE clears. The exchange and the network are environment, modelled
from the responses the gateway tells apart.

Left out here: batched placements (off by default) and SELL reservations, which
are `GatewayOrders`; heartbeats, which are `GatewayHealth`; partial sizes.

### Rotation

The phase is the atomic of `rotation_coordinator.h`. T7 goes through the phases
of `run`, the ten steps of `execute_rotation` and the cascade of `main`; each
callback that stops or starts a thread is one step, under `std::call_once` for a
stop. Assigning to, or destroying, a joinable `std::thread` is `std::terminate`.
Markets are reduced to whether a next one is known; queues to their lengths; when
a window comes near its end is open, which includes every timing of the code.
The delayed redeem and the other threads of the cascade are left out.

T7 writes the unlocked maps that T2 reads at three places: step 5 of
`execute_rotation`, where T2 is paused, and at boot (330-351) and in the main loop
(453), where it is not. The last two are `T7Registers`. Comments call the writes
safe because T2 is paused (rotation_coordinator.cpp:165) or has not started
(pnl_tracker.h:74); for `T7Registers` neither is so, T2 is in its loop, and no
property is claimed. Whether T2 looks up at that instant is up to its queues.

### Slots and Sessions

`Slots` has T7's loop: discovery, which may fail, the early subscription to the
next market, the rotation at the end of a window, and the events pushed to T2,
which are dropped when the queue is full. T2's side is its map, an operator per
method. `Sessions` EXTENDS it with T2's handlers: each command and each slot event
is one action with all it does, the sweep of a session's end, the mode filter
and the simulator included. Two history variables feed no guard: `armed`, whether
the operator has asked for LIVE trading since the last stop, and `dropped`, the
markets that a slot event lost on a full queue was about.

The redemption of previous markets is left out: it waits for `resolved_5m_` or
`resolved_15m_`, and nothing under `src/` sets them.

### The gateway: GatewayOrders, GatewayHealth, RateLimiter

Each is a record and an operator per method of the code, so that a handler is
their composition in the code's order. `GatewayOrders` counts the terminal
feedback of every intent; `GatewayHealth` keeps from the limiter only whether it
backs off, and has T2's answer to a 503; `RateLimiter` has the windows, in ticks,
with the arithmetic of `slide`. A GATEWAY_DEGRADED message is not critical and is
dropped when the feedback queue is full, though T3 remembers having sent it: what
`EdgesPublished` says of the edges it does not say of what T2 knows.

### RestTransport, Http2Client, RestClient

`RestTransport` promises that a request's callback is called once at most, and that
a request is open until then. The two clients are
handlers on a record; asynchronous operations that have not completed are part
of it, and destroying a stream completes its operations with an error. A
callback may call `async_send` again, as the emergency cancel-all does. The
refinement mapping (`H2Status`, `RcStatus`) calls a request open while the client
holds it or has been shut down; a request that is forgotten or answered twice has
a status that `RestTransport` has no step to. Whose response a callback is given
is not part of the mapping, it is `AnswersMatch`, which `RestClient` violates:
`rc_do_read` has the `buffer.clear()` that throws away responses already read.

`Http2Client` has a state the process does not survive. A GOAWAY that comes when no
stream is open makes the frame callback free the session which nghttp2 is still
working on; the outcome is undefined, and the model lets the connection either be
set up again or stop for good (`fault`). `TransportsImplement` claims nothing after
`fault`: the requests pending then stay open.

### WsClients, UiBridge, Watcher

All three are asio handlers: outstanding operations, completions in the order asio
allows, and members that handlers of an older connection share with the newer
one. `WsClients` has one definition per method for the four clients and the
differences between them as conditions. `Watcher` is the traffic between T6 and
the watcher's own thread; a market has two tokens with a book each.

`UiBridge` has a state the process does not survive, too. A read and a write of one
session that both fail each start an accept (`doubled`). When two clients then
connect, the second takes `ws_` from the first, and the end of the first leaves
`ws_` null for the handlers of the second, which dereference it (ipc_bridge.cpp
406, 419): `fault`. `NeverDeaf` says that this takes two accepts at a time, and
claims nothing after it.

### MarketBooks

The ladders are functions from prices to sizes and `bbo` is the cached best. A
batch of changes goes through `touches_best`, as in the code, before the best is
computed again. `pushing` is what T0 has still to push of an event; `lost` and
`whole` are history variables.

### InventoryService and TestStrategy

In `InventoryService` every call to the relayer or to a node may fail, before or
after it had its effect; `chain` is what is really held. `given_up` and `skipped`
count the pairs of tokens that moved on chain without being booked: transactions
the service stopped following, which the chain may execute at any later time, and
every split or merge asked for from the UI, since T2 builds its request without the
token ids (strategy_scheduler.cpp 640-646) and a confirmed request without them is
not booked (inventory_service.cpp 602-607). In `TestStrategy` each
handler of a phase is an operator, and answers and feed messages come in any
order or not at all.

## What is checked

| Run | Shows |
|---|---|
| `exec` | `TypeOK`, `NoDoubleCount`, `BooksBalance`, `FillsReachT2`, `LiveOrdersEvictedLast`, `TerminalStaysTerminal`: two scenarios of the store, crowded maps with the clock stopped, and the later stages with the clock, the sweep and ttl eviction |
| `order_cover` | `NoLostOrder`, `IdsCorrelateRight`: two orders, queues of one entry, timeouts, ambiguous and late placements, orders without an id, SET_MODE LIVE |
| `order_phantoms` | `TypeOK`, `PhantomsEnd` (liveness): one order, refusals, 503, timed-out cancels, operator commands |
| `components` | `ComponentsTypeOK` and, one or more for each of eleven components: `NeverDeaf` (UI bridge), `LadderIsTheMarkets` (watcher), `NeverDark` (WebSocket clients), `BboIsBest`, `ShadowFollows` (books), `GrantsBounded` (limiter), `ReservationsReturn`, `OneSweepPerStreak` (gateway), `InventoryFollowsChain`, `TransportsImplement` (refinement, both transports), `SlotsAgree`, `QuotedIsSubscribed`, `StopSticks`, `SessionEndsInTime` (slots and sessions: both timeframes, a slot queue that overflows, sessions with and without an end, every command of the operator) |
| `rotation` | `TypeOK`, `T2QuietWhileRewriting`, `PhaseGoesRound`, `ResumesOnLiveFeeds`, `PauseEnds`, `ShutdownEnds` (the last two liveness) |

Seven runs end in a violation and show where the code and what is written about
it disagree:

- `exec_failed`: FAILED overtakes MATCHED. The late MATCHED is counted although
  the comment limits the exception to MINED and CONFIRMED, and it is never
  reversed.
- `order_rejected`: "Order was definitively not placed" is the reason given for
  removing an order on RATE_LIMITED, but a rate-limited *cancel* comes with the
  same feedback kind and client id, and the live order drops out of the tracker.
- `rotation_shutdown`: "Producers stop before consumers". The stop of T0 is
  under a `once_flag`; in the trace an exception in T2 wakes the shutdown thread
  between discovery and the first start of T0, so the flag is used up before T0
  exists, and the cascade joins T2 while T0 runs. After one complete rotation
  every shutdown has this order, and a second rotation terminates the process.
- `slot_map`: "Max 12 entries: 6 slots x 2 tokens each". Entries leave T2's map
  only with SLOT_REMOVED, which is never sent, since nothing sets the flags that
  a redemption waits for. After six markets the map is full, `add` returns
  without a word, and no later market is quoted.
- `exchange_down`: "Exchange unavailable mode: only allow cancels and
  heartbeats". The 503 that starts this mode also starts a back-off, which is
  tested first and refuses everything, so the CANCEL_ALL of the emergency stop
  that T2 makes on this very 503 is refused and forgotten while it lasts.
- `rest_pipeline`: "Request queue and in-flight tracking for HTTP pipelining".
  `do_read` clears the buffer before each read. When a read has brought two
  responses, the second is lost, and the callback of its request is given the
  response to the request after it.
- `test_strategy`: "At least one side rejected - cancel whatever was accepted and
  move on". The first rejection of the pair acts on both orders; the other one has
  no exchange id before its acceptance, T3 refuses its cancel unsent, and the
  strategy moves on from an order that is on the book. (An order that is known to be
  on the book and followed by nobody is what the strategy must not leave: a partial
  fill excepted, which it takes for a complete one.)

What the passing properties do not claim, where the code falls short of a stronger
one:

- `SessionEndsInTime` is about the timeframes a session has entered. A session that
  goes LIVE at a 5M boundary also trades the 15M market that is running, whose end
  nobody compares with the session's (strategy_scheduler.cpp 717-745).
- `SlotsAgree` leaves out the markets that a dropped event was about, which nothing
  repairs, and claims that T2 has a market only as long as its map is not full.
- `ResumesOnLiveFeeds` is about the feeds being started, not about what the books
  hold by then.
- `GrantsBounded` bounds every stretch that is one bucket shorter than the window.
  Over the full 10 s of the configured limits `slide` can grant more.
- `NeverDark` is about a connection that nobody retries; it does not rule out one
  that is retried twice.
- `LadderIsTheMarkets` lets a market stay on show until the next result when it had
  not connected as T6 took the result for a newer one; and a ladder
  has a snapshot of one of its two tokens at least, not of both.

### Bounds

- `exec` has two scenarios with two trades each. In one the clock stands still, and
  fills on both books, an order nobody registered and a full map meet in one
  behaviour; in the other the clock runs over the ttl and the second order is
  absent, since age and repetition concern a trade alone. RETRYING, which counts and
  reverses nothing, is only in `exec_failed`. Messages live shorter than the ttl, as
  minutes of ttl against seconds of delay in the defaults (`TtlAssumption`).
- `order_cover` takes queues of one entry, so that every push can fail. Orders that
  T3 reports as not placed wrongly, and those that SET_MODE LIVE clears, are
  disowned, and `NoLostOrder` excludes them by name; `order_rejected` is about them.
  Beyond that the run is restricted: cancels that are sent are served, placements
  are accepted, with or without an id, or time out, there are no fills and no 503,
  one cancel connection, and `Prompt` says that everything about an order settles
  within the 30 s of the collection. The quotes of the two orders differ: with equal
  quotes the fallback of the code may exchange them, and this is not covered. Steps
  after the fatal flag, or after every order is disowned, are not followed.
- `order_phantoms` has one order: the property concerns each order alone.
- `rotation` uses queues of two entries: empty, partly filled and full.
- `slot_map` has T7 and the map alone, over seven windows of one timeframe.
- `rest_pipeline` has three requests on a pipeline of two; `test_strategy` at most
  two messages in the queue to the strategy.
- `components` runs one of eleven components that share no variable in each
  behaviour, so its states are the sum of theirs; the view keeps the variables
  of the one that runs. Queues and caches hold one to three entries, so that
  they are empty, in use and full. The transports have five requests against a
  pipeline or a set of streams of two, and four connections (`MaxRequests` and
  `RcRequests` are equal, since they share one mapping). Each WebSocket client
  has one connection, which is the default of the code's structs; config/default.json
  ships 20 of the market and of the user client. With two of the market client the
  run would be several times larger. Books have two prices and sizes up to two, and a
  message to T2 holds one level, so that snapshots go in pieces and a batch can
  empty and refill the best level. Three order intents make a full batch and a
  second request. Heartbeat failures are counted to two. The limiter meets one
  answer other than success: for `GrantsBounded` a back-off only matters by
  shifting when requests are granted, which the clock does as well. Slots have
  windows of one and three units of time, so that the timeframes rotate together
  and apart, over four units, and sessions without an end or with one at the last of
  them. The slot queue holds four events, fewer than T7 can push before T2 takes
  one. The map has its real capacity of six markets. Commands that do not concern
  slots, and the probe, come before T7's first pass; later they would only multiply
  the states.

The process may stop in all of them (messages, time, requests or connections run
out, orders are all sent, `main` returns), so deadlock is not checked.

### Fairness

`OrderFlow` assumes that T2 keeps taking feedback and updates and running its
periodic collection, that time passes, and that the user channel tells the final
state of an order sooner or later; nothing about answers, fills or the operator.
`Rotation` assumes that T7, T2's handshake and stop, T3's stop and the shutdown
thread go on: their waits are spins, bounded sleeps and joins. Neither a signal,
an exception, nor the traffic of T1 and T3 is assumed. The other modules assume
none.

## What is proved

`ExecStateStore_steps` (the invariant, the sweep, the steps of the environment and
the order handler), `ExecStateStore_proofs` (the trade handler and the theorems)
and `ExecStateStoreOrders_proofs`, from the named assumptions of `ExecStateStore` (finite
sets of ids, positive bounds, ttl longer than the delay of a message, caps of the
trade maps not reached):

- `TypeCorrect`: `Spec => []TypeOK`.
- `CountedOnce`: `Spec => []NoDoubleCount`. The invariant is not inductive: the
  strengthening says that a counted fill stays in `seen` as long as a MATCHED of
  it can still arrive, and relates the stored status to what was reversed.
- `TerminalOrdersStay`: `Spec => TerminalStaysTerminal`.

`Rotation_proofs`, for queues of any capacity:

- `TypeCorrect`: `Spec => []TypeOK`.
- `QuietRotation`: `Spec => []T2QuietWhileRewriting`, for steps 5 to 9 of
  `execute_rotation`; T7's registrations outside them are not covered. The
  strengthening ties T2's place and T7's place to the phase (`T2Inv`, `T7Inv`).
- `TakingTurns`: `Spec => PhaseGoesRound`.
- `LiveFeeds`: `Spec => ResumesOnLiveFeeds`, with `FeedInv`, which says which
  feeds are up at each place of T7 unless the process is ending.

`Sessions_proofs`, for any timeframes, queues, end times and commands:

- `SessionStopSticks`: `SessionSpec => []StopSticks`, inductive together with the
  type of `armed` (`SessionInv`).

`Slots_proofs`, for any timeframes, window lengths, capacities and delays:

- `QuotesSubscribed`: `SessionSpec => []QuotedIsSubscribed`. The property is about
  T2's map alone and is not inductive. `SlotInv` follows a market from the poll that
  subscribes to it to T2: in T7's slots the window of the next market begins where
  that of the current one ends (`Following`), so a next market has been found and
  subscribed to by the poll at which it becomes current; every event in the slot
  queue names a market that has been (`Announced`), and so does every entry of the
  map (`Known`), whichever events are lost on the way.

`GatewayHealth_proofs`, for any thresholds:

- `HealthOneSweep`: `HealthSpec => []OneSweepPerStreak`. The strengthening ties the
  latch to the count of failures (`Latched`).
- `HealthEdges`: `HealthSpec => []EdgesPublished`. After every handler the last edge
  that a message was published for agrees with the limiter, the exchange and the
  heartbeats, so that no edge is passed over. Whether T2 gets the message is another
  matter.

`MarketBooks_proofs`, for any price range, finite set of changes, length of a
batch and capacity of the queue:

- `BooksBboIsBest`: `BooksSpec => []BboIsBest`. The best level of a ladder is
  characterised without `Max` and `Min` (`BestBidIs`, `BestAskIs`, from
  `NatHasMin` and `NatHasMax`); `BatchKeepsBest` shows that a batch which does not
  touch the best before it leaves the best as it was; the invariant adds that
  what is on the queue and still to be pushed are changes, so that T2's copy,
  torn or incomplete as it may be, is a book with the right best.

Only model-checked: liveness (`PhantomsEnd`, `PauseEnds`, `ShutdownEnds`), which is out of the prover's reach; `BooksBalance`, `GrantsBounded`
and `ReservationsReturn`, sums over sets, and `ShadowFollows`, a fold, which need
induction over data; `FillsReachT2`, `LiveOrdersEvictedLast`, `NoLostOrder`,
`IdsCorrelateRight`, `SlotsAgree`, `SessionEndsInTime`, `NeverDeaf`,
`LadderIsTheMarkets`, `NeverDark`, `InventoryFollowsChain` and the refinement
`TransportsImplement`, which no proof covers.

## Not modelled

- What to quote: the quoter, the quote planner and the risk gate compute prices
  and sizes on T2 alone. They are an open choice of intents in `OrderFlow` and
  `Sessions`.
- Building transactions, hashes and signatures: byte encodings, out of TLC's
  reach.
- Parsers, the UI's serialisation and its command parser: text. What they refuse
  is not among the messages of the models.
- Recorder, journal, logger, metrics: output that is dropped when its queue is
  full and that nothing reads back.
- Discovery, configuration, accounts and the bootstrap of positions: blocking
  input at start. Discovery's answer is an open choice in `Rotation`, `Slots`
  and `Watcher`.
- The lock-free ring behind the queues is a library outside the source, modelled
  by what it promises. That T7 and T2 both push to the inventory queue, which is
  made for one producer, is below this level.
- The gateway's parts are not composed with the order flow, nor the transports
  with the gateway: `OrderFlow` leaves open what the limiter and the network
  answer, which includes what the detailed modules do.
- Several connections of one WebSocket client are in `WsClients` but not in a run.
