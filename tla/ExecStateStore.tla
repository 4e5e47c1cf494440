--------------------------- MODULE ExecStateStore ---------------------------
(***************************************************************************)
(* The order/trade lifecycle store of thread T1 (state/exec_state_store).  *)
(* It receives the user channel of the exchange, remembers orders, trades  *)
(* and the trades whose fill it has counted, keeps positions, the token    *)
(* inventory and the USDC balance, and announces every applied update to   *)
(* the scheduler T2 over user_queue.                                       *)
(*                                                                         *)
(* The environment is the exchange and the redundant WebSocket             *)
(* connections: a message may be delivered late, out of order, several     *)
(* times or never, but not more than MaxDelay after it was sent.           *)
(***************************************************************************)
EXTENDS Integers, Sequences, FiniteSets, FiniteSetsExt

CONSTANTS
    OrderIds, TradeIds, Assets,
    Orders,         \* order |-> [asset, side, size], as this process sent it
    Trades,         \* trade |-> [order, role, book, side, price, size, amount]
    OurOrders,      \* the orders T3 registered (register_our_order)
    PriceScale,     \* kPriceScale: the price of a certain outcome
    QueueCap,       \* capacity of user_queue
    MaxOrders, MaxTrades, MaxSeen,      \* caps of the three maps, 0 = unlimited
    OrderTtl, TradeTtl, SeenTtl,        \* ages at which entries are evicted
    SweepInterval,
    Stages,         \* the stages the exchange takes trades through
    MaxDelay,       \* a message is delivered at most this long after it is sent
    MaxTime         \* bound on the clock

Side == {"BID", "ASK"}
OrderStatus == {"NONE", "LIVE", "PARTIAL", "FILLED", "CANCELED"}
TradeStatus == {"NONE", "MATCHED", "RETRYING", "MINED", "CONFIRMED", "FAILED"}
OrderEvent == {"PLACEMENT", "UPDATE", "CANCELLATION"}
Fill == [asset : Assets, side : Side, price : Int, size : Nat]

ASSUME IdsAssumption == Assets # {} /\ IsFiniteSet(OrderIds) /\ IsFiniteSet(TradeIds)

ASSUME OrdersAssumption ==
    Orders \in [OrderIds -> [asset : Assets, side : Side, size : Nat]]

ASSUME TradesAssumption ==
    Trades \in [TradeIds -> [order : OrderIds, role : {"MAKER", "TAKER"},
                             book : Assets, side : Side, price : Nat,
                             size : Nat, amount : Nat]]

ASSUME StagesAssumption == Stages \subseteq TradeStatus \ {"NONE"}

ASSUME OurOrdersAssumption == OurOrders \subseteq OrderIds

ASSUME BoundsAssumption ==
    /\ PriceScale \in Nat \ {0}
    /\ {QueueCap, MaxOrders, MaxTrades, MaxSeen} \subseteq Nat
    /\ {OrderTtl, TradeTtl, SeenTtl, SweepInterval, MaxDelay, MaxTime} \subseteq Nat

\* Entries outlive the messages about them: 30 and 60 minutes in the defaults.
ASSUME TtlAssumption ==
    /\ OrderTtl = 0 \/ OrderTtl > MaxDelay
    /\ TradeTtl = 0 \/ TradeTtl > MaxDelay
    /\ SeenTtl = 0 \/ SeenTtl > MaxDelay

\* The maps of trades are not filled up: 50,000 and 100,000 in the defaults.
ASSUME TradeCapAssumption ==
    /\ MaxTrades = 0 \/ MaxTrades >= Cardinality(TradeIds)
    /\ MaxSeen = 0 \/ MaxSeen >= Cardinality(TradeIds)

VARIABLES
    orders,         \* orders_: what T1 remembers of each order
    trades,         \* trades_
    seen,           \* seen_trade_fills_: when the fill of a trade was counted
    next_sweep,     \* next_sweep_ts_
    positions,      \* positions_
    inventory,      \* TokenInventory: positions shared with T2 and T3
    usdc,           \* TokenInventory: USDC balance
    user_queue,     \* events for T2, each as the set of fills it calls new
    fatal,          \* the process-wide fatal flag
    now,            \* the steady clock
    exch_orders, exch_trades,   \* the exchange's own view
    order_wire, trade_wire,     \* user-channel messages that may be delivered
    recorded, reversed,         \* times record_fill and reverse_fill ran per trade
    ledger,         \* the fill record_fill last booked per trade
    t2_fills        \* new fills T2 has taken from user_queue per trade

store == <<orders, trades, seen, next_sweep>>
money == <<positions, inventory, usdc, recorded, reversed, ledger>>
toT2  == <<user_queue, fatal>>
world == <<exch_orders, exch_trades, order_wire, trade_wire, now>>
vars  == <<store, money, toT2, world, t2_fills>>

NotSeen == -1
NoFill  == [asset |-> CHOOSE a \in Assets : TRUE, side |-> "BID", price |-> 0, size |-> 0]
NoOrder == [status |-> "NONE", size_matched |-> 0, ts |-> 0]
NoTrade == [status |-> "NONE", fill |-> NoFill, ts |-> 0]

Init ==
    /\ orders = [o \in OrderIds |-> NoOrder]
    /\ trades = [t \in TradeIds |-> NoTrade]
    /\ seen = [t \in TradeIds |-> NotSeen]
    /\ next_sweep = 0
    /\ positions = [a \in Assets |-> [net |-> 0, bought |-> 0, sold |-> 0, count |-> 0]]
    /\ inventory = [a \in Assets |-> 0]
    /\ usdc = 0
    /\ user_queue = <<>>
    /\ fatal = FALSE
    /\ now = 1
    /\ exch_orders = [o \in OrderIds |-> [state |-> "NONE", matched |-> 0]]
    /\ exch_trades = [t \in TradeIds |-> "NONE"]
    /\ order_wire = {}
    /\ trade_wire = {}
    /\ recorded = [t \in TradeIds |-> 0]
    /\ reversed = [t \in TradeIds |-> 0]
    /\ ledger = [t \in TradeIds |-> NoFill]
    /\ t2_fills = [t \in TradeIds |-> 0]

-----------------------------------------------------------------------------
\* Statuses.

TerminalOrder(s) == s \in {"FILLED", "CANCELED"}
TerminalTrade(s) == s \in {"CONFIRMED", "FAILED"}

\* trade_status_rank: CONFIRMED and FAILED share the last rank.
Rank(s) == CASE s = "NONE" -> 0
             [] s = "MATCHED" -> 1
             [] s = "RETRYING" -> 2
             [] s = "MINED" -> 3
             [] s = "CONFIRMED" -> 4
             [] s = "FAILED" -> 4

-----------------------------------------------------------------------------
\* The sweep that opens both handlers.

KnownOrders == {o \in OrderIds : orders[o].status # "NONE"}
KnownTrades == {t \in TradeIds : trades[t].status # "NONE"}
SeenTrades  == {t \in TradeIds : seen[t] # NotSeen}

OverCap ==
    \/ MaxOrders > 0 /\ Cardinality(KnownOrders) > MaxOrders
    \/ MaxTrades > 0 /\ Cardinality(KnownTrades) > MaxTrades
    \/ MaxSeen > 0 /\ Cardinality(SeenTrades) > MaxSeen

SweepDue ==
    OverCap \/ (SweepInterval > 0 /\ (next_sweep = 0 \/ now >= next_sweep))

\* Mutant: the cap evicts by age alone.
VictimsByAge(kept, cap, done, ts) ==
    IF cap = 0 \/ Cardinality(kept) <= cap THEN {{}}
    ELSE {V \in kSubset(Cardinality(kept) - cap, kept) :
             \A v \in V, k \in kept \ V : ts[v] <= ts[k]}

\* The sets of entries a cap may evict from `kept`: as many as exceed it, the
\* ones in `done` first, older before newer. Ties fall in hash order.
Victims(kept, cap, done, ts) ==
    IF cap = 0 \/ Cardinality(kept) <= cap THEN {{}}
    ELSE {V \in kSubset(Cardinality(kept) - cap, kept) :
             \A v \in V, k \in kept \ V :
                \/ v \in done /\ k \notin done
                \/ (v \in done <=> k \in done) /\ ts[v] <= ts[k]}

Expired(ts, ttl) == ttl > 0 /\ now - ts >= ttl

evict_terminal_orders ==
    LET done == {o \in KnownOrders : TerminalOrder(orders[o].status)}
        old  == {o \in done : Expired(orders[o].ts, OrderTtl)}
    IN {[o \in OrderIds |-> IF o \in old \cup V THEN NoOrder ELSE orders[o]] :
        V \in Victims(KnownOrders \ old, MaxOrders, done, [o \in OrderIds |-> orders[o].ts])}

evict_terminal_trades ==
    LET done == {t \in KnownTrades : TerminalTrade(trades[t].status)}
        old  == {t \in done : Expired(trades[t].ts, TradeTtl)}
    IN {[t \in TradeIds |-> IF t \in old \cup V THEN NoTrade ELSE trades[t]] :
        V \in Victims(KnownTrades \ old, MaxTrades, done, [t \in TradeIds |-> trades[t].ts])}

evict_seen_trade_fills ==
    LET old == {t \in SeenTrades : Expired(seen[t], SeenTtl)}
    IN {[t \in TradeIds |-> IF t \in old \cup V THEN NotSeen ELSE seen[t]] :
        V \in Victims(SeenTrades \ old, MaxSeen, {}, seen)}

\* maybe_sweep opens both handlers: the maps they then work on are one of these.
SweptOrders == IF SweepDue THEN evict_terminal_orders ELSE {orders}
SweptTrades == IF SweepDue THEN evict_terminal_trades ELSE {trades}
SweptSeen   == IF SweepDue THEN evict_seen_trade_fills ELSE {seen}

maybe_sweep ==
    next_sweep' = IF SweepDue /\ SweepInterval > 0 THEN now + SweepInterval ELSE next_sweep

-----------------------------------------------------------------------------
\* Fills.

Signed(f, x) == IF f.side = "BID" THEN x ELSE -x

\* The cash a fill moves; a fill without a price moves none.
Cash(f) == IF f.price > 0 THEN (f.price * f.size) \div PriceScale ELSE 0

\* Subtraction that stops at zero.
Less(x, y) == IF x > y THEN x - y ELSE 0

Booked(pos, f) ==
    [net    |-> pos.net + Signed(f, f.size),
     bought |-> IF f.side = "BID" THEN pos.bought + f.size ELSE pos.bought,
     sold   |-> IF f.side = "ASK" THEN pos.sold + f.size ELSE pos.sold,
     count  |-> pos.count + 1]

Unbooked(pos, f) ==
    [net    |-> pos.net - Signed(f, f.size),
     bought |-> IF f.side = "BID" THEN Less(pos.bought, f.size) ELSE pos.bought,
     sold   |-> IF f.side = "ASK" THEN Less(pos.sold, f.size) ELSE pos.sold,
     count  |-> Less(pos.count, 1)]

record_fill(t, f) ==
    /\ positions' = [positions EXCEPT ![f.asset] = Booked(@, f)]
    /\ inventory' = [inventory EXCEPT ![f.asset] = @ + Signed(f, f.size)]
    /\ usdc' = usdc - Signed(f, Cash(f))
    /\ recorded' = [recorded EXCEPT ![t] = @ + 1]
    /\ ledger' = [ledger EXCEPT ![t] = f]
    /\ UNCHANGED reversed

\* Mutant: the reversal forgets the cash.
reverse_fill_tokens_only(t, f) ==
    /\ positions' = [positions EXCEPT ![f.asset] = Unbooked(@, f)]
    /\ inventory' = [inventory EXCEPT ![f.asset] = @ - Signed(f, f.size)]
    /\ reversed' = [reversed EXCEPT ![t] = @ + 1]
    /\ UNCHANGED <<usdc, recorded, ledger>>

reverse_fill(t, f) ==
    /\ positions' = [positions EXCEPT ![f.asset] = Unbooked(@, f)]
    /\ inventory' = [inventory EXCEPT ![f.asset] = @ - Signed(f, f.size)]
    /\ usdc' = usdc + Signed(f, Cash(f))
    /\ reversed' = [reversed EXCEPT ![t] = @ + 1]
    /\ UNCHANGED <<recorded, ledger>>

\* Mutant: try_push, whose failure nobody looks at.
EmitOrDrop(fills) ==
    /\ user_queue' = IF Len(user_queue) < QueueCap THEN Append(user_queue, fills) ELSE user_queue
    /\ UNCHANGED fatal

\* push_spin: T2 may pop while T1 spins, which is T2 popping before this step;
\* what is left is a queue that stays full, and that is fatal.
Emit(fills) ==
    IF Len(user_queue) < QueueCap
    THEN user_queue' = Append(user_queue, fills) /\ UNCHANGED fatal
    ELSE fatal' = TRUE /\ UNCHANGED user_queue

-----------------------------------------------------------------------------
\* apply_order_update.

\* Mutant: repeats are recognised, overtaken messages are not.
StaleIfRepeated(r, m, same) ==
    /\ r.status # "NONE"
    /\ ~same \/ (m.event = "UPDATE" /\ m.size_matched = r.size_matched)

\* The early returns: nothing but the sweep happens. `same` is false when the
\* asset or the side of the message is not the one on record.
StaleOrderUpdate(r, m, same) ==
    /\ r.status # "NONE"
    /\ \/ ~same
       \/ /\ TerminalOrder(r.status)
          /\ m.event = "PLACEMENT" \/ (m.event = "UPDATE" /\ m.size_matched <= r.size_matched)
       \/ m.event = "UPDATE" /\ m.size_matched = r.size_matched
       \/ m.size_matched < r.size_matched

\* Mutant: the event type is stored where the status belongs.
OrderStatusFromEvent(r, m) == IF m.event = "UPDATE" THEN "PARTIAL" ELSE m.event

NextOrderStatus(r, m) ==
    LET size == Orders[m.id].size
    IN CASE m.event = "CANCELLATION" -> "CANCELED"
         [] m.event = "UPDATE" /\ m.size_matched >= size /\ size > 0 -> "FILLED"
         [] m.event = "UPDATE" /\ m.size_matched > 0 /\ r.status \in {"NONE", "LIVE"} -> "PARTIAL"
         [] OTHER -> IF r.status = "NONE" THEN "LIVE" ELSE r.status

apply_order_update(m, same) ==
    \E os \in SweptOrders, ts \in SweptTrades, ss \in SweptSeen :
        /\ maybe_sweep
        /\ trades' = ts
        /\ seen' = ss
        /\ IF StaleOrderUpdate(os[m.id], m, same)
           THEN orders' = os /\ UNCHANGED toT2
           ELSE /\ orders' = [os EXCEPT ![m.id] = [status |-> NextOrderStatus(@, m),
                                                   size_matched |-> m.size_matched,
                                                   ts |-> now]]
                /\ Emit({})
        /\ UNCHANGED <<money, world, t2_fills>>

-----------------------------------------------------------------------------
\* apply_trade_update.

\* How much of the trade is this process's: its maker entry, or all of it as taker.
OurAmount(t) == IF Trades[t].role = "MAKER" THEN Trades[t].amount ELSE Trades[t].size

\* Whose fill it is. A remembered order gives its own asset and side, and a fill
\* reported on the complementary book has its price converted; an order known
\* only from the shared set leaves the message as it is; any other is worth 0.
Attributed(t, os) ==
    LET T == Trades[t]
        O == Orders[T.order]
    IN IF os[T.order].status # "NONE"
       THEN [asset |-> O.asset, side |-> O.side, size |-> OurAmount(t),
             price |-> IF O.asset = T.book THEN T.price ELSE PriceScale - T.price]
       ELSE [asset |-> T.book, side |-> T.side, price |-> T.price,
             size |-> IF T.order \in OurOrders THEN OurAmount(t) ELSE 0]

\* Repeated status, or an earlier stage that carries no uncounted fill.
DuplicateTrade(m, ts, ss) ==
    LET r == ts[m.id]
    IN /\ r.status # "NONE"
       /\ \/ m.status = r.status
          \/ /\ Rank(m.status) < Rank(r.status)
             /\ ~(m.status = "MATCHED" /\ ss[m.id] = NotSeen)
       /\ trades' = ts
       /\ seen' = ss
       /\ UNCHANGED <<money, toT2>>

\* Mutant: the overtaken MATCHED is counted without asking seen_trade_fills_.
LateMatchAlways(m, ts, ss) ==
    /\ m.status = "MATCHED"
    /\ Rank(m.status) < Rank(ts[m.id].status)
    /\ trades' = ts
    /\ seen' = [ss EXCEPT ![m.id] = now]
    /\ record_fill(m.id, ts[m.id].fill)
    /\ Emit({m.id})

\* MATCHED overtaken by a later stage: the fill counts, the status stays.
LateMatch(m, ts, ss) ==
    LET r == ts[m.id]
    IN /\ m.status = "MATCHED"
       /\ Rank(m.status) < Rank(r.status)
       /\ ss[m.id] = NotSeen
       /\ trades' = ts
       /\ seen' = [ss EXCEPT ![m.id] = now]
       /\ record_fill(m.id, r.fill)
       /\ Emit({m.id})

\* A record is never UNKNOWN (the parser refuses other statuses), so the branch of
\* the code that counts a MATCHED moving forward cannot be reached.
ForwardTrade(m, ts, ss) ==
    LET r == ts[m.id]
    IN /\ r.status # "NONE"
       /\ m.status # r.status
       /\ Rank(m.status) >= Rank(r.status)
       /\ trades' = [ts EXCEPT ![m.id].status = m.status, ![m.id].ts = now]
       /\ IF m.status = "FAILED" /\ ss[m.id] # NotSeen
          THEN reverse_fill(m.id, r.fill)
          ELSE UNCHANGED money
       /\ seen' = ss
       /\ Emit({})

NewTrade(m, os, ts, ss) ==
    LET f == Attributed(m.id, os)
        counts == m.status = "MATCHED" /\ f.size > 0 /\ ss[m.id] = NotSeen
    IN /\ ts[m.id].status = "NONE"
       /\ trades' = [ts EXCEPT ![m.id] = [status |-> m.status, fill |-> f, ts |-> now]]
       /\ IF counts
          THEN record_fill(m.id, f) /\ seen' = [ss EXCEPT ![m.id] = now] /\ Emit({m.id})
          ELSE seen' = ss /\ UNCHANGED money /\ Emit({})

apply_trade_update(m) ==
    \E os \in SweptOrders, ts \in SweptTrades, ss \in SweptSeen :
        /\ maybe_sweep
        /\ orders' = os
        /\ \/ DuplicateTrade(m, ts, ss)
           \/ LateMatch(m, ts, ss)
           \/ ForwardTrade(m, ts, ss)
           \/ NewTrade(m, os, ts, ss)
        /\ UNCHANGED <<world, t2_fills>>

-----------------------------------------------------------------------------
\* The exchange and the user channel.

PutOrder(o, event, matched) ==
    order_wire' = order_wire \cup
        {[id |-> o, event |-> event, size_matched |-> matched, sent |-> now]}

PutTrade(t, status) ==
    trade_wire' = trade_wire \cup {[id |-> t, status |-> status, sent |-> now]}

ExchangePlaces(o) ==
    /\ exch_orders[o].state = "NONE"
    /\ exch_orders' = [exch_orders EXCEPT ![o].state = "OPEN"]
    /\ PutOrder(o, "PLACEMENT", 0)
    /\ UNCHANGED <<store, money, toT2, t2_fills, exch_trades, trade_wire, now>>

ExchangeMatches(t) ==
    LET o == Trades[t].order
        matched == exch_orders[o].matched + OurAmount(t)
    IN /\ exch_trades[t] = "NONE"
       /\ exch_orders[o].state = "OPEN"
       /\ matched <= Orders[o].size
       /\ exch_orders' = [exch_orders EXCEPT ![o] =
              [state |-> IF matched = Orders[o].size THEN "DONE" ELSE "OPEN",
               matched |-> matched]]
       /\ exch_trades' = [exch_trades EXCEPT ![t] = "MATCHED"]
       /\ PutOrder(o, "UPDATE", matched)
       /\ PutTrade(t, "MATCHED")
       /\ UNCHANGED <<store, money, toT2, t2_fills, now>>

ExchangeCancels(o) ==
    /\ exch_orders[o].state = "OPEN"
    /\ exch_orders' = [exch_orders EXCEPT ![o].state = "DONE"]
    /\ PutOrder(o, "CANCELLATION", exch_orders[o].matched)
    /\ UNCHANGED <<store, money, toT2, t2_fills, exch_trades, trade_wire, now>>

\* A trade moves on through its stages and ends CONFIRMED or FAILED, never both.
ExchangeSettles(t, status) ==
    /\ exch_trades[t] # "NONE"
    /\ Rank(status) > Rank(exch_trades[t])
    /\ exch_trades' = [exch_trades EXCEPT ![t] = status]
    /\ PutTrade(t, status)
    /\ UNCHANGED <<store, money, toT2, t2_fills, exch_orders, order_wire, now>>

\* Delivery leaves the message where it is: another connection may bring it again.
DeliverOrder(m) == apply_order_update(m, TRUE)

DeliverMismatchedOrder(m) ==
    /\ orders[m.id].status # "NONE"
    /\ apply_order_update(m, FALSE)

DeliverTrade(m) == apply_trade_update(m)

\* Time passes and messages that are too old are gone.
Tick ==
    /\ now < MaxTime
    /\ now' = now + 1
    /\ order_wire' = {m \in order_wire : m.sent + MaxDelay > now}
    /\ trade_wire' = {m \in trade_wire : m.sent + MaxDelay > now}
    /\ UNCHANGED <<store, money, toT2, t2_fills, exch_orders, exch_trades>>

\* T2 takes the event at the head of user_queue.
SchedulerPops ==
    /\ user_queue # <<>>
    /\ user_queue' = Tail(user_queue)
    /\ t2_fills' = [t \in TradeIds |->
                      IF t \in Head(user_queue) THEN t2_fills[t] + 1 ELSE t2_fills[t]]
    /\ UNCHANGED <<store, money, fatal, world>>

Next ==
    \/ \E o \in OrderIds : ExchangePlaces(o) \/ ExchangeCancels(o)
    \/ \E t \in TradeIds : ExchangeMatches(t)
    \/ \E t \in TradeIds, s \in Stages : ExchangeSettles(t, s)
    \/ \E m \in order_wire : DeliverOrder(m) \/ DeliverMismatchedOrder(m)
    \/ \E m \in trade_wire : DeliverTrade(m)
    \/ Tick
    \/ SchedulerPops

Spec == Init /\ [][Next]_vars

-----------------------------------------------------------------------------
\* Properties.

StoreType ==
    /\ orders \in [OrderIds -> [status : OrderStatus, size_matched : Nat, ts : Nat]]
    /\ trades \in [TradeIds -> [status : TradeStatus, fill : Fill, ts : Nat]]
    /\ seen \in [TradeIds -> Nat \cup {NotSeen}]
    /\ next_sweep \in Nat

MoneyType ==
    /\ positions \in [Assets -> [net : Int, bought : Nat, sold : Nat, count : Nat]]
    /\ inventory \in [Assets -> Int]
    /\ usdc \in Int
    /\ recorded \in [TradeIds -> Nat]
    /\ reversed \in [TradeIds -> Nat]
    /\ ledger \in [TradeIds -> Fill]

QueueType ==
    /\ user_queue \in Seq(SUBSET TradeIds)
    /\ fatal \in BOOLEAN
    /\ t2_fills \in [TradeIds -> Nat]

WorldType ==
    /\ now \in Nat
    /\ exch_orders \in [OrderIds -> [state : {"NONE", "OPEN", "DONE"}, matched : Nat]]
    /\ exch_trades \in [TradeIds -> TradeStatus]
    /\ order_wire \subseteq [id : OrderIds, event : OrderEvent, size_matched : Nat, sent : Nat]
    /\ trade_wire \subseteq [id : TradeIds, status : TradeStatus \ {"NONE"}, sent : Nat]

\* Every map, position, queue, message and clock holds values of its type.
TypeOK == StoreType /\ MoneyType /\ QueueType /\ WorldType

\* However the user channel repeats, reorders and delays, and whatever the sweep
\* has forgotten, record_fill runs at most once for a trade and reverse_fill at
\* most once after it (seen_trade_fills_ and the status guards).
NoDoubleCount ==
    \A t \in TradeIds : recorded[t] <= 1 /\ reversed[t] <= recorded[t]

\* What the trades whose fill is booked and not reversed add up to.
Held == {t \in TradeIds : recorded[t] > reversed[t]}
NetOf(a) == MapThenSumSet(LAMBDA t : Signed(ledger[t], ledger[t].size),
                          {t \in Held : ledger[t].asset = a})
CashOf == MapThenSumSet(LAMBDA t : Signed(ledger[t], Cash(ledger[t])), Held)

\* Positions, the shared inventory and the USDC balance are exactly the sum of the
\* fills held: a reversal takes back what its recording booked, on the same asset
\* and at the same price, and the clamps of reverse_fill never cut anything off.
BooksBalance ==
    /\ \A a \in Assets :
        /\ positions[a].net = NetOf(a)
        /\ positions[a].net = positions[a].bought - positions[a].sold
        /\ positions[a].count = Cardinality({t \in Held : ledger[t].asset = a})
        /\ inventory[a] = positions[a].net
    /\ usdc = -CashOf

\* Unless the process has declared itself dead, T2 is told of every counted fill
\* exactly once (push_spin and the fatal flag).
FillsReachT2 ==
    ~fatal => \A t \in TradeIds :
        recorded[t] = t2_fills[t] + Cardinality({i \in DOMAIN user_queue : t \in user_queue[i]})

\* The cap of orders_ costs a live order its record only when the live orders alone
\* exceed it: finished ones go first (the sort in evict_terminal_orders).
LiveOrdersEvictedLast ==
    [][\A o \in OrderIds :
        /\ orders[o].status \in {"LIVE", "PARTIAL"}
        /\ orders'[o].status = "NONE"
        => /\ MaxOrders > 0
           /\ Cardinality({p \in KnownOrders : ~TerminalOrder(orders[p].status)}) > MaxOrders]_vars

\* A finished order stays finished and never loses matched size until it is old
\* enough, or the map full enough, to be evicted ("Terminal order states cannot be
\* regressed").
TerminalStaysTerminal ==
    [][\A o \in OrderIds :
        /\ TerminalOrder(orders[o].status)
        /\ ~OverCap
        /\ ~Expired(orders[o].ts, OrderTtl)
        => /\ TerminalOrder(orders'[o].status)
           /\ orders'[o].size_matched >= orders[o].size_matched]_vars

\* The out-of-order exception is for "MATCHED arriving after MINED/CONFIRMED": a
\* trade on record as FAILED leaves no fill behind.
FailedTradeHoldsNothing ==
    \A t \in TradeIds : trades[t].status = "FAILED" => recorded[t] = reversed[t]
=============================================================================
