----------------------- MODULE ExecStateStore_steps -----------------------
(***************************************************************************)
(* The inductive invariant behind the theorems of ExecStateStore_proofs,   *)
(* what the sweep does to it, and the steps of the environment, of T2 and  *)
(* of the order handler.                                                   *)
(***************************************************************************)
EXTENDS ExecStateStore, FiniteSetTheorems, TLAPS

\* Messages are no older than MaxDelay and report a stage the exchange reached.
WireInv ==
    \A m \in trade_wire :
        /\ m.sent <= now
        /\ now <= m.sent + MaxDelay
        /\ exch_trades[m.id] # "NONE"
        /\ TerminalTrade(m.status) => exch_trades[m.id] = m.status

\* A trade on record as finished is finished, and nothing about it was sent later.
FinishedInv ==
    \A t \in TradeIds :
        TerminalTrade(trades[t].status) =>
            /\ exch_trades[t] = trades[t].status
            /\ \A m \in trade_wire : m.id = t => m.sent <= trades[t].ts

\* A counted trade is remembered in `seen` until no MATCHED message can come.
CountedInv ==
    \A t \in TradeIds :
        /\ recorded[t] <= 1
        /\ recorded[t] = 1 => exch_trades[t] # "NONE"
        /\ seen[t] # NotSeen =>
            /\ recorded[t] = 1
            /\ \A m \in trade_wire : m.id = t /\ m.status = "MATCHED" => m.sent <= seen[t]
        /\ recorded[t] = 1 /\ seen[t] = NotSeen =>
            \A m \in trade_wire : m.id = t => m.status # "MATCHED"

\* A reversed trade is on record as FAILED until no message about it can come.
ReversedInv ==
    \A t \in TradeIds :
        /\ reversed[t] <= recorded[t]
        /\ reversed[t] = 1 =>
            /\ exch_trades[t] = "FAILED"
            /\ trades[t].status = "FAILED" \/ \A m \in trade_wire : m.id # t

IInv == TypeOK /\ WireInv /\ FinishedInv /\ CountedInv /\ ReversedInv

-----------------------------------------------------------------------------
\* A cap of at least |S| evicts nothing from a subset of S.
LEMMA NoVictims ==
    ASSUME NEW S, IsFiniteSet(S), NEW kept \in SUBSET S, NEW cap \in Nat,
           cap = 0 \/ cap >= Cardinality(S), NEW done, NEW ts
    PROVE  Victims(kept, cap, done, ts) = {{}}
<1>1. Cardinality(kept) <= Cardinality(S) /\ IsFiniteSet(kept)
  BY FS_Subset
<1>2. Cardinality(kept) \in Nat /\ Cardinality(S) \in Nat
  BY <1>1, FS_CardinalityType
<1> QED BY <1>1, <1>2 DEF Victims

\* The sweep (evict_terminal_trades) forgets a trade only when it is finished and
\* no message about it is left.
LEMMA SweepForgetsOnlySettledTrades ==
    ASSUME IInv, NEW ts \in SweptTrades
    PROVE  /\ ts \in [TradeIds -> [status : TradeStatus, fill : Fill, ts : Nat]]
           /\ \A t \in TradeIds : \/ ts[t] = trades[t]
                                  \/ /\ ts[t] = NoTrade
                                     /\ TerminalTrade(trades[t].status)
                                     /\ \A m \in trade_wire : m.id # t
<1> USE DEF IInv
<1>0. NoTrade \in [status : TradeStatus, fill : Fill, ts : Nat]
  BY IdsAssumption DEF NoTrade, NoFill, Fill, TradeStatus, Side
<1>1. CASE ~SweepDue
  BY <1>1 DEF SweptTrades, TypeOK, StoreType
<1>2. CASE SweepDue
  <2> DEFINE done == {t \in KnownTrades : TerminalTrade(trades[t].status)}
             old == {t \in done : Expired(trades[t].ts, TradeTtl)}
             stamps == [t \in TradeIds |-> trades[t].ts]
  <2>1. Victims(KnownTrades \ old, MaxTrades, done, stamps) = {{}}
    <3>1. KnownTrades \ old \in SUBSET TradeIds
      BY DEF KnownTrades
    <3> HIDE DEF done, old, stamps
    <3> QED BY <3>1, NoVictims, IdsAssumption, TradeCapAssumption, BoundsAssumption
  <2>2. ts \in {[t \in TradeIds |-> IF t \in old \cup V THEN NoTrade ELSE trades[t]] :
                    V \in Victims(KnownTrades \ old, MaxTrades, done, stamps)}
    BY <1>2 DEF SweptTrades, evict_terminal_trades
  <2>3. ts = [t \in TradeIds |-> IF t \in old THEN NoTrade ELSE trades[t]]
    <3> HIDE DEF done, old, stamps
    <3> QED BY <2>1, <2>2
  <2>4. ASSUME NEW t \in old, NEW m \in trade_wire, m.id = t
        PROVE  FALSE
    <3>1. t \in TradeIds /\ TerminalTrade(trades[t].status) /\ Expired(trades[t].ts, TradeTtl)
      BY DEF KnownTrades
    <3>2. m.sent <= trades[t].ts /\ now <= m.sent + MaxDelay
      BY <2>4, <3>1 DEF FinishedInv, WireInv
    <3>3. TradeTtl > 0 /\ now - trades[t].ts >= TradeTtl
      BY <3>1 DEF Expired
    <3>4. trades[t].ts \in Nat /\ m.sent \in Nat /\ now \in Nat
      BY <3>1 DEF TypeOK, StoreType, WorldType
    <3>5. TradeTtl \in Nat /\ MaxDelay \in Nat /\ TradeTtl > MaxDelay
      BY <3>3, TtlAssumption, BoundsAssumption
    <3> QED BY <3>2, <3>3, <3>4, <3>5
  <2>5. old \subseteq {t \in TradeIds : TerminalTrade(trades[t].status)}
    BY DEF KnownTrades
  <2> HIDE DEF done, old, stamps
  <2> QED BY <1>0, <2>3, <2>4, <2>5 DEF TypeOK, StoreType
<1> QED BY <1>1, <1>2

\* The sweep (evict_seen_trade_fills) forgets that a fill was counted only when no
\* MATCHED message of its trade is left.
LEMMA SweepForgetsOnlyPastFills ==
    ASSUME IInv, NEW ss \in SweptSeen
    PROVE  /\ ss \in [TradeIds -> Nat \cup {NotSeen}]
           /\ \A t \in TradeIds : \/ ss[t] = seen[t]
                                  \/ /\ ss[t] = NotSeen
                                     /\ seen[t] # NotSeen
                                     /\ \A m \in trade_wire : m.id = t => m.status # "MATCHED"
<1> USE DEF IInv
<1>1. CASE ~SweepDue
  BY <1>1 DEF SweptSeen, TypeOK, StoreType
<1>2. CASE SweepDue
  <2> DEFINE old == {t \in SeenTrades : Expired(seen[t], SeenTtl)}
  <2>1. Victims(SeenTrades \ old, MaxSeen, {}, seen) = {{}}
    <3>1. SeenTrades \ old \in SUBSET TradeIds
      BY DEF SeenTrades
    <3> HIDE DEF old
    <3> QED BY <3>1, NoVictims, IdsAssumption, TradeCapAssumption, BoundsAssumption
  <2>2. ss \in {[t \in TradeIds |-> IF t \in old \cup V THEN NotSeen ELSE seen[t]] :
                    V \in Victims(SeenTrades \ old, MaxSeen, {}, seen)}
    BY <1>2 DEF SweptSeen, evict_seen_trade_fills
  <2>3. ss = [t \in TradeIds |-> IF t \in old THEN NotSeen ELSE seen[t]]
    <3> HIDE DEF old
    <3> QED BY <2>1, <2>2
  <2>4. ASSUME NEW t \in old, NEW m \in trade_wire, m.id = t, m.status = "MATCHED"
        PROVE  FALSE
    <3>1. t \in TradeIds /\ seen[t] # NotSeen /\ Expired(seen[t], SeenTtl)
      BY DEF SeenTrades
    <3>2. m.sent <= seen[t] /\ now <= m.sent + MaxDelay
      BY <2>4, <3>1 DEF CountedInv, WireInv
    <3>3. SeenTtl > 0 /\ now - seen[t] >= SeenTtl
      BY <3>1 DEF Expired
    <3>4. seen[t] \in Nat /\ m.sent \in Nat /\ now \in Nat
      BY <3>1 DEF TypeOK, StoreType, WorldType
    <3>5. SeenTtl \in Nat /\ MaxDelay \in Nat /\ SeenTtl > MaxDelay
      BY <3>3, TtlAssumption, BoundsAssumption
    <3> QED BY <3>2, <3>3, <3>4, <3>5
  <2>5. old \subseteq {t \in TradeIds : seen[t] # NotSeen}
    BY DEF SeenTrades
  <2> HIDE DEF old
  <2> QED BY <2>3, <2>4, <2>5 DEF TypeOK, StoreType
<1> QED BY <1>1, <1>2

\* The sweep leaves the map of orders well formed.
LEMMA SweepKeepsOrderType ==
    ASSUME IInv, NEW os \in SweptOrders
    PROVE  os \in [OrderIds -> [status : OrderStatus, size_matched : Nat, ts : Nat]]
<1>1. NoOrder \in [status : OrderStatus, size_matched : Nat, ts : Nat]
  BY DEF NoOrder, OrderStatus
<1>2. CASE ~SweepDue
  BY <1>2 DEF SweptOrders, IInv, TypeOK, StoreType
<1>3. CASE SweepDue
  <2>1. os \in evict_terminal_orders
    BY <1>3 DEF SweptOrders
  <2>2. PICK E : os = [o \in OrderIds |-> IF o \in E THEN NoOrder ELSE orders[o]]
    BY <2>1 DEF evict_terminal_orders
  <2> QED BY <1>1, <2>2 DEF IInv, TypeOK, StoreType
<1> QED BY <1>2, <1>3

-----------------------------------------------------------------------------
\* The empty store of the constructor satisfies the invariant.
LEMMA InitEstablishes == Init => IInv
<1> SUFFICES ASSUME Init PROVE IInv
  OBVIOUS
<1>1. NoFill \in Fill
  BY IdsAssumption DEF NoFill, Fill, Side
<1>2. StoreType
  BY <1>1 DEF Init, StoreType, NoOrder, NoTrade, OrderStatus, TradeStatus, NotSeen
<1>3. MoneyType
  BY <1>1 DEF Init, MoneyType
<1>4. QueueType
  <2>1. user_queue \in Seq(SUBSET TradeIds) /\ t2_fills \in [TradeIds -> Nat]
    BY DEF Init
  <2>2. fatal \in BOOLEAN
    BY Zenon DEF Init
  <2> QED BY <2>1, <2>2 DEF QueueType
<1>5. WorldType
  BY DEF Init, WorldType, TradeStatus
<1>6. WireInv /\ FinishedInv /\ CountedInv /\ ReversedInv
  BY DEF Init, WireInv, FinishedInv, CountedInv, ReversedInv, TerminalTrade, NoTrade
<1> QED BY <1>2, <1>3, <1>4, <1>5, <1>6 DEF IInv, TypeOK

\* A fill is well formed whatever the attribution lookup finds.
LEMMA AttributedType ==
    ASSUME NEW t \in TradeIds, NEW os
    PROVE  Attributed(t, os) \in Fill
<1>1. Trades[t] \in [order : OrderIds, role : {"MAKER", "TAKER"}, book : Assets, side : Side,
                     price : Nat, size : Nat, amount : Nat]
  BY TradesAssumption
<1>2. Orders[Trades[t].order] \in [asset : Assets, side : Side, size : Nat]
  BY <1>1, OrdersAssumption
<1> QED BY <1>1, <1>2, BoundsAssumption, SMTT(30) DEF Attributed, OurAmount, Fill

\* Recording or reversing a well-formed fill keeps the books well formed.
LEMMA BooksType ==
    ASSUME MoneyType, NEW t \in TradeIds, NEW f \in Fill,
           record_fill(t, f) \/ reverse_fill(t, f) \/ UNCHANGED money
    PROVE  MoneyType'
<1> DEFINE Pos == [net : Int, bought : Nat, sold : Nat, count : Nat]
<1>1. f.asset \in Assets /\ f.side \in Side /\ f.price \in Int /\ f.size \in Nat
  BY DEF Fill
<1>2. Signed(f, Cash(f)) \in Int
  BY <1>1, BoundsAssumption DEF Cash, Signed
<1>3. Signed(f, f.size) \in Int
  BY <1>1 DEF Signed
<1>4. ASSUME NEW pos \in Pos PROVE Booked(pos, f) \in Pos
  BY <1>1, <1>3 DEF Booked
<1>5. ASSUME NEW pos \in Pos PROVE Unbooked(pos, f) \in Pos
  BY <1>1, <1>3 DEF Unbooked, Less
<1>6. CASE record_fill(t, f)
  <2>1. positions' \in [Assets -> Pos]
    <3> HIDE DEF Pos
    <3> QED BY <1>1, <1>4, <1>6 DEF record_fill, MoneyType, Pos
  <2> QED BY <1>1, <1>2, <1>3, <1>6, <2>1 DEF record_fill, MoneyType
<1>7. CASE reverse_fill(t, f)
  <2>1. positions' \in [Assets -> Pos]
    BY <1>1, <1>5, <1>7 DEF reverse_fill, MoneyType
  <2> QED BY <1>1, <1>2, <1>3, <1>7, <2>1 DEF reverse_fill, MoneyType
<1>8. CASE UNCHANGED money
  BY <1>8 DEF money, MoneyType
<1> QED BY <1>6, <1>7, <1>8

\* Emit appends one event or raises the fatal flag.
LEMMA EmitType ==
    ASSUME QueueType, NEW fills \in SUBSET TradeIds, Emit(fills) \/ UNCHANGED toT2,
           UNCHANGED t2_fills
    PROVE  QueueType'
<1>1. user_queue' = user_queue \/ user_queue' = Append(user_queue, fills)
  BY DEF Emit, toT2
<1>2. fatal' = fatal \/ fatal' = TRUE
  BY Zenon DEF Emit, toT2
<1>3. user_queue' \in Seq(SUBSET TradeIds)
  BY <1>1 DEF QueueType
<1>4. fatal' \in BOOLEAN
  BY <1>2, Zenon DEF QueueType
<1> QED BY <1>3, <1>4 DEF QueueType

-----------------------------------------------------------------------------
\* The rest of the invariant constrains trades, the messages about them and the
\* counters; a step that leaves these alone preserves it.
Tracked == <<trades, seen, recorded, reversed, exch_trades, trade_wire, now>>

LEMMA Frame ==
    ASSUME IInv, TypeOK', UNCHANGED Tracked
    PROVE  IInv'
BY DEF Tracked, IInv, WireInv, FinishedInv, CountedInv, ReversedInv

\* After the sweep and before the handler's own work the invariant still holds of
\* the maps that are left.
LEMMA SweepPreserves ==
    ASSUME IInv, NEW ts \in SweptTrades, NEW ss \in SweptSeen,
           trades' = ts, seen' = ss,
           UNCHANGED <<recorded, reversed, exch_trades, trade_wire, now>>
    PROVE  WireInv' /\ FinishedInv' /\ CountedInv' /\ ReversedInv'
<1>1. \A t \in TradeIds : \/ ts[t] = trades[t]
                          \/ /\ ts[t] = NoTrade
                             /\ \A m \in trade_wire : m.id # t
  BY SweepForgetsOnlySettledTrades
<1>2. \A t \in TradeIds : \/ ss[t] = seen[t]
                          \/ /\ ss[t] = NotSeen
                             /\ seen[t] # NotSeen
                             /\ \A m \in trade_wire : m.id = t => m.status # "MATCHED"
  BY SweepForgetsOnlyPastFills
<1>3. WireInv'
  BY DEF IInv, WireInv
<1>4. FinishedInv'
  BY <1>1 DEF IInv, FinishedInv, NoTrade, TerminalTrade
<1>5. CountedInv'
  BY <1>2 DEF IInv, CountedInv
<1>6. ReversedInv'
  BY <1>1 DEF IInv, ReversedInv
<1> QED BY <1>3, <1>4, <1>5, <1>6

\* The exchange's steps.
LEMMA ExchangePreserves ==
    ASSUME IInv,
           \/ \E o \in OrderIds : ExchangePlaces(o) \/ ExchangeCancels(o)
           \/ \E t \in TradeIds : ExchangeMatches(t)
           \/ \E t \in TradeIds, s \in Stages : ExchangeSettles(t, s)
    PROVE  IInv'
<1> USE DEF IInv, TypeOK
<1>1. ASSUME NEW o \in OrderIds, ExchangePlaces(o) \/ ExchangeCancels(o)
      PROVE  IInv'
  <2>1. WorldType'
    BY <1>1 DEF ExchangePlaces, ExchangeCancels, PutOrder, WorldType, OrderEvent
  <2>2. StoreType' /\ MoneyType' /\ QueueType' /\ UNCHANGED Tracked
    BY <1>1 DEF ExchangePlaces, ExchangeCancels, store, money, toT2, StoreType, MoneyType,
                QueueType, Tracked
  <2> QED BY <2>1, <2>2, Frame
<1>2. ASSUME NEW t \in TradeIds, NEW s \in TradeStatus \ {"NONE"},
             exch_trades' = [exch_trades EXCEPT ![t] = s],
             Rank(s) > Rank(exch_trades[t]), exch_trades[t] = "NONE" \/ s # "MATCHED",
             PutTrade(t, s), UNCHANGED <<store, money, now>>
      PROVE  WireInv' /\ FinishedInv' /\ CountedInv' /\ ReversedInv'
  <2>1. ~TerminalTrade(exch_trades[t])
    BY <1>2 DEF TerminalTrade, Rank, TradeStatus
  <2>2. trade_wire' = trade_wire \cup {[id |-> t, status |-> s, sent |-> now]}
    BY <1>2 DEF PutTrade
  <2>3. WireInv'
    BY <1>2, <2>1, <2>2, BoundsAssumption, SMTT(30) DEF WireInv, WorldType, TerminalTrade
  <2>4. FinishedInv'
    BY <1>2, <2>1, <2>2, SMTT(30) DEF FinishedInv, WorldType, store
  <2>5. CountedInv'
    <3>1. UNCHANGED <<seen, recorded>>
      BY <1>2 DEF store, money
    <3>2. exch_trades \in [TradeIds -> TradeStatus]
      BY DEF WorldType
    <3>3. \A u \in TradeIds : exch_trades[u] # "NONE" => exch_trades'[u] # "NONE"
      BY <1>2, <3>2
    <3>4. ASSUME NEW u \in TradeIds, recorded[u] = 1, NEW m \in trade_wire',
                 m.id = u, m.status = "MATCHED"
          PROVE  m \in trade_wire
      <4>1. exch_trades[u] # "NONE"
        BY <3>4 DEF CountedInv
      <4>2. m # [id |-> t, status |-> s, sent |-> now]
        BY <1>2, <3>4, <4>1
      <4> QED BY <2>2, <3>4, <4>2
    <3> QED BY <3>1, <3>3, <3>4 DEF CountedInv
  <2>6. ReversedInv'
    BY <1>2, <2>1, <2>2, SMTT(30) DEF ReversedInv, WorldType, store, money, TerminalTrade
  <2> QED BY <2>3, <2>4, <2>5, <2>6
<1>3. ASSUME NEW t \in TradeIds, ExchangeMatches(t)
      PROVE  IInv'
  <2>1. WorldType'
    <3> DEFINE o == Trades[t].order
               matched == exch_orders[o].matched + OurAmount(t)
    <3>1. o \in OrderIds /\ OurAmount(t) \in Nat
      BY TradesAssumption DEF OurAmount
    <3>2. exch_orders[o].matched \in Nat
      BY <3>1 DEF WorldType
    <3>3. matched \in Nat
      BY <3>1, <3>2, SMTT(30)
    <3>4. /\ exch_orders' = [exch_orders EXCEPT ![o] =
               [state |-> IF matched = Orders[o].size THEN "DONE" ELSE "OPEN",
                matched |-> matched]]
          /\ exch_trades' = [exch_trades EXCEPT ![t] = "MATCHED"]
          /\ PutOrder(o, "UPDATE", matched)
          /\ PutTrade(t, "MATCHED")
          /\ now' = now
      BY <1>3 DEF ExchangeMatches
    <3> HIDE DEF o, matched
    <3>5. exch_orders' \in [OrderIds -> [state : {"NONE", "OPEN", "DONE"}, matched : Nat]]
      BY <3>1, <3>3, <3>4 DEF WorldType
    <3>6. exch_trades' \in [TradeIds -> TradeStatus]
      BY <3>4 DEF WorldType, TradeStatus
    <3>7. order_wire' \subseteq [id : OrderIds, event : OrderEvent, size_matched : Nat, sent : Nat]
      BY <3>1, <3>3, <3>4 DEF PutOrder, WorldType, OrderEvent
    <3>8. trade_wire' \subseteq [id : TradeIds, status : TradeStatus \ {"NONE"}, sent : Nat]
      BY <1>3, <3>4 DEF PutTrade, WorldType, TradeStatus
    <3> QED BY <3>4, <3>5, <3>6, <3>7, <3>8 DEF WorldType
  <2>2. StoreType' /\ MoneyType' /\ QueueType'
    BY <1>3 DEF ExchangeMatches, store, money, toT2, StoreType, MoneyType, QueueType
  <2>3. Rank("MATCHED") > Rank(exch_trades[t])
    <3>1. exch_trades[t] = "NONE"
      BY <1>3 DEF ExchangeMatches
    <3>2. Rank("MATCHED") = 1 /\ Rank("NONE") = 0
      BY DEF Rank
    <3> QED BY <3>1, <3>2
  <2>4. WireInv' /\ FinishedInv' /\ CountedInv' /\ ReversedInv'
    BY <1>2, <1>3, <2>3 DEF ExchangeMatches, TradeStatus
  <2> QED BY <2>1, <2>2, <2>4
<1>4. ASSUME NEW t \in TradeIds, NEW s \in Stages, ExchangeSettles(t, s)
      PROVE  IInv'
  <2>1. WorldType'
    BY <1>4, StagesAssumption DEF ExchangeSettles, PutTrade, WorldType
  <2>2. StoreType' /\ MoneyType' /\ QueueType'
    BY <1>4 DEF ExchangeSettles, store, money, toT2, StoreType, MoneyType, QueueType
  <2>3. s # "MATCHED"
    BY <1>4 DEF ExchangeSettles, Rank, WorldType, TradeStatus
  <2>4. WireInv' /\ FinishedInv' /\ CountedInv' /\ ReversedInv'
    BY <1>2, <1>4, <2>3, StagesAssumption DEF ExchangeSettles
  <2> QED BY <2>1, <2>2, <2>4
<1> QED BY <1>1, <1>3, <1>4

\* The clock and T2.
LEMMA TickPreserves ==
    ASSUME IInv, Tick
    PROVE  IInv'
<1> USE DEF IInv, TypeOK
<1>1. now \in Nat /\ now' = now + 1
  BY DEF Tick, WorldType
<1>2. trade_wire' = {m \in trade_wire : m.sent + MaxDelay > now}
  BY DEF Tick
<1>3. StoreType' /\ MoneyType' /\ QueueType'
  BY DEF Tick, store, money, toT2, StoreType, MoneyType, QueueType
<1>4. WorldType'
  BY DEF Tick, WorldType
<1>5. WireInv'
  BY <1>1, <1>2, BoundsAssumption DEF Tick, WireInv, WorldType
<1>6. FinishedInv' /\ CountedInv' /\ ReversedInv'
  BY <1>2 DEF Tick, FinishedInv, CountedInv, ReversedInv, store, money
<1> QED BY <1>3, <1>4, <1>5, <1>6

\* A pop by T2 only shortens the queue.
LEMMA PopPreserves ==
    ASSUME IInv, SchedulerPops
    PROVE  IInv'
<1> USE DEF IInv, TypeOK
<1>1. StoreType' /\ MoneyType' /\ WorldType' /\ UNCHANGED Tracked
  BY DEF SchedulerPops, store, money, world, StoreType, MoneyType, WorldType, Tracked
<1>2. user_queue' \in Seq(SUBSET TradeIds)
  BY DEF SchedulerPops, QueueType
<1>3. t2_fills' \in [TradeIds -> Nat]
  BY DEF SchedulerPops, QueueType
<1>4. fatal' \in BOOLEAN
  BY Zenon DEF SchedulerPops, QueueType
<1> QED BY <1>1, <1>2, <1>3, <1>4, Frame DEF QueueType

\* The status an order update leaves is a tracked status.
LEMMA NextOrderStatusType ==
    ASSUME NEW m \in order_wire, NEW r, r.status \in OrderStatus
    PROVE  NextOrderStatus(r, m) \in OrderStatus
BY DEF NextOrderStatus, OrderStatus

\* maybe_sweep keeps the time of its next run a natural number.
LEMMA SweepClockType ==
    ASSUME IInv, maybe_sweep
    PROVE  next_sweep' \in Nat
BY BoundsAssumption, SMTT(30) DEF IInv, TypeOK, StoreType, WorldType, maybe_sweep

\* The order handler (apply_order_update) touches neither trades nor fills, apart from
\* what its sweep forgets.
LEMMA OrderUpdatePreserves ==
    ASSUME IInv, NEW m \in order_wire, NEW same \in BOOLEAN, apply_order_update(m, same)
    PROVE  IInv'
<1> USE DEF IInv, TypeOK
<1>1. PICK os \in SweptOrders, ts \in SweptTrades, ss \in SweptSeen :
        /\ maybe_sweep
        /\ trades' = ts
        /\ seen' = ss
        /\ IF StaleOrderUpdate(os[m.id], m, same)
           THEN orders' = os /\ UNCHANGED toT2
           ELSE /\ orders' = [os EXCEPT ![m.id] = [status |-> NextOrderStatus(@, m),
                                                   size_matched |-> m.size_matched,
                                                   ts |-> now]]
                /\ Emit({})
        /\ UNCHANGED <<money, world, t2_fills>>
  BY DEF apply_order_update
<1>2. os \in [OrderIds -> [status : OrderStatus, size_matched : Nat, ts : Nat]]
  BY SweepKeepsOrderType
<1>3. m.id \in OrderIds /\ m.size_matched \in Nat /\ now \in Nat
  BY DEF WorldType
<1>4. NextOrderStatus(os[m.id], m) \in OrderStatus
  BY <1>2, <1>3, NextOrderStatusType
<1>5. orders' \in [OrderIds -> [status : OrderStatus, size_matched : Nat, ts : Nat]]
  <2> DEFINE new == [status |-> NextOrderStatus(os[m.id], m),
                     size_matched |-> m.size_matched, ts |-> now]
  <2>1. new \in [status : OrderStatus, size_matched : Nat, ts : Nat]
    BY <1>3, <1>4
  <2>2. orders' = os \/ orders' = [os EXCEPT ![m.id] = new]
    BY <1>1, Zenon
  <2> HIDE DEF new
  <2> QED BY <1>2, <2>1, <2>2
<1>6. StoreType'
  BY <1>1, <1>5, SweepForgetsOnlySettledTrades, SweepForgetsOnlyPastFills, SweepClockType
    DEF StoreType
<1>7. QueueType'
  BY <1>1, EmitType
<1>8. MoneyType' /\ WorldType'
  BY <1>1 DEF money, world, MoneyType, WorldType
<1>9. WireInv' /\ FinishedInv' /\ CountedInv' /\ ReversedInv'
  BY <1>1, SweepPreserves DEF money, world
<1> QED BY <1>6, <1>7, <1>8, <1>9
=============================================================================
