-------------------- MODULE ExecStateStoreOrders_proofs --------------------
(***************************************************************************)
(* Proof that a finished order stays finished until it may be evicted.     *)
(***************************************************************************)
EXTENDS ExecStateStore_proofs

\* While no map is over its cap the sweep (evict_terminal_orders) forgets only
\* finished orders that have reached their ttl.
LEMMA SweepKeepsFreshOrders ==
    ASSUME ~OverCap, IInv, NEW os \in SweptOrders, NEW o \in OrderIds,
           ~Expired(orders[o].ts, OrderTtl)
    PROVE  os[o] = orders[o]
<1>1. CASE ~SweepDue
  BY <1>1 DEF SweptOrders
<1>2. CASE SweepDue
  <2> DEFINE done == {p \in KnownOrders : TerminalOrder(orders[p].status)}
             old == {p \in done : Expired(orders[p].ts, OrderTtl)}
             stamps == [p \in OrderIds |-> orders[p].ts]
  <2>1. KnownOrders \in SUBSET OrderIds /\ o \notin old
    BY DEF KnownOrders
  <2>2. IsFiniteSet(KnownOrders)
    BY <2>1, IdsAssumption, FS_Subset
  <2>3. MaxOrders = 0 \/ MaxOrders >= Cardinality(KnownOrders)
    <3>1. Cardinality(KnownOrders) \in Nat /\ MaxOrders \in Nat
      BY <2>2, FS_CardinalityType, BoundsAssumption
    <3> QED BY <3>1 DEF OverCap
  <2>4. os \in {[p \in OrderIds |-> IF p \in old \cup V THEN NoOrder ELSE orders[p]] :
                    V \in Victims(KnownOrders \ old, MaxOrders, done, stamps)}
    BY <1>2 DEF SweptOrders, evict_terminal_orders
  <2> HIDE DEF done, old, stamps
  <2>5. Victims(KnownOrders \ old, MaxOrders, done, stamps) = {{}}
    BY <2>2, <2>3, NoVictims, BoundsAssumption
  <2> QED BY <2>1, <2>4, <2>5
<1> QED BY <1>1, <1>2

\* The comparison of sizes, apart from everything else.
LEMMA NotLess ==
    ASSUME NEW x \in Nat, NEW y \in Nat, ~(x < y)
    PROVE  x >= y
OBVIOUS

\* A finished order is never taken back to an unfinished status, and never loses
\* matched size, by any order or trade update (apply_order_update).
THEOREM TerminalOrdersStay == Spec => TerminalStaysTerminal
<1> DEFINE Kept(o) == /\ TerminalOrder(orders'[o].status)
                      /\ orders'[o].size_matched >= orders[o].size_matched
           Step == \A o \in OrderIds :
                        /\ TerminalOrder(orders[o].status)
                        /\ ~OverCap
                        /\ ~Expired(orders[o].ts, OrderTtl)
                        => Kept(o)
<1>1. ASSUME IInv, [Next]_vars PROVE Step \/ UNCHANGED vars
  <2> SUFFICES ASSUME NEW o \in OrderIds, TerminalOrder(orders[o].status), ~OverCap,
                      ~Expired(orders[o].ts, OrderTtl), Next
               PROVE  Kept(o)
    BY <1>1
  <2>1. orders[o].size_matched \in Nat
    BY <1>1 DEF IInv, TypeOK, StoreType
  <2>2. ASSUME orders'[o] = orders[o] PROVE Kept(o)
    <3>1. TerminalOrder(orders'[o].status)
      BY <2>2, Zenon
    <3>2. orders'[o].size_matched >= orders[o].size_matched
      BY <2>1, <2>2, SMTT(30)
    <3> QED BY <3>1, <3>2
  <2>3. ASSUME NEW m \in order_wire, NEW same \in BOOLEAN, apply_order_update(m, same)
        PROVE  Kept(o)
    <3>1. PICK os \in SweptOrders :
            IF StaleOrderUpdate(os[m.id], m, same)
            THEN orders' = os
            ELSE orders' = [os EXCEPT ![m.id] = [status |-> NextOrderStatus(@, m),
                                                 size_matched |-> m.size_matched,
                                                 ts |-> now]]
      BY <2>3 DEF apply_order_update
    <3>2. os[o] = orders[o]
      BY <1>1, SweepKeepsFreshOrders
    <3>3. os \in [OrderIds -> [status : OrderStatus, size_matched : Nat, ts : Nat]]
      BY <1>1, SweepKeepsOrderType
    <3>4. CASE StaleOrderUpdate(os[m.id], m, same) \/ m.id # o
      BY <2>2, <3>1, <3>2, <3>3, <3>4
    <3>5. CASE ~StaleOrderUpdate(os[m.id], m, same) /\ m.id = o
      <4>1. m.event \in OrderEvent /\ m.size_matched \in Nat
        BY <1>1 DEF IInv, TypeOK, WorldType
      <4>2. ~StaleOrderUpdate(orders[o], m, same)
        BY <3>2, <3>5
      <4>3. m.event # "PLACEMENT" /\ ~(m.size_matched < orders[o].size_matched)
        BY <4>2, Zenon DEF StaleOrderUpdate, TerminalOrder
      <4>4. /\ m.event = "CANCELLATION" \/ m.event = "UPDATE"
            /\ m.size_matched >= orders[o].size_matched
        <5>1. m.event = "CANCELLATION" \/ m.event = "UPDATE"
          BY <4>1, <4>3, Zenon DEF OrderEvent
        <5>2. m.size_matched >= orders[o].size_matched
          BY <2>1, <4>1, <4>3, NotLess, Zenon
        <5> QED BY <5>1, <5>2, Zenon
      <4>5. TerminalOrder(NextOrderStatus(orders[o], m))
        BY <4>4 DEF NextOrderStatus, TerminalOrder
      <4>6. orders'[o] = [status |-> NextOrderStatus(orders[o], m),
                          size_matched |-> m.size_matched, ts |-> now]
        BY <3>1, <3>2, <3>3, <3>5
      <4>7. /\ orders'[o].status = NextOrderStatus(orders[o], m)
            /\ orders'[o].size_matched = m.size_matched
        BY <4>6
      <4>8. TerminalOrder(orders'[o].status)
        BY <4>5, <4>7, Zenon
      <4>9. orders'[o].size_matched >= orders[o].size_matched
        BY <4>4, <4>7, Zenon
      <4> QED BY <4>8, <4>9, Zenon
    <3> QED BY <3>4, <3>5
  <2>4. ASSUME NEW m \in trade_wire, apply_trade_update(m)
        PROVE  Kept(o)
    <3>1. orders' \in SweptOrders
      BY <2>4 DEF apply_trade_update
    <3> QED BY <1>1, <2>2, <3>1, SweepKeepsFreshOrders
  <2>5. ASSUME UNCHANGED orders PROVE Kept(o)
    BY <2>2, <2>5
  <2>6. CASE \E p \in OrderIds : ExchangePlaces(p) \/ ExchangeCancels(p)
    BY <2>5, <2>6 DEF ExchangePlaces, ExchangeCancels, store
  <2>7. CASE \E t \in TradeIds : ExchangeMatches(t)
    <3>1. UNCHANGED store
      BY <2>7, Zenon DEF ExchangeMatches
    <3> QED BY <2>5, <3>1 DEF store
  <2>8. CASE \E t \in TradeIds, s \in Stages : ExchangeSettles(t, s)
    BY <2>5, <2>8 DEF ExchangeSettles, store
  <2>9. CASE \E m \in order_wire : DeliverOrder(m) \/ DeliverMismatchedOrder(m)
    BY <2>3, <2>9, Zenon DEF DeliverOrder, DeliverMismatchedOrder
  <2>10. CASE \E m \in trade_wire : DeliverTrade(m)
    BY <2>4, <2>10, Zenon DEF DeliverTrade
  <2>11. CASE Tick \/ SchedulerPops
    BY <2>5, <2>11 DEF Tick, SchedulerPops, store
  <2> QED BY <2>6, <2>7, <2>8, <2>9, <2>10, <2>11, Zenon DEF Next
<1> QED BY <1>1, Invariance, PTL DEF Spec, TerminalStaysTerminal
=============================================================================
