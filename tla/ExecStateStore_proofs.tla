----------------------- MODULE ExecStateStore_proofs -----------------------
(***************************************************************************)
(* Proofs that the store is type correct and that no trade is counted or   *)
(* reversed twice, for any orders, trades, queue size, ttl, sweep interval *)
(* and delivery bound allowed by the assumptions of ExecStateStore.  The   *)
(* step that matters is the trade handler, the first lemma.                *)
(***************************************************************************)
EXTENDS ExecStateStore_steps

\* The trade handler. What the sweep leaves still satisfies the invariant, so a
\* message that would be counted or reversed has not been before.
LEMMA TradeUpdatePreserves ==
    ASSUME IInv, NEW m \in trade_wire, apply_trade_update(m)
    PROVE  IInv'
<1> USE DEF IInv, TypeOK
<1> DEFINE t == m.id
<1>1. PICK os \in SweptOrders, ts \in SweptTrades, ss \in SweptSeen :
        /\ maybe_sweep
        /\ orders' = os
        /\ \/ DuplicateTrade(m, ts, ss)
           \/ LateMatch(m, ts, ss)
           \/ ForwardTrade(m, ts, ss)
           \/ NewTrade(m, os, ts, ss)
        /\ UNCHANGED <<world, t2_fills>>
  BY DEF apply_trade_update
<1>2. t \in TradeIds /\ m.status \in TradeStatus \ {"NONE"} /\ m.sent \in Nat /\ now \in Nat
  BY DEF WorldType
<1>3. /\ os \in [OrderIds -> [status : OrderStatus, size_matched : Nat, ts : Nat]]
      /\ ts \in [TradeIds -> [status : TradeStatus, fill : Fill, ts : Nat]]
      /\ ss \in [TradeIds -> Nat \cup {NotSeen}]
      /\ next_sweep' \in Nat
  BY <1>1, SweepKeepsOrderType, SweepForgetsOnlySettledTrades, SweepForgetsOnlyPastFills,
     SweepClockType
<1>4. WorldType' /\ UNCHANGED <<exch_trades, trade_wire, now>>
  BY <1>1 DEF world, WorldType
<1>5. \A u \in TradeIds :
        TerminalTrade(ts[u].status) =>
            /\ exch_trades[u] = ts[u].status
            /\ \A n \in trade_wire : n.id = u => n.sent <= ts[u].ts
  <2> SUFFICES ASSUME NEW u \in TradeIds, TerminalTrade(ts[u].status)
               PROVE  /\ exch_trades[u] = ts[u].status
                      /\ \A n \in trade_wire : n.id = u => n.sent <= ts[u].ts
    OBVIOUS
  <2>1. ts[u] # NoTrade
    BY SMTT(30) DEF NoTrade, TerminalTrade
  <2>2. ts[u] = trades[u]
    BY <2>1, SweepForgetsOnlySettledTrades
  <2> QED BY <2>2 DEF FinishedInv
<1>6. \A u \in TradeIds :
        /\ ss[u] # NotSeen =>
            /\ recorded[u] = 1
            /\ \A n \in trade_wire : n.id = u /\ n.status = "MATCHED" => n.sent <= ss[u]
        /\ recorded[u] = 1 /\ ss[u] = NotSeen =>
            \A n \in trade_wire : n.id = u => n.status # "MATCHED"
  BY SweepForgetsOnlyPastFills DEF CountedInv
<1>7. \A u \in TradeIds :
        reversed[u] = 1 =>
            /\ exch_trades[u] = "FAILED"
            /\ ts[u].status = "FAILED" \/ \A n \in trade_wire : n.id # u
  BY SweepForgetsOnlySettledTrades DEF ReversedInv
<1>8. /\ recorded \in [TradeIds -> Nat] /\ reversed \in [TradeIds -> Nat]
      /\ \A u \in TradeIds : recorded[u] <= 1 /\ reversed[u] <= recorded[u]
      /\ \A u \in TradeIds : recorded[u] = 1 => exch_trades[u] # "NONE"
  BY DEF MoneyType, CountedInv, ReversedInv
<1>9. /\ exch_trades[t] # "NONE"
      /\ TerminalTrade(m.status) => exch_trades[t] = m.status
      /\ \A n \in trade_wire : n.sent <= now
  BY DEF WireInv
<1>10. WireInv'
  BY <1>4 DEF WireInv
<1>11. ASSUME m.status = "MATCHED", ss[t] = NotSeen
       PROVE  recorded[t] = 0
  <2>1. recorded[t] # 1
    BY <1>2, <1>6, <1>11, Zenon
  <2>2. recorded[t] \in Nat /\ recorded[t] <= 1
    BY <1>2, <1>8
  <2> QED BY <2>1, <2>2
<1>12. ASSUME recorded[t] = 0, recorded' = [recorded EXCEPT ![t] = @ + 1],
              seen' = [ss EXCEPT ![t] = now]
       PROVE  CountedInv'
  <2>1. recorded'[t] = 1 /\ seen'[t] = now /\ now # NotSeen
    BY <1>2, <1>3, <1>8, <1>12, SMTT(30) DEF NotSeen
  <2>2. \A u \in TradeIds \ {t} : recorded'[u] = recorded[u] /\ seen'[u] = ss[u]
    BY <1>3, <1>8, <1>12
  <2>3. exch_trades' = exch_trades /\ trade_wire' = trade_wire
    BY <1>4
  <2> SUFFICES ASSUME NEW u \in TradeIds
               PROVE  /\ recorded'[u] <= 1
                      /\ recorded'[u] = 1 => exch_trades[u] # "NONE"
                      /\ seen'[u] # NotSeen =>
                          /\ recorded'[u] = 1
                          /\ \A n \in trade_wire : n.id = u /\ n.status = "MATCHED" => n.sent <= seen'[u]
                      /\ recorded'[u] = 1 /\ seen'[u] = NotSeen =>
                          \A n \in trade_wire : n.id = u => n.status # "MATCHED"
    BY <2>3 DEF CountedInv, NotSeen
  <2>4. CASE u = t
    BY <1>9, <2>1, <2>4, SMTT(30)
  <2>5. CASE u # t
    <3>1. recorded'[u] = recorded[u] /\ seen'[u] = ss[u]
      BY <2>2, <2>5
    <3> QED BY <1>6, <1>8, <3>1
  <2> QED BY <2>4, <2>5
<1>13. ASSUME recorded[t] = 0, recorded' = [recorded EXCEPT ![t] = @ + 1], reversed' = reversed,
              \A u \in TradeIds \ {t} : trades'[u] = ts[u]
       PROVE  ReversedInv'
  <2>1. recorded'[t] = 1 /\ reversed[t] = 0
    BY <1>2, <1>8, <1>13
  <2>2. \A u \in TradeIds \ {t} : recorded'[u] = recorded[u]
    BY <1>8, <1>13
  <2>3. exch_trades' = exch_trades /\ trade_wire' = trade_wire
    BY <1>4
  <2> SUFFICES ASSUME NEW u \in TradeIds
               PROVE  /\ reversed[u] <= recorded'[u]
                      /\ reversed[u] = 1 =>
                          /\ exch_trades[u] = "FAILED"
                          /\ trades'[u].status = "FAILED" \/ \A n \in trade_wire : n.id # u
    BY <1>13, <2>3 DEF ReversedInv
  <2>4. CASE u = t
    BY <2>1, <2>4, SMTT(30)
  <2>5. CASE u # t
    <3>1. recorded'[u] = recorded[u] /\ trades'[u] = ts[u]
      BY <1>13, <2>2, <2>5
    <3> QED BY <1>7, <1>8, <3>1
  <2> QED BY <2>4, <2>5
<1>14. CASE DuplicateTrade(m, ts, ss)
  <2>1. StoreType' /\ MoneyType'
    BY <1>1, <1>3, <1>14 DEF DuplicateTrade, StoreType, MoneyType, money
  <2>2. QueueType'
    BY <1>1, <1>14, EmitType DEF DuplicateTrade
  <2>3. FinishedInv' /\ CountedInv' /\ ReversedInv'
    BY <1>4, <1>14, SweepPreserves DEF DuplicateTrade, money
  <2> QED BY <1>4, <1>10, <2>1, <2>2, <2>3
<1>15. CASE LateMatch(m, ts, ss)
  <2>1. /\ m.status = "MATCHED" /\ ss[t] = NotSeen /\ trades' = ts
        /\ seen' = [ss EXCEPT ![t] = now]
        /\ record_fill(t, ts[t].fill) /\ Emit({t})
    BY <1>15 DEF LateMatch
  <2>2. StoreType'
    BY <1>1, <1>2, <1>3, <2>1 DEF StoreType
  <2>3. MoneyType'
    BY <1>2, <1>3, <2>1, BooksType
  <2>4. QueueType'
    BY <1>1, <1>2, <2>1, EmitType
  <2>5. recorded[t] = 0 /\ recorded' = [recorded EXCEPT ![t] = @ + 1] /\ reversed' = reversed
    BY <1>11, <2>1 DEF record_fill
  <2>6. FinishedInv'
    BY <1>4, <1>5, <2>1 DEF FinishedInv
  <2>7. CountedInv'
    BY <1>12, <2>1, <2>5
  <2>8. ReversedInv'
    BY <1>13, <2>1, <2>5
  <2> QED BY <1>4, <1>10, <2>2, <2>3, <2>4, <2>6, <2>7, <2>8
<1>16. CASE ForwardTrade(m, ts, ss)
  <2>1. /\ ts[t].status # "NONE" /\ m.status # ts[t].status
        /\ Rank(m.status) >= Rank(ts[t].status)
        /\ trades' = [ts EXCEPT ![t].status = m.status, ![t].ts = now]
        /\ seen' = ss /\ Emit({})
    BY <1>16 DEF ForwardTrade
  <2>2. \/ m.status = "FAILED" /\ ss[t] # NotSeen /\ reverse_fill(t, ts[t].fill)
        \/ UNCHANGED money
    BY <1>16 DEF ForwardTrade
  <2>3. StoreType'
    BY <1>1, <1>2, <1>3, <2>1 DEF StoreType
  <2>4. MoneyType'
    BY <1>2, <1>3, <2>2, BooksType
  <2>5. QueueType'
    BY <1>1, <2>1, EmitType
  <2>6. ~TerminalTrade(ts[t].status)
    BY <1>2, <1>3, <1>5, <1>9, <2>1, SMTT(30) DEF Rank, TerminalTrade, TradeStatus
  <2>7. reversed[t] = 0
    <3>1. reversed[t] # 1
      BY <1>2, <1>7, <2>6 DEF TerminalTrade
    <3>2. reversed[t] \in Nat /\ reversed[t] <= recorded[t] /\ recorded[t] \in Nat /\ recorded[t] <= 1
      BY <1>2, <1>8
    <3> QED BY <3>1, <3>2
  <2>8. FinishedInv'
    BY <1>2, <1>3, <1>4, <1>5, <1>9, <2>1 DEF FinishedInv
  <2>9. recorded' = recorded
    BY <2>2 DEF reverse_fill, money
  <2>10. CountedInv'
    BY <1>4, <1>6, <1>8, <2>1, <2>9 DEF CountedInv
  <2>11. CASE m.status = "FAILED" /\ ss[t] # NotSeen /\ reverse_fill(t, ts[t].fill)
    <3>1. recorded[t] = 1 /\ exch_trades[t] = "FAILED"
      BY <1>2, <1>6, <1>9, <2>11 DEF TerminalTrade
    <3>2. reversed' = [reversed EXCEPT ![t] = @ + 1]
      BY <2>11 DEF reverse_fill
    <3>3. ReversedInv'
      BY <1>2, <1>3, <1>4, <1>7, <1>8, <2>1, <2>7, <2>9, <2>11, <3>1, <3>2 DEF ReversedInv
    <3> QED BY <1>4, <1>10, <2>3, <2>4, <2>5, <2>8, <2>10, <3>3
  <2>12. CASE UNCHANGED money
    <3>1. ReversedInv'
      BY <1>2, <1>3, <1>4, <1>7, <1>8, <2>1, <2>7, <2>9, <2>12 DEF ReversedInv, money
    <3> QED BY <1>4, <1>10, <2>3, <2>4, <2>5, <2>8, <2>10, <3>1
  <2> QED BY <2>2, <2>11, <2>12
<1>17. CASE NewTrade(m, os, ts, ss)
  <2> DEFINE f == Attributed(t, os)
             counts == m.status = "MATCHED" /\ f.size > 0 /\ ss[t] = NotSeen
  <2>1. /\ ts[t].status = "NONE"
        /\ trades' = [ts EXCEPT ![t] = [status |-> m.status, fill |-> f, ts |-> now]]
        /\ \/ counts /\ record_fill(t, f) /\ seen' = [ss EXCEPT ![t] = now] /\ Emit({t})
           \/ seen' = ss /\ UNCHANGED money /\ Emit({})
    BY <1>17 DEF NewTrade
  <2>2. f \in Fill
    BY <1>2, AttributedType
  <2>3. counts => m.status = "MATCHED" /\ ss[t] = NotSeen
    OBVIOUS
  <2> HIDE DEF f, counts
  <2>4. StoreType'
    <3>1. trades' \in [TradeIds -> [status : TradeStatus, fill : Fill, ts : Nat]]
      BY <1>2, <1>3, <2>1, <2>2
    <3>2. seen' \in [TradeIds -> Nat \cup {NotSeen}]
      BY <1>2, <1>3, <2>1
    <3> QED BY <1>1, <1>3, <3>1, <3>2 DEF StoreType
  <2>5. MoneyType'
    BY <1>2, <2>1, <2>2, BooksType
  <2>6. QueueType'
    BY <1>1, <1>2, <2>1, EmitType, SMTT(30)
  <2>7. reversed[t] = 0
    <3>1. reversed[t] # 1
      BY <1>2, <1>7, <2>1
    <3>2. reversed[t] \in Nat /\ reversed[t] <= recorded[t] /\ recorded[t] \in Nat /\ recorded[t] <= 1
      BY <1>2, <1>8
    <3> QED BY <3>1, <3>2
  <2>8. reversed' = reversed
    BY <2>1 DEF record_fill, money
  <2>9. FinishedInv'
    BY <1>2, <1>3, <1>4, <1>5, <1>9, <2>1 DEF FinishedInv
  <2>10. CASE counts /\ record_fill(t, f) /\ seen' = [ss EXCEPT ![t] = now]
    <3>1. recorded[t] = 0 /\ recorded' = [recorded EXCEPT ![t] = @ + 1]
      BY <1>11, <2>3, <2>10 DEF record_fill
    <3>2. CountedInv'
      BY <1>12, <2>10, <3>1
    <3>3. ReversedInv'
      BY <1>3, <1>13, <2>1, <2>8, <3>1
    <3> QED BY <1>4, <1>10, <2>4, <2>5, <2>6, <2>9, <3>2, <3>3
  <2>11. CASE seen' = ss /\ UNCHANGED money
    <3>1. CountedInv'
      BY <1>4, <1>6, <1>8, <2>11 DEF CountedInv, money
    <3>2. ReversedInv'
      BY <1>2, <1>3, <1>4, <1>7, <1>8, <2>1, <2>7, <2>11 DEF ReversedInv, money
    <3> QED BY <1>4, <1>10, <2>4, <2>5, <2>6, <2>9, <3>1, <3>2
  <2> QED BY <2>1, <2>10, <2>11
<1> QED BY <1>1, <1>14, <1>15, <1>16, <1>17

-----------------------------------------------------------------------------
\* The invariant is inductive: one case for each kind of step.
LEMMA StepPreserves == IInv /\ [Next]_vars => IInv'
<1> SUFFICES ASSUME IInv, [Next]_vars PROVE IInv'
  OBVIOUS
<1>1. CASE \/ \E o \in OrderIds : ExchangePlaces(o) \/ ExchangeCancels(o)
           \/ \E t \in TradeIds : ExchangeMatches(t)
           \/ \E t \in TradeIds, s \in Stages : ExchangeSettles(t, s)
  BY <1>1, ExchangePreserves
<1>2. CASE \E m \in order_wire : DeliverOrder(m) \/ DeliverMismatchedOrder(m)
  BY <1>2, OrderUpdatePreserves DEF DeliverOrder, DeliverMismatchedOrder
<1>3. CASE \E m \in trade_wire : DeliverTrade(m)
  BY <1>3, TradeUpdatePreserves DEF DeliverTrade
<1>4. CASE Tick
  BY <1>4, TickPreserves
<1>5. CASE SchedulerPops
  BY <1>5, PopPreserves
<1>6. CASE UNCHANGED vars
  <2>1. TypeOK' /\ UNCHANGED Tracked
    BY <1>6 DEF vars, store, money, toT2, world, Tracked, IInv, TypeOK, StoreType, MoneyType,
                QueueType, WorldType
  <2> QED BY <2>1, Frame
<1> QED BY <1>1, <1>2, <1>3, <1>4, <1>5, <1>6 DEF Next

\* The invariant holds in every state of every behaviour of the store.
LEMMA Invariance == Spec => []IInv
BY InitEstablishes, StepPreserves, PTL DEF Spec

\* The store's maps, books, queue and messages keep their types in every behaviour.
THEOREM TypeCorrect == Spec => []TypeOK
<1>1. IInv => TypeOK
  BY DEF IInv
<1> QED BY <1>1, Invariance, PTL

\* A trade is counted at most once and reversed at most once, and only after it was
\* counted, under any repetition, reordering, delay or loss on the user channel and
\* across ttl eviction (apply_trade_update, evict_*).
THEOREM CountedOnce == Spec => []NoDoubleCount
<1>1. IInv => NoDoubleCount
  BY DEF IInv, CountedInv, ReversedInv, NoDoubleCount
<1> QED BY <1>1, Invariance, PTL
=============================================================================
