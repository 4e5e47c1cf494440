---------------------------- MODULE TestStrategy ----------------------------
(***************************************************************************)
(* The three-phase smoke-test strategy (src/scheduler/test_strategy.cpp):  *)
(* T2 evaluates it on every event, and it walks through placing and        *)
(* cancelling two orders far from the market, two orders at the market     *)
(* with a hedge when only one fills, and two immediate orders.  The        *)
(* gateway, the exchange and the user feed are the environment: answers    *)
(* and feed messages arrive in any order, or not at all.  A phase that its *)
(* handler leaves in the same call (P1_PLACE, P1_CANCEL, P2_PLACE,         *)
(* P2_CLEANUP, P3_FAK_BUY, P3_FAK_SELL) is not a state.                    *)
(***************************************************************************)
EXTENDS Integers, Sequences, FiniteSets

CONSTANT MaxMessages    \* messages on their way to T2

VARIABLE st

TestPhases ==
    {"WAIT_FOR_BBO", "P1_WAIT_ACCEPTED", "P1_WAIT_LIVE", "P1_HOLD", "P1_WAIT_CANCELED",
     "P2_WAIT_ACCEPTED", "P2_WAIT_FILLS", "P2_WAIT_CLEANUP", "P3_WAIT_BUY",
     "P3_WAIT_SELL", "DONE"}

\* A slot follows the order with its client id; exchange_id: it knows the
\* exchange's id too.
OrderSlot ==
    [client_id : 0 .. 8, exchange_id : BOOLEAN, accepted : BOOLEAN, live : BOOLEAN,
     filled : BOOLEAN, canceled : BOOLEAN, rejected : BOOLEAN]

TrackingSlot(id) ==
    [client_id |-> id, exchange_id |-> FALSE, accepted |-> FALSE, live |-> FALSE,
     filled |-> FALSE, canceled |-> FALSE, rejected |-> FALSE]

EmptySlot == TrackingSlot(0)

\* orders: what became of each order placed, by client id.  waited: how long
\* the strategy has been in its phase, against kHoldNs and kTimeoutNs.
TestInit ==
    st = [phase |-> "WAIT_FOR_BBO", slot |-> [k \in 0 .. 1 |-> EmptySlot],
          cleanup_unfilled_idx |-> -1, cleanup_retry_issued |-> FALSE,
          orders |-> <<>>, messages |-> {}]

\* known: the strategy was told the exchange's id of the order.
Placed(type) ==
    [type |-> type, at |-> "sent", part |-> FALSE, cancel |-> "none", known |-> FALSE]

NewId(s, n) == Len(s.orders) + n

\* The strategy is done with its slots: messages for them are not told apart
\* from any other event, and how an order that is gone ended does not matter.
resets(s) ==
    [s EXCEPT !.slot = [k \in 0 .. 1 |-> EmptySlot], !.messages = {},
              !.orders = [id \in DOMAIN @ |->
                             IF @[id].at = "gone" THEN [@[id] EXCEPT !.cancel = "none"]
                             ELSE @[id]]]

places_pair(s, next) ==
    LET t == resets(s)
    IN  [t EXCEPT !.phase = next,
                  !.slot = [k \in 0 .. 1 |-> TrackingSlot(NewId(s, k + 1))],
                  !.orders = @ \o <<Placed("GTC"), Placed("GTC")>>]

places_in_slot(s, k, next) ==
    [s EXCEPT !.phase = next, !.slot[k] = TrackingSlot(NewId(s, 1)),
              !.orders = Append(@, Placed("FAK"))]

\* A cancel names its order by the exchange's id; without it, the gateway
\* refuses the cancel as ORDER_REJECTED for the client id.
cancels(s, k) ==
    LET id == s.slot[k].client_id
    IN  [s EXCEPT !.slot[k].canceled = FALSE,
                  !.orders[id].cancel = IF s.slot[k].exchange_id THEN "sent" ELSE "refusing"]

cancels_both(s) == cancels(cancels(s, 0), 1)

handle_p1_place(s) == places_pair(s, "P1_WAIT_ACCEPTED")

handle_p2_place(s) == places_pair(s, "P2_WAIT_ACCEPTED")

handle_p3_fak_buy(s) == places_in_slot(resets(s), 0, "P3_WAIT_BUY")

handle_p3_fak_sell(s) == places_in_slot(s, 1, "P3_WAIT_SELL")

handle_p1_cancel(s) == [cancels_both(s) EXCEPT !.phase = "P1_WAIT_CANCELED"]

Both(s, P(_)) == P(s.slot[0]) /\ P(s.slot[1])

Ended(slot) == slot.canceled \/ slot.rejected

handle_p1_wait_accepted(s) ==
    IF Both(s, LAMBDA x : x.accepted) THEN [s EXCEPT !.phase = "P1_WAIT_LIVE"]
    ELSE IF s.slot[0].rejected \/ s.slot[1].rejected THEN handle_p1_cancel(s)
    ELSE s

handle_p1_wait_live(s) ==
    IF Both(s, LAMBDA x : x.live) THEN [s EXCEPT !.phase = "P1_HOLD"] ELSE s

handle_p1_hold(s, held) == IF held THEN handle_p1_cancel(s) ELSE s

handle_p1_wait_canceled(s) == IF Both(s, Ended) THEN handle_p2_place(s) ELSE s

\* One side filled: hedge it in its own slot and cancel the other.
handle_p2_cleanup(s) ==
    LET t == [s EXCEPT !.cleanup_unfilled_idx = -1, !.cleanup_retry_issued = FALSE,
                       !.phase = "P2_WAIT_CLEANUP"]
        unfilled == IF s.slot[0].filled THEN 1 ELSE 0
    IN  IF Both(s, LAMBDA x : x.filled) THEN handle_p3_fak_buy(t)
        ELSE IF Both(s, LAMBDA x : ~x.filled) THEN cancels_both(t)
        ELSE cancels(places_in_slot([t EXCEPT !.cleanup_unfilled_idx = unfilled],
                                    1 - unfilled, "P2_WAIT_CLEANUP"),
                     unfilled)

handle_p2_wait_accepted(s) ==
    IF Both(s, LAMBDA x : x.accepted) THEN [s EXCEPT !.phase = "P2_WAIT_FILLS"]
    ELSE IF s.slot[0].rejected \/ s.slot[1].rejected THEN handle_p2_cleanup(s)
    ELSE s

handle_p2_wait_fills(s, held) ==
    IF Both(s, LAMBDA x : x.filled) THEN handle_p3_fak_buy(s)
    ELSE IF held THEN handle_p2_cleanup(s)
    ELSE s

\* A rejected hedge is tried once more.
handle_p2_wait_cleanup(s) ==
    LET k == s.cleanup_unfilled_idx
        hedge == s.slot[1 - k]
        cleared == [s EXCEPT !.cleanup_unfilled_idx = -1, !.cleanup_retry_issued = FALSE]
    IN  IF k < 0 THEN (IF Both(s, Ended) THEN handle_p3_fak_buy(cleared) ELSE s)
        ELSE IF ~Ended(s.slot[k]) THEN s
        ELSE IF hedge.accepted \/ hedge.filled THEN handle_p3_fak_buy(cleared)
        ELSE IF ~hedge.rejected THEN s
        ELSE IF s.cleanup_retry_issued THEN [resets(cleared) EXCEPT !.phase = "DONE"]
        ELSE [places_in_slot(s, 1 - k, "P2_WAIT_CLEANUP") EXCEPT !.cleanup_retry_issued = TRUE]

Attempted(slot) == slot.accepted \/ slot.filled \/ slot.rejected

handle_p3_wait_buy(s) ==
    IF Attempted(s.slot[0]) THEN handle_p3_fak_sell([s EXCEPT !.slot[0] = EmptySlot]) ELSE s

handle_p3_wait_sell(s) ==
    IF Attempted(s.slot[1]) THEN [resets(s) EXCEPT !.phase = "DONE"] ELSE s

\* A feed message finds its slot by the exchange's id, or by the client id
\* where it carries one.
process_order_event(s, m) ==
    LET Applied(slot) ==
            CASE m.kind = "accepted" ->
                    [slot EXCEPT !.accepted = TRUE, !.exchange_id = TRUE, !.live = TRUE]
              [] m.kind = "rejected" -> [slot EXCEPT !.rejected = TRUE]
              [] m.kind \in {"canceled", "cancel_confirmed"} -> [slot EXCEPT !.canceled = TRUE]
              [] m.kind = "live" -> [slot EXCEPT !.live = TRUE]
              [] m.kind = "filled" -> [slot EXCEPT !.filled = TRUE]
        Matches(slot) ==
            /\ slot.client_id = m.id
            /\ m.kind \in {"live", "canceled", "filled"} => slot.exchange_id \/ m.named
        told == m.kind = "accepted" /\ s.orders[m.id].at = "book"
                    /\ \E k \in 0 .. 1 : Matches(s.slot[k])
    IN  [s EXCEPT !.slot = [k \in 0 .. 1 |-> IF Matches(@[k]) THEN Applied(@[k]) ELSE @[k]],
                  !.orders[m.id].known = @ \/ told]

dispatch(s, held) ==
    CASE s.phase = "P1_WAIT_ACCEPTED" -> handle_p1_wait_accepted(s)
      [] s.phase = "P1_WAIT_LIVE" -> handle_p1_wait_live(s)
      [] s.phase = "P1_HOLD" -> handle_p1_hold(s, held)
      [] s.phase = "P1_WAIT_CANCELED" -> handle_p1_wait_canceled(s)
      [] s.phase = "P2_WAIT_ACCEPTED" -> handle_p2_wait_accepted(s)
      [] s.phase = "P2_WAIT_FILLS" -> handle_p2_wait_fills(s, held)
      [] s.phase = "P2_WAIT_CLEANUP" -> handle_p2_wait_cleanup(s)
      [] s.phase = "P3_WAIT_BUY" -> handle_p3_wait_buy(s)
      [] s.phase = "P3_WAIT_SELL" -> handle_p3_wait_sell(s)
      [] OTHER -> s
-----------------------------------------------------------------------------
\* The first market event with both sides starts the test.
FirstBbo ==
    /\ st.phase = "WAIT_FOR_BBO"
    /\ st' = handle_p1_place(st)

\* Any other event runs the handler of the phase; what it may find is how
\* long the phase has lasted.
OtherEvent ==
    /\ st.phase \notin {"WAIT_FOR_BBO", "DONE"}
    /\ \E held \in BOOLEAN : st' = dispatch(st, held)

OrderMessage ==
    /\ st.phase # "DONE"
    /\ \E m \in st.messages :
          st' = dispatch(process_order_event([st EXCEPT !.messages = @ \ {m}], m), FALSE)

\* The market resolves, or thirty seconds pass in one phase.
StopsTest ==
    /\ st.phase # "DONE"
    /\ st' = [resets(st) EXCEPT !.phase = "DONE"]

Followed == {st.slot[k].client_id : k \in 0 .. 1}

CanTell == st.phase # "DONE" /\ Cardinality(st.messages) < MaxMessages

\* A message goes out for an order; those for an order that no slot follows
\* change nothing.
Tells(s, kind, id) ==
    \E named \in {FALSE, kind = "filled"} :
        st' = IF id \notin Followed THEN s
              ELSE [s EXCEPT !.messages = @ \cup {[kind |-> kind, id |-> id, named |-> named]}]

Gone(id) == [st EXCEPT !.orders[id] = [@ EXCEPT !.at = "gone", !.part = FALSE, !.known = FALSE]]

\* The gateway's answer to an order; a request that timed out has none, and
\* may have put the order on the book.  An order that was taken is reported
\* as rejected if the answer does not name it or is not parsed.
OrderAnswered ==
    /\ CanTell
    /\ \E id \in DOMAIN st.orders :
        LET taken == IF st.orders[id].type = "FAK" THEN Gone(id)
                     ELSE [st EXCEPT !.orders[id].at = "book"]
        IN  /\ st.orders[id].at = "sent"
            /\ \/ Tells(taken, "accepted", id)
               \/ Tells(Gone(id), "rejected", id)
               \/ Tells(taken, "rejected", id)
               \/ st' \in {taken, Gone(id)}

\* The exchange lists an order, fills it in part or whole, or takes it off; an
\* order that no slot follows may as well stay.
ExchangeActs ==
    /\ CanTell
    /\ \E id \in Followed \cap DOMAIN st.orders :
          /\ st.orders[id].at = "book"
          /\ \/ Tells(st, "live", id)
             \/ Tells([st EXCEPT !.orders[id].part = TRUE], "filled", id)
             \/ Tells(Gone(id), "filled", id)
             \/ Tells(Gone(id), "canceled", id)

\* The gateway's answer to a cancel: done, refused by the rate limiter, or one
\* that the strategy does not react to.
CancelAnswered ==
    /\ CanTell
    /\ \E id \in Followed \cap DOMAIN st.orders :
          LET cancel == st.orders[id].cancel
              Closed(s) == [s EXCEPT !.orders[id].cancel = "answered"]
          IN  \/ cancel = "sent" /\ Tells(Closed(Gone(id)), "cancel_confirmed", id)
              \/ cancel = "sent" /\ Tells(Closed(st), "rejected", id)
              \/ cancel = "sent" /\ st' = Closed(st)
              \/ /\ cancel = "refusing"
                 /\ Tells([st EXCEPT !.orders[id].cancel = "refused"], "rejected", id)

TestNext ==
    \/ FirstBbo \/ OtherEvent \/ OrderMessage \/ StopsTest
    \/ OrderAnswered \/ ExchangeActs \/ CancelAnswered

TestSpec == TestInit /\ [][TestNext]_st
-----------------------------------------------------------------------------
\* Everything is in its domain; the test places at most eight orders.
TestTypeOK ==
    /\ st.phase \in TestPhases
    /\ \A k \in 0 .. 1 : st.slot[k] \in OrderSlot
    /\ st.cleanup_unfilled_idx \in -1 .. 1
    /\ Len(st.orders) <= 8

\* "At least one side rejected - cancel whatever was accepted and move on"
\* (test_strategy.cpp:399).  While the test runs, an order that the strategy
\* was told is accepted, and that is on the book without a fill, is followed
\* by a slot or has been asked to be cancelled by its exchange id.  The code
\* cancels the pair when the first answer is a rejection: the other order has
\* no exchange id yet, the gateway refuses its cancel unsent
\* (execution_gateway.cpp:1070), the strategy takes that for the order's end,
\* and moves on from an order accepted meanwhile.
NoOrderForgotten ==
    st.phase # "DONE" =>
        \A id \in DOMAIN st.orders :
            st.orders[id].at = "book" /\ ~st.orders[id].part /\ st.orders[id].known =>
                \/ \E k \in 0 .. 1 : st.slot[k].client_id = id
                \/ st.orders[id].cancel \in {"sent", "answered"}
=============================================================================
