--------------------------- MODULE GatewayOrders ---------------------------
(***************************************************************************)
(* Placing orders from the gateway thread with batching on                 *)
(* (src/exec/execution_gateway.cpp): poll_intents accumulates the intents  *)
(* that the rate limiter lets through, a batch goes out as one request,    *)
(* and a SELL reserves its quantity against the shared token inventory     *)
(* from the gate until its first terminal feedback.  The connection, the   *)
(* exchange's matching and T2 are the environment.                         *)
(***************************************************************************)
EXTENDS Integers, Sequences, FiniteSets, SequencesExt, FiniteSetsExt

CONSTANTS Assets, Sizes,
          BatchMax,     \* effective_batch_max()
          MaxOrders,    \* intents T2 makes
          MaxQueued,    \* intents waiting for one poll
          MaxPosition

VARIABLE gw

Intents == [id : 1 .. MaxOrders, side : {"BID", "ASK"}, asset : Assets, size : Sizes]

GwInit ==
    \E positions \in [Assets -> 0 .. MaxPosition] :
        gw = [made |-> 0, queue |-> <<>>, positions |-> positions,
             inflight_sell_qty |-> [a \in Assets |-> 0],
             inflight_sell_intents |-> {}, batch_buf |-> <<>>,
             requests |-> {}, feedback |-> [i \in 1 .. MaxOrders |-> 0],
             resting |-> {}]

AtLeastZero(n) == IF n > 0 THEN n ELSE 0

position_for(s, a) == s.positions[a]

\* A terminal feedback for an intent releases its reservation; the quantity
\* is clamped at zero.
publish_feedback_raw(s, intent) ==
    LET held == {e \in s.inflight_sell_intents : e.id = intent.id}
        Less(a) == MapThenSumSet(LAMBDA e : e.qty, {e \in held : e.asset = a})
    IN  [s EXCEPT !.inflight_sell_intents = @ \ held,
                  !.inflight_sell_qty = [a \in Assets |-> AtLeastZero(@[a] - Less(a))],
                  !.feedback[intent.id] = @ + 1]

publish_each(s, intents) == FoldLeft(publish_feedback_raw, s, intents)

reserves(s, intents) ==
    LET sells == {intents[i] : i \in {j \in DOMAIN intents : intents[j].side = "ASK"}}
    IN  [s EXCEPT
           !.inflight_sell_qty = [a \in Assets |->
               @[a] + MapThenSumSet(LAMBDA e : e.size, {e \in sells : e.asset = a})],
           !.inflight_sell_intents =
               @ \cup {[id |-> e.id, asset |-> e.asset, qty |-> e.size] : e \in sells}]

sends(s, intents) == [s EXCEPT !.requests = @ \cup {intents}]

\* broken: the intents that OrderBuilder cannot build.
send_place_order(s, intent, broken) ==
    LET short == /\ intent.side = "ASK"
                 /\ position_for(s, intent.asset) - s.inflight_sell_qty[intent.asset]
                        < intent.size
        held == reserves(s, <<intent>>)
    IN  IF short THEN publish_each(s, <<intent>>)
        ELSE IF intent.id \in broken THEN publish_each(held, <<intent>>)
        ELSE sends(held, <<intent>>)

\* Every SELL of the batch is held against the reservations made before the
\* batch; those of the batch itself come after the loop.
send_place_order_batch(s, intents, broken) ==
    LET Free(a) == AtLeastZero(position_for(s, a) - s.inflight_sell_qty[a])
        Valid(e) == e.side = "BID" \/ Free(e.asset) >= e.size
        valid == SelectSeq(intents, Valid)
        t == publish_each(s, SelectSeq(intents, LAMBDA e : ~Valid(e)))
        held == reserves(t, valid)
    IN  CASE valid = <<>> -> t
          [] Len(valid) = 1 -> send_place_order(t, valid[1], broken)
          [] Len(valid) > 1 /\ (\E i \in DOMAIN valid : valid[i].id \in broken) ->
                publish_each(held, valid)
          [] OTHER -> sends(held, valid)

flush_order_batch(s, broken) ==
    LET t == [s EXCEPT !.batch_buf = <<>>]
    IN  CASE Len(s.batch_buf) = 0 -> s
          [] Len(s.batch_buf) = 1 -> send_place_order(t, s.batch_buf[1], broken)
          [] OTHER -> send_place_order_batch(t, s.batch_buf, broken)

\* granted: the intents that the rate limiter lets through.
poll_intents(s, granted, broken) ==
    LET Take(t, intent) ==
            LET u == [t EXCEPT !.batch_buf = Append(@, intent)]
            IN  IF intent.id \notin granted THEN publish_each(t, <<intent>>)
                ELSE IF Len(u.batch_buf) >= BatchMax THEN flush_order_batch(u, broken)
                ELSE u
    IN  flush_order_batch(FoldLeft(Take, [s EXCEPT !.queue = <<>>], s.queue), broken)

\* Mutant: the entries that a short answer leaves out are forgotten.
on_batch_order_response_short(s, req, items, accepted) ==
    publish_each([s EXCEPT !.requests = @ \ {req},
                      !.resting = @ \cup {req[i] : i \in accepted}],
            SubSeq(req, 1, items))

\* Items are matched to entries by their place; entries without an item are
\* rejected, as are all of them when the request fails as a whole (items = 0).
\* accepted: the entries that the exchange has put on the book, which after a
\* timeout may be any of them.
on_batch_order_response(s, req, items, accepted) ==
    publish_each([s EXCEPT !.requests = @ \ {req},
                      !.resting = @ \cup {req[i] : i \in accepted}],
            SubSeq(req, 1, items) \o SubSeq(req, items + 1, Len(req)))
-----------------------------------------------------------------------------
T2MakesIntent ==
    /\ gw.made < MaxOrders /\ Len(gw.queue) < MaxQueued
    /\ \E e \in Intents :
          /\ e.id = gw.made + 1
          /\ gw' = [gw EXCEPT !.made = @ + 1, !.queue = Append(@, e)]

T3PollsIntents ==
    /\ gw.queue # <<>>
    /\ \E granted, broken \in SUBSET {gw.queue[i].id : i \in DOMAIN gw.queue} :
          gw' = poll_intents(gw, granted, broken)

T3TakesAnswer ==
    \E req \in gw.requests :
        \E items \in 0 .. Len(req), accepted \in SUBSET DOMAIN req :
            gw' = on_batch_order_response(gw, req, items, accepted)

\* T1 applies a fill of an order that rests, or its cancellation.
T1AdjustsPosition ==
    \E e \in gw.resting :
        \/ gw' = [gw EXCEPT !.resting = @ \ {e}]
        \/ gw' = [gw EXCEPT !.resting = @ \ {e},
                          !.positions[e.asset] =
                              @ + (IF e.side = "BID" THEN e.size ELSE -e.size)]

GwNext == T2MakesIntent \/ T3PollsIntents \/ T3TakesAnswer \/ T1AdjustsPosition

GwSpec == GwInit /\ [][GwNext]_gw
-----------------------------------------------------------------------------
\* Everything is in its domain, and the batch buffer is empty between polls.
GwTypeOK ==
    /\ gw.made \in 0 .. MaxOrders
    /\ \A i \in 1 .. MaxOrders : gw.feedback[i] \in 0 .. 1
    /\ \A a \in Assets : gw.positions[a] \in Int /\ gw.inflight_sell_qty[a] \in Nat
    /\ gw.batch_buf = <<>>
    /\ \A r \in gw.requests : \A i \in DOMAIN r : r[i] \in Intents

Outstanding == UNION {{r[i] : i \in DOMAIN r} : r \in gw.requests}

\* A SELL holds its reservation exactly while its request is unanswered, for
\* exactly its quantity, and an intent that is neither queued nor on its way
\* has had its one terminal feedback: batches, refusals, short answers and
\* failed builds neither leak inventory nor give any back twice.
ReservationsReturn ==
    /\ \A a \in Assets :
          gw.inflight_sell_qty[a] =
              MapThenSumSet(LAMBDA e : e.size,
                            {e \in Outstanding : e.side = "ASK" /\ e.asset = a})
    /\ {e.id : e \in gw.inflight_sell_intents} =
           {e.id : e \in {f \in Outstanding : f.side = "ASK"}}
    /\ \A i \in 1 .. gw.made :
          \/ gw.feedback[i] = 1
          \/ \E j \in DOMAIN gw.queue : gw.queue[j].id = i
          \/ \E e \in Outstanding : e.id = i
=============================================================================
