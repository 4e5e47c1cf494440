------------------------ MODULE WorkingOrderTracker ------------------------
(***************************************************************************)
(* T2's table of the orders it has sent (scheduler/working_order_tracker), *)
(* as operators from one state of the table to the next. An order is named *)
(* by its client id; the exchange's id of an order is named by the same    *)
(* value, NoId standing for an id nobody has told the tracker yet. Sizes   *)
(* and filled sizes only feed the risk gate and are left out.              *)
(***************************************************************************)
EXTENDS Integers, Sequences, FiniteSets, SequencesExt

CONSTANTS
    ClientIds,
    Quotes,         \* asset, side and price, as one value
    QuoteOf,        \* the quote of each order
    MaxWorking,     \* kMaxWorking: slots in the table
    NoId

ASSUME TrackerAssumption ==
    /\ QuoteOf \in [ClientIds -> Quotes]
    /\ MaxWorking \in Nat
    /\ NoId \notin ClientIds

Slots == 1 .. MaxWorking
Ids == ClientIds \cup {NoId}
WorkingOrder == [cid : Ids, eid : Ids, pending : BOOLEAN, sent : Nat]
Free == [cid |-> NoId, eid |-> NoId, pending |-> FALSE, sent |-> 0]

Occupied(tr) == {i \in Slots : tr[i].cid # NoId}
Tracked(tr)  == {tr[i].cid : i \in Occupied(tr)}

\* The first slot of a set, 0 when there is none.
First(S) == IF S = {} THEN 0 ELSE CHOOSE i \in S : \A j \in S : i <= j

find_free_slot(tr) == First(Slots \ Occupied(tr))

find_slot_by_client_id(tr, id) == First({i \in Occupied(tr) : id # NoId /\ tr[i].cid = id})

find_slot_by_exchange_id(tr, id) == First({i \in Occupied(tr) : id # NoId /\ tr[i].eid = id})

\* Mutant: the fallback takes any order that has no exchange id yet.
any_uncorrelated_slot(tr, order) == First({i \in Occupied(tr) : tr[i].eid = NoId})

\* The oldest order with the same asset, side and price and no exchange id yet, the
\* last slot of several that were sent at once. (An update without a price would match
\* by asset and side alone; the parser of the user channel requires one.)
find_slot_for_user_update_fallback(tr, order) ==
    LET like == {i \in Occupied(tr) : tr[i].eid = NoId /\ QuoteOf[tr[i].cid] = QuoteOf[order]}
        oldest == {i \in like : \A j \in like : tr[i].sent <= tr[j].sent}
    IN First({i \in oldest : \A j \in oldest : j <= i})

remove_slot(tr, i) == IF i = 0 THEN tr ELSE [tr EXCEPT ![i] = Free]

\* A full table leaves the order out; the caller only logs it.
on_intent_sent(tr, id, sent) ==
    LET i == find_free_slot(tr)
    IN IF i = 0 THEN tr
       ELSE [tr EXCEPT ![i] = [cid |-> id, eid |-> NoId, pending |-> TRUE, sent |-> sent]]

NotPlaced == {"ORDER_REJECTED", "RATE_LIMITED", "EXCHANGE_UNAVAILABLE"}

\* Mutant: an answer that never came is taken for a refusal.
on_exec_feedback_hasty(tr, fb) ==
    LET mine == find_slot_by_client_id(tr, fb.cid)
    IN CASE fb.kind = "ORDER_ACCEPTED" /\ mine # 0 ->
              [tr EXCEPT ![mine].pending = FALSE,
                         ![mine].eid = IF fb.eid # NoId THEN fb.eid ELSE @]
         [] fb.kind \in NotPlaced \cup {"TIMEOUT"} -> remove_slot(tr, mine)
         [] OTHER -> tr

on_exec_feedback(tr, fb) ==
    LET mine   == find_slot_by_client_id(tr, fb.cid)
        theirs == find_slot_by_exchange_id(tr, fb.eid)
    IN CASE fb.kind = "ORDER_ACCEPTED" /\ mine # 0 ->
              [tr EXCEPT ![mine].pending = FALSE,
                         ![mine].eid = IF fb.eid # NoId THEN fb.eid ELSE @]
         [] fb.kind \in NotPlaced -> remove_slot(tr, mine)
         [] fb.kind = "CANCEL_CONFIRMED" -> remove_slot(tr, IF theirs # 0 THEN theirs ELSE mine)
         [] OTHER -> tr

\* Which slot an order update of the user channel is about.
slot_of_update(tr, ev) ==
    LET theirs == find_slot_by_exchange_id(tr, ev.order)
        mine   == find_slot_by_client_id(tr, ev.client)
    IN CASE theirs # 0 -> theirs
         [] theirs = 0 /\ mine # 0 -> mine
         [] OTHER -> find_slot_for_user_update_fallback(tr, ev.order)

\* Updates of trades change nothing: only order events end an order.
on_user_update(tr, ev) ==
    LET i == slot_of_update(tr, ev)
    IN CASE i = 0 -> tr
         [] i # 0 /\ ev.status \in {"FILLED", "CANCELED"} -> remove_slot(tr, i)
         [] OTHER -> [tr EXCEPT ![i].eid = ev.order, ![i].pending = FALSE]

\* Mutant: the collection never finds anything old enough.
gc_nothing(tr, aged) == tr

gc_stale_pending(tr, aged) ==
    [i \in Slots |-> IF tr[i].pending /\ tr[i].cid \in aged THEN Free ELSE tr[i]]

clear_all == [i \in Slots |-> Free]

\* send_all_cancels: one intent per occupied slot in slot order, with intent id 0
\* and whatever exchange id the slot has.
cancels_of(tr) ==
    LET order == SetToSortSeq(Occupied(tr), <)
    IN [k \in DOMAIN order |-> [type |-> "CANCEL", cid |-> tr[order[k]].cid,
                                eid |-> tr[order[k]].eid, by |-> "CONTROL"]]
=============================================================================
