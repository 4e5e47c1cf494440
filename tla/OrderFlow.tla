----------------------------- MODULE OrderFlow -----------------------------
(***************************************************************************)
(* The life of an order across the threads: T2 sends intents over a        *)
(* bounded queue and tracks them, T3 (exec/execution_gateway) turns them   *)
(* into REST requests and the responses into feedback, T1 announces order  *)
(* updates of the user channel, T2 brings feedback and updates together in *)
(* its tracker. Requests may be answered late or never, and feedback that  *)
(* is not critical is dropped when its queue is full.                      *)
(***************************************************************************)
EXTENDS WorkingOrderTracker

CONSTANTS
    ExecCap, FeedbackCap, UserCap,  \* queue capacities
    MaxRequests,    \* bound on the requests and answers under way
    PlaceOutcomes, CancelOutcomes,  \* how the exchange may serve a request
    Fills,          \* the states fills take orders to
    RateLimited,    \* types of intent T3's own rate limiter may refuse
    TimesOut,       \* types of request that may go unanswered
    Refuses,        \* TRUE: placements may fail before they are sent
    Noise,          \* TRUE: T3 publishes feedback about no order, too
    Redundant,      \* TRUE: several cancel connections, duplicate answers dropped
    Controls,       \* commands the operator may give
    Echo,           \* whether order updates may carry the client id
    Prompt          \* TRUE: everything about an order settles before it is aged

AllOutcomes == {"OK", "NOID", "REJECT", "LIMITED", "UNAVAILABLE", "AUTH", "DONE_502", "LOST_502"}

ASSUME FlowAssumption ==
    /\ {ExecCap, FeedbackCap, UserCap, MaxRequests} \subseteq Nat \ {0}
    /\ PlaceOutcomes \cup CancelOutcomes \subseteq AllOutcomes
    /\ Fills \subseteq {"PARTIAL", "FILLED"}
    /\ RateLimited \cup TimesOut \subseteq {"PLACE", "CANCEL", "CANCEL_ALL"}
    /\ {Refuses, Noise, Redundant, Prompt} \subseteq BOOLEAN
    /\ Echo \subseteq BOOLEAN
    /\ Controls \subseteq {"CANCEL_ALL", "LIVE", "DRY_RUN"}

VARIABLES
    tracker,        \* T2: WorkingOrderTracker
    mode,           \* T2: mode of the ModeFilteredSink
    sent,           \* T2: orders sent so far
    aged,           \* orders sent more than 30 seconds ago
    exec_queue,     \* T2 -> T3
    feedback,       \* T3 -> T2
    user_queue,     \* T1 -> T2
    http,           \* requests on their way; waiting: T3 still wants the answer
    replies,        \* answers on their way to T3
    answered0,      \* T3: cancel_responded_ holds intent id 0
    disowned,       \* history: orders T2 was told, or made, to forget (see Disowns)
    fatal,
    exch,           \* exchange: state of each order
    announced       \* T1: state of each order it last announced

t2    == <<tracker, mode, sent, aged>>
queues == <<exec_queue, feedback, user_queue>>
net   == <<http, replies>>
t3    == <<answered0, disowned>>
vars  == <<t2, queues, net, t3, fatal, exch, announced>>

Open == {"LIVE", "PARTIAL"}
Done == {"FILLED", "CANCELED"}
Level(s) == CASE s = "NONE" -> 0 [] s = "LIVE" -> 1 [] s = "PARTIAL" -> 2 [] OTHER -> 3

Init ==
    /\ tracker = clear_all
    /\ mode = "LIVE"
    /\ sent = {}
    /\ aged = {}
    /\ exec_queue = <<>>
    /\ feedback = <<>>
    /\ user_queue = <<>>
    /\ http = {}
    /\ replies = {}
    /\ answered0 = FALSE
    /\ disowned = {}
    /\ fatal = FALSE
    /\ exch = [c \in ClientIds |-> "NONE"]
    /\ announced = [c \in ClientIds |-> "NONE"]

-----------------------------------------------------------------------------
\* T2: intents.

CancelAll == [type |-> "CANCEL_ALL", cid |-> NoId, eid |-> NoId, by |-> "CONTROL"]

\* Mutant: the result of try_push is taken for granted.
PushedUncapped(intents) == exec_queue \o intents

\* try_push of several intents: those that do not fit are lost.
Pushed(intents) ==
    LET all == exec_queue \o intents
    IN SubSeq(all, 1, IF Len(all) < ExecCap THEN Len(all) ELSE ExecCap)

\* In DRY_RUN the sink keeps everything but CANCEL_ALL to itself.
Filtered(intents) == IF mode = "LIVE" THEN intents ELSE <<>>

\* The strategy places an order; only an accepted intent is tracked.
T2Places(c) ==
    /\ mode = "LIVE"
    /\ c \notin sent
    /\ Len(exec_queue) < ExecCap
    /\ exec_queue' = Append(exec_queue, [type |-> "PLACE", cid |-> c, eid |-> NoId, by |-> "STRATEGY"])
    /\ tracker' = on_intent_sent(tracker, c, Cardinality(sent))
    /\ sent' = sent \cup {c}
    /\ UNCHANGED <<mode, aged, feedback, user_queue, net, t3, fatal, exch, announced>>

\* The strategy cancels an order with whatever exchange id it has, perhaps none.
T2Cancels(i) ==
    /\ mode = "LIVE"
    /\ i \in Occupied(tracker)
    /\ Len(exec_queue) < ExecCap
    /\ exec_queue' = Append(exec_queue, [type |-> "CANCEL", cid |-> tracker[i].cid,
                                         eid |-> tracker[i].eid, by |-> "STRATEGY"])
    /\ UNCHANGED <<t2, feedback, user_queue, net, t3, fatal, exch, announced>>

\* CONTROL_CANCEL_ALL: a cancel per tracked order, then the exchange-wide one.
T2CancelsAll ==
    /\ "CANCEL_ALL" \in Controls
    /\ exec_queue' = Pushed(Append(Filtered(cancels_of(tracker)), CancelAll))
    /\ UNCHANGED <<t2, feedback, user_queue, net, t3, fatal, exch, announced>>

\* CONTROL_SET_MODE: to LIVE forgets the tracked orders, to DRY_RUN keeps them.
T2SetsMode(m) ==
    /\ m \in Controls
    /\ mode' = m
    /\ tracker' = IF m = "LIVE" THEN clear_all ELSE tracker
    /\ disowned' = IF m = "LIVE" THEN disowned \cup sent ELSE disowned
    /\ UNCHANGED <<sent, aged, queues, net, answered0, fatal, exch, announced>>

-----------------------------------------------------------------------------
\* T2: events. The tracker is fed unless the mode is DRY_RUN.

\* Feedback; EXCHANGE_UNAVAILABLE is an emergency stop.
T2TakesFeedback ==
    LET fb == Head(feedback)
        tr == IF mode = "LIVE" THEN on_exec_feedback(tracker, fb) ELSE tracker
    IN /\ feedback # <<>>
       /\ feedback' = Tail(feedback)
       /\ tracker' = tr
       /\ IF fb.kind = "EXCHANGE_UNAVAILABLE"
          THEN /\ exec_queue' = Pushed(Append(Filtered(cancels_of(tr)), CancelAll))
               /\ mode' = "DRY_RUN"
          ELSE UNCHANGED <<exec_queue, mode>>
       /\ UNCHANGED <<sent, aged, user_queue, net, t3, fatal, exch, announced>>

T2TakesUserUpdate ==
    /\ user_queue # <<>>
    /\ user_queue' = Tail(user_queue)
    /\ tracker' = IF mode = "LIVE" THEN on_user_update(tracker, Head(user_queue)) ELSE tracker
    /\ UNCHANGED <<mode, sent, aged, exec_queue, feedback, net, t3, fatal, exch, announced>>

\* The collection of stale pending orders that goes with the periodic statistics.
T2Collects ==
    /\ tracker' = gc_stale_pending(tracker, aged)
    /\ tracker' # tracker
    /\ UNCHANGED <<mode, sent, aged, queues, net, t3, fatal, exch, announced>>

-----------------------------------------------------------------------------
\* T3.

Critical(kind) == kind \in {"ORDER_REJECTED", "TIMEOUT", "EXCHANGE_UNAVAILABLE"}

\* publish_feedback_raw. Critical feedback spins, and its loss is fatal; the rest is
\* dropped, which is fatal once it has happened often enough.
Publish(kind, cid, eid) ==
    IF Len(feedback) < FeedbackCap
    THEN /\ feedback' = Append(feedback, [kind |-> kind, cid |-> cid, eid |-> eid])
         /\ UNCHANGED fatal
    ELSE /\ fatal' \in IF Critical(kind) THEN {TRUE} ELSE {fatal, TRUE}
         /\ UNCHANGED feedback

\* What T3 publishes about order c says that it was not placed, because a cancel of it
\* was refused or because the answer that accepted it does not name it.
Disowns(c, wrongly) ==
    disowned' = IF wrongly /\ Len(feedback) < FeedbackCap THEN disowned \cup {c} ELSE disowned

Request(x) == [type |-> x.type, cid |-> x.cid, eid |-> x.eid, by |-> x.by, waiting |-> TRUE]

T3TakesIntent ==
    /\ exec_queue # <<>>
    /\ exec_queue' = Tail(exec_queue)
    /\ UNCHANGED <<t2, user_queue, replies, answered0, exch, announced>>

\* The rate limiter has no token: RATE_LIMITED, whatever the type of the intent.
T3RateLimits ==
    /\ T3TakesIntent
    /\ Head(exec_queue).type \in RateLimited
    /\ Publish("RATE_LIMITED", Head(exec_queue).cid, NoId)
    /\ Disowns(Head(exec_queue).cid, Head(exec_queue).type = "CANCEL")
    /\ UNCHANGED http

\* A SELL the inventory does not cover, an order that cannot be built, a cancel
\* without an exchange id.
T3Refuses ==
    /\ T3TakesIntent
    /\ \/ Head(exec_queue).type = "PLACE" /\ Refuses
       \/ Head(exec_queue).type = "CANCEL" /\ Head(exec_queue).eid = NoId
    /\ Publish("ORDER_REJECTED", Head(exec_queue).cid, NoId)
    /\ Disowns(Head(exec_queue).cid, Head(exec_queue).type = "CANCEL")
    /\ UNCHANGED http

T3Sends ==
    /\ T3TakesIntent
    /\ ~(Head(exec_queue).type = "CANCEL" /\ Head(exec_queue).eid = NoId)
    /\ Cardinality(http \cup replies) < MaxRequests
    /\ http' = http \cup {Request(Head(exec_queue))}
    /\ IF Head(exec_queue).type = "CANCEL_ALL"
       THEN UNCHANGED <<feedback, fatal>>
       ELSE Publish("REQUEST_SENT", Head(exec_queue).cid, NoId)
    /\ UNCHANGED disowned

\* With several cancel connections the first answer for an intent id wins, a time-out
\* included, and the cancels of send_all_cancels and CANCEL_ALL all have intent id 0.
Deduplicated(r) == r.type # "PLACE" /\ Redundant /\ r.by = "CONTROL"
Ignored(r) == Deduplicated(r) /\ answered0
Responded(r) == answered0' = (answered0 \/ Deduplicated(r))

\* No answer: the connection failed or the request timed out. It may still arrive.
T3TimesOut(q) ==
    /\ q.waiting
    /\ q.type \in TimesOut
    /\ http' = (http \ {q}) \cup {[q EXCEPT !.waiting = FALSE]}
    /\ Responded(q)
    /\ IF Ignored(q) THEN UNCHANGED <<feedback, fatal>> ELSE Publish("TIMEOUT", q.cid, NoId)
    /\ UNCHANGED <<t2, exec_queue, user_queue, replies, disowned, exch, announced>>

\* on_order_response. NOID: success without an order id, or a body that is not parsed.
OrderFeedback(r) ==
    CASE r.answer = "OK" -> Publish("ORDER_ACCEPTED", r.cid, r.cid)
      [] r.answer \in {"NOID", "REJECT"} -> Publish("ORDER_REJECTED", r.cid, NoId)
      [] r.answer = "LIMITED" -> Publish("RATE_LIMITED", r.cid, NoId)
      [] r.answer = "UNAVAILABLE" -> Publish("EXCHANGE_UNAVAILABLE", r.cid, NoId)
      [] r.answer = "AMBIGUOUS" -> Publish("TIMEOUT", r.cid, NoId)

\* on_cancel_response
CancelFeedback(r) ==
    CASE r.answer = "OK" -> Publish("CANCEL_CONFIRMED", r.cid, NoId)
      [] r.answer = "GONE" -> Publish("CANCEL_CONFIRMED", r.cid, r.eid)
      [] r.answer = "REJECT" -> Publish("ORDER_REJECTED", r.cid, NoId)
      [] r.answer = "LIMITED" -> Publish("RATE_LIMITED", r.cid, NoId)
      [] r.answer = "UNAVAILABLE" -> Publish("EXCHANGE_UNAVAILABLE", r.cid, NoId)
      [] r.answer = "AMBIGUOUS" -> Publish("TIMEOUT", r.cid, NoId)

T3TakesReply(r) ==
    /\ replies' = replies \ {r}
    /\ Responded(r)
    /\ Disowns(r.cid, \/ r.type = "PLACE" /\ r.answer = "NOID"
                      \/ /\ r.type = "CANCEL" /\ ~Ignored(r)
                         /\ r.answer \in {"REJECT", "LIMITED", "UNAVAILABLE", "AUTH"})
    /\ IF Ignored(r) THEN UNCHANGED <<feedback, fatal>>
       ELSE IF r.answer = "AUTH"
       THEN /\ feedback' = IF Len(feedback) < FeedbackCap
                           THEN Append(feedback, [kind |-> "ORDER_REJECTED", cid |-> r.cid, eid |-> NoId])
                           ELSE feedback
            /\ fatal' = TRUE
       ELSE IF r.type = "PLACE" THEN OrderFeedback(r) ELSE CancelFeedback(r)
    /\ UNCHANGED <<t2, exec_queue, user_queue, http, exch, announced>>

\* Feedback about no order: heartbeats, gateway degraded and recovered.
T3PublishesOther ==
    /\ Noise
    /\ Len(feedback) < FeedbackCap
    /\ Publish("OTHER", NoId, NoId)
    /\ UNCHANGED <<t2, exec_queue, user_queue, net, t3, exch, announced>>

-----------------------------------------------------------------------------
\* The exchange, the network and T1.

Answer(q, answer) ==
    IF q.waiting
    THEN replies' = replies \cup {[type |-> q.type, cid |-> q.cid, eid |-> q.eid,
                                   by |-> q.by, answer |-> answer]}
    ELSE UNCHANGED replies

Said(out) == IF out \in {"DONE_502", "LOST_502"} THEN "AMBIGUOUS" ELSE out

ExchangeServes(q) ==
    /\ http' = http \ {q}
    /\ UNCHANGED <<t2, queues, t3, fatal, announced>>

ExchangePlaces(q, out) ==
    /\ q.type = "PLACE"
    /\ ExchangeServes(q)
    /\ exch' = IF out \in {"OK", "NOID", "DONE_502"} THEN [exch EXCEPT ![q.cid] = "LIVE"] ELSE exch
    /\ Answer(q, Said(out))

Cancelable(q) == {c \in ClientIds : exch[c] \in Open /\ q.eid \in {c, NoId}}

ExchangeCancels(q, out) ==
    /\ q.type # "PLACE"
    /\ out # "NOID"
    /\ ExchangeServes(q)
    /\ exch' = IF out \in {"OK", "DONE_502"}
               THEN [c \in ClientIds |-> IF c \in Cancelable(q) THEN "CANCELED" ELSE exch[c]]
               ELSE exch
    /\ Answer(q, IF out = "OK" /\ q.type = "CANCEL" /\ Cancelable(q) = {} THEN "GONE" ELSE Said(out))

\* A request T3 gave up on never gets there.
NetworkLoses(q) ==
    /\ ~q.waiting
    /\ http' = http \ {q}
    /\ UNCHANGED <<t2, queues, replies, t3, fatal, exch, announced>>

ExchangeFills(c, s) ==
    /\ exch[c] \in Open
    /\ Level(s) > Level(exch[c])
    /\ exch' = [exch EXCEPT ![c] = s]
    /\ UNCHANGED <<t2, queues, net, t3, fatal, announced>>

\* The states of an order the user channel may still tell: T1 drops what is older
\* than what it has announced.
News(c) == {s \in {"LIVE", "PARTIAL"} : Level(announced[c]) < Level(s) /\ Level(s) < Level(exch[c])}
           \cup {s \in {exch[c]} : Level(announced[c]) < Level(s)}

\* Room is needed: a user_queue that stays full is fatal in T1 (see ExecStateStore).
T1Announces(c, s, echo) ==
    /\ s \in News(c)
    /\ Len(user_queue) < UserCap
    /\ user_queue' = Append(user_queue, [order |-> c, client |-> IF echo THEN c ELSE NoId, status |-> s])
    /\ announced' = [announced EXCEPT ![c] = s]
    /\ UNCHANGED <<t2, exec_queue, feedback, net, t3, fatal, exch>>

Unsettled(c) ==
    \/ \E k \in DOMAIN exec_queue : exec_queue[k].cid = c
    \/ \E k \in DOMAIN feedback : feedback[k].cid = c
    \/ \E k \in DOMAIN user_queue : user_queue[k].order = c
    \/ \E q \in http \cup replies : q.cid = c
    \/ News(c) # {}

Age(c) ==
    /\ c \in sent \ aged
    /\ Prompt => ~Unsettled(c)
    /\ aged' = aged \cup {c}
    /\ UNCHANGED <<tracker, mode, sent, queues, net, t3, fatal, exch, announced>>

-----------------------------------------------------------------------------
T2 == \/ \E c \in ClientIds : T2Places(c)
      \/ \E i \in Slots : T2Cancels(i)
      \/ T2CancelsAll
      \/ \E m \in {"LIVE", "DRY_RUN"} : T2SetsMode(m)
      \/ T2TakesFeedback
      \/ T2TakesUserUpdate
      \/ T2Collects

T3 == \/ T3RateLimits \/ T3Refuses \/ T3Sends
      \/ \E q \in http : T3TimesOut(q)
      \/ \E r \in replies : T3TakesReply(r)
      \/ T3PublishesOther

Outside ==
    \/ \E q \in http, out \in PlaceOutcomes : ExchangePlaces(q, out)
    \/ \E q \in http, out \in CancelOutcomes : ExchangeCancels(q, out)
    \/ \E q \in http : NetworkLoses(q)
    \/ \E c \in ClientIds, s \in Fills : ExchangeFills(c, s)
    \/ \E c \in ClientIds, s \in Open \cup Done, echo \in Echo : T1Announces(c, s, echo)
    \/ \E c \in ClientIds : Age(c)

Next == T2 \/ T3 \/ Outside

Spec == Init /\ [][Next]_vars

\* Every thread keeps running its loop, time passes, and the user channel tells the
\* last state of every order sooner or later. Nothing is assumed of the exchange's
\* answers, of fills or of the operator.
Fairness ==
    /\ WF_vars(T2TakesFeedback)
    /\ WF_vars(T2TakesUserUpdate)
    /\ WF_vars(T2Collects)
    /\ \A c \in ClientIds :
        /\ WF_vars(Age(c))
        /\ WF_vars(\E s \in Open \cup Done, echo \in Echo : T1Announces(c, s, echo))

FairSpec == Spec /\ Fairness

-----------------------------------------------------------------------------
\* Properties.

\* The tracker, the queues, the network and the exchange hold values of their types.
TypeOK ==
    /\ tracker \in [Slots -> WorkingOrder]
    /\ mode \in {"LIVE", "DRY_RUN"}
    /\ aged \subseteq sent /\ sent \subseteq ClientIds
    /\ Len(exec_queue) <= ExecCap /\ Len(feedback) <= FeedbackCap /\ Len(user_queue) <= UserCap
    /\ {fatal, answered0} \subseteq BOOLEAN
    /\ \A c \in ClientIds : exch[c] \in {"NONE"} \cup Open \cup Done /\ Level(announced[c]) <= Level(exch[c])

\* Whatever order feedback and user updates come in, a slot holds the exchange id of
\* its own order, and no order has two slots: late correlation by asset, side and
\* price goes right when no two orders at large have all three in common.
IdsCorrelateRight ==
    /\ \A i \in Slots : tracker[i].eid \in {NoId, tracker[i].cid}
    /\ \A i, j \in Occupied(tracker) : tracker[i].cid = tracker[j].cid => i = j

\* While T2 trades, an order open on the exchange is in the tracker, so that cancelling
\* what is tracked cancels it: a timeout, an update that overtakes the acceptance, a
\* dropped acceptance or confirmation, or a placement served after T3 gave up on it
\* loses no order. What does lose one is T3 reporting a refused cancel, or an
\* acceptance that names no order, as "not placed" (execution_gateway.cpp:620, 1072),
\* and SET_MODE LIVE, which clears the tracker: these orders are in disowned.
NoLostOrder ==
    mode = "LIVE" /\ ~fatal =>
        \A c \in ClientIds : exch[c] \in Open => c \in Tracked(tracker) \cup disowned

\* A tracked order that is not open on the exchange does not stay: feedback that was
\* dropped or never came is made up for by user updates or the collection.
PhantomsEnd ==
    \A c \in ClientIds : []<>(c \notin Tracked(tracker) \/ exch[c] \in Open \/ mode = "DRY_RUN")

\* "Order was definitively not placed -- remove from tracker": what is removed on
\* ORDER_REJECTED, RATE_LIMITED or EXCHANGE_UNAVAILABLE is not open on the exchange.
RejectedWasNotPlaced ==
    [][\A c \in Tracked(tracker) :
        /\ feedback # <<>> /\ feedback' = Tail(feedback)
        /\ Head(feedback).kind \in NotPlaced
        /\ c \notin Tracked(tracker')
        => exch[c] \notin Open]_vars
=============================================================================
