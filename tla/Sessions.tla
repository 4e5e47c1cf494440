------------------------------ MODULE Sessions ------------------------------
(***************************************************************************)
(* What T2 does with the operator's commands and with T7's slot events      *)
(* (scheduler/strategy_scheduler.cpp, process_event): the execution mode    *)
(* and the dry-run simulator behind it, trading sessions that go LIVE and   *)
(* end at market boundaries, the emergency stop, the emergency sale and the *)
(* latency probe.                                                          *)
(*                                                                         *)
(* The tracked orders, which a sweep cancels one by one, are reduced to     *)
(* none or one; T3 is a consumer of intents that answers for the probe's    *)
(* order (the details are OrderFlow's).                                    *)
(***************************************************************************)
EXTENDS Slots

CONSTANTS
    EndTimes,       \* end times an operator may give a session; 0: none
    SimCap,         \* kMaxBuffered of the DryRunSimulator
    IntentCap       \* capacity of strategy_to_exec_queue

ASSUME SessionAssumption ==
    /\ EndTimes \subseteq Nat
    /\ SimCap \in Nat \ {0}
    /\ IntentCap \in Nat \ {0}

VARIABLES
    exec_mode,      \* mode of the ModeFilteredSink
    sim_on, simq,   \* the DryRunSimulator: enabled_, its buffered feedback
    session,        \* TradingSession: state, effective_end_s, and the timeframes
                    \* of the markets entered
    strat_on,       \* is the strategy enabled?
    intents,        \* number of intents on the way to T3
    probe,          \* phase of the latency probe
    probe_order,    \* its order: "none", "sent", "live" or "gone" at the exchange
    probe_cancel,   \* has T3 been sent the probe's cancel?
    probe_fb,       \* T3's feedback on the probe, on its way to T2
    armed           \* has the operator asked for LIVE since the last stop?

sink_vars    == <<exec_mode, sim_on, simq, intents>>
probe_vars   == <<probe, probe_order, probe_cancel, probe_fb>>
t2_vars      == <<sink_vars, session, strat_on, armed>>
session_vars == <<slot_vars, t2_vars, probe_vars>>

Idle == [state |-> "IDLE", end |-> 0, entered |-> {}]

\* The default: T2 starts in DRY_RUN with the strategy off.
SessionInit ==
    /\ SlotInit
    /\ exec_mode = "DRY_RUN"
    /\ sim_on = TRUE
    /\ simq = <<>>
    /\ session = Idle
    /\ strat_on = FALSE
    /\ intents = 0
    /\ probe = "IDLE"
    /\ probe_order = "none"
    /\ probe_cancel = FALSE
    /\ probe_fb = <<>>
    /\ armed = FALSE

-----------------------------------------------------------------------------
\* The sink: ModeFilteredSink over the exec queue.

\* DryRunSimulator::on_intent: a synthetic answer, unless off or full.
on_intent(q, fb) == IF sim_on /\ Len(q) < SimCap THEN Append(q, fb) ELSE q

Fits(n) == IF intents + n < IntentCap THEN intents + n ELSE IntentCap

\* A placement or a cancel that the sink is given in the present mode.
AcceptPlace ==
    IF exec_mode = "LIVE"
    THEN intents' = Fits(1) /\ UNCHANGED simq
    ELSE simq' = on_intent(simq, "ACK") /\ UNCHANGED intents

\* send_all_cancels, own of them, and then CANCEL_ALL, which passes in every
\* mode. An intent that finds the queue full is lost, and nobody looks.
AcceptCancelAll ==
    \E own \in 0 .. 1 :
       IF exec_mode = "LIVE"
       THEN intents' = Fits(own + 1) /\ UNCHANGED simq
       ELSE /\ intents' = Fits(1)
            /\ simq' = IF own = 1 THEN on_intent(simq, "ACK") ELSE simq

\* The strategy quotes a market that the token map calls active.
T2Quotes ==
    /\ strat_on
    /\ ActiveMarkets # {}
    /\ AcceptPlace
    /\ UNCHANGED <<slot_vars, exec_mode, sim_on, session, strat_on, armed, probe_vars>>

\* T3 takes an intent.
T3Drains ==
    /\ intents > 0
    /\ intents' = intents - 1
    /\ UNCHANGED <<slot_vars, exec_mode, sim_on, simq, session, strat_on,
                   armed, probe_vars>>

-----------------------------------------------------------------------------
\* Trading sessions.

\* compute_effective_end: down to a boundary of either timeframe.
compute_effective_end(t) ==
    LET last(tf) == (t \div Period[tf]) * Period[tf]
    IN IF last("5M") > last("15M") THEN last("5M") ELSE last("15M")

\* Mutant: the boundary itself is taken for being past the end.
exceeds_end_by_start(s, tf, end) == s.end > 0 /\ end - Period[tf] > s.end

exceeds_end(s, tf, end) == s.end > 0 /\ end > s.end

\* Mutant: the session is left pending.
T2EmergencyStopsModeOnly ==
    /\ AcceptCancelAll
    /\ exec_mode' = "DRY_RUN"
    /\ sim_on' = TRUE
    /\ armed' = FALSE
    /\ UNCHANGED <<slot_vars, session, strat_on, probe_vars>>

\* Feedback EXCHANGE_UNAVAILABLE: everything is cancelled, DRY_RUN, no session.
T2EmergencyStops ==
    /\ AcceptCancelAll
    /\ exec_mode' = "DRY_RUN"
    /\ sim_on' = TRUE
    /\ session' = Idle
    /\ armed' = FALSE
    /\ UNCHANGED <<slot_vars, strat_on, probe_vars>>

T2StartsSession(t) ==
    /\ session.state = "IDLE"
    /\ session' = [state |-> "PENDING", end |-> compute_effective_end(t),
                     entered |-> {}]
    /\ strat_on' = TRUE
    /\ armed' = TRUE
    /\ UNCHANGED <<slot_vars, sink_vars, probe_vars>>

\* CONTROL_STOP_SESSION: as the emergency stop; the strategy stays enabled.
T2StopsSession ==
    /\ session.state # "IDLE"
    /\ T2EmergencyStops

\* SLOT_PROMOTED: a pending session goes LIVE at the boundary or is too late, an
\* active one goes on or has come to its end.
T2Promotes(ev) ==
    LET over == exceeds_end(session, ev.tf, ev.end)
    IN \/ /\ session.state = "PENDING" /\ over
          /\ session' = Idle
          /\ UNCHANGED <<sink_vars, strat_on, armed>>
       \/ /\ session.state = "PENDING" /\ ~over
          /\ session' = [session EXCEPT !.state = "ACTIVE", !.entered = {ev.tf}]
          /\ exec_mode' = "LIVE"
          /\ sim_on' = FALSE
          /\ simq' = <<>>
          /\ UNCHANGED <<intents, strat_on, armed>>
       \/ /\ session.state = "ACTIVE" /\ over
          /\ AcceptCancelAll
          /\ exec_mode' = "DRY_RUN"
          /\ sim_on' = TRUE
          /\ session' = Idle
          /\ strat_on' = FALSE
          /\ armed' = FALSE
       \/ /\ session.state = "ACTIVE" /\ ~over
          /\ session' = [session EXCEPT !.entered = @ \cup {ev.tf}]
          /\ UNCHANGED <<sink_vars, strat_on, armed>>
       \/ /\ session.state = "IDLE"
          /\ UNCHANGED <<session, sink_vars, strat_on, armed>>

\* SLOT_CLOSING cancels what is tracked in the market that ends.
T2Closes ==
    \/ UNCHANGED <<intents, simq>>
    \/ exec_mode = "LIVE" /\ intents' = Fits(1) /\ UNCHANGED simq
    \/ exec_mode = "DRY_RUN" /\ simq' = on_intent(simq, "ACK") /\ UNCHANGED intents

\* Phase 3.75: the next slot event.
T2TakesSlotEvent ==
    /\ slot_queue # <<>>
    /\ LET ev == Head(slot_queue)
       IN /\ tokens' = Relabelled(tokens, ev)
          /\ CASE ev.kind = "PROMOTED" -> T2Promotes(ev)
               [] ev.kind = "CLOSING" ->
                    T2Closes /\ UNCHANGED <<exec_mode, sim_on, session, strat_on, armed>>
               [] OTHER -> UNCHANGED <<sink_vars, session, strat_on, armed>>
    /\ slot_queue' = Tail(slot_queue)
    /\ UNCHANGED <<t7_vars, dropped, probe_vars>>

-----------------------------------------------------------------------------
\* Other commands.

\* CONTROL_SET_MODE: LIVE also empties the simulator; the session is not told.
T2SetsExecMode(m) ==
    /\ exec_mode' = m
    /\ sim_on' = (m = "DRY_RUN")
    /\ simq' = IF m = "LIVE" THEN <<>> ELSE simq
    /\ armed' = (armed \/ m = "LIVE")
    /\ UNCHANGED <<slot_vars, intents, session, strat_on, probe_vars>>

T2EnablesStrategy(on) ==
    /\ strat_on' = on
    /\ UNCHANGED <<slot_vars, sink_vars, session, armed, probe_vars>>

T2SweepsAll ==
    /\ AcceptCancelAll
    /\ UNCHANGED <<slot_vars, exec_mode, sim_on, session, strat_on, armed, probe_vars>>

\* CONTROL_MARKET_SELL_ALL, _DOWN: the strategy is switched off and, in LIVE for
\* as long as the command takes, orders are cancelled and n positions sold.
T2SellsAll(n) ==
    \E own \in 0 .. 1 :
       /\ strat_on' = FALSE
       /\ intents' = Fits(own + n)
       /\ UNCHANGED <<slot_vars, exec_mode, sim_on, simq, session, armed, probe_vars>>

\* Phase 2.5: synthetic feedback is taken while the simulator is enabled.
T2TakesSimFeedback ==
    /\ sim_on
    /\ simq # <<>>
    /\ simq' = Tail(simq)
    /\ probe' = IF Head(simq) = "PROBE" /\ probe = "CANCELLING" THEN "DONE" ELSE probe
    /\ UNCHANGED <<slot_vars, exec_mode, sim_on, intents, session, strat_on,
                   armed, probe_order, probe_cancel, probe_fb>>

-----------------------------------------------------------------------------
\* The latency probe: an order far from the market, cancelled a second later.

InProgress == {"PLACING", "WAITING_CANCEL", "CANCELLING"}

\* CONTROL_LATENCY_PROBE: LIVE, no strategy, some market, one probe at a time.
T2Probes ==
    /\ probe \notin InProgress
    /\ exec_mode = "LIVE"
    /\ ~strat_on
    /\ pairs # {}
    /\ probe_fb' = <<>>
    /\ probe_cancel' = FALSE
    /\ AcceptPlace
    /\ IF intents < IntentCap THEN probe' = "PLACING" /\ probe_order' = "sent"
                              ELSE probe' = "FAILED" /\ probe_order' = "none"
    /\ UNCHANGED <<slot_vars, exec_mode, sim_on, session, strat_on, armed>>

\* T3 answers the placement; what it calls failed may have been placed, and a
\* 503 is an emergency stop and no answer.
T3AnswersProbe ==
    /\ probe_order = "sent"
    /\ \E fb \in {<<"ACCEPTED">>, <<"FAILED">>, <<>>}, placed \in BOOLEAN :
         /\ fb = <<"ACCEPTED">> => placed
         /\ probe_order' = IF placed THEN "live" ELSE "gone"
         /\ probe_fb' = probe_fb \o fb
    /\ UNCHANGED <<slot_vars, t2_vars, probe, probe_cancel>>

\* ... and the cancel; a limited or refused one (429, 503) is no answer either.
T3CancelsProbe ==
    /\ probe_cancel
    /\ probe_cancel' = FALSE
    /\ \E fb \in {<<"CONFIRMED">>, <<"FAILED">>, <<>>}, gone \in BOOLEAN :
         /\ fb = <<"CONFIRMED">> => gone
         /\ probe_order' = IF gone THEN "gone" ELSE probe_order
         /\ probe_fb' = probe_fb \o fb
    /\ UNCHANGED <<slot_vars, t2_vars, probe>>

\* handle_probe_feedback.
T2TakesProbeFeedback ==
    /\ probe_fb # <<>>
    /\ probe_fb' = Tail(probe_fb)
    /\ probe' = CASE probe = "PLACING" /\ Head(probe_fb) = "ACCEPTED" -> "WAITING_CANCEL"
                  [] probe = "CANCELLING" /\ Head(probe_fb) = "CONFIRMED" -> "DONE"
                  [] probe \in {"PLACING", "CANCELLING"} /\ Head(probe_fb) = "FAILED" -> "FAILED"
                  [] OTHER -> probe
    /\ UNCHANGED <<slot_vars, t2_vars, probe_order, probe_cancel>>

\* check_probe_cancel_timer, a second after the order was accepted.
T2CancelsProbe ==
    /\ probe = "WAITING_CANCEL"
    /\ probe' = "CANCELLING"
    /\ IF exec_mode = "LIVE"
       THEN /\ intents' = Fits(1)
            /\ probe_cancel' = (intents < IntentCap)
            /\ UNCHANGED simq
       ELSE /\ simq' = on_intent(simq, "PROBE")
            /\ UNCHANGED <<intents, probe_cancel>>
    /\ UNCHANGED <<slot_vars, exec_mode, sim_on, session, strat_on, armed,
                   probe_order, probe_fb>>

\* check_probe_timeout, ten seconds after the probe began.
T2TimesOutProbe ==
    /\ probe \in InProgress
    /\ probe' = "FAILED"
    /\ UNCHANGED <<slot_vars, t2_vars, probe_order, probe_cancel, probe_fb>>

-----------------------------------------------------------------------------
\* What moves modes and sessions: T7, the operator, T3's 503.
TradingNext ==
    \/ T7Next /\ UNCHANGED <<t2_vars, probe_vars>>
    \/ T2TakesSlotEvent
    \/ T2Quotes
    \/ T3Drains
    \/ T2TakesSimFeedback
    \/ \E t \in EndTimes : T2StartsSession(t)
    \/ T2StopsSession
    \/ \E m \in {"DRY_RUN", "LIVE"} : T2SetsExecMode(m)
    \/ T2EmergencyStops

\* The operator's other commands, and the probe.
DeskNext ==
    \/ \E on \in BOOLEAN : T2EnablesStrategy(on)
    \/ T2SweepsAll
    \/ \E n \in 0 .. 1 : T2SellsAll(n)
    \/ T2Probes
    \/ T3AnswersProbe
    \/ T3CancelsProbe
    \/ T2TakesProbeFeedback
    \/ T2CancelsProbe
    \/ T2TimesOutProbe

SessionNext == TradingNext \/ DeskNext

SessionSpec == SessionInit /\ [][SessionNext]_session_vars

-----------------------------------------------------------------------------
\* Properties.

\* Everything is in its domain: the queue of slot events, the token map, the
\* simulator's buffer and the queue to T3 within their capacities, and an idle
\* session without an end or markets.
SessionTypeOK ==
    /\ t7_at \in {"boot", "failed", "start", "poll", "15M", "discover"}
    /\ polled \in 0 .. MaxTime
    /\ \A tf \in Timeframes : {slots[tf].cur.phase, slots[tf].nxt.phase} \subseteq SlotPhase
    /\ Len(slot_queue) <= SlotCap
    /\ Len(tokens) <= MapCap
    /\ exec_mode \in {"DRY_RUN", "LIVE"}
    /\ Len(simq) <= SimCap
    /\ session.state \in {"IDLE", "PENDING", "ACTIVE"}
    /\ session.state = "IDLE" => session = Idle
    /\ intents \in 0 .. IntentCap
    /\ probe \in InProgress \cup {"IDLE", "DONE", "FAILED"}
    /\ probe_order \in {"none", "sent", "live", "gone"}
    /\ session.entered \subseteq Timeframes
    /\ {sim_on, strat_on, armed, probe_cancel} \subseteq BOOLEAN

CurrentMarkets == {slots[tf].cur.market : tf \in {u \in Timeframes : slots[u].cur.phase = "ACTIVE"}}

\* T2 and T7 agree on what may be quoted, of every market that no dropped slot
\* event was about: one that is active in T2's map is T7's current one or about
\* to be closed by an event on its way, and a T2 that has caught up quotes every
\* current market that has been discovered, as long as its map never filled up
\* (markets are added and never removed: CurrentIsQuotable).
SlotsAgree ==
    /\ \A m \in ActiveMarkets \ dropped :
         \/ m \in CurrentMarkets
         \/ \E i \in 1 .. Len(slot_queue) : slot_queue[i].kind = "CLOSING" /\ slot_queue[i].market = m
    /\ slot_queue = <<>> /\ Len(tokens) < MapCap =>
         CurrentMarkets \ ({NoMarket} \cup dropped) \subseteq ActiveMarkets

\* What may be quoted is registered, and its feeds have been subscribed to,
\* however late T7 polls and whatever events are lost.
QuotedIsSubscribed == ActiveMarkets \subseteq pairs \cap subscribed

\* After an emergency stop, a stopped or a finished session nothing is sent to
\* the exchange, now or at a later market boundary, until the operator asks.
StopSticks == exec_mode = "LIVE" \/ session.state # "IDLE" => armed

\* A session with an end enters no market that outlasts it: once T2 has taken
\* T7's slot events, the current market of a timeframe that the session has
\* entered ends with the session at the latest.  Not so the market of the other
\* timeframe that was running when the session went LIVE: a session that begins
\* at a 5M boundary trades a 15M market whose end nobody compares with its own,
\* until that timeframe rotates (strategy_scheduler.cpp 717-745).
SessionEndsInTime ==
    session.state = "ACTIVE" /\ session.end > 0 /\ slot_queue = <<>> =>
      \A tf \in session.entered :
        slots[tf].cur.market \notin dropped => WindowEnd(tf, slots[tf].cur) <= session.end

\* The SlotTokenMap has room for all the markets there are at a time, so that a
\* T2 that has caught up quotes the current market of every timeframe.
CurrentIsQuotable ==
    dropped = {} /\ slot_queue = <<>> => CurrentMarkets \ {NoMarket} \subseteq ActiveMarkets
=============================================================================
