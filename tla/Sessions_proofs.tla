--------------------------- MODULE Sessions_proofs ---------------------------
(***************************************************************************)
(* Proof about Sessions for all queue sizes, end times and rotations: a    *)
(* stop sticks.                                                            *)
(***************************************************************************)
EXTENDS Sessions, TLAPS

\* StopSticks is inductive once armed is known to be a Boolean.
SessionInv == armed \in BOOLEAN /\ StopSticks

\* T2 starts in DRY_RUN without a session.
LEMMA SessionInvInit == SessionInit => SessionInv
<1> SUFFICES ASSUME SessionInit PROVE SessionInv
  OBVIOUS
<1>1. armed \in BOOLEAN
  BY DEF SessionInit
<1>2. exec_mode # "LIVE" /\ session.state = "IDLE"
  BY DEF SessionInit, Idle
<1> QED
  BY <1>1, <1>2 DEF SessionInv, StopSticks

\* A step that leaves the mode, the session's state and armed alone keeps
\* SessionInv, whatever the queues hold.
LEMMA SameModeKeeps ==
    ASSUME SessionInv, UNCHANGED <<exec_mode, session.state, armed>>
    PROVE  SessionInv'
BY Zenon DEF SessionInv, StopSticks

\* An emergency stop, which is also how the operator's stop ends a session.
LEMMA StopKeeps ==
    ASSUME SessionInv, T2EmergencyStops
    PROVE  SessionInv'
<1>1. armed' = FALSE
  BY DEF T2EmergencyStops
<1>2. exec_mode' # "LIVE" /\ session'.state = "IDLE"
  BY DEF T2EmergencyStops, Idle
<1> QED
  BY <1>1, <1>2, Zenon DEF SessionInv, StopSticks

\* A promotion takes a session that the operator has asked for to LIVE, or
\* ends one.
LEMMA PromotionKeeps ==
    ASSUME SessionInv, NEW ev, T2Promotes(ev)
    PROVE  SessionInv'
<1> DEFINE over == exceeds_end(session, ev.tf, ev.end)
<1>1. CASE /\ session.state = "PENDING" /\ over
           /\ session' = Idle
           /\ UNCHANGED <<sink_vars, strat_on, armed>>
  <2>1. session'.state = "IDLE" /\ exec_mode' = exec_mode /\ armed' = armed
    BY <1>1 DEF Idle, sink_vars
  <2> QED
    BY <2>1, Zenon DEF SessionInv, StopSticks
<1>2. CASE /\ session.state = "PENDING" /\ ~over
           /\ UNCHANGED armed
  <2>1. session.state # "IDLE" /\ armed' = armed
    BY <1>2
  <2> QED
    BY <2>1, Zenon DEF SessionInv, StopSticks
<1>3. CASE /\ session.state = "ACTIVE" /\ over
           /\ exec_mode' = "DRY_RUN"
           /\ session' = Idle
           /\ armed' = FALSE
  <2>1. exec_mode' # "LIVE" /\ session'.state = "IDLE"
    BY <1>3 DEF Idle
  <2> QED
    BY <1>3, <2>1, Zenon DEF SessionInv, StopSticks
<1>4. CASE /\ session.state = "ACTIVE" /\ ~over
           /\ UNCHANGED armed
  <2>1. session.state # "IDLE" /\ armed' = armed
    BY <1>4
  <2> QED
    BY <2>1, Zenon DEF SessionInv, StopSticks
<1>5. CASE /\ session.state = "IDLE"
           /\ UNCHANGED <<session, sink_vars, strat_on, armed>>
  BY <1>5, SameModeKeeps DEF sink_vars
<1> QED
  BY <1>1, <1>2, <1>3, <1>4, <1>5 DEF T2Promotes

\* T7, the market boundaries, the strategy and the commands that choose the
\* mode.
LEMMA TradingKeeps == SessionInv /\ TradingNext => SessionInv'
<1> SUFFICES ASSUME SessionInv, TradingNext PROVE SessionInv'
  OBVIOUS
<1>1. CASE T7Next /\ UNCHANGED <<t2_vars, probe_vars>>
  BY <1>1, SameModeKeeps DEF t2_vars, sink_vars
<1>2. CASE T2TakesSlotEvent
  <2> DEFINE ev == Head(slot_queue)
  <2>1. CASE ev.kind = "PROMOTED"
    <3>1. T2Promotes(ev)
      BY <1>2, <2>1 DEF T2TakesSlotEvent
    <3> QED
      BY <3>1, PromotionKeeps
  <2>2. CASE ev.kind = "CLOSING"
    BY <1>2, <2>2, SameModeKeeps DEF T2TakesSlotEvent
  <2>3. CASE ev.kind \notin {"PROMOTED", "CLOSING"}
    BY <1>2, <2>3, SameModeKeeps DEF T2TakesSlotEvent, sink_vars
  <2> QED
    BY <2>1, <2>2, <2>3
<1>3. CASE T2Quotes
  BY <1>3, SameModeKeeps DEF T2Quotes
<1>4. CASE T3Drains
  BY <1>4, SameModeKeeps DEF T3Drains
<1>5. CASE T2TakesSimFeedback
  BY <1>5, SameModeKeeps DEF T2TakesSimFeedback
<1>6. CASE \E t \in EndTimes : T2StartsSession(t)
  <2>1. armed' = TRUE
    BY <1>6 DEF T2StartsSession
  <2> QED
    BY <2>1, Zenon DEF SessionInv, StopSticks
<1>7. CASE T2StopsSession
  BY <1>7, StopKeeps DEF T2StopsSession
<1>8. CASE \E m \in {"DRY_RUN", "LIVE"} : T2SetsExecMode(m)
  <2>1. PICK m \in {"DRY_RUN", "LIVE"} : T2SetsExecMode(m)
    BY <1>8
  <2>2. exec_mode' = m /\ session' = session /\ armed' = (armed \/ m = "LIVE")
    BY <2>1 DEF T2SetsExecMode
  <2> QED
    BY <2>2, Zenon DEF SessionInv, StopSticks
<1>9. CASE T2EmergencyStops
  BY <1>9, StopKeeps
<1> QED
  BY <1>1, <1>2, <1>3, <1>4, <1>5, <1>6, <1>7, <1>8, <1>9 DEF TradingNext

\* The other commands and the probe leave the mode and the session alone.
LEMMA DeskKeeps ==
    ASSUME DeskNext
    PROVE  UNCHANGED <<exec_mode, session, armed>>
BY DEF DeskNext, T2EnablesStrategy, T2SweepsAll, T2SellsAll, T2Probes, T3AnswersProbe,
       T3CancelsProbe, T2TakesProbeFeedback, T2CancelsProbe, T2TimesOutProbe, t2_vars,
       sink_vars

\* The invariant of T2's modes holds in every reachable state.
THEOREM SessionSafe == SessionSpec => []SessionInv
<1>1. SessionInv /\ [SessionNext]_session_vars => SessionInv'
  <2> SUFFICES ASSUME SessionInv, [SessionNext]_session_vars PROVE SessionInv'
    OBVIOUS
  <2>1. CASE TradingNext
    BY <2>1, TradingKeeps
  <2>2. CASE DeskNext
    BY <2>2, DeskKeeps, SameModeKeeps
  <2>3. CASE UNCHANGED session_vars
    BY <2>3, SameModeKeeps DEF session_vars, t2_vars, sink_vars
  <2> QED
    BY <2>1, <2>2, <2>3 DEF SessionNext
<1> QED
  BY <1>1, SessionInvInit, PTL DEF SessionSpec

\* Whatever the sizes, the end times and the rotations: after a stop nothing
\* is LIVE or about to be until the operator asks again.
THEOREM SessionStopSticks == SessionSpec => []StopSticks
<1>1. SessionInv => StopSticks
  BY DEF SessionInv
<1> QED
  BY <1>1, SessionSafe, PTL
=============================================================================
