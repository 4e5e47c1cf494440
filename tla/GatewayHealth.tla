--------------------------- MODULE GatewayHealth ---------------------------
(***************************************************************************)
(* The gateway thread's health (src/exec/execution_gateway.cpp with        *)
(* heartbeat_manager.cpp and the back-off of rate_limiter.cpp): heartbeats *)
(* and the dead man's switch, the degraded state it reports to T2, the     *)
(* emergency stop T2 makes when the exchange is unavailable.  Durations    *)
(* are left out: the back-off runs or has elapsed, a heartbeat is due or   *)
(* not, and a full rate window refuses at any time (RateLimiter.tla has    *)
(* the windows and the lengths).                                           *)
(***************************************************************************)
EXTENDS Naturals, Sequences

CONSTANTS MaxFailures,        \* max_consecutive_failures
          Max429, Max425,     \* max_consecutive_429s, k425MaxConsecutive
          CancelAllOnFailure, \* cancel_all_on_failure
          MaxIntents          \* intents queued for T3

ASSUME HealthAssumption ==
    /\ MaxFailures \in Nat \ {0} /\ Max429 \in Nat \ {0} /\ Max425 \in Nat \ {0}
    /\ MaxIntents \in Nat \ {0}
    /\ CancelAllOnFailure \in BOOLEAN

VARIABLE gh

\* 0 stands for no answer and for every other error, which are treated alike.
Statuses == {0, 200, 401, 425, 429, 503}

Health == [backing_off |-> FALSE, unavailable |-> FALSE, n429 |-> 0, n425 |-> 0,
           slow |-> FALSE, failures |-> 0, due |-> TRUE,
           in_flight |-> FALSE, latched |-> FALSE, sweeps |-> 0,
           was_degraded |-> FALSE, fatal |-> FALSE,
           intents |-> <<>>, requests |-> {}, down |-> FALSE, refused |-> FALSE]

Count(n, cap) == IF n < cap THEN n + 1 ELSE n

(***************************************************************************)
(* The limiter's part of an answer, and the latency signal of record_rtt   *)
(* (three times the baseline), which may turn either way.                  *)
(***************************************************************************)
note_response(s, http) ==
    CASE http = 429 -> [s EXCEPT !.n429 = Count(@, Max429), !.backing_off = TRUE]
      [] http = 425 -> [s EXCEPT !.n425 = Count(@, Max425), !.backing_off = TRUE]
      [] http = 503 -> [s EXCEPT !.unavailable = TRUE, !.backing_off = TRUE]
      [] http = 200 -> [s EXCEPT !.n429 = 0, !.n425 = 0, !.unavailable = FALSE]
      [] OTHER -> s

is_degraded(s) == s.n429 >= Max429 \/ s.slow

is_failed(s) == s.failures >= MaxFailures

degraded_now(s) == is_degraded(s) \/ s.unavailable \/ is_failed(s)

\* GATEWAY_DEGRADED and GATEWAY_RECOVERED are published on the edges, each once
\* and as feedback that is not critical: T2 never hears of an edge whose message
\* finds the queue full (execution_gateway.cpp 1613).
check_degraded_transition(s) ==
    IF degraded_now(s) = s.was_degraded THEN s
    ELSE [s EXCEPT !.was_degraded = degraded_now(s)]

\* The back-off is looked at first, for every kind of request.
acquires(s, kind, room) ==
    /\ ~s.backing_off
    /\ s.unavailable => kind # "place"
    /\ room

(***************************************************************************)
(* Heartbeats.  The next one is due an interval after the last answer; a   *)
(* 429 or a 425 leaves it due.                                             *)
(***************************************************************************)
send_cancel_all(s) == [s EXCEPT !.requests = @ \cup {"cancel_all"}]

on_success(s) == [s EXCEPT !.failures = 0, !.due = FALSE]

on_failure(s) == [s EXCEPT !.failures = Count(@, MaxFailures), !.due = FALSE]

should_cancel_all(s) == CancelAllOnFailure /\ is_failed(s)

heartbeat_failure(s) ==
    LET t == on_failure(s)
        u == IF should_cancel_all(t) /\ ~t.latched
             THEN send_cancel_all([t EXCEPT !.latched = TRUE, !.sweeps = @ + 1])
             ELSE t
    IN  check_degraded_transition(u)

\* Mutant: any 2xx answer ends the failure streak's latch.
on_heartbeat_response_unlatching(s, http, parsed) ==
    LET t == note_response([s EXCEPT !.in_flight = FALSE,
                                     !.latched = @ /\ http # 200], http)
    IN  CASE http \in {425, 429} ->
                check_degraded_transition(
                    [t EXCEPT !.fatal = @ \/ (http = 425 /\ t.n425 >= Max425)])
          [] http = 200 /\ parsed ->
                check_degraded_transition([on_success(t) EXCEPT !.sweeps = 0])
          [] OTHER -> heartbeat_failure([t EXCEPT !.fatal = @ \/ http = 401])

\* parsed: the 2xx body is well formed and carries the next heartbeat id.
on_heartbeat_response(s, http, parsed) ==
    LET t == note_response([s EXCEPT !.in_flight = FALSE], http)
    IN  CASE http \in {425, 429} ->
                check_degraded_transition(
                    [t EXCEPT !.fatal = @ \/ (http = 425 /\ t.n425 >= Max425)])
          [] http = 200 /\ parsed ->
                check_degraded_transition(
                    [on_success(t) EXCEPT !.latched = FALSE, !.sweeps = 0])
          [] OTHER -> heartbeat_failure([t EXCEPT !.fatal = @ \/ http = 401])

(***************************************************************************)
(* Orders and cancels: what their answers do to the gateway's health.  A   *)
(* 503 is reported to T2 as EXCHANGE_UNAVAILABLE (down).                   *)
(***************************************************************************)
on_answer(s, http, slow) ==
    LET t == check_degraded_transition([note_response(s, http) EXCEPT !.slow = slow])
    IN  [t EXCEPT !.down = @ \/ http = 503,
                  !.fatal = @ \/ http = 401 \/ (http = 425 /\ t.n425 >= Max425)]

\* A refused intent is answered RATE_LIMITED and forgotten.
process_intent(s, kind, room) ==
    IF acquires(s, kind, room) THEN [s EXCEPT !.requests = @ \cup {kind}]
    ELSE [s EXCEPT !.refused = @ \/ (s.unavailable /\ kind = "cancel_all" /\ room)]
-----------------------------------------------------------------------------
HealthInit == gh = Health

T2Intends ==
    \E kind \in {"place", "cancel"} :
        /\ Len(gh.intents) < MaxIntents
        /\ gh' = [gh EXCEPT !.intents = Append(@, kind)]

\* on EXCHANGE_UNAVAILABLE T2 cancels everything and goes to DRY_RUN.
T2EmergencyStop ==
    /\ gh.down /\ Len(gh.intents) < MaxIntents
    /\ gh' = [gh EXCEPT !.down = FALSE, !.intents = Append(@, "cancel_all")]

T3Polls ==
    /\ gh.intents # <<>>
    /\ \E room \in BOOLEAN :
          gh' = process_intent([gh EXCEPT !.intents = Tail(@)], Head(gh.intents), room)

T3Answered ==
    \E kind \in gh.requests, http \in Statuses, slow \in BOOLEAN :
        gh' = on_answer([gh EXCEPT !.requests = @ \ {kind}], http, slow)

BackoffElapses == gh.backing_off /\ gh' = [gh EXCEPT !.backing_off = FALSE]

IntervalElapses == ~gh.due /\ gh' = [gh EXCEPT !.due = TRUE]

\* send_heartbeat; refused, it stays due.
check_heartbeat ==
    /\ ~gh.in_flight /\ gh.due /\ acquires(gh, "heartbeat", TRUE)
    /\ gh' = [gh EXCEPT !.in_flight = TRUE]

HeartbeatAnswered ==
    /\ gh.in_flight
    /\ \E http \in Statuses, parsed \in BOOLEAN :
          gh' = on_heartbeat_response(gh, http, parsed)

HealthNext ==
    \/ T2Intends \/ T2EmergencyStop \/ T3Polls \/ T3Answered
    \/ BackoffElapses \/ IntervalElapses \/ check_heartbeat \/ HeartbeatAnswered

HealthSpec == HealthInit /\ [][HealthNext]_gh
-----------------------------------------------------------------------------
\* The counters stay within their thresholds.
HealthTypeOK ==
    /\ gh.n429 \in 0 .. Max429 /\ gh.n425 \in 0 .. Max425
    /\ gh.failures \in 0 .. MaxFailures
    /\ gh.sweeps \in Nat
    /\ Len(gh.intents) <= MaxIntents
    /\ gh.requests \subseteq {"place", "cancel", "cancel_all"}
    /\ \A f \in {"backing_off", "unavailable", "slow", "due",
                 "in_flight", "latched", "was_degraded", "fatal",
                 "down", "refused"} : gh[f] \in BOOLEAN

\* The dead man's switch: since the last good heartbeat the gateway has sent
\* one emergency cancel-all if the failures have reached the threshold, and
\* none if they have not; a throttled heartbeat (429, 425) neither counts nor
\* ends the streak.
OneSweepPerStreak ==
    gh.sweeps = IF CancelAllOnFailure /\ is_failed(gh) THEN 1 ELSE 0

\* No edge is passed over: after every handler the last edge for which the
\* gateway published a message agrees with the state of the limiter, the exchange
\* and the heartbeats. It does not say that the message got through.
EdgesPublished == gh.was_degraded = degraded_now(gh)

\* While the exchange is unavailable a cancel is let through
\* (rate_limiter.cpp:98): the cancel-all with which T2 answers
\* EXCHANGE_UNAVAILABLE is never turned away by the limiter's own state.
CancelsGetThrough == ~gh.refused
=============================================================================
