------------------------ MODULE GatewayHealth_proofs ------------------------
(***************************************************************************)
(* Proofs about GatewayHealth for all thresholds: the dead man's switch    *)
(* sends one cancel-all per streak of failures, and no handler passes over *)
(* an edge between healthy and degraded.                                   *)
(***************************************************************************)
EXTENDS GatewayHealth, TLAPS

Kinds == {"place", "cancel", "cancel_all"}

HealthStates ==
    [backing_off : BOOLEAN, unavailable : BOOLEAN, n429 : Nat, n425 : Nat,
     slow : BOOLEAN, failures : Nat, due : BOOLEAN,
     in_flight : BOOLEAN, latched : BOOLEAN, sweeps : Nat,
     was_degraded : BOOLEAN, fatal : BOOLEAN,
     intents : Seq(Kinds), requests : SUBSET Kinds, down : BOOLEAN, refused : BOOLEAN]

\* The streak: the latch is set exactly when the switch has fired.
Latched(s) ==
    /\ s.latched <=> should_cancel_all(s)
    /\ s.sweeps = IF should_cancel_all(s) THEN 1 ELSE 0

\* The edge published last agrees with what is so now.
Published(s) == s.was_degraded <=> degraded_now(s)

\* The inductive invariant.  The latch ties the sweeps to the failures, and
\* was_degraded ties what was published to what is so.
HealthInv == gh \in HealthStates /\ Latched(gh) /\ Published(gh)

\* An answer moves only the limiter's fields.
LEMMA NoteResponse ==
    ASSUME NEW s \in HealthStates, NEW http \in Statuses
    PROVE  LET t == note_response(s, http)
           IN  /\ t \in HealthStates
               /\ t.failures = s.failures /\ t.latched = s.latched /\ t.sweeps = s.sweeps
               /\ t.was_degraded = s.was_degraded
<1>1. CASE http = 429
  <2>1. Count(s.n429, Max429) \in Nat
    BY HealthAssumption DEF Count, HealthStates
  <2>2. note_response(s, http) =
          [s EXCEPT !.n429 = Count(s.n429, Max429), !.backing_off = TRUE]
    BY <1>1 DEF note_response
  <2> QED
    BY <2>1, <2>2 DEF HealthStates
<1>2. CASE http = 425
  <2>1. Count(s.n425, Max425) \in Nat
    BY HealthAssumption DEF Count, HealthStates
  <2>2. note_response(s, http) =
          [s EXCEPT !.n425 = Count(s.n425, Max425), !.backing_off = TRUE]
    BY <1>2 DEF note_response
  <2> QED
    BY <2>1, <2>2 DEF HealthStates
<1>3. CASE http = 503
  <2>1. note_response(s, http) = [s EXCEPT !.unavailable = TRUE, !.backing_off = TRUE]
    BY <1>3 DEF note_response
  <2> QED
    BY <2>1 DEF HealthStates
<1>4. CASE http = 200
  <2> DEFINE t == [s EXCEPT !.n429 = 0, !.n425 = 0, !.unavailable = FALSE]
  <2>1. note_response(s, http) = t
    BY <1>4 DEF note_response
  <2>2. t \in HealthStates
    BY DEF HealthStates
  <2>3. /\ t.failures = s.failures /\ t.latched = s.latched /\ t.sweeps = s.sweeps
        /\ t.was_degraded = s.was_degraded
    BY DEF HealthStates
  <2> QED
    BY <2>1, <2>2, <2>3
<1>5. CASE http \notin {200, 425, 429, 503}
  BY <1>5 DEF note_response, HealthStates
<1> QED
  BY <1>1, <1>2, <1>3, <1>4, <1>5

\* After check_degraded_transition the last edge published is right, whatever
\* it was before.
LEMMA CheckTransition ==
    ASSUME NEW s \in HealthStates
    PROVE  LET t == check_degraded_transition(s)
           IN  /\ t \in HealthStates /\ Published(t)
               /\ t.failures = s.failures /\ t.latched = s.latched /\ t.sweeps = s.sweeps
<1> DEFINE d == degraded_now(s)
           t == check_degraded_transition(s)
<1>1. d \in BOOLEAN
  BY HealthAssumption DEF degraded_now, is_degraded, is_failed, HealthStates
<1>2. CASE d = s.was_degraded
  BY <1>1, <1>2 DEF check_degraded_transition, Published, HealthStates
<1>3. CASE d # s.was_degraded
  <2>1. t = [s EXCEPT !.was_degraded = d]
    BY <1>3 DEF check_degraded_transition
  <2>2. /\ t \in HealthStates /\ t.was_degraded = d
        /\ t.n429 = s.n429 /\ t.slow = s.slow /\ t.unavailable = s.unavailable
        /\ t.failures = s.failures /\ t.latched = s.latched /\ t.sweeps = s.sweeps
    BY <1>1, <2>1 DEF HealthStates
  <2>3. degraded_now(t) = d
    BY <2>2 DEF degraded_now, is_degraded, is_failed
  <2> QED
    BY <2>2, <2>3 DEF Published
<1> QED
  BY <1>2, <1>3

\* A failed heartbeat keeps the latch and the count of sweeps right: the first
\* failure that reaches the threshold fires the switch, the later ones do not.
LEMMA HeartbeatFailure ==
    ASSUME NEW s \in HealthStates, Latched(s)
    PROVE  LET t == heartbeat_failure(s)
           IN  t \in HealthStates /\ Latched(t) /\ Published(t)
<1> DEFINE t == on_failure(s)
           u == IF should_cancel_all(t) /\ ~t.latched
                THEN send_cancel_all([t EXCEPT !.latched = TRUE, !.sweeps = @ + 1])
                ELSE t
<1>1. /\ t \in HealthStates
      /\ t.failures = Count(s.failures, MaxFailures)
      /\ t.latched = s.latched /\ t.sweeps = s.sweeps
      /\ t.was_degraded = s.was_degraded
  <2>1. Count(s.failures, MaxFailures) \in Nat
    BY HealthAssumption DEF Count, HealthStates
  <2> QED
    BY <2>1 DEF on_failure, HealthStates
<1>2. is_failed(s) => is_failed(t)
  BY <1>1, HealthAssumption DEF is_failed, Count, HealthStates
<1>3. u \in HealthStates /\ Latched(u)
  <2>1. CASE should_cancel_all(t) /\ ~t.latched
    <3>1. u = [t EXCEPT !.latched = TRUE, !.sweeps = t.sweeps + 1,
                        !.requests = t.requests \cup {"cancel_all"}]
      BY <1>1, <2>1 DEF send_cancel_all, HealthStates
    <3> HIDE DEF t, u
    <3>2. t.requests \cup {"cancel_all"} \in SUBSET Kinds /\ t.sweeps + 1 \in Nat
      BY <1>1 DEF HealthStates, Kinds
    <3>3. u \in HealthStates
      BY <1>1, <3>1, <3>2 DEF HealthStates
    <3>4. /\ u.latched = TRUE /\ u.sweeps = t.sweeps + 1 /\ u.failures = t.failures
      BY <1>1, <3>1 DEF HealthStates
    <3>5. t.sweeps = 0
      BY <1>1, <2>1 DEF Latched
    <3>6. should_cancel_all(u)
      BY <2>1, <3>4 DEF should_cancel_all, is_failed
    <3> QED
      BY <3>3, <3>4, <3>5, <3>6 DEF Latched
  <2>2. CASE ~(should_cancel_all(t) /\ ~t.latched)
    <3>1. u = t
      BY <2>2
    <3>2. t.latched <=> should_cancel_all(t)
      BY <1>1, <1>2, <2>2 DEF Latched, should_cancel_all
    <3>3. should_cancel_all(t) <=> should_cancel_all(s)
      BY <1>1, <3>2 DEF Latched
    <3> QED
      BY <1>1, <3>1, <3>2, <3>3 DEF Latched
  <2> QED
    BY <2>1, <2>2
<1>4. heartbeat_failure(s) = check_degraded_transition(u)
  BY DEF heartbeat_failure
<1> HIDE DEF u
<1>5. LET v == check_degraded_transition(u)
      IN  /\ v \in HealthStates /\ Published(v)
          /\ v.failures = u.failures /\ v.latched = u.latched /\ v.sweeps = u.sweeps
  BY <1>3, CheckTransition
<1> QED
  BY <1>3, <1>4, <1>5 DEF Latched, should_cancel_all, is_failed

\* The answer to a heartbeat keeps both: a good one ends the streak and takes
\* the latch off, a throttled one touches neither, any other is a failure.
LEMMA HeartbeatResponse ==
    ASSUME NEW s \in HealthStates, Latched(s), Published(s),
           NEW http \in Statuses, NEW parsed \in BOOLEAN
    PROVE  LET t == on_heartbeat_response(s, http, parsed)
           IN  t \in HealthStates /\ Latched(t) /\ Published(t)
<1> DEFINE i == [s EXCEPT !.in_flight = FALSE]
           n == note_response(i, http)
           r == on_heartbeat_response(s, http, parsed)
<1>1. /\ i \in HealthStates /\ i.failures = s.failures /\ i.latched = s.latched
      /\ i.sweeps = s.sweeps
  BY DEF HealthStates
<1> HIDE DEF i
<1>2. /\ n \in HealthStates /\ n.failures = s.failures /\ n.latched = s.latched
      /\ n.sweeps = s.sweeps
  BY <1>1, NoteResponse
<1> HIDE DEF n
<1>3. CASE http \in {425, 429}
  <2> DEFINE f == n.fatal \/ (http = 425 /\ n.n425 >= Max425)
             m == [n EXCEPT !.fatal = f]
  <2>1. r = check_degraded_transition(m)
    BY <1>3 DEF on_heartbeat_response, n, i
  <2>2. f \in BOOLEAN
    BY <1>2 DEF HealthStates
  <2> HIDE DEF f
  <2>3. /\ m \in HealthStates /\ m.failures = s.failures /\ m.latched = s.latched
        /\ m.sweeps = s.sweeps
    BY <1>2, <2>2 DEF HealthStates
  <2> HIDE DEF m
  <2>4. /\ r \in HealthStates /\ Published(r)
        /\ r.failures = s.failures /\ r.latched = s.latched /\ r.sweeps = s.sweeps
    BY <2>1, <2>3, CheckTransition
  <2> QED
    BY <2>4 DEF Latched, should_cancel_all, is_failed
<1>4. CASE http = 200 /\ parsed
  <2> DEFINE m == [n EXCEPT !.failures = 0, !.due = FALSE, !.latched = FALSE, !.sweeps = 0]
  <2>1. r = check_degraded_transition(m)
    BY <1>4 DEF on_heartbeat_response, on_success, n, i
  <2>2. /\ m \in HealthStates /\ m.failures = 0 /\ m.latched = FALSE
        /\ m.sweeps = 0
    BY <1>2 DEF HealthStates
  <2> HIDE DEF m
  <2>3. /\ r \in HealthStates /\ Published(r)
        /\ r.failures = 0 /\ r.latched = FALSE /\ r.sweeps = 0
    BY <2>1, <2>2, CheckTransition
  <2>4. ~should_cancel_all(r)
    BY <2>3, HealthAssumption DEF should_cancel_all, is_failed
  <2> QED
    BY <2>3, <2>4 DEF Latched
<1>5. CASE http \notin {425, 429} /\ ~(http = 200 /\ parsed)
  <2> DEFINE f == n.fatal \/ http = 401
             m == [n EXCEPT !.fatal = f]
  <2>1. r = heartbeat_failure(m)
    BY <1>5 DEF on_heartbeat_response, n, i
  <2>2. f \in BOOLEAN
    BY <1>2 DEF HealthStates
  <2> HIDE DEF f
  <2>3. /\ m \in HealthStates /\ m.failures = s.failures /\ m.latched = s.latched
        /\ m.sweeps = s.sweeps
    BY <1>2, <2>2 DEF HealthStates
  <2> HIDE DEF m
  <2>4. Latched(m)
    BY <2>3 DEF Latched, should_cancel_all, is_failed
  <2> QED
    BY <2>1, <2>3, <2>4, HeartbeatFailure
<1> QED
  BY <1>3, <1>4, <1>5

\* The fields that decide whether the gateway is degraded and what was done
\* about it.
SameHealth(s, t) ==
    /\ t.failures = s.failures /\ t.latched = s.latched /\ t.sweeps = s.sweeps
    /\ t.was_degraded = s.was_degraded
    /\ t.n429 = s.n429 /\ t.slow = s.slow /\ t.unavailable = s.unavailable

\* A step that leaves these fields alone keeps the invariant.
LEMMA SameHealthKeeps ==
    ASSUME NEW s, NEW t, Latched(s), Published(s), SameHealth(s, t)
    PROVE  Latched(t) /\ Published(t)
BY DEF SameHealth, Latched, Published, should_cancel_all, is_failed, degraded_now, is_degraded

\* The answer to an order or a cancel never touches the streak.
LEMMA OnAnswer ==
    ASSUME NEW s \in HealthStates, Latched(s), Published(s),
           NEW http \in Statuses, NEW slow \in BOOLEAN
    PROVE  LET t == on_answer(s, http, slow)
           IN  t \in HealthStates /\ Latched(t) /\ Published(t)
<1> DEFINE n == note_response(s, http)
           m == [n EXCEPT !.slow = slow]
           c == check_degraded_transition(m)
           d == c.down \/ http = 503
           f == c.fatal \/ http = 401 \/ (http = 425 /\ c.n425 >= Max425)
           r == [c EXCEPT !.down = d, !.fatal = f]
<1>1. on_answer(s, http, slow) = r
  BY DEF on_answer
<1>2. /\ n \in HealthStates /\ n.failures = s.failures /\ n.latched = s.latched
      /\ n.sweeps = s.sweeps
  BY NoteResponse
<1> HIDE DEF n
<1>3. /\ m \in HealthStates /\ m.failures = s.failures /\ m.latched = s.latched
      /\ m.sweeps = s.sweeps
  BY <1>2 DEF HealthStates
<1> HIDE DEF m
<1>4. /\ c \in HealthStates /\ Published(c)
      /\ c.failures = s.failures /\ c.latched = s.latched /\ c.sweeps = s.sweeps
  BY <1>3, CheckTransition
<1> HIDE DEF c
<1>5. d \in BOOLEAN /\ f \in BOOLEAN
  BY <1>4 DEF HealthStates
<1> HIDE DEF d, f
<1>6. r \in HealthStates /\ SameHealth(c, r)
  BY <1>4, <1>5 DEF HealthStates, SameHealth
<1>7. Latched(c)
  BY <1>4 DEF Latched, should_cancel_all, is_failed
<1> QED
  BY <1>1, <1>4, <1>6, <1>7, SameHealthKeeps

\* The gateway starts with no failures, nothing sent and healthy.
LEMMA HealthInvInit == HealthInit => HealthInv
<1> SUFFICES ASSUME HealthInit PROVE HealthInv
  OBVIOUS
<1>1. gh \in HealthStates
  BY DEF HealthInit, Health, HealthStates, Kinds
<1>2. ~is_failed(gh) /\ ~is_degraded(gh) /\ ~gh.unavailable
  BY HealthAssumption DEF HealthInit, Health, is_failed, is_degraded
<1>3. Latched(gh)
  BY <1>2 DEF HealthInit, Health, Latched, should_cancel_all
<1>4. Published(gh)
  BY <1>2 DEF HealthInit, Health, Published, degraded_now
<1> QED
  BY <1>1, <1>3, <1>4 DEF HealthInv

\* Every step of the gateway thread, of T2 and of time keeps the invariant.
LEMMA HealthInvStep == HealthInv /\ [HealthNext]_gh => HealthInv'
<1> SUFFICES ASSUME HealthInv, [HealthNext]_gh PROVE HealthInv'
  OBVIOUS
<1> USE DEF HealthInv
<1>1. ASSUME gh' \in HealthStates, SameHealth(gh, gh') PROVE HealthInv'
  BY <1>1, SameHealthKeeps DEF Latched, Published, should_cancel_all, is_failed, degraded_now, is_degraded
<1>2. CASE T2Intends
  <2>1. PICK kind \in {"place", "cancel"} : gh' = [gh EXCEPT !.intents = Append(@, kind)]
    BY <1>2 DEF T2Intends
  <2>2. Append(gh.intents, kind) \in Seq(Kinds)
    BY DEF HealthStates, Kinds
  <2> QED
    BY <1>1, <2>1, <2>2 DEF HealthStates, SameHealth
<1>3. CASE T2EmergencyStop
  <2>1. Append(gh.intents, "cancel_all") \in Seq(Kinds)
    BY DEF HealthStates, Kinds
  <2> QED
    BY <1>1, <1>3, <2>1 DEF T2EmergencyStop, HealthStates, SameHealth
<1>4. CASE T3Polls
  <2> DEFINE s == [gh EXCEPT !.intents = Tail(@)]
             kind == Head(gh.intents)
  <2>1. PICK room \in BOOLEAN : gh' = process_intent(s, kind, room)
    BY <1>4 DEF T3Polls
  <2>2. Tail(gh.intents) \in Seq(Kinds) /\ kind \in Kinds
    BY <1>4 DEF T3Polls, HealthStates
  <2>3. s \in HealthStates /\ SameHealth(gh, s)
    BY <2>2 DEF HealthStates, SameHealth
  <2> HIDE DEF s, kind
  <2>4. CASE acquires(s, kind, room)
    <3>1. gh' = [s EXCEPT !.requests = s.requests \cup {kind}]
      BY <2>1, <2>4 DEF process_intent
    <3>2. s.requests \cup {kind} \in SUBSET Kinds
      BY <2>2, <2>3 DEF HealthStates
    <3> QED
      BY <1>1, <2>3, <3>1, <3>2 DEF HealthStates, SameHealth
  <2>5. CASE ~acquires(s, kind, room)
    <3> DEFINE f == s.refused \/ (s.unavailable /\ kind = "cancel_all" /\ room)
    <3>1. gh' = [s EXCEPT !.refused = f]
      BY <2>1, <2>5 DEF process_intent
    <3>2. f \in BOOLEAN
      BY <2>3 DEF HealthStates
    <3> HIDE DEF f
    <3> QED
      BY <1>1, <2>3, <3>1, <3>2 DEF HealthStates, SameHealth
  <2> QED
    BY <2>4, <2>5
<1>5. CASE T3Answered
  <2> DEFINE s(kind) == [gh EXCEPT !.requests = @ \ {kind}]
  <2>1. PICK kind \in gh.requests, http \in Statuses, slow \in BOOLEAN :
            gh' = on_answer(s(kind), http, slow)
    BY <1>5 DEF T3Answered
  <2>2. s(kind) \in HealthStates /\ SameHealth(gh, s(kind))
    BY DEF HealthStates, SameHealth
  <2>3. Latched(s(kind)) /\ Published(s(kind))
    BY <2>2, SameHealthKeeps
  <2> HIDE DEF s
  <2>4. gh' \in HealthStates /\ Latched(gh') /\ Published(gh')
    BY <2>1, <2>2, <2>3, OnAnswer
  <2> QED
    BY <2>4 DEF Latched, Published, should_cancel_all, is_failed, degraded_now, is_degraded
<1>6. CASE BackoffElapses
  BY <1>1, <1>6 DEF BackoffElapses, HealthStates, SameHealth
<1>7. CASE IntervalElapses
  BY <1>1, <1>7 DEF IntervalElapses, HealthStates, SameHealth
<1>8. CASE check_heartbeat
  BY <1>1, <1>8 DEF check_heartbeat, HealthStates, SameHealth
<1>9. CASE HeartbeatAnswered
  <2>1. PICK http \in Statuses, parsed \in BOOLEAN :
            gh' = on_heartbeat_response(gh, http, parsed)
    BY <1>9 DEF HeartbeatAnswered
  <2>2. gh' \in HealthStates /\ Latched(gh') /\ Published(gh')
    BY <2>1, HeartbeatResponse
  <2> QED
    BY <2>2 DEF Latched, Published, should_cancel_all, is_failed, degraded_now, is_degraded
<1>10. CASE UNCHANGED gh
  BY <1>10 DEF Latched, Published, should_cancel_all, is_failed, degraded_now, is_degraded
<1> QED
  BY <1>2, <1>3, <1>4, <1>5, <1>6, <1>7, <1>8, <1>9, <1>10 DEF HealthNext

\* The latch and the published state follow the gateway's health in every
\* reachable state.
THEOREM HealthSafe == HealthSpec => []HealthInv
BY HealthInvInit, HealthInvStep, PTL DEF HealthSpec

\* Whatever the thresholds, one emergency cancel-all is sent per streak of
\* failed heartbeats that reaches the threshold, and none before.
THEOREM HealthOneSweep == HealthSpec => []OneSweepPerStreak
<1>1. HealthInv => OneSweepPerStreak
  BY DEF HealthInv, Latched, OneSweepPerStreak, should_cancel_all
<1> QED
  BY <1>1, HealthSafe, PTL

\* Whatever the thresholds and the order of answers, no handler leaves the
\* gateway degraded, or healthy again, without having published the edge.
THEOREM HealthEdges == HealthSpec => []EdgesPublished
<1>1. HealthInv => EdgesPublished
  <2> SUFFICES ASSUME HealthInv PROVE EdgesPublished
    OBVIOUS
  <2>1. degraded_now(gh) \in BOOLEAN /\ gh.was_degraded \in BOOLEAN
    BY HealthAssumption DEF HealthInv, HealthStates, degraded_now, is_degraded, is_failed
  <2> QED
    BY <2>1 DEF HealthInv, Published, EdgesPublished
<1> QED
  BY <1>1, HealthSafe, PTL
=============================================================================
