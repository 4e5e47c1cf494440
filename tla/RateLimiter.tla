---------------------------- MODULE RateLimiter ----------------------------
(***************************************************************************)
(* RateLimiter (src/exec/rate_limiter.cpp): sliding windows of counting    *)
(* buckets, one for all requests and one per kind, and the back-off that   *)
(* 429, 425 and 503 answers impose.  Time is counted in ticks from 1 (a    *)
(* window whose last_slide_ts is 0 has never been used).                   *)
(***************************************************************************)
EXTENDS Integers, FiniteSets, FiniteSetsExt

CONSTANTS Buckets,      \* kNumBuckets
          BucketTicks,  \* kBucketMs
          Limit,        \* limit_per_10s of each window
          BackoffBase, Backoff425, BackoffMax,
          MaxNow,       \* ticks
          MaxAnswers    \* answers other than success

VARIABLES lim,          \* the limiter
          now

Kinds == {"order", "cancel", "heartbeat"}

Windows == {"global"} \cup Kinds

SlidingWindow == [buckets |-> [i \in 0 .. Buckets - 1 |-> 0], current |-> 0, last |-> 0]

Limiter == [windows |-> [w \in Windows |-> SlidingWindow],
            taken |-> [w \in Windows |-> [t \in 1 .. MaxNow |-> 0]],
            unavailable |-> FALSE, backoff_until |-> 0,
            backoff |-> BackoffBase, backoff425 |-> Backoff425, answers |-> 0]

\* Mutant: a part of a bucket's length counts as a whole one.
slide_early(win, t) ==
    LET n == (t - win.last + BucketTicks - 1) \div BucketTicks
    IN  IF win.last = 0 THEN [win EXCEPT !.last = t]
        ELSE IF n <= 0 THEN win
        ELSE IF n >= Buckets THEN [SlidingWindow EXCEPT !.last = t]
        ELSE [buckets |-> [i \in 0 .. Buckets - 1 |->
                             IF \E k \in 1 .. n : i = (win.current + k) % Buckets
                             THEN 0 ELSE win.buckets[i]],
              current |-> (win.current + n) % Buckets,
              last |-> t]

\* The buckets that have passed since the last slide are cleared; the rest of
\* the elapsed time, less than a bucket, is forgotten.
slide(win, t) ==
    LET n == (t - win.last) \div BucketTicks
    IN  IF win.last = 0 THEN [win EXCEPT !.last = t]
        ELSE IF n <= 0 THEN win
        ELSE IF n >= Buckets THEN [SlidingWindow EXCEPT !.last = t]
        ELSE [buckets |-> [i \in 0 .. Buckets - 1 |->
                             IF \E k \in 1 .. n : i = (win.current + k) % Buckets
                             THEN 0 ELSE win.buckets[i]],
              current |-> (win.current + n) % Buckets,
              last |-> t]

total(win) == MapThenSumSet(LAMBDA i : win.buckets[i], DOMAIN win.buckets)

has_room(win, w) == total(win) < Limit[w]

\* taken records the tokens that a window has given at each tick.
try_consume(s, w, t) ==
    LET win == slide(s.windows[w], t)
    IN  IF has_room(win, w)
        THEN [s EXCEPT !.windows[w] = [win EXCEPT !.buckets[win.current] = @ + 1],
                       !.taken[w][t] = @ + 1]
        ELSE [s EXCEPT !.windows[w] = win]

\* A kind's own window is asked after the global one has already given a token.
try_acquire(s, kind, t) ==
    LET g == try_consume(s, "global", t)
    IN  IF t < s.backoff_until \/ (s.unavailable /\ kind = "order") THEN s
        ELSE IF ~has_room(slide(s.windows["global"], t), "global") THEN g
        ELSE try_consume(g, kind, t)

AtMost(a, b) == IF a <= b THEN a ELSE b

AtLeast(a, b) == IF a >= b THEN a ELSE b

\* 25% of jitter either way.
apply_jitter(ms) == {AtLeast(1, d) : d \in (ms - ms \div 4) .. (ms + ms \div 4)}

record_response(s, http_status, t) ==
    CASE http_status = 429 ->
            {[s EXCEPT !.backoff_until = t + d, !.backoff = AtMost(@ * 2, BackoffMax)]
                : d \in apply_jitter(s.backoff)}
      [] http_status = 425 ->
            {[s EXCEPT !.backoff_until = AtLeast(@, t + d),
                       !.backoff425 = AtMost(@ * 2, BackoffMax)]
                : d \in apply_jitter(s.backoff425)}
      [] http_status = 503 ->
            {[s EXCEPT !.backoff_until = t + d, !.unavailable = TRUE]
                : d \in apply_jitter(BackoffBase)}
      [] http_status = 200 ->
            {[s EXCEPT !.unavailable = FALSE, !.backoff = BackoffBase,
                       !.backoff425 = Backoff425]}
-----------------------------------------------------------------------------
LimInit == lim = Limiter /\ now = 1

Acquires(kind) == lim' = try_acquire(lim, kind, now) /\ UNCHANGED now

Answered(http_status) ==
    /\ lim.answers < MaxAnswers
    /\ \E s \in record_response(lim, http_status, now) :
          lim' = [s EXCEPT !.answers = @ + 1]
    /\ UNCHANGED now

Ticks == now < MaxNow /\ now' = now + 1 /\ UNCHANGED lim

LimNext ==
    \/ \E kind \in Kinds : Acquires(kind)
    \/ \E http_status \in {200, 425, 429, 503} : Answered(http_status)
    \/ Ticks

LimSpec == LimInit /\ [][LimNext]_<<lim, now>>
-----------------------------------------------------------------------------
\* Buckets are counts within the window's limit, and the two ladders stay
\* under their cap.
LimTypeOK ==
    /\ \A w \in Windows : total(lim.windows[w]) \in 0 .. Limit[w]
    /\ lim.backoff \in 1 .. BackoffMax /\ lim.backoff425 \in 1 .. BackoffMax
    /\ lim.unavailable \in BOOLEAN /\ lim.backoff_until \in Nat

Given(w, from, to) == MapThenSumSet(LAMBDA t : lim.taken[w][t], from .. to)

\* Over any stretch of Buckets - 1 bucket lengths, and so over the one that
\* ends now, a window gives at most its limit, wherever the slides fell in it.
\* (Over the full Buckets lengths it may give more: the tokens of the oldest
\* bucket are forgotten before that bucket's last token is that old.)
GrantsBounded ==
    \A w \in Windows :
        Given(w, AtLeast(1, now - (Buckets - 1) * BucketTicks + 1), now) <= Limit[w]
=============================================================================
