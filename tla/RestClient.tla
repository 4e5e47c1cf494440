----------------------------- MODULE RestClient -----------------------------
(***************************************************************************)
(* RestClient (src/rest/rest_client.cpp): one pipelined HTTP/1.1           *)
(* connection, run by the gateway thread's io_context.  One record rc      *)
(* holds Impl.  Requests are numbered in the order of their async_send;    *)
(* answers[r] counts the calls of r's callback, and wire holds the         *)
(* requests of this connection whose response the client has not handled,  *)
(* in order: the response that is read next is the answer to its head.  A  *)
(* read may bring more than the response it waits for; buffered counts the *)
(* responses that buffer holds beyond it.  A callback may call async_send  *)
(* (again), and an operation on a stream that is destroyed is dead: its    *)
(* handler runs next, with operation_aborted.                              *)
(***************************************************************************)
EXTENDS Naturals, Sequences, FiniteSets

CONSTANTS RcRequests,   \* how many requests the gateway sends
          RcDepth,      \* max_pipeline_depth
          RcPending,    \* max_pending_requests
          RcConnects    \* connection attempts

VARIABLE rc

RcIds == 1 .. RcRequests

RcOps == [op : {"connect", "read", "write"}, dead : BOOLEAN]

RcLive(op) == [op |-> op, dead |-> FALSE]

RcImpl == [sent |-> 0, answers |-> [r \in RcIds |-> 0], crossed |-> FALSE,
           pending |-> <<>>, in_flight |-> <<>>, wire |-> <<>>, buffered |-> 0,
           connected |-> FALSE, connecting |-> FALSE,
           reconnect_scheduled |-> FALSE, cached |-> FALSE,
           writing |-> FALSE, reading |-> FALSE, ops |-> {},
           resolves |-> 0, tries |-> 0,
           shutdown |-> FALSE]

rc_call(s, rs) == [s EXCEPT !.answers = [r \in RcIds |->
                                IF r \in rs THEN @[r] + 1 ELSE @[r]]]

RcIn(seq) == {seq[i] : i \in DOMAIN seq}

rc_fail_in_flight(s) == [rc_call(s, RcIn(s.in_flight)) EXCEPT !.in_flight = <<>>]

rc_fail_all(s) ==
    [rc_call(rc_fail_in_flight(s), RcIn(s.pending))
        EXCEPT !.pending = <<>>, !.writing = FALSE, !.reading = FALSE]

(***************************************************************************)
(* Connecting and reconnecting.  The reconnect timer is only started while *)
(* a request waits.                                                        *)
(***************************************************************************)
rc_abort(s) == [s EXCEPT !.ops = {[o EXCEPT !.dead = TRUE] : o \in @}]

\* A new stream takes the place of the old one, if there is one.
rc_on_resolve(s) ==
    [rc_abort(s) EXCEPT !.wire = <<>>, !.buffered = 0, !.ops = @ \cup {RcLive("connect")}]

rc_start_connect(s) ==
    LET t == [s EXCEPT !.connecting = TRUE, !.tries = @ + 1]
    IN  IF s.connecting \/ s.connected \/ s.shutdown THEN s
        ELSE IF s.cached THEN rc_on_resolve(t)
        ELSE [t EXCEPT !.resolves = @ + 1]

rc_schedule_reconnect(s) ==
    IF s.shutdown \/ s.pending = <<>> THEN s
    ELSE [s EXCEPT !.reconnect_scheduled = TRUE]

rc_drop_stream(s) ==
    [rc_abort(s) EXCEPT !.connected = FALSE, !.connecting = FALSE,
                        !.writing = FALSE, !.reading = FALSE]

\* What has not been written yet stays queued for the next connection.
on_connect_error(s) == rc_schedule_reconnect(rc_drop_stream(s))

\* One request at a time is written, while the pipeline has room.
try_write_next(s) ==
    IF s.writing \/ s.pending = <<>> \/ ~s.connected THEN s
    ELSE IF s.shutdown THEN rc_fail_all(s)
    ELSE IF Len(s.in_flight) >= RcDepth THEN s
    ELSE [s EXCEPT !.writing = TRUE, !.pending = Tail(@),
                   !.in_flight = Append(@, Head(s.pending)),
                   !.wire = Append(@, Head(s.pending)),
                   !.ops = @ \cup {RcLive("write")}]

\* buffer.clear() throws away the responses that the last read brought with
\* its own.  (Part of a response thrown away makes the next read fail.)
rc_do_read(s) ==
    IF s.reading \/ s.in_flight = <<>> \/ ~s.connected THEN s
    ELSE [s EXCEPT !.reading = TRUE, !.ops = @ \cup {RcLive("read")},
                   !.wire = SubSeq(@, s.buffered + 1, Len(@)), !.buffered = 0]

rc_enqueue_request(s) ==
    LET n == s.sent + 1
        t == [s EXCEPT !.sent = n, !.pending = Append(@, n)]
    IN  IF Len(s.pending) + Len(s.in_flight) >= RcPending
        THEN rc_call([s EXCEPT !.sent = n], {n})
        ELSE IF ~s.connected /\ ~s.connecting /\ ~s.reconnect_scheduled
        THEN rc_start_connect(t)
        ELSE IF s.connected THEN try_write_next(t)
        ELSE t

rc_again(s, again) == IF again /\ s.sent < RcRequests THEN rc_enqueue_request(s) ELSE s

\* A read or a write failed: what is in flight fails (it may or may not have
\* reached the exchange), what is pending waits for the next connection.
on_stream_error(s, again) ==
    LET t == rc_drop_stream(s)
        u == IF s.in_flight = <<>> THEN t
             ELSE rc_again(rc_fail_in_flight(t), again)
    IN  rc_schedule_reconnect(u)

on_tcp_connect(s) == try_write_next([s EXCEPT !.connecting = FALSE, !.connected = TRUE])

\* A response goes to the oldest request in flight, whichever request it is
\* the answer to (crossed); it came together with extra further ones.
on_response(s, extra, again) ==
    LET t == [s EXCEPT !.reading = FALSE, !.wire = Tail(@), !.buffered = extra]
        u == rc_call([t EXCEPT !.in_flight = Tail(@),
                               !.crossed = @ \/ Head(s.in_flight) # Head(s.wire)],
                     {Head(s.in_flight)})
    IN  IF s.in_flight = <<>> THEN try_write_next(t)
        ELSE try_write_next(rc_do_read(rc_again(u, again)))
-----------------------------------------------------------------------------
RcInit == rc = RcImpl

RcQuiet == \A o \in rc.ops : ~o.dead

RcTakes(op) == [rc EXCEPT !.ops = @ \ {RcLive(op)}]

RcSends == RcQuiet /\ ~rc.shutdown /\ rc.sent < RcRequests /\ rc' = rc_enqueue_request(rc)

RcResolved ==
    /\ RcQuiet /\ rc.resolves > 0
    /\ LET s == [rc EXCEPT !.resolves = @ - 1] IN
       \/ /\ rc.shutdown
          /\ rc' = rc_fail_all([s EXCEPT !.connecting = FALSE])
       \/ /\ ~rc.shutdown
          /\ \/ rc' = rc_on_resolve([s EXCEPT !.cached = TRUE])
             \/ rc' = on_connect_error(s)

\* Five minutes: longer than an attempt to connect may take.
RcDnsExpires ==
    /\ RcQuiet /\ rc.cached /\ rc.resolves = 0 /\ RcLive("connect") \notin rc.ops
    /\ rc' = [rc EXCEPT !.cached = FALSE]

RcConnected ==
    /\ RcQuiet /\ RcLive("connect") \in rc.ops
    /\ \/ rc' = on_tcp_connect(RcTakes("connect"))
       \/ rc' = on_connect_error(RcTakes("connect"))

\* A read ends with a response, with an error, or with the deadline.
RcReads ==
    /\ RcQuiet /\ RcLive("read") \in rc.ops
    /\ \E again \in BOOLEAN :
          \/ \E extra \in 0 .. Len(rc.wire) - 1 :
                rc' = on_response(RcTakes("read"), extra, again)
          \/ rc' = on_stream_error(RcTakes("read"), again)

RcWrote ==
    /\ RcQuiet /\ RcLive("write") \in rc.ops
    /\ LET s == [RcTakes("write") EXCEPT !.writing = FALSE] IN
       \/ rc' = try_write_next(rc_do_read(s))
       \/ \E again \in BOOLEAN : rc' = on_stream_error(s, again)

RcAborted ==
    \E o \in rc.ops, again \in BOOLEAN :
        /\ o.dead
        /\ LET s == [rc EXCEPT !.ops = @ \ {o}]
           IN  rc' = IF o.op # "connect" THEN on_stream_error(s, again)
                    ELSE IF rc.shutdown THEN rc_fail_all([s EXCEPT !.connecting = FALSE])
                    ELSE on_connect_error(s)

RcReconnectFires ==
    /\ RcQuiet /\ rc.reconnect_scheduled /\ rc.tries < RcConnects
    /\ rc' = rc_start_connect([rc EXCEPT !.reconnect_scheduled = FALSE])

\* shutdown() cancels what is outstanding; the stream itself stays.
RcShutdown ==
    /\ RcQuiet /\ ~rc.shutdown
    /\ rc' = rc_abort(rc_fail_all([rc EXCEPT !.shutdown = TRUE,
                                           !.reconnect_scheduled = FALSE]))

RcNext ==
    \/ RcSends \/ RcResolved \/ RcDnsExpires \/ RcConnected \/ RcReads
    \/ RcWrote \/ RcAborted \/ RcReconnectFires \/ RcShutdown

RcSpec == RcInit /\ [][RcNext]_rc
-----------------------------------------------------------------------------
\* The record is well formed, and the queue respects its bound.
RcTypeOK ==
    /\ rc.sent \in 0 .. RcRequests
    /\ \A r \in RcIds : rc.answers[r] \in 0 .. 1
    /\ RcIn(rc.pending) \cup RcIn(rc.in_flight) \subseteq RcIds
    /\ Len(rc.pending) + Len(rc.in_flight) <= RcPending
    /\ Len(rc.in_flight) <= RcDepth /\ rc.buffered \in 0 .. Len(rc.wire)
    /\ rc.ops \subseteq RcOps
    /\ rc.resolves \in Nat

RcHeld(r) == r \in RcIn(rc.pending) \cup RcIn(rc.in_flight)

\* What has become of each request, as RestTransport.tla tells it.  (That it
\* was answered with its own response is AnswersMatch.)
RcStatus ==
    [r \in RcIds |->
        CASE r > rc.sent -> "idle"
          [] r <= rc.sent /\ rc.answers[r] = 0 /\ (RcHeld(r) \/ rc.shutdown) -> "open"
          [] r <= rc.sent /\ rc.answers[r] = 1 /\ ~RcHeld(r) -> "answered"
          [] OTHER -> "broken"]

\* The client tracks what is in flight "for HTTP pipelining"
\* (rest_client.cpp:69): the response that a request's callback is given is
\* the response to that request.
AnswersMatch == ~rc.crossed
=============================================================================
