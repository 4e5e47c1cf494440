---------------------------- MODULE Http2Client ----------------------------
(***************************************************************************)
(* Http2Client (src/rest/http2_client.cpp): one HTTP/2 connection of the   *)
(* gateway's pool, run by the gateway thread's io_context.  One record h2  *)
(* holds Impl; each handler is an operator on it.  Requests are numbered   *)
(* in the order of their async_send, and answers[r] counts the calls of    *)
(* r's callback.  A callback may itself call async_send (heartbeat_failure *)
(* sends the emergency cancel-all from inside the heartbeat's callback),   *)
(* so a handler takes again: whether the first callback it runs does so.   *)
(*                                                                         *)
(* ops holds the asynchronous operations whose handler has not run.  An    *)
(* operation on a stream that is destroyed becomes dead: its handler runs  *)
(* next, with operation_aborted.                                           *)
(***************************************************************************)
EXTENDS Naturals, Sequences, FiniteSets

CONSTANTS MaxRequests,  \* requests the gateway sends
          MaxStreams,   \* min(server_max_streams, max_concurrent_streams)
          MaxConnects   \* connection attempts

VARIABLE h2

H2Requests == 1 .. MaxRequests

H2Ops == [op : {"resolve", "connect", "read", "write"}, dead : BOOLEAN]

live(op) == [op |-> op, dead |-> FALSE]

H2Impl == [sent |-> 0, answers |-> [r \in H2Requests |-> 0],
           pending |-> <<>>, streams |-> {}, connected |-> FALSE,
           connecting |-> FALSE, reconnect_scheduled |-> FALSE,
           tls_stream |-> FALSE, session |-> FALSE, goaway |-> FALSE,
           cached |-> FALSE, scanning |-> FALSE, writing |-> FALSE,
           staged |-> "none", garbled |-> FALSE, ops |-> {}, tries |-> 0,
           shutdown |-> FALSE, fault |-> FALSE]

\* The callbacks of the requests in rs are called.
h2_call(s, rs) == [s EXCEPT !.answers = [r \in H2Requests |->
                                 IF r \in rs THEN @[r] + 1 ELSE @[r]]]

\* The operations on the stream that is being destroyed are aborted; its
\* unsent frames stay in the staging buffer (write_bufs_, staged_pending_).
h2_drop_stream(s) ==
    [s EXCEPT !.tls_stream = FALSE, !.session = FALSE,
              !.ops = {[o EXCEPT !.dead = @ \/ o.op # "resolve"] : o \in s.ops},
              !.staged = IF @ = "none" THEN "none" ELSE "stale"]

(***************************************************************************)
(* Writing: session_send drains the session into the staging buffer (more: *)
(* whether it had frames) and starts a write unless one is in flight.      *)
(* Frames of an earlier session that were left in the buffer go out ahead  *)
(* of the new connection's preface: a server can only drop such a          *)
(* connection (garbled).                                                   *)
(***************************************************************************)
flush_staged(s) ==
    IF s.staged = "none" THEN s
    ELSE [s EXCEPT !.staged = "none", !.writing = TRUE,
                   !.garbled = @ \/ s.staged = "stale",
                   !.ops = @ \cup {live("write")}]

session_send(s, more) ==
    LET t == IF more /\ s.staged = "none" THEN [s EXCEPT !.staged = "fresh"] ELSE s
    IN  IF ~s.session \/ ~s.connected THEN s
        ELSE IF s.writing THEN t ELSE flush_staged(t)

\* Pending requests become streams while there is room; nghttp2 may refuse
\* one, whose callback is then called with a failure.
submit_request(s, taken, refused) ==
    h2_call([s EXCEPT !.streams = @ \cup (taken \ refused)], taken \cap refused)

try_submit_pending(s, refused) ==
    LET Room(i) == Cardinality(s.streams)
                     + Cardinality({j \in 1 .. (i - 1) : s.pending[j] \notin refused})
                   < MaxStreams
        n == Cardinality({i \in DOMAIN s.pending : Room(i)})
        taken == {s.pending[i] : i \in 1 .. n}
    IN  IF ~s.session \/ s.goaway THEN s
        ELSE session_send(
                 submit_request([s EXCEPT !.pending = SubSeq(@, n + 1, Len(@))],
                                taken, refused),
                 taken # {})

(***************************************************************************)
(* Connecting.  Resolving, then TCP, TLS and ALPN; with a cached endpoint  *)
(* (five minutes) resolving is skipped.                                    *)
(***************************************************************************)
h2_on_resolve(s) == [s EXCEPT !.tls_stream = TRUE, !.ops = @ \cup {live("connect")}]

h2_start_connect(s) ==
    LET t == [s EXCEPT !.connecting = TRUE, !.tries = @ + 1]
    IN  IF s.connecting \/ s.connected \/ s.shutdown THEN s
        ELSE IF s.cached THEN h2_on_resolve(t)
        ELSE [t EXCEPT !.ops = @ \cup {live("resolve")}]

h2_schedule_reconnect(s) ==
    IF s.shutdown THEN s ELSE [s EXCEPT !.reconnect_scheduled = TRUE]

h2_enqueue_request(s, refused) ==
    LET t == [s EXCEPT !.sent = @ + 1, !.pending = Append(@, s.sent + 1)]
    IN  IF ~s.connected /\ ~s.connecting /\ ~s.reconnect_scheduled
        THEN h2_start_connect(t)
        ELSE IF s.connected THEN try_submit_pending(t, refused)
        ELSE t

\* A callback that has just been called sends another request.
h2_again(s, again) ==
    IF again /\ s.sent < MaxRequests THEN h2_enqueue_request(s, {}) ELSE s

\* The loop also fails what the callbacks put into pending meanwhile.
fail_all_pending(s) ==
    [h2_call(s, {s.pending[i] : i \in DOMAIN s.pending}) EXCEPT !.pending = <<>>]

\* While the callbacks run the streams are still in the map; clear() then
\* also drops a stream that a callback has opened meanwhile.
fail_all_streams(s, again) ==
    [h2_again(h2_call(s, s.streams), again /\ s.streams # {}) EXCEPT !.streams = {}]

h2_on_connect_failure(s, again) ==
    LET t == [s EXCEPT !.connecting = FALSE]
        u == IF s.pending = <<>> THEN t
             ELSE h2_again(h2_call(t, {s.pending[1]}), again)
        v == IF s.pending = <<>> THEN t ELSE fail_all_pending([u EXCEPT !.pending = Tail(@)])
    IN  h2_schedule_reconnect(v)

on_connection_error(s, again) ==
    LET t == [s EXCEPT !.connected = FALSE, !.writing = FALSE, !.scanning = FALSE]
    IN  h2_schedule_reconnect(
            h2_drop_stream(fail_all_pending(fail_all_streams(t, again))))

\* session_send when nghttp2 has no memory for its frames (len < 0).  Such a
\* failure inside a callback's own send is left out.
session_send_fails(s, again) ==
    IF s.session /\ s.connected THEN on_connection_error(s, again) ELSE s

on_tls_handshake(s, refused) ==
    LET t == [s EXCEPT !.connecting = FALSE, !.connected = TRUE, !.session = TRUE,
                       !.goaway = FALSE, !.garbled = FALSE]
        u == [session_send(t, TRUE) EXCEPT !.ops = @ \cup {live("read")},
                                           !.scanning = ~s.shutdown]
    IN  try_submit_pending(u, refused)

(***************************************************************************)
(* Reading: what one read brings.                                          *)
(***************************************************************************)
\* A stream ends with its answer, which frees room for a pending request.
on_stream_close_cb(s, r, refused, again) ==
    try_submit_pending(
        h2_again(h2_call([s EXCEPT !.streams = @ \ {r}], {r}), again), refused)

\* GOAWAY: no new streams.  With none open the connection is torn down at
\* once, from inside the session's own receive function.
h2_on_goaway(s) ==
    LET t == [s EXCEPT !.goaway = TRUE]
    IN  IF s.streams = {} THEN on_connection_error(t, FALSE) ELSE t

\* The end of a read that succeeded.
h2_read_on(s, more) ==
    LET t == session_send(s, more)
    IN  IF t.connected THEN [t EXCEPT !.ops = @ \cup {live("read")}] ELSE t

\* Mutant: a request that timed out stays in the stream map.
scan_timeouts_kept(s, late, again) == h2_again(h2_call(s, late), again)

\* The stream is erased after its callback: a request that the callback sends
\* still finds it counted.  The reset frames are sent by session_send.
scan_timeouts(s, late, again) ==
    [h2_again(h2_call(s, late), again) EXCEPT !.streams = @ \ late]
-----------------------------------------------------------------------------
H2Init == h2 = H2Impl

\* Aborted handlers run before anything else: cancel() has queued them.
H2Quiet == ~h2.fault /\ \A o \in h2.ops : ~o.dead

H2Takes(op) == [h2 EXCEPT !.ops = @ \ {live(op)}]

\* The requests that nghttp2 may be given, and refuse, in this step.
H2Waiting == {h2.pending[i] : i \in DOMAIN h2.pending} \cup {h2.sent + 1}

H2Sends ==
    /\ H2Quiet /\ h2.sent < MaxRequests /\ ~h2.shutdown
    /\ \/ \E refused \in SUBSET H2Waiting : h2' = h2_enqueue_request(h2, refused)
       \/ /\ h2.connected /\ ~h2.goaway
          /\ \E again \in BOOLEAN :
                h2' = session_send_fails([h2 EXCEPT !.sent = @ + 1,
                                                    !.pending = Append(@, h2.sent + 1)], again)

H2Resolved ==
    /\ H2Quiet /\ live("resolve") \in h2.ops
    /\ \E ok, again \in BOOLEAN :
          h2' = IF ok /\ ~h2.shutdown
               THEN h2_on_resolve([H2Takes("resolve") EXCEPT !.cached = TRUE])
               ELSE h2_on_connect_failure(H2Takes("resolve"), again)

H2DnsExpires == H2Quiet /\ h2.cached /\ h2' = [h2 EXCEPT !.cached = FALSE]

H2Connected ==
    /\ H2Quiet /\ live("connect") \in h2.ops
    /\ \/ \E again \in BOOLEAN :
             h2' = h2_on_connect_failure(H2Takes("connect"), again)
       \/ /\ ~h2.shutdown        \* no session can be made: pending is kept
          /\ h2' = h2_schedule_reconnect([H2Takes("connect") EXCEPT !.connecting = FALSE])
       \/ /\ ~h2.shutdown
          /\ \E refused \in SUBSET H2Waiting :
                h2' = on_tls_handshake(H2Takes("connect"), refused)

H2Reads ==
    /\ H2Quiet /\ live("read") \in h2.ops
    /\ LET s == H2Takes("read") IN
       \/ \E again \in BOOLEAN : h2' = on_connection_error(s, again)
       \/ /\ ~h2.garbled
          /\ \E r \in h2.streams, again \in BOOLEAN :
                h2' = session_send_fails(on_stream_close_cb(s, r, {}, FALSE), again)
       \/ /\ ~h2.garbled
          /\ \E more \in BOOLEAN : h2' = h2_read_on(s, more)
       \/ /\ ~h2.garbled
          /\ \E r \in h2.streams, refused \in SUBSET H2Waiting, again \in BOOLEAN :
                h2' = h2_read_on(on_stream_close_cb(s, r, refused, again), FALSE)
       \/ /\ ~h2.garbled
          /\ h2' = h2_read_on(h2_on_goaway(s), FALSE)
       \/ /\ ~h2.garbled /\ h2.streams = {}       \* the freed session is used
          /\ h2' = [s EXCEPT !.fault = TRUE]

H2Wrote ==
    /\ H2Quiet /\ live("write") \in h2.ops
    /\ LET s == [H2Takes("write") EXCEPT !.writing = FALSE] IN
       \/ \E again \in BOOLEAN : h2' = on_connection_error(s, again)
       \/ h2' = session_send(s, FALSE)

H2Aborted ==
    /\ ~h2.fault
    /\ \E o \in h2.ops, again \in BOOLEAN :
          /\ o.dead
          /\ LET s == [h2 EXCEPT !.ops = @ \ {o},
                                !.writing = @ /\ o.op # "write"]
             IN  h2' = IF o.op \in {"resolve", "connect"}
                      THEN h2_on_connect_failure(s, again)
                      ELSE on_connection_error(s, again)

H2ReconnectFires ==
    /\ H2Quiet /\ h2.reconnect_scheduled /\ h2.tries < MaxConnects
    /\ h2' = h2_start_connect([h2 EXCEPT !.reconnect_scheduled = FALSE])

H2ScanFires ==
    /\ H2Quiet /\ h2.scanning /\ h2.session
    /\ \E late \in SUBSET h2.streams \ {{}}, again \in BOOLEAN :
          \/ h2' = session_send(scan_timeouts(h2, late, again), TRUE)
          \/ h2' = session_send_fails(scan_timeouts(h2, late, FALSE), again)

\* The gateway shuts its transports down; the io_context keeps running.
request_shutdown_impl ==
    /\ H2Quiet /\ ~h2.shutdown
    /\ \E again \in BOOLEAN :
          LET s == [h2 EXCEPT !.shutdown = TRUE, !.reconnect_scheduled = FALSE,
                             !.scanning = FALSE,
                             !.ops = {[o EXCEPT !.dead = TRUE] : o \in @}]
          IN  h2' = h2_drop_stream(fail_all_pending(fail_all_streams(s, again)))

H2Next ==
    \/ H2Sends \/ H2Resolved \/ H2DnsExpires \/ H2Connected \/ H2Reads
    \/ H2Wrote \/ H2Aborted \/ H2ReconnectFires \/ H2ScanFires
    \/ request_shutdown_impl

H2Spec == H2Init /\ [][H2Next]_h2
-----------------------------------------------------------------------------
\* The record is well formed.
H2TypeOK ==
    /\ h2.sent \in 0 .. MaxRequests
    /\ \A r \in H2Requests : h2.answers[r] \in 0 .. 1
    /\ \A i \in DOMAIN h2.pending : h2.pending[i] \in H2Requests
    /\ h2.streams \subseteq H2Requests
    /\ h2.ops \subseteq H2Ops
    /\ h2.staged \in {"none", "fresh", "stale"}

H2Held(r) == r \in h2.streams \/ \E i \in DOMAIN h2.pending : h2.pending[i] = r

\* What has become of each request, as RestTransport.tla tells it.  A request
\* that is neither held nor answered is lost, unless the client has been shut
\* down.
H2Status ==
    [r \in H2Requests |->
        CASE r > h2.sent -> "idle"
          [] r <= h2.sent /\ h2.answers[r] = 0 /\ (H2Held(r) \/ h2.shutdown) -> "open"
          [] r <= h2.sent /\ h2.answers[r] = 1 /\ ~H2Held(r) -> "answered"
          [] OTHER -> "broken"]
=============================================================================
