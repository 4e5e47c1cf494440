----------------------------- MODULE WsClients -----------------------------
(***************************************************************************)
(* The four WebSocket clients: market data and user events                  *)
(* (ws/market_ws_client.cpp, ws/user_ws_client.cpp: several redundant       *)
(* connections, subscriptions added at run time), RTDS prices and Binance   *)
(* (rtds/rtds_ws_client.cpp, binance/binance_ws_client.cpp: one             *)
(* connection). Each runs its own io thread; the clients share no state, so *)
(* a behaviour is one client's, chosen at the start.                       *)
(*                                                                         *)
(* Asio: an operation is outstanding until its handler runs. Operations on  *)
(* a stream that was cancelled or destroyed are dead: their handlers run,   *)
(* with an error, and being queued at once do so before any operation       *)
(* started or timer armed later. Resolving is not an operation on the stream. TCP connect, TLS and *)
(* WebSocket handshakes fail and go on alike and are one operation. A       *)
(* second write on a stream waits for the first, as in a release build.     *)
(***************************************************************************)
EXTENDS Integers, FiniteSets, Bags

CONSTANTS
    Clients,    \* subset of {"market", "user", "rtds", "binance"}
    Redundancy, \* connections of each client
    MaxAuth,    \* max_auth_failures
    MaxUp,      \* bound on connected_count_
    MaxOps,     \* bound on the operations outstanding
    MaxQueue    \* bound on a connection's write queue, by client

VARIABLE wsc
\* client      which client this is
\* bare        is it configured without asset ids (market), credentials (user)?
\* ws, reconnecting, rtimer, ptimer   per connection: is there a stream, the
\*             flag and the two timers
\* queue, writing    per connection: length of write_queue, the flag
\* sent, first       per connection: subscribe_sent, first_data_received
\* ops         bag of outstanding operations
\* count       connected_count_ (Binance: 1 or 0 for connected_)
\* stale, rotate     are the watchdog and the 24h timer armed?
\* before      connections with a reconnect timer older than the watchdog
\* heard       is some last_message_ts set?
\* subs        has a subscription been added?
\* fails, fatal, shut   consecutive_auth_failures_, fatal flag, shutdown_requested

Conns(w) == 1 .. Redundancy[w.client]
WsOp(c, k) == [conn |-> c, op |-> k, dead |-> FALSE]
Adds(w, o) == [w EXCEPT !.ops = @ (+) SetToBag({o})]
Writes == {"subscribe", "ping", "write"}

\* cancel(), close() or reset() of a connection's stream.
Cancelled(w, c) ==
    LET after(o) == IF o.conn = c /\ o.op # "resolve" THEN [o EXCEPT !.dead = TRUE] ELSE o
    IN [w EXCEPT !.ops = BagOfAll(after, @)]

\* Mutant: a retried connection still counts as reconnecting, its errors ignored.
start_connect_marked(w, c) ==
    Adds(Cancelled([w EXCEPT !.ws[c] = TRUE], c), WsOp(c, "resolve"))

\* start_connect, alike in the four clients, but that the user client without
\* credentials raises the fatal flag instead.
start_connect(w, c) ==
    IF w.client = "user" /\ w.bare THEN [w EXCEPT !.fatal = TRUE]
    ELSE Adds(Cancelled([w EXCEPT !.reconnecting[c] = FALSE, !.ws[c] = TRUE], c),
              WsOp(c, "resolve"))

\* Connecting closes the socket first: a second attempt ends the first.
on_resolve(w, c) == Adds(Cancelled(w, c), WsOp(c, "connect"))

\* run(): the other connections start later, each by a timer of its own.
WsInit ==
    \E k \in Clients, bare \in BOOLEAN :
       /\ bare => k \in {"market", "user"}
       /\ LET cs == 1 .. Redundancy[k]
              no == [c \in cs |-> FALSE]
          IN wsc = start_connect(
            [client |-> k, bare |-> bare, ws |-> no, reconnecting |-> [c \in cs |-> c # 1],
             rtimer |-> [c \in cs |-> c # 1], ptimer |-> no,
             queue |-> [c \in cs |-> 0], writing |-> no, sent |-> no, first |-> no,
             ops |-> EmptyBag, count |-> 0, stale |-> FALSE, before |-> {}, rotate |-> FALSE,
             heard |-> FALSE, subs |-> FALSE, fails |-> 0, fatal |-> FALSE,
             shut |-> FALSE], 1)

schedule_reconnect(w, c) ==
    [w EXCEPT !.reconnecting[c] = TRUE, !.rtimer[c] = TRUE]

-----------------------------------------------------------------------------
\* Losing a connection. soon: did the error come within the authentication
\* window after the subscription was sent?

OneLess(w) == [w EXCEPT !.count = IF @ > 0 THEN @ - 1 ELSE @]

MarketError(w, c) ==
    schedule_reconnect(OneLess([w EXCEPT !.ptimer[c] = FALSE]), c)

\* A rejected login closes the connection before any data. After MaxAuth such
\* failures in a row the client gives up and raises the fatal flag.
UserError(w, c, soon) ==
    LET down == OneLess(Cancelled([w EXCEPT !.ptimer[c] = FALSE], c))
        refused == c = 1 /\ w.sent[c] /\ ~w.first[c] /\ soon
    IN IF ~refused THEN schedule_reconnect(down, c)
       ELSE IF w.fails + 1 >= MaxAuth
            THEN [down EXCEPT !.fails = MaxAuth, !.fatal = TRUE]
            ELSE schedule_reconnect([down EXCEPT !.fails = @ + 1], c)

RtdsError(w, c) ==
    schedule_reconnect([w EXCEPT !.ptimer[c] = FALSE, !.stale = FALSE], c)

BinanceError(w, c) ==
    schedule_reconnect([w EXCEPT !.stale = FALSE, !.rotate = FALSE, !.count = 0], c)

handle_error(w, c, soon) ==
    CASE w.shut \/ w.reconnecting[c] -> w
      [] w.client = "market"  -> MarketError(w, c)
      [] w.client = "user"    -> UserError(w, c, soon)
      [] w.client = "rtds"    -> RtdsError(w, c)
      [] w.client = "binance" -> BinanceError(w, c)

-----------------------------------------------------------------------------
\* Writes behind the queue, and the operations that bypass it.

conn_drain_write(w, c) ==
    IF w.queue[c] = 0 THEN [w EXCEPT !.writing[c] = FALSE]
    ELSE Adds([w EXCEPT !.writing[c] = TRUE], WsOp(c, "write"))

conn_enqueue_write(w, c) ==
    LET more == [w EXCEPT !.queue[c] = @ + 1]
    IN IF w.writing[c] THEN more ELSE conn_drain_write(more, c)

\* The queue moves on; a failed write stops it until the next message.
on_written(w, c, ok) ==
    LET rest == [w EXCEPT !.queue[c] = @ - 1]
    IN IF ok THEN conn_drain_write(rest, c) ELSE [rest EXCEPT !.writing[c] = FALSE]

do_read(w, c) == Adds(w, WsOp(c, "read"))

start_stale_timer(w) ==
    [w EXCEPT !.stale = TRUE, !.before = {c \in Conns(w) : w.rtimer[c]}]

\* Without assets there is nothing to subscribe to: the pings start at once.
send_subscribe(w, c) ==
    IF w.client = "market" /\ w.bare THEN [w EXCEPT !.ptimer[c] = TRUE]
    ELSE Adds(w, WsOp(c, "subscribe"))

\* A connection is up: say so for the first, subscribe, replay the
\* subscriptions added at run time, watch, read.
MarketConnected(w, c) ==
    LET subscribed == send_subscribe([w EXCEPT !.count = @ + 1], c)
        replayed == IF w.subs THEN conn_enqueue_write(subscribed, c) ELSE subscribed
        watched == IF w.count = 0 THEN start_stale_timer(replayed) ELSE replayed
    IN do_read(watched, c)

\* The user client starts from a fresh time stamp and login state.
UserConnected(w, c) ==
    MarketConnected([w EXCEPT !.heard = TRUE, !.sent[c] = FALSE, !.first[c] = FALSE], c)

RtdsConnected(w, c) ==
    do_read(send_subscribe(start_stale_timer(w), c), c)

BinanceConnected(w, c) ==
    do_read(start_stale_timer([w EXCEPT !.heard = TRUE, !.count = 1, !.rotate = TRUE]), c)

on_ws_connected(w, c) ==
    CASE w.client = "market"  -> MarketConnected(w, c)
      [] w.client = "user"    -> UserConnected(w, c)
      [] w.client = "rtds"    -> RtdsConnected(w, c)
      [] w.client = "binance" -> BinanceConnected(w, c)

send_subscribe_done(w, c) == [w EXCEPT !.sent[c] = TRUE, !.ptimer[c] = TRUE]

\* A message; for the user client the first one proves the login good.
UserHears(w, c) ==
    [w EXCEPT !.heard = TRUE, !.first[c] = TRUE, !.fails = IF w.first[c] THEN @ ELSE 0]

MarketHears(w, c) == [w EXCEPT !.heard = TRUE]

Hears(w, c) == IF w.client = "user" THEN UserHears(w, c) ELSE MarketHears(w, c)

-----------------------------------------------------------------------------
\* The steps of a client's io thread.

\* The stream is open and being read.
Up(c) == BagIn(WsOp(c, "read"), wsc.ops)

Others(o) == [wsc EXCEPT !.ops = @ (-) SetToBag({o})]

\* An outstanding operation ends and its handler runs.
Completes(o, ok, soon) ==
    /\ ok => ~o.dead /\ (o.op = "write" => Up(o.conn))
    /\ o.dead \/ o.op = "resolve" \/ \A d \in BagToSet(wsc.ops) : d.conn = o.conn => ~d.dead
    /\ CASE ~ok /\ o.op # "write" -> wsc' = handle_error(Others(o), o.conn, soon)
         [] ok /\ o.op = "resolve" -> wsc' = on_resolve(Others(o), o.conn)
         [] ok /\ o.op = "connect" -> /\ wsc.count < MaxUp
                                      /\ wsc.queue[o.conn] <= MaxQueue[wsc.client]
                                      /\ wsc' = on_ws_connected(Others(o), o.conn)
         [] ok /\ o.op = "subscribe" -> wsc' = send_subscribe_done(Others(o), o.conn)
         [] ok /\ o.op = "ping" -> wsc' = [Others(o) EXCEPT !.ptimer[o.conn] = TRUE]
         [] ok /\ o.op = "read" -> wsc' = do_read(Hears(Others(o), o.conn), o.conn)
         [] OTHER -> wsc' = on_written(Others(o), o.conn, ok)

OperationEnds ==
    /\ ~wsc.shut
    /\ \E o \in BagToSet(wsc.ops), ok, soon \in BOOLEAN : Completes(o, ok, soon)

\* The message handler throws: the connection is given up with no read on it.
HandlerThrows ==
    /\ ~wsc.shut
    /\ wsc.client # "binance"
    /\ \E c \in Conns(wsc) :
         /\ Up(c)
         /\ wsc' = handle_error(Hears(Others(WsOp(c, "read")), c), c, FALSE)

\* Timers fire when no dead operation waits for its handler.
TimersRun ==
    /\ ~wsc.shut
    /\ \A o \in BagToSet(wsc.ops) : ~o.dead

Reconnects(c) ==
    /\ TimersRun
    /\ wsc.rtimer[c]
    /\ BagCardinality(wsc.ops) < MaxOps
    /\ wsc' = start_connect([wsc EXCEPT !.rtimer[c] = FALSE, !.before = @ \ {c}], c)

send_ping(c) ==
    /\ TimersRun
    /\ wsc.ptimer[c]
    /\ wsc' = Adds([wsc EXCEPT !.ptimer[c] = FALSE], WsOp(c, "ping"))

\* The watchdog finds data fresh and goes on, or stale: then every connection
\* not yet reconnecting is given up, and the watchdog rests until one is up.
\* No reconnect delay is longer than the user client's threshold: a reconnect
\* timer armed before the watchdog fires before it.
StaleConnections(w) == {c \in Conns(w) : ~w.reconnecting[c]}

AllGivenUp(w, soon) ==
    LET first == IF 1 \in StaleConnections(w) THEN handle_error(w, 1, soon) ELSE w
    IN IF 2 \in StaleConnections(w) THEN handle_error(first, 2, soon) ELSE first

WatchdogFires ==
    /\ TimersRun
    /\ wsc.stale
    /\ wsc.heard
    /\ wsc.client = "user" => wsc.before = {}
    /\ \E soon \in BOOLEAN : wsc' = AllGivenUp([wsc EXCEPT !.stale = FALSE], soon)

\* Binance ends a connection after a day: reconnect before.
RotateTimer ==
    /\ TimersRun
    /\ wsc.rotate
    /\ wsc' = handle_error([wsc EXCEPT !.rotate = FALSE], 1, FALSE)

\* T7 subscribes (kept for replay) or unsubscribes (not taken off again).
SendsToAll(w) ==
    LET one == IF w.ws[1] THEN conn_enqueue_write(w, 1) ELSE w
    IN IF 2 \in Conns(w) /\ w.ws[2] THEN conn_enqueue_write(one, 2) ELSE one

do_subscribe_add ==
    /\ ~wsc.shut
    /\ wsc.client \in {"market", "user"}
    /\ \A c \in Conns(wsc) : wsc.queue[c] < MaxQueue[wsc.client]
    /\ wsc' = SendsToAll([wsc EXCEPT !.subs = TRUE])

do_unsubscribe ==
    /\ ~wsc.shut
    /\ wsc.client \in {"market", "user"}
    /\ \A c \in Conns(wsc) : wsc.queue[c] < MaxQueue[wsc.client]
    /\ wsc' = SendsToAll(wsc)

\* request_shutdown: no handler does anything from here on.
WsShutdown ==
    /\ ~wsc.shut
    /\ wsc' = [wsc EXCEPT !.shut = TRUE, !.stale = FALSE, !.rotate = FALSE,
                          !.ptimer = [c \in Conns(wsc) |-> FALSE],
                          !.rtimer = [c \in Conns(wsc) |-> FALSE]]

WsNext ==
    \/ OperationEnds
    \/ HandlerThrows
    \/ \E c \in Conns(wsc) : Reconnects(c) \/ send_ping(c)
    \/ WatchdogFires
    \/ RotateTimer
    \/ do_subscribe_add
    \/ do_unsubscribe
    \/ WsShutdown

-----------------------------------------------------------------------------
\* Properties.

WsTypeOK ==
    /\ wsc.count \in 0 .. MaxUp
    /\ wsc.fails \in 0 .. MaxAuth
    /\ \A c \in Conns(wsc) : wsc.queue[c] \in 0 .. MaxQueue[wsc.client] + 1

\* No connection is forgotten: whatever fails, in whatever order, each is being
\* established, read, about to be retried, or about to learn that it failed;
\* only shutdown and a login that is refused or cannot be made end that.
NeverDark ==
    wsc.shut \/ wsc.fatal \/
      \A c \in Conns(wsc) :
        wsc.rtimer[c] \/ \E o \in BagToSet(wsc.ops) : o.conn = c /\ o.op \notin Writes
=============================================================================
