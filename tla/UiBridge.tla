------------------------------ MODULE UiBridge ------------------------------
(***************************************************************************)
(* T6's WebSocket server for the UI (ui_bridge/ipc_bridge.cpp): one io      *)
(* thread, one session at a time, asynchronous operations whose handlers    *)
(* all work on the members ws_, connected_ and write_in_progress_ of the    *)
(* bridge, whichever session they were started for.                        *)
(*                                                                         *)
(* Asio: an operation is outstanding until it completes; its completion is  *)
(* queued, and handlers run one at a time in the order of the queue.        *)
(* Destroying a stream queues the completions of its operations as failed.  *)
(* A failed accept starts the next one and is left out. Snapshots found to  *)
(* be due during a write are dropped: pending_snapshot_buf_ is only ever    *)
(* filled by send_snapshot during a write, when nobody calls it.           *)
(***************************************************************************)
EXTENDS Integers, Sequences, FiniteSets

CONSTANTS
    MaxSessions,    \* bound on the connections made
    WriteCap,       \* kMaxWriteQueue
    CtlCap,         \* capacity of the control queue
    AuthToken       \* is a token configured?

ASSUME UiAssumption ==
    /\ {MaxSessions, WriteCap, CtlCap} \subseteq Nat \ {0}
    /\ AuthToken \in BOOLEAN

VARIABLE ui
\* accepts     outstanding async_accept
\* ops, ready  other outstanding operations; completions waiting to be handled
\* ws, made    session in ws_ (0: none), sessions made so far
\* connected, writing, queued   connected_, write_in_progress_, |write_queue_|
\* ctl         length of the control queue
\* fatal, stopped, fault   fatal flag; io_context stopped; null ws_ dereferenced
\* doubled     has an accept been started before another one was handled?

UiInit ==
    ui = [accepts |-> 1, ops |-> {}, ready |-> <<>>, ws |-> 0, made |-> 0,
          connected |-> FALSE, writing |-> FALSE, queued |-> 0, ctl |-> 0,
          fatal |-> FALSE, stopped |-> FALSE, fault |-> FALSE, doubled |-> FALSE]

OpKinds == <<"upgrade", "refuse", "close", "handshake", "read", "write">>
Op(k, s) == [kind |-> k, sid |-> s]
Done(o, ok) == [kind |-> o.kind, sid |-> o.sid, ok |-> ok]

\* Operations on the stream in ws_, closed with their socket.
OpsOf(u, s) == SelectSeq([i \in 1 .. Len(OpKinds) |-> Op(OpKinds[i], s)], LAMBDA o : o \in u.ops)

\* ws_.reset()
Destroyed(u) ==
    LET mine == OpsOf(u, u.ws)
    IN IF u.ws = 0 THEN u
       ELSE [u EXCEPT !.ws = 0,
                      !.ops = {o \in @ : o.sid # u.ws},
                      !.ready = @ \o [i \in 1 .. Len(mine) |-> Done(mine[i], FALSE)]]

start_accept(u) ==
    [u EXCEPT !.accepts = @ + 1,
              !.doubled = @ \/ u.accepts > 0 \/ \E i \in DOMAIN u.ready : u.ready[i].kind = "accept"]

\* ws_->async_...: on a null ws_ this is a fault.
Started(u, k) ==
    IF u.ws = 0 THEN [u EXCEPT !.fault = TRUE] ELSE [u EXCEPT !.ops = @ \cup {Op(k, u.ws)}]

close_session(u) == Destroyed([u EXCEPT !.connected = FALSE, !.writing = FALSE])

start_read(u) == IF u.ws # 0 /\ u.connected THEN Started(u, "read") ELSE u

Written(u) == Started([u EXCEPT !.writing = TRUE], "write")

-----------------------------------------------------------------------------
\* The handlers.

on_accept(u, s) ==
    LET free == Destroyed(IF u.connected THEN close_session(u) ELSE u)
    IN Started([free EXCEPT !.ws = s], IF AuthToken THEN "upgrade" ELSE "handshake")

\* The upgrade request has been read: its token is right or not.
on_upgrade(u, ok, valid) ==
    IF ~ok THEN start_accept(Destroyed(u))
    ELSE Started(u, IF valid THEN "handshake" ELSE "refuse")

\* The refused client is told with a close frame.
on_refused(u) == IF u.ws = 0 THEN u ELSE Started(u, "close")

on_closed(u) == start_accept(Destroyed(u))

on_handshake(u, ok) ==
    IF ok THEN start_read([u EXCEPT !.connected = TRUE, !.writing = FALSE])
          ELSE start_accept(Destroyed(u))

\* Mutant: a lost client is not followed by another accept.
on_read_deaf(u, ok, msg) ==
    CASE ~ok              -> close_session(u)
      [] msg = "shutdown" -> start_read([u EXCEPT !.fatal = TRUE])
      [] msg = "command"  -> start_read([u EXCEPT !.ctl = IF @ < CtlCap THEN @ + 1 ELSE @])
      [] OTHER            -> start_read(u)

\* A command that finds the control queue full after eight attempts is dropped.
on_read(u, ok, msg) ==
    CASE ~ok              -> start_accept(close_session(u))
      [] msg = "shutdown" -> start_read([u EXCEPT !.fatal = TRUE])
      [] msg = "command"  -> start_read([u EXCEPT !.ctl = IF @ < CtlCap THEN @ + 1 ELSE @])
      [] OTHER            -> start_read(u)

on_write(u, ok) ==
    LET idle == [u EXCEPT !.writing = FALSE]
    IN IF ~ok THEN start_accept(close_session([idle EXCEPT !.queued = 0]))
       ELSE IF u.queued > 0 /\ u.ws # 0 /\ u.connected THEN Written([idle EXCEPT !.queued = @ - 1])
       ELSE idle

\* send_message: behind a write in progress, the oldest beyond the cap dropped.
send_message(u) ==
    IF u.ws = 0 \/ ~u.connected THEN u
    ELSE IF u.writing THEN [u EXCEPT !.queued = IF @ < WriteCap THEN @ + 1 ELSE @]
    ELSE Written(u)

-----------------------------------------------------------------------------
\* The steps.

UiRuns == ~ui.stopped /\ ~ui.fault

\* The network: a client connects, an operation comes to its end.
ClientConnects ==
    /\ UiRuns
    /\ ui.accepts > 0
    /\ ui.made < MaxSessions
    /\ ui' = [ui EXCEPT !.accepts = @ - 1, !.made = @ + 1,
                        !.ready = Append(@, Done(Op("accept", ui.made + 1), TRUE))]

OpCompletes ==
    /\ UiRuns
    /\ \E o \in ui.ops, ok \in BOOLEAN :
         ui' = [ui EXCEPT !.ops = @ \ {o}, !.ready = Append(@, Done(o, ok))]

\* T6 runs the next handler.
T6Handles ==
    /\ UiRuns
    /\ ui.ready # <<>>
    /\ LET d == Head(ui.ready)
           u == [ui EXCEPT !.ready = Tail(@)]
       IN \/ d.kind = "accept" /\ ui' = on_accept(u, d.sid)
          \/ d.kind = "upgrade" /\ \E valid \in BOOLEAN : ui' = on_upgrade(u, d.ok, valid)
          \/ d.kind = "refuse" /\ ui' = on_refused(u)
          \/ d.kind = "close" /\ ui' = on_closed(u)
          \/ d.kind = "handshake" /\ ui' = on_handshake(u, d.ok)
          \/ d.kind = "read" /\ \E msg \in {"shutdown", "command", "watch"} : ui' = on_read(u, d.ok, msg)
          \/ d.kind = "write" /\ ui' = on_write(u, d.ok)

\* on_snapshot_tick: drain the queues from T0 and T2 and send what is latest.
T6SnapshotTick ==
    /\ UiRuns
    /\ ui.connected
    /\ ~ui.writing
    /\ ui.ws # 0
    /\ ui' = Written(ui)

\* on_watcher_tick and the watcher's callbacks have a message for the UI.
T6WatcherMessage ==
    /\ UiRuns
    /\ ui' = send_message(ui)

\* T2 takes a command.
T2TakesCommand ==
    /\ ui.ctl > 0
    /\ ui' = [ui EXCEPT !.ctl = @ - 1]

\* request_shutdown: a signal or the fatal flag, this one or another thread's,
\* has ended the process.
T6Stops ==
    /\ UiRuns
    /\ ui' = [close_session(ui) EXCEPT !.accepts = 0, !.stopped = TRUE]

UiNext ==
    \/ ClientConnects
    \/ OpCompletes
    \/ T6Handles
    \/ T6SnapshotTick
    \/ T6WatcherMessage
    \/ T2TakesCommand
    \/ T6Stops

-----------------------------------------------------------------------------
\* Properties.

UiTypeOK ==
    /\ ui.accepts \in Nat
    /\ \A o \in ui.ops : o.sid \in 1 .. MaxSessions
    /\ ui.ws \in 0 .. MaxSessions
    /\ ui.queued \in 0 .. WriteCap
    /\ ui.ctl \in 0 .. CtlCap

\* T6 never goes deaf: until it is stopped, whatever fails in whatever order,
\* it is accepting, about to handle a connection, or reading from a client.
\* The one exception is the process's end: when a read and a write of a session
\* both fail, each starts an accept; the second of two clients that connect then
\* takes ws_ from the first, whose end leaves it null for the handlers of the
\* second (ipc_bridge.cpp 406, 419).  With one accept at a time ws_ is never
\* null when it is used.
NeverDeaf ==
    /\ ui.fault => ui.doubled
    /\ \/ ui.stopped \/ ui.fault
       \/ ui.accepts > 0
       \/ \E o \in ui.ops : o.kind # "write"
       \/ \E i \in 1 .. Len(ui.ready) : ui.ready[i].kind # "write"
=============================================================================
