---------------------------- MODULE MCComponents ----------------------------
(***************************************************************************)
(* Small instances of the components that share no variable with another   *)
(* one.  A behaviour runs one of them, which; the others keep their first  *)
(* state.  The states are so the sum, not the product, of the components'. *)
(***************************************************************************)
EXTENDS UiBridge, Watcher, WsClients, MarketBooks, Http2Client, RestClient,
        RateLimiter, GatewayHealth, GatewayOrders, InventoryService, MCSessions

VARIABLE which

Components ==
    {"ui", "watcher", "ws", "books", "http2", "http1", "limiter", "health",
     "orders", "inventory", "sessions"}

lim_vars == <<lim, now>>
component_vars ==
    <<which, ui, watcher_vars, wsc, book_vars, h2, rc, lim_vars, gh, gw, inv, session_vars>>

MCRedundancy == [k \in {"market", "user", "rtds", "binance"} |-> 1]
MCMaxQueue == [k \in DOMAIN MCRedundancy |-> IF k = "market" THEN 1 ELSE 0]

MCChanges ==
    [side : {"BID"}, price : {0}, size : {1}] \cup
    [side : {"BID"}, price : {1}, size : 0 .. 2] \cup
    [side : {"ASK"}, price : {1}, size : {1}]

MCLimit == [global |-> 2, order |-> 2, cancel |-> 1, heartbeat |-> 1]

\* A component that does not run starts in one state only.
ComponentsInit ==
    /\ which \in Components
    /\ UiInit /\ WatcherInit /\ BooksInit /\ H2Init /\ RcInit /\ LimInit
    /\ HealthInit /\ SessionInit
    /\ WsInit /\ (which # "ws" => wsc.client = "market" /\ ~wsc.bare)
    /\ GwInit /\ (which # "orders" => \A a \in Assets : gw.positions[a] = 0)
    /\ InvInit /\ (which # "inventory" => inv.transport = "none" /\ inv.dry_run)

ComponentsNext ==
    \/ /\ which = "ui" /\ UiNext
       /\ UNCHANGED <<which, watcher_vars, wsc, book_vars, h2, rc, lim_vars, gh, gw, inv, session_vars>>
    \/ /\ which = "watcher" /\ WatcherNext
       /\ UNCHANGED <<which, ui, wsc, book_vars, h2, rc, lim_vars, gh, gw, inv, session_vars>>
    \/ /\ which = "ws" /\ WsNext
       /\ UNCHANGED <<which, ui, watcher_vars, book_vars, h2, rc, lim_vars, gh, gw, inv, session_vars>>
    \/ /\ which = "books" /\ BooksNext
       /\ UNCHANGED <<which, ui, watcher_vars, wsc, h2, rc, lim_vars, gh, gw, inv, session_vars>>
    \/ /\ which = "http2" /\ H2Next
       /\ UNCHANGED <<which, ui, watcher_vars, wsc, book_vars, rc, lim_vars, gh, gw, inv, session_vars>>
    \/ /\ which = "http1" /\ RcNext
       /\ UNCHANGED <<which, ui, watcher_vars, wsc, book_vars, h2, lim_vars, gh, gw, inv, session_vars>>
    \/ /\ which = "limiter" /\ LimNext
       /\ UNCHANGED <<which, ui, watcher_vars, wsc, book_vars, h2, rc, gh, gw, inv, session_vars>>
    \/ /\ which = "health" /\ HealthNext
       /\ UNCHANGED <<which, ui, watcher_vars, wsc, book_vars, h2, rc, lim_vars, gw, inv, session_vars>>
    \/ /\ which = "orders" /\ GwNext
       /\ UNCHANGED <<which, ui, watcher_vars, wsc, book_vars, h2, rc, lim_vars, gh, inv, session_vars>>
    \/ /\ which = "inventory" /\ InvNext
       /\ UNCHANGED <<which, ui, watcher_vars, wsc, book_vars, h2, rc, lim_vars, gh, gw, session_vars>>
    \/ /\ which = "sessions" /\ MCSessionNext
       /\ UNCHANGED <<which, ui, watcher_vars, wsc, book_vars, h2, rc, lim_vars, gh, gw, inv>>

ComponentsSpec == ComponentsInit /\ [][ComponentsNext]_component_vars

\* Nothing of the watcher depends on what is left out here: the trades and the
\* flag that the UI is sent, the thread's own list, and whether a book that has
\* had no snapshot has had changes.
WatcherView ==
    <<window, found_q, series, watchers, shown, coming, data_age, wanted, sub_changed,
      heard, latest, snapped>>

\* The view of a state: the variables of the component that runs. The others
\* do not change.
ComponentsView ==
    CASE which = "ui" -> <<which, ui>>
      [] which = "watcher" -> <<which, WatcherView>>
      [] which = "ws" -> <<which, wsc>>
      [] which = "books" -> <<which, book_vars>>
      [] which = "http2" -> <<which, h2>>
      [] which = "http1" -> <<which, rc>>
      [] which = "limiter" -> <<which, lim_vars>>
      [] which = "health" -> <<which, gh>>
      [] which = "orders" -> <<which, gw>>
      [] which = "inventory" -> <<which, inv>>
      [] which = "sessions" -> <<which, SessionView>>

\* The variables of the component that runs keep their types, and its queues
\* and counters their bounds.
ComponentsTypeOK ==
    CASE which = "ui" -> UiTypeOK
      [] which = "watcher" -> WatcherTypeOK
      [] which = "ws" -> WsTypeOK
      [] which = "books" -> BooksTypeOK
      [] which = "http2" -> H2TypeOK
      [] which = "http1" -> RcTypeOK
      [] which = "limiter" -> LimTypeOK
      [] which = "health" -> HealthTypeOK
      [] which = "orders" -> GwTypeOK
      [] which = "inventory" -> InvTypeOK
      [] which = "sessions" -> SessionTypeOK

\* The transport that runs, seen as RestTransport.
NothingSent == [r \in H2Requests |-> "idle"]
TransportStatus ==
    CASE which = "http2" -> H2Status
      [] which = "http1" -> RcStatus
      [] OTHER -> NothingSent

Transport == INSTANCE RestTransport WITH Requests <- H2Requests, status <- TransportStatus

\* Both REST clients implement IRestTransport: whatever breaks, and whatever a
\* callback sends, each request's callback is called once at most, and every
\* request that is not answered is still held by the client, until it is shut
\* down or (Http2Client) the process has used a session freed by a GOAWAY.
\* Whose answer the callback is given is another matter: RestClient's
\* AnswersMatch.
TransportsImplement == Transport!Spec
=============================================================================
