------------------------------ MODULE Watcher ------------------------------
(***************************************************************************)
(* The ladder watcher of one BTC series: T6 keeps the market on show, its   *)
(* books and a state machine (ui_bridge/ipc_bridge.cpp, watch_manager.cpp,  *)
(* btc_series_registry.cpp, series_rolling_fsm.cpp); the thread of the      *)
(* WatcherService looks for markets, runs a WebSocket client of its own and *)
(* posts what it finds to T6.                                              *)
(*                                                                         *)
(* A market is the window it covers, 1, 2, ...; it has two tokens, each     *)
(* with a book of its own, which there is none of, which is made of level   *)
(* changes only, or which began with a snapshot. The ladder merges the two. *)
(***************************************************************************)
EXTENDS Integers, Sequences, FiniteSets

CONSTANTS
    MaxWindows,     \* bound on the windows that begin or are found
    MaxWatchers,    \* bound on subscriptions of the UI to the series
    MaxFound        \* bound on discovery results on their way

ASSUME WatcherAssumption == {MaxWindows, MaxWatchers, MaxFound} \subseteq Nat \ {0}

VARIABLES
    window,         \* the window of the exchange's clock
    found_q,        \* discovery results posted to T6
    series,         \* T6: the SeriesRollingFsm
    watchers,       \* T6: watchers_count
    shown, closed,  \* T6: the registry's current market (0: none) and is_closed
    coming,         \* T6: the registry's next market (0: none)
    books,          \* T6: tokens with a book in the WatcherBookStore
    snapped,        \* ... that began with, or has had, a snapshot
    data_age,       \* T6: last_book_update_ns
    trades,         \* T6: markets whose trades wait for the next tick
    wanted,         \* T6 -> thread: pending_asset_ids_, as markets
    sub_changed,    \* T6 -> thread
    ids,            \* thread: current_ids
    heard,          \* markets whose events may still be on their way to T6
    latest          \* the market of the latest discovery result T6 took (0: none)

reg_vars     == <<series, watchers, shown, closed, coming, books, snapped, data_age, trades>>
watcher_vars == <<window, found_q, reg_vars, wanted, sub_changed, ids, heard, latest>>

WatcherState == {"DISCONNECTED", "CONNECTING", "CONNECTED", "STALE", "ROLL_PENDING", "ROLLING"}

Tokens == (1 .. MaxWindows) \X {"UP", "DOWN"}

WatcherInit ==
    /\ window = 1
    /\ found_q = <<>>
    /\ series = "DISCONNECTED"
    /\ watchers = 0
    /\ shown = 0 /\ closed = FALSE /\ coming = 0
    /\ books = {} /\ snapped = {} /\ data_age = "none" /\ trades = {}
    /\ wanted = {} /\ sub_changed = FALSE /\ ids = {} /\ heard = {}
    /\ latest = 0

-----------------------------------------------------------------------------
\* The service's thread.

WindowEnds ==
    /\ window < MaxWindows
    /\ window' = window + 1
    /\ UNCHANGED <<found_q, reg_vars, wanted, sub_changed, ids, heard, latest>>

Found(m, c, n) == [market |-> m, closed |-> c, next |-> n]

Upcoming == {window + 1} \cap 1 .. MaxWindows

\* do_discovery_poll: the market of this window, open or already closed, and the
\* next one if it is there; or the next one in its place; or nothing.
WatcherPolls ==
    /\ Len(found_q) < MaxFound
    /\ \E r \in {Found(window, c, n) : c \in BOOLEAN, n \in {0} \cup Upcoming}
                \cup {Found(n, FALSE, 0) : n \in Upcoming} :
         found_q' = Append(found_q, r)
    /\ UNCHANGED <<window, reg_vars, wanted, sub_changed, ids, heard, latest>>

\* thread_main: the WebSocket client follows the subscriptions asked for; it is
\* made, told of the changes, or shut down when there is nothing left.
WatcherResubscribes ==
    /\ sub_changed
    /\ sub_changed' = FALSE
    /\ ids' = wanted
    /\ heard' = heard \cup wanted
    /\ UNCHANGED <<window, found_q, reg_vars, wanted, latest>>

-----------------------------------------------------------------------------
\* T6.

\* refresh_watcher_subscriptions: the tokens of the market now on show.
Refresh(n, m) == wanted' = (IF n > 0 /\ m # 0 THEN {m} ELSE {}) /\ sub_changed' = TRUE

T6Subscribes ==
    /\ watchers < MaxWatchers
    /\ watchers' = watchers + 1
    /\ IF watchers = 0
       THEN /\ series' = IF series = "DISCONNECTED" THEN "CONNECTING" ELSE series
            /\ data_age' = "none"
       ELSE UNCHANGED <<series, data_age>>
    /\ Refresh(watchers', shown)
    /\ UNCHANGED <<window, found_q, shown, closed, coming, books, snapped, trades, ids, heard, latest>>

T6Unsubscribes ==
    /\ watchers > 0
    /\ watchers' = watchers - 1
    /\ IF watchers = 1 THEN series' = "DISCONNECTED" /\ data_age' = "none"
                       ELSE UNCHANGED <<series, data_age>>
    /\ Refresh(watchers', shown)
    /\ UNCHANGED <<window, found_q, shown, closed, coming, books, snapped, trades, ids, heard, latest>>

\* WatchManager::tick and send_watcher_snapshots: data gone stale or back, and
\* the trades since the last tick sent to a connected UI.
T6WatcherTick ==
    /\ series' = CASE watchers > 0 /\ series = "CONNECTED" /\ data_age = "old"   -> "STALE"
                   [] watchers > 0 /\ series = "STALE"     /\ data_age = "fresh" -> "CONNECTED"
                   [] OTHER -> series
    /\ trades' \in {trades, {}}
    /\ UNCHANGED <<window, found_q, watchers, shown, closed, coming, books, snapped, data_age, wanted,
                   sub_changed, ids, heard, latest>>

DataAges ==
    /\ data_age = "fresh"
    /\ data_age' = "old"
    /\ UNCHANGED <<window, found_q, series, watchers, shown, closed, coming, books, snapped, trades,
                   wanted, sub_changed, ids, heard, latest>>

\* on_watcher_book_data, a snapshot or level changes of a token of market m, or
\* a trade: the store takes the book of any token, the state machine and the
\* trades are those of the market on show. A snapshot of either token connects.
T6TakesSnapshot(m, k) ==
    /\ books' = books \cup {<<m, k>>}
    /\ snapped' = snapped \cup {<<m, k>>}
    /\ IF m = shown
       THEN /\ data_age' = "fresh"
            /\ series' = IF series = "CONNECTING" THEN "CONNECTED" ELSE series
       ELSE UNCHANGED <<data_age, series>>
    /\ UNCHANGED <<window, found_q, watchers, shown, closed, coming, trades, wanted, sub_changed,
                   ids, heard, latest>>

T6TakesPriceChange(m, k) ==
    /\ books' = books \cup {<<m, k>>}
    /\ data_age' = IF m = shown THEN "fresh" ELSE data_age
    /\ UNCHANGED <<window, found_q, series, watchers, shown, closed, coming, snapped, trades,
                   wanted, sub_changed, ids, heard, latest>>

T6TakesTrade(m) ==
    /\ m = shown
    /\ trades' = trades \cup {m}
    /\ UNCHANGED <<window, found_q, series, watchers, shown, closed, coming, books, snapped, data_age,
                   wanted, sub_changed, ids, heard, latest>>

\* execute_rollover, from market m with next market n: n is promoted, the books
\* of m and the trades go, and the state machine waits for a snapshot of n.
execute_rollover(m, n) ==
    /\ shown' = n
    /\ closed' = FALSE
    /\ books' = {t \in books : t[1] # m}
    /\ snapped' = {t \in snapped : t[1] # m}
    /\ trades' = {}
    /\ data_age' = "none"
    /\ Refresh(watchers, n)
    /\ series' = "CONNECTING"

Active  == series # "DISCONNECTED"
Settled == Active /\ series \notin {"ROLLING", "ROLL_PENDING"}

\* on_discovery_result, one: the market on show has closed. The state machine
\* listens when it is CONNECTED or STALE.
T6FindsClosed(r) ==
    /\ r.closed /\ Settled
    /\ IF series \in {"CONNECTED", "STALE"} /\ r.next # 0
       THEN coming' = 0 /\ execute_rollover(r.market, r.next)
       ELSE /\ series' = IF series = "CONNECTING" THEN series ELSE "ROLL_PENDING"
            /\ shown' = r.market /\ closed' = TRUE /\ coming' = r.next
            /\ UNCHANGED <<books, snapped, trades, data_age, wanted, sub_changed>>

\* Two: another market is there although the old one was never seen to close.
\* In CONNECTING the market on show stays and the new one is only remembered.
FindsAnother(r) == ~r.closed /\ Settled /\ shown \notin {0, r.market}

T6FindsAnother(r) ==
    /\ FindsAnother(r)
    /\ IF series \in {"CONNECTED", "STALE"}
       THEN /\ execute_rollover(shown, r.market)
            /\ coming' = r.next
       ELSE /\ coming' = IF r.next # 0 THEN r.next ELSE r.market
            /\ UNCHANGED <<series, shown, closed, books, snapped, trades, data_age, wanted, sub_changed>>

\* Mutant: another market is taken for an update of the one on show.
UpdatesInPlace(r) == ~(r.closed /\ Settled)

UpdatesNormally(r) == ~(r.closed /\ Settled) /\ ~FindsAnother(r)

\* Three: an update, and the roll that was waiting for a next market.
T6FindsUpdate(r) ==
    /\ UpdatesNormally(r)
    /\ IF series = "ROLL_PENDING" /\ r.next # 0
       THEN coming' = 0 /\ execute_rollover(r.market, r.next)
       ELSE /\ shown' = r.market /\ closed' = r.closed /\ coming' = r.next
            /\ Refresh(watchers, r.market)
            /\ UNCHANGED <<series, books, snapped, trades, data_age>>

T6TakesDiscovery ==
    /\ found_q # <<>>
    /\ found_q' = Tail(found_q)
    /\ LET r == Head(found_q) IN T6FindsClosed(r) \/ T6FindsAnother(r) \/ T6FindsUpdate(r)
    /\ latest' = Head(found_q).market
    /\ UNCHANGED <<window, watchers, ids, heard>>

WatcherNext ==
    \/ WindowEnds
    \/ WatcherPolls
    \/ WatcherResubscribes
    \/ T6Subscribes
    \/ T6Unsubscribes
    \/ T6WatcherTick
    \/ DataAges
    \/ \E m \in heard, k \in {"UP", "DOWN"} : T6TakesSnapshot(m, k) \/ T6TakesPriceChange(m, k)
    \/ \E m \in heard : T6TakesTrade(m)
    \/ T6TakesDiscovery

-----------------------------------------------------------------------------
\* Properties.

WatcherTypeOK ==
    /\ series \in WatcherState
    /\ watchers \in 0 .. MaxWatchers
    /\ {shown, coming} \subseteq 0 .. MaxWindows
    /\ snapped \subseteq books /\ books \subseteq Tokens
    /\ data_age \in {"none", "fresh", "old"}

\* A series that the UI is told is CONNECTED or STALE has a snapshot of one of
\* the two tokens of the market on show, at least, through every order of
\* rollovers, late book events and re-subscriptions (the other half of its
\* ladder may be missing, or made of changes only: ipc_bridge.cpp 1017-1028).
\* While the series is watched, a market that discovery has found a newer one
\* for stays on show only as long as it has not connected or until the next
\* result, and T6 has not forgotten the newer one; and a series is watched
\* exactly when the UI has subscribed to it.
LadderIsTheMarkets ==
    /\ series \in {"CONNECTED", "STALE"} =>
         \E k \in {"UP", "DOWN"} : <<shown, k>> \in snapped
    /\ Active /\ shown < latest => Settled /\ coming >= latest
    /\ Active <=> watchers > 0
=============================================================================
