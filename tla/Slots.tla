------------------------------- MODULE Slots -------------------------------
(***************************************************************************)
(* The market slots of slot mode: T7 (slot/market_slot_manager.cpp) keeps a *)
(* CURRENT and a NEXT market for every timeframe, rotates them when a       *)
(* window ends and tells T2 over a bounded queue; T2 follows in its         *)
(* SlotTokenMap (slot/slot_token_map.h), which says what may be quoted.     *)
(*                                                                         *)
(* A market is the window it covers. Its two tokens are entered, relabelled *)
(* and switched together, so the map is a sequence of markets. T7's slot   *)
(* and record of the PREVIOUS market are read only by                      *)
(* check_previous_markets, which waits for resolved_5m_ or resolved_15m_;   *)
(* nothing under src/ sets these flags, so nothing is redeemed and          *)
(* SLOT_REMOVED is never sent: both are left out.                          *)
(***************************************************************************)
EXTENDS Integers, Sequences, FiniteSets

CONSTANTS
    Timeframes,     \* the enabled timeframes
    Period,         \* length of their windows, in ticks
    PreSubscribe,   \* pre_subscribe_ms, in ticks
    SlotCap,        \* capacity of slot_queue
    MapCap,         \* markets the SlotTokenMap holds: kMaxEntries / 2
    BootTime,       \* the clock when T7 starts
    MaxTime         \* bound on the clock

ASSUME SlotAssumption ==
    /\ Timeframes \subseteq {"5M", "15M"}
    /\ Timeframes # {}
    /\ Period \in [{"5M", "15M"} -> Nat \ {0}]
    /\ {SlotCap, MapCap} \subseteq Nat \ {0}
    /\ {PreSubscribe, BootTime, MaxTime} \subseteq Nat

VARIABLES
    t7_at,          \* where T7 is
    polled,         \* now_s of T7's latest pass
    slots,          \* T7: slots_, CURRENT and NEXT of every timeframe
    pairs,          \* markets in the MarketPairRegistry
    subscribed,     \* markets T0 and T1 have been asked for
    slot_queue,     \* T7 -> T2
    dropped,        \* markets that an event dropped by T7 was about
    tokens          \* T2: the SlotTokenMap

t7_vars   == <<t7_at, polled, slots, pairs, subscribed>>
slot_vars == <<t7_vars, slot_queue, dropped, tokens>>

NoMarket == [tf |-> "none", start |-> 0]
Market(tf, t) == [tf |-> tf, start |-> t]

window_start_for(tf, t) == (t \div Period[tf]) * Period[tf]
WindowEnd(tf, slot) == slot.start + Period[tf]

SlotPhase == {"DISCOVERING", "REGISTERED", "SUBSCRIBING", "ACTIVE"}
Slot(p, t, m) == [phase |-> p, start |-> t, market |-> m]

Enabled5MFirst ==
    (IF "5M" \in Timeframes THEN <<"5M">> ELSE <<>>)
      \o (IF "15M" \in Timeframes THEN <<"15M">> ELSE <<>>)

SlotEvent(kind, tf, m, end) == [kind |-> kind, tf |-> tf, market |-> m, end |-> end]

SlotInit ==
    /\ t7_at = "boot"
    /\ polled = BootTime
    /\ slots = [tf \in Timeframes |-> [cur |-> Slot("DISCOVERING", 0, NoMarket),
                                       nxt |-> Slot("DISCOVERING", 0, NoMarket)]]
    /\ pairs = {}
    /\ subscribed = {}
    /\ slot_queue = <<>>
    /\ dropped = {}
    /\ tokens = <<>>

-----------------------------------------------------------------------------
\* T7.

\* push_slot_event: what does not fit is only logged.
push_slot_events(evs) ==
    LET all == slot_queue \o evs
    IN /\ slot_queue' = SubSeq(all, 1, IF Len(all) < SlotCap THEN Len(all) ELSE SlotCap)
       /\ dropped' = dropped \cup {all[i].market : i \in SlotCap + 1 .. Len(all)}

\* initial_discovery: the current and the next market of every timeframe are
\* found within ten attempts each, or T7 gives up.
T7InitialDiscovery ==
    /\ t7_at = "boot"
    /\ \/ LET cur(tf) == window_start_for(tf, polled)
              nxt(tf) == cur(tf) + Period[tf]
          IN /\ slots' = [tf \in Timeframes |->
                            [cur |-> Slot("REGISTERED", cur(tf), Market(tf, cur(tf))),
                             nxt |-> Slot("REGISTERED", nxt(tf), Market(tf, nxt(tf)))]]
             /\ pairs' = UNION {{Market(tf, cur(tf)), Market(tf, nxt(tf))} : tf \in Timeframes}
             /\ t7_at' = "start"
       \/ t7_at' = "failed" /\ UNCHANGED <<slots, pairs>>
    /\ UNCHANGED <<polled, subscribed, slot_queue, dropped, tokens>>

\* run, steps 2 to 4: subscribe to everything found, activate CURRENT.
T7Starts ==
    /\ t7_at = "start"
    /\ slots' = [tf \in Timeframes |-> [cur |-> [slots[tf].cur EXCEPT !.phase = "ACTIVE"],
                                        nxt |-> [slots[tf].nxt EXCEPT !.phase = "SUBSCRIBING"]]]
    /\ subscribed' = pairs
    /\ push_slot_events([i \in 1 .. Len(Enabled5MFirst) |->
            LET tf == Enabled5MFirst[i] IN SlotEvent("ACTIVATED", tf, slots[tf].cur.market, 0)])
    /\ t7_at' = "poll"
    /\ UNCHANGED <<polled, pairs, tokens>>

\* check_rotation, first part: subscribe to NEXT when its window is near, and
\* call it active when the window has begun.
\* Mutant: only a window that has not begun is subscribed to.
SubscribesAhead(tf, now) ==
    slots[tf].nxt.phase = "REGISTERED" /\ slots[tf].nxt.start - now \in 1 .. PreSubscribe

SubscribesNext(tf, now) ==
    slots[tf].nxt.phase = "REGISTERED" /\ slots[tf].nxt.start - now <= PreSubscribe

Prepared(tf, now) ==
    LET nxt   == slots[tf].nxt
        phase == IF SubscribesNext(tf, now) THEN "SUBSCRIBING" ELSE nxt.phase
    IN [nxt EXCEPT !.phase = IF phase = "SUBSCRIBING" /\ now >= nxt.start THEN "ACTIVE" ELSE phase]

\* Mutant: a window that ended is rotated without telling T2 to close.
RotatedQuietly(tf, nxt) ==
    <<SlotEvent("PROMOTED", tf, nxt.market, WindowEnd(tf, nxt)),
      SlotEvent("ACTIVATED", tf, nxt.market, 0)>>

\* check_rotation, second part: CURRENT ends, NEXT takes its place whether it
\* has been discovered or not, and discovery goes on to the window after it.
Rotated(tf, nxt) ==
    <<SlotEvent("CLOSING", tf, slots[tf].cur.market, 0),
      SlotEvent("DEMOTED", tf, slots[tf].cur.market, 0),
      SlotEvent("PROMOTED", tf, nxt.market, WindowEnd(tf, nxt)),
      SlotEvent("ACTIVATED", tf, nxt.market, 0)>>

check_rotation(tf, now) ==
    LET nxt == Prepared(tf, now)
        cur == slots[tf].cur
    IN /\ subscribed' = subscribed \cup (IF SubscribesNext(tf, now) THEN {nxt.market} ELSE {})
       /\ \/ /\ cur.phase = "ACTIVE"
             /\ now >= WindowEnd(tf, cur)
             /\ slots' = [slots EXCEPT ![tf] =
                            [cur |-> [nxt EXCEPT !.phase = "ACTIVE"],
                             nxt |-> Slot("DISCOVERING", WindowEnd(tf, nxt), NoMarket)]]
             /\ push_slot_events(Rotated(tf, nxt))
          \/ /\ ~(cur.phase = "ACTIVE" /\ now >= WindowEnd(tf, cur))
             /\ slots' = [slots EXCEPT ![tf].nxt = nxt]
             /\ UNCHANGED <<slot_queue, dropped>>

\* run, step 5: a pass reads the clock once (since the last one any time may have
\* gone by) and looks at the 5M slots and then at the 15M slots.
T7Rotates(tf) ==
    /\ \/ tf = "5M" /\ t7_at = "poll" /\ t7_at' = "15M" /\ polled' \in polled .. MaxTime
       \/ tf = "15M" /\ t7_at = "15M" /\ t7_at' = "discover" /\ polled' = polled
    /\ IF tf \in Timeframes THEN check_rotation(tf, polled')
                            ELSE UNCHANGED <<slots, subscribed, slot_queue, dropped>>
    /\ UNCHANGED <<pairs, tokens>>

\* check_pending_discoveries: a request for each market still to be found;
\* what is found is registered everywhere, the rest is tried again.
T7Discovers ==
    /\ t7_at = "discover"
    /\ \E found \in SUBSET {tf \in Timeframes : slots[tf].nxt.phase = "DISCOVERING"} :
         LET mkt(tf) == Market(tf, slots[tf].nxt.start)
         IN /\ slots' = [tf \in Timeframes |->
                           IF tf \in found
                           THEN [slots[tf] EXCEPT !.nxt = Slot("REGISTERED", @.start, mkt(tf))]
                           ELSE slots[tf]]
            /\ pairs' = pairs \cup {mkt(tf) : tf \in found}
    /\ t7_at' = "poll"
    /\ UNCHANGED <<polled, subscribed, slot_queue, dropped, tokens>>

T7Next ==
    \/ T7InitialDiscovery
    \/ T7Starts
    \/ \E tf \in {"5M", "15M"} : T7Rotates(tf)
    \/ T7Discovers

-----------------------------------------------------------------------------
\* T2: the SlotTokenMap, entries [market, slot, active] in order of arrival.

Entry(m, s, a) == [market |-> m, slot |-> s, active |-> a]
Cur(tf)  == <<"CURRENT", tf>>
Nxt(tf)  == <<"NEXT", tf>>
Prev(tf) == <<"PREVIOUS", tf>>

find_by_condition(map, m) == \E i \in 1 .. Len(map) : map[i].market = m

\* A market that does not fit is left out without a word.
add(map, s, m) == IF Len(map) >= MapCap THEN map ELSE Append(map, Entry(m, s, TRUE))

set_active(map, s, a) ==
    [i \in 1 .. Len(map) |-> IF map[i].slot = s THEN [map[i] EXCEPT !.active = a] ELSE map[i]]

promote(map, from, to) ==
    [i \in 1 .. Len(map) |-> IF map[i].slot = from THEN [map[i] EXCEPT !.slot = to] ELSE map[i]]

demote(map, from, to) ==
    [i \in 1 .. Len(map) |-> IF map[i].slot = from THEN Entry(map[i].market, to, FALSE) ELSE map[i]]

\* SLOT_ACTIVATED, SLOT_CLOSING, SLOT_PROMOTED and SLOT_DEMOTED on the map.
Relabelled(map, ev) ==
    CASE ev.kind = "ACTIVATED" ->
           set_active(IF ev.market \in pairs /\ ~find_by_condition(map, ev.market)
                      THEN add(map, Cur(ev.tf), ev.market) ELSE map, Cur(ev.tf), TRUE)
      [] ev.kind = "CLOSING"  -> set_active(map, Cur(ev.tf), FALSE)
      [] ev.kind = "PROMOTED" -> set_active(promote(map, Nxt(ev.tf), Cur(ev.tf)), Cur(ev.tf), TRUE)
      [] ev.kind = "DEMOTED"  -> demote(set_active(map, Prev(ev.tf), FALSE), Cur(ev.tf), Prev(ev.tf))

ActiveMarkets == {tokens[i].market : i \in {j \in 1 .. Len(tokens) : tokens[j].active}}
=============================================================================
