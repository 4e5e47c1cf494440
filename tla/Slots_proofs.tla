---------------------------- MODULE Slots_proofs ----------------------------
(***************************************************************************)
(* Proof that T2 quotes subscribed markets only, for all timeframes, window *)
(* lengths, capacities and delays.  The argument follows a market from the  *)
(* poll that subscribes to it, over the slot event that announces it, into  *)
(* T2's token map.                                                         *)
(***************************************************************************)
EXTENDS Sessions, TLAPS

\* What slots, events and entries of the token map are made of.
MarketSet == [tf : {"none", "5M", "15M"}, start : Int]
SlotSet   == [phase : SlotPhase, start : Int, market : MarketSet]
EventSet  == [kind : {"ACTIVATED", "CLOSING", "PROMOTED", "DEMOTED"},
              tf : {"5M", "15M"}, market : MarketSet, end : Int]
EntrySet  == [market : MarketSet, slot : {"CURRENT", "NEXT", "PREVIOUS"} \X {"5M", "15M"},
              active : BOOLEAN]

SlotTypes ==
    /\ polled \in Int
    /\ slots \in [Timeframes -> [cur : SlotSet, nxt : SlotSet]]
    /\ slot_queue \in Seq(EventSet)
    /\ tokens \in Seq(EntrySet)

\* Before T7 has subscribed to anything T2 has been told of nothing ...
Before == {"boot", "failed", "start"}

\* ... T7 starts with two markets of every timeframe ...
Found ==
    \A tf \in Timeframes :
      /\ slots[tf].cur.market \in pairs /\ slots[tf].nxt.market \in pairs
      /\ slots[tf].nxt.start = WindowEnd(tf, slots[tf].cur)

\* ... and from then on the windows follow each other, so that a NEXT market has
\* been found, and subscribed to, by the time at which it becomes CURRENT.
After == {"poll", "15M", "discover"}

Following ==
    \A tf \in Timeframes :
      LET nxt == slots[tf].nxt
      IN /\ nxt.start = WindowEnd(tf, slots[tf].cur)
         /\ nxt.phase = "DISCOVERING" => nxt.market = NoMarket
         /\ nxt.phase \in {"SUBSCRIBING", "ACTIVE"} => nxt.market \in subscribed \cup {NoMarket}

\* A market that is announced has been subscribed to, unless none was found, ...
Announced(q) ==
    \A i \in 1 .. Len(q) : q[i].kind = "ACTIVATED" => q[i].market \in subscribed \cup {NoMarket}

\* ... and every market in the token map has been registered and subscribed to.
Known(map) == \A i \in 1 .. Len(map) : map[i].market \in pairs \cap subscribed

SlotInv ==
    /\ SlotTypes
    /\ NoMarket \notin pairs
    /\ t7_at \in Before \cup After
    /\ t7_at \in Before => slot_queue = <<>> /\ tokens = <<>>
    /\ t7_at = "start" => Found
    /\ t7_at \in After => Following
    /\ Announced(slot_queue)
    /\ Known(tokens)

-----------------------------------------------------------------------------
\* The token map: what an entry is relabelled to names the same market.

\* Two maps name the same markets, entry by entry.
SameMarkets(new, map) ==
    /\ new \in Seq(EntrySet)
    /\ Len(new) = Len(map)
    /\ \A i \in 1 .. Len(map) : new[i].market = map[i].market

\* A map names the markets of another one, and perhaps one more.
MoreMarkets(new, map, m) ==
    /\ new \in Seq(EntrySet)
    /\ \A i \in 1 .. Len(new) :
         (\E j \in 1 .. Len(map) : new[i].market = map[j].market) \/ new[i].market = m

\* A map with an entry for every entry of another one is as long.
LEMMA MapOfEntries ==
    ASSUME NEW map \in Seq(EntrySet), NEW f \in [1 .. Len(map) -> EntrySet]
    PROVE  f \in Seq(EntrySet) /\ Len(f) = Len(map)
<1>1. Len(map) \in Nat
  OBVIOUS
<1> QED
  BY <1>1

\* SLOT_ACTIVATED and SLOT_CLOSING switch entries on and off in place.
LEMMA SetActiveKeeps ==
    ASSUME NEW map \in Seq(EntrySet), NEW s, NEW a \in BOOLEAN
    PROVE  SameMarkets(set_active(map, s, a), map)
<1> DEFINE e(i) == IF map[i].slot = s THEN [map[i] EXCEPT !.active = a] ELSE map[i]
<1>1. ASSUME NEW i \in 1 .. Len(map) PROVE e(i) \in EntrySet /\ e(i).market = map[i].market
  <2>1. map[i] \in EntrySet
    OBVIOUS
  <2>2. [map[i] EXCEPT !.active = a] \in EntrySet
    BY <2>1 DEF EntrySet
  <2>3. [map[i] EXCEPT !.active = a].market = map[i].market
    BY <2>1 DEF EntrySet
  <2> QED
    BY <2>1, <2>2, <2>3, Zenon
<1>2. [i \in 1 .. Len(map) |-> e(i)] \in [1 .. Len(map) -> EntrySet]
  BY <1>1, Zenon
<1>3. set_active(map, s, a) = [i \in 1 .. Len(map) |-> e(i)]
  BY Zenon DEF set_active
<1> HIDE DEF e
<1> QED
  BY <1>1, <1>2, <1>3, MapOfEntries DEF SameMarkets

\* SLOT_PROMOTED moves entries to another slot in place.
LEMMA PromoteKeeps ==
    ASSUME NEW map \in Seq(EntrySet), NEW from, NEW tf \in {"5M", "15M"}
    PROVE  SameMarkets(promote(map, from, Cur(tf)), map)
<1> DEFINE e(i) == IF map[i].slot = from THEN [map[i] EXCEPT !.slot = Cur(tf)] ELSE map[i]
<1>1. ASSUME NEW i \in 1 .. Len(map) PROVE e(i) \in EntrySet /\ e(i).market = map[i].market
  <2>1. map[i] \in EntrySet
    OBVIOUS
  <2>2. [map[i] EXCEPT !.slot = Cur(tf)] \in EntrySet
    BY <2>1 DEF EntrySet, Cur
  <2>3. [map[i] EXCEPT !.slot = Cur(tf)].market = map[i].market
    BY <2>1 DEF EntrySet, Cur
  <2> QED
    BY <2>1, <2>2, <2>3, Zenon
<1>2. [i \in 1 .. Len(map) |-> e(i)] \in [1 .. Len(map) -> EntrySet]
  BY <1>1, Zenon
<1>3. promote(map, from, Cur(tf)) = [i \in 1 .. Len(map) |-> e(i)]
  BY Zenon DEF promote
<1> HIDE DEF e
<1> QED
  BY <1>1, <1>2, <1>3, MapOfEntries DEF SameMarkets

\* SLOT_DEMOTED moves entries and switches them off in place.
LEMMA DemoteKeeps ==
    ASSUME NEW map \in Seq(EntrySet), NEW from, NEW tf \in {"5M", "15M"}
    PROVE  SameMarkets(demote(map, from, Prev(tf)), map)
<1> DEFINE e(i) == IF map[i].slot = from THEN Entry(map[i].market, Prev(tf), FALSE) ELSE map[i]
<1>1. ASSUME NEW i \in 1 .. Len(map) PROVE e(i) \in EntrySet /\ e(i).market = map[i].market
  <2>1. map[i] \in EntrySet
    OBVIOUS
  <2>2. Entry(map[i].market, Prev(tf), FALSE) \in EntrySet
    BY <2>1 DEF EntrySet, Entry, Prev
  <2>3. Entry(map[i].market, Prev(tf), FALSE).market = map[i].market
    BY <2>1 DEF EntrySet, Entry, Prev
  <2> QED
    BY <2>1, <2>2, <2>3, Zenon
<1>2. [i \in 1 .. Len(map) |-> e(i)] \in [1 .. Len(map) -> EntrySet]
  BY <1>1, Zenon
<1>3. demote(map, from, Prev(tf)) = [i \in 1 .. Len(map) |-> e(i)]
  BY Zenon DEF demote
<1> HIDE DEF e
<1> QED
  BY <1>1, <1>2, <1>3, MapOfEntries DEF SameMarkets

\* The map gains the market of an entry that is added, or is full.
LEMMA AddKeeps ==
    ASSUME NEW map \in Seq(EntrySet), NEW m \in MarketSet, NEW tf \in {"5M", "15M"}
    PROVE  MoreMarkets(add(map, Cur(tf), m), map, m)
<1> DEFINE e == Entry(m, Cur(tf), TRUE)
<1>1. e \in EntrySet /\ e.market = m
  BY DEF EntrySet, Cur, Entry
<1>2. add(map, Cur(tf), m) = map \/ add(map, Cur(tf), m) = Append(map, e)
  BY Zenon DEF add
<1> HIDE DEF e
<1>3. Append(map, e) \in Seq(EntrySet)
  BY <1>1
<1>4. ASSUME NEW i \in 1 .. Len(Append(map, e))
      PROVE  (i \in 1 .. Len(map) /\ Append(map, e)[i] = map[i]) \/ Append(map, e)[i] = e
  BY <1>1
<1>5. MoreMarkets(map, map, m)
  BY Zenon DEF MoreMarkets
<1>6. MoreMarkets(Append(map, e), map, m)
  BY <1>1, <1>3, <1>4, Zenon DEF MoreMarkets
<1> QED
  BY <1>2, <1>5, <1>6, Zenon

\* What a slot event may add to a map: the market that it announces, if that
\* has been registered.
Announces(new, map, ev) ==
    /\ new \in Seq(EntrySet)
    /\ \A i \in 1 .. Len(new) :
         \/ \E j \in 1 .. Len(map) : new[i].market = map[j].market
         \/ ev.kind = "ACTIVATED" /\ ev.market \in pairs /\ new[i].market = ev.market

\* A slot event leaves the map with the markets it had and, when it announces a
\* registered one, with that market.
LEMMA RelabelledMarkets ==
    ASSUME NEW map \in Seq(EntrySet), NEW ev \in EventSet
    PROVE  Announces(Relabelled(map, ev), map, ev)
<1>0. /\ ev.kind \in {"ACTIVATED", "CLOSING", "PROMOTED", "DEMOTED"}
      /\ ev.tf \in {"5M", "15M"} /\ ev.market \in MarketSet
  BY DEF EventSet
<1> DEFINE new == Relabelled(map, ev)
<1>1. CASE ev.kind = "ACTIVATED"
  <2> DEFINE own == IF ev.market \in pairs /\ ~find_by_condition(map, ev.market)
                    THEN add(map, Cur(ev.tf), ev.market) ELSE map
  <2>1. new = set_active(own, Cur(ev.tf), TRUE)
    BY <1>1, Zenon DEF Relabelled
  <2>2. own = map \/ (ev.market \in pairs /\ own = add(map, Cur(ev.tf), ev.market))
    BY Zenon
  <2> HIDE DEF own
  <2>3. own \in Seq(EntrySet)
    BY <1>0, <2>2, AddKeeps, Zenon DEF MoreMarkets
  <2>4. SameMarkets(new, own)
    BY <2>1, <2>3, SetActiveKeeps, Zenon
  <2> HIDE DEF new
  <2>5. ASSUME NEW i \in 1 .. Len(own)
        PROVE  \/ \E j \in 1 .. Len(map) : own[i].market = map[j].market
               \/ ev.market \in pairs /\ own[i].market = ev.market
    <3>1. CASE own = map
      BY <3>1, Zenon
    <3>2. CASE ev.market \in pairs /\ own = add(map, Cur(ev.tf), ev.market)
      <4>1. MoreMarkets(own, map, ev.market)
        BY <1>0, <3>2, AddKeeps, Zenon
      <4> QED
        BY <3>2, <4>1, Zenon DEF MoreMarkets
    <3> QED
      BY <2>2, <3>1, <3>2
  <2> QED
    BY <1>1, <2>4, <2>5, Zenon DEF SameMarkets, new, Announces
<1>2. CASE ev.kind = "CLOSING"
  <2>1. new = set_active(map, Cur(ev.tf), FALSE)
    BY <1>2, Zenon DEF Relabelled
  <2>2. SameMarkets(new, map)
    BY <2>1, SetActiveKeeps, Zenon
  <2> QED
    BY <2>2, Zenon DEF SameMarkets, Announces
<1>3. CASE ev.kind = "PROMOTED"
  <2> DEFINE mid == promote(map, Nxt(ev.tf), Cur(ev.tf))
  <2>1. new = set_active(mid, Cur(ev.tf), TRUE)
    BY <1>3, Zenon DEF Relabelled
  <2>2. SameMarkets(mid, map)
    BY <1>0, PromoteKeeps, Zenon
  <2>3. mid \in Seq(EntrySet)
    BY <2>2, Zenon DEF SameMarkets
  <2>4. SameMarkets(new, mid)
    BY <2>1, <2>3, SetActiveKeeps, Zenon
  <2> HIDE DEF mid
  <2> QED
    BY <2>2, <2>4, Zenon DEF SameMarkets, Announces
<1>4. CASE ev.kind = "DEMOTED"
  <2> DEFINE mid == set_active(map, Prev(ev.tf), FALSE)
  <2>1. new = demote(mid, Cur(ev.tf), Prev(ev.tf))
    BY <1>4, Zenon DEF Relabelled
  <2>2. SameMarkets(mid, map)
    BY SetActiveKeeps, Zenon
  <2>3. mid \in Seq(EntrySet)
    BY <2>2, Zenon DEF SameMarkets
  <2>4. SameMarkets(new, mid)
    BY <1>0, <2>1, <2>3, DemoteKeeps, Zenon
  <2> HIDE DEF mid
  <2> QED
    BY <2>2, <2>4, Zenon DEF SameMarkets, Announces
<1> QED
  BY <1>0, <1>1, <1>2, <1>3, <1>4

-----------------------------------------------------------------------------
\* T7: what it puts on the queue, and when NEXT has been subscribed to.

\* The queue holds events that it held or that T7 has pushed.
LEMMA PushedEvents ==
    ASSUME slot_queue \in Seq(EventSet), NEW evs \in Seq(EventSet), push_slot_events(evs)
    PROVE  /\ slot_queue' \in Seq(EventSet)
           /\ \A i \in 1 .. Len(slot_queue') :
                \/ \E j \in 1 .. Len(slot_queue) : slot_queue'[i] = slot_queue[j]
                \/ \E j \in 1 .. Len(evs) : slot_queue'[i] = evs[j]
<1> DEFINE all == slot_queue \o evs
           n   == IF Len(all) < SlotCap THEN Len(all) ELSE SlotCap
<1>1. all \in Seq(EventSet) /\ Len(all) = Len(slot_queue) + Len(evs)
  OBVIOUS
<1>2. n \in 0 .. Len(all)
  BY <1>1, SlotAssumption
<1>3. slot_queue' = SubSeq(all, 1, n)
  BY Zenon DEF push_slot_events
<1>4. \A i \in 1 .. Len(all) :
        \/ i \in 1 .. Len(slot_queue) /\ all[i] = slot_queue[i]
        \/ i - Len(slot_queue) \in 1 .. Len(evs) /\ all[i] = evs[i - Len(slot_queue)]
  OBVIOUS
<1> HIDE DEF all, n
<1>5. slot_queue' \in Seq(EventSet) /\ Len(slot_queue') = n
      /\ \A i \in 1 .. n : slot_queue'[i] = all[i]
  BY <1>1, <1>2, <1>3
<1>6. ASSUME NEW i \in 1 .. n
      PROVE  \/ \E j \in 1 .. Len(slot_queue) : all[i] = slot_queue[j]
             \/ \E j \in 1 .. Len(evs) : all[i] = evs[j]
  <2>1. i \in 1 .. Len(all)
    BY <1>1, <1>2
  <2> QED
    BY <1>4, <2>1, Zenon
<1> QED
  BY <1>5, <1>6, Zenon

\* A pass over a timeframe leaves NEXT with its window and its market, which has
\* been subscribed to when the window has begun, unless none was found.
LEMMA PreparedNext ==
    ASSUME SlotTypes, Following, NEW tf \in Timeframes, NEW now \in Int,
           NEW sub, sub = subscribed \cup
             (IF SubscribesNext(tf, now) THEN {Prepared(tf, now).market} ELSE {})
    PROVE  LET nxt == Prepared(tf, now)
           IN  /\ nxt \in SlotSet
               /\ nxt.start = slots[tf].nxt.start /\ nxt.market = slots[tf].nxt.market
               /\ nxt.phase = "DISCOVERING" => nxt.market = NoMarket
               /\ nxt.phase \in {"SUBSCRIBING", "ACTIVE"} => nxt.market \in sub \cup {NoMarket}
               /\ now >= slots[tf].nxt.start => nxt.market \in sub \cup {NoMarket}
<1> DEFINE old == slots[tf].nxt
           mid == IF SubscribesNext(tf, now) THEN "SUBSCRIBING" ELSE old.phase
           new == IF mid = "SUBSCRIBING" /\ now >= old.start THEN "ACTIVE" ELSE mid
<1>1. /\ old \in SlotSet
      /\ old.phase = "DISCOVERING" => old.market = NoMarket
      /\ old.phase \in {"SUBSCRIBING", "ACTIVE"} => old.market \in subscribed \cup {NoMarket}
  BY DEF SlotTypes, Following
<1>2. /\ old.phase \in {"DISCOVERING", "REGISTERED", "SUBSCRIBING", "ACTIVE"}
      /\ old.start \in Int /\ old.market \in MarketSet
  BY <1>1 DEF SlotSet, SlotPhase
<1>3. Prepared(tf, now) = [old EXCEPT !.phase = new]
  BY Zenon DEF Prepared
<1>4. SubscribesNext(tf, now) <=> old.phase = "REGISTERED" /\ old.start - now <= PreSubscribe
  BY DEF SubscribesNext
<1>5. new \in SlotPhase
  BY <1>2 DEF SlotPhase
<1> HIDE DEF old, new, mid
<1>6. LET nxt == Prepared(tf, now)
      IN  /\ nxt \in SlotSet /\ nxt.phase = new
          /\ nxt.start = old.start /\ nxt.market = old.market
  BY <1>1, <1>3, <1>5 DEF SlotSet
<1>7. SubscribesNext(tf, now) => old.market \in sub
  BY <1>6
<1>8. subscribed \subseteq sub
  OBVIOUS
<1>9. /\ new = "DISCOVERING" => old.phase = "DISCOVERING"
      /\ new \in {"SUBSCRIBING", "ACTIVE"} =>
           old.phase \in {"SUBSCRIBING", "ACTIVE"} \/ SubscribesNext(tf, now)
  BY DEF new, mid
<1>10. now >= old.start => old.phase # "REGISTERED" \/ SubscribesNext(tf, now)
  BY <1>2, <1>4, SlotAssumption
<1> USE DEF old
<1> QED
  BY <1>1, <1>2, <1>6, <1>7, <1>8, <1>9, <1>10

-----------------------------------------------------------------------------
\* The steps.

\* T7 has found nothing and T2 knows of nothing.
LEMMA SlotInvInit == SlotInit => SlotInv
<1> SUFFICES ASSUME SlotInit PROVE SlotInv
  OBVIOUS
<1>1. NoMarket \in MarketSet
  BY DEF NoMarket, MarketSet
<1>2. Slot("DISCOVERING", 0, NoMarket) \in SlotSet
  BY <1>1 DEF Slot, SlotSet, SlotPhase
<1>3. SlotTypes
  BY <1>2, SlotAssumption DEF SlotTypes, SlotInit
<1>4. slot_queue = <<>> /\ tokens = <<>> /\ t7_at = "boot" /\ pairs = {}
  BY DEF SlotInit
<1>5. Announced(slot_queue) /\ Known(tokens)
  BY <1>4 DEF Announced, Known
<1> QED
  BY <1>3, <1>4, <1>5 DEF SlotInv, Before, After

\* The first markets are registered before T7 subscribes to them.
LEMMA InitialDiscoveryKeeps == SlotInv /\ T7InitialDiscovery => SlotInv'
<1> SUFFICES ASSUME SlotInv, T7InitialDiscovery PROVE SlotInv'
  OBVIOUS
<1> USE DEF T7InitialDiscovery
<1>1. /\ slot_queue = <<>> /\ tokens = <<>> /\ SlotTypes /\ NoMarket \notin pairs
      /\ polled \in Int
  BY DEF SlotInv, Before, SlotTypes
<1>2. slot_queue' = <<>> /\ tokens' = <<>> /\ polled' \in Int
  BY <1>1
<1>3. Announced(slot_queue)' /\ Known(tokens)'
  BY <1>2 DEF Announced, Known
<1>4. CASE t7_at' = "failed" /\ UNCHANGED <<slots, pairs>>
  <2>1. SlotTypes'
    BY <1>1, <1>2, <1>4 DEF SlotTypes
  <2> QED
    BY <1>1, <1>2, <1>3, <1>4, <2>1 DEF SlotInv, Before, After
<1>5. CASE t7_at' = "start"
  <2> DEFINE cur(tf) == window_start_for(tf, polled)
             nxt(tf) == cur(tf) + Period[tf]
             c(tf) == Slot("REGISTERED", cur(tf), Market(tf, cur(tf)))
             x(tf) == Slot("REGISTERED", nxt(tf), Market(tf, nxt(tf)))
  <2>1. /\ slots' = [tf \in Timeframes |-> [cur |-> c(tf), nxt |-> x(tf)]]
        /\ pairs' = UNION {{Market(tf, cur(tf)), Market(tf, nxt(tf))} : tf \in Timeframes}
    BY <1>5
  <2>2. ASSUME NEW tf \in Timeframes
        PROVE  /\ c(tf) \in SlotSet /\ x(tf) \in SlotSet
               /\ c(tf).market = Market(tf, cur(tf)) /\ x(tf).market = Market(tf, nxt(tf))
               /\ x(tf).start = c(tf).start + Period[tf]
               /\ Market(tf, cur(tf)) # NoMarket /\ Market(tf, nxt(tf)) # NoMarket
    <3>1. Period[tf] \in Nat \ {0} /\ tf \in {"5M", "15M"}
      BY SlotAssumption
    <3>2. cur(tf) \in Int
      BY <1>1, <3>1 DEF window_start_for
    <3> HIDE DEF cur
    <3>3. nxt(tf) \in Int
      BY <3>1, <3>2
    <3> QED
      BY <3>1, <3>2, <3>3 DEF Slot, SlotSet, SlotPhase, Market, MarketSet, NoMarket
  <2> HIDE DEF cur, nxt, c, x
  <2>3. slots' \in [Timeframes -> [cur : SlotSet, nxt : SlotSet]]
    BY <2>1, <2>2
  <2>4. SlotTypes'
    BY <1>2, <2>3 DEF SlotTypes
  <2>5. NoMarket \notin pairs'
    BY <2>1, <2>2
  <2>6. Found'
    BY <2>1, <2>2 DEF Found, WindowEnd
  <2> QED
    BY <1>2, <1>3, <1>5, <2>4, <2>5, <2>6 DEF SlotInv, Before, After
<1> QED
  BY <1>4, <1>5

\* Every market that T7 has found is subscribed to before the first event.
LEMMA StartsKeeps == SlotInv /\ T7Starts => SlotInv'
<1> SUFFICES ASSUME SlotInv, T7Starts PROVE SlotInv'
  OBVIOUS
<1> DEFINE E == Enabled5MFirst
           ev(i) == SlotEvent("ACTIVATED", E[i], slots[E[i]].cur.market, 0)
           evs == [i \in 1 .. Len(E) |-> ev(i)]
           c(tf) == [slots[tf].cur EXCEPT !.phase = "ACTIVE"]
           x(tf) == [slots[tf].nxt EXCEPT !.phase = "SUBSCRIBING"]
<1>1. /\ SlotTypes /\ Found /\ slot_queue = <<>> /\ tokens = <<>> /\ NoMarket \notin pairs
  BY DEF SlotInv, T7Starts, Before
<1>2. /\ slots' = [tf \in Timeframes |-> [cur |-> c(tf), nxt |-> x(tf)]]
      /\ subscribed' = pairs /\ pairs' = pairs /\ tokens' = tokens /\ polled' = polled
      /\ t7_at' = "poll" /\ push_slot_events(evs)
  BY Zenon DEF T7Starts
<1>3. Len(E) \in Nat /\ \A i \in 1 .. Len(E) : E[i] \in Timeframes
  BY DEF Enabled5MFirst
<1>4. ASSUME NEW tf \in Timeframes
      PROVE  /\ slots[tf].cur \in SlotSet /\ slots[tf].nxt \in SlotSet
             /\ c(tf) \in SlotSet /\ c(tf).start = slots[tf].cur.start
             /\ x(tf) \in SlotSet /\ x(tf).start = slots[tf].nxt.start
             /\ x(tf).market = slots[tf].nxt.market /\ x(tf).phase = "SUBSCRIBING"
  <2>1. slots[tf].cur \in SlotSet /\ slots[tf].nxt \in SlotSet
    BY <1>1 DEF SlotTypes
  <2> QED
    BY <2>1 DEF SlotSet, SlotPhase
<1>5. ASSUME NEW i \in 1 .. Len(E) PROVE ev(i) \in EventSet /\ ev(i).market \in pairs
  <2>1. E[i] \in Timeframes /\ E[i] \in {"5M", "15M"}
    BY <1>3, SlotAssumption
  <2>2. slots[E[i]].cur.market \in MarketSet /\ slots[E[i]].cur.market \in pairs
    BY <1>1, <1>4, <2>1 DEF Found, SlotSet
  <2> QED
    BY <2>1, <2>2 DEF SlotEvent, EventSet
<1> HIDE DEF E, ev, c, x
<1>6. evs \in Seq(EventSet) /\ Len(evs) = Len(E)
  BY <1>3, <1>5
<1>7. \A i \in 1 .. Len(evs) : evs[i].market \in pairs
  BY <1>3, <1>5, <1>6
<1> HIDE DEF evs
<1>8. slot_queue \in Seq(EventSet)
  BY <1>1 DEF SlotTypes
<1>9. /\ slot_queue' \in Seq(EventSet)
      /\ \A i \in 1 .. Len(slot_queue') : slot_queue'[i].market \in pairs
  <2>1. Len(slot_queue) = 0
    BY <1>1
  <2> QED
    BY <1>2, <1>6, <1>7, <1>8, <2>1, PushedEvents
<1>10. SlotTypes'
  BY <1>1, <1>2, <1>4, <1>9 DEF SlotTypes
<1>11. Following'
  BY <1>1, <1>2, <1>4 DEF Following, Found, WindowEnd
<1>12. Announced(slot_queue)' /\ Known(tokens)'
  BY <1>1, <1>2, <1>9 DEF Announced, Known
<1> QED
  BY <1>1, <1>2, <1>10, <1>11, <1>12 DEF SlotInv, Before, After

\* A market that T7 finds is registered; nobody has been told of it yet.
LEMMA DiscoversKeeps == SlotInv /\ T7Discovers => SlotInv'
<1> SUFFICES ASSUME SlotInv, T7Discovers PROVE SlotInv'
  OBVIOUS
<1>1. SlotTypes /\ Following /\ NoMarket \notin pairs /\ Announced(slot_queue) /\ Known(tokens)
  BY DEF SlotInv, T7Discovers, After
<1>2. PICK found \in SUBSET {tf \in Timeframes : slots[tf].nxt.phase = "DISCOVERING"} :
        /\ slots' = [tf \in Timeframes |->
                       IF tf \in found
                       THEN [slots[tf] EXCEPT !.nxt = Slot("REGISTERED", @.start, Market(tf, slots[tf].nxt.start))]
                       ELSE slots[tf]]
        /\ pairs' = pairs \cup {Market(tf, slots[tf].nxt.start) : tf \in found}
  BY DEF T7Discovers
<1>3. /\ t7_at' = "poll" /\ polled' = polled /\ subscribed' = subscribed
      /\ slot_queue' = slot_queue /\ tokens' = tokens
  BY DEF T7Discovers
<1>4. ASSUME NEW tf \in Timeframes
      PROVE  /\ Slot("REGISTERED", slots[tf].nxt.start, Market(tf, slots[tf].nxt.start)) \in SlotSet
             /\ Market(tf, slots[tf].nxt.start) # NoMarket
             /\ slots[tf] \in [cur : SlotSet, nxt : SlotSet]
  <2>1. tf \in {"5M", "15M"} /\ slots[tf] \in [cur : SlotSet, nxt : SlotSet]
    BY <1>1, SlotAssumption DEF SlotTypes
  <2>2. slots[tf].nxt.start \in Int
    BY <2>1 DEF SlotSet
  <2> QED
    BY <2>1, <2>2 DEF Slot, SlotSet, SlotPhase, Market, MarketSet, NoMarket
<1>5. ASSUME NEW tf \in Timeframes
      PROVE  /\ slots'[tf] \in [cur : SlotSet, nxt : SlotSet]
             /\ slots'[tf].cur = slots[tf].cur /\ slots'[tf].nxt.start = slots[tf].nxt.start
             /\ slots'[tf].nxt = slots[tf].nxt \/ slots'[tf].nxt.phase = "REGISTERED"
  BY <1>2, <1>4 DEF Slot
<1>6. SlotTypes'
  <2>1. slots' \in [Timeframes -> [cur : SlotSet, nxt : SlotSet]]
    BY <1>2, <1>5
  <2> QED
    BY <1>1, <1>3, <2>1 DEF SlotTypes
<1>7. Following'
  BY <1>1, <1>3, <1>5 DEF Following, WindowEnd
<1>8. NoMarket \notin pairs'
  BY <1>1, <1>2, <1>4
<1>9. Announced(slot_queue)'
  BY <1>1, <1>3 DEF Announced
<1>10. Known(tokens)'
  BY <1>1, <1>2, <1>3 DEF Known
<1> QED
  BY <1>3, <1>6, <1>7, <1>8, <1>9, <1>10 DEF SlotInv, Before, After

\* However late T7 polls, the market that becomes CURRENT has been subscribed to
\* by the end of the pass that announces it.
LEMMA CheckRotationKeeps ==
    ASSUME SlotTypes, Following, Announced(slot_queue),
           NEW tf \in Timeframes, NEW now \in Int, check_rotation(tf, now)
    PROVE  /\ slots' \in [Timeframes -> [cur : SlotSet, nxt : SlotSet]]
           /\ slot_queue' \in Seq(EventSet)
           /\ subscribed \subseteq subscribed'
           /\ Following'
           /\ Announced(slot_queue)'
<1> DEFINE nxt == Prepared(tf, now)
           cur == slots[tf].cur
           add1 == IF SubscribesNext(tf, now) THEN {nxt.market} ELSE {}
<1>1. subscribed' = subscribed \cup add1
  BY Zenon DEF check_rotation
<1>2. /\ nxt \in SlotSet /\ nxt.start = slots[tf].nxt.start
      /\ nxt.phase = "DISCOVERING" => nxt.market = NoMarket
      /\ nxt.phase \in {"SUBSCRIBING", "ACTIVE"} => nxt.market \in subscribed' \cup {NoMarket}
      /\ now >= slots[tf].nxt.start => nxt.market \in subscribed' \cup {NoMarket}
  BY <1>1, PreparedNext
<1>3. subscribed \subseteq subscribed'
  BY <1>1, Zenon
<1>4. /\ slots \in [Timeframes -> [cur : SlotSet, nxt : SlotSet]]
      /\ cur \in SlotSet /\ slots[tf].nxt.start = WindowEnd(tf, cur)
      /\ tf \in {"5M", "15M"} /\ Period[tf] \in Nat
  BY SlotAssumption DEF SlotTypes, Following
<1>5. slot_queue \in Seq(EventSet)
  BY DEF SlotTypes
<1>6. /\ cur.start \in Int /\ cur.market \in MarketSet
      /\ nxt.start \in Int /\ nxt.market \in MarketSet
  BY <1>2, <1>4 DEF SlotSet
<1>7. CASE /\ now >= WindowEnd(tf, cur)
           /\ slots' = [slots EXCEPT ![tf] =
                          [cur |-> [nxt EXCEPT !.phase = "ACTIVE"],
                           nxt |-> Slot("DISCOVERING", WindowEnd(tf, nxt), NoMarket)]]
           /\ push_slot_events(Rotated(tf, nxt))
  <2> HIDE DEF nxt
  <2>1. nxt.market \in subscribed' \cup {NoMarket}
    BY <1>2, <1>4, <1>7
  <2>2. /\ [nxt EXCEPT !.phase = "ACTIVE"] \in SlotSet
        /\ [nxt EXCEPT !.phase = "ACTIVE"].start = nxt.start
    BY <1>2 DEF SlotSet, SlotPhase
  <2>3. WindowEnd(tf, nxt) \in Int
    BY <1>4, <1>6 DEF WindowEnd
  <2>4. LET x == Slot("DISCOVERING", WindowEnd(tf, nxt), NoMarket)
        IN  /\ x \in SlotSet /\ x.start = WindowEnd(tf, nxt)
            /\ x.phase = "DISCOVERING" /\ x.market = NoMarket
    BY <2>3 DEF Slot, SlotSet, SlotPhase, MarketSet, NoMarket
  <2>5. slots' \in [Timeframes -> [cur : SlotSet, nxt : SlotSet]]
    BY <1>4, <1>7, <2>2, <2>4
  <2>6. Following'
    <3>1. ASSUME NEW u \in Timeframes, u # tf PROVE slots'[u] = slots[u]
      BY <1>4, <1>7, <3>1
    <3>2. /\ slots'[tf].nxt.start = slots'[tf].cur.start + Period[tf]
          /\ slots'[tf].nxt.phase = "DISCOVERING" /\ slots'[tf].nxt.market = NoMarket
      BY <1>4, <1>7, <2>2, <2>4 DEF WindowEnd
    <3> QED
      BY <1>3, <3>1, <3>2 DEF Following, WindowEnd
  <2> DEFINE evs == Rotated(tf, nxt)
  <2>7. \A m \in MarketSet, e \in Int :
          /\ SlotEvent("CLOSING", tf, m, e) \in EventSet
          /\ SlotEvent("DEMOTED", tf, m, e) \in EventSet
          /\ SlotEvent("PROMOTED", tf, m, e) \in EventSet
          /\ SlotEvent("ACTIVATED", tf, m, e) \in EventSet
    BY <1>4 DEF SlotEvent, EventSet
  <2>8. evs \in Seq(EventSet)
    BY <1>6, <2>3, <2>7 DEF Rotated
  <2>9. \A i \in 1 .. Len(evs) : evs[i].kind = "ACTIVATED" => evs[i].market = nxt.market
    BY DEF Rotated, SlotEvent
  <2> HIDE DEF evs
  <2>10. /\ slot_queue' \in Seq(EventSet)
         /\ \A i \in 1 .. Len(slot_queue') :
              \/ \E j \in 1 .. Len(slot_queue) : slot_queue'[i] = slot_queue[j]
              \/ \E j \in 1 .. Len(evs) : slot_queue'[i] = evs[j]
    BY <1>5, <1>7, <2>8, PushedEvents DEF evs
  <2>11. Announced(slot_queue)'
    BY <1>3, <2>1, <2>9, <2>10 DEF Announced
  <2> QED
    BY <1>3, <2>5, <2>6, <2>10, <2>11
<1>8. CASE /\ slots' = [slots EXCEPT ![tf].nxt = nxt]
           /\ slot_queue' = slot_queue
  <2> HIDE DEF nxt
  <2>1. slots' \in [Timeframes -> [cur : SlotSet, nxt : SlotSet]]
    BY <1>2, <1>4, <1>8
  <2>2. ASSUME NEW u \in Timeframes, u # tf PROVE slots'[u] = slots[u]
    BY <1>4, <1>8, <2>2
  <2>3. slots'[tf].nxt = nxt /\ slots'[tf].cur = cur
    BY <1>4, <1>8
  <2>4. Following'
    BY <1>2, <1>3, <1>4, <2>2, <2>3 DEF Following, WindowEnd
  <2>5. Announced(slot_queue)'
    BY <1>3, <1>8 DEF Announced
  <2> QED
    BY <1>3, <1>5, <1>8, <2>1, <2>4, <2>5
<1> QED
  BY <1>7, <1>8 DEF check_rotation

\* A pass of T7 over the slots of one timeframe.
LEMMA RotatesKeeps == ASSUME SlotInv, NEW tf \in {"5M", "15M"}, T7Rotates(tf) PROVE SlotInv'
<1>1. /\ SlotTypes /\ Following /\ NoMarket \notin pairs /\ Announced(slot_queue)
      /\ Known(tokens) /\ t7_at' \in After
  BY DEF SlotInv, T7Rotates, After
<1>2. polled' \in Int /\ pairs' = pairs /\ tokens' = tokens
  BY <1>1, SlotAssumption DEF T7Rotates, SlotTypes
<1>3. /\ slots' \in [Timeframes -> [cur : SlotSet, nxt : SlotSet]]
      /\ slot_queue' \in Seq(EventSet) /\ subscribed \subseteq subscribed'
      /\ Following' /\ Announced(slot_queue)'
  <2>1. CASE tf \in Timeframes
    <3>1. check_rotation(tf, polled')
      BY <2>1, Zenon DEF T7Rotates
    <3> QED
      BY <1>1, <1>2, <2>1, <3>1, CheckRotationKeeps
  <2>2. CASE tf \notin Timeframes
    BY <1>1, <2>2 DEF T7Rotates, SlotTypes, Following, Announced, WindowEnd
  <2> QED
    BY <2>1, <2>2
<1>4. SlotTypes'
  BY <1>1, <1>2, <1>3 DEF SlotTypes
<1>5. Known(tokens)'
  BY <1>1, <1>2, <1>3 DEF Known
<1> QED
  BY <1>1, <1>2, <1>3, <1>4, <1>5 DEF SlotInv, Before, After

\* T2 enters a market in its map only when T7 announces a registered one.
LEMMA TakesKeeps == SlotInv /\ T2TakesSlotEvent => SlotInv'
<1> SUFFICES ASSUME SlotInv, T2TakesSlotEvent PROVE SlotInv'
  OBVIOUS
<1> DEFINE ev == Head(slot_queue)
<1>1. /\ SlotTypes /\ Announced(slot_queue) /\ Known(tokens) /\ NoMarket \notin pairs
      /\ slot_queue \in Seq(EventSet) /\ tokens \in Seq(EntrySet) /\ slot_queue # <<>>
  BY DEF SlotInv, SlotTypes, T2TakesSlotEvent
<1>2. /\ tokens' = Relabelled(tokens, ev) /\ slot_queue' = Tail(slot_queue)
      /\ t7_at' = t7_at /\ polled' = polled /\ slots' = slots
      /\ pairs' = pairs /\ subscribed' = subscribed
  BY Zenon DEF T2TakesSlotEvent, t7_vars
<1>3. t7_at \notin Before
  BY <1>1 DEF SlotInv
<1>4. /\ ev \in EventSet /\ ev = slot_queue[1] /\ 1 \in 1 .. Len(slot_queue)
      /\ slot_queue' \in Seq(EventSet)
      /\ \A i \in 1 .. Len(slot_queue') :
           i + 1 \in 1 .. Len(slot_queue) /\ slot_queue'[i] = slot_queue[i + 1]
  BY <1>1, <1>2
<1>5. ev.kind = "ACTIVATED" /\ ev.market \in pairs => ev.market \in subscribed
  BY <1>1, <1>4 DEF Announced
<1> HIDE DEF ev
<1>6. Announces(tokens', tokens, ev)
  BY <1>1, <1>2, <1>4, RelabelledMarkets, Zenon
<1>7. Known(tokens)'
  BY <1>1, <1>2, <1>5, <1>6 DEF Known, Announces
<1>8. Announced(slot_queue)'
  BY <1>1, <1>2, <1>4 DEF Announced
<1>9. SlotTypes'
  BY <1>1, <1>2, <1>4, <1>6 DEF SlotTypes, Announces
<1>10. (t7_at \in After => Following)' /\ (t7_at = "start" => Found)'
  BY <1>2 DEF SlotInv, Following, Found, WindowEnd
<1> QED
  BY <1>1, <1>2, <1>3, <1>7, <1>8, <1>9, <1>10 DEF SlotInv

\* The slots and the map are T7's and process_event's alone.
LEMMA OthersKeep == SlotInv /\ UNCHANGED slot_vars => SlotInv'
BY DEF SlotInv, slot_vars, t7_vars, SlotTypes, Found, Following, Announced, Known, WindowEnd

\* Registered, subscribed to, announced, entered in the map: in this order, in
\* every reachable state.
THEOREM SlotsSafe == SessionSpec => []SlotInv
<1>1. SlotInv /\ [SessionNext]_session_vars => SlotInv'
  <2> SUFFICES ASSUME SlotInv, [SessionNext]_session_vars PROVE SlotInv'
    OBVIOUS
  <2>1. CASE T7Next
    BY <2>1, InitialDiscoveryKeeps, StartsKeeps, RotatesKeeps, DiscoversKeeps DEF T7Next
  <2>2. CASE T2TakesSlotEvent
    BY <2>2, TakesKeeps
  <2>3. CASE UNCHANGED slot_vars
    BY <2>3, OthersKeep
  <2>4. TradingNext => T7Next \/ T2TakesSlotEvent \/ UNCHANGED slot_vars
    BY DEF TradingNext, T2Quotes, T3Drains, T2TakesSimFeedback, T2StartsSession,
           T2StopsSession, T2SetsExecMode, T2EmergencyStops
  <2>5. DeskNext => UNCHANGED slot_vars
    BY DEF DeskNext, T2EnablesStrategy, T2SweepsAll, T2SellsAll, T2Probes, T3AnswersProbe,
           T3CancelsProbe, T2TakesProbeFeedback, T2CancelsProbe, T2TimesOutProbe
  <2> QED
    BY <2>1, <2>2, <2>3, <2>4, <2>5 DEF SessionNext, session_vars
<1>2. SessionInit => SlotInv
  BY SlotInvInit DEF SessionInit
<1> QED
  BY <1>1, <1>2, PTL DEF SessionSpec

\* Whatever the windows, the capacities and the delays of T7 and T2, and
\* whichever events a full queue drops: T2 quotes no market that is not
\* registered and whose feeds have not been asked for.
THEOREM QuotesSubscribed == SessionSpec => []QuotedIsSubscribed
<1>1. SlotInv => QuotedIsSubscribed
  BY DEF SlotInv, Known, QuotedIsSubscribed, ActiveMarkets
<1> QED
  BY <1>1, SlotsSafe, PTL
=============================================================================
