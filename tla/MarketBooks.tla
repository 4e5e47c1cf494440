---------------------------- MODULE MarketBooks ----------------------------
(***************************************************************************)
(* The order book of an asset: T0 keeps it from the market feed             *)
(* (book/order_book.cpp, state/market_state_store.cpp) and sends every      *)
(* change to T2, which keeps a copy (scheduler/strategy_book_store.cpp).    *)
(* The queue between them is bounded: a change that finds it full is        *)
(* dropped at once, a piece of a snapshot after a bounded spin.             *)
(*                                                                         *)
(* Assets do not interact; one is modelled, a known UP token. Events of     *)
(* unknown assets and of DOWN tokens are discarded before they reach a      *)
(* book. A message carries at most one level (kMaxDeltaChanges = 1), so     *)
(* that every snapshot of two levels is sent in pieces. Tick sizes, last    *)
(* trades and book status are not kept.                                     *)
(***************************************************************************)
EXTENDS Integers, Sequences, FiniteSetsExt, SequencesExt

CONSTANTS
    MaxPrice,   \* prices are 0 .. MaxPrice (kPriceMin, kPriceMax)
    Changes,    \* the changes the feed may send: a side, a price and a size
    MaxBatch,   \* bound on the changes in one event of the feed
    DeltaCap,   \* capacity of the book delta queue
    NoteCap     \* capacity of the market queue

ASSUME BooksAssumption ==
    /\ MaxPrice \in Nat /\ DeltaCap \in Nat /\ NoteCap \in Nat /\ MaxBatch \in Nat
    /\ Changes \subseteq [side : {"BID", "ASK"}, price : 0 .. MaxPrice, size : Nat]
    /\ IsFiniteSet(Changes)

VARIABLES
    book,       \* T0's book
    deltas,     \* the queue to T2
    pushing,    \* what T0 has still to push of the event it is applying
    notes,      \* length of the market queue
    shadow,     \* T2's copy; pending: between SNAPSHOT_BEGIN and SNAPSHOT_END
    lost,       \* history: has something T2 needs been dropped since the last whole snapshot?
    whole       \* history: has nothing of the snapshot being pushed been dropped?

book_vars == <<book, deltas, pushing, notes, shadow, lost, whole>>

kInvalidPrice == -1
Prices == 0 .. MaxPrice
Sides == {"BID", "ASK"}
Batches == UNION {[1 .. n -> Changes] : n \in 1 .. MaxBatch}
Snapshots ==
    {ls \in SUBSET {ch \in Changes : ch.size > 0} :
       \A l, k \in ls : l.side = k.side /\ l.price = k.price => l = k}

-----------------------------------------------------------------------------
\* OrderBook

EmptyLadder == [s \in Sides |-> [p \in Prices |-> 0]]

BestBid(lad) == Max({p \in Prices : lad["BID"][p] > 0} \cup {kInvalidPrice})
BestAsk(lad) ==
    LET offered == {p \in Prices : lad["ASK"][p] > 0}
    IN IF offered = {} THEN kInvalidPrice ELSE Min(offered)
SizeAt(lad, s, p) == IF p = kInvalidPrice THEN 0 ELSE lad[s][p]

recompute_bbo(lad) ==
    [bid |-> BestBid(lad), bid_size |-> SizeAt(lad, "BID", BestBid(lad)),
     ask |-> BestAsk(lad), ask_size |-> SizeAt(lad, "ASK", BestAsk(lad))]

clear == [lad |-> EmptyLadder, bbo |-> recompute_bbo(EmptyLadder)]

\* A snapshot out of range leaves the book empty.
apply_snapshot(levels, valid) ==
    LET lad == [s \in Sides |-> [p \in Prices |->
                  IF \E l \in levels : l.side = s /\ l.price = p
                  THEN (CHOOSE l \in levels : l.side = s /\ l.price = p).size ELSE 0]]
    IN IF valid THEN [lad |-> lad, bbo |-> recompute_bbo(lad)] ELSE clear

\* The size of a level after the first n changes of a batch.
SizeAfter(lad, chs, n, s, p) ==
    LET js == {j \in 1 .. n : chs[j].side = s /\ chs[j].price = p}
    IN IF js = {} THEN lad[s][p] ELSE chs[Max(js)].size

\* Mutant: a change of the best level's size is not taken for one.
touches_best_strictly(b, chs) ==
    \E i \in 1 .. Len(chs) :
        LET ch == chs[i]
            gone == SizeAfter(b.lad, chs, i - 1, ch.side, ch.price) > 0 /\ ch.size = 0
        IN IF ch.side = "BID" THEN ch.price > b.bbo.bid \/ gone
           ELSE b.bbo.ask = kInvalidPrice \/ ch.price < b.bbo.ask \/ gone

\* Does a batch reach the best level, as it was before the batch? Only then is
\* the best recomputed.
touches_best(b, chs) ==
    \E i \in 1 .. Len(chs) :
        LET ch == chs[i]
            gone == SizeAfter(b.lad, chs, i - 1, ch.side, ch.price) > 0 /\ ch.size = 0
        IN IF ch.side = "BID" THEN ch.price >= b.bbo.bid \/ gone
           ELSE b.bbo.ask = kInvalidPrice \/ ch.price <= b.bbo.ask \/ gone

apply_price_change(b, chs) ==
    LET lad == [s \in Sides |-> [p \in Prices |-> SizeAfter(b.lad, chs, Len(chs), s, p)]]
    IN [lad |-> lad, bbo |-> IF touches_best(b, chs) THEN recompute_bbo(lad) ELSE b.bbo]

-----------------------------------------------------------------------------
\* StrategyBookStore

Delta(k, chs) == [kind |-> k, changes |-> chs]

\* T2 applies one change at a time, and a delta has one at most.
ApplyAll(b, chs) == IF chs = <<>> THEN b ELSE apply_price_change(b, chs)

\* Mutant: a new snapshot is laid over the old book.
apply_delta_over(s, d) ==
    [book |-> ApplyAll(s.book, d.changes),
     pending |-> d.kind = "SNAPSHOT_BEGIN" \/ (s.pending /\ d.kind # "SNAPSHOT_END")]

\* The book is emptied at the beginning of a snapshot.
apply_delta(s, d) ==
    [book |-> ApplyAll(IF d.kind = "SNAPSHOT_BEGIN" THEN clear ELSE s.book, d.changes),
     pending |-> d.kind = "SNAPSHOT_BEGIN" \/ (s.pending /\ d.kind # "SNAPSHOT_END")]

-----------------------------------------------------------------------------
\* MarketStateStore on T0, and T2's side of the queues.

BooksInit ==
    /\ book = clear
    /\ deltas = <<>>
    /\ pushing = <<>>
    /\ notes = 0
    /\ shadow = [book |-> clear, pending |-> FALSE]
    /\ lost = FALSE
    /\ whole = FALSE

\* The pieces of a snapshot: one level each, the last one marked; a snapshot
\* that fits in one message is ended by an empty one.
SnapshotDeltas(levels) ==
    LET n == Cardinality(levels)
        ls == SetToSeq(levels)
        kind(i) == IF i = 1 THEN "SNAPSHOT_BEGIN"
                   ELSE IF i = n THEN "SNAPSHOT_END" ELSE "SNAPSHOT_CHUNK"
    IN IF n <= 1 THEN <<Delta("SNAPSHOT_BEGIN", ls), Delta("SNAPSHOT_END", <<>>)>>
       ELSE [i \in 1 .. n |-> Delta(kind(i), <<ls[i]>>)]

\* A snapshot: with a price or size out of range T0's book is emptied, and T2
\* is not told.
T0Snapshot ==
    /\ pushing = <<>>
    /\ \E levels \in Snapshots, valid \in BOOLEAN :
         /\ book' = apply_snapshot(levels, valid)
         /\ pushing' = IF valid THEN SnapshotDeltas(levels) ELSE <<>>
         /\ lost' = (lost \/ ~valid)
    /\ whole' = TRUE
    /\ UNCHANGED <<deltas, notes, shadow>>

\* An event with changes; with one out of range it leaves the book alone.
T0PriceChange ==
    /\ pushing = <<>>
    /\ \E chs \in Batches :
         /\ book' = apply_price_change(book, chs)
         /\ pushing' = [i \in 1 .. Len(chs) |-> Delta("INCREMENTAL", <<chs[i]>>)]
    /\ UNCHANGED <<deltas, notes, shadow, lost, whole>>

emit_notification == notes' = IF notes < NoteCap THEN notes + 1 ELSE notes

\* push_delta, and after the last one the notification.
push_delta ==
    /\ pushing # <<>>
    /\ LET d == Head(pushing)
           room == Len(deltas) < DeltaCap
       IN /\ deltas' = IF room THEN Append(deltas, d) ELSE deltas
          /\ whole' = (whole /\ room)
          /\ lost' = IF d.kind = "SNAPSHOT_END" /\ whole /\ room THEN FALSE ELSE lost \/ ~room
    /\ pushing' = Tail(pushing)
    /\ IF Len(pushing) = 1 THEN emit_notification ELSE notes' = notes
    /\ UNCHANGED <<book, shadow>>

\* Phase 0 of T2's pass, one delta at a time; then it takes notifications.
T2AppliesDelta ==
    /\ deltas # <<>>
    /\ shadow' = apply_delta(shadow, Head(deltas))
    /\ deltas' = Tail(deltas)
    /\ UNCHANGED <<book, pushing, notes, lost, whole>>

T2TakesNote ==
    /\ notes > 0
    /\ notes' = notes - 1
    /\ UNCHANGED <<book, deltas, pushing, shadow, lost, whole>>

BooksNext ==
    \/ T0Snapshot
    \/ T0PriceChange
    \/ push_delta
    \/ T2AppliesDelta
    \/ T2TakesNote

BooksSpec == BooksInit /\ [][BooksNext]_book_vars

-----------------------------------------------------------------------------
\* Properties.

BooksTypeOK ==
    /\ Len(deltas) \in 0 .. DeltaCap
    /\ notes \in 0 .. NoteCap
    /\ {lost, whole, shadow.pending} \subseteq BOOLEAN

\* The best bid and ask that T0 publishes and T2 quotes on are the best levels
\* of their ladders with their sizes, although they are only recomputed for
\* events that seem to reach the best before them, and T2 sees the book torn
\* into pieces.
BboIsBest ==
    \A b \in {book, shadow.book} : b.bbo = recompute_bbo(b.lad)

\* T2's copy follows T0's book: with what is on its way applied it is T0's book,
\* complete, unless something was dropped, or a bad snapshot emptied T0's
\* book, and no whole snapshot has been queued since.
ShadowFollows ==
    lost \/ FoldLeft(apply_delta, shadow, deltas \o pushing) = [book |-> book, pending |-> FALSE]
=============================================================================
