------------------------- MODULE MarketBooks_proofs -------------------------
(***************************************************************************)
(* Proofs about MarketBooks for every price range, every feed and every    *)
(* length of an event: the best bid and ask are those of the ladder,       *)
(* though they are not recomputed for every change.                        *)
(***************************************************************************)
EXTENDS MarketBooks, FiniteSetTheorems, WellFoundedInduction, TLAPS

\* A set of natural numbers that is not empty has a least element.
LEMMA NatHasMin ==
    ASSUME NEW T \in SUBSET Nat, T # {}
    PROVE  \E x \in T : \A y \in T : x =< y
<1> DEFINE R == OpToRel(<, Nat)
<1>1. IsWellFoundedOn(R, Nat)
  BY NatLessThanWellFounded
<1>2. \A x \in T, y \in T : y < x => <<y, x>> \in R
  BY DEF OpToRel
<1> HIDE DEF R
<1>3. PICK x \in T : \A y \in T : ~(<<y, x>> \in R)
  BY <1>1, WFMin
<1>4. \A y \in T : ~(y < x)
  BY <1>2, <1>3, Zenon
<1> QED
  BY <1>4

\* A bounded one has a greatest element.
LEMMA NatHasMax ==
    ASSUME NEW T \in SUBSET Nat, T # {}, NEW n \in Nat, \A x \in T : x =< n
    PROVE  \E x \in T : \A y \in T : x >= y
<1> DEFINE U == {k \in Nat : n - k \in T}
<1>1. U # {}
  <2>1. PICK x \in T : TRUE
    OBVIOUS
  <2>2. n - x \in U
    BY <2>1
  <2> QED
    BY <2>2
<1>2. PICK k \in U : \A j \in U : k =< j
  BY <1>1, NatHasMin
<1>3. \A y \in T : n - y \in U
  OBVIOUS
<1>4. \A y \in T : n - k >= y
  BY <1>2, <1>3
<1> QED
  BY <1>2, <1>4

\* What Max and Min of a set of prices are.
LEMMA MaxIs ==
    ASSUME NEW S, NEW m \in S, S \subseteq Int, \A y \in S : m >= y
    PROVE  Max(S) = m
<1>1. \A x \in S : (\A y \in S : x >= y) => x = m
  OBVIOUS
<1> QED
  BY <1>1 DEF Max

\* The same for the least element.
LEMMA MinIs ==
    ASSUME NEW S, NEW m \in S, S \subseteq Int, \A y \in S : m =< y
    PROVE  Min(S) = m
<1>1. \A x \in S : (\A y \in S : x =< y) => x = m
  OBVIOUS
<1> QED
  BY <1>1 DEF Min

Ladders == [Sides -> [Prices -> Nat]]

\* A ladder of natural sizes, and the best of it.
GoodBook(b) == b.lad \in Ladders /\ b.bbo = recompute_bbo(b.lad)

IsBestBid(lad, m) ==
    \/ m = kInvalidPrice /\ \A p \in Prices : lad["BID"][p] = 0
    \/ m \in Prices /\ lad["BID"][m] > 0 /\ \A p \in Prices : p > m => lad["BID"][p] = 0

IsBestAsk(lad, m) ==
    \/ m = kInvalidPrice /\ \A p \in Prices : lad["ASK"][p] = 0
    \/ m \in Prices /\ lad["ASK"][m] > 0 /\ \A p \in Prices : p < m => lad["ASK"][p] = 0

\* BestBid is the one price that is best.
LEMMA BestBidIs ==
    ASSUME NEW lad \in Ladders
    PROVE  /\ IsBestBid(lad, BestBid(lad))
           /\ \A m : IsBestBid(lad, m) => BestBid(lad) = m
<1> DEFINE S == {p \in Prices : lad["BID"][p] > 0}
           T == S \cup {kInvalidPrice}
<1>0. /\ S \subseteq Nat /\ T \subseteq Int /\ kInvalidPrice \in T
      /\ \A p \in S : p =< MaxPrice
      /\ \A p \in Prices : lad["BID"][p] \in Nat
  BY BooksAssumption DEF Prices, kInvalidPrice, Ladders, Sides
<1>1. BestBid(lad) = Max(T)
  BY DEF BestBid
<1>2. \A m : IsBestBid(lad, m) => BestBid(lad) = m
  <2> SUFFICES ASSUME NEW m, IsBestBid(lad, m) PROVE Max(T) = m
    BY <1>1
  <2>1. m \in T
    BY DEF IsBestBid
  <2>2. \A y \in T : m >= y
    BY <1>0, BooksAssumption DEF IsBestBid, Prices, kInvalidPrice
  <2> HIDE DEF T
  <2> QED
    BY <1>0, <2>1, <2>2, MaxIs
<1>3. \E m : IsBestBid(lad, m)
  <2>1. CASE S = {}
    <3>1. \A p \in Prices : lad["BID"][p] = 0
      BY <1>0, <2>1
    <3> QED
      BY <3>1 DEF IsBestBid
  <2>2. CASE S # {}
    <3> HIDE DEF S
    <3>1. PICK m \in S : \A y \in S : m >= y
      BY <1>0, <2>2, BooksAssumption, NatHasMax
    <3>2. m \in Prices /\ lad["BID"][m] > 0
      BY <3>1 DEF S
    <3>3. \A p \in Prices : p > m => lad["BID"][p] = 0
      BY <1>0, <3>1, BooksAssumption DEF S, Prices
    <3> QED
      BY <3>2, <3>3 DEF IsBestBid
  <2> QED
    BY <2>1, <2>2
<1> QED
  BY <1>2, <1>3

\* BestAsk is the one price that is best.
LEMMA BestAskIs ==
    ASSUME NEW lad \in Ladders
    PROVE  /\ IsBestAsk(lad, BestAsk(lad))
           /\ \A m : IsBestAsk(lad, m) => BestAsk(lad) = m
<1> DEFINE S == {p \in Prices : lad["ASK"][p] > 0}
<1>0. /\ S \subseteq Nat /\ S \subseteq Int
      /\ \A p \in Prices : lad["ASK"][p] \in Nat
  BY BooksAssumption DEF Prices, Ladders, Sides
<1>1. BestAsk(lad) = IF S = {} THEN kInvalidPrice ELSE Min(S)
  BY DEF BestAsk
<1>2. \A m : IsBestAsk(lad, m) => BestAsk(lad) = m
  <2> SUFFICES ASSUME NEW m, IsBestAsk(lad, m) PROVE BestAsk(lad) = m
    OBVIOUS
  <2>1. CASE m = kInvalidPrice /\ \A p \in Prices : lad["ASK"][p] = 0
    <3>1. S = {}
      BY <1>0, <2>1
    <3> QED
      BY <1>1, <2>1, <3>1
  <2>2. CASE m \in Prices /\ lad["ASK"][m] > 0 /\ \A p \in Prices : p < m => lad["ASK"][p] = 0
    <3>1. m \in S
      BY <2>2
    <3>2. \A y \in S : m =< y
      BY <1>0, <2>2, BooksAssumption DEF Prices
    <3> HIDE DEF S
    <3>3. Min(S) = m
      BY <1>0, <3>1, <3>2, MinIs
    <3> QED
      BY <1>1, <3>1, <3>3
  <2> QED
    BY <2>1, <2>2 DEF IsBestAsk
<1>3. \E m : IsBestAsk(lad, m)
  <2>1. CASE S = {}
    <3>1. \A p \in Prices : lad["ASK"][p] = 0
      BY <1>0, <2>1
    <3> QED
      BY <3>1 DEF IsBestAsk
  <2>2. CASE S # {}
    <3> HIDE DEF S
    <3>1. PICK m \in S : \A y \in S : m =< y
      BY <1>0, <2>2, NatHasMin
    <3>2. m \in Prices /\ lad["ASK"][m] > 0
      BY <3>1 DEF S
    <3>3. \A p \in Prices : p < m => lad["ASK"][p] = 0
      BY <1>0, <3>1, BooksAssumption DEF S, Prices
    <3> QED
      BY <3>2, <3>3 DEF IsBestAsk
  <2> QED
    BY <2>1, <2>2
<1> QED
  BY <1>2, <1>3

\* A batch leaves a natural size on every level, and alone the levels it does
\* not name.
LEMMA SizeAfterIs ==
    ASSUME NEW lad \in Ladders, NEW chs \in Seq(Changes),
           NEW s \in Sides, NEW p \in Prices
    PROVE  /\ SizeAfter(lad, chs, Len(chs), s, p) \in Nat
           /\ (\A j \in 1 .. Len(chs) : ~(chs[j].side = s /\ chs[j].price = p))
                => SizeAfter(lad, chs, Len(chs), s, p) = lad[s][p]
<1> DEFINE js == {j \in 1 .. Len(chs) : chs[j].side = s /\ chs[j].price = p}
<1>0. SizeAfter(lad, chs, Len(chs), s, p) = IF js = {} THEN lad[s][p] ELSE chs[Max(js)].size
  BY DEF SizeAfter
<1>1. lad[s][p] \in Nat
  BY DEF Ladders
<1>2. \A j \in js : chs[j].size \in Nat
  BY BooksAssumption
<1>3. Len(chs) \in Nat /\ js \subseteq Nat /\ js \subseteq Int /\ \A j \in js : j =< Len(chs)
  OBVIOUS
<1>4. (\A j \in 1 .. Len(chs) : ~(chs[j].side = s /\ chs[j].price = p)) => js = {}
  OBVIOUS
<1> HIDE DEF js
<1>5. CASE js # {}
  <2>1. PICK m \in js : \A y \in js : m >= y
    BY <1>3, <1>5, NatHasMax
  <2>2. Max(js) = m
    BY <1>3, <2>1, MaxIs
  <2> QED
    BY <1>0, <1>2, <1>4, <1>5, <2>1, <2>2
<1> QED
  BY <1>0, <1>1, <1>4, <1>5

\* The heart of the matter: a batch that names no level at or above the best
\* leaves the best as it was.
LEMMA BatchKeepsBest ==
    ASSUME NEW b, GoodBook(b), NEW chs \in Seq(Changes)
    PROVE  GoodBook(apply_price_change(b, chs))
<1> DEFINE lad == [s \in Sides |-> [p \in Prices |-> SizeAfter(b.lad, chs, Len(chs), s, p)]]
<1>0. b.lad \in Ladders /\ b.bbo = recompute_bbo(b.lad)
  BY DEF GoodBook
<1>1. lad \in Ladders
  BY <1>0, SizeAfterIs DEF Ladders
<1>2. /\ apply_price_change(b, chs).lad = lad
      /\ apply_price_change(b, chs).bbo = IF touches_best(b, chs) THEN recompute_bbo(lad) ELSE b.bbo
  BY DEF apply_price_change
<1>3. ASSUME ~touches_best(b, chs) PROVE recompute_bbo(lad) = b.bbo
  <2>1. b.bbo.bid = BestBid(b.lad) /\ b.bbo.ask = BestAsk(b.lad)
    BY <1>0 DEF recompute_bbo
  <2>2. \A j \in 1 .. Len(chs) :
           /\ chs[j].side = "BID" => ~(chs[j].price >= BestBid(b.lad))
           /\ chs[j].side # "BID" => BestAsk(b.lad) # kInvalidPrice /\ ~(chs[j].price =< BestAsk(b.lad))
    BY <1>3, <2>1 DEF touches_best
  <2>3. \A j \in 1 .. Len(chs) : chs[j].side \in Sides /\ chs[j].price \in Prices
    BY BooksAssumption DEF Sides, Prices
  <2>4. ASSUME NEW p \in Prices, p >= BestBid(b.lad) PROVE lad["BID"][p] = b.lad["BID"][p]
    <3>1. \A j \in 1 .. Len(chs) : ~(chs[j].side = "BID" /\ chs[j].price = p)
      BY <2>2, <2>4
    <3> QED
      BY <1>0, <3>1, SizeAfterIs DEF Sides
  <2>5. ASSUME NEW p \in Prices, BestAsk(b.lad) = kInvalidPrice \/ p =< BestAsk(b.lad)
        PROVE  lad["ASK"][p] = b.lad["ASK"][p]
    <3>1. \A j \in 1 .. Len(chs) : ~(chs[j].side = "ASK" /\ chs[j].price = p)
      BY <2>2, <2>5
    <3> QED
      BY <1>0, <3>1, SizeAfterIs DEF Sides
  <2> HIDE DEF lad
  <2>6. BestBid(lad) = BestBid(b.lad)
    <3>1. IsBestBid(b.lad, BestBid(b.lad))
      BY <1>0, BestBidIs
    <3>2. CASE BestBid(b.lad) = kInvalidPrice
      <4>1. \A p \in Prices : p >= kInvalidPrice /\ kInvalidPrice \notin Prices
        BY BooksAssumption DEF Prices, kInvalidPrice
      <4>2. \A p \in Prices : b.lad["BID"][p] = 0
        BY <3>1, <3>2, <4>1 DEF IsBestBid
      <4>3. \A p \in Prices : lad["BID"][p] = 0
        BY <2>4, <3>2, <4>1, <4>2
      <4> QED
        BY <1>1, <3>2, <4>3, BestBidIs DEF IsBestBid
    <3>3. CASE BestBid(b.lad) # kInvalidPrice
      <4>1. BestBid(b.lad) \in Prices /\ b.lad["BID"][BestBid(b.lad)] > 0
        BY <3>1, <3>3 DEF IsBestBid
      <4>2. \A p \in Prices : p > BestBid(b.lad) => b.lad["BID"][p] = 0
        BY <3>1, <3>3 DEF IsBestBid
      <4>3. \A p \in Prices : p > BestBid(b.lad) => lad["BID"][p] = 0
        BY <2>4, <4>1, <4>2, BooksAssumption DEF Prices
      <4>4. lad["BID"][BestBid(b.lad)] > 0
        BY <2>4, <4>1, BooksAssumption DEF Prices
      <4> QED
        BY <1>1, <4>1, <4>3, <4>4, BestBidIs DEF IsBestBid
    <3> QED
      BY <3>2, <3>3
  <2>7. BestAsk(lad) = BestAsk(b.lad)
    <3>1. IsBestAsk(b.lad, BestAsk(b.lad))
      BY <1>0, BestAskIs
    <3>2. IsBestAsk(lad, BestAsk(b.lad))
      BY <2>5, <3>1, BooksAssumption DEF IsBestAsk, Prices, kInvalidPrice
    <3> QED
      BY <1>1, <3>2, BestAskIs
  <2>8. SizeAt(lad, "BID", BestBid(lad)) = SizeAt(b.lad, "BID", BestBid(b.lad))
    <3>1. BestBid(b.lad) = kInvalidPrice \/ BestBid(b.lad) \in Prices
      BY <1>0, BestBidIs DEF IsBestBid
    <3> QED
      BY <2>4, <2>6, <3>1, BooksAssumption DEF SizeAt, Prices
  <2>9. SizeAt(lad, "ASK", BestAsk(lad)) = SizeAt(b.lad, "ASK", BestAsk(b.lad))
    <3>1. BestAsk(b.lad) = kInvalidPrice \/ BestAsk(b.lad) \in Prices
      BY <1>0, BestAskIs DEF IsBestAsk
    <3> QED
      BY <2>5, <2>7, <3>1, BooksAssumption DEF SizeAt, Prices
  <2> QED
    BY <1>0, <2>6, <2>7, <2>8, <2>9 DEF recompute_bbo
<1> HIDE DEF lad
<1> QED
  BY <1>1, <1>2, <1>3 DEF GoodBook

-----------------------------------------------------------------------------
\* The system: T0's book, the queue, and T2's copy.

Deltas == [kind : {"SNAPSHOT_BEGIN", "SNAPSHOT_CHUNK", "SNAPSHOT_END", "INCREMENTAL"},
           changes : Seq(Changes)]

\* Both books are good, and what is on its way between them is changes.
BooksInv ==
    /\ GoodBook(book)
    /\ GoodBook(shadow.book)
    /\ deltas \in Seq(Deltas)
    /\ pushing \in Seq(Deltas)

\* An empty book is a good one.
LEMMA ClearIsGood == GoodBook(clear)
<1>1. EmptyLadder \in Ladders
  BY DEF EmptyLadder, Ladders
<1> QED
  BY <1>1 DEF GoodBook, clear

\* So is one taken from a snapshot, whether or not it was in range.
LEMMA SnapshotIsGood ==
    ASSUME NEW levels \in Snapshots, NEW valid \in BOOLEAN
    PROVE  GoodBook(apply_snapshot(levels, valid))
<1> DEFINE at(s, p) == CHOOSE l \in levels : l.side = s /\ l.price = p
           size(s, p) == IF \E l \in levels : l.side = s /\ l.price = p THEN at(s, p).size ELSE 0
           lad == [s \in Sides |-> [p \in Prices |-> size(s, p)]]
<1>0. levels \subseteq Changes
  BY DEF Snapshots
<1>1. \A s \in Sides, p \in Prices : size(s, p) \in Nat
  <2> SUFFICES ASSUME NEW s \in Sides, NEW p \in Prices,
                      \E l \in levels : l.side = s /\ l.price = p
               PROVE  at(s, p).size \in Nat
    OBVIOUS
  <2>1. at(s, p) \in levels
    OBVIOUS
  <2> HIDE DEF at
  <2> QED
    BY <1>0, <2>1, BooksAssumption
<1>2. apply_snapshot(levels, valid) = IF valid THEN [lad |-> lad, bbo |-> recompute_bbo(lad)] ELSE clear
  BY DEF apply_snapshot
<1> HIDE DEF size
<1>3. lad \in Ladders
  BY <1>1 DEF Ladders
<1> HIDE DEF lad
<1> QED
  BY <1>2, <1>3, ClearIsGood DEF GoodBook

\* The pieces of a snapshot are deltas.
LEMMA PiecesAreDeltas ==
    ASSUME NEW levels \in Snapshots
    PROVE  SnapshotDeltas(levels) \in Seq(Deltas)
<1> DEFINE n == Cardinality(levels)
           ls == SetToSeq(levels)
<1>0. levels \subseteq Changes /\ IsFiniteSet(levels)
  <2>1. levels \subseteq Changes
    BY DEF Snapshots
  <2> QED
    BY <2>1, BooksAssumption, FS_Subset
<1>1. n \in Nat /\ ExistsBijection(1 .. n, levels)
  BY <1>0, FS_CardinalityType
<1>2. \E f \in [1 .. n -> levels] : IsInjective(f)
  BY <1>1 DEF ExistsBijection, Bijection, Injection, IsInjective
<1>3. ls \in [1 .. n -> levels]
  BY <1>2 DEF SetToSeq
<1> HIDE DEF n, ls
<1>4. ls \in Seq(Changes) /\ \A i \in 1 .. n : ls[i] \in Changes
  BY <1>0, <1>1, <1>3
<1>5. CASE n <= 1
  <2>1. SnapshotDeltas(levels) = <<Delta("SNAPSHOT_BEGIN", ls), Delta("SNAPSHOT_END", <<>>)>>
    BY <1>5 DEF SnapshotDeltas, n, ls
  <2> QED
    BY <1>4, <2>1 DEF Delta, Deltas
<1>6. CASE ~(n <= 1)
  <2> DEFINE kind(i) == IF i = 1 THEN "SNAPSHOT_BEGIN"
                        ELSE IF i = n THEN "SNAPSHOT_END" ELSE "SNAPSHOT_CHUNK"
  <2>1. SnapshotDeltas(levels) = [i \in 1 .. n |-> Delta(kind(i), <<ls[i]>>)]
    BY <1>6 DEF SnapshotDeltas, n, ls
  <2>2. \A i \in 1 .. n : Delta(kind(i), <<ls[i]>>) \in Deltas
    BY <1>4 DEF Delta, Deltas
  <2> HIDE DEF kind
  <2> QED
    BY <1>1, <2>1, <2>2
<1> QED
  BY <1>5, <1>6

\* T2 starts from a good copy or an empty one, and ends with a good one.
LEMMA DeltaKeepsGood ==
    ASSUME NEW s, GoodBook(s.book), NEW d \in Deltas
    PROVE  GoodBook(apply_delta(s, d).book)
<1> DEFINE b == IF d.kind = "SNAPSHOT_BEGIN" THEN clear ELSE s.book
<1>1. GoodBook(b)
  BY ClearIsGood
<1>2. apply_delta(s, d).book = ApplyAll(b, d.changes)
  BY DEF apply_delta
<1> HIDE DEF b
<1>3. d.changes \in Seq(Changes)
  BY DEF Deltas
<1> QED
  BY <1>1, <1>2, <1>3, BatchKeepsBest DEF ApplyAll

\* For every feed, order of events and loss on the queue both books stay good:
\* the inductive invariant of the books.
THEOREM BooksSafe == BooksSpec => []BooksInv
<1>1. BooksInit => BooksInv
  BY ClearIsGood DEF BooksInit, BooksInv
<1>2. BooksInv /\ [BooksNext]_book_vars => BooksInv'
  <2> SUFFICES ASSUME BooksInv, [BooksNext]_book_vars PROVE BooksInv'
    OBVIOUS
  <2> USE DEF BooksInv
  <2>1. CASE T0Snapshot
    <3>1. PICK levels \in Snapshots, valid \in BOOLEAN :
             /\ book' = apply_snapshot(levels, valid)
             /\ pushing' = IF valid THEN SnapshotDeltas(levels) ELSE <<>>
      BY <2>1 DEF T0Snapshot
    <3>2. GoodBook(book')
      BY <3>1, SnapshotIsGood
    <3>3. pushing' \in Seq(Deltas)
      BY <3>1, PiecesAreDeltas
    <3> QED
      BY <2>1, <3>2, <3>3 DEF T0Snapshot, GoodBook
  <2>2. CASE T0PriceChange
    <3>1. PICK chs \in Batches :
             /\ book' = apply_price_change(book, chs)
             /\ pushing' = [i \in 1 .. Len(chs) |-> Delta("INCREMENTAL", <<chs[i]>>)]
      BY <2>2 DEF T0PriceChange
    <3>2. chs \in Seq(Changes)
      BY DEF Batches
    <3>3. GoodBook(book')
      BY <3>1, <3>2, BatchKeepsBest
    <3>4. \A i \in 1 .. Len(chs) : Delta("INCREMENTAL", <<chs[i]>>) \in Deltas
      BY <3>2 DEF Delta, Deltas
    <3>5. pushing' \in Seq(Deltas)
      BY <3>1, <3>2, <3>4
    <3> QED
      BY <2>2, <3>3, <3>5 DEF T0PriceChange, GoodBook
  <2>3. CASE push_delta
    <3>1. Head(pushing) \in Deltas /\ Tail(pushing) \in Seq(Deltas)
      BY <2>3 DEF push_delta
    <3>2. deltas' \in Seq(Deltas)
      BY <2>3, <3>1 DEF push_delta
    <3> QED
      BY <2>3, <3>1, <3>2 DEF push_delta, GoodBook
  <2>4. CASE T2AppliesDelta
    <3>1. Head(deltas) \in Deltas /\ Tail(deltas) \in Seq(Deltas)
      BY <2>4 DEF T2AppliesDelta
    <3>2. GoodBook(shadow'.book)
      BY <2>4, <3>1, DeltaKeepsGood DEF T2AppliesDelta
    <3> QED
      BY <2>4, <3>1, <3>2 DEF T2AppliesDelta, GoodBook
  <2>5. CASE T2TakesNote
    BY <2>5 DEF T2TakesNote, GoodBook
  <2>6. CASE UNCHANGED book_vars
    BY <2>6 DEF book_vars, GoodBook
  <2> QED
    BY <2>1, <2>2, <2>3, <2>4, <2>5, <2>6 DEF BooksNext
<1> QED
  BY <1>1, <1>2, PTL DEF BooksSpec

\* The best bid and ask that T0 publishes and T2 quotes on are the best of
\* their ladders, for every price range, feed and batch length, and whatever
\* the queue drops.
THEOREM BooksBboIsBest == BooksSpec => []BboIsBest
<1>1. BooksInv => BboIsBest
  BY DEF BooksInv, BboIsBest, GoodBook
<1> QED
  BY <1>1, BooksSafe, PTL
=============================================================================
