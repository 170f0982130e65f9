------------------------------ MODULE Snapshot ------------------------------
(***************************************************************************)
(* getOrderBookSnapshot and the statistics it calls, on the book of        *)
(* HeapBook with the positions beside it, and what a dashboard shows of    *)
(* it.  Prices are counted in the unit of the sixth decimal, which is what *)
(* a client's order and a snapshot print of a double, so printing a price  *)
(* loses nothing; quotients are exact here (see Positions), and the labels *)
(* round them.  Volumes are ints of IntBits bits.                          *)
(***************************************************************************)
EXTENDS HeapBook, Positions, DashboardTables, LatencyStats

CONSTANTS
  TradeWindow,  \* the latest trades a snapshot carries: 100 in the code
  IntBits       \* the width of an int: 32 in the code

ASSUME WindowAssumption == TradeWindow \in Nat

VARIABLE clientPositions   \* total: an absent client reads as NoPosition

snapshotVars == <<vars, clientPositions>>

SnapshotInit == Init /\ clientPositions = [c \in ClientIds |-> NoPosition]

TradeAndPositions ==
  LET topBuy  == Top(buyOrders)
      topSell == Top(sellOrders)
  IN  /\ MatchOrders
      /\ clientPositions' = AfterTrade(clientPositions, topBuy.clientId, topSell.clientId,
                                       topSell.price, TradedQty(topBuy, topSell))

BookOnly ==
  \/ \E c \in ClientIds, type \in OrderType, price \in Prices, quantity \in Quantities :
       AddOrder(c, type, price, quantity)
  \/ EndMatch
  \/ \E orderId \in 0 .. nextOrderId : CancelOrder(orderId)

SnapshotNext == TradeAndPositions \/ (BookOnly /\ UNCHANGED clientPositions)

SnapshotSpec == SnapshotInit /\ [][SnapshotNext]_snapshotVars

-----------------------------------------------------------------------------
(* Plausible bugs, each in place of the operator its comment names.        *)

\* BuyRows: the vector of the heap printed as it lies there.
BuyRowsUndrained == buyOrders

\* Volume: the trades of the snapshot only.
VolumeOfWindow == SumFunction([i \in Max({1, Len(trades) - TradeWindow + 1}) .. Len(trades) |->
                                 trades[i].quantity])

\* MayRead: without the lock.
MayReadUnlocked == TRUE

-----------------------------------------------------------------------------
(* The statistics.                                                         *)

\* A value stored in an int.
AsInt(n) == ((n + 2 ^ (IntBits - 1)) % 2 ^ IntBits) - 2 ^ (IntBits - 1)

Fits(n) == AsInt(n) = n

Volume == SumFunction([i \in DOMAIN trades |-> trades[i].quantity])

GetTotalVolume == AsInt(Volume)

GetTotalTrades == AsInt(Len(trades))

GetVWAP ==
  IF trades = <<>>
  THEN Whole(0)
  ELSE DividedBy(Whole(SumFunction([i \in DOMAIN trades |->
                                      trades[i].price * trades[i].quantity])),
                 AsInt(Volume))

GetBestBid == IF buyOrders = <<>> THEN 0 ELSE Top(buyOrders).price

GetBestAsk == IF sellOrders = <<>> THEN 0 ELSE Top(sellOrders).price

GetSpread ==
  IF buyOrders = <<>> \/ sellOrders = <<>> THEN 0 ELSE GetBestAsk - GetBestBid

GetCurrentPosition(c) == clientPositions[c].quantity

GetAveragePrice(c) == clientPositions[c].averagePrice

-----------------------------------------------------------------------------
(* The snapshot.                                                           *)

BuyRows  == Drained("BUY", buyOrders)
SellRows == Drained("SELL", sellOrders)

PrintedOrders(rows) ==
  [i \in DOMAIN rows |-> Row(<<Cell(rows[i].id), Cell(rows[i].price), Cell(rows[i].quantity)>>)]

\* The latest trades, the oldest of them first.
RecentTrades == SubSeq(trades, Max({1, Len(trades) - TradeWindow + 1}), Len(trades))

PrintedTrades ==
  [i \in DOMAIN RecentTrades |->
     Row(<<Cell(RecentTrades[i].price), Cell(RecentTrades[i].quantity)>>)]

LevelQty(resting, price) ==
  AsInt(SumFunction([o \in {r \in resting : r.price = price} |-> o.quantity]))

\* The levels of one side, each the pair of its price and its total quantity;
\* `sign` is 1 for rising prices and -1 for falling ones.
Levels(queue, sign) ==
  LET resting == ToSet(queue)
      prices  == {o.price : o \in resting}
      Nth(i)  == CHOOSE p \in prices :
                   Cardinality({q \in prices : sign * q < sign * p}) = i - 1
  IN  [i \in 1 .. Cardinality(prices) |-> <<Nth(i), LevelQty(resting, Nth(i))>>]

\* Both sides next to each other, the best levels first.
GetMarketDepthSnapshot ==
  LET buyDepth  == Levels(buyOrders, -1)
      sellDepth == Levels(sellOrders, 1)
      CellOf(depth, i, field) == IF i \in DOMAIN depth THEN Cell(depth[i][field]) ELSE Blank
  IN  [i \in DOMAIN buyDepth \cup DOMAIN sellDepth |->
         Row(<<CellOf(buyDepth, i, 2), CellOf(buyDepth, i, 1),
               CellOf(sellDepth, i, 1), CellOf(sellDepth, i, 2)>>)]

\* Under engineMutex, so between two calls of the engine.
MayRead == ~matching

Framed(begin, rows, end) == <<Mark(begin)>> \o rows \o <<Mark(end)>>

\* The latencies at the end of the row of statistics are LatencyStats' subject.
GetOrderBookSnapshot(c) ==
  LET stats  == Row(<<Cell(GetTotalTrades), Cell(GetTotalVolume), Cell(GetVWAP),
                      Cell(GetAveragePrice(c))>>)
      market == Row(<<Cell(GetBestBid), Cell(GetBestAsk), Cell(GetSpread),
                      Cell(GetCurrentPosition(c))>>)
  IN  Framed("BUY", PrintedOrders(BuyRows), "END_BUY")
      \o Framed("SELL", PrintedOrders(SellRows), "END_SELL")
      \o Framed("TRADES", PrintedTrades, "END_TRADES")
      \o Framed("STATS", <<stats>>, "END_STATS")
      \o Framed("MARKET", <<market>>, "END_MARKET")
      \o Framed("DEPTH", GetMarketDepthSnapshot, "END_DEPTH")
      \o <<Mark("END_SNAPSHOT")>>

View(c) ==
  LET lines == GetOrderBookSnapshot(c)
  IN  [buy |-> UpdateBuyTable(lines), sell |-> UpdateSellTable(lines),
       trades |-> UpdateTradeTable(lines), depth |-> UpdateDepthTable(lines),
       market |-> UpdateMarketInfo(lines), stats |-> UpdateStats(lines)]

-----------------------------------------------------------------------------
(* What a dashboard shows, whenever a snapshot may be taken.               *)

\* `table` shows the open orders of one side; `sign` as in Levels.
Lists(table, side, sign) ==
  LET open == {i \in OpenIds : ledger[i].type = side}
  IN  /\ Len(table) = Cardinality(open)
      /\ {table[i] : i \in DOMAIN table} =
           {[id |-> i, price |-> ledger[i].price,
             qty |-> ledger[i].quantity - ledger[i].filled] : i \in open}
      /\ \A i \in 2 .. Len(table) : sign * table[i - 1].price <= sign * table[i].price

\* Each order table lists every order that rests on its side, with what is
\* left of it, once, the best prices first: no row is lost between the heaps,
\* the text and the table.
TablesListBook ==
  MayRead => \A c \in ClientIds :
    LET view == View(c)
    IN  Lists(view.buy, "BUY", -1) /\ Lists(view.sell, "SELL", 1)

\* What an order table shows at one price, in all.
SumAt(table, price) ==
  SumFunction([i \in {j \in DOMAIN table : table[j].price = price} |-> table[i].qty])

\* The depth table, the order tables and the labels of one view agree: every
\* level that fits its int adds up, the first level is what the best bid and ask
\* say, and with both sides there is a spread, which is positive: the lock keeps
\* the book from being read while it is being matched.
DepthAgrees ==
  MayRead => \A c \in ClientIds :
    LET view  == View(c)
        depth == view.depth
    IN  /\ \A p \in Prices :
             /\ Fits(SumAt(view.buy, p)) =>
                  SumAt(view.buy, p) =
                    SumFunction([i \in {j \in DOMAIN depth : depth[j].bidPrice = Cell(p)} |->
                                   depth[i].buyQty[1]])
             /\ Fits(SumAt(view.sell, p)) =>
                  SumAt(view.sell, p) =
                    SumFunction([i \in {j \in DOMAIN depth : depth[j].askPrice = Cell(p)} |->
                                   depth[i].sellQty[1]])
        /\ view.buy # <<>>  => depth[1].bidPrice = Cell(view.market.bestBid)
        /\ view.sell # <<>> => depth[1].askPrice = Cell(view.market.bestAsk)
        /\ view.buy # <<>> /\ view.sell # <<>> => view.market.spread > 0

\* The trade table is the end of the tape, while the totals count all of it:
\* every quantity executed, once for the buyer and once for the seller, as long
\* as the number of trades and the volume fit their ints.
TotalsCountTheTape ==
  MayRead => \A c \in ClientIds :
    LET view == View(c)
    IN  /\ Fits(Len(trades)) => view.stats.totalTrades = Len(trades)
        /\ Fits(Volume) => 2 * view.stats.totalVolume =
                             SumFunction([i \in DOMAIN ledger |-> ledger[i].filled])
        /\ \A i \in 0 .. Len(view.trades) - 1 :
             view.trades[Len(view.trades) - i].price = trades[Len(trades) - i].price
        /\ Len(view.trades) = Min({TradeWindow, Len(trades)})

\* Comparisons of an average with a price.
AtLeast(a, price) == a.den > 0 /\ a.num >= price * a.den

AtMost(a, price) == a.den > 0 /\ a.num <= price * a.den

\* Once there are trades, none of a negative quantity, and their volume fits its
\* int: the volume-weighted average price lies between the lowest and the highest
\* price traded, or is 0/0 when all of them were of quantity 0.
VwapWithinPrices ==
  (/\ MayRead
   /\ trades # <<>> /\ (\A i \in DOMAIN trades : trades[i].quantity >= 0)
   /\ Fits(Volume))
    => \A c \in ClientIds :
         LET vwap   == View(c).stats.vwap
             traded == {trades[i].price : i \in DOMAIN trades}
         IN  IF Volume > 0
             THEN AtLeast(vwap, Min(traded)) /\ AtMost(vwap, Max(traded))
             ELSE vwap = [num |-> 0, den |-> 0]

\* The P95 latency of a snapshot is a quantile of the samples taken so far.  How
\* many there are and which depends on the clock and on how long the server has
\* been running, not on the book: all of them are considered.
P95IsQuantile == MayRead => AlwaysQuantile

=============================================================================
