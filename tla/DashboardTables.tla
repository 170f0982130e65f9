-------------------------- MODULE DashboardTables --------------------------
(***************************************************************************)
(* What the six update functions of the dashboard take out of a snapshot.  *)
(* A snapshot is the sequence of its lines: a line is a marker, or a row   *)
(* of cells; a cell is a one-element sequence, or <<>> for an empty field. *)
(* Every function reads the snapshot from its first line.                  *)
(***************************************************************************)
EXTENDS Integers, Sequences

Mark(text) == [mark |-> text, cells |-> <<>>]

Row(cells) == [mark |-> "", cells |-> cells]

Cell(x) == <<x>>

Blank == <<>>

-----------------------------------------------------------------------------

\* The rows read after the first begin marker, up to the first end marker.
Section(lines, begin, end) ==
  LET Seen(mark, i) == \E j \in 1 .. i : lines[j].mark = mark
      rows[i \in 0 .. Len(lines)] ==
        IF i = 0
        THEN <<>>
        ELSE IF Seen(begin, i) /\ ~Seen(end, i) /\ lines[i].mark # begin
             THEN Append(rows[i - 1], lines[i])
             ELSE rows[i - 1]
  IN  rows[Len(lines)]

\* The cells of the first row read, for the labels.
FirstRow(lines, begin, end) == Head(Section(lines, begin, end)).cells

OrderRows(rows) ==
  [i \in DOMAIN rows |-> [id    |-> rows[i].cells[1][1],
                          price |-> rows[i].cells[2][1],
                          qty   |-> rows[i].cells[3][1]]]

UpdateBuyTable(lines)  == OrderRows(Section(lines, "BUY", "END_BUY"))

UpdateSellTable(lines) == OrderRows(Section(lines, "SELL", "END_SELL"))

UpdateTradeTable(lines) ==
  LET rows == Section(lines, "TRADES", "END_TRADES")
  IN  [i \in DOMAIN rows |-> [price |-> rows[i].cells[1][1], qty |-> rows[i].cells[2][1]]]

\* Empty lines are skipped; there are none in a snapshot.
DepthRows(depth) ==
  [i \in DOMAIN depth |-> [buyQty   |-> depth[i].cells[1], bidPrice |-> depth[i].cells[2],
                           askPrice |-> depth[i].cells[3], sellQty  |-> depth[i].cells[4]]]

UpdateDepthTable(lines) == DepthRows(Section(lines, "DEPTH", "END_DEPTH"))

UpdateMarketInfo(lines) ==
  LET row == FirstRow(lines, "MARKET", "END_MARKET")
  IN  [bestBid |-> row[1][1], bestAsk |-> row[2][1],
       spread |-> row[3][1], position |-> row[4][1]]

UpdateStats(lines) ==
  LET row == FirstRow(lines, "STATS", "END_STATS")
  IN  [totalTrades |-> row[1][1], totalVolume |-> row[2][1],
       vwap |-> row[3][1], avgPrice |-> row[4][1]]

=============================================================================
