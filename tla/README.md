# Verification of the distributed electronic trading platform

TLA+ models, TLC runs and TLAPS proofs about the C++ program in `src/`: a TCP
server with one limit order book, the sessions of its clients, a thread that
publishes snapshots of the book, and a Qt dashboard. Paths below are relative to
`src/src/` unless they start with `src/`.

## 1. The system

| Part | State | Operations | Interacts with |
|---|---|---|---|
| `OrderBook` (`server/OrderBook`, `server/Comparators.h`) | two `std::priority_queue`s of orders, compared by price only | `addOrder`, `cancelOrder` (rebuilds both queues) | owned by the engine |
| `MatchEngine` (`server/MatchingEngine`) | the book, `trades`, `clientPositions`, `nextOrderId`, `engineMutex` | `processOrder`, `matchOrders`, `cancelOrder` | called by every session's handler, on any I/O thread |
| positions | `PositionInfo` per client: quantity, average price, realized profit | updated inside the matching loop, through two references | shown in snapshots |
| benchmark | atomic `totalOrdersProcessed`, `benchmarkStart`, `latencySamples` | stamped and compared in `processOrder`, partly outside the mutex | report on the console |
| snapshot and statistics | none of its own | `getOrderBookSnapshot` and the getters it calls, under `engineMutex` | called by the publisher |
| message format (`network/MessageParser`, `network/TcpClient`) | none | `sendOrder`/`sendCancelOrder` format, `parse` reads | client to session |
| `ClientSession` | `readBuffer`, `outgoingMessages`, `writeInProgress`, `sendMutex` | `doRead`, `sendMessage`, `doWrite`, `stop` | engine; publisher; socket |
| `TcpServer` (`network/TcpServer`) | `clients`, `clientsMutex`, `nextClientId`, the I/O threads, `publisherThread` | `startAccept`, `publishSnapshots`, `start`, destructor | sessions, engine |
| `TcpClient` | the socket, `receiveBuffer` | `connect`, `sendMessage`, `receiveMessage` | server |
| dashboard (`main.cpp`) | what the tables show, `running`, the listener thread | the buttons, `listenToServer`, the queued `update*` calls | `TcpClient` |
| load tester (`src/TradingLoadTester`) | the start time | five clients that send 50000 orders each and never read; a report | server |

Calls: a session reads a line and calls `cancelOrder` or `processOrder`; both
take `engineMutex`. Every 50 ms the publisher walks over the sessions under
`clientsMutex` and asks each for a snapshot (`engineMutex`), which it queues for
writing (`sendMutex`). The dashboard's listener thread cuts the byte stream into
snapshots and hands each to the GUI thread by a queued call.

### What is hard about it

* The engine is called from several I/O threads. Most of `processOrder` runs
  under the mutex, but the order counter, the benchmark start and the report's
  condition do not belong to one critical section.
* The matching loop pops and pushes orders back; an order is executed in several
  parts, between which other sessions add and cancel orders.
* Nothing checks what clients send: quantities may be zero or negative, and a
  client may trade with itself.
* The accounting divides by a quantity that may be zero.
* A session's write queue is filled by the publisher and drained by completion
  handlers on other threads; only some accesses are under `sendMutex`.
* Sessions are never removed; a handler that throws ends its I/O thread and, as
  nothing catches the exception, the process.
* What a user sees is old: between the table a cancel is read off and the engine
  that gets it lie a queue of snapshots and a line on its way.
* The stream of snapshots is cut anywhere by reads and may end anywhere.

### What makes each part correct

* Book: the best price trades first; nothing that could trade is left when the
  mutex is free; no quantity is lost or made up; a cancelled order never trades.
* Positions: they agree with the executions; the average price is the cost basis.
* Benchmark: one report, for the stated number of orders, from a recorded start.
* Session: messages leave in order and whole, one write at a time, none forgotten.
* Server: each client has its own id; publisher and handlers never wait on each
  other; a client that leaves or does not read does not stop the others.
* Dashboard: it shows whole snapshots, in the order they were taken.

## 2. Modules

| Module | What it is |
|---|---|
| `Positions` | pure: `PositionInfo` and what one trade does to buyer and seller. Doubles are exact fractions; a denominator 0 is +inf, -inf or NaN |
| `OrderBook` | pure: comparators, `top()` of each queue, the match condition, the traded quantity, push-back of a remainder, removal by id |
| `MatchingEngine` | the engine under concurrent calls: one action per step of `processOrder`, per iteration of `matchOrders`, and per `cancelOrder` |
| `Exchange` | abstract specification: a serial exchange, a register of orders and the tape of trades, without queues, threads or mutex |
| `PriorityQueue` | pure: the binary heap of `std::priority_queue`, push, pop, top, for any comparator |
| `HeapBook` | the book under the mutex with both queues as heaps, including the rebuild in `cancelOrder`; implements `Exchange` |
| `EngineAudit` | `MatchingEngine` with history variables (per order: executed quantity, cost, whether cancelled) and the refinement of `Exchange` |
| `Totals` | lemmas on sums over finite sets, which the two modules below share |
| `EngineProofs` | proofs about `MatchingEngine` (types, the uncrossed book, ids, reports) and `EngineAudit` (quantities, cancels, limits, the refinement of `Exchange`, positions, average prices) |
| `SnapshotProofs` | proofs about `PriorityQueue` and `HeapBook` (heaps, the refinement of `Exchange`), `LatencyStats`, and `Snapshot` with `DashboardTables` |
| `ClientSessionProofs` | proofs about `SessionWriter` and `OrderEntry` as parts of `ClientSession` |
| `ServerProofs`, `DashboardProofs`, `LoadTesterProofs`, `TradingSystemProofs` | proofs about the module of that name |
| `Snapshot` | `getOrderBookSnapshot`, the depth and every statistic, on the heaps of `HeapBook` and the positions of `Positions`, and the view a dashboard fills from it |
| `DashboardTables` | pure: what the six `update*` functions take out of the lines of a snapshot |
| `LatencyStats` | pure: the 95th percentile of the recorded latencies |
| `SnapshotChannel` | abstract specification: a FIFO channel of snapshots that may break, and may tear one while a backlog waits |
| `SessionWriter` | the write path of a session on two threads; implements `SnapshotChannel` |
| `ClientSession` | one session with its dashboard: `SessionWriter` and `OrderEntry` in one process, which ends, and its connections with it, when an exception leaves this or another session's read handler |
| `Server` | the accept chain, the client list, the read chains on a pool of threads, and the publisher, with the mutexes they share |
| `OrderEntry` | from the buttons over the line sent to the call the engine gets |
| `Dashboard` | the byte stream, the listener thread, the queued updates, the end of the window |
| `LoadTester` | the workers of the load tester against a server, with bounded buffers in both directions |
| `TradingSystem` | dashboards, lines, exchange and snapshots composed, on top of `Exchange` |
| `MC...` | values of the constants for TLC |

Each component module has a section of plausible bugs: operators no specification
uses, each of which can take the place of one operator of the module to confirm
that the properties notice it (`PROJECT.json`, "mutants").

### How `MatchingEngine` corresponds to the code

A session starts its next read only when its handler has returned, so the callers
of the engine are identified with the clients; `pc[c]` says where the handler of
client `c` stands:

| Action | Code (`server/MatchingEngine.cpp`) |
|---|---|
| `EnterProcessOrder(c)`: idle to counted | line 9, the counter is incremented, before the mutex |
| `StampBenchmarkStart(c)`: counted to locking | lines 11-14, the counter is read a second time |
| `BookOrder(c)`: locking to matching | lines 18-22: lock, server-side id, `addOrder` |
| `MatchOrders(c)` | one iteration of the loop, lines 89-144: positions, trade, pops, push-backs |
| `FinishOrder(c)`: matching to idle | the loop ends (87, 148), latency, the report's condition (38), unlock |
| `CancelOrder(c, id)` | lines 67-83: all under the mutex, so one step |

A priority queue is the set of the orders in it; they differ in their ids (which
is itself checked and proved, `UniqueIds`). `top()` is any order that no other one
beats by the comparator: the order among equal prices depends on how the heap
was built, and the model leaves it open. What holds in the model holds for every
heap.

`HeapBook` closes that gap from the other side: its queues are the vectors of the
heaps, and `push`, `pop` and the drain-and-refill of `OrderBook::cancelOrder` are
the algorithms of the standard library (libstdc++ and the Microsoft library sink
and raise elements in the same order). `Rebuilt` is that drain-and-refill of one queue,
`Refilled` one turn of its loop. It shows that a heap gives what the set
model assumes of `top()`, and it decides what the set model leaves open, the order
among equal prices.

Left out: the symbol (the book ignores it), the text of console messages, the
rounding of doubles, and `int` overflow of single amounts, which the bounds do not
reach (sums of volumes are in `Snapshot`). `unrealizedPnL` and `currentPosition` are
never written by the code.

### How the other modules correspond to the code

`SessionWriter` (`server/ClientSession.cpp`). One snapshot is a number.

| Action | Code |
|---|---|
| `LockToPush`, `PushMessage` | lines 24-38 of `sendMessage`: the mutex, the push, the flag. Two steps, because the push is what a read outside the mutex can run into |
| `StartWrite`, `StartNextWrite(i)` | lines 40-57 and 82-85: `front()` without the mutex, `async_write` |
| `Transmit(i)`, `WriteFails(i)`, `BreakSocket` | the connection |
| `HandleSuccess(i)`, `HandleFailure(i)` | the completion handler, lines 57-80, under the mutex |

The read of `front()` races with a push. By the language that is undefined; what
the build can produce depends on the library. The project is built with MSVC
(`src/CMakePresets.json`), whose `std::deque` keeps one `std::string` per block and a
table of blocks, 8 at first. A push that finds room in the table leaves the
front alone, and the read is as good as one before the push; a push that does not
moves to a larger table and frees the old one, and the read may return anything
(`Garbage`). `MapSize` is that first table. `SnapshotChannel` therefore may hand out a torn snapshot,
but only while `Backlog` snapshots, here all but one of the table's places, wait.

`Server` (`network/TcpServer.cpp`, `server/ClientSession.cpp`). `thread[t]` says which
handler an I/O thread runs and how far it is: `AcceptDone`, `TakeId`, `BumpId`
(`nextClientId++` on a plain `int` is a read and a write), `ListClient`, `StartSession`,
`StartAccept` are lines 131-159; `ReadLine`, `CallEngine`, `EngineDone`, `DoRead`,
`ReadFails` are lines 95-125 of `doRead`; `BeginWalk`, `SendSnapshot`, `EndWalk` the
publisher's loop. `start()` joins the I/O threads, so it returns, and the destructor
runs, only after a failed bind (`BindFails`, `Exited`). An accept that fails
only starts the next one and changes nothing.

`Dashboard` (`network/TcpClient.cpp`, `main.cpp`). A snapshot is its version, in two parts
so that a read can end inside it. `ReadSome` is one read of `read_until`,
`TakeSnapshot` the rest of `receiveMessage`, `PostUpdate` the queued call and the loop's
condition, `ReceiveThrows` the exception that ends the loop; `Update` runs one queued
call, `CloseWindow` and `Join` are the end of `main` and the destructor,
`ClickWithoutServer` the exception that leaves a button's slot. `running` is a plain
`bool` written by one thread and read by another; the loop calls library functions
in between, so the build does read it again each time, as the model does.

`OrderEntry`. A text is the sequence of the pieces between its commas, a piece a name or a
number. `ClickLimit`, `ClickMarket` and `ClickCancel` are the buttons (`main.cpp` 441-553). The input
fields are plain `QLineEdit`s: `Price` and `Number` are `toDouble` and `toInt`, 0 for a word
and, as an `int`, for a number that is none. `OrderLine` puts the line together with
`std::to_string`, which keeps six decimals of a price (`Printed`). `ReadHandler` is the session's
dispatch with `MessageParser::parse`: `Tokens` splits the line, `Throws` says when the
count of fields, `stoi` or `stod` throws, and `CallOf` which call the engine gets otherwise.
`OtherHandler` is the read handler of another session at a line that throws, which
ends the process for all. `entered` records what the user typed. What the log prints of it is
left out: it shows six significant digits of the price (section 3, "Seen while modelling").

`Snapshot`, `DashboardTables`. A snapshot is the sequence of its lines, a line a marker
or a row of cells; `Framed` puts the two markers around the rows of one part, and `Section`
is the reading loop that all six `update*` functions begin with. `getOrderBookSnapshot` runs under the mutex, so it is an operator on
the state, read whenever the book is not being matched (`MayRead`); the properties are
about what the tables and labels show of it. Volumes and levels are ints of `IntBits` bits, and
an average over no volume at all is the fraction 0/0, the NaN of the code.

`LatencyStats` keeps the vector of samples as how often each value occurs: it is only
sorted and indexed. `LoadTester` counts orders and snapshots in the buffers of a
connection; a session reads on although its snapshots do not leave, which is what
`doRead` and `doWrite` being independent chains means.

`TradingSystem` takes each part as what its own module shows of it: the engine is the
serial `Exchange` (`ImplementsExchange`, `HeapsImplementExchange`), a session executes the lines of its client in
order (`CommandsInOrder`), snapshots are whole, uncrossed and in order
(`DepthAgrees`, `ImplementsChannel`, `SnapshotsWhole`, `ViewMovesForward`). Whole they are as long as fewer
snapshots wait for a dashboard than tear one: a dashboard reads all the time, and two
on the way (`MaxQueued`) are far from seven.

## 3. Runs

Two sessions and two price levels: enough for a buyer, a seller, a self-trade,
a better and a worse price, and two handlers racing for the mutex. Three orders
are enough for an order executed in two parts, for a cancel between the parts,
and for a threshold that two calls pass together.

| Run | Instance | Shows |
|---|---|---|
| `engine` | 2 clients, 2 prices, quantities -1, 0, 1, 2; 3 orders; report at 2 | `TypeOK`: types, and each order in the queue of its side; `UniqueIds`; `UncrossedWhenUnlocked`: whoever takes the mutex finds best bid below best ask; `OnlyIncomingCrosses`: no two orders that rested before match each other; `ReportsBounded`: at most one report per client |
| `audit` | quantities 0, 1, 2; 3 orders | `NoQuantityLost`, `PositionsMatchFills`, `LimitsHonoured`, `CostBasisIdentity`, `CancelIsFinal`; `ImplementsExchange`: every step is a step of the serial `Exchange` or none |
| `engine_liveness` | quantities -1, 0, 1, 2; 3 orders; one price | `ExchangeProgress`: the fairness of the serial exchange, a book that can trade does trade; `OrderHandled`: the loop ends and every call returns |
| `heap_book` | one client, quantities 1, 2, and 0 in the first order; 4 orders, a window of 1 trade, ints of 3 bits | `TopIsBest`: the front of each heap is a best price; `HeapsImplementExchange`; of the view a dashboard fills from a snapshot: `TablesListBook`, `DepthAgrees`, `TotalsCountTheTape`, `VwapWithinPrices`; `P95IsQuantile`, for up to 21 samples of each of two values |
| `client_session` | 9 snapshots, a table of 8; 2 clicks; a price that is rounded, a word, no text, the least `int` and a number that is none; two lines of other clients | `OneWriteInFlight`, `NoLostWakeup`; `ImplementsChannel`: a FIFO channel that may break, and tears a snapshot only behind a backlog of 7; `DeliversAll`: its fairness; `EngineGetsWhatWasEntered`; `LinesParse`: no line of a dashboard throws |
| `server` | 2 clients, 2 threads, 2 and 1 commands | `ClientIdsUnique`, `OneHandlerPerSession`, `CommandsInOrder`, `WalkUndisturbed`; `CommandsShown`: a command is executed and shown to its sender; no deadlock |
| `dashboard` | 2 changes of the book, 3 parts on the way, 2 queued calls | `SnapshotsWhole`, `ViewMovesForward`, `ViewCatchesUp`, `WindowCloses` |
| `load_test` | 2 workers, 3 orders, buffers of 2 | `TestEnds`, `ReportAfterLastOrder` |
| `trading_system` | 2 dashboards, 2 prices, 2 orders, 1 cancel, 2 snapshots on the way | `CancelMeansWhatWasSeen`, `OrdersNeverReturn`; `ViewsConverge`: all dashboards come to show the book the engine holds |
| `time_priority` | as `heap_book` | a violation, see below |
| `report_printed` | report at 2, 3 orders | a violation, see below |
| `report_start` | report at 2, 3 orders | a violation, see below |

Ids and the counters are bounded by `MaxOrders`, the only bound in a guard of the
engine: it limits how often `processOrder` is called. Symmetry over the clients is
used in `engine` and `audit`, which have no liveness properties. The quantities of
`audit` include 0, with which an average price may be NaN, so `CostBasisIdentity`
speaks of states in which all quantities are positive, and with a negative one the
traded quantity turns a purchase into a sale, so that a limit means its opposite and
`LimitsHonoured` speaks of states without; `engine` has negative quantities, and the proofs
of section 4 are for every integer. One price is enough in `engine_liveness`: whether the loop goes on, and
for how long, depends on what is left of the quantities. The accounts and
the heaps are combined for one client only, since the
cells of a snapshot that belong to a client copy what `audit` checks for two.

Fairness. A handler that runs goes on running (weak fairness of the steps after
entry): it is straight-line code on a thread of the pool. `BookOrder` waits for
`engineMutex`, which is released again and again, so its fairness is strong: a
`std::mutex` does not promise it, but the platform's locks let a waiter through
eventually. No fairness is assumed of clients.

Four orders are the fewest for a heap in which a sinking hole chooses between two
children (the drain of a cancel sinks it).

Bounds of the other modules, each a conjunct of a guard, and why they are enough:

* `Snapshot`: 4 orders make two trades, so that the tape is longer than the window
  of 1 (`TradeWindow`, 100 in the code), and two orders on one level and two levels on
  one side occur. With `IntBits` 3 an `int` ends at 3, so two orders of 2 on one level, and two
  such trades, outgrow it. The state constraint `ZeroIsFirst` keeps the quantity 0 to
  the first order: tapes that begin with a trade of 0, or have no other, occur, and the run
  stays within a few minutes. `MaxSamples` 21 goes past 20,
  where the index of the percentile first leaves the last sample.
* `SessionWriter`: `MaxMessages` snapshots. With a table of 8, the ninth can meet a read of the
  front while seven wait, which is the first time the table grows; the run reaches
  that, and with a `Backlog` of 8 in place of 7 `ImplementsChannel` fails.
* `OrderEntry`: `MaxClicks` 2; a click depends on no more than the text fields it reads.
  `IntMax` 5 is small so that a number beyond the ints is a small number.
* `Server`: `MaxCommands` lines per client. Two are needed for a command that overtakes
  another one; two clients and two threads for two accept handlers, two read
  handlers, or one of each at once. With these bounds a client may also send before
  it is accepted and leave at any time. `start()` makes at least two threads.
* `Dashboard`: `MaxVersion`, `MaxInFlight` (a snapshot and a half, so that reads end inside
  the next one), `MaxPending` (two queued calls, so that they could change places).
* `LoadTester`: more orders than the buffer (`BufferSize`) holds, so that workers block.
* `TradingSystem`: `MaxEntered`, `MaxCancels`, `MaxQueued`: two orders trade in part, the cancel may be
  late for either, and two snapshots on the way leave a view two states old. The
  quantities are 1 and 2, so that orders trade in part. With a negative one, which the proof
  covers, the run takes twice as long and shows the same.

Fairness of the other modules:

* `SessionWriter`: weak for every step of a thread that runs and for the connection (a
  peer that reads takes what is written), strong for the completion handler, which waits for
  a mutex the publisher takes again and again. No fairness of publishing. In
  `ClientSession` the same, while the process lives.
* `Server`: weak for handlers that run, strong for those that wait for a mutex or for a
  free thread, and for the publisher's two mutexes. The fairness is for the pool, not
  for each client; that suffices as the lines sent are bounded. Clients owe
  nothing: they may leave, and need not send or connect.
* `Dashboard`: weak for the listener, the GUI thread and the destructor's join; and for
  `Publish`, since a server that is up publishes every 50 ms whether anything changed or
  not. Nobody need close the window, the server need not end. `WindowCloses`
  depends on that fairness: the listener looks at `running` only after a read.
* `LoadTester`: weak for workers, for a session's reads while the server is up, and for the
  join. None for snapshots, and none for the end of the server.
* `TradingSystem`: weak for handling a line, trading, publishing and showing, which are
  what `server`, `engine_liveness` and `dashboard` show of the parts.

The deadlock check is off where the system may stop: in `client_session` (a session
with nothing to write, clicks used up, a server that ended), `dashboard` (a closed or
crashed window) and `load_test` (a test that is over). Everywhere else it is on: a client
may always send a cancel, the publisher goes on for ever, a server that failed to
bind stutters by `Exited`.

### Disagreements found

* `time_priority`: the README promises "Price-Time Priority (FIFO) Matching". The
  comparators know only the price, a heap does not keep the order of equal
  elements, and a remainder is pushed back as a new element. In the run a
  later order of one side and price is executed while an earlier one rests.
* `report_printed`: the counter is compared with the threshold after the match,
  when other calls have moved it on. Two calls together can pass it unseen. The
  benchmark the README advertises ("under concurrent workloads") then
  prints nothing; the load tester sends 250000 orders from five clients, past the
  threshold of 122000.
* `report_start`: the counter is incremented and read again; when another call
  increments it in between nobody records `benchmarkStart`, and the runtime and rates
  of the report are meaningless.

Seen while modelling, without a run of their own:

* `doWrite` reads the front of the queue after the mutex was released
  (`server/ClientSession.cpp` 56); a push that grows the deque at that moment frees the table
  the read goes through, and what is sent may be no snapshot. It takes a client that reads
  slowly enough for seven snapshots to wait, which the load tester's, which never read,
  do. `ImplementsChannel` says that it takes no less.
* The volume of all trades is summed in an `int` (`server/MatchingEngine.cpp` 349). Past its
  width the total and the average price mean nothing, and the average may leave the
  range of the prices traded; two trades of 2000000000, which the dashboard lets a user
  enter, are enough. `TotalsCountTheTape`, `DepthAgrees` and `VwapWithinPrices` speak of the sums
  that fit.
* The dashboard sends 0 for a quantity that is a word. Once two such orders met, and until a
  trade has a quantity, the average price is 0/0 (`server/MatchingEngine.cpp` 375), and the
  dashboards show `nan`. `VwapWithinPrices` says so of exactly those tapes.
* The dashboard sends `MKT_BUY`, and the parser takes everything but `BUY` for a sale
  (`network/MessageParser.cpp` 30): a market buy is a limit sale at price 0.
  `EngineGetsWhatWasEntered` claims no side for that button. A market sale is parsed as what
  it says, though what is left of it rests at price 0.
* A line that no dashboard prints, of any program that connects, makes `stoi`, `stod` or the
  count of fields throw in a read handler; nothing catches that, and the server ends for
  all (`OtherHandler`). `LinesParse` is about the dashboard's own lines.
* The log prints a price with `QString::number`, six significant digits: 12345.67 is
  logged as 12345.7 and sent as 12345.670000 (`main.cpp` 461, 488).
* `std::to_string` prints the decimal point of the current locale. The program sets none, so
  it is a point; with a comma every order line would have five fields (the plausible
  bug `PriceTextLocal`) and end the server.
* The load tester's report counts the orders of workers that could not connect, and
  computes its rate from them (`src/TradingLoadTester/main.cpp` 139).

## 4. Proofs

Every safety invariant, action property and refinement that a run checks is also a theorem
about the whole specification, for all values of the constants that satisfy the named
assumptions; the run shows it on a small instance. No bound of section 3 is
used. (`Totals` holds lemmas only, and `P95IsAQuantile`, on which `SnapshotP95` rests, is about
the constants alone.)

| Module | Theorem | States |
|---|---|---|
| `EngineProofs` | `TypeCorrect` | `TypeOK` |
| | `BookUncrossedWhenUnlocked` | `UncrossedWhenUnlocked` |
| | `OnlyTheIncomingOrderTrades` | `OnlyIncomingCrosses` |
| | `IdsStayUnique` | `UniqueIds` |
| | `ReportsPerClient` | `ReportsBounded` |
| | `QuantityIsConserved` | `NoQuantityLost` |
| | `CancelsAreFinal` | `CancelIsFinal` |
| | `LimitsAreHonoured` | `LimitsHonoured` |
| | `EngineImplementsExchange` | `ImplementsExchange`: the concurrent engine implements the serial one |
| | `PositionsAgreeWithFills` | `PositionsMatchFills` |
| | `AveragePriceIsCostBasis` | `CostBasisIdentity` |
| `SnapshotProofs` | `FrontIsBest` | `TopIsBest` |
| | `HeapsAreExchange` | `HeapsImplementExchange`: the heaps implement the serial exchange |
| | `TablesListTheBook` | `TablesListBook` |
| | `DepthsAgree` | `DepthAgrees` |
| | `TotalsCount` | `TotalsCountTheTape` |
| | `VwapIsAnAverage` | `VwapWithinPrices` |
| | `P95IsAQuantile`, `SnapshotP95` | `AlwaysQuantile`, `P95IsQuantile` |
| `ClientSessionProofs` | `WritesDoNotOverlap`, `WakeupsAreNotLost` | `OneWriteInFlight`, `NoLostWakeup` |
| | `SessionImplementsChannel` | `ImplementsChannel` |
| | `EntriesReachTheEngine`, `NoTextEndsTheServer` | `EngineGetsWhatWasEntered`, `LinesParse` |
| `ServerProofs` | `IdsAreUnique`, `HandlersDoNotOverlap` | `ClientIdsUnique`, `OneHandlerPerSession` |
| | `CommandsKeepTheirOrder`, `WalksAreUndisturbed` | `CommandsInOrder`, `WalkUndisturbed` |
| `DashboardProofs` | `TablesShowWholeSnapshots`, `ViewNeverGoesBack` | `SnapshotsWhole`, `ViewMovesForward` |
| `LoadTesterProofs` | `ReportsAreComplete` | `ReportAfterLastOrder` |
| `TradingSystemProofs` | `CancelsMeanWhatWasSeen`, `ViewsForgetNothing` | `CancelMeansWhatWasSeen`, `OrdersNeverReturn` |

### Assumptions

They are named where the constants are declared, and the runs evaluate them.

* `ClientsAssumption`, `QuantityAssumption`, `EnteredAssumption`, `ReportAssumption`: a finite set of
  clients, integers for quantities, a natural number for the report.
* `NumbersAssumption` (of `HeapBook`): prices and quantities are integers. `WindowAssumption`: the
  window of trades is a natural number. `LatencyAssumption`: the samples take finitely many
  values, natural numbers, as a duration in an integer type does.
* `PriceAssumption`: prices are integers and every non-empty set of them has a lowest and a
  highest one, as a set of doubles does. It is where the end of the matching loop uses that
  a queue which is not empty has a top.
* `TextsAssumption`: the texts of a field are numbers, a word, or nothing, and the word is no number.
  `IntMaxAssumption`: the largest `int` is a natural number.
* `MapAssumption`, `GarbageAssumption`, `SizeAssumption`, `NamesAssumption`: sizes are positive and the names
  that stand for "nobody", "nothing" or garbage are not the names of anything.

No theorem has a condition besides these: where a property holds only of some states (the sum
fits its `int`, no execution was of a negative quantity, the client never was short), the
property says so itself and the theorem is about all behaviours. Such a condition is on
the state, or on what was accepted, and not a bound of the run. In particular nothing is
assumed of quantities: the load tester sends positive ones, but the dashboard
sends whatever integer is typed and 0 for a word, and the engine checks neither.

### The arguments

`EngineProofs`. Four of the theorems come from one inductive invariant `IInv`.
`UncrossedWhenUnlocked` alone is not inductive: while a handler matches, the book is
crossed. That it is crossed only through the order booked last (`OnlyIncomingCrosses`) needs
the book to have been uncrossed when the mutex was taken, so each needs the other; both
need the lock discipline (`LockDiscipline`), that calls carry an order until it is booked
(`CallsCarryOrders`), and that an order stays on its side (`SidesKept`). `ReportsPerClient` has
an invariant of its own: while the counter stands at the threshold nobody can enter, so
reports printed plus calls under way never exceed the number of clients.

`AuditInv` ties the book to the record of all orders, on top of `IInv`: what
rests is recorded under its id with its client, side and price, and its quantity is what
was ordered less what was executed (`RestingRecorded`); what does not rest was executed or
cancelled (`GoneAccounted`); a call under way names its caller (`CallsNamed`). One lemma per
step says what it does to the record (`Executes` for a trade: the two orders, the quantity,
both records, nothing else), and the theorems and the refinement follow from those lemmas.
For `LimitsAreHonoured` the cost of an order is compared with its limit (`LimitsInv`). The refinement
maps the record to the register of the exchange; a trade is a step because the queue's
`top()` is a best order and the price is that of the ask, and an arrival or a cancel because
nothing crosses while the mutex is free.

The accounts. What a client bought, sold and paid are sums over sets of orders. The
provers cannot use induction theorems, so the sums get a theory of their own (`Totals`): a total is
the value of the one function on the subsets of a finite set that is 0 at the empty
set and adds up when an element is added; that there is one, and only one, is shown by looking at a
smallest subset where it fails, which exists as the subsets of a finite set are well
founded. From that a total changes by what one element changes (`TotalMoves`). Then
`PositionInv` is inductive by itself, and `BasisInv` says of every client that never was short that
its average price, cross-multiplied, is what its orders cost. It needs all resting
quantities positive, else a trade may take a position through 0 the wrong way.

`SnapshotProofs`, the heaps. `IsHeap` says that no cell comes out after one of its children and that the
vector lists a given set of orders, each once. What push and pop do to all
cells of a path would be an induction; it is shown instead at a least cell for which it fails
(`Ancestors` and `SinkPath` are recursive functions, so that each is its defining
equation at one cell). `PushIsHeap` and `PopIsHeap` are the two operations, with a hole that
moves and the rest of the heap in order around it; `DrainedLists` says that top and pop deliver
the set in order of price, and `RebuiltIsHeap` that a cancel leaves a heap of
the set without the order, again at the least turn of the loop for which it would not.

`TopIsBest` alone is not inductive: that the front is best says nothing about who comes to
the front after a pop. `HeapInv` says that each queue is a heap of exactly the orders that rest on
its side, that each of those is in the ledger with its side, its price and what is left
of it, that ids are unique, and that nothing crosses between two calls. One trade is
then the same step as in `EngineProofs`: both fronts are best, so the abstract
exchange may execute them, and what is pushed back is what it leaves open.

`SnapshotProofs`, the statistics. `P95IsQuantile`: the element at an index of a sorted vector is the least value
whose rank is past the index. There is one, as the greatest value has the rank of all samples;
and the samples under it are those up to the greatest smaller value, whose rank does not reach the
index. The rest is arithmetic on the index.

`SnapshotProofs`, the snapshot. Every row of a snapshot has no mark and every marker occurs once, so the reading
loop gives back exactly the rows between its two markers (`SixSections`). The order tables then are the drained heaps (`DrainedSides`). A level is found by its rank among the
prices of its side, and each rank from 1 to their number belongs to one price (`Ranks`);
summing the table's rows and summing the orders of a price is the same total, renumbered
(`TotalNumbered`). `TapeInv` gives the tape its type, `TotalsInv` says that the orders' executed
quantities are twice the tape's. With no negative weight a weighted sum lies between the extremes
times the weights (`TotalScaled`, `TotalOrdered`), which is 0 when the weights are; nothing else is
needed for the average.

`ClientSessionProofs`. `OneWriteInFlight` and `NoLostWakeup` need each other: a handler that starts the
next write relies on no other being under way, and that no snapshot is forgotten relies on who
set the flag (`WriterInv`). For the channel, `DeliveryInv` says that the queue holds the last
snapshots published, in order, that as many were sent as were taken off, and that the write
under way carries the front or, when the table may be all but full, anything (`Carried`); the
table never shrinks. `EntryInv` compares, line by line, what was entered with the call that
will come of the line on the wire; `OrderIsRead` and `CancelIsRead` say what `Throws` and `CallOf` make of a
line as the dashboard prints it.

`ServerProofs`. `ServerInv`: one accept is outstanding or handled, and one only (`AcceptInv`), so the
plain counter has one user (`IdInv`); a session has one read outstanding or one handler
running and none before it was started (`FreshInv`, `ReadInv`), so the commands executed
are the first ones taken (`OrderInv`); the publisher walks under the mutex (`WalkInv`).

`DashboardProofs`. `StreamInv`: what the listener has buffered and what is on the wire make one
stream, in which heads and ends of snapshots alternate and versions never fall; `ViewInv`
extends that order over the reply in hand, the queued calls and the tables.

`TradingSystemProofs`. `SystemInv`: every snapshot on its way or shown is a true picture of
the past (`Past`), each newer than the one before it (`InOrder`), and every cancel on its way
means the row it was entered for (`Meant`). Every step keeps this because orders evolve one
way (`Evolves`): they keep side and price, and never open again. What is left of them shrinks,
but only while no order of a negative quantity was accepted: such an order adds to the one it
meets. The two properties say so.

### Only model-checked

* Liveness: `ExchangeProgress`, `OrderHandled`, `DeliversAll`, `CommandsShown`, `ViewCatchesUp`, `WindowCloses`,
  `TestEnds`, `ViewsConverge`. It rests on fairness, which is out of the prover's reach.
* The average price over a tape with a negative execution, and a sum that has outgrown its
  `int`, are neither checked nor proved: nothing is claimed of them. Nor of the average price and
  the profit of a client that was short at some time.
* The three violations, which are counterexamples.

## 5. Not modelled

The safety properties are proved; what the proofs leave to the runs is named above. Not
modelled:

* `TradingServer`: it owns the engine and hands out a reference to it. Its `start`, `stop` and
  `processOrder` are never called and its `running` flag is read by nobody.
* The headers under `engine/`, which the build does not use, and the empty classes in
  `shared/Message.cpp` and `client/TradingClient.cpp`.
* Qt widgets, layout and styles, and the rounding of labels to two decimals.
* The growth of a queue whose client does not read: nothing promises a bound that could be
  checked. That such a client blocks nobody is `TestEnds`.
* One `tcp::socket` used by the publisher's thread and by I/O threads at once: what goes
  wrong lies inside Asio, below these models.
* The rounding of `double` arithmetic in prices, averages and profit, and prices that are
  no numbers: the text `nan` or `inf`, which `toDouble`, `to_string` and `stod` let through. Prices
  are integers here (`PriceAssumption`); a NaN compares false with everything, so
  the comparators would be no order.
* The exception that leaves a read handler, in `Server`: it ends the process, so it is in
  `ClientSession`, with all that is lost by it, and `Server` is about a server that lives
  and gets lines it can read.
* The text of the log.
* The figures of the load tester's report. `ReportAfterLastOrder` is about when it is printed, by
  workers that all connected; that it counts the orders of those that did not is
  listed under "Seen while modelling".
