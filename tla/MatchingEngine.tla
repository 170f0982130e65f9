--------------------------- MODULE MatchingEngine ---------------------------
(***************************************************************************)
(* MatchEngine and OrderBook of src/server: one book, two priority queues, *)
(* guarded by engineMutex, and called from the I/O threads of the server.  *)
(*                                                                         *)
(* A session runs one read handler at a time, so the callers of the engine *)
(* are identified with the clients: pc[c] is where the handler of client c *)
(* stands inside processOrder, order[c] is that call's `order` parameter.  *)
(* Everything under the mutex is visible step by step: one iteration of    *)
(* the matching loop is one action.  What runs outside the mutex (the      *)
(* atomic order counter and the benchmark stamp) is interleaved freely.    *)
(***************************************************************************)
EXTENDS Integers, Sequences, FiniteSets, OrderBook, Positions

CONSTANTS
  ClientIds,   \* the sessions' client ids
  Nobody,      \* engineMutex is free
  NoOrder,     \* no call of processOrder is between its entry and the lock
  Prices,      \* the limit prices clients send
  Quantities,  \* the quantities clients send; the parser accepts any integer
  ReportAt,    \* the order count that prints the report: 122000 in the code
  MaxOrders    \* bound: how many times processOrder is called

ASSUME ClientsAssumption  == IsFiniteSet(ClientIds) /\ Nobody \notin ClientIds
ASSUME QuantityAssumption == Quantities \subseteq Int
ASSUME ReportAssumption   == ReportAt \in Nat
\* A double has finitely many values, so among prices there is always a lowest
\* and a highest one.
ASSUME PriceAssumption ==
  /\ Prices \subseteq Int
  /\ \A S \in SUBSET Prices :
       S # {} => \E lo, hi \in S : \A p \in S : lo <= p /\ p <= hi

Order == [id : Nat, clientId : ClientIds, type : OrderType,
          price : Prices, quantity : Int]

Trade == [price : Prices, quantity : Int]

VARIABLES
  buyOrders, sellOrders,  \* the contents of the two priority queues
  trades,
  clientPositions,        \* total: an absent client reads as NoPosition
  nextOrderId,
  engineMutex,            \* Nobody, or the client whose handler holds it
  totalOrdersProcessed,   \* atomic, not guarded by the mutex
  benchmarkStart,         \* whether the start of the benchmark was recorded
  latencySamples,         \* how many latencies were pushed
  reports,                \* how many performance reports were printed
  pc, order

bookVars   == <<buyOrders, sellOrders, trades, clientPositions>>
metricVars == <<totalOrdersProcessed, benchmarkStart, latencySamples, reports>>
callVars   == <<pc, order>>
vars == <<bookVars, nextOrderId, engineMutex, metricVars, callVars>>

StateTyped ==
  /\ buyOrders \subseteq Order
  /\ sellOrders \subseteq Order
  /\ trades \in Seq(Trade)
  /\ clientPositions \in [ClientIds -> PositionInfo]
  /\ nextOrderId \in Nat \ {0}
  /\ engineMutex \in ClientIds \cup {Nobody}
  /\ totalOrdersProcessed \in Nat
  /\ benchmarkStart \in BOOLEAN
  /\ latencySamples \in Nat
  /\ reports \in Nat
  /\ pc \in [ClientIds -> {"idle", "counted", "locking", "matching"}]
  /\ order \in [ClientIds -> Order \cup {NoOrder}]

\* What the two priority_queue types do not say: each queue holds orders of its
\* own side only, also after a partly executed order was pushed back.
SidesKept ==
  /\ \A o \in buyOrders  : o.type = "BUY"
  /\ \A o \in sellOrders : o.type = "SELL"

\* The variables have their types, and the queues the sides of their orders.
TypeOK == StateTyped /\ SidesKept

Init ==
  /\ buyOrders = {} /\ sellOrders = {}
  /\ trades = <<>>
  /\ clientPositions = [c \in ClientIds |-> NoPosition]
  /\ nextOrderId = 1
  /\ engineMutex = Nobody
  /\ totalOrdersProcessed = 0
  /\ benchmarkStart = FALSE
  /\ latencySamples = 0
  /\ reports = 0
  /\ pc = [c \in ClientIds |-> "idle"]
  /\ order = [c \in ClientIds |-> NoOrder]

-----------------------------------------------------------------------------
(* Plausible bugs.  No specification uses the operators of this section:   *)
(* each stands for the body of the operator its comment names, and a       *)
(* property that held with it in place would say nothing about the code.   *)

\* Booked: the client's placeholder id kept.
BookedUnnumbered(o, id) == o

\* LoopDone: `if` in place of `while`.
LoopDoneAtOnce(buys, sells) == TRUE

\* LoopDone: `||` in place of `&&` in the loop's condition, and no break.
LoopDoneWhenEmpty(buys, sells) == buys = {} /\ sells = {}

\* ReportDue: the threshold compared with >=.
ReportDueFrom(n, threshold) == n >= threshold

-----------------------------------------------------------------------------
(* processOrder.                                                           *)

\* Entry: the atomic counter is incremented before the lock is requested.
EnterProcessOrder(c) ==
  /\ pc[c] = "idle"
  /\ totalOrdersProcessed < MaxOrders
  /\ \E type \in OrderType, price \in Prices, quantity \in Quantities :
       order' = [order EXCEPT ![c] =
                   [id |-> 1, clientId |-> c, type |-> type,
                    price |-> price, quantity |-> quantity]]
  /\ totalOrdersProcessed' = totalOrdersProcessed + 1
  /\ pc' = [pc EXCEPT ![c] = "counted"]
  /\ UNCHANGED <<bookVars, nextOrderId, engineMutex,
                 benchmarkStart, latencySamples, reports>>

\* The counter is read again: another thread may have moved it meanwhile.
StampBenchmarkStart(c) ==
  /\ pc[c] = "counted"
  /\ benchmarkStart' = (benchmarkStart \/ totalOrdersProcessed = 1)
  /\ pc' = [pc EXCEPT ![c] = "locking"]
  /\ UNCHANGED <<bookVars, nextOrderId, engineMutex, order,
                 totalOrdersProcessed, latencySamples, reports>>

\* The server-side id replaces the one the parser put in.
Booked(o, id) == [o EXCEPT !.id = id]

\* lock_guard, the server-side id, and OrderBook::addOrder.
BookOrder(c) ==
  /\ pc[c] = "locking"
  /\ engineMutex = Nobody
  /\ engineMutex' = c
  /\ nextOrderId' = nextOrderId + 1
  /\ LET booked == Booked(order[c], nextOrderId)
     IN  IF IsBuy(booked)
         THEN /\ buyOrders' = buyOrders \cup {booked}
              /\ UNCHANGED sellOrders
         ELSE /\ sellOrders' = sellOrders \cup {booked}
              /\ UNCHANGED buyOrders
  /\ order' = [order EXCEPT ![c] = NoOrder]
  /\ pc' = [pc EXCEPT ![c] = "matching"]
  /\ UNCHANGED <<trades, clientPositions, metricVars>>

\* One iteration of the loop of matchOrders whose match condition holds.
MatchOrders(c) ==
  /\ pc[c] = "matching"
  /\ \E topBuy \in TopBuys(buyOrders), topSell \in TopSells(sellOrders) :
       LET tradedQty == TradedQty(topBuy, topSell)
       IN  /\ Crossing(topBuy, topSell)
           /\ clientPositions' =
                AfterTrade(clientPositions, topBuy.clientId, topSell.clientId,
                           topSell.price, tradedQty)
           /\ trades' = Append(trades, [price    |-> topSell.price,
                                        quantity |-> tradedQty])
           /\ buyOrders'  = Reduced(buyOrders, topBuy, tradedQty)
           /\ sellOrders' = Reduced(sellOrders, topSell, tradedQty)
  /\ UNCHANGED <<nextOrderId, engineMutex, metricVars, callVars>>

\* The loop ends on an empty side, or on tops that do not match.
LoopDone(buys, sells) ==
  ~ \E topBuy \in TopBuys(buys), topSell \in TopSells(sells) :
      Crossing(topBuy, topSell)

\* Compared after the match, with a counter other threads have moved on.
ReportDue(n, threshold) == n = threshold

\* After the loop the latency is recorded, the report printed if it is due,
\* and the lock released.
FinishOrder(c) ==
  /\ pc[c] = "matching"
  /\ LoopDone(buyOrders, sellOrders)
  /\ latencySamples' = latencySamples + 1
  /\ reports' = reports + (IF ReportDue(totalOrdersProcessed, ReportAt) THEN 1 ELSE 0)
  /\ engineMutex' = Nobody
  /\ pc' = [pc EXCEPT ![c] = "idle"]
  /\ UNCHANGED <<bookVars, nextOrderId, order,
                 totalOrdersProcessed, benchmarkStart>>

\* cancelOrder does nothing outside the mutex, so it is one step.
CancelOrder(c, orderId) ==
  /\ pc[c] = "idle"
  /\ engineMutex = Nobody
  /\ buyOrders'  = Without(buyOrders, orderId)
  /\ sellOrders' = Without(sellOrders, orderId)
  /\ UNCHANGED <<trades, clientPositions, nextOrderId, engineMutex,
                 metricVars, callVars>>

Next ==
  \E c \in ClientIds :
    \/ EnterProcessOrder(c)
    \/ StampBenchmarkStart(c)
    \/ BookOrder(c)
    \/ MatchOrders(c)
    \/ FinishOrder(c)
    \/ \E orderId \in 0 .. nextOrderId : CancelOrder(c, orderId)

Spec == Init /\ [][Next]_vars

\* A handler that runs keeps running, and a lock_guard that waits for a mutex
\* released again and again obtains it.  Clients owe the server no request.
Fairness ==
  \A c \in ClientIds :
    /\ WF_vars(StampBenchmarkStart(c))
    /\ SF_vars(BookOrder(c))
    /\ WF_vars(MatchOrders(c))
    /\ WF_vars(FinishOrder(c))

FairSpec == Spec /\ Fairness

-----------------------------------------------------------------------------
(* Safety.                                                                 *)

Resting == buyOrders \cup sellOrders

\* The server-side id of the order booked last.
LastId == nextOrderId - 1

\* The server-side ids tell the resting orders apart, also after a partly
\* executed order was pushed back; cancelOrder removes at most one order.
UniqueIds ==
  /\ \A o \in Resting : o.id <= LastId
  /\ \A o, p \in Resting : o.id = p.id => o = p

\* Whoever takes the mutex (the publisher for a snapshot, a handler for a
\* cancel or the next order) finds best bid below best ask: matchOrders has
\* run to the end of its loop before the lock was released.
UncrossedWhenUnlocked ==
  engineMutex = Nobody =>
    \A b \in buyOrders, s \in sellOrders : b.price < s.price

\* Only the incoming order trades: two orders that both rested before it never
\* match each other, so no handler ever executes an earlier handler's order
\* against a third one.
OnlyIncomingCrosses ==
  \A b \in buyOrders, s \in sellOrders :
    Crossing(b, s) => LastId \in {b.id, s.id}

\* A performance report is printed by no more calls than can be between the
\* increment of the counter and its comparison with the threshold at once.
ReportsBounded == reports <= Cardinality(ClientIds)

\* The benchmark promises figures for a run of ReportAt orders: once that many
\* were entered and all handlers are done, a report has been printed.
ReportPrinted ==
  (totalOrdersProcessed >= ReportAt /\ \A c \in ClientIds : pc[c] = "idle")
    => reports > 0

\* A report measures from the start of the benchmark: when one is printed the
\* start has been recorded.
ReportHasStart == reports > 0 => benchmarkStart

-----------------------------------------------------------------------------
(* Liveness.                                                               *)

\* Every call of processOrder returns, under contention and cancels: the
\* matching loop terminates and gives the mutex back, whatever quantities rest
\* in the book, zero and negative ones included.
OrderHandled == \A c \in ClientIds : pc[c] # "idle" ~> pc[c] = "idle"

=============================================================================
