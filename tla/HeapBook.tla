------------------------------ MODULE HeapBook ------------------------------
(***************************************************************************)
(* The book under engineMutex with its two priority queues as the heaps    *)
(* they are, where MatchingEngine leaves open which of several equally     *)
(* priced orders is on top.  What the mutex serializes is written without  *)
(* threads: `matching` is TRUE between addOrder and the end of matchOrders.*)
(***************************************************************************)
EXTENDS PriorityQueue, SequencesExt

CONSTANTS ClientIds, Prices, Quantities,
          MaxOrders   \* bound: how many orders are sent

ASSUME NumbersAssumption == Prices \subseteq Int /\ Quantities \subseteq Int

VARIABLES
  buyOrders, sellOrders,  \* the vectors of the two priority queues
  trades,
  nextOrderId,
  matching,
  ledger      \* history: per order id, the order and its executed quantity

vars == <<buyOrders, sellOrders, trades, nextOrderId, matching, ledger>>

-----------------------------------------------------------------------------
(* Plausible bugs, each in place of the operator its comment names.        *)

\* Refilled: `!=` in place of `==`.
RefilledInverted(type, temp, order, orderId) ==
  IF order.id # orderId THEN temp ELSE Push(type, temp, order)

-----------------------------------------------------------------------------

Init ==
  /\ buyOrders = <<>> /\ sellOrders = <<>>
  /\ trades = <<>>
  /\ nextOrderId = 1
  /\ matching = FALSE
  /\ ledger = <<>>

AddOrder(c, type, price, quantity) ==
  LET order == [id |-> nextOrderId, clientId |-> c, type |-> type,
                price |-> price, quantity |-> quantity]
  IN  /\ ~matching
      /\ nextOrderId <= MaxOrders
      /\ IF type = "BUY"
         THEN /\ buyOrders' = Push("BUY", buyOrders, order)
              /\ UNCHANGED sellOrders
         ELSE /\ sellOrders' = Push("SELL", sellOrders, order)
              /\ UNCHANGED buyOrders
      /\ ledger' = Append(ledger, [clientId |-> c, type |-> type, price |-> price,
                                   quantity |-> quantity, filled |-> 0])
      /\ nextOrderId' = nextOrderId + 1
      /\ matching' = TRUE
      /\ UNCHANGED trades

CanMatch ==
  /\ buyOrders # <<>> /\ sellOrders # <<>>
  /\ Crossing(Top(buyOrders), Top(sellOrders))

\* Pop, then push again with what is left of the order, if anything is left.
MatchOrders ==
  LET topBuy    == Top(buyOrders)
      topSell   == Top(sellOrders)
      tradedQty == TradedQty(topBuy, topSell)
      buyRest   == [topBuy EXCEPT !.quantity = @ - tradedQty]
      sellRest  == [topSell EXCEPT !.quantity = @ - tradedQty]
  IN  /\ matching /\ CanMatch
      /\ trades' = Append(trades, [price |-> topSell.price, quantity |-> tradedQty])
      /\ buyOrders' = IF buyRest.quantity > 0
                      THEN Push("BUY", Pop("BUY", buyOrders), buyRest)
                      ELSE Pop("BUY", buyOrders)
      /\ sellOrders' = IF sellRest.quantity > 0
                       THEN Push("SELL", Pop("SELL", sellOrders), sellRest)
                       ELSE Pop("SELL", sellOrders)
      /\ ledger' = [ledger EXCEPT ![topBuy.id].filled  = @ + tradedQty,
                                  ![topSell.id].filled = @ + tradedQty]
      /\ UNCHANGED <<nextOrderId, matching>>

EndMatch ==
  /\ matching /\ ~CanMatch
  /\ matching' = FALSE
  /\ UNCHANGED <<buyOrders, sellOrders, trades, nextOrderId, ledger>>

\* The temporary queue after one more order was taken from the top.
Refilled(type, temp, order, orderId) ==
  IF order.id = orderId THEN temp ELSE Push(type, temp, order)

\* A queue is emptied from the top into a temporary one without the order.
Rebuilt(type, queue, orderId) ==
  LET orders == Drained(type, queue)
      temp[k \in 0 .. Len(orders)] ==
        IF k = 0 THEN <<>> ELSE Refilled(type, temp[k - 1], orders[k], orderId)
  IN  temp[Len(orders)]

\* Both queues are rebuilt; the order is in at most one of them.
CancelOrder(orderId) ==
  /\ ~matching
  /\ buyOrders'  = Rebuilt("BUY", buyOrders, orderId)
  /\ sellOrders' = Rebuilt("SELL", sellOrders, orderId)
  /\ UNCHANGED <<trades, nextOrderId, matching, ledger>>

Next ==
  \/ \E c \in ClientIds, type \in OrderType, price \in Prices, quantity \in Quantities :
       AddOrder(c, type, price, quantity)
  \/ MatchOrders
  \/ EndMatch
  \/ \E orderId \in 0 .. nextOrderId : CancelOrder(orderId)

Spec == Init /\ [][Next]_vars

-----------------------------------------------------------------------------

OpenIds == {o.id : o \in ToSet(buyOrders) \cup ToSet(sellOrders)}

\* The front of each heap is a best price of all it holds, after any sequence
\* of pushes, pops and rebuilds: matchOrders looks at nothing else.
TopIsBest ==
  /\ \A o \in ToSet(buyOrders)  : o.price <= Top(buyOrders).price
  /\ \A o \in ToSet(sellOrders) : o.price >= Top(sellOrders).price

Register ==
  [i \in DOMAIN ledger |->
     [clientId |-> ledger[i].clientId, type |-> ledger[i].type,
      price |-> ledger[i].price, quantity |-> ledger[i].quantity,
      filled |-> ledger[i].filled, open |-> i \in OpenIds]]

Abstract == INSTANCE Exchange WITH orders <- Register, tape <- trades

\* The heaps do what the sets of MatchingEngine do: every execution and every
\* cancel is one the serial exchange allows, and no order is lost or doubled
\* by sinking, rising or rebuilding.
HeapsImplementExchange == Abstract!Spec

\* "Price-Time Priority (FIFO) Matching": an order is not executed while an
\* earlier one of the same side and price rests in the book.
TimePriority ==
  [][\A i, j \in DOMAIN ledger :
       (/\ i < j
        /\ i \in OpenIds
        /\ ledger[i].type = ledger[j].type
        /\ ledger[i].price = ledger[j].price)
         => ledger'[j].filled = ledger[j].filled]_vars

=============================================================================
