----------------------------- MODULE OrderBook -----------------------------
(***************************************************************************)
(* OrderBook, the comparators and the use matchOrders makes of the two     *)
(* std::priority_queue members (src/server).  A queue is the set of the    *)
(* orders in it: they differ in their ids.  The order in which the heap    *)
(* stores them is not part of the state; what is left open by that is      *)
(* which of several equally priced orders top() returns.                   *)
(***************************************************************************)
EXTENDS Integers

-----------------------------------------------------------------------------
(* Plausible bugs.  No specification uses the operators of this section:   *)
(* each stands for the body of the operator its comment names, and a       *)
(* property that held with it in place would say nothing about the code.   *)

\* IsBuy: `!=` in place of `==`.
IsBuyNegated(o) == o.type # "BUY"

\* SellComparator: the sell side ordered like the buy side.
SellComparatorMaxFirst(a, b) == a.price < b.price

\* Without: the id compared with one that starts from 0.
WithoutOffByOne(queue, orderId) == {o \in queue : o.id # orderId + 1}

\* Reduced: the remainder of a partly executed order is not pushed back.
ReducedDropped(queue, top, tradedQty) == queue \ {top}

\* Crossing: equal prices do not match.
CrossingStrict(topBuy, topSell) == topBuy.price > topSell.price

\* Crossing: the comparison the wrong way round.
CrossingReversed(topBuy, topSell) == topBuy.price <= topSell.price

-----------------------------------------------------------------------------

\* Order::type.  The parser makes no other kind of order.
OrderType == {"BUY", "SELL"}

\* The queue addOrder puts an order in.
IsBuy(o) == o.type = "BUY"

\* The comparators look at the price alone: a comes after b.
BuyComparator(a, b)  == a.price < b.price
SellComparator(a, b) == a.price > b.price

\* priority_queue::top is an element that comes after no other one.
TopBuys(queue)  == {o \in queue : \A p \in queue : ~BuyComparator(o, p)}
TopSells(queue) == {o \in queue : \A p \in queue : ~SellComparator(o, p)}

\* cancelOrder rebuilds both queues without the order that carries the id.
Without(queue, orderId) == {o \in queue : o.id # orderId}

\* The match condition.
Crossing(topBuy, topSell) == topBuy.price >= topSell.price

TradedQty(topBuy, topSell) ==
  IF topBuy.quantity <= topSell.quantity THEN topBuy.quantity ELSE topSell.quantity

\* pop, then push again with what is left of the order, if anything is left.
Reduced(queue, top, tradedQty) ==
  LET rest == [top EXCEPT !.quantity = @ - tradedQty]
  IN  (queue \ {top}) \cup (IF rest.quantity > 0 THEN {rest} ELSE {})

=============================================================================
