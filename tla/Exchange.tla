------------------------------ MODULE Exchange ------------------------------
(***************************************************************************)
(* What the matching engine promises, without queues, threads or a mutex:  *)
(* a register of every order ever accepted, and the tape of trades.  The   *)
(* index of an order in the register is its server-side id.                *)
(*                                                                         *)
(* The exchange is serial.  An order is accepted, and an order is          *)
(* cancelled, only while nothing in the book can trade: whatever a new     *)
(* order can match is matched before anyone else changes the book.         *)
(***************************************************************************)
EXTENDS Integers, Sequences

CONSTANTS ClientIds, Prices, Quantities

VARIABLES orders, tape

evars == <<orders, tape>>

OpenOf(type) == {i \in DOMAIN orders : orders[i].open /\ orders[i].type = type}

Bids == OpenOf("BUY")
Asks == OpenOf("SELL")

BestBids == {i \in Bids : \A j \in Bids : orders[j].price <= orders[i].price}
BestAsks == {i \in Asks : \A j \in Asks : orders[j].price >= orders[i].price}

Crossed == \E i \in Bids, j \in Asks : orders[i].price >= orders[j].price

Rest(i) == orders[i].quantity - orders[i].filled

\* Record that q of the order's quantity was executed.
Executed(o, q) == [o EXCEPT !.filled = @ + q,
                            !.open   = o.quantity - o.filled - q > 0]

Init == orders = <<>> /\ tape = <<>>

Accept(c, type, price, quantity) ==
  /\ ~Crossed
  /\ orders' = Append(orders, [clientId |-> c, type |-> type, price |-> price,
                               quantity |-> quantity, filled |-> 0,
                               open |-> TRUE])
  /\ UNCHANGED tape

\* A best bid meets a best ask at the price of the ask.
Execute(i, j) ==
  LET q == IF Rest(i) <= Rest(j) THEN Rest(i) ELSE Rest(j)
  IN  /\ i \in BestBids /\ j \in BestAsks
      /\ orders[i].price >= orders[j].price
      /\ orders' = [orders EXCEPT ![i] = Executed(@, q), ![j] = Executed(@, q)]
      /\ tape' = Append(tape, [price |-> orders[j].price, quantity |-> q])

Cancel(i) ==
  /\ ~Crossed
  /\ i \in Bids \cup Asks
  /\ orders' = [orders EXCEPT ![i].open = FALSE]
  /\ UNCHANGED tape

Next ==
  \/ \E c \in ClientIds, type \in {"BUY", "SELL"},
        price \in Prices, quantity \in Quantities :
       Accept(c, type, price, quantity)
  \/ \E i \in Bids, j \in Asks : Execute(i, j)
  \/ \E i \in Bids \cup Asks : Cancel(i)

Spec == Init /\ [][Next]_evars

\* A book that can trade does trade.
Fairness == WF_evars(\E i \in Bids, j \in Asks : Execute(i, j))

FairSpec == Spec /\ Fairness

=============================================================================
