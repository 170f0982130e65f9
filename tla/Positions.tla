----------------------------- MODULE Positions -----------------------------
(***************************************************************************)
(* The accounting MatchEngine keeps per client: the PositionInfo record    *)
(* and what one executed trade does to it (src/server/MatchingEngine).     *)
(*                                                                         *)
(* Prices and amounts are doubles in the code.  Here an amount is an exact *)
(* fraction num/den.  A denominator 0 stands for the values IEEE division  *)
(* by zero produces: num > 0 is +inf, num < 0 is -inf and num = 0 is NaN.  *)
(* Fractions are not reduced, so amounts are compared with SameAmount.     *)
(***************************************************************************)
EXTENDS Integers

-----------------------------------------------------------------------------
(* Plausible bugs.  No specification uses the operators of this section:   *)
(* each stands for the body of the operator its comment names, and a       *)
(* property that held with it in place would say nothing about the code.   *)

\* AfterBuy: the average is the last price instead of the mean cost.
AfterBuyAtLastPrice(position, price, tradedQty) ==
  [position EXCEPT !.quantity     = @ + tradedQty,
                   !.averagePrice = [num |-> price, den |-> 1]]

\* Credit: the seller is read before the buyer is written, as with two copies
\* of PositionInfo in place of two references.
CreditStale(positions, bought, seller) == positions[seller]

-----------------------------------------------------------------------------

Amount == [num : Int, den : Nat]

Whole(n) == [num |-> n, den |-> 1]

Finite(a) == a.den # 0

SameAmount(a, b) ==
  /\ Finite(a) /\ Finite(b)
  /\ a.num * b.den = b.num * a.den

Times(a, k) == [num |-> a.num * k, den |-> a.den]

Sign(n) == IF n > 0 THEN 1 ELSE IF n < 0 THEN -1 ELSE 0

\* Two infinities add up to an infinity only when they agree, else to NaN.
Plus(a, b) ==
  IF a.den = 0 /\ b.den = 0
  THEN [num |-> IF Sign(a.num) = Sign(b.num) THEN a.num ELSE 0, den |-> 0]
  ELSE [num |-> a.num * b.den + b.num * a.den, den |-> a.den * b.den]

Minus(a, b) == Plus(a, Times(b, -1))

DividedBy(a, k) ==
  IF k < 0 THEN [num |-> -a.num, den |-> a.den * (-k)]
           ELSE [num |-> a.num,  den |-> a.den * k]

-----------------------------------------------------------------------------

\* unrealizedPnL is declared in the code but never assigned, and is left out.
PositionInfo ==
  [quantity : Int, averagePrice : Amount, realizedPnL : Amount]

NoPosition ==
  [quantity |-> 0, averagePrice |-> Whole(0), realizedPnL |-> Whole(0)]

\* The buyer's side of a trade.  The division by the new quantity is made
\* without a test, also when the purchase brings a short position back to 0.
AfterBuy(position, price, tradedQty) ==
  LET totalCost == Plus(Times(position.averagePrice, position.quantity),
                        Whole(price * tradedQty))
      quantity  == position.quantity + tradedQty
  IN  [position EXCEPT !.quantity     = quantity,
                       !.averagePrice = DividedBy(totalCost, quantity)]

\* The seller's side.  A long position realizes profit over the whole traded
\* quantity; only a position that reaches exactly 0 forgets its average price.
AfterSell(position, price, tradedQty) ==
  LET profit   == Times(Minus(Whole(price), position.averagePrice), tradedQty)
      quantity == position.quantity - tradedQty
  IN  [quantity     |-> quantity,
       averagePrice |-> IF quantity = 0 THEN Whole(0) ELSE position.averagePrice,
       realizedPnL  |-> IF position.quantity > 0
                        THEN Plus(position.realizedPnL, profit)
                        ELSE position.realizedPnL]

\* The seller's PositionInfo is reached by reference once the buyer's is written.
Credit(positions, bought, seller) == bought[seller]

\* One trade.  A client that trades with itself is buyer and seller of one entry.
AfterTrade(positions, buyer, seller, price, tradedQty) ==
  LET bought == [positions EXCEPT ![buyer] = AfterBuy(@, price, tradedQty)]
  IN  [bought EXCEPT ![seller] =
         AfterSell(Credit(positions, bought, seller), price, tradedQty)]

=============================================================================
