---------------------------- MODULE EngineAudit ----------------------------
(***************************************************************************)
(* The matching engine with an auditor beside it.  The engine keeps no     *)
(* history of an order once it leaves the book, and its trades name no     *)
(* order and no client; the auditor writes down, for every server-side id, *)
(* what was ordered, what was executed and at what cost.  The history is   *)
(* read off the book before and after each step and never constrains it,   *)
(* so each engine action below is the action of MatchingEngine.            *)
(***************************************************************************)
EXTENDS MatchingEngine, FiniteSetsExt, SequencesExt

VARIABLES
  ledger,    \* per order id: the order, its executed quantity and its cost
  everShort  \* the clients whose position has been negative at some time

auditVars == <<vars, ledger, everShort>>

\* What the book holds under an id: one order, or none once it left.
Entry(id) == {o \in Resting : o.id = id}

IsResting(id) == Entry(id) # {}

AuditInit ==
  /\ Init
  /\ ledger = <<>>
  /\ everShort = {}

RecordOrder(c) ==
  /\ BookOrder(c)
  /\ ledger' = Append(ledger, [clientId  |-> c,
                               type      |-> order[c].type,
                               price     |-> order[c].price,
                               quantity  |-> order[c].quantity,
                               filled    |-> 0,
                               cost      |-> 0,
                               cancelled |-> FALSE])
  /\ UNCHANGED everShort

\* The trade is charged to the orders whose place in the book it changed.
RecordTrade(c) ==
  /\ MatchOrders(c)
  /\ ledger' = [i \in DOMAIN ledger |->
                  IF Entry(i) = Entry(i)'
                  THEN ledger[i]
                  ELSE [ledger[i] EXCEPT
                          !.filled = @ + Last(trades').quantity,
                          !.cost   = @ + Last(trades').price * Last(trades').quantity]]
  /\ everShort' = everShort \cup
                  {d \in ClientIds : clientPositions'[d].quantity < 0}

RecordCancel(c, orderId) ==
  /\ CancelOrder(c, orderId)
  /\ ledger' = [i \in DOMAIN ledger |->
                  [ledger[i] EXCEPT !.cancelled = @ \/ (i = orderId /\ IsResting(i))]]
  /\ UNCHANGED everShort

AuditNext ==
  \E c \in ClientIds :
    \/ RecordOrder(c)
    \/ RecordTrade(c)
    \/ \E orderId \in 0 .. nextOrderId : RecordCancel(c, orderId)
    \/ /\ EnterProcessOrder(c) \/ StampBenchmarkStart(c) \/ FinishOrder(c)
       /\ UNCHANGED <<ledger, everShort>>

AuditSpec == AuditInit /\ [][AuditNext]_auditVars

AuditFairness ==
  \A c \in ClientIds :
    /\ WF_auditVars(StampBenchmarkStart(c) /\ UNCHANGED <<ledger, everShort>>)
    /\ SF_auditVars(RecordOrder(c))
    /\ WF_auditVars(RecordTrade(c))
    /\ WF_auditVars(FinishOrder(c) /\ UNCHANGED <<ledger, everShort>>)

FairAuditSpec == AuditSpec /\ AuditFairness

-----------------------------------------------------------------------------
(* Totals over the history.                                                *)

OrdersOf(c, type) ==
  {i \in DOMAIN ledger : ledger[i].clientId = c /\ ledger[i].type = type}

Filled(ids) == MapThenSumSet(LAMBDA i : ledger[i].filled, ids)

Cost(ids) == MapThenSumSet(LAMBDA i : ledger[i].cost, ids)

-----------------------------------------------------------------------------
(* Safety.                                                                 *)

\* No quantity is lost or made up by popping an order and pushing back its
\* remainder (matchOrders), nor by rebuilding the queues (cancelOrder): what
\* rests is what was ordered less what was traded, and an order that is gone
\* without having been cancelled was traded in full.  So the trade history,
\* from which getTotalVolume and getVWAP are taken, accounts for both sides.
NoQuantityLost ==
  \A i \in DOMAIN ledger :
    IF IsResting(i)
    THEN \A o \in Entry(i) : o.quantity = ledger[i].quantity - ledger[i].filled
    ELSE ledger[i].cancelled \/ ledger[i].filled = ledger[i].quantity

\* The positions the engine shows to clients agree with what their orders
\* executed, also when a client trades with itself and both references of
\* matchOrders lead to one entry.
PositionsMatchFills ==
  \A c \in ClientIds :
    clientPositions[c].quantity =
      Filled(OrdersOf(c, "BUY")) - Filled(OrdersOf(c, "SELL"))

\* Over all its executions a buy order pays at most its limit per unit, and a
\* sell order receives at least its limit.  (With negative quantities, which
\* nothing rejects, a purchase is a sale and the limits are the wrong way round.)
LimitsHonoured ==
  (\A i \in DOMAIN ledger : ledger[i].quantity >= 0) =>
    \A i \in DOMAIN ledger :
      IF ledger[i].type = "BUY"
      THEN ledger[i].cost <= ledger[i].price * ledger[i].filled
      ELSE ledger[i].cost >= ledger[i].price * ledger[i].filled

\* Among orders of positive quantities, for a client that never was short, the
\* average price is a number, and the cost of the position it holds at that
\* price is the cash it laid out plus the profit it realized.  Once short, or
\* after an order of quantity 0, the engine's numbers mean nothing of the kind:
\* the division by the new quantity may be one by zero.
CostBasisIdentity ==
  (\A i \in DOMAIN ledger : ledger[i].quantity > 0) => \A c \in ClientIds \ everShort :
    LET p == clientPositions[c]
    IN  SameAmount(Times(p.averagePrice, p.quantity),
                   Plus(Whole(Cost(OrdersOf(c, "BUY")) - Cost(OrdersOf(c, "SELL"))),
                        p.realizedPnL))

\* Once cancelOrder took an order out of the book no trade touches it again,
\* whatever part of it had been executed before.
CancelIsFinal ==
  [][\A i \in DOMAIN ledger : ledger[i].cancelled => ledger'[i] = ledger[i]]_auditVars

-----------------------------------------------------------------------------
(* The engine implements the serial exchange.                              *)

Register ==
  [i \in DOMAIN ledger |->
     [clientId |-> ledger[i].clientId, type |-> ledger[i].type,
      price |-> ledger[i].price, quantity |-> ledger[i].quantity,
      filled |-> ledger[i].filled, open |-> IsResting(i)]]

Abstract == INSTANCE Exchange WITH orders <- Register, tape <- trades

\* Every step of the threaded engine is a step of the serial exchange or none:
\* best prices first, remainders kept, nothing accepted or cancelled while
\* the book can trade.
ImplementsExchange == Abstract!Spec

\* And a book that can trade does trade, although the engine stops at nothing
\* but the end of its loop.
ExchangeProgress == Abstract!Fairness

=============================================================================
