---------------------------- MODULE EngineProofs ----------------------------
(***************************************************************************)
(* Proofs about the engine, for any finite set of clients, any prices that *)
(* satisfy PriceAssumption, any integer quantities and any bounds.  First  *)
(* MatchingEngine: types, the book, the mutexes, the reports.  Then        *)
(* EngineAudit: what became of every order, the limit prices, and the      *)
(* serial Exchange the engine implements.  Last the accounting: positions  *)
(* agree with what the orders executed, average prices with what was paid. *)
(***************************************************************************)
EXTENDS EngineAudit, Totals, SequenceTheorems

-----------------------------------------------------------------------------
(* The operators of Positions and OrderBook stay within their types.       *)

LEMMA PlusType ==
  ASSUME NEW a \in Amount, NEW b \in Amount
  PROVE  Plus(a, b) \in Amount
<1>1. a.den * b.den \in Nat
  BY SMT DEF Amount
<1>2. /\ a.num * b.den + b.num * a.den \in Int
      /\ 0 \in Int /\ 0 \in Nat /\ a.num \in Int
  BY SMT DEF Amount
<1> QED
  BY <1>1, <1>2 DEF Plus, Amount

LEMMA TimesType ==
  ASSUME NEW a \in Amount, NEW k \in Int
  PROVE  Times(a, k) \in Amount
BY SMT DEF Times, Amount

LEMMA WholeType ==
  ASSUME NEW n \in Int
  PROVE  Whole(n) \in Amount
BY DEF Whole, Amount

LEMMA DividedByType ==
  ASSUME NEW a \in Amount, NEW k \in Int
  PROVE  DividedBy(a, k) \in Amount
<1>1. CASE k < 0
  <2>1. a.den * (-k) \in Nat
    BY <1>1, SMT DEF Amount
  <2> QED
    BY <1>1, <2>1 DEF DividedBy, Amount
<1>2. CASE ~(k < 0)
  <2>1. a.den * k \in Nat
    BY <1>2, SMT DEF Amount
  <2> QED
    BY <1>2, <2>1 DEF DividedBy, Amount
<1> QED
  BY <1>1, <1>2

LEMMA AfterBuyType ==
  ASSUME NEW p \in PositionInfo, NEW price \in Int, NEW q \in Int
  PROVE  AfterBuy(p, price, q) \in PositionInfo
<1> DEFINE totalCost == Plus(Times(p.averagePrice, p.quantity), Whole(price * q))
<1>1. p.quantity \in Int /\ p.averagePrice \in Amount
  BY DEF PositionInfo
<1>2. price * q \in Int /\ p.quantity + q \in Int
  BY <1>1
<1>3. totalCost \in Amount
  BY <1>1, <1>2, PlusType, TimesType, WholeType
<1>4. DividedBy(totalCost, p.quantity + q) \in Amount
  BY <1>2, <1>3, DividedByType
<1> HIDE DEF totalCost
<1>5. AfterBuy(p, price, q) =
        [p EXCEPT !.quantity     = p.quantity + q,
                  !.averagePrice = DividedBy(totalCost, p.quantity + q)]
  BY DEF AfterBuy, totalCost
<1> QED
  BY <1>2, <1>4, <1>5 DEF PositionInfo

LEMMA AfterSellType ==
  ASSUME NEW p \in PositionInfo, NEW price \in Int, NEW q \in Int
  PROVE  AfterSell(p, price, q) \in PositionInfo
<1> DEFINE profit == Times(Minus(Whole(price), p.averagePrice), q)
<1>1. /\ p.quantity \in Int
      /\ p.averagePrice \in Amount
      /\ p.realizedPnL \in Amount
  BY DEF PositionInfo
<1>2. Times(p.averagePrice, -1) \in Amount
  BY <1>1, TimesType
<1>3. profit \in Amount
  BY <1>2, PlusType, TimesType, WholeType DEF Minus
<1>4. Plus(p.realizedPnL, profit) \in Amount
  BY <1>1, <1>3, PlusType
<1>5. Whole(0) \in Amount /\ p.quantity - q \in Int
  BY <1>1, WholeType
<1> QED
  BY <1>1, <1>4, <1>5 DEF AfterSell, PositionInfo

\* One trade leaves every position well formed, also when the buyer is the
\* seller and when a division by zero was made.
LEMMA AfterTradeType ==
  ASSUME NEW positions \in [ClientIds -> PositionInfo],
         NEW buyer \in ClientIds, NEW seller \in ClientIds,
         NEW price \in Int, NEW q \in Int
  PROVE  AfterTrade(positions, buyer, seller, price, q)
           \in [ClientIds -> PositionInfo]
<1> DEFINE bought == [positions EXCEPT ![buyer] = AfterBuy(positions[buyer], price, q)]
<1>1. bought \in [ClientIds -> PositionInfo]
  BY AfterBuyType
<1> HIDE DEF bought
<1>2. AfterSell(bought[seller], price, q) \in PositionInfo
  BY <1>1, AfterSellType
<1>3. AfterTrade(positions, buyer, seller, price, q) =
        [bought EXCEPT ![seller] = AfterSell(bought[seller], price, q)]
  BY DEF AfterTrade, Credit, bought
<1> QED
  BY <1>1, <1>2, <1>3

LEMMA ReducedType ==
  ASSUME NEW queue \in SUBSET Order, NEW top \in queue, NEW q \in Int
  PROVE  Reduced(queue, top, q) \in SUBSET Order
<1> DEFINE rest == [top EXCEPT !.quantity = top.quantity - q]
<1>1. top \in Order /\ top.quantity - q \in Int
  BY DEF Order
<1>2. rest \in Order
  BY <1>1 DEF Order
<1> QED
  BY <1>2 DEF Reduced

\* What a queue holds after an execution is what it held before, but for the
\* quantity of one order.
LEMMA ReducedKeeps ==
  ASSUME NEW queue \in SUBSET Order, NEW top \in queue, NEW q \in Int,
         NEW o \in Reduced(queue, top, q)
  PROVE  \E p \in queue : /\ p.id = o.id /\ p.price = o.price /\ p.type = o.type
                          /\ p \in queue \ {top} => o = p
                          /\ p = top \/ p = o
<1> DEFINE rest == [top EXCEPT !.quantity = top.quantity - q]
<1>1. o \in queue \ {top} \/ o = rest
  BY DEF Reduced
<1>2. CASE o \in queue \ {top}
  BY <1>2
<1>3. CASE o = rest
  <2>1. top \in Order
    OBVIOUS
  <2>2. rest.id = top.id /\ rest.price = top.price /\ rest.type = top.type
    BY <2>1 DEF Order
  <2> QED
    BY <1>3, <2>2
<1> QED
  BY <1>1, <1>2, <1>3

LEMMA TradedQtyType ==
  ASSUME NEW b \in Order, NEW s \in Order
  PROVE  TradedQty(b, s) \in Int
BY DEF TradedQty, Order

-----------------------------------------------------------------------------
(* The inductive invariant.                                                *)

\* A call that has not reached the lock carries an order.
CallsCarryOrders ==
  \A c \in ClientIds : pc[c] \in {"counted", "locking"} => order[c] \in Order

\* The handler that matches is the holder of the mutex, and conversely.
LockDiscipline ==
  \A c \in ClientIds : pc[c] = "matching" <=> engineMutex = c

IInv ==
  /\ StateTyped
  /\ CallsCarryOrders
  /\ LockDiscipline
  /\ SidesKept
  /\ UniqueIds
  /\ OnlyIncomingCrosses
  /\ UncrossedWhenUnlocked

LEMMA InitInvariant == Init => IInv
<1> SUFFICES ASSUME Init PROVE IInv
  OBVIOUS
<1> USE DEF Init
<1>1. NoPosition \in PositionInfo
  BY WholeType DEF NoPosition, PositionInfo
<1>2. StateTyped
  <2>1. trades \in Seq(Trade)
    OBVIOUS
  <2>2. clientPositions \in [ClientIds -> PositionInfo]
    BY <1>1
  <2>3. /\ pc \in [ClientIds -> {"idle", "counted", "locking", "matching"}]
        /\ order \in [ClientIds -> Order \cup {NoOrder}]
    OBVIOUS
  <2>4. /\ nextOrderId \in Nat \ {0}
        /\ totalOrdersProcessed \in Nat /\ latencySamples \in Nat /\ reports \in Nat
    OBVIOUS
  <2>5. /\ buyOrders \subseteq Order /\ sellOrders \subseteq Order
        /\ engineMutex \in ClientIds \cup {Nobody} /\ benchmarkStart \in BOOLEAN
    OBVIOUS
  <2> QED
    BY <2>1, <2>2, <2>3, <2>4, <2>5 DEF StateTyped
<1>3. CallsCarryOrders /\ LockDiscipline
  BY ClientsAssumption DEF CallsCarryOrders, LockDiscipline
<1>4. SidesKept /\ UniqueIds /\ OnlyIncomingCrosses /\ UncrossedWhenUnlocked
  BY DEF SidesKept, UniqueIds, Resting, OnlyIncomingCrosses, UncrossedWhenUnlocked
<1> QED
  BY <1>2, <1>3, <1>4 DEF IInv

\* The facts about the book survive a step that changes neither the book nor
\* the mutex nor the next id.
LEMMA BookInvariant ==
  ASSUME IInv, UNCHANGED <<buyOrders, sellOrders, nextOrderId, engineMutex>>
  PROVE  (SidesKept /\ UniqueIds /\ OnlyIncomingCrosses /\ UncrossedWhenUnlocked)'
BY DEF IInv, SidesKept, UniqueIds, Resting, LastId, OnlyIncomingCrosses,
       UncrossedWhenUnlocked, Crossing

LEMMA EnterInvariant ==
  ASSUME IInv, NEW c \in ClientIds, EnterProcessOrder(c)
  PROVE  IInv'
<1> USE DEF EnterProcessOrder, bookVars, metricVars
<1>1. PICK type \in OrderType, price \in Prices, quantity \in Quantities :
        order' = [order EXCEPT ![c] =
                   [id |-> 1, clientId |-> c, type |-> type,
                    price |-> price, quantity |-> quantity]]
  OBVIOUS
<1>2. [id |-> 1, clientId |-> c, type |-> type,
       price |-> price, quantity |-> quantity] \in Order
  BY QuantityAssumption DEF Order
<1>3. StateTyped'
  BY <1>1, <1>2 DEF IInv, StateTyped
<1>4. CallsCarryOrders'
  BY <1>1, <1>2 DEF IInv, StateTyped, CallsCarryOrders
<1>5. LockDiscipline'
  BY DEF IInv, StateTyped, LockDiscipline
<1> QED
  BY <1>3, <1>4, <1>5, BookInvariant DEF IInv

LEMMA StampInvariant ==
  ASSUME IInv, NEW c \in ClientIds, StampBenchmarkStart(c)
  PROVE  IInv'
<1> USE DEF StampBenchmarkStart, bookVars, metricVars
<1>1. StateTyped'
  <2>1. benchmarkStart' \in BOOLEAN
    BY Zenon DEF IInv, StateTyped
  <2> QED
    BY <2>1 DEF IInv, StateTyped
<1>2. CallsCarryOrders'
  BY DEF IInv, StateTyped, CallsCarryOrders
<1>3. LockDiscipline'
  BY DEF IInv, StateTyped, LockDiscipline
<1> QED
  BY <1>1, <1>2, <1>3, BookInvariant DEF IInv

LEMMA BookOrderInvariant ==
  ASSUME IInv, NEW c \in ClientIds, BookOrder(c)
  PROVE  IInv'
<1> USE DEF BookOrder, bookVars, metricVars
<1> DEFINE booked == Booked(order[c], nextOrderId)
<1>1. /\ order[c] \in Order
      /\ nextOrderId \in Nat \ {0} /\ nextOrderId' = nextOrderId + 1
      /\ engineMutex' # Nobody
  BY ClientsAssumption DEF IInv, StateTyped, CallsCarryOrders
<1>2. booked \in Order /\ booked.id = nextOrderId
  BY <1>1 DEF Booked, Order
<1>3. \/ booked.type = "BUY" /\ buyOrders' = buyOrders \cup {booked}
                             /\ sellOrders' = sellOrders
      \/ booked.type # "BUY" /\ sellOrders' = sellOrders \cup {booked}
                             /\ buyOrders' = buyOrders
  BY DEF IsBuy
<1> HIDE DEF booked
<1>4. StateTyped'
  BY <1>1, <1>2, <1>3 DEF IInv, StateTyped
<1>5. CallsCarryOrders' /\ LockDiscipline'
  BY ClientsAssumption DEF IInv, StateTyped, CallsCarryOrders, LockDiscipline
<1>6. SidesKept'
  BY <1>2, <1>3 DEF IInv, SidesKept, Order, OrderType
<1>7. UniqueIds'
  <2>1. Resting' = Resting \cup {booked}
    BY <1>3 DEF Resting
  <2>2. \A o \in Resting : o \in Order /\ o.id <= nextOrderId - 1
    BY DEF IInv, StateTyped, UniqueIds, Resting, LastId
  <2>3. \A o \in Resting : o.id < nextOrderId
    BY <1>1, <2>2 DEF Order
  <2> QED
    BY <1>1, <1>2, <2>1, <2>2, <2>3 DEF IInv, UniqueIds, LastId, Order
<1>8. OnlyIncomingCrosses'
  <2>1. \A b \in buyOrders, s \in sellOrders : ~Crossing(b, s)
    <3> SUFFICES ASSUME NEW b \in buyOrders, NEW s \in sellOrders
                 PROVE  ~Crossing(b, s)
      OBVIOUS
    <3>1. b.price < s.price
      BY DEF IInv, UncrossedWhenUnlocked
    <3>2. b.price \in Int /\ s.price \in Int
      BY PriceAssumption DEF IInv, StateTyped, Order
    <3> QED
      BY <3>1, <3>2 DEF Crossing
  <2>2. LastId' = nextOrderId
    BY <1>1 DEF LastId
  <2> QED
    BY <1>2, <1>3, <2>1, <2>2 DEF OnlyIncomingCrosses, Crossing
<1>9. UncrossedWhenUnlocked'
  BY <1>1 DEF UncrossedWhenUnlocked
<1> QED
  BY <1>4, <1>5, <1>6, <1>7, <1>8, <1>9 DEF IInv

LEMMA MatchInvariant ==
  ASSUME IInv, NEW c \in ClientIds, MatchOrders(c)
  PROVE  IInv'
<1>1. PICK topBuy \in TopBuys(buyOrders), topSell \in TopSells(sellOrders) :
        LET tradedQty == TradedQty(topBuy, topSell)
        IN  /\ Crossing(topBuy, topSell)
            /\ clientPositions' =
                 AfterTrade(clientPositions, topBuy.clientId, topSell.clientId,
                            topSell.price, tradedQty)
            /\ trades' = Append(trades, [price    |-> topSell.price,
                                         quantity |-> tradedQty])
            /\ buyOrders'  = Reduced(buyOrders, topBuy, tradedQty)
            /\ sellOrders' = Reduced(sellOrders, topSell, tradedQty)
  BY DEF MatchOrders
<1> DEFINE q == TradedQty(topBuy, topSell)
<1>2. /\ topBuy \in buyOrders /\ topSell \in sellOrders
      /\ topBuy \in Order /\ topSell \in Order
      /\ buyOrders \in SUBSET Order /\ sellOrders \in SUBSET Order
  BY DEF TopBuys, TopSells, IInv, StateTyped
<1>3. q \in Int /\ topSell.price \in Prices /\ topSell.price \in Int
  BY <1>2, TradedQtyType, PriceAssumption DEF Order
<1>4. /\ buyOrders'  = Reduced(buyOrders, topBuy, q)
      /\ sellOrders' = Reduced(sellOrders, topSell, q)
      /\ UNCHANGED <<nextOrderId, engineMutex, metricVars, callVars>>
  BY <1>1 DEF MatchOrders
<1>5. LastId' = LastId /\ nextOrderId \in Nat
  BY <1>4 DEF LastId, IInv, StateTyped
<1> HIDE DEF q
<1>6. StateTyped'
  <2>1. clientPositions' \in [ClientIds -> PositionInfo]
    <3>1. /\ clientPositions \in [ClientIds -> PositionInfo]
          /\ topBuy.clientId \in ClientIds /\ topSell.clientId \in ClientIds
      BY <1>2 DEF IInv, StateTyped, Order
    <3>2. clientPositions' = AfterTrade(clientPositions, topBuy.clientId,
                                        topSell.clientId, topSell.price, q)
      BY <1>1 DEF q
    <3> QED
      BY <1>3, <3>1, <3>2, AfterTradeType
  <2>2. trades' \in Seq(Trade)
    <3>1. trades' = Append(trades, [price |-> topSell.price, quantity |-> q])
      BY <1>1 DEF q
    <3>2. [price |-> topSell.price, quantity |-> q] \in Trade
      BY <1>3 DEF Trade
    <3>3. trades \in Seq(Trade)
      BY DEF IInv, StateTyped
    <3> QED
      BY <3>1, <3>2, <3>3
  <2>3. buyOrders' \subseteq Order /\ sellOrders' \subseteq Order
    BY <1>2, <1>3, <1>4, ReducedType
  <2> QED
    BY <1>4, <2>1, <2>2, <2>3 DEF IInv, StateTyped, metricVars, callVars
<1>7. CallsCarryOrders' /\ LockDiscipline'
  BY <1>4 DEF IInv, CallsCarryOrders, LockDiscipline, callVars
<1>8. \A o \in buyOrders' :
        \E p \in buyOrders : /\ p.id = o.id /\ p.price = o.price /\ p.type = o.type
                             /\ p = topBuy \/ p = o
  BY <1>2, <1>3, <1>4, ReducedKeeps
<1>9. \A o \in sellOrders' :
        \E p \in sellOrders : /\ p.id = o.id /\ p.price = o.price /\ p.type = o.type
                              /\ p = topSell \/ p = o
  BY <1>2, <1>3, <1>4, ReducedKeeps
<1>10. SidesKept'
  BY <1>8, <1>9 DEF IInv, SidesKept
<1>11. UniqueIds'
  <2>1. \A o \in Resting' : \E p \in Resting : p.id = o.id /\ p.type = o.type
    BY <1>8, <1>9 DEF Resting
  <2>2. \A o \in Resting' : o.id <= LastId'
    BY <1>5, <2>1 DEF IInv, UniqueIds
  <2>3. ASSUME NEW o \in buyOrders', NEW p \in buyOrders', o.id = p.id
        PROVE  o = p
    BY <1>2, <1>4, <2>3 DEF IInv, UniqueIds, Resting, Reduced, Order
  <2>4. ASSUME NEW o \in sellOrders', NEW p \in sellOrders', o.id = p.id
        PROVE  o = p
    BY <1>2, <1>4, <2>4 DEF IInv, UniqueIds, Resting, Reduced, Order
  <2>5. ASSUME NEW o \in buyOrders', NEW p \in sellOrders'
        PROVE  o.id # p.id
    BY <1>8, <1>9 DEF IInv, UniqueIds, Resting, SidesKept
  <2> QED
    BY <2>2, <2>3, <2>4, <2>5 DEF UniqueIds, Resting
<1>12. OnlyIncomingCrosses'
  BY <1>5, <1>8, <1>9 DEF IInv, OnlyIncomingCrosses, Crossing
<1>13. UncrossedWhenUnlocked'
  <2>1. engineMutex' = c
    BY <1>4 DEF MatchOrders, IInv, LockDiscipline
  <2> QED
    BY <2>1, ClientsAssumption DEF UncrossedWhenUnlocked
<1> QED
  BY <1>6, <1>7, <1>10, <1>11, <1>12, <1>13 DEF IInv

\* A queue that is not empty has a top, and no order in it has a better price.
LEMMA BestBuy ==
  ASSUME NEW queue \in SUBSET Order, NEW b \in queue
  PROVE  \E top \in TopBuys(queue) : b.price <= top.price
<1> DEFINE S == {o.price : o \in queue}
<1>1. S \in SUBSET Prices /\ S # {} /\ \A o \in queue : o.price \in Int
  BY PriceAssumption DEF Order
<1>2. PICK hi \in S : \A p \in S : p <= hi
  BY <1>1, PriceAssumption
<1>3. PICK top \in queue : top.price = hi
  BY <1>2
<1>4. \A p \in queue : p.price <= top.price /\ ~(top.price < p.price)
  BY <1>1, <1>2, <1>3
<1> QED
  BY <1>3, <1>4 DEF TopBuys, BuyComparator

LEMMA BestSell ==
  ASSUME NEW queue \in SUBSET Order, NEW s \in queue
  PROVE  \E top \in TopSells(queue) : top.price <= s.price
<1> DEFINE S == {o.price : o \in queue}
<1>1. S \in SUBSET Prices /\ S # {} /\ \A o \in queue : o.price \in Int
  BY PriceAssumption DEF Order
<1>2. PICK lo \in S : \A p \in S : lo <= p
  BY <1>1, PriceAssumption
<1>3. PICK top \in queue : top.price = lo
  BY <1>2
<1>4. \A p \in queue : top.price <= p.price /\ ~(top.price > p.price)
  BY <1>1, <1>2, <1>3
<1> QED
  BY <1>3, <1>4 DEF TopSells, SellComparator

\* matchOrders looks at the two tops only; when they do not match, no pair does.
LEMMA LoopDoneUncrossed ==
  ASSUME NEW buys \in SUBSET Order, NEW sells \in SUBSET Order,
         LoopDone(buys, sells), NEW b \in buys, NEW s \in sells
  PROVE  b.price < s.price
<1>1. PICK topBuy \in TopBuys(buys) : b.price <= topBuy.price
  BY BestBuy
<1>2. PICK topSell \in TopSells(sells) : topSell.price <= s.price
  BY BestSell
<1>3. ~(topBuy.price >= topSell.price)
  BY <1>1, <1>2 DEF LoopDone, Crossing
<1>4. /\ b.price \in Int /\ s.price \in Int
      /\ topBuy.price \in Int /\ topSell.price \in Int
  BY PriceAssumption DEF TopBuys, TopSells, Order
<1> QED
  BY <1>1, <1>2, <1>3, <1>4

LEMMA FinishInvariant ==
  ASSUME IInv, NEW c \in ClientIds, FinishOrder(c)
  PROVE  IInv'
<1> USE DEF FinishOrder, bookVars
<1>1. StateTyped'
  BY DEF IInv, StateTyped
<1>2. CallsCarryOrders'
  BY DEF IInv, StateTyped, CallsCarryOrders
<1>3. LockDiscipline'
  BY ClientsAssumption DEF IInv, StateTyped, LockDiscipline
<1>4. SidesKept' /\ UniqueIds' /\ OnlyIncomingCrosses'
  BY DEF IInv, SidesKept, UniqueIds, Resting, LastId, OnlyIncomingCrosses, Crossing
<1>5. UncrossedWhenUnlocked'
  BY LoopDoneUncrossed DEF IInv, StateTyped, UncrossedWhenUnlocked
<1> QED
  BY <1>1, <1>2, <1>3, <1>4, <1>5 DEF IInv

LEMMA CancelInvariant ==
  ASSUME IInv, NEW c \in ClientIds, NEW orderId \in 0 .. nextOrderId,
         CancelOrder(c, orderId)
  PROVE  IInv'
<1>1. /\ buyOrders' \subseteq buyOrders /\ sellOrders' \subseteq sellOrders
      /\ UNCHANGED <<trades, clientPositions, nextOrderId, engineMutex,
                     metricVars, callVars>>
  BY DEF CancelOrder, Without
<1>2. StateTyped'
  BY <1>1 DEF IInv, StateTyped, metricVars, callVars
<1>3. CallsCarryOrders' /\ LockDiscipline'
  BY <1>1 DEF IInv, CallsCarryOrders, LockDiscipline, callVars
<1>4. SidesKept' /\ UniqueIds'
  BY <1>1 DEF IInv, SidesKept, UniqueIds, Resting, LastId
<1>5. OnlyIncomingCrosses' /\ UncrossedWhenUnlocked'
  BY <1>1 DEF IInv, OnlyIncomingCrosses, UncrossedWhenUnlocked, Crossing, LastId
<1> QED
  BY <1>2, <1>3, <1>4, <1>5 DEF IInv

LEMMA NextInvariant == IInv /\ [Next]_vars => IInv'
<1> SUFFICES ASSUME IInv, [Next]_vars PROVE IInv'
  OBVIOUS
<1>1. ASSUME NEW c \in ClientIds, EnterProcessOrder(c) PROVE IInv'
  BY <1>1, EnterInvariant
<1>2. ASSUME NEW c \in ClientIds, StampBenchmarkStart(c) PROVE IInv'
  BY <1>2, StampInvariant
<1>3. ASSUME NEW c \in ClientIds, BookOrder(c) PROVE IInv'
  BY <1>3, BookOrderInvariant
<1>4. ASSUME NEW c \in ClientIds, MatchOrders(c) PROVE IInv'
  BY <1>4, MatchInvariant
<1>5. ASSUME NEW c \in ClientIds, FinishOrder(c) PROVE IInv'
  BY <1>5, FinishInvariant
<1>6. ASSUME NEW c \in ClientIds, NEW orderId \in 0 .. nextOrderId,
             CancelOrder(c, orderId)
      PROVE  IInv'
  BY <1>6, CancelInvariant
<1>7. CASE UNCHANGED vars
  <2>1. StateTyped' /\ CallsCarryOrders' /\ LockDiscipline'
    BY <1>7 DEF IInv, StateTyped, CallsCarryOrders, LockDiscipline,
                vars, bookVars, metricVars, callVars
  <2> QED
    BY <1>7, <2>1, BookInvariant DEF IInv, vars, bookVars
<1> QED
  BY <1>1, <1>2, <1>3, <1>4, <1>5, <1>6, <1>7 DEF Next

LEMMA Invariant == Spec => []IInv
BY InitInvariant, NextInvariant, PTL DEF Spec

-----------------------------------------------------------------------------
(* The theorems.                                                           *)

\* Every variable has its type in every reachable state and every resting order
\* is in the queue of its side, whatever clients send; a division by zero in the
\* accounting leaves a PositionInfo.
THEOREM TypeCorrect == Spec => []TypeOK
<1>1. IInv => TypeOK
  BY DEF IInv, TypeOK
<1> QED
  BY <1>1, Invariant, PTL

\* The ids the server assigns identify the resting orders, for cancelOrder.
THEOREM IdsStayUnique == Spec => []UniqueIds
<1>1. IInv => UniqueIds
  BY DEF IInv
<1> QED
  BY <1>1, Invariant, PTL

\* Two orders that both rested before the incoming one never match.
THEOREM OnlyTheIncomingOrderTrades == Spec => []OnlyIncomingCrosses
<1>1. IInv => OnlyIncomingCrosses
  BY DEF IInv
<1> QED
  BY <1>1, Invariant, PTL

\* Whoever obtains engineMutex finds the best bid below the best ask.
THEOREM BookUncrossedWhenUnlocked == Spec => []UncrossedWhenUnlocked
<1>1. IInv => UncrossedWhenUnlocked
  BY DEF IInv
<1> QED
  BY <1>1, Invariant, PTL

-----------------------------------------------------------------------------
(* How often the performance report can be printed.                        *)

Busy == {c \in ClientIds : pc[c] # "idle"}

\* While the counter stands at the threshold nobody can enter, so the calls
\* that may still print are the ones under way.
ReportInv ==
  /\ totalOrdersProcessed < ReportAt => reports = 0
  /\ totalOrdersProcessed = ReportAt =>
       reports + Cardinality(Busy) <= Cardinality(ClientIds)
  /\ ReportsBounded

LEMMA BusyIsBounded ==
  /\ IsFiniteSet(Busy) /\ Cardinality(Busy) \in Nat
  /\ Cardinality(ClientIds) \in Nat
  /\ Cardinality(Busy) <= Cardinality(ClientIds)
BY ClientsAssumption, FS_Subset, FS_CardinalityType DEF Busy

LEMMA ReportInit == Init => ReportInv
<1> SUFFICES ASSUME Init PROVE ReportInv
  OBVIOUS
<1>1. Cardinality(Busy) <= Cardinality(ClientIds) /\ Cardinality(Busy) \in Nat
  BY BusyIsBounded
<1> QED
  BY <1>1, BusyIsBounded, ReportAssumption DEF Init, ReportInv, ReportsBounded

\* A step that neither counts an order nor prints nor changes who is busy.
LEMMA ReportStutter ==
  ASSUME ReportInv, UNCHANGED <<totalOrdersProcessed, reports, Busy>>
  PROVE  ReportInv'
BY DEF ReportInv, ReportsBounded

LEMMA ReportEnter ==
  ASSUME StateTyped, ReportInv, NEW c \in ClientIds, EnterProcessOrder(c)
  PROVE  ReportInv'
<1>1. /\ totalOrdersProcessed' = totalOrdersProcessed + 1
      /\ totalOrdersProcessed \in Nat /\ reports' = reports
  BY DEF EnterProcessOrder, StateTyped
<1>2. /\ Cardinality(Busy') <= Cardinality(ClientIds)
      /\ Cardinality(Busy') \in Nat /\ Cardinality(ClientIds) \in Nat
  <2>1. Busy' \subseteq ClientIds
    BY DEF Busy
  <2> QED
    BY <2>1, ClientsAssumption, FS_Subset, FS_CardinalityType
<1>3. totalOrdersProcessed' <= ReportAt => reports' = 0
  BY <1>1, ReportAssumption DEF ReportInv
<1> QED
  BY <1>1, <1>2, <1>3, ReportAssumption DEF ReportInv, ReportsBounded

LEMMA ReportFinish ==
  ASSUME StateTyped, ReportInv, NEW c \in ClientIds, FinishOrder(c)
  PROVE  ReportInv'
<1>1. Busy' = Busy \ {c} /\ c \in Busy
  BY DEF FinishOrder, Busy, StateTyped
<1>2. Cardinality(Busy') = Cardinality(Busy) - 1
  BY <1>1, BusyIsBounded, FS_RemoveElement
<1>3. Cardinality(Busy') \in Nat
  <2>1. Busy' \subseteq Busy
    BY <1>1
  <2> QED
    BY <2>1, BusyIsBounded, FS_Subset, FS_CardinalityType
<1>4. totalOrdersProcessed' = totalOrdersProcessed /\ totalOrdersProcessed \in Nat
  BY DEF FinishOrder, StateTyped
<1>5. reports \in Nat /\ reports' = reports +
        (IF ReportDue(totalOrdersProcessed, ReportAt) THEN 1 ELSE 0)
  BY DEF FinishOrder, StateTyped
<1>6. CASE totalOrdersProcessed = ReportAt
  <2>1. reports' = reports + 1
    BY <1>5, <1>6 DEF ReportDue
  <2>2. reports' + Cardinality(Busy') <= Cardinality(ClientIds)
    BY <1>2, <1>5, <1>6, <2>1, BusyIsBounded DEF ReportInv
  <2> QED
    BY <1>3, <1>4, <1>5, <1>6, <2>1, <2>2, BusyIsBounded, ReportAssumption
       DEF ReportInv, ReportsBounded
<1>7. CASE totalOrdersProcessed # ReportAt
  <2>1. reports' = reports
    BY <1>5, <1>7 DEF ReportDue
  <2> QED
    BY <1>4, <1>7, <2>1 DEF ReportInv, ReportsBounded
<1> QED
  BY <1>6, <1>7

LEMMA ReportStep == IInv /\ ReportInv /\ [Next]_vars => ReportInv'
<1> SUFFICES ASSUME IInv, ReportInv, [Next]_vars PROVE ReportInv'
  OBVIOUS
<1>1. StateTyped
  BY DEF IInv
<1>2. ASSUME NEW c \in ClientIds, EnterProcessOrder(c) PROVE ReportInv'
  BY <1>1, <1>2, ReportEnter
<1>3. ASSUME NEW c \in ClientIds, StampBenchmarkStart(c) PROVE ReportInv'
  <2>1. Busy' = Busy
    BY <1>1, <1>3 DEF StampBenchmarkStart, Busy, StateTyped
  <2> QED
    BY <1>3, <2>1, ReportStutter DEF StampBenchmarkStart
<1>4. ASSUME NEW c \in ClientIds, BookOrder(c) PROVE ReportInv'
  <2>1. Busy' = Busy
    BY <1>1, <1>4 DEF BookOrder, Busy, StateTyped
  <2> QED
    BY <1>4, <2>1, ReportStutter DEF BookOrder, metricVars
<1>5. ASSUME NEW c \in ClientIds, MatchOrders(c) PROVE ReportInv'
  BY <1>5, ReportStutter DEF MatchOrders, metricVars, callVars, Busy
<1>6. ASSUME NEW c \in ClientIds, FinishOrder(c) PROVE ReportInv'
  BY <1>1, <1>6, ReportFinish
<1>7. ASSUME NEW c \in ClientIds, NEW orderId \in 0 .. nextOrderId,
             CancelOrder(c, orderId)
      PROVE  ReportInv'
  BY <1>7, ReportStutter DEF CancelOrder, metricVars, callVars, Busy
<1>8. CASE UNCHANGED vars
  BY <1>8, ReportStutter DEF vars, metricVars, callVars, Busy
<1> QED
  BY <1>2, <1>3, <1>4, <1>5, <1>6, <1>7, <1>8 DEF Next

\* However the calls interleave, the report is printed at most once per client.
THEOREM ReportsPerClient == Spec => []ReportsBounded
<1>1. ReportInv => ReportsBounded
  BY DEF ReportInv
<1>2. Spec => []ReportInv
  BY Invariant, ReportInit, ReportStep, PTL DEF Spec
<1> QED
  BY <1>1, <1>2, PTL

-----------------------------------------------------------------------------
(* The audited engine is the engine.                                       *)

LEMMA AuditIsEngine == AuditSpec => Spec
<1>1. AuditInit => Init
  BY DEF AuditInit
<1>2. [AuditNext]_auditVars => [Next]_vars
  BY DEF AuditNext, auditVars, Next, RecordOrder, RecordTrade, RecordCancel
<1> QED
  BY <1>1, <1>2, PTL DEF AuditSpec, Spec

LEMMA EngineInvariant == AuditSpec => []IInv
BY AuditIsEngine, Invariant, PTL

-----------------------------------------------------------------------------
(* The inductive invariant.                                                *)

LedgerEntry ==
  [clientId : ClientIds, type : OrderType, price : Prices, quantity : Int,
   filled : Int, cost : Int, cancelled : BOOLEAN]

\* The ledger has one entry per id given out.
LedgerType ==
  /\ ledger \in Seq(LedgerEntry)
  /\ Len(ledger) = LastId
  /\ everShort \subseteq ClientIds

\* What rests in the book is an order of the ledger, with what is left of it.
RestingRecorded ==
  \A o \in Resting :
    /\ o.id \in DOMAIN ledger
    /\ ledger[o.id].clientId = o.clientId
    /\ ledger[o.id].type = o.type
    /\ ledger[o.id].price = o.price
    /\ o.quantity = ledger[o.id].quantity - ledger[o.id].filled
    /\ ~ledger[o.id].cancelled

GoneAccounted ==
  \A i \in DOMAIN ledger :
    ~IsResting(i) => ledger[i].cancelled \/ ledger[i].filled = ledger[i].quantity

\* A call carries the client that makes it and the quantity it was sent with.
CallsNamed ==
  \A c \in ClientIds :
    pc[c] \in {"counted", "locking"} =>
      order[c].clientId = c /\ order[c].quantity \in Quantities

AuditInv == LedgerType /\ RestingRecorded /\ GoneAccounted /\ CallsNamed

LEMMA AuditInitInvariant == AuditInit => AuditInv
<1> SUFFICES ASSUME AuditInit PROVE AuditInv
  OBVIOUS
<1>1. Resting = {}
  BY DEF AuditInit, Init, Resting
<1>2. ledger = <<>> /\ everShort = {} /\ LastId = 0
  BY DEF AuditInit, Init, LastId
<1> QED
  BY <1>1, <1>2 DEF AuditInv, LedgerType, RestingRecorded, GoneAccounted, CallsNamed,
                    AuditInit, Init

\* A step that leaves the book and the history alone.
LEMMA AuditStutter ==
  ASSUME AuditInv, UNCHANGED <<buyOrders, sellOrders, nextOrderId, ledger, everShort>>
  PROVE  (LedgerType /\ RestingRecorded /\ GoneAccounted)'
BY DEF AuditInv, LedgerType, RestingRecorded, GoneAccounted, Resting, LastId,
       IsResting, Entry

\* What RecordOrder adds: one open order under the next id.
LEMMA OrderRecorded ==
  ASSUME IInv, AuditInv, NEW c \in ClientIds, RecordOrder(c)
  PROVE  LET new    == [clientId |-> c, type |-> order[c].type, price |-> order[c].price,
                        quantity |-> order[c].quantity, filled |-> 0, cost |-> 0,
                        cancelled |-> FALSE]
             booked == Booked(order[c], nextOrderId)
         IN  /\ new \in LedgerEntry
             /\ ledger' = Append(ledger, new)
             /\ booked \in Order /\ booked.id = nextOrderId
             /\ Resting' = Resting \cup {booked}
             /\ nextOrderId \in Nat /\ nextOrderId' = nextOrderId + 1
             /\ Len(ledger) = nextOrderId - 1
             /\ order[c] \in Order
<1>1. /\ order[c] \in Order /\ nextOrderId \in Nat
      /\ nextOrderId' = nextOrderId + 1
  BY DEF IInv, StateTyped, CallsCarryOrders, RecordOrder, BookOrder
<1>2. Booked(order[c], nextOrderId) \in Order /\ Booked(order[c], nextOrderId).id = nextOrderId
  BY <1>1 DEF Booked, Order
<1>3. Resting' = Resting \cup {Booked(order[c], nextOrderId)}
  BY DEF RecordOrder, BookOrder, Resting
<1>4. [clientId |-> c, type |-> order[c].type, price |-> order[c].price,
       quantity |-> order[c].quantity, filled |-> 0, cost |-> 0,
       cancelled |-> FALSE] \in LedgerEntry
  BY <1>1 DEF Order, LedgerEntry
<1>5. Len(ledger) = nextOrderId - 1
  BY DEF AuditInv, LedgerType, LastId
<1> QED
  BY <1>1, <1>2, <1>3, <1>4, <1>5 DEF RecordOrder

\* At most one resting order carries an id.
LEMMA EntryOf ==
  ASSUME IInv, NEW o \in Resting
  PROVE  Entry(o.id) = {o}
BY DEF IInv, UniqueIds, Entry

\* An order or what was executed of it, once a trade of q at p was charged to it.
Charged(e, p, q) ==
  [e EXCEPT !.filled = @ + q, !.cost = @ + p * q]

\* What one iteration of the matching loop does to the book, and how it is
\* written down: the trade is charged to the two tops and to no other order.
Executes(b, s, q) ==
  /\ b \in TopBuys(buyOrders) /\ s \in TopSells(sellOrders)
  /\ b \in Order /\ s \in Order
  /\ Crossing(b, s)
  /\ q = TradedQty(b, s) /\ q \in Int
  /\ b.id \in DOMAIN ledger /\ s.id \in DOMAIN ledger /\ b.id # s.id
  /\ trades' = Append(trades, [price |-> s.price, quantity |-> q])
  /\ clientPositions' =
       AfterTrade(clientPositions, b.clientId, s.clientId, s.price, q)
  /\ buyOrders' = Reduced(buyOrders, b, q)
  /\ sellOrders' = Reduced(sellOrders, s, q)
  /\ ledger' = [i \in DOMAIN ledger |->
                  IF i \in {b.id, s.id} THEN Charged(ledger[i], s.price, q) ELSE ledger[i]]

\* The place of an order in the book after an execution of b against s.
LEMMA EntryAfter ==
  ASSUME IInv, NEW b \in buyOrders, NEW s \in sellOrders, NEW q \in Int,
         buyOrders' = Reduced(buyOrders, b, q), sellOrders' = Reduced(sellOrders, s, q),
         NEW i
  PROVE  /\ i = b.id => Entry(i)' = IF b.quantity - q > 0
                                    THEN {[b EXCEPT !.quantity = b.quantity - q]} ELSE {}
         /\ i = s.id => Entry(i)' = IF s.quantity - q > 0
                                    THEN {[s EXCEPT !.quantity = s.quantity - q]} ELSE {}
         /\ i \notin {b.id, s.id} => Entry(i)' = Entry(i)
<1> DEFINE bRest == [b EXCEPT !.quantity = b.quantity - q]
           sRest == [s EXCEPT !.quantity = s.quantity - q]
<1>1. b \in Order /\ s \in Order /\ b \in Resting /\ s \in Resting
  BY DEF IInv, StateTyped, Resting
<1>2. /\ bRest.id = b.id /\ bRest.quantity = b.quantity - q
      /\ sRest.id = s.id /\ sRest.quantity = s.quantity - q
  BY <1>1 DEF Order
<1>3. b.id # s.id
  BY <1>1 DEF IInv, UniqueIds, SidesKept
<1>4. buyOrders' = (buyOrders \ {b}) \cup (IF b.quantity - q > 0 THEN {bRest} ELSE {})
  BY <1>2 DEF Reduced
<1>5. sellOrders' = (sellOrders \ {s}) \cup (IF s.quantity - q > 0 THEN {sRest} ELSE {})
  BY <1>2 DEF Reduced
<1>6. \A o \in Resting : /\ o.id = b.id => o = b
                         /\ o.id = s.id => o = s
  BY <1>1 DEF IInv, UniqueIds
<1>7. b \notin sellOrders /\ s \notin buyOrders
  BY DEF IInv, SidesKept
<1> HIDE DEF bRest, sRest
<1>8. Resting' = (Resting \ {b, s}) \cup (IF b.quantity - q > 0 THEN {bRest} ELSE {})
                                     \cup (IF s.quantity - q > 0 THEN {sRest} ELSE {})
  BY <1>4, <1>5, <1>7 DEF Resting
<1>9. Entry(i)' = {o \in Resting' : o.id = i}
  BY DEF Entry
<1>10. CASE i = b.id
  BY <1>2, <1>3, <1>6, <1>8, <1>9, <1>10 DEF bRest
<1>11. CASE i = s.id
  BY <1>2, <1>3, <1>6, <1>8, <1>9, <1>11 DEF sRest
<1>12. CASE i # b.id /\ i # s.id
  BY <1>2, <1>8, <1>9, <1>12 DEF Entry
<1> QED
  BY <1>3, <1>10, <1>11, <1>12 DEF bRest, sRest

LEMMA ChargedType ==
  ASSUME NEW e \in LedgerEntry, NEW p \in Int, NEW q \in Int
  PROVE  /\ Charged(e, p, q) \in LedgerEntry
         /\ Charged(e, p, q).clientId = e.clientId
         /\ Charged(e, p, q).type = e.type
         /\ Charged(e, p, q).price = e.price
         /\ Charged(e, p, q).quantity = e.quantity
         /\ Charged(e, p, q).cancelled = e.cancelled
         /\ Charged(e, p, q).filled = e.filled + q
         /\ Charged(e, p, q).cost = e.cost + p * q
         /\ q = 0 => Charged(e, p, q) = e
<1>1. p * q \in Int /\ (q = 0 => p * q = 0)
  OBVIOUS
<1> DEFINE r == p * q
<1>2. e.filled + q \in Int /\ e.cost + r \in Int
  BY <1>1 DEF LedgerEntry
<1>3. q = 0 => e.filled + q = e.filled /\ e.cost + r = e.cost
  BY <1>1 DEF LedgerEntry
<1>4. Charged(e, p, q) = [e EXCEPT !.filled = e.filled + q, !.cost = e.cost + r]
  BY DEF Charged
<1> HIDE DEF r
<1>5. Charged(e, p, q) = [clientId |-> e.clientId, type |-> e.type, price |-> e.price,
                          quantity |-> e.quantity, filled |-> e.filled + q,
                          cost |-> e.cost + r, cancelled |-> e.cancelled]
  BY <1>4 DEF LedgerEntry
<1> QED
  BY <1>2, <1>3, <1>5 DEF LedgerEntry, r

LEMMA TradeRecorded ==
  ASSUME IInv, AuditInv, NEW c \in ClientIds, RecordTrade(c)
  PROVE  \E b \in buyOrders, s \in sellOrders, q \in Int : Executes(b, s, q)
<1>1. PICK b \in TopBuys(buyOrders), s \in TopSells(sellOrders) :
        LET q == TradedQty(b, s)
        IN  /\ Crossing(b, s)
            /\ clientPositions' =
                 AfterTrade(clientPositions, b.clientId, s.clientId, s.price, q)
            /\ trades' = Append(trades, [price |-> s.price, quantity |-> q])
            /\ buyOrders'  = Reduced(buyOrders, b, q)
            /\ sellOrders' = Reduced(sellOrders, s, q)
  BY DEF RecordTrade, MatchOrders
<1> DEFINE q == TradedQty(b, s)
<1>2. /\ b \in buyOrders /\ s \in sellOrders /\ b \in Resting /\ s \in Resting
      /\ b \in Order /\ s \in Order
  BY DEF TopBuys, TopSells, IInv, StateTyped, Resting
<1>3. q \in Int /\ s.price \in Int
  BY <1>2, TradedQtyType, PriceAssumption DEF Order
<1>4. /\ b.id \in DOMAIN ledger /\ s.id \in DOMAIN ledger
      /\ b.quantity \in Int /\ s.quantity \in Int
  BY <1>2 DEF AuditInv, RestingRecorded, Order
<1>5. b.id # s.id
  BY <1>2 DEF IInv, UniqueIds, SidesKept
<1>6. Last(trades') = [price |-> s.price, quantity |-> q]
  <2>1. trades \in Seq(Trade) /\ [price |-> s.price, quantity |-> q] \in Trade
    BY <1>2, <1>3 DEF IInv, StateTyped, Trade, Order
  <2>2. trades' = Append(trades, [price |-> s.price, quantity |-> q])
    BY <1>1
  <2>3. Len(trades') = Len(trades) + 1 /\ trades'[Len(trades) + 1] = [price |-> s.price, quantity |-> q]
    BY <2>1, <2>2, AppendProperties
  <2> QED
    BY <2>3 DEF Last
<1>7. ASSUME NEW i \in DOMAIN ledger
      PROVE  ledger'[i] = IF i \in {b.id, s.id} THEN Charged(ledger[i], s.price, q)
                                                ELSE ledger[i]
  <2>1. ledger'[i] = IF Entry(i) = Entry(i)' THEN ledger[i] ELSE Charged(ledger[i], s.price, q)
    <3>1. ledger'[i] = IF Entry(i) = Entry(i)' THEN ledger[i]
                       ELSE Charged(ledger[i], Last(trades').price, Last(trades').quantity)
      BY Zenon DEF RecordTrade, Charged
    <3>2. Last(trades').price = s.price /\ Last(trades').quantity = q
      BY <1>6
    <3> QED
      BY <3>1, <3>2, Zenon
  <2>2. buyOrders' = Reduced(buyOrders, b, q) /\ sellOrders' = Reduced(sellOrders, s, q)
    BY <1>1
  <2>3. ledger[i] \in LedgerEntry
    BY ElementOfSeq, LenProperties DEF AuditInv, LedgerType
  <2> HIDE DEF q
  <2>4. CASE i = b.id
    <3>1. Entry(i) = {b}
      BY <1>2, <2>4, EntryOf
    <3>2. Entry(i)' = IF b.quantity - q > 0
                      THEN {[b EXCEPT !.quantity = b.quantity - q]} ELSE {}
      BY <1>2, <1>3, <2>2, <2>4, EntryAfter
    <3>3. Entry(i) = Entry(i)' => q = 0
      BY <1>2, <1>3, <3>1, <3>2 DEF Order
    <3> QED
      BY <1>3, <2>1, <2>3, <2>4, <3>3, ChargedType
  <2>5. CASE i = s.id
    <3>1. Entry(i) = {s}
      BY <1>2, <2>5, EntryOf
    <3>2. Entry(i)' = IF s.quantity - q > 0
                      THEN {[s EXCEPT !.quantity = s.quantity - q]} ELSE {}
      BY <1>2, <1>3, <1>5, <2>2, <2>5, EntryAfter
    <3>3. Entry(i) = Entry(i)' => q = 0
      BY <1>2, <1>3, <3>1, <3>2 DEF Order
    <3> QED
      BY <1>3, <2>1, <2>3, <2>5, <3>3, ChargedType
  <2>6. CASE i \notin {b.id, s.id}
    <3>1. Entry(i)' = Entry(i)
      BY <1>2, <1>3, <2>2, <2>6, EntryAfter
    <3> QED
      BY <2>1, <2>6, <3>1
  <2> QED
    BY <2>4, <2>5, <2>6
<1>8. ledger' = [i \in DOMAIN ledger |->
                  IF i \in {b.id, s.id} THEN Charged(ledger[i], s.price, q) ELSE ledger[i]]
  <2>1. ledger' = [i \in DOMAIN ledger |-> ledger'[i]]
    BY DEF RecordTrade
  <2> HIDE DEF q
  <2> QED
    BY <1>7, <2>1
<1>9. Executes(b, s, q)
  <2>1. /\ Crossing(b, s)
        /\ clientPositions' =
             AfterTrade(clientPositions, b.clientId, s.clientId, s.price, q)
        /\ trades' = Append(trades, [price |-> s.price, quantity |-> q])
        /\ buyOrders'  = Reduced(buyOrders, b, q)
        /\ sellOrders' = Reduced(sellOrders, s, q)
    BY <1>1
  <2> HIDE DEF q
  <2>2. q = TradedQty(b, s)
    BY DEF q
  <2> QED
    BY <1>2, <1>3, <1>4, <1>5, <1>8, <2>1, <2>2 DEF Executes
<1> QED
  BY <1>2, <1>3, <1>9

LEMMA RecordOrderInvariant ==
  ASSUME IInv, AuditInv, NEW c \in ClientIds, RecordOrder(c)
  PROVE  (LedgerType /\ RestingRecorded /\ GoneAccounted)'
<1> DEFINE new    == [clientId |-> c, type |-> order[c].type, price |-> order[c].price,
                      quantity |-> order[c].quantity, filled |-> 0, cost |-> 0,
                      cancelled |-> FALSE]
           booked == Booked(order[c], nextOrderId)
<1>1. /\ new \in LedgerEntry
      /\ ledger' = Append(ledger, new)
      /\ booked \in Order /\ booked.id = nextOrderId
      /\ Resting' = Resting \cup {booked}
      /\ nextOrderId \in Nat /\ nextOrderId' = nextOrderId + 1
      /\ Len(ledger) = nextOrderId - 1
      /\ order[c] \in Order
  BY OrderRecorded
<1>2. /\ booked.clientId = new.clientId /\ booked.type = new.type
      /\ booked.price = new.price /\ booked.quantity = new.quantity - new.filled
      /\ new.cancelled = FALSE
  <2>1. order[c].clientId = c
    BY DEF RecordOrder, BookOrder, AuditInv, CallsNamed
  <2> QED
    BY <1>1, <2>1 DEF Booked, Order
<1>3. ledger \in Seq(LedgerEntry)
  BY DEF AuditInv, LedgerType
<1> HIDE DEF new, booked
<1>4. /\ ledger' \in Seq(LedgerEntry) /\ Len(ledger') = nextOrderId
      /\ \A i \in 1 .. Len(ledger) : ledger'[i] = ledger[i]
      /\ ledger'[nextOrderId] = new
  BY <1>1, <1>3, AppendProperties
<1>5. /\ DOMAIN ledger = 1 .. (nextOrderId - 1)
      /\ DOMAIN ledger' = 1 .. nextOrderId
  BY <1>1, <1>3, <1>4, LenProperties
<1>6. LedgerType'
  BY <1>1, <1>4 DEF LedgerType, LastId, AuditInv, RecordOrder
<1>7. RestingRecorded'
  BY <1>1, <1>2, <1>4, <1>5 DEF RestingRecorded, AuditInv
<1>8. ASSUME NEW i \in DOMAIN ledger' PROVE IsResting(i)' <=> IsResting(i) \/ i = nextOrderId
  BY <1>1 DEF IsResting, Entry
<1>9. GoneAccounted'
  BY <1>1, <1>4, <1>5, <1>8 DEF GoneAccounted, AuditInv
<1> QED
  BY <1>6, <1>7, <1>9

\* What an execution leaves of the two orders: it fills one of them.
LEMMA TradedQtyFills ==
  ASSUME NEW b \in Order, NEW s \in Order
  PROVE  /\ b.quantity - TradedQty(b, s) >= 0
         /\ s.quantity - TradedQty(b, s) >= 0
BY DEF TradedQty, Order

\* The ledger after an execution.
LEMMA LedgerAfter ==
  ASSUME AuditInv, NEW b \in buyOrders, NEW s \in sellOrders, NEW q \in Int,
         Executes(b, s, q)
  PROVE  /\ DOMAIN ledger' = DOMAIN ledger
         /\ ledger' \in Seq(LedgerEntry) /\ Len(ledger') = Len(ledger)
         /\ \A i \in {b.id, s.id} : ledger'[i] = Charged(ledger[i], s.price, q)
         /\ \A i \in DOMAIN ledger \ {b.id, s.id} : ledger'[i] = ledger[i]
<1>1. s.price \in Int /\ ledger \in Seq(LedgerEntry)
  BY PriceAssumption DEF Executes, Order, AuditInv, LedgerType
<1>2. /\ DOMAIN ledger' = DOMAIN ledger
      /\ \A i \in DOMAIN ledger :
           ledger'[i] = IF i \in {b.id, s.id} THEN Charged(ledger[i], s.price, q) ELSE ledger[i]
      /\ b.id \in DOMAIN ledger /\ s.id \in DOMAIN ledger
      /\ ledger' = [i \in DOMAIN ledger |-> ledger'[i]]
  BY DEF Executes
<1>3. DOMAIN ledger = 1 .. Len(ledger) /\ Len(ledger) \in Nat
  BY <1>1, LenProperties
<1>4. \A i \in DOMAIN ledger : ledger[i] \in LedgerEntry
  BY <1>1, <1>3, ElementOfSeq
<1>5. ASSUME NEW i \in 1 .. Len(ledger) PROVE ledger'[i] \in LedgerEntry
  <2>1. Charged(ledger[i], s.price, q) \in LedgerEntry
    BY <1>1, <1>3, <1>4, ChargedType
  <2> QED
    BY <1>2, <1>3, <1>4, <2>1
<1>6. ledger' = [i \in 1 .. Len(ledger) |-> ledger'[i]]
  BY <1>2, <1>3
<1>7. ledger' \in Seq(LedgerEntry)
  BY <1>3, <1>5, <1>6, IsASeq
<1>8. Len(ledger') = Len(ledger)
  BY <1>2, <1>3, <1>7, LenProperties
<1> QED
  BY <1>2, <1>7, <1>8

LEMMA TradeInvariant ==
  ASSUME IInv, AuditInv, NEW c \in ClientIds, RecordTrade(c)
  PROVE  (LedgerType /\ RestingRecorded /\ GoneAccounted)'
<1>1. PICK b \in buyOrders, s \in sellOrders, q \in Int : Executes(b, s, q)
  BY TradeRecorded
<1>2. /\ b \in Order /\ s \in Order /\ b \in Resting /\ s \in Resting
      /\ b.id # s.id /\ b.id \in DOMAIN ledger /\ s.id \in DOMAIN ledger
      /\ s.price \in Int
      /\ b.quantity - q >= 0 /\ s.quantity - q >= 0
      /\ b.quantity \in Int /\ s.quantity \in Int
  BY <1>1, TradedQtyFills, PriceAssumption DEF Executes, Resting, Order
<1>3. /\ buyOrders' = Reduced(buyOrders, b, q) /\ sellOrders' = Reduced(sellOrders, s, q)
      /\ nextOrderId' = nextOrderId
  BY <1>1 DEF Executes, RecordTrade, MatchOrders
<1>4. /\ DOMAIN ledger' = DOMAIN ledger
      /\ ledger' \in Seq(LedgerEntry) /\ Len(ledger') = Len(ledger)
      /\ \A i \in {b.id, s.id} : ledger'[i] = Charged(ledger[i], s.price, q)
      /\ \A i \in DOMAIN ledger \ {b.id, s.id} : ledger'[i] = ledger[i]
  BY <1>1, LedgerAfter
<1>5. LedgerType'
  BY <1>3, <1>4 DEF LedgerType, LastId, AuditInv, RecordTrade
<1>6. \A i \in DOMAIN ledger : ledger[i] \in LedgerEntry
  BY ElementOfSeq, LenProperties DEF AuditInv, LedgerType
\* One of the two orders that traded: what rests of it, and what is written.
<1>7. ASSUME NEW top \in {b, s}
      PROVE  /\ Entry(top.id)' = IF top.quantity - q > 0
                                 THEN {[top EXCEPT !.quantity = top.quantity - q]} ELSE {}
             /\ ledger'[top.id].clientId = top.clientId
             /\ ledger'[top.id].type = top.type
             /\ ledger'[top.id].price = top.price
             /\ ledger'[top.id].quantity - ledger'[top.id].filled = top.quantity - q
             /\ ~ledger'[top.id].cancelled
             /\ ledger'[top.id].quantity \in Int /\ ledger'[top.id].filled \in Int
  <2> DEFINE i == top.id
  <2>1. /\ top \in Resting /\ i \in {b.id, s.id} /\ i \in DOMAIN ledger
        /\ top.quantity \in Int
    BY <1>2
  <2>2. Entry(i)' = IF top.quantity - q > 0
                    THEN {[top EXCEPT !.quantity = top.quantity - q]} ELSE {}
    <3>1. CASE top = b
      BY <1>2, <1>3, <3>1, EntryAfter
    <3>2. CASE top = s
      BY <1>2, <1>3, <3>2, EntryAfter
    <3> QED
      BY <3>1, <3>2
  <2>3. /\ ledger[i].clientId = top.clientId /\ ledger[i].type = top.type
        /\ ledger[i].price = top.price /\ ~ledger[i].cancelled
        /\ top.quantity = ledger[i].quantity - ledger[i].filled
    BY <2>1 DEF AuditInv, RestingRecorded
  <2>4. ledger[i] \in LedgerEntry
    BY <1>6, <2>1
  <2>5. ledger'[i] = Charged(ledger[i], s.price, q)
    BY <1>4, <2>1
  <2>6. /\ ledger'[i].clientId = ledger[i].clientId /\ ledger'[i].type = ledger[i].type
        /\ ledger'[i].price = ledger[i].price /\ ledger'[i].quantity = ledger[i].quantity
        /\ ledger'[i].cancelled = ledger[i].cancelled
        /\ ledger'[i].filled = ledger[i].filled + q
    BY <1>2, <2>4, <2>5, ChargedType
  <2>7. ledger[i].quantity \in Int /\ ledger[i].filled \in Int
    BY <2>4 DEF LedgerEntry
  <2> HIDE DEF i
  <2>8. /\ ledger'[i].clientId = top.clientId /\ ledger'[i].type = top.type
        /\ ledger'[i].price = top.price /\ ~ledger'[i].cancelled
        /\ ledger'[i].quantity - ledger'[i].filled = top.quantity - q
        /\ ledger'[i].quantity \in Int /\ ledger'[i].filled \in Int
    BY <2>3, <2>6, <2>7
  <2> QED
    BY <2>2, <2>8 DEF i
<1>8. ASSUME NEW i, i \notin {b.id, s.id} PROVE Entry(i)' = Entry(i)
  BY <1>2, <1>3, <1>8, EntryAfter
<1>9. RestingRecorded'
  <2> SUFFICES ASSUME NEW o \in Resting'
               PROVE  /\ o.id \in DOMAIN ledger'
                      /\ ledger'[o.id].clientId = o.clientId
                      /\ ledger'[o.id].type = o.type
                      /\ ledger'[o.id].price = o.price
                      /\ o.quantity = ledger'[o.id].quantity - ledger'[o.id].filled
                      /\ ~ledger'[o.id].cancelled
    BY DEF RestingRecorded
  <2>1. o \in Entry(o.id)'
    BY DEF Entry
  <2>2. ASSUME NEW top \in {b, s}, o.id = top.id
        PROVE  /\ o.clientId = top.clientId /\ o.type = top.type /\ o.price = top.price
               /\ o.quantity = top.quantity - q
    <3>1. o = [top EXCEPT !.quantity = top.quantity - q]
      BY <1>7, <2>1, <2>2
    <3> QED
      BY <1>2, <3>1 DEF Order
  <2>3. CASE o.id \in {b.id, s.id}
    BY <1>2, <1>4, <1>7, <2>2, <2>3
  <2>4. CASE o.id \notin {b.id, s.id}
    <3>1. o \in Resting
      BY <1>8, <2>1, <2>4 DEF Entry
    <3> QED
      BY <1>4, <2>4, <3>1 DEF AuditInv, RestingRecorded
  <2> QED
    BY <2>3, <2>4
<1>10. GoneAccounted'
  <2> SUFFICES ASSUME NEW i \in DOMAIN ledger', ~IsResting(i)'
               PROVE  ledger'[i].cancelled \/ ledger'[i].filled = ledger'[i].quantity
    BY DEF GoneAccounted
  <2>1. ASSUME NEW top \in {b, s}, i = top.id
        PROVE  ledger'[i].filled = ledger'[i].quantity
    <3>1. ~(top.quantity - q > 0)
      BY <1>7, <2>1 DEF IsResting
    <3>2. top.quantity - q = 0
      BY <1>2, <3>1
    <3>3. /\ ledger'[i].quantity - ledger'[i].filled = 0
          /\ ledger'[i].quantity \in Int /\ ledger'[i].filled \in Int
      BY <1>7, <2>1, <3>2
    <3> QED
      BY <3>3
  <2>2. CASE i \in {b.id, s.id}
    BY <2>1, <2>2
  <2>3. CASE i \notin {b.id, s.id}
    <3>1. i \in DOMAIN ledger /\ ledger'[i] = ledger[i] /\ ~IsResting(i)
      BY <1>4, <1>8, <2>3 DEF IsResting
    <3> QED
      BY <3>1 DEF AuditInv, GoneAccounted
  <2> QED
    BY <2>2, <2>3
<1> QED
  BY <1>5, <1>9, <1>10

\* What a cancel writes, and what it leaves in the book.
LEMMA CancelRecorded ==
  ASSUME IInv, AuditInv, NEW c \in ClientIds, NEW orderId, RecordCancel(c, orderId)
  PROVE  /\ Resting' = {o \in Resting : o.id # orderId}
         /\ \A i : Entry(i)' = IF i = orderId THEN {} ELSE Entry(i)
         /\ DOMAIN ledger' = DOMAIN ledger
         /\ ledger' \in Seq(LedgerEntry) /\ Len(ledger') = Len(ledger)
         /\ \A i \in DOMAIN ledger :
              /\ ledger[i] \in LedgerEntry
              /\ ~(i = orderId /\ IsResting(i)) => ledger'[i] = ledger[i]
              /\ i = orderId /\ IsResting(i) =>
                   ledger'[i] = [ledger[i] EXCEPT !.cancelled = TRUE]
<1>1. Resting' = {o \in Resting : o.id # orderId}
  BY DEF RecordCancel, CancelOrder, Without, Resting
<1>2. \A i : Entry(i)' = IF i = orderId THEN {} ELSE Entry(i)
  BY <1>1 DEF Entry
<1>3. /\ ledger \in Seq(LedgerEntry) /\ DOMAIN ledger = 1 .. Len(ledger)
      /\ Len(ledger) \in Nat
  BY LenProperties DEF AuditInv, LedgerType
<1>4. \A i \in DOMAIN ledger : ledger[i] \in LedgerEntry
  BY <1>3, ElementOfSeq
<1>5. ledger' = [i \in DOMAIN ledger |->
                  [ledger[i] EXCEPT !.cancelled = ledger[i].cancelled
                                                  \/ (i = orderId /\ IsResting(i))]]
  BY DEF RecordCancel
<1>6. ASSUME NEW i \in DOMAIN ledger
      PROVE  /\ ledger'[i] \in LedgerEntry
             /\ ~(i = orderId /\ IsResting(i)) => ledger'[i] = ledger[i]
             /\ i = orderId /\ IsResting(i) =>
                  ledger'[i] = [ledger[i] EXCEPT !.cancelled = TRUE]
  <2>1. ledger'[i] = [ledger[i] EXCEPT !.cancelled = ledger[i].cancelled
                                                  \/ (i = orderId /\ IsResting(i))]
    BY <1>5
  <2>2. ledger[i] \in LedgerEntry /\ ledger[i].cancelled \in BOOLEAN
    BY <1>4 DEF LedgerEntry
  <2>3. CASE i = orderId /\ IsResting(i)
    <3>1. (ledger[i].cancelled \/ (i = orderId /\ IsResting(i))) = TRUE
      BY <2>2, <2>3, Zenon
    <3>2. ledger'[i] = [ledger[i] EXCEPT !.cancelled = TRUE]
      BY <2>1, <3>1
    <3> QED
      BY <2>2, <2>3, <3>2 DEF LedgerEntry
  <2>4. CASE ~(i = orderId /\ IsResting(i))
    <3>1. (ledger[i].cancelled \/ (i = orderId /\ IsResting(i))) = ledger[i].cancelled
      BY <2>2, <2>4, Zenon
    <3>2. ledger'[i] = [ledger[i] EXCEPT !.cancelled = ledger[i].cancelled]
      BY <2>1, <3>1
    <3>3. ledger'[i] = ledger[i]
      BY <2>2, <3>2 DEF LedgerEntry
    <3> QED
      BY <2>2, <2>4, <3>3
  <2> QED
    BY <2>3, <2>4
<1>7. DOMAIN ledger' = DOMAIN ledger
  BY <1>5
<1>8. ledger' = [i \in 1 .. Len(ledger) |-> ledger'[i]]
  BY <1>3, <1>5
<1>9. ledger' \in Seq(LedgerEntry)
  BY <1>3, <1>6, <1>8, IsASeq
<1>10. Len(ledger') = Len(ledger)
  BY <1>3, <1>7, <1>9, LenProperties
<1> QED
  BY <1>1, <1>2, <1>4, <1>6, <1>7, <1>9, <1>10

LEMMA RecordCancelInvariant ==
  ASSUME IInv, AuditInv, NEW c \in ClientIds, NEW orderId, RecordCancel(c, orderId)
  PROVE  (LedgerType /\ RestingRecorded /\ GoneAccounted)'
<1>1. /\ Resting' = {o \in Resting : o.id # orderId}
      /\ \A i : Entry(i)' = IF i = orderId THEN {} ELSE Entry(i)
      /\ DOMAIN ledger' = DOMAIN ledger
      /\ ledger' \in Seq(LedgerEntry) /\ Len(ledger') = Len(ledger)
      /\ \A i \in DOMAIN ledger :
           /\ ledger[i] \in LedgerEntry
           /\ ~(i = orderId /\ IsResting(i)) => ledger'[i] = ledger[i]
           /\ i = orderId /\ IsResting(i) =>
                ledger'[i] = [ledger[i] EXCEPT !.cancelled = TRUE]
  BY CancelRecorded
<1>2. LedgerType'
  BY <1>1 DEF LedgerType, LastId, AuditInv, RecordCancel, CancelOrder
<1>3. RestingRecorded'
  BY <1>1 DEF RestingRecorded, AuditInv
<1>4. GoneAccounted'
  <2> SUFFICES ASSUME NEW i \in DOMAIN ledger, ~IsResting(i)'
               PROVE  ledger'[i].cancelled \/ ledger'[i].filled = ledger'[i].quantity
    BY <1>1 DEF GoneAccounted
  <2>1. CASE i = orderId /\ IsResting(i)
    BY <1>1, <2>1 DEF LedgerEntry
  <2>2. CASE i = orderId /\ ~IsResting(i)
    BY <1>1, <2>2 DEF AuditInv, GoneAccounted
  <2>3. CASE i # orderId
    <3>1. ledger'[i] = ledger[i] /\ ~IsResting(i)
      BY <1>1, <2>3 DEF IsResting
    <3> QED
      BY <3>1 DEF AuditInv, GoneAccounted
  <2> QED
    BY <2>1, <2>2, <2>3
<1> QED
  BY <1>2, <1>3, <1>4

\* No step gives a call that waits for the lock another order.
LEMMA CallsStayNamed ==
  ASSUME IInv, CallsNamed, [AuditNext]_auditVars
  PROVE  CallsNamed'
<1>1. ASSUME NEW c \in ClientIds, EnterProcessOrder(c) PROVE CallsNamed'
  <2>1. PICK type \in OrderType, price \in Prices, quantity \in Quantities :
          order' = [order EXCEPT ![c] =
                     [id |-> 1, clientId |-> c, type |-> type,
                      price |-> price, quantity |-> quantity]]
    BY <1>1 DEF EnterProcessOrder
  <2>2. pc' = [pc EXCEPT ![c] = "counted"]
    BY <1>1 DEF EnterProcessOrder
  <2> QED
    BY <2>1, <2>2 DEF CallsNamed, IInv, StateTyped
<1>2. ASSUME NEW c \in ClientIds, StampBenchmarkStart(c) PROVE CallsNamed'
  BY <1>2 DEF StampBenchmarkStart, CallsNamed, IInv, StateTyped
<1>3. ASSUME NEW c \in ClientIds, BookOrder(c) PROVE CallsNamed'
  BY <1>3 DEF BookOrder, CallsNamed, IInv, StateTyped
<1>4. ASSUME NEW c \in ClientIds, FinishOrder(c) PROVE CallsNamed'
  BY <1>4 DEF FinishOrder, CallsNamed, IInv, StateTyped
<1>5. CASE UNCHANGED callVars
  BY <1>5 DEF callVars, CallsNamed
<1>6. ASSUME NEW c \in ClientIds, RecordTrade(c) PROVE UNCHANGED callVars
  BY <1>6 DEF RecordTrade, MatchOrders
<1>7. ASSUME NEW c \in ClientIds, NEW orderId, RecordCancel(c, orderId)
      PROVE  UNCHANGED callVars
  BY <1>7 DEF RecordCancel, CancelOrder
<1> QED
  BY <1>1, <1>2, <1>3, <1>4, <1>5, <1>6, <1>7
     DEF AuditNext, auditVars, vars, RecordOrder

LEMMA AuditNextInvariant == IInv /\ AuditInv /\ [AuditNext]_auditVars => AuditInv'
<1> SUFFICES ASSUME IInv, AuditInv, [AuditNext]_auditVars PROVE AuditInv'
  OBVIOUS
<1> DEFINE Kept == LedgerType /\ RestingRecorded /\ GoneAccounted
<1>1. ASSUME NEW c \in ClientIds, RecordOrder(c) PROVE Kept'
  BY <1>1, RecordOrderInvariant
<1>2. ASSUME NEW c \in ClientIds, RecordTrade(c) PROVE Kept'
  BY <1>2, TradeInvariant
<1>3. ASSUME NEW c \in ClientIds, NEW orderId, RecordCancel(c, orderId) PROVE Kept'
  BY <1>3, RecordCancelInvariant
<1>4. ASSUME NEW c \in ClientIds,
             EnterProcessOrder(c) \/ StampBenchmarkStart(c) \/ FinishOrder(c),
             UNCHANGED <<ledger, everShort>>
      PROVE  Kept'
  BY <1>4, AuditStutter DEF EnterProcessOrder, StampBenchmarkStart, FinishOrder, bookVars
<1>5. ASSUME UNCHANGED auditVars PROVE Kept'
  <2>1. UNCHANGED <<buyOrders, sellOrders, nextOrderId, ledger, everShort>>
    BY <1>5 DEF auditVars, vars, bookVars
  <2> QED
    BY <2>1, AuditStutter
<1>6. CallsNamed'
  BY CallsStayNamed DEF AuditInv
<1>7. Kept'
  <2> HIDE DEF Kept
  <2> QED
    BY <1>1, <1>2, <1>3, <1>4, <1>5 DEF AuditNext
<1> QED
  BY <1>6, <1>7 DEF AuditInv

LEMMA AuditInvariant == AuditSpec => [](IInv /\ AuditInv)
<1>1. AuditSpec => []IInv
  BY EngineInvariant
<1>2. AuditSpec => []AuditInv
  BY EngineInvariant, AuditInitInvariant, AuditNextInvariant, PTL DEF AuditSpec
<1> QED
  BY <1>1, <1>2, PTL

\* What rests is what was ordered less what was traded, and an order that left
\* the book without a cancel was traded in full: also between the iterations of
\* the matching loop, and for quantities of zero and below.
THEOREM QuantityIsConserved == AuditSpec => []NoQuantityLost
<1>1. AuditInv => NoQuantityLost
  BY DEF AuditInv, RestingRecorded, GoneAccounted, NoQuantityLost, IsResting, Entry
<1> QED
  BY <1>1, AuditInvariant, PTL

\* An order that a cancel took out of the book is never executed afterwards.
THEOREM CancelsAreFinal == AuditSpec => CancelIsFinal
<1> DEFINE Final == \A i \in DOMAIN ledger : ledger[i].cancelled => ledger'[i] = ledger[i]
<1>1. ASSUME IInv, AuditInv, [AuditNext]_auditVars PROVE Final \/ UNCHANGED auditVars
  <2>1. ASSUME NEW c \in ClientIds, RecordOrder(c) PROVE Final
    <3>1. PICK new \in LedgerEntry : ledger' = Append(ledger, new)
      BY <1>1, <2>1, OrderRecorded
    <3>2. ledger \in Seq(LedgerEntry)
      BY <1>1 DEF AuditInv, LedgerType
    <3>3. \A i \in 1 .. Len(ledger) : ledger'[i] = ledger[i]
      BY <3>1, <3>2, AppendProperties
    <3> QED
      BY <3>2, <3>3, LenProperties
  <2>2. ASSUME NEW c \in ClientIds, RecordTrade(c) PROVE Final
    <3>1. PICK b \in buyOrders, s \in sellOrders, q \in Int : Executes(b, s, q)
      BY <1>1, <2>2, TradeRecorded
    <3>2. ~ledger[b.id].cancelled /\ ~ledger[s.id].cancelled
      BY <1>1 DEF AuditInv, RestingRecorded, Resting
    <3>3. \A i \in DOMAIN ledger \ {b.id, s.id} : ledger'[i] = ledger[i]
      BY <1>1, <3>1, LedgerAfter
    <3> QED
      BY <3>2, <3>3
  <2>3. ASSUME NEW c \in ClientIds, NEW orderId, RecordCancel(c, orderId) PROVE Final
    <3>1. \A i \in DOMAIN ledger :
            ~(i = orderId /\ IsResting(i)) => ledger'[i] = ledger[i]
      BY <1>1, <2>3, CancelRecorded
    <3>2. \A i \in DOMAIN ledger : IsResting(i) => ~ledger[i].cancelled
      BY <1>1 DEF AuditInv, RestingRecorded, IsResting, Entry
    <3> QED
      BY <3>1, <3>2
  <2>4. UNCHANGED ledger => Final
    OBVIOUS
  <2> HIDE DEF Final
  <2> QED
    BY <1>1, <2>1, <2>2, <2>3, <2>4 DEF AuditNext
<1>2. IInv /\ AuditInv /\ [AuditNext]_auditVars => [Final]_auditVars
  BY <1>1
<1> QED
  BY <1>2, AuditInvariant, PTL DEF AuditSpec, CancelIsFinal

-----------------------------------------------------------------------------
(* Limits.                                                                 *)

\* The cost of an order keeps its limit.
KeepsLimit(e) ==
  IF e.type = "BUY" THEN e.cost <= e.price * e.filled ELSE e.cost >= e.price * e.filled

NoNegatives == \A i \in DOMAIN ledger : ledger[i].quantity >= 0

\* Nothing is executed beyond what was ordered, and each execution is within
\* the limit: the first is what makes the executed quantities of the second
\* be none below zero.
LimitsInv ==
  NoNegatives => \A i \in DOMAIN ledger :
                   ledger[i].filled <= ledger[i].quantity /\ KeepsLimit(ledger[i])

\* An execution within the limit keeps the limit.
LEMMA ChargedKeepsLimit ==
  ASSUME NEW e \in LedgerEntry, NEW p \in Int, NEW q \in Int, KeepsLimit(e), q >= 0,
         IF e.type = "BUY" THEN p <= e.price ELSE p >= e.price
  PROVE  KeepsLimit(Charged(e, p, q))
<1>1. /\ e.price \in Int /\ e.filled \in Int /\ e.cost \in Int
  BY PriceAssumption DEF LedgerEntry
<1> DEFINE x == e.price
           n == e.filled
<1>2. x * (n + q) = x * n + x * q
  BY <1>1
<1>3. p * q \in Int /\ x * q \in Int /\ x * n \in Int
  BY <1>1
<1>4. /\ p <= x => p * q <= x * q
      /\ p >= x => p * q >= x * q
  BY <1>1
<1> DEFINE pq == p * q
           xq == x * q
           xn == x * n
           f  == Charged(e, p, q)
<1>5. /\ f.type = e.type /\ f.price = e.price /\ f.filled = e.filled + q
      /\ f.cost = e.cost + pq
  BY ChargedType
<1>6. f.price * f.filled = xn + xq
  BY <1>2, <1>5
<1>7. /\ pq \in Int /\ xq \in Int /\ xn \in Int
      /\ p <= x => pq <= xq
      /\ p >= x => pq >= xq
      /\ IF e.type = "BUY" THEN e.cost <= xn ELSE e.cost >= xn
  BY <1>3, <1>4 DEF KeepsLimit
<1>8. /\ e.type = "BUY" => p <= x
      /\ e.type # "BUY" => p >= x
  OBVIOUS
<1> HIDE DEF pq, xq, xn, f, x, n
<1> QED
  BY <1>1, <1>5, <1>6, <1>7, <1>8 DEF KeepsLimit, f

LEMMA OrderKeepsLimits ==
  ASSUME IInv, AuditInv, LimitsInv, NEW c \in ClientIds, RecordOrder(c)
  PROVE  LimitsInv'
<1>1. PICK new \in LedgerEntry :
        ledger' = Append(ledger, new) /\ new.filled = 0 /\ new.cost = 0
  BY OrderRecorded
<1>2. ledger \in Seq(LedgerEntry)
  BY DEF AuditInv, LedgerType
<1>3. /\ DOMAIN ledger = 1 .. Len(ledger) /\ Len(ledger) \in Nat
      /\ DOMAIN ledger' = 1 .. (Len(ledger) + 1)
      /\ \A i \in 1 .. Len(ledger) : ledger'[i] = ledger[i]
      /\ ledger'[Len(ledger) + 1] = new
  BY <1>1, <1>2, AppendProperties, LenProperties
<1>4. KeepsLimit(new)
  <2>1. new.price \in Int
    BY PriceAssumption DEF LedgerEntry
  <2>2. new.price * 0 = 0
    BY <2>1
  <2> QED
    BY <1>1, <2>2 DEF KeepsLimit
<1>5. SUFFICES ASSUME NoNegatives', NEW i \in DOMAIN ledger'
               PROVE  ledger'[i].filled <= ledger'[i].quantity /\ KeepsLimit(ledger'[i])
  BY DEF LimitsInv, KeepsLimit
<1>6. CASE i \in DOMAIN ledger
  <2>1. NoNegatives
    BY <1>3, <1>5 DEF NoNegatives
  <2>2. ledger'[i] = ledger[i]
    BY <1>3, <1>6
  <2> QED
    BY <1>6, <2>1, <2>2 DEF LimitsInv
<1>7. CASE i \notin DOMAIN ledger
  <2>1. ledger'[i] = new
    BY <1>3, <1>7
  <2> QED
    BY <1>1, <1>4, <1>5, <2>1 DEF NoNegatives
<1> QED
  BY <1>6, <1>7

LEMMA TradeKeepsLimits ==
  ASSUME IInv, AuditInv, LimitsInv, NEW c \in ClientIds, RecordTrade(c)
  PROVE  LimitsInv'
<1>1. PICK b \in buyOrders, s \in sellOrders, q \in Int : Executes(b, s, q)
  BY TradeRecorded
<1>2. /\ b \in Order /\ s \in Order /\ b \in Resting /\ s \in Resting
      /\ b.id \in DOMAIN ledger /\ s.id \in DOMAIN ledger
      /\ s.price \in Int /\ b.price \in Int
      /\ b.price >= s.price
      /\ b.quantity - q >= 0 /\ s.quantity - q >= 0
      /\ q = b.quantity \/ q = s.quantity
      /\ b.quantity \in Int /\ s.quantity \in Int
  BY <1>1, TradedQtyFills, PriceAssumption
     DEF Executes, Resting, Order, Crossing, TradedQty
<1>3. /\ DOMAIN ledger' = DOMAIN ledger
      /\ \A i \in {b.id, s.id} : ledger'[i] = Charged(ledger[i], s.price, q)
      /\ \A i \in DOMAIN ledger \ {b.id, s.id} : ledger'[i] = ledger[i]
  BY <1>1, LedgerAfter
<1>4. \A i \in DOMAIN ledger : ledger[i] \in LedgerEntry
  BY ElementOfSeq, LenProperties DEF AuditInv, LedgerType
<1>5. ASSUME NEW i \in {b.id, s.id}
      PROVE  /\ ledger'[i].quantity = ledger[i].quantity
             /\ ledger'[i].filled = ledger[i].filled + q
  <2>1. ledger[i] \in LedgerEntry /\ ledger'[i] = Charged(ledger[i], s.price, q)
    BY <1>2, <1>3, <1>4
  <2>2. /\ Charged(ledger[i], s.price, q).quantity = ledger[i].quantity
        /\ Charged(ledger[i], s.price, q).filled = ledger[i].filled + q
    BY <1>2, <2>1, ChargedType
  <2> QED
    BY <2>1, <2>2
<1>6. NoNegatives' => NoNegatives
  BY <1>3, <1>5 DEF NoNegatives
<1>7. SUFFICES ASSUME NoNegatives, NEW i \in DOMAIN ledger
               PROVE  ledger'[i].filled <= ledger'[i].quantity /\ KeepsLimit(ledger'[i])
  BY <1>3, <1>6 DEF LimitsInv, KeepsLimit
<1>8. ASSUME NEW top \in {b, s}
      PROVE  /\ top.quantity = ledger[top.id].quantity - ledger[top.id].filled
             /\ top.quantity >= 0
             /\ ledger[top.id].quantity \in Int /\ ledger[top.id].filled \in Int
             /\ ledger[top.id].type = top.type /\ ledger[top.id].price = top.price
  <2>1. /\ top.quantity = ledger[top.id].quantity - ledger[top.id].filled
        /\ ledger[top.id].type = top.type /\ ledger[top.id].price = top.price
    BY <1>2 DEF AuditInv, RestingRecorded
  <2>2. ledger[top.id].filled <= ledger[top.id].quantity
    BY <1>2, <1>7 DEF LimitsInv
  <2>3. ledger[top.id].quantity \in Int /\ ledger[top.id].filled \in Int
    BY <1>2, <1>4 DEF LedgerEntry
  <2> QED
    BY <2>1, <2>2, <2>3
<1>9. q >= 0
  BY <1>2, <1>8
<1>10. ASSUME NEW top \in {b, s}, i = top.id
       PROVE  ledger'[i].filled <= ledger'[i].quantity /\ KeepsLimit(ledger'[i])
  <2>1. /\ top.quantity = ledger[i].quantity - ledger[i].filled
        /\ ledger[i].quantity \in Int /\ ledger[i].filled \in Int
        /\ ledger[i].type = top.type /\ ledger[i].price = top.price
    BY <1>8, <1>10
  <2>2. top.quantity - q >= 0 /\ top.quantity \in Int
    BY <1>2
  <2>3. ledger'[i].filled <= ledger'[i].quantity
    BY <1>5, <1>10, <2>1, <2>2
  <2>4. IF ledger[i].type = "BUY" THEN s.price <= ledger[i].price
                                  ELSE s.price >= ledger[i].price
    BY <1>2, <2>1 DEF IInv, SidesKept
  <2>5. KeepsLimit(ledger[i]) /\ ledger[i] \in LedgerEntry
    BY <1>4, <1>7 DEF LimitsInv
  <2>6. KeepsLimit(Charged(ledger[i], s.price, q))
    BY <1>2, <1>9, <2>4, <2>5, ChargedKeepsLimit
  <2> QED
    BY <1>3, <1>10, <2>3, <2>6
<1>11. CASE i \notin {b.id, s.id}
  BY <1>3, <1>7, <1>11 DEF LimitsInv
<1> QED
  BY <1>10, <1>11

LEMMA CancelKeepsLimits ==
  ASSUME IInv, AuditInv, LimitsInv, NEW c \in ClientIds, NEW orderId,
         RecordCancel(c, orderId)
  PROVE  LimitsInv'
<1>1. DOMAIN ledger' = DOMAIN ledger
  BY CancelRecorded
<1>2. ASSUME NEW i \in DOMAIN ledger
      PROVE  /\ ledger'[i].quantity = ledger[i].quantity
             /\ ledger'[i].filled = ledger[i].filled
             /\ KeepsLimit(ledger'[i]) <=> KeepsLimit(ledger[i])
  <2>1. /\ ledger[i] \in LedgerEntry
        /\ ledger'[i] = ledger[i] \/ ledger'[i] = [ledger[i] EXCEPT !.cancelled = TRUE]
    BY CancelRecorded
  <2> QED
    BY <2>1 DEF LedgerEntry, KeepsLimit
<1> QED
  BY <1>1, <1>2 DEF LimitsInv, NoNegatives, KeepsLimit

\* Over all its executions an order keeps its limit, whatever orders it met.
THEOREM LimitsAreHonoured == AuditSpec => []LimitsHonoured
<1>1. AuditInit => LimitsInv
  BY DEF AuditInit, LimitsInv
<1>2. IInv /\ AuditInv /\ LimitsInv /\ [AuditNext]_auditVars => LimitsInv'
  <2>1. UNCHANGED ledger /\ LimitsInv => LimitsInv'
    BY DEF LimitsInv, NoNegatives, KeepsLimit
  <2>2. UNCHANGED auditVars => UNCHANGED ledger
    BY DEF auditVars
  <2> QED
    BY <2>1, <2>2, OrderKeepsLimits, TradeKeepsLimits, CancelKeepsLimits DEF AuditNext
<1>3. LimitsInv => LimitsHonoured
  BY DEF LimitsInv, LimitsHonoured, NoNegatives, KeepsLimit
<1> QED
  BY <1>1, <1>2, <1>3, AuditInvariant, PTL DEF AuditSpec

-----------------------------------------------------------------------------
(* The engine implements the serial exchange.                              *)

RegisterEntry ==
  [clientId : ClientIds, type : OrderType, price : Prices, quantity : Int,
   filled : Int, open : BOOLEAN]

LEMMA RegisterType ==
  LedgerType => Register \in Seq(RegisterEntry) /\ Len(Register) = Len(ledger)
<1> SUFFICES ASSUME LedgerType
             PROVE  Register \in Seq(RegisterEntry) /\ Len(Register) = Len(ledger)
  OBVIOUS
<1>1. /\ Len(ledger) \in Nat /\ DOMAIN ledger = 1 .. Len(ledger)
      /\ \A i \in 1 .. Len(ledger) : ledger[i] \in LedgerEntry
  BY LenProperties, ElementOfSeq DEF LedgerType
<1>2. Register = [i \in 1 .. Len(ledger) |-> Register[i]]
  BY <1>1 DEF Register
<1>3. ASSUME NEW i \in 1 .. Len(ledger) PROVE Register[i] \in RegisterEntry
  <2> DEFINE rests == IsResting(i)
  <2>1. rests \in BOOLEAN
    BY Zenon DEF IsResting
  <2>2. Register[i] = [clientId |-> ledger[i].clientId, type |-> ledger[i].type,
                       price |-> ledger[i].price, quantity |-> ledger[i].quantity,
                       filled |-> ledger[i].filled, open |-> rests]
    BY <1>1, Zenon DEF Register
  <2> HIDE DEF rests
  <2> QED
    BY <1>1, <2>1, <2>2 DEF RegisterEntry, LedgerEntry
<1>4. Register \in Seq(RegisterEntry)
  BY <1>1, <1>2, <1>3, IsASeq
<1>5. Len(Register) = Len(ledger)
  BY <1>1, <1>2, <1>4, LenProperties
<1> QED
  BY <1>4, <1>5

\* An id is open in the register just when its order rests, on its side, with
\* its price and with what is left of its quantity.
LEMMA RegisterOfBook ==
  ASSUME IInv, AuditInv
  PROVE  /\ DOMAIN Register = DOMAIN ledger
         /\ \A o \in buyOrders : o.id \in Abstract!Bids
         /\ \A o \in sellOrders : o.id \in Abstract!Asks
         /\ \A i \in Abstract!Bids : \E o \in buyOrders : o.id = i
         /\ \A i \in Abstract!Asks : \E o \in sellOrders : o.id = i
         /\ \A o \in Resting : /\ Register[o.id].price = o.price
                               /\ Register[o.id].quantity - Register[o.id].filled = o.quantity
<1>1. /\ DOMAIN Register = DOMAIN ledger
      /\ \A i \in DOMAIN ledger :
           /\ Register[i].type = ledger[i].type
           /\ Register[i].price = ledger[i].price
           /\ Register[i].quantity = ledger[i].quantity
           /\ Register[i].filled = ledger[i].filled
           /\ Register[i].open = IsResting(i)
  BY DEF Register
<1>2. \A i : IsResting(i) <=> \E o \in Resting : o.id = i
  BY DEF IsResting, Entry
<1>3. \A o \in Resting :
        /\ o.id \in DOMAIN ledger /\ ledger[o.id].type = o.type
        /\ ledger[o.id].price = o.price
        /\ o.quantity = ledger[o.id].quantity - ledger[o.id].filled
  BY DEF AuditInv, RestingRecorded
<1>4. /\ \A o \in buyOrders : o \in Resting /\ o.type = "BUY"
      /\ \A o \in sellOrders : o \in Resting /\ o.type = "SELL"
      /\ \A o \in Resting : o \in buyOrders \/ o \in sellOrders
  BY DEF Resting, IInv, SidesKept, StateTyped, Order, OrderType
<1>5. /\ \A i : i \in Abstract!Bids <=> /\ i \in DOMAIN ledger /\ IsResting(i)
                                      /\ ledger[i].type = "BUY"
      /\ \A i : i \in Abstract!Asks <=> /\ i \in DOMAIN ledger /\ IsResting(i)
                                      /\ ledger[i].type = "SELL"
  BY <1>1 DEF Abstract!Bids, Abstract!Asks, Abstract!OpenOf
<1> QED
  BY <1>1, <1>2, <1>3, <1>4, <1>5

\* Nothing can trade while the mutex is free.
LEMMA UncrossedRegister ==
  ASSUME IInv, AuditInv, engineMutex = Nobody
  PROVE  ~Abstract!Crossed
<1>1. SUFFICES ASSUME NEW b \in buyOrders, NEW s \in sellOrders
               PROVE  ~(Register[b.id].price >= Register[s.id].price)
  BY RegisterOfBook DEF Abstract!Crossed
<1>2. /\ Register[b.id].price = b.price /\ Register[s.id].price = s.price
      /\ b.price \in Int /\ s.price \in Int
  BY RegisterOfBook, PriceAssumption DEF Resting, IInv, StateTyped, Order
<1>3. b.price < s.price
  BY DEF IInv, UncrossedWhenUnlocked
<1> QED
  BY <1>2, <1>3

LEMMA ExchangeAccepts ==
  ASSUME IInv, AuditInv, NEW c \in ClientIds, RecordOrder(c)
  PROVE  Abstract!Next
<1> DEFINE new    == [clientId |-> c, type |-> order[c].type, price |-> order[c].price,
                      quantity |-> order[c].quantity, filled |-> 0, cost |-> 0,
                      cancelled |-> FALSE]
           booked == Booked(order[c], nextOrderId)
           entry  == [clientId |-> c, type |-> order[c].type, price |-> order[c].price,
                      quantity |-> order[c].quantity, filled |-> 0, open |-> TRUE]
<1>1. /\ new \in LedgerEntry
      /\ ledger' = Append(ledger, new)
      /\ booked.id = nextOrderId
      /\ Resting' = Resting \cup {booked}
      /\ nextOrderId \in Nat
      /\ Len(ledger) = nextOrderId - 1
      /\ order[c] \in Order
  BY OrderRecorded
<1>2. /\ ledger \in Seq(LedgerEntry)
      /\ DOMAIN ledger = 1 .. Len(ledger) /\ DOMAIN ledger' = 1 .. (Len(ledger) + 1)
      /\ \A i \in 1 .. Len(ledger) : ledger'[i] = ledger[i]
      /\ ledger'[Len(ledger) + 1] = new
  BY <1>1, AppendProperties, LenProperties DEF AuditInv, LedgerType
<1>3. /\ Register \in Seq(RegisterEntry) /\ Len(Register) = Len(ledger)
      /\ Register' \in Seq(RegisterEntry) /\ Len(Register') = Len(ledger) + 1
  <2>1. LedgerType /\ LedgerType'
    BY RecordOrderInvariant DEF AuditInv
  <2>2. Len(ledger') = Len(ledger) + 1
    BY <1>1, <1>2, AppendProperties
  <2>3. (LedgerType => Register \in Seq(RegisterEntry) /\ Len(Register) = Len(ledger))'
    BY RegisterType, PTL
  <2> QED
    BY <2>1, <2>2, <2>3, RegisterType
<1>4. \A i \in 1 .. Len(ledger) : IsResting(i)' = IsResting(i)
  <2> SUFFICES ASSUME NEW i \in 1 .. Len(ledger) PROVE Entry(i)' = Entry(i)
    BY DEF IsResting
  <2> HIDE DEF booked
  <2> QED
    BY <1>1 DEF Entry
<1>5. PICK n : n = Len(ledger) + 1 /\ n = nextOrderId /\ n \in 1 .. n
  BY <1>1
<1>6. ASSUME NEW i \in 1 .. Len(ledger) PROVE Register'[i] = Register[i]
  BY <1>2, <1>4 DEF Register
<1>7. Register'[n] = entry
  <2>1. booked \in Entry(n)'
    <3> HIDE DEF booked
    <3> QED
      BY <1>1, <1>5 DEF Entry
  <2>2. IsResting(n)' = TRUE
    BY <2>1, Zenon DEF IsResting
  <2>3. n \in DOMAIN ledger'
    BY <1>1, <1>2, <1>5
  <2>4. Register'[n] = [clientId |-> ledger'[n].clientId, type |-> ledger'[n].type,
                        price |-> ledger'[n].price, quantity |-> ledger'[n].quantity,
                        filled |-> ledger'[n].filled, open |-> IsResting(n)']
    BY <2>3, Zenon DEF Register
  <2>5. /\ ledger'[n].clientId = c /\ ledger'[n].type = order[c].type
        /\ ledger'[n].price = order[c].price /\ ledger'[n].quantity = order[c].quantity
        /\ ledger'[n].filled = 0
    BY <1>2, <1>5
  <2> QED
    BY <2>2, <2>4, <2>5, Zenon
<1>8. entry \in RegisterEntry
  BY <1>1 DEF RegisterEntry, Order
<1>9. Register' = Append(Register, entry)
  <2> HIDE DEF entry
  <2>1. /\ Append(Register, entry) \in Seq(RegisterEntry)
        /\ Len(Append(Register, entry)) = Len(Register')
        /\ \A i \in 1 .. Len(ledger) : Append(Register, entry)[i] = Register[i]
        /\ Append(Register, entry)[n] = entry
    BY <1>3, <1>5, <1>8, AppendProperties
  <2>2. \A i \in 1 .. Len(Register') : Register'[i] = Append(Register, entry)[i]
    BY <1>1, <1>3, <1>5, <1>6, <1>7, <2>1
  <2> QED
    BY <1>3, <2>1, <2>2, SeqEqual
<1>10. ~Abstract!Crossed
  BY UncrossedRegister DEF RecordOrder, BookOrder
<1>11. order[c].quantity \in Quantities /\ UNCHANGED trades
  BY DEF RecordOrder, BookOrder, AuditInv, CallsNamed
<1>12. Abstract!Accept(c, order[c].type, order[c].price, order[c].quantity)
  BY <1>9, <1>10, <1>11 DEF Abstract!Accept
<1> QED
  BY <1>1, <1>11, <1>12 DEF Abstract!Next, Order, OrderType

LEMMA ExchangeExecutes ==
  ASSUME IInv, AuditInv, NEW c \in ClientIds, RecordTrade(c)
  PROVE  Abstract!Next
<1>1. PICK b \in buyOrders, s \in sellOrders, q \in Int : Executes(b, s, q)
  BY TradeRecorded
<1> DEFINE i == b.id
           j == s.id
<1>2. /\ b \in TopBuys(buyOrders) /\ s \in TopSells(sellOrders)
      /\ b \in Order /\ s \in Order /\ b \in Resting /\ s \in Resting
      /\ b.price >= s.price /\ q = TradedQty(b, s)
      /\ i \in DOMAIN ledger /\ j \in DOMAIN ledger /\ i # j
      /\ trades' = Append(trades, [price |-> s.price, quantity |-> q])
      /\ buyOrders' = Reduced(buyOrders, b, q) /\ sellOrders' = Reduced(sellOrders, s, q)
      /\ s.price \in Int /\ b.quantity \in Int /\ s.quantity \in Int
  BY <1>1, PriceAssumption DEF Executes, Crossing, Resting, Order
<1>3. /\ DOMAIN ledger' = DOMAIN ledger
      /\ \A k \in {i, j} : ledger'[k] = Charged(ledger[k], s.price, q)
      /\ \A k \in DOMAIN ledger \ {i, j} : ledger'[k] = ledger[k]
  BY <1>1, LedgerAfter
<1>4. /\ i \in Abstract!Bids /\ j \in Abstract!Asks
      /\ Register[i].price = b.price /\ Register[j].price = s.price
      /\ Register[i].quantity - Register[i].filled = b.quantity
      /\ Register[j].quantity - Register[j].filled = s.quantity
      /\ DOMAIN Register = DOMAIN ledger
  BY <1>2, RegisterOfBook
<1>5. i \in Abstract!BestBids
  <2> SUFFICES ASSUME NEW k \in Abstract!Bids PROVE Register[k].price <= Register[i].price
    BY <1>4 DEF Abstract!BestBids
  <2>1. PICK o \in buyOrders : o.id = k
    BY RegisterOfBook
  <2>2. Register[k].price = o.price
    BY <2>1, RegisterOfBook DEF Resting
  <2>3. ~(b.price < o.price)
    BY <1>2 DEF TopBuys, BuyComparator
  <2>4. b.price \in Int /\ o.price \in Int
    BY PriceAssumption DEF IInv, StateTyped, Order
  <2> QED
    BY <1>4, <2>2, <2>3, <2>4
<1>6. j \in Abstract!BestAsks
  <2> SUFFICES ASSUME NEW k \in Abstract!Asks PROVE Register[k].price >= Register[j].price
    BY <1>4 DEF Abstract!BestAsks
  <2>1. PICK o \in sellOrders : o.id = k
    BY RegisterOfBook
  <2>2. Register[k].price = o.price
    BY <2>1, RegisterOfBook DEF Resting
  <2>3. ~(s.price > o.price)
    BY <1>2 DEF TopSells, SellComparator
  <2>4. s.price \in Int /\ o.price \in Int
    BY PriceAssumption DEF IInv, StateTyped, Order
  <2> QED
    BY <1>4, <2>2, <2>3, <2>4
<1>7. LedgerType /\ \A k \in DOMAIN ledger : ledger[k] \in LedgerEntry
  BY ElementOfSeq, LenProperties DEF AuditInv, LedgerType
<1>8. Register \in Seq(RegisterEntry) /\ \A k \in DOMAIN ledger : Register[k] \in RegisterEntry
  BY <1>4, <1>7, RegisterType, ElementOfSeq, LenProperties
\* What is written of the two orders that traded.
<1>9. ASSUME NEW top \in {b, s}
      PROVE  Register'[top.id] = Abstract!Executed(Register[top.id], q)
  <2>1. PICK k : k = top.id /\ k \in DOMAIN ledger /\ k \in {i, j}
    BY <1>2
  <2>2. /\ top \in Resting /\ top.quantity \in Int
        /\ Register[k].quantity - Register[k].filled = top.quantity
    BY <1>2, <1>4, <2>1
  <2>3. Entry(k)' = IF top.quantity - q > 0
                    THEN {[top EXCEPT !.quantity = top.quantity - q]} ELSE {}
    <3>1. CASE top = b
      BY <1>2, <2>1, <3>1, EntryAfter
    <3>2. CASE top = s
      BY <1>2, <2>1, <3>2, EntryAfter
    <3> QED
      BY <3>1, <3>2
  <2>4. IsResting(k)' = (top.quantity - q > 0)
    <3>1. CASE top.quantity - q > 0
      <4>1. IsResting(k)' = TRUE
        <5>1. Entry(k)' # {}
          BY <2>3, <3>1
        <5> QED
          BY <5>1, Zenon DEF IsResting
      <4> QED
        BY <3>1, <4>1
    <3>2. CASE ~(top.quantity - q > 0)
      <4>1. IsResting(k)' = FALSE
        <5>1. Entry(k)' = {}
          BY <2>3, <3>2
        <5> QED
          BY <5>1, Zenon DEF IsResting
      <4>2. (top.quantity - q > 0) = FALSE
        BY <3>2
      <4> QED
        BY <4>1, <4>2, Zenon
    <3> QED
      BY <3>1, <3>2
  <2>5. /\ ledger'[k].clientId = ledger[k].clientId /\ ledger'[k].type = ledger[k].type
        /\ ledger'[k].price = ledger[k].price /\ ledger'[k].quantity = ledger[k].quantity
        /\ ledger'[k].filled = ledger[k].filled + q
    BY <1>2, <1>3, <1>7, <2>1, ChargedType
  <2>6. Register'[k] = [clientId |-> ledger'[k].clientId, type |-> ledger'[k].type,
                        price |-> ledger'[k].price, quantity |-> ledger'[k].quantity,
                        filled |-> ledger'[k].filled, open |-> IsResting(k)']
    BY <1>3, <2>1, Zenon DEF Register
  <2>7. Register[k] = [clientId |-> ledger[k].clientId, type |-> ledger[k].type,
                       price |-> ledger[k].price, quantity |-> ledger[k].quantity,
                       filled |-> ledger[k].filled, open |-> IsResting(k)]
    BY <2>1, Zenon DEF Register
  <2>8. Register'[k] = [clientId |-> ledger[k].clientId, type |-> ledger[k].type,
                        price |-> ledger[k].price, quantity |-> ledger[k].quantity,
                        filled |-> ledger[k].filled + q, open |-> (top.quantity - q > 0)]
    BY <2>4, <2>5, <2>6, Zenon
  <2>9. /\ Register[k].clientId = ledger[k].clientId /\ Register[k].type = ledger[k].type
        /\ Register[k].price = ledger[k].price /\ Register[k].quantity = ledger[k].quantity
        /\ Register[k].filled = ledger[k].filled
    BY <2>1 DEF Register
  <2>10. Register[k] \in RegisterEntry
    BY <1>8, <2>1
  <2>11. Abstract!Executed(Register[k], q) =
           [Register[k] EXCEPT !.filled = Register[k].filled + q,
                               !.open = (top.quantity - q > 0)]
    BY <2>2, Zenon DEF Abstract!Executed
  <2> DEFINE left == top.quantity - q > 0
             sum  == Register[k].filled + q
  <2> HIDE DEF left, sum
  <2>12. Abstract!Executed(Register[k], q) =
           [clientId |-> Register[k].clientId, type |-> Register[k].type,
            price |-> Register[k].price, quantity |-> Register[k].quantity,
            filled |-> sum, open |-> left]
    BY <2>10, <2>11 DEF RegisterEntry, left, sum
  <2> QED
    BY <2>1, <2>8, <2>9, <2>12, Zenon DEF left, sum
<1>10. ASSUME NEW k \in DOMAIN ledger \ {i, j} PROVE Register'[k] = Register[k]
  <2>1. Entry(k)' = Entry(k)
    BY <1>2, EntryAfter
  <2>2. IsResting(k)' = IsResting(k)
    BY <2>1, Zenon DEF IsResting
  <2> QED
    BY <1>3, <2>2 DEF Register
<1>11. Register' = [Register EXCEPT ![i] = Abstract!Executed(Register[i], q),
                                    ![j] = Abstract!Executed(Register[j], q)]
  <2>1. Register' = [k \in DOMAIN ledger |-> Register'[k]]
    BY <1>3 DEF Register
  <2>2. Register = [k \in DOMAIN ledger |-> Register[k]]
    BY DEF Register
  <2>3. /\ Register'[i] = Abstract!Executed(Register[i], q)
        /\ Register'[j] = Abstract!Executed(Register[j], q)
    BY <1>9
  <2> HIDE DEF i, j
  <2> QED
    BY <1>2, <1>10, <2>1, <2>2, <2>3
<1>12. q = IF Abstract!Rest(i) <= Abstract!Rest(j) THEN Abstract!Rest(i) ELSE Abstract!Rest(j)
  BY <1>2, <1>4 DEF Abstract!Rest, TradedQty
<1> HIDE DEF i, j
<1>13. Register[i].price >= Register[j].price /\ Register[j].price = s.price
  BY <1>2, <1>4
<1>14. Register' = [Register EXCEPT ![i] = Abstract!Executed(@, q),
                                    ![j] = Abstract!Executed(@, q)]
  BY <1>2, <1>11
<1>15. Abstract!Execute(i, j)
  BY <1>2, <1>5, <1>6, <1>12, <1>13, <1>14 DEF Abstract!Execute
<1> QED
  BY <1>4, <1>15 DEF Abstract!Next

\* A cancel of an order that rests is the exchange's; any other is no step.
LEMMA ExchangeCancels ==
  ASSUME IInv, AuditInv, NEW c \in ClientIds, NEW orderId, RecordCancel(c, orderId)
  PROVE  [Abstract!Next]_(Abstract!evars)
<1>1. /\ \A i : Entry(i)' = IF i = orderId THEN {} ELSE Entry(i)
      /\ DOMAIN ledger' = DOMAIN ledger
      /\ UNCHANGED trades
  BY CancelRecorded DEF RecordCancel, CancelOrder
<1>2. ASSUME NEW i \in DOMAIN ledger
      PROVE  /\ ledger'[i].clientId = ledger[i].clientId /\ ledger'[i].type = ledger[i].type
             /\ ledger'[i].price = ledger[i].price /\ ledger'[i].quantity = ledger[i].quantity
             /\ ledger'[i].filled = ledger[i].filled
  <2>1. /\ ledger[i] \in LedgerEntry
        /\ ledger'[i] = ledger[i] \/ ledger'[i] = [ledger[i] EXCEPT !.cancelled = TRUE]
    BY CancelRecorded
  <2> QED
    BY <2>1 DEF LedgerEntry
<1>3. \A i : IsResting(i)' = IF i = orderId THEN FALSE ELSE IsResting(i)
  BY <1>1 DEF IsResting
<1>4. ASSUME NEW i \in DOMAIN ledger
      PROVE  /\ Register'[i] = [clientId |-> ledger[i].clientId, type |-> ledger[i].type,
                                price |-> ledger[i].price, quantity |-> ledger[i].quantity,
                                filled |-> ledger[i].filled, open |-> IsResting(i)']
             /\ Register[i] = [clientId |-> ledger[i].clientId, type |-> ledger[i].type,
                               price |-> ledger[i].price, quantity |-> ledger[i].quantity,
                               filled |-> ledger[i].filled, open |-> IsResting(i)]
  BY <1>1, <1>2, Zenon DEF Register
<1>5. /\ Register' = [i \in DOMAIN ledger |-> Register'[i]]
      /\ Register = [i \in DOMAIN ledger |-> Register[i]]
  BY <1>1 DEF Register
<1>6. \A i \in DOMAIN ledger \ {orderId} : Register'[i] = Register[i]
  <2> SUFFICES ASSUME NEW i \in DOMAIN ledger \ {orderId} PROVE Register'[i] = Register[i]
    OBVIOUS
  <2>1. IsResting(i)' = IsResting(i)
    BY <1>3, Zenon
  <2> QED
    BY <1>4, <2>1, Zenon
<1>7. CASE IsResting(orderId)
  <2>1. PICK o \in Resting : o.id = orderId
    BY <1>7 DEF IsResting, Entry
  <2>2. orderId \in Abstract!Bids \cup Abstract!Asks /\ orderId \in DOMAIN ledger
    BY <2>1, RegisterOfBook DEF AuditInv, RestingRecorded, Resting
  <2>3. Register'[orderId] = [Register[orderId] EXCEPT !.open = FALSE]
    <3>1. IsResting(orderId)' = FALSE
      BY <1>3, Zenon
    <3>2. Register'[orderId] =
            [clientId |-> ledger[orderId].clientId, type |-> ledger[orderId].type,
             price |-> ledger[orderId].price, quantity |-> ledger[orderId].quantity,
             filled |-> ledger[orderId].filled, open |-> FALSE]
      BY <1>4, <2>2, <3>1, Zenon
    <3>3. Register[orderId] \in RegisterEntry
      <4>1. LedgerType
        BY DEF AuditInv
      <4> QED
        BY <1>5, <2>2, <4>1, RegisterType, ElementOfSeq, LenProperties
    <3> DEFINE closed == FALSE
    <3> HIDE DEF closed
    <3>4. [Register[orderId] EXCEPT !.open = closed] =
            [clientId |-> Register[orderId].clientId, type |-> Register[orderId].type,
             price |-> Register[orderId].price, quantity |-> Register[orderId].quantity,
             filled |-> Register[orderId].filled, open |-> closed]
      BY <3>3 DEF RegisterEntry
    <3>5. /\ Register[orderId].clientId = ledger[orderId].clientId
          /\ Register[orderId].type = ledger[orderId].type
          /\ Register[orderId].price = ledger[orderId].price
          /\ Register[orderId].quantity = ledger[orderId].quantity
          /\ Register[orderId].filled = ledger[orderId].filled
      BY <2>2 DEF Register
    <3> QED
      BY <3>2, <3>4, <3>5, Zenon DEF closed
  <2>4. Register' = [Register EXCEPT ![orderId].open = FALSE]
    BY <1>5, <1>6, <2>2, <2>3
  <2>5. ~Abstract!Crossed
    BY UncrossedRegister DEF RecordCancel, CancelOrder
  <2>6. Abstract!Cancel(orderId)
    BY <1>1, <2>2, <2>4, <2>5 DEF Abstract!Cancel
  <2> QED
    BY <2>2, <2>6 DEF Abstract!Next
<1>8. CASE ~IsResting(orderId)
  <2>1. \A i \in DOMAIN ledger : IsResting(i)' = IsResting(i)
    BY <1>1, <1>8 DEF IsResting
  <2>2. \A i \in DOMAIN ledger : Register'[i] = Register[i]
    BY <1>4, <2>1, Zenon
  <2>3. Register' = Register
    BY <1>5, <2>2
  <2> QED
    BY <1>1, <2>3 DEF Abstract!evars
<1> QED
  BY <1>7, <1>8

\* Behind its threads, its mutex, its queues and its loop, the engine is the
\* serial exchange: a new order is accepted, and an order cancelled, only
\* when nothing can trade; what trades are the best bid and the best ask at the
\* price of the ask; what is left of an order stays open.
THEOREM EngineImplementsExchange == AuditSpec => ImplementsExchange
<1>1. AuditInit => Abstract!Init
  BY DEF AuditInit, Init, Register, Abstract!Init
<1>2. IInv /\ AuditInv /\ [AuditNext]_auditVars => [Abstract!Next]_(Abstract!evars)
  <2> SUFFICES ASSUME IInv, AuditInv, [AuditNext]_auditVars
               PROVE  [Abstract!Next]_(Abstract!evars)
    OBVIOUS
  <2>1. ASSUME UNCHANGED <<buyOrders, sellOrders, trades, ledger>>
        PROVE  UNCHANGED Abstract!evars
    BY <2>1 DEF Abstract!evars, Register, IsResting, Entry, Resting
  <2>2. ASSUME NEW c \in ClientIds,
               EnterProcessOrder(c) \/ StampBenchmarkStart(c) \/ FinishOrder(c)
        PROVE  UNCHANGED <<buyOrders, sellOrders, trades>>
    BY <2>2 DEF EnterProcessOrder, StampBenchmarkStart, FinishOrder, bookVars
  <2>3. UNCHANGED auditVars => UNCHANGED <<buyOrders, sellOrders, trades, ledger>>
    BY DEF auditVars, vars, bookVars
  <2> QED
    BY <2>1, <2>2, <2>3, ExchangeAccepts, ExchangeExecutes, ExchangeCancels DEF AuditNext
<1> QED
  BY <1>1, <1>2, AuditInvariant, PTL DEF AuditSpec, ImplementsExchange, Abstract!Spec

-----------------------------------------------------------------------------
(* What the orders of a client executed, and what was paid, as totals.     *)

Fills(l) == [i \in DOMAIN l |-> l[i].filled]

Costs(l) == [i \in DOMAIN l |-> l[i].cost]

LEMMA FilledIsTotal ==
  ASSUME NEW S, IsFiniteSet(S), S \subseteq DOMAIN ledger
  PROVE  Filled(S) = Total(Fills(ledger), S)
<1> DEFINE F == CHOOSE iter : iter = [s \in SUBSET S |->
                  IF s = {} THEN 0
                  ELSE ledger[Picked(s)].filled + iter[s \ {Picked(s)}]]
           A == Adder(Fills(ledger), S)
<1>1. Filled(S) = F[S]
  BY DEF Filled, MapThenSumSet, MapThenFoldSet, Picked
<1>2. AddsUp(A, Fills(ledger), S)
  BY AdderExists
<1>3. \A s \in SUBSET S : s # {} => ledger[Picked(s)].filled = Fills(ledger)[Picked(s)]
  BY PickedIn DEF Fills
<1>4. A = [s \in SUBSET S |-> IF s = {} THEN 0
                              ELSE ledger[Picked(s)].filled + A[s \ {Picked(s)}]]
  <2> HIDE DEF A
  <2> QED
    BY <1>2, <1>3 DEF AddsUp
<1>5. F = [s \in SUBSET S |-> IF s = {} THEN 0
                              ELSE ledger[Picked(s)].filled + F[s \ {Picked(s)}]]
  <2> HIDE DEF A
  <2> QED
    BY <1>4, Zenon
<1>6. AddsUp(F, Fills(ledger), S)
  <2> HIDE DEF F
  <2> QED
    BY <1>3, <1>5 DEF AddsUp
<1>7. F[S] = A[S]
  <2> HIDE DEF A, F
  <2> QED
    BY <1>2, <1>6, AdderUnique
<1> QED
  BY <1>1, <1>7 DEF Total

LEMMA CostIsTotal ==
  ASSUME NEW S, IsFiniteSet(S), S \subseteq DOMAIN ledger
  PROVE  Cost(S) = Total(Costs(ledger), S)
<1> DEFINE F == CHOOSE iter : iter = [s \in SUBSET S |->
                  IF s = {} THEN 0
                  ELSE ledger[Picked(s)].cost + iter[s \ {Picked(s)}]]
           A == Adder(Costs(ledger), S)
<1>1. Cost(S) = F[S]
  BY DEF Cost, MapThenSumSet, MapThenFoldSet, Picked
<1>2. AddsUp(A, Costs(ledger), S)
  BY AdderExists
<1>3. \A s \in SUBSET S : s # {} => ledger[Picked(s)].cost = Costs(ledger)[Picked(s)]
  BY PickedIn DEF Costs
<1>4. A = [s \in SUBSET S |-> IF s = {} THEN 0
                              ELSE ledger[Picked(s)].cost + A[s \ {Picked(s)}]]
  <2> HIDE DEF A
  <2> QED
    BY <1>2, <1>3 DEF AddsUp
<1>5. F = [s \in SUBSET S |-> IF s = {} THEN 0
                              ELSE ledger[Picked(s)].cost + F[s \ {Picked(s)}]]
  <2> HIDE DEF A
  <2> QED
    BY <1>4, Zenon
<1>6. AddsUp(F, Costs(ledger), S)
  <2> HIDE DEF F
  <2> QED
    BY <1>3, <1>5 DEF AddsUp
<1>7. F[S] = A[S]
  <2> HIDE DEF A, F
  <2> QED
    BY <1>2, <1>6, AdderUnique
<1> QED
  BY <1>1, <1>7 DEF Total

-----------------------------------------------------------------------------
(* What a client bought less what it sold, and what it paid less what it   *)
(* was paid, in a ledger l.                                                *)

IdsOf(l, c, type) == {i \in DOMAIN l : l[i].clientId = c /\ l[i].type = type}

NetFilled(l, c) ==
  Total(Fills(l), IdsOf(l, c, "BUY")) - Total(Fills(l), IdsOf(l, c, "SELL"))

NetPaid(l, c) ==
  Total(Costs(l), IdsOf(l, c, "BUY")) - Total(Costs(l), IdsOf(l, c, "SELL"))

LEMMA IdsFinite ==
  ASSUME NEW l \in Seq(LedgerEntry), NEW c, NEW type
  PROVE  /\ IsFiniteSet(IdsOf(l, c, type))
         /\ \A i \in IdsOf(l, c, type) : Fills(l)[i] \in Int /\ Costs(l)[i] \in Int
         /\ Total(Fills(l), IdsOf(l, c, type)) \in Int
         /\ Total(Costs(l), IdsOf(l, c, type)) \in Int
<1>1. IsFiniteSet(IdsOf(l, c, type))
  <2>1. DOMAIN l = 1 .. Len(l) /\ Len(l) \in Nat
    BY LenProperties
  <2>2. IsFiniteSet(1 .. Len(l))
    BY <2>1, FS_Interval
  <2> QED
    BY <2>1, <2>2, FS_Subset DEF IdsOf
<1>2. \A i \in IdsOf(l, c, type) : Fills(l)[i] \in Int /\ Costs(l)[i] \in Int
  <2>1. \A i \in DOMAIN l : l[i] \in LedgerEntry
    BY ElementOfSeq, LenProperties
  <2> QED
    BY <2>1 DEF IdsOf, Fills, Costs, LedgerEntry
<1> QED
  BY <1>1, <1>2, TotalType

\* An order that was only booked adds nothing.
LEMMA NetOfOrder ==
  ASSUME NEW l \in Seq(LedgerEntry), NEW e \in LedgerEntry, e.filled = 0, e.cost = 0,
         NEW c
  PROVE  NetFilled(Append(l, e), c) = NetFilled(l, c) /\ NetPaid(Append(l, e), c) = NetPaid(l, c)
<1> DEFINE m == Append(l, e)
           n == Len(l) + 1
<1>1. /\ DOMAIN l = 1 .. Len(l) /\ Len(l) \in Nat
      /\ DOMAIN m = 1 .. (Len(l) + 1)
      /\ m \in Seq(LedgerEntry)
      /\ \A i \in 1 .. Len(l) : m[i] = l[i]
      /\ m[n] = e
  BY AppendProperties, LenProperties
<1>2. n \notin DOMAIN l /\ DOMAIN m = DOMAIN l \cup {n}
  BY <1>1
<1> HIDE DEF n, m
<1>3. ASSUME NEW type
      PROVE  /\ Total(Fills(m), IdsOf(m, c, type)) = Total(Fills(l), IdsOf(l, c, type))
             /\ Total(Costs(m), IdsOf(m, c, type)) = Total(Costs(l), IdsOf(l, c, type))
  <2> DEFINE S == IdsOf(l, c, type)
  <2>1. /\ IsFiniteSet(S)
        /\ \A i \in S : Fills(l)[i] \in Int /\ Costs(l)[i] \in Int
        /\ Total(Fills(l), S) \in Int /\ Total(Costs(l), S) \in Int
    BY IdsFinite
  <2>7. n \notin S
    BY <1>2 DEF IdsOf
  <2>2. \A i \in S : Fills(m)[i] = Fills(l)[i] /\ Costs(m)[i] = Costs(l)[i]
    BY <1>1, <1>2 DEF IdsOf, Fills, Costs
  <2>3. Fills(m)[n] = 0 /\ Costs(m)[n] = 0
    BY <1>1, <1>2 DEF Fills, Costs
  <2>4. IdsOf(m, c, type) = S \/ IdsOf(m, c, type) = S \cup {n}
    BY <1>1, <1>2 DEF IdsOf
  <2>5. /\ \A i \in S : Fills(l)[i] \in Int
        /\ \A i \in S : Fills(m)[i] = Fills(l)[i]
    BY <2>1, <2>2
  <2>6. /\ \A i \in S : Costs(l)[i] \in Int
        /\ \A i \in S : Costs(m)[i] = Costs(l)[i]
    BY <2>1, <2>2
  <2> HIDE DEF S
  <2>8. Total(Fills(m), IdsOf(m, c, type)) = Total(Fills(l), S)
    BY <2>1, <2>3, <2>4, <2>5, <2>7, TotalOfZero
  <2>9. Total(Costs(m), IdsOf(m, c, type)) = Total(Costs(l), S)
    BY <2>1, <2>3, <2>4, <2>6, <2>7, TotalOfZero
  <2> QED
    BY <2>8, <2>9 DEF S
<1> QED
  BY <1>3 DEF NetFilled, NetPaid, m

\* m is l after an execution of q for an amount of r between orders x and y.
Executed(l, m, x, y, q, r) ==
  /\ DOMAIN m = DOMAIN l
  /\ x \in DOMAIN l /\ y \in DOMAIN l /\ l[x].type = "BUY" /\ l[y].type = "SELL"
  /\ \A i \in DOMAIN l :
       /\ m[i].clientId = l[i].clientId /\ m[i].type = l[i].type
       /\ m[i].filled = IF i \in {x, y} THEN l[i].filled + q ELSE l[i].filled
       /\ m[i].cost = IF i \in {x, y} THEN l[i].cost + r ELSE l[i].cost

\* An execution of q for an amount of r moves the net amounts of the buyer up
\* and those of the seller down, and when these are one client, not at all.
LEMMA NetOfTrade ==
  ASSUME NEW l \in Seq(LedgerEntry), NEW m, NEW q \in Int, NEW r \in Int,
         NEW x, NEW y, Executed(l, m, x, y, q, r), NEW c
  PROVE  /\ NetFilled(m, c) = NetFilled(l, c) + (IF l[x].clientId = c THEN q ELSE 0)
                                              - (IF l[y].clientId = c THEN q ELSE 0)
         /\ NetPaid(m, c) = NetPaid(l, c) + (IF l[x].clientId = c THEN r ELSE 0)
                                          - (IF l[y].clientId = c THEN r ELSE 0)
<1> DEFINE S == IdsOf(l, c, "BUY")
           T == IdsOf(l, c, "SELL")
<1>1. IdsOf(m, c, "BUY") = S /\ IdsOf(m, c, "SELL") = T
  BY DEF IdsOf, Executed
<1>2. IsFiniteSet(S) /\ IsFiniteSet(T)
  BY IdsFinite
<1>3. \A z \in S \cup T : Fills(l)[z] \in Int /\ Costs(l)[z] \in Int
  BY IdsFinite
<1>4. /\ l[x].clientId = c <=> x \in S
      /\ l[y].clientId = c <=> y \in T
  BY DEF IdsOf, Executed
<1>5. ASSUME NEW z \in S
      PROVE  /\ Fills(m)[z] = IF z = x THEN Fills(l)[z] + q ELSE Fills(l)[z]
             /\ Costs(m)[z] = IF z = x THEN Costs(l)[z] + r ELSE Costs(l)[z]
  <2>1. z \in DOMAIN l /\ z # y
    BY DEF IdsOf, Executed
  <2> QED
    BY <2>1 DEF Executed, Fills, Costs
<1>6. ASSUME NEW z \in T
      PROVE  /\ Fills(m)[z] = IF z = y THEN Fills(l)[z] + q ELSE Fills(l)[z]
             /\ Costs(m)[z] = IF z = y THEN Costs(l)[z] + r ELSE Costs(l)[z]
  <2>1. z \in DOMAIN l /\ z # x
    BY DEF IdsOf, Executed
  <2> QED
    BY <2>1 DEF Executed, Fills, Costs
<1> HIDE DEF S, T
<1>7. Total(Fills(m), S) - Total(Fills(m), T) =
        Total(Fills(l), S) - Total(Fills(l), T) + (IF x \in S THEN q ELSE 0)
                                                - (IF y \in T THEN q ELSE 0)
  <2>1. MovedAt(S, Fills(l), Fills(m), x, q) /\ MovedAt(T, Fills(l), Fills(m), y, q)
    BY <1>3, <1>5, <1>6 DEF MovedAt
  <2> QED
    BY <1>2, <2>1, DifferenceMoves
<1>8. Total(Costs(m), S) - Total(Costs(m), T) =
        Total(Costs(l), S) - Total(Costs(l), T) + (IF x \in S THEN r ELSE 0)
                                                - (IF y \in T THEN r ELSE 0)
  <2>1. MovedAt(S, Costs(l), Costs(m), x, r) /\ MovedAt(T, Costs(l), Costs(m), y, r)
    BY <1>3, <1>5, <1>6 DEF MovedAt
  <2> QED
    BY <1>2, <2>1, DifferenceMoves
<1>9. /\ NetFilled(m, c) = Total(Fills(m), S) - Total(Fills(m), T)
      /\ NetFilled(l, c) = Total(Fills(l), S) - Total(Fills(l), T)
      /\ NetPaid(m, c) = Total(Costs(m), S) - Total(Costs(m), T)
      /\ NetPaid(l, c) = Total(Costs(l), S) - Total(Costs(l), T)
  BY <1>1 DEF NetFilled, NetPaid, S, T
<1> QED
  BY <1>4, <1>7, <1>8, <1>9

\* What neither executes nor reassigns orders changes no net amount.
LEMMA NetSame ==
  ASSUME NEW l \in Seq(LedgerEntry), NEW m, DOMAIN m = DOMAIN l,
         \A i \in DOMAIN l : /\ m[i].clientId = l[i].clientId /\ m[i].type = l[i].type
                             /\ m[i].filled = l[i].filled /\ m[i].cost = l[i].cost,
         NEW c
  PROVE  NetFilled(m, c) = NetFilled(l, c) /\ NetPaid(m, c) = NetPaid(l, c)
<1>1. ASSUME NEW type
      PROVE  /\ Total(Fills(m), IdsOf(m, c, type)) = Total(Fills(l), IdsOf(l, c, type))
             /\ Total(Costs(m), IdsOf(m, c, type)) = Total(Costs(l), IdsOf(l, c, type))
  <2> DEFINE S == IdsOf(l, c, type)
  <2>1. IdsOf(m, c, type) = S
    BY DEF IdsOf
  <2>2. IsFiniteSet(S)
    BY IdsFinite
  <2>3. \A i \in S : Fills(m)[i] = Fills(l)[i] /\ Costs(m)[i] = Costs(l)[i]
    BY DEF IdsOf, Fills, Costs
  <2> HIDE DEF S
  <2> QED
    BY <2>1, <2>2, <2>3, TotalSame DEF S
<1> QED
  BY <1>1 DEF NetFilled, NetPaid

-----------------------------------------------------------------------------
(* What a trade does to the position of one client.                        *)

LEMMA AfterTradeOf ==
  ASSUME NEW positions \in [ClientIds -> PositionInfo],
         NEW buyer \in ClientIds, NEW seller \in ClientIds,
         NEW price \in Int, NEW q \in Int, NEW c \in ClientIds
  PROVE  AfterTrade(positions, buyer, seller, price, q)[c] =
           LET bought == IF c = buyer THEN AfterBuy(positions[c], price, q) ELSE positions[c]
           IN  IF c = seller THEN AfterSell(bought, price, q) ELSE bought
<1> DEFINE bought == [positions EXCEPT ![buyer] = AfterBuy(positions[buyer], price, q)]
<1>1. /\ DOMAIN bought = ClientIds
      /\ bought[c] = IF c = buyer THEN AfterBuy(positions[c], price, q) ELSE positions[c]
  OBVIOUS
<1> HIDE DEF bought
<1>2. AfterTrade(positions, buyer, seller, price, q) =
        [bought EXCEPT ![seller] = AfterSell(bought[seller], price, q)]
  BY DEF AfterTrade, Credit, bought
<1>3. AfterTrade(positions, buyer, seller, price, q)[c] =
        IF c = seller THEN AfterSell(bought[c], price, q) ELSE bought[c]
  BY <1>1, <1>2
<1> QED
  BY <1>1, <1>3

LEMMA QuantityAfter ==
  ASSUME NEW p \in PositionInfo, NEW price \in Int, NEW q \in Int
  PROVE  /\ AfterBuy(p, price, q).quantity = p.quantity + q
         /\ AfterSell(p, price, q).quantity = p.quantity - q
<1>1. AfterSell(p, price, q).quantity = p.quantity - q
  BY DEF AfterSell
<1>2. DOMAIN p = {"quantity", "averagePrice", "realizedPnL"}
  BY DEF PositionInfo
<1>3. AfterBuy(p, price, q).quantity = p.quantity + q
  BY <1>2 DEF AfterBuy
<1> QED
  BY <1>1, <1>3

-----------------------------------------------------------------------------
(* Positions agree with executions.                                        *)

PositionInv == \A c \in ClientIds : clientPositions[c].quantity = NetFilled(ledger, c)

LEMMA TradeMovesNet ==
  ASSUME IInv, AuditInv, NEW b \in buyOrders, NEW s \in sellOrders, NEW q \in Int,
         Executes(b, s, q), NEW c \in ClientIds
  PROVE  /\ b.clientId \in ClientIds /\ s.clientId \in ClientIds /\ s.price \in Int
         /\ NetFilled(ledger', c) = NetFilled(ledger, c) + (IF b.clientId = c THEN q ELSE 0)
                                                        - (IF s.clientId = c THEN q ELSE 0)
         /\ NetPaid(ledger', c) = NetPaid(ledger, c)
                                  + (IF b.clientId = c THEN s.price * q ELSE 0)
                                  - (IF s.clientId = c THEN s.price * q ELSE 0)
<1>1. /\ b \in Order /\ s \in Order /\ b \in Resting /\ s \in Resting
      /\ b.id \in DOMAIN ledger /\ s.id \in DOMAIN ledger
  BY DEF Executes, Resting
<1>2. b.clientId \in ClientIds /\ s.clientId \in ClientIds /\ s.price \in Int
  BY <1>1, PriceAssumption DEF Order
<1>3. /\ ledger[b.id].type = "BUY" /\ ledger[s.id].type = "SELL"
      /\ ledger[b.id].clientId = b.clientId /\ ledger[s.id].clientId = s.clientId
  <2>1. b.type = "BUY" /\ s.type = "SELL"
    BY <1>1 DEF IInv, SidesKept, Order, OrderType
  <2>2. \A o \in Resting : ledger[o.id].clientId = o.clientId /\ ledger[o.id].type = o.type
    BY DEF AuditInv, RestingRecorded
  <2> QED
    BY <1>1, <2>1, <2>2
<1>4. ledger' = [i \in DOMAIN ledger |->
                  IF i \in {b.id, s.id} THEN Charged(ledger[i], s.price, q) ELSE ledger[i]]
  BY DEF Executes
<1>5. ledger \in Seq(LedgerEntry)
  BY DEF AuditInv, LedgerType
<1>6. /\ NetFilled(ledger', c) = NetFilled(ledger, c)
                                  + (IF ledger[b.id].clientId = c THEN q ELSE 0)
                                  - (IF ledger[s.id].clientId = c THEN q ELSE 0)
      /\ NetPaid(ledger', c) = NetPaid(ledger, c)
                                + (IF ledger[b.id].clientId = c THEN s.price * q ELSE 0)
                                - (IF ledger[s.id].clientId = c THEN s.price * q ELSE 0)
  <2>1. PICK x \in DOMAIN ledger, y \in DOMAIN ledger, p \in Int :
          x = b.id /\ y = s.id /\ p = s.price
    BY <1>1, <1>2
  <2>2. /\ ledger[x].type = "BUY" /\ ledger[y].type = "SELL"
        /\ DOMAIN ledger' = DOMAIN ledger
        /\ \A i \in DOMAIN ledger :
             ledger'[i] = IF i \in {x, y} THEN Charged(ledger[i], p, q) ELSE ledger[i]
    BY <1>3, <1>4, <2>1
  <2>3. PICK r \in Int : r = p * q
    OBVIOUS
  <2>4. ASSUME NEW i \in DOMAIN ledger
        PROVE  /\ ledger'[i].clientId = ledger[i].clientId /\ ledger'[i].type = ledger[i].type
               /\ ledger'[i].filled = IF i \in {x, y} THEN ledger[i].filled + q ELSE ledger[i].filled
               /\ ledger'[i].cost = IF i \in {x, y} THEN ledger[i].cost + r ELSE ledger[i].cost
    <3> DEFINE e == Charged(ledger[i], p, q)
    <3>1. ledger[i] \in LedgerEntry
      BY <1>5, ElementOfSeq, LenProperties
    <3>2. ledger'[i] = IF i \in {x, y} THEN e ELSE ledger[i]
      BY <2>2
    <3>3. /\ e.clientId = ledger[i].clientId /\ e.type = ledger[i].type
          /\ e.filled = ledger[i].filled + q /\ e.cost = ledger[i].cost + p * q
      BY <3>1, ChargedType
    <3> HIDE DEF e
    <3> QED
      BY <2>3, <3>2, <3>3
  <2>6. Executed(ledger, ledger', x, y, q, r)
    BY <2>2, <2>4 DEF Executed
  <2>5. /\ NetFilled(ledger', c) = NetFilled(ledger, c)
                                    + (IF ledger[x].clientId = c THEN q ELSE 0)
                                    - (IF ledger[y].clientId = c THEN q ELSE 0)
        /\ NetPaid(ledger', c) = NetPaid(ledger, c)
                                  + (IF ledger[x].clientId = c THEN r ELSE 0)
                                  - (IF ledger[y].clientId = c THEN r ELSE 0)
    BY <1>5, <2>6, NetOfTrade
  <2> QED
    BY <2>1, <2>3, <2>5
<1> QED
  BY <1>2, <1>3, <1>6

LEMMA NetType ==
  ASSUME NEW l \in Seq(LedgerEntry), NEW c
  PROVE  NetFilled(l, c) \in Int /\ NetPaid(l, c) \in Int
<1>1. /\ Total(Fills(l), IdsOf(l, c, "BUY")) \in Int
      /\ Total(Fills(l), IdsOf(l, c, "SELL")) \in Int
      /\ Total(Costs(l), IdsOf(l, c, "BUY")) \in Int
      /\ Total(Costs(l), IdsOf(l, c, "SELL")) \in Int
  BY IdsFinite
<1> QED
  BY <1>1 DEF NetFilled, NetPaid

LEMMA NetInit ==
  ASSUME AuditInit, NEW c \in ClientIds
  PROVE  NetFilled(ledger, c) = 0 /\ NetPaid(ledger, c) = 0
<1>1. \A type : IdsOf(ledger, c, type) = {}
  BY DEF AuditInit, IdsOf
<1>2. \A g : Total(g, {}) = 0
  BY TotalUnfolds, FS_EmptySet
<1> QED
  BY <1>1, <1>2 DEF NetFilled, NetPaid

\* Steps other than executions change neither positions nor net amounts.
LEMMA NoTradeKeepsNet ==
  ASSUME IInv, AuditInv, [AuditNext]_auditVars,
         ~ \E c \in ClientIds : RecordTrade(c)
  PROVE  /\ clientPositions' = clientPositions /\ everShort' = everShort
         /\ \A c : /\ NetFilled(ledger', c) = NetFilled(ledger, c)
                  /\ NetPaid(ledger', c) = NetPaid(ledger, c)
<1>1. ledger \in Seq(LedgerEntry)
  BY DEF AuditInv, LedgerType
<1>2. ASSUME NEW d \in ClientIds, RecordOrder(d)
      PROVE  /\ clientPositions' = clientPositions /\ everShort' = everShort
             /\ \A c : /\ NetFilled(ledger', c) = NetFilled(ledger, c)
                      /\ NetPaid(ledger', c) = NetPaid(ledger, c)
  <2>1. PICK new \in LedgerEntry :
          ledger' = Append(ledger, new) /\ new.filled = 0 /\ new.cost = 0
    BY <1>2, OrderRecorded
  <2>2. clientPositions' = clientPositions /\ everShort' = everShort
    BY <1>2 DEF RecordOrder, BookOrder
  <2> QED
    BY <1>1, <2>1, <2>2, NetOfOrder
<1>3. ASSUME NEW d \in ClientIds, NEW orderId, RecordCancel(d, orderId)
      PROVE  /\ clientPositions' = clientPositions /\ everShort' = everShort
             /\ \A c : /\ NetFilled(ledger', c) = NetFilled(ledger, c)
                      /\ NetPaid(ledger', c) = NetPaid(ledger, c)
  <2>1. DOMAIN ledger' = DOMAIN ledger
    BY <1>3, CancelRecorded
  <2>2. ASSUME NEW i \in DOMAIN ledger
        PROVE  /\ ledger'[i].clientId = ledger[i].clientId
               /\ ledger'[i].type = ledger[i].type
               /\ ledger'[i].filled = ledger[i].filled /\ ledger'[i].cost = ledger[i].cost
    <3>1. /\ ledger[i] \in LedgerEntry
          /\ ledger'[i] = ledger[i] \/ ledger'[i] = [ledger[i] EXCEPT !.cancelled = TRUE]
      BY <1>3, CancelRecorded
    <3> QED
      BY <3>1 DEF LedgerEntry
  <2>3. clientPositions' = clientPositions /\ everShort' = everShort
    BY <1>3 DEF RecordCancel, CancelOrder
  <2> QED
    BY <1>1, <2>1, <2>2, <2>3, NetSame
<1>4. ASSUME NEW d \in ClientIds,
             EnterProcessOrder(d) \/ StampBenchmarkStart(d) \/ FinishOrder(d),
             UNCHANGED <<ledger, everShort>>
      PROVE  clientPositions' = clientPositions /\ everShort' = everShort /\ ledger' = ledger
  BY <1>4 DEF EnterProcessOrder, StampBenchmarkStart, FinishOrder, bookVars
<1>5. ASSUME UNCHANGED auditVars
      PROVE  clientPositions' = clientPositions /\ everShort' = everShort /\ ledger' = ledger
  BY <1>5 DEF auditVars, vars, bookVars
<1> QED
  BY <1>2, <1>3, <1>4, <1>5 DEF AuditNext

LEMMA TradeKeepsPositions ==
  ASSUME IInv, AuditInv, PositionInv, NEW d \in ClientIds, RecordTrade(d)
  PROVE  PositionInv'
<1>1. PICK b \in buyOrders, s \in sellOrders, q \in Int : Executes(b, s, q)
  BY TradeRecorded
<1>2. SUFFICES ASSUME NEW c \in ClientIds
               PROVE  clientPositions'[c].quantity = NetFilled(ledger', c)
  BY DEF PositionInv
<1>3. /\ b.clientId \in ClientIds /\ s.clientId \in ClientIds /\ s.price \in Int
      /\ NetFilled(ledger', c) = NetFilled(ledger, c) + (IF b.clientId = c THEN q ELSE 0)
                                                     - (IF s.clientId = c THEN q ELSE 0)
  BY <1>1, TradeMovesNet
<1>4. clientPositions \in [ClientIds -> PositionInfo]
  BY DEF IInv, StateTyped
<1> DEFINE p == clientPositions[c]
           x == AfterBuy(p, s.price, q)
<1>5. p \in PositionInfo /\ p.quantity \in Int /\ p.quantity = NetFilled(ledger, c)
  BY <1>4 DEF PositionInfo, PositionInv
<1>6. x \in PositionInfo /\ x.quantity = p.quantity + q /\ x.quantity \in Int
  BY <1>3, <1>5, AfterBuyType, QuantityAfter
<1>7. /\ AfterSell(p, s.price, q).quantity = p.quantity - q
      /\ AfterSell(x, s.price, q).quantity = x.quantity - q
  BY <1>3, <1>5, <1>6, QuantityAfter
<1>8. clientPositions' = AfterTrade(clientPositions, b.clientId, s.clientId, s.price, q)
  BY <1>1 DEF Executes
<1>9. LET after == clientPositions'[c]
      IN  /\ c # b.clientId /\ c # s.clientId => after = p
          /\ c = b.clientId /\ c # s.clientId => after = x
          /\ c # b.clientId /\ c = s.clientId => after = AfterSell(p, s.price, q)
          /\ c = b.clientId /\ c = s.clientId => after = AfterSell(x, s.price, q)
  <2>1. clientPositions'[c] =
          LET bought == IF c = b.clientId THEN AfterBuy(clientPositions[c], s.price, q)
                                          ELSE clientPositions[c]
          IN  IF c = s.clientId THEN AfterSell(bought, s.price, q) ELSE bought
    BY <1>3, <1>4, <1>8, AfterTradeOf
  <2> QED
    BY <2>1
<1> HIDE DEF p, x
<1> QED
  BY <1>3, <1>5, <1>6, <1>7, <1>9

LEMMA PositionInvariant == AuditSpec => []PositionInv
<1>1. AuditInit => PositionInv
  <2> SUFFICES ASSUME AuditInit, NEW c \in ClientIds
               PROVE  clientPositions[c].quantity = NetFilled(ledger, c)
    BY DEF PositionInv
  <2>1. clientPositions[c].quantity = 0
    BY DEF AuditInit, Init, NoPosition
  <2> QED
    BY <2>1, NetInit
<1>2. IInv /\ AuditInv /\ PositionInv /\ [AuditNext]_auditVars => PositionInv'
  BY NoTradeKeepsNet, TradeKeepsPositions DEF PositionInv
<1> QED
  BY <1>1, <1>2, AuditInvariant, PTL DEF AuditSpec

\* The totals of the property are the net amounts.
LEMMA TotalsAreNet ==
  ASSUME AuditInv, NEW c \in ClientIds
  PROVE  /\ Filled(OrdersOf(c, "BUY")) - Filled(OrdersOf(c, "SELL")) = NetFilled(ledger, c)
         /\ Cost(OrdersOf(c, "BUY")) - Cost(OrdersOf(c, "SELL")) = NetPaid(ledger, c)
<1>1. ledger \in Seq(LedgerEntry)
  BY DEF AuditInv, LedgerType
<1>2. ASSUME NEW type
      PROVE  /\ OrdersOf(c, type) = IdsOf(ledger, c, type)
             /\ IsFiniteSet(OrdersOf(c, type))
             /\ OrdersOf(c, type) \subseteq DOMAIN ledger
  <2>1. OrdersOf(c, type) = IdsOf(ledger, c, type)
    BY DEF OrdersOf, IdsOf
  <2> QED
    BY <1>1, <2>1, IdsFinite DEF OrdersOf
<1>3. ASSUME NEW type
      PROVE  /\ Filled(OrdersOf(c, type)) = Total(Fills(ledger), IdsOf(ledger, c, type))
             /\ Cost(OrdersOf(c, type)) = Total(Costs(ledger), IdsOf(ledger, c, type))
  BY <1>2, FilledIsTotal, CostIsTotal
<1> QED
  BY <1>3 DEF NetFilled, NetPaid

\* The positions the engine shows agree with what the orders executed, through
\* any number of executions, of any sign, and through self-trades.
THEOREM PositionsAgreeWithFills == AuditSpec => []PositionsMatchFills
<1>1. AuditInv /\ PositionInv => PositionsMatchFills
  BY TotalsAreNet DEF PositionInv, PositionsMatchFills
<1> QED
  BY <1>1, PositionInvariant, AuditInvariant, PTL

-----------------------------------------------------------------------------
(* The average price is the cost basis.                                    *)

\* A position that is not short, of which the cost at its average price is what
\* was paid for it plus the profit realized.
Basis(p, paid) ==
  /\ p.quantity >= 0
  /\ SameAmount(Times(p.averagePrice, p.quantity), Plus(Whole(paid), p.realizedPnL))

\* The same without fractions.
LEMMA BasisMeans ==
  ASSUME NEW p \in PositionInfo, NEW paid \in Int
  PROVE  Basis(p, paid) <=>
           /\ p.quantity >= 0
           /\ p.averagePrice.den # 0 /\ p.realizedPnL.den # 0
           /\ p.averagePrice.num * p.quantity * p.realizedPnL.den =
                (paid * p.realizedPnL.den + p.realizedPnL.num) * p.averagePrice.den
<1> DEFINE a == p.averagePrice
           g == p.realizedPnL
<1>1. /\ a.num \in Int /\ a.den \in Nat /\ g.num \in Int /\ g.den \in Nat
      /\ p.quantity \in Int
  BY DEF PositionInfo, Amount
<1>2. Times(a, p.quantity) = [num |-> a.num * p.quantity, den |-> a.den]
  BY DEF Times
<1>3. Plus(Whole(paid), g) = [num |-> paid * g.den + g.num, den |-> g.den]
  BY <1>1 DEF Plus, Whole
<1> HIDE DEF a, g
<1>4. SameAmount(Times(a, p.quantity), Plus(Whole(paid), g)) <=>
        /\ a.den # 0 /\ g.den # 0
        /\ a.num * p.quantity * g.den = (paid * g.den + g.num) * a.den
  <2>1. /\ Times(a, p.quantity).num = a.num * p.quantity /\ Times(a, p.quantity).den = a.den
        /\ Plus(Whole(paid), g).num = paid * g.den + g.num /\ Plus(Whole(paid), g).den = g.den
    BY <1>2, <1>3
  <2> QED
    BY <2>1, Zenon DEF SameAmount, Finite
<1> QED
  BY <1>4 DEF Basis, a, g

\* A purchase adds its cost to the basis.
LEMMA BuyKeepsBasis ==
  ASSUME NEW p \in PositionInfo, NEW paid \in Int, NEW price \in Int, NEW q \in Int,
         q > 0, Basis(p, paid)
  PROVE  Basis(AfterBuy(p, price, q), paid + price * q)
<1> DEFINE x == AfterBuy(p, price, q)
           a == p.averagePrice.num
           d == p.averagePrice.den
           g == p.realizedPnL.num
           e == p.realizedPnL.den
           n == p.quantity + q
           c == price * q
<1>1. /\ a \in Int /\ d \in Nat /\ g \in Int /\ e \in Nat /\ p.quantity \in Int
      /\ d # 0 /\ e # 0 /\ p.quantity >= 0
      /\ a * p.quantity * e = (paid * e + g) * d
  BY BasisMeans DEF PositionInfo, Amount
<1>2. n \in Int /\ n > 0 /\ c \in Int
  BY <1>1
<1>3. x.quantity = n /\ x.realizedPnL = p.realizedPnL /\ x \in PositionInfo
  <2>1. DOMAIN p = {"quantity", "averagePrice", "realizedPnL"}
    BY DEF PositionInfo
  <2>2. x \in PositionInfo
    BY AfterBuyType
  <2> QED
    BY <2>1, <2>2 DEF AfterBuy
<1>4. x.averagePrice = [num |-> a * p.quantity + c * d, den |-> d * n]
  <2>1. Plus(Times(p.averagePrice, p.quantity), Whole(c)) =
          [num |-> a * p.quantity + c * d, den |-> d]
    BY <1>1, <1>2 DEF Plus, Times, Whole
  <2>2. x.averagePrice = DividedBy([num |-> a * p.quantity + c * d, den |-> d], n)
    <3>1. DOMAIN p = {"quantity", "averagePrice", "realizedPnL"}
      BY DEF PositionInfo
    <3> QED
      BY <2>1, <3>1 DEF AfterBuy
  <2> HIDE DEF n, c
  <2> QED
    BY <1>2, <2>2 DEF DividedBy
<1> HIDE DEF x, n, c
<1>5. d * n # 0
  BY <1>1, <1>2
<1>6. (a * p.quantity + c * d) * n * e = ((paid + c) * e + g) * (d * n)
  <2> DEFINE t == a * p.quantity
             u == paid * e + g
  <2>1. t \in Int /\ u \in Int /\ t * e = u * d
    BY <1>1
  <2>2. (paid + c) * e + g = u + c * e
    BY <1>1, <1>2
  <2> HIDE DEF a, d, e, g, t, u
  <2>3. (t + c * d) * n * e = (u + c * e) * (d * n)
    <3>1. (t + c * d) * e = (u + c * e) * d
      BY <1>1, <1>2, <2>1
    <3>2. (t + c * d) * n * e = ((t + c * d) * e) * n
      BY <1>1, <1>2, <2>1
    <3>3. (u + c * e) * (d * n) = ((u + c * e) * d) * n
      BY <1>1, <1>2, <2>1
    <3> QED
      BY <3>1, <3>2, <3>3
  <2> QED
    BY <2>2, <2>3 DEF t
<1>7. Basis(x, paid + c)
  <2>1. /\ x.averagePrice.num = a * p.quantity + c * d /\ x.averagePrice.den = d * n
        /\ x.realizedPnL.num = g /\ x.realizedPnL.den = e
    BY <1>3, <1>4
  <2>2. paid + c \in Int
    BY <1>2
  <2> HIDE DEF a, d, e, g
  <2>3. x.averagePrice.num * x.quantity * x.realizedPnL.den =
          ((paid + c) * x.realizedPnL.den + x.realizedPnL.num) * x.averagePrice.den
    BY <1>3, <1>6, <2>1
  <2>4. x.quantity >= 0 /\ x.averagePrice.den # 0 /\ x.realizedPnL.den # 0
    BY <1>1, <1>2, <1>3, <1>5, <2>1
  <2> QED
    BY <1>3, <2>2, <2>3, <2>4, BasisMeans
<1> QED
  BY <1>7 DEF x, c

\* A sale out of a position takes its proceeds off, and the profit it realizes
\* makes up for the difference.
LEMMA SellKeepsBasis ==
  ASSUME NEW p \in PositionInfo, NEW paid \in Int, NEW price \in Int, NEW q \in Int,
         q > 0, p.quantity - q >= 0, Basis(p, paid)
  PROVE  Basis(AfterSell(p, price, q), paid - price * q)
<1> DEFINE x == AfterSell(p, price, q)
           a == p.averagePrice.num
           d == p.averagePrice.den
           g == p.realizedPnL.num
           e == p.realizedPnL.den
           n == p.quantity - q
           c == price * q
           w == g * d + ((price * d - a) * q) * e
<1>1. /\ a \in Int /\ d \in Nat /\ g \in Int /\ e \in Nat /\ p.quantity \in Int
      /\ d # 0 /\ e # 0 /\ p.quantity > 0
      /\ a * p.quantity * e = (paid * e + g) * d
  BY BasisMeans DEF PositionInfo, Amount
<1>2. n \in Int /\ n >= 0 /\ c \in Int
  BY <1>1
<1>3. x.quantity = n /\ x \in PositionInfo
  BY AfterSellType, QuantityAfter
<1>4. x.realizedPnL = [num |-> w, den |-> e * d]
  <2>1. Minus(Whole(price), p.averagePrice) = [num |-> price * d - a, den |-> d]
    BY <1>1 DEF Minus, Plus, Times, Whole
  <2>2. Times(Minus(Whole(price), p.averagePrice), q) =
          [num |-> (price * d - a) * q, den |-> d]
    BY <2>1 DEF Times
  <2>3. Plus(p.realizedPnL, Times(Minus(Whole(price), p.averagePrice), q)) =
          [num |-> w, den |-> e * d]
    BY <1>1, <2>2 DEF Plus
  <2> HIDE DEF w
  <2> QED
    BY <1>1, <2>3 DEF AfterSell
<1>5. x.averagePrice = IF n = 0 THEN Whole(0) ELSE p.averagePrice
  BY DEF AfterSell
<1> HIDE DEF x
<1>6. e * d # 0 /\ w \in Int
  BY <1>1
<1>7. a * n * e = ((paid - c) * e + g) * d + ((price * d - a) * q) * e
  <2>1. a * n * e = a * p.quantity * e - a * q * e
    BY <1>1
  <2>2. ((paid - c) * e + g) * d = (paid * e + g) * d - c * e * d
    BY <1>1, <1>2
  <2>3. ((price * d - a) * q) * e = c * e * d - a * q * e
    BY <1>1
  <2>4. c * e * d \in Int /\ a * q * e \in Int /\ (paid * e + g) * d \in Int
    BY <1>1, <1>2
  <2> HIDE DEF a, d, e, g, n, c
  <2> QED
    BY <1>1, <2>1, <2>2, <2>3, <2>4
<1>8. (paid - c) * (e * d) + w = a * n * e
  <2>1. (paid - c) * (e * d) + w = ((paid - c) * e + g) * d + ((price * d - a) * q) * e
    BY <1>1, <1>2
  <2> QED
    BY <1>7, <2>1
<1>9. Basis(x, paid - c)
  <2>1. paid - c \in Int
    BY <1>2
  <2>2. x.realizedPnL.num = w /\ x.realizedPnL.den = e * d
    BY <1>4
  <2>3. CASE n = 0
    <3>1. x.averagePrice.num = 0 /\ x.averagePrice.den = 1
      BY <1>5, <2>3 DEF Whole
    <3>2. (paid - c) * (e * d) + w = 0
      BY <1>1, <1>8, <2>3
    <3> HIDE DEF a, d, e, g, n, c, w
    <3>3. x.averagePrice.num * x.quantity * x.realizedPnL.den =
            ((paid - c) * x.realizedPnL.den + x.realizedPnL.num) * x.averagePrice.den
      BY <1>1, <1>2, <1>3, <1>6, <2>2, <3>1, <3>2
    <3> QED
      BY <1>2, <1>3, <1>6, <2>1, <2>2, <3>1, <3>3, BasisMeans
  <2>4. CASE n # 0
    <3>1. x.averagePrice.num = a /\ x.averagePrice.den = d
      BY <1>5, <2>4
    <3>2. a * n * (e * d) = (a * n * e) * d
      BY <1>1, <1>2
    <3> HIDE DEF a, d, e, g, n, c, w
    <3>3. x.averagePrice.num * x.quantity * x.realizedPnL.den =
            ((paid - c) * x.realizedPnL.den + x.realizedPnL.num) * x.averagePrice.den
      BY <1>3, <1>8, <2>2, <3>1, <3>2
    <3> QED
      BY <1>1, <1>2, <1>3, <1>6, <2>1, <2>2, <3>1, <3>3, BasisMeans
  <2> QED
    BY <2>3, <2>4
<1> QED
  BY <1>9 DEF x, c

AllPositive == \A i \in DOMAIN ledger : ledger[i].quantity > 0

\* A remainder is pushed back only if something remains, so among positive
\* orders all executions are positive.
BasisInv ==
  AllPositive =>
    /\ \A o \in Resting : o.quantity > 0
    /\ \A c \in ClientIds \ everShort : Basis(clientPositions[c], NetPaid(ledger, c))

LEMMA TradeKeepsBasis ==
  ASSUME IInv, AuditInv, BasisInv, NEW d \in ClientIds, RecordTrade(d)
  PROVE  BasisInv'
<1>1. PICK b \in buyOrders, s \in sellOrders, q \in Int : Executes(b, s, q)
  BY TradeRecorded
<1>2. /\ b \in Order /\ s \in Order /\ b \in Resting /\ s \in Resting
      /\ q = TradedQty(b, s)
      /\ b.quantity \in Int /\ s.quantity \in Int
  BY <1>1 DEF Executes, Resting, Order
<1>3. AllPositive' => AllPositive
  <2>1. /\ DOMAIN ledger' = DOMAIN ledger
        /\ \A i \in {b.id, s.id} : ledger'[i] = Charged(ledger[i], s.price, q)
        /\ \A i \in DOMAIN ledger \ {b.id, s.id} : ledger'[i] = ledger[i]
    BY <1>1, LedgerAfter
  <2>2. ASSUME NEW i \in DOMAIN ledger
        PROVE  ledger'[i].quantity = ledger[i].quantity
    <3>1. ledger[i] \in LedgerEntry
      BY ElementOfSeq, LenProperties DEF AuditInv, LedgerType
    <3>2. s.price \in Int
      BY <1>2, PriceAssumption DEF Order
    <3>3. Charged(ledger[i], s.price, q).quantity = ledger[i].quantity
      BY <3>1, <3>2, ChargedType
    <3> QED
      BY <2>1, <3>3
  <2> QED
    BY <2>1, <2>2 DEF AllPositive
<1>4. SUFFICES ASSUME AllPositive
               PROVE  /\ \A o \in Resting' : o.quantity > 0
                      /\ \A c \in ClientIds \ everShort' :
                           Basis(clientPositions'[c], NetPaid(ledger', c))
  BY <1>3 DEF BasisInv
<1>5. /\ \A o \in Resting : o.quantity > 0
      /\ \A c \in ClientIds \ everShort : Basis(clientPositions[c], NetPaid(ledger, c))
  BY <1>4 DEF BasisInv
<1>6. q > 0
  BY <1>2, <1>5 DEF TradedQty
<1>7. ASSUME NEW o \in Resting'
      PROVE  o.quantity > 0
  <2>1. o \in Reduced(buyOrders, b, q) \/ o \in Reduced(sellOrders, s, q)
    BY <1>1 DEF Executes, Resting
  <2>2. o \in Resting \/ o.quantity > 0
    BY <2>1 DEF Reduced, Resting
  <2> QED
    BY <1>5, <2>2
<1>8. ASSUME NEW c \in ClientIds \ everShort'
      PROVE  Basis(clientPositions'[c], NetPaid(ledger', c))
  <2> DEFINE p == clientPositions[c]
             n == NetPaid(ledger, c)
             r == s.price * q
             x == AfterBuy(p, s.price, q)
  <2>1. /\ b.clientId \in ClientIds /\ s.clientId \in ClientIds /\ s.price \in Int
        /\ NetPaid(ledger', c) = n + (IF b.clientId = c THEN r ELSE 0)
                                  - (IF s.clientId = c THEN r ELSE 0)
    BY <1>1, TradeMovesNet
  <2>2. clientPositions \in [ClientIds -> PositionInfo] /\ p \in PositionInfo
    BY DEF IInv, StateTyped
  <2>3. n \in Int /\ r \in Int
    BY <2>1, NetType DEF AuditInv, LedgerType
  <2>4. c \notin everShort /\ ~ (clientPositions'[c].quantity < 0)
    BY DEF RecordTrade
  <2>5. Basis(p, n)
    BY <1>5, <2>4
  <2>6. x \in PositionInfo /\ Basis(x, n + r)
    BY <1>6, <2>1, <2>2, <2>3, <2>5, AfterBuyType, BuyKeepsBasis
  <2>7. clientPositions'[c] =
          LET bought == IF c = b.clientId THEN x ELSE p
          IN  IF c = s.clientId THEN AfterSell(bought, s.price, q) ELSE bought
    BY <1>1, <2>1, <2>2, AfterTradeOf DEF Executes
  <2>8. ASSUME NEW y \in PositionInfo, NEW k \in Int, Basis(y, k),
               clientPositions'[c] = AfterSell(y, s.price, q)
        PROVE  Basis(clientPositions'[c], k - r)
    <3>1. AfterSell(y, s.price, q).quantity = y.quantity - q /\ y.quantity \in Int
      BY <2>1, QuantityAfter DEF PositionInfo
    <3>2. y.quantity - q >= 0
      BY <2>4, <2>8, <3>1
    <3> QED
      BY <1>6, <2>1, <2>8, <3>2, SellKeepsBasis
  <2> HIDE DEF p, n, r, x
  <2>9. CASE c # b.clientId /\ c # s.clientId
    BY <2>1, <2>3, <2>5, <2>7, <2>9
  <2>10. CASE c = b.clientId /\ c # s.clientId
    BY <2>1, <2>3, <2>6, <2>7, <2>10
  <2>11. CASE c # b.clientId /\ c = s.clientId
    <3>1. clientPositions'[c] = AfterSell(p, s.price, q) /\ NetPaid(ledger', c) = n - r
      BY <2>1, <2>3, <2>7, <2>11
    <3> QED
      BY <2>2, <2>3, <2>5, <2>8, <3>1
  <2>12. CASE c = b.clientId /\ c = s.clientId
    <3>1. /\ clientPositions'[c] = AfterSell(x, s.price, q)
          /\ NetPaid(ledger', c) = (n + r) - r /\ n + r \in Int
      BY <2>1, <2>3, <2>7, <2>12
    <3> QED
      BY <2>6, <2>8, <3>1
  <2> QED
    BY <2>9, <2>10, <2>11, <2>12
<1> QED
  BY <1>7, <1>8

LEMMA NoTradeKeepsBasis ==
  ASSUME IInv, AuditInv, BasisInv, [AuditNext]_auditVars,
         ~ \E c \in ClientIds : RecordTrade(c)
  PROVE  BasisInv'
<1>1. /\ clientPositions' = clientPositions /\ everShort' = everShort
      /\ \A c : NetPaid(ledger', c) = NetPaid(ledger, c)
  BY NoTradeKeepsNet
<1>2. SUFFICES AllPositive' => /\ AllPositive
                              /\ \A o \in Resting' : o \in Resting \/ o.quantity > 0
  BY <1>1 DEF BasisInv
<1>3. ASSUME NEW d \in ClientIds, RecordOrder(d), AllPositive'
      PROVE  AllPositive /\ \A o \in Resting' : o \in Resting \/ o.quantity > 0
  <2> DEFINE new    == [clientId |-> d, type |-> order[d].type, price |-> order[d].price,
                        quantity |-> order[d].quantity, filled |-> 0, cost |-> 0,
                        cancelled |-> FALSE]
             booked == Booked(order[d], nextOrderId)
  <2>1. /\ new \in LedgerEntry /\ ledger' = Append(ledger, new)
        /\ Resting' = Resting \cup {booked} /\ order[d] \in Order
    BY <1>3, OrderRecorded
  <2>2. booked.quantity = new.quantity
    BY <2>1 DEF Booked, Order
  <2> HIDE DEF new, booked
  <2>3. /\ DOMAIN ledger = 1 .. Len(ledger) /\ DOMAIN ledger' = 1 .. (Len(ledger) + 1)
        /\ \A i \in 1 .. Len(ledger) : ledger'[i] = ledger[i]
        /\ ledger'[Len(ledger) + 1] = new /\ Len(ledger) \in Nat
    BY <2>1, AppendProperties, LenProperties DEF AuditInv, LedgerType
  <2>4. AllPositive /\ new.quantity > 0
    BY <1>3, <2>3 DEF AllPositive
  <2> QED
    BY <2>1, <2>2, <2>4
<1>4. ASSUME NEW d \in ClientIds, NEW orderId, RecordCancel(d, orderId), AllPositive'
      PROVE  AllPositive /\ \A o \in Resting' : o \in Resting \/ o.quantity > 0
  <2>1. Resting' \subseteq Resting /\ DOMAIN ledger' = DOMAIN ledger
    BY <1>4, CancelRecorded
  <2>2. ASSUME NEW i \in DOMAIN ledger
        PROVE  ledger'[i].quantity = ledger[i].quantity
    <3>1. /\ ledger[i] \in LedgerEntry
          /\ ledger'[i] = ledger[i] \/ ledger'[i] = [ledger[i] EXCEPT !.cancelled = TRUE]
      BY <1>4, CancelRecorded
    <3> QED
      BY <3>1 DEF LedgerEntry
  <2> QED
    BY <1>4, <2>1, <2>2 DEF AllPositive
<1>5. ASSUME UNCHANGED <<buyOrders, sellOrders, ledger>>, AllPositive'
      PROVE  AllPositive /\ \A o \in Resting' : o \in Resting \/ o.quantity > 0
  BY <1>5 DEF AllPositive, Resting
<1>6. ASSUME NEW d \in ClientIds,
             EnterProcessOrder(d) \/ StampBenchmarkStart(d) \/ FinishOrder(d),
             UNCHANGED <<ledger, everShort>>
      PROVE  UNCHANGED <<buyOrders, sellOrders, ledger>>
  BY <1>6 DEF EnterProcessOrder, StampBenchmarkStart, FinishOrder, bookVars
<1>7. UNCHANGED auditVars => UNCHANGED <<buyOrders, sellOrders, ledger>>
  BY DEF auditVars, vars, bookVars
<1> QED
  BY <1>3, <1>4, <1>5, <1>6, <1>7 DEF AuditNext

\* The average price shown to a client that never was short is what its
\* position cost, through purchases at several prices, partial sales, positions
\* that were closed and opened again, and self-trades.
THEOREM AveragePriceIsCostBasis == AuditSpec => []CostBasisIdentity
<1>1. AuditInit => BasisInv
  <2> SUFFICES ASSUME AuditInit PROVE BasisInv
    OBVIOUS
  <2>1. Resting = {}
    BY DEF AuditInit, Init, Resting
  <2>2. ASSUME NEW c \in ClientIds
        PROVE  Basis(clientPositions[c], NetPaid(ledger, c))
    <3>1. clientPositions[c] = NoPosition /\ NetPaid(ledger, c) = 0
      BY NetInit DEF AuditInit, Init
    <3> QED
      BY <3>1 DEF Basis, NoPosition, SameAmount, Times, Plus, Whole, Finite
  <2> QED
    BY <2>1, <2>2 DEF BasisInv
<1>2. IInv /\ AuditInv /\ BasisInv /\ [AuditNext]_auditVars => BasisInv'
  BY TradeKeepsBasis, NoTradeKeepsBasis
<1>3. AuditInv /\ BasisInv => CostBasisIdentity
  <2> SUFFICES ASSUME AuditInv, BasisInv, AllPositive, NEW c \in ClientIds \ everShort
               PROVE  LET p == clientPositions[c]
                      IN  SameAmount(Times(p.averagePrice, p.quantity),
                                     Plus(Whole(Cost(OrdersOf(c, "BUY")) - Cost(OrdersOf(c, "SELL"))),
                                          p.realizedPnL))
    BY Zenon DEF CostBasisIdentity, AllPositive
  <2>1. Cost(OrdersOf(c, "BUY")) - Cost(OrdersOf(c, "SELL")) = NetPaid(ledger, c)
    BY TotalsAreNet
  <2>2. Basis(clientPositions[c], NetPaid(ledger, c))
    BY DEF BasisInv
  <2> QED
    BY <2>1, <2>2, Zenon DEF Basis
<1> QED
  BY <1>1, <1>2, <1>3, AuditInvariant, PTL DEF AuditSpec

=============================================================================
