------------------------ MODULE TradingSystemProofs ------------------------
(***************************************************************************)
(* Proofs about TradingSystem, for any set of dashboards, any prices and   *)
(* integer quantities, and any number of orders, cancels and snapshots on  *)
(* their way.                                                              *)
(***************************************************************************)
EXTENDS TradingSystem, SequenceTheorems, TLAPS

-----------------------------------------------------------------------------
(* Types.                                                                  *)

OrderType == {"BUY", "SELL"}

OrderRecord ==
  [clientId : ClientIds, type : OrderType, price : Prices, quantity : Int,
   filled : Int, open : BOOLEAN]

OrderLine == [line : {"ORDER"}, type : OrderType, price : Prices, quantity : Int]

BookRow == [type : OrderType, price : Prices, rest : Int]

CancelLine == [line : {"CANCEL"}, id : Nat, meant : BookRow]

BookType == UNION {[S -> BookRow] : S \in SUBSET Nat}

SnapshotType == [book : BookType, last : Nat]

SystemType ==
  /\ orders \in Seq(OrderRecord)
  /\ wire \in [ClientIds -> Seq(OrderLine \cup CancelLine)]
  /\ channel \in [ClientIds -> Seq(SnapshotType)]
  /\ view \in [ClientIds -> SnapshotType]

LEMMA SnapshotParts ==
  ASSUME NEW s \in SnapshotType
  PROVE  /\ s.last \in Nat /\ DOMAIN s.book \subseteq Nat
         /\ \A i \in DOMAIN s.book : s.book[i] \in BookRow /\ s.book[i].rest \in Int
<1>1. s.book \in BookType /\ s.last \in Nat
  BY DEF SnapshotType
<1>2. PICK S \in SUBSET Nat : s.book \in [S -> BookRow]
  BY <1>1 DEF BookType
<1> QED
  BY <1>1, <1>2 DEF BookRow

-----------------------------------------------------------------------------
(* The inductive invariant.                                                *)

\* Without negative quantities a is at most b.
AtMost(a, b) == NoNegatives => a <= b

\* A snapshot of the past: orders keep their side and price, what is left of
\* them does not grow, and of the orders it reaches those it lacks are closed.
Past(s) ==
  /\ s.last <= Len(orders)
  /\ \A i \in DOMAIN s.book :
       /\ i \in 1 .. Len(orders)
       /\ s.book[i].type = orders[i].type /\ s.book[i].price = orders[i].price
       /\ AtMost(Rest(i), s.book[i].rest)
  /\ \A i \in 1 .. s.last : orders[i].open => i \in DOMAIN s.book

\* t was taken after s.
Newer(s, t) ==
  \A i \in (1 .. s.last) \cap DOMAIN t.book :
    i \in DOMAIN s.book /\ AtMost(t.book[i].rest, s.book[i].rest)

\* A cancel on its way means the order it was entered for.
Meant(l) ==
  l.line = "CANCEL" =>
    /\ l.id \in 1 .. Len(orders)
    /\ orders[l.id].type = l.meant.type /\ orders[l.id].price = l.meant.price
    /\ AtMost(Rest(l.id), l.meant.rest)

Elements(s) == {s[n] : n \in 1 .. Len(s)}

\* The snapshots for one dashboard, from the one it shows to the latest.
InOrder(c) ==
  /\ \A n \in 1 .. Len(channel[c]) : Newer(view[c], channel[c][n])
  /\ \A m, n \in 1 .. Len(channel[c]) : m < n => Newer(channel[c][m], channel[c][n])

RestsLeft == \A i \in 1 .. Len(orders) : AtMost(0, Rest(i))

SystemInv ==
  /\ SystemType
  /\ RestsLeft
  /\ \A c \in ClientIds :
       /\ \A l \in Elements(wire[c]) : Meant(l)
       /\ \A s \in {view[c]} \cup Elements(channel[c]) : Past(s)
       /\ InOrder(c)

\* What a step may do to the register of orders.
Evolves ==
  /\ NoNegatives' => NoNegatives
  /\ Len(orders) <= Len(orders')
  /\ \A i \in 1 .. Len(orders) :
       /\ orders'[i].type = orders[i].type /\ orders'[i].price = orders[i].price
       /\ AtMost(orders'[i].quantity - orders'[i].filled, Rest(i))
       /\ orders'[i].open => orders[i].open

LEMMA OrderParts ==
  ASSUME SystemType
  PROVE  /\ Len(orders) \in Nat /\ DOMAIN orders = 1 .. Len(orders)
         /\ \A i \in 1 .. Len(orders) :
              /\ orders[i] \in OrderRecord /\ orders[i].type \in OrderType
              /\ orders[i].price \in Prices
              /\ orders[i].quantity \in Int /\ orders[i].filled \in Int /\ Rest(i) \in Int
<1>1. orders \in Seq(OrderRecord)
  BY DEF SystemType
<1>2. Len(orders) \in Nat /\ DOMAIN orders = 1 .. Len(orders)
  BY <1>1, LenProperties
<1>3. \A i \in 1 .. Len(orders) : orders[i] \in OrderRecord
  BY <1>1, ElementOfSeq
<1>4. \A i \in 1 .. Len(orders) :
        /\ orders[i].type \in OrderType /\ orders[i].price \in Prices
        /\ orders[i].quantity \in Int /\ orders[i].filled \in Int
  BY <1>3 DEF OrderRecord
<1> QED
  BY <1>2, <1>3, <1>4 DEF Rest

LEMMA RestsAreIntegers ==
  SystemType => Len(orders) \in Nat /\ \A i \in 1 .. Len(orders) : Rest(i) \in Int
BY OrderParts

LEMMA PastStays ==
  ASSUME SystemType, SystemType', Evolves, NEW s \in SnapshotType, Past(s)
  PROVE  Past(s)'
<1>1. Len(orders) \in Nat /\ Len(orders') \in Nat /\ s.last \in Nat
  BY OrderParts, LenProperties, SnapshotParts DEF SystemType
<1>2. \A i \in 1 .. Len(orders) :
        (NoNegatives => Rest(i)' <= Rest(i)) /\ i \in 1 .. Len(orders')
  BY <1>1 DEF Evolves, Rest, AtMost
<1>3. \A i \in 1 .. Len(orders') : Rest(i)' \in Int
  <2>1. (SystemType => Len(orders) \in Nat /\ \A i \in 1 .. Len(orders) : Rest(i) \in Int)'
    BY RestsAreIntegers, PTL
  <2> QED
    BY <2>1
<1>4. ASSUME NEW i \in DOMAIN s.book, NoNegatives' PROVE Rest(i)' <= s.book[i].rest
  <2>1. NoNegatives
    BY <1>4 DEF Evolves
  <2>2. i \in 1 .. Len(orders) /\ Rest(i) <= s.book[i].rest
    BY <2>1 DEF Past, AtMost
  <2>3. Rest(i)' <= Rest(i) /\ i \in 1 .. Len(orders')
    BY <1>2, <2>1, <2>2
  <2>4. Rest(i) \in Int /\ Rest(i)' \in Int /\ s.book[i].rest \in Int
    BY <1>3, <2>2, <2>3, OrderParts, SnapshotParts
  <2> QED
    BY <2>2, <2>3, <2>4
<1>5. \A i \in 1 .. s.last : i \in 1 .. Len(orders)
  BY <1>1 DEF Past
<1>6. s.last <= Len(orders')
  BY <1>1 DEF Past, Evolves
<1>7. \A i \in 1 .. Len(orders) :
        /\ orders'[i].type = orders[i].type /\ orders'[i].price = orders[i].price
        /\ orders'[i].open => orders[i].open
  BY DEF Evolves
<1> QED
  BY <1>2, <1>4, <1>5, <1>6, <1>7 DEF Past, AtMost

LEMMA MeantStays ==
  ASSUME SystemType, SystemType', Evolves, NEW l \in OrderLine \cup CancelLine, Meant(l)
  PROVE  Meant(l)'
<1> SUFFICES ASSUME l.line = "CANCEL"
             PROVE  /\ l.id \in 1 .. Len(orders')
                    /\ orders'[l.id].type = l.meant.type /\ orders'[l.id].price = l.meant.price
                    /\ NoNegatives' => Rest(l.id)' <= l.meant.rest
  BY DEF Meant, AtMost
<1>1. l \in CancelLine /\ l.meant.rest \in Int
  BY DEF OrderLine, CancelLine, BookRow
<1>2. /\ l.id \in 1 .. Len(orders)
      /\ orders[l.id].type = l.meant.type /\ orders[l.id].price = l.meant.price
      /\ NoNegatives => Rest(l.id) <= l.meant.rest
  BY DEF Meant, AtMost
<1>3. Len(orders) \in Nat /\ Len(orders') \in Nat
  BY OrderParts, LenProperties DEF SystemType
<1>4. l.id \in 1 .. Len(orders') /\ (NoNegatives => Rest(l.id)' <= Rest(l.id))
  BY <1>2, <1>3 DEF Evolves, Rest, AtMost
<1>5. Rest(l.id) \in Int /\ Rest(l.id)' \in Int
  <2>1. (SystemType => Len(orders) \in Nat /\ \A i \in 1 .. Len(orders) : Rest(i) \in Int)'
    BY RestsAreIntegers, PTL
  <2> QED
    BY <1>2, <1>4, <2>1, OrderParts
<1> QED
  BY <1>1, <1>2, <1>4, <1>5 DEF Evolves

LEMMA SystemInitial == SystemInit => SystemInv
<1> SUFFICES ASSUME SystemInit PROVE SystemInv
  OBVIOUS
<1>1. orders = <<>> /\ Len(orders) = 0 /\ DOMAIN orders = {}
  BY EmptySeq DEF SystemInit, Init
<1>2. Bids \cup Asks = {}
  BY <1>1 DEF Bids, Asks, OpenOf
<1>3. Book \in BookType /\ DOMAIN Book = {}
  <2>1. Book \in [{} -> BookRow] /\ {} \in SUBSET Nat
    BY <1>2 DEF Book
  <2> QED
    BY <2>1 DEF BookType
<1>4. /\ wire = [c \in ClientIds |-> <<>>] /\ channel = [c \in ClientIds |-> <<>>]
      /\ view = [c \in ClientIds |-> [book |-> Book, last |-> 0]]
  BY DEF SystemInit
<1>5. SystemType
  <2>1. [book |-> Book, last |-> 0] \in SnapshotType
    BY <1>3 DEF SnapshotType
  <2>2. /\ <<>> \in Seq(OrderRecord) /\ <<>> \in Seq(OrderLine \cup CancelLine)
        /\ <<>> \in Seq(SnapshotType)
    BY EmptySeq
  <2> QED
    BY <1>1, <1>4, <2>1, <2>2 DEF SystemType
<1>6. ASSUME NEW c \in ClientIds
      PROVE  /\ Elements(wire[c]) = {} /\ Elements(channel[c]) = {}
             /\ InOrder(c) /\ Past(view[c])
  <2>1. view[c].last = 0 /\ DOMAIN view[c].book = {}
    BY <1>3, <1>4
  <2>2. wire[c] = <<>> /\ channel[c] = <<>> /\ Len(<<>>) = 0
    BY <1>4, EmptySeq
  <2> QED
    BY <1>1, <2>1, <2>2 DEF Past, Elements, InOrder
<1> QED
  BY <1>1, <1>5, <1>6 DEF SystemInv, RestsLeft

-----------------------------------------------------------------------------
(* The steps that leave the snapshots alone.                               *)

LEMMA SystemKept ==
  ASSUME SystemInv, SystemType', Evolves, UNCHANGED <<channel, view>>,
         RestsLeft',
         \A c \in ClientIds : \A l \in Elements(wire'[c]) : l \in Elements(wire[c]) \/ Meant(l)'
  PROVE  SystemInv'
<1>1. SystemType
  BY DEF SystemInv
<1>2. ASSUME NEW c \in ClientIds, NEW l \in Elements(wire[c]) PROVE Meant(l)'
  <2>1. wire[c] \in Seq(OrderLine \cup CancelLine)
    BY <1>1 DEF SystemType
  <2>2. l \in OrderLine \cup CancelLine
    BY <2>1, ElementOfSeq DEF Elements
  <2>3. Meant(l)
    BY DEF SystemInv
  <2> QED
    BY <1>1, <2>2, <2>3, MeantStays
<1>3. ASSUME NEW c \in ClientIds, NEW s \in {view[c]} \cup Elements(channel[c]) PROVE Past(s)'
  <2>1. view[c] \in SnapshotType /\ channel[c] \in Seq(SnapshotType)
    BY <1>1 DEF SystemType
  <2>2. s \in SnapshotType
    BY <2>1, ElementOfSeq DEF Elements
  <2>3. Past(s)
    BY DEF SystemInv
  <2> QED
    BY <1>1, <2>2, <2>3, PastStays
<1>4. ASSUME NEW c \in ClientIds PROVE InOrder(c)'
  <2>1. \A s, t : Newer(s, t) => Newer(s, t)'
    BY DEF Newer, AtMost, Evolves
  <2>2. InOrder(c)
    BY DEF SystemInv
  <2> QED
    BY <2>1, <2>2 DEF InOrder
<1>5. \A c \in ClientIds : \A l \in Elements(wire'[c]) : Meant(l)'
  BY <1>2
<1>6. \A c \in ClientIds : \A s \in {view'[c]} \cup Elements(channel'[c]) : Past(s)'
  BY <1>3
<1> QED
  BY <1>4, <1>5, <1>6 DEF SystemInv

\* A step that leaves the register of orders alone.
LEMMA OrdersKept ==
  ASSUME SystemInv, UNCHANGED orders
  PROVE  Evolves /\ RestsLeft'
<1>1. SystemType
  BY DEF SystemInv
<1>2. Len(orders) \in Nat /\ \A i \in 1 .. Len(orders) : Rest(i) \in Int
  BY <1>1, RestsAreIntegers
<1>3. RestsLeft
  BY DEF SystemInv
<1>4. RestsLeft'
  BY <1>3 DEF RestsLeft, AtMost, NoNegatives, Rest
<1> QED
  BY <1>2, <1>4 DEF Evolves, Rest, AtMost, NoNegatives

\* One more line on one wire.
LEMMA LineAdded ==
  ASSUME SystemType, NEW c \in ClientIds, NEW l \in OrderLine \cup CancelLine,
         wire' = [wire EXCEPT ![c] = Append(wire[c], l)]
  PROVE  /\ wire' \in [ClientIds -> Seq(OrderLine \cup CancelLine)]
         /\ \A d \in ClientIds : Elements(wire'[d]) \subseteq Elements(wire[d]) \cup {l}
<1>1. wire \in [ClientIds -> Seq(OrderLine \cup CancelLine)]
  BY DEF SystemType
<1>2. wire[c] \in Seq(OrderLine \cup CancelLine)
  BY <1>1
<1>3. /\ Append(wire[c], l) \in Seq(OrderLine \cup CancelLine)
      /\ Len(Append(wire[c], l)) = Len(wire[c]) + 1
      /\ \A n \in 1 .. Len(wire[c]) : Append(wire[c], l)[n] = wire[c][n]
      /\ Append(wire[c], l)[Len(wire[c]) + 1] = l
  BY <1>2, AppendProperties
<1>4. Len(wire[c]) \in Nat
  BY <1>2, LenProperties
<1>5. Elements(Append(wire[c], l)) \subseteq Elements(wire[c]) \cup {l}
  BY <1>3, <1>4 DEF Elements
<1> QED
  BY <1>1, <1>3, <1>5

\* The first line taken off one wire.
LEMMA LineTaken ==
  ASSUME SystemType, NEW c \in ClientIds, wire[c] # <<>>,
         wire' = [wire EXCEPT ![c] = Tail(wire[c])]
  PROVE  /\ wire' \in [ClientIds -> Seq(OrderLine \cup CancelLine)]
         /\ \A d \in ClientIds : Elements(wire'[d]) \subseteq Elements(wire[d])
         /\ Head(wire[c]) \in OrderLine \cup CancelLine
<1>1. wire \in [ClientIds -> Seq(OrderLine \cup CancelLine)]
  BY DEF SystemType
<1>2. wire[c] \in Seq(OrderLine \cup CancelLine)
  BY <1>1
<1>3. /\ Head(wire[c]) \in OrderLine \cup CancelLine
      /\ Tail(wire[c]) \in Seq(OrderLine \cup CancelLine)
      /\ Len(Tail(wire[c])) = Len(wire[c]) - 1
      /\ \A i \in 1 .. Len(Tail(wire[c])) : Tail(wire[c])[i] = wire[c][i + 1]
  BY <1>2, HeadTailProperties
<1>4. Len(wire[c]) \in Nat
  BY <1>2, LenProperties
<1>5. Elements(Tail(wire[c])) \subseteq Elements(wire[c])
  <2>1. \A i \in 1 .. Len(Tail(wire[c])) : i + 1 \in 1 .. Len(wire[c])
    BY <1>3, <1>4
  <2> QED
    BY <1>3, <2>1 DEF Elements
<1> QED
  BY <1>1, <1>3, <1>5

LEMMA EnterOrderKeepsInv ==
  ASSUME SystemInv, NEW c \in ClientIds,
         NEW type \in OrderType, NEW price \in Prices, NEW quantity \in Quantities,
         EnterOrder(c, type, price, quantity)
  PROVE  SystemInv'
<1> DEFINE l == [line |-> "ORDER", type |-> type, price |-> price, quantity |-> quantity]
<1>1. wire' = [wire EXCEPT ![c] = Append(wire[c], l)] /\ UNCHANGED <<orders, channel, view>>
  BY DEF EnterOrder, evars
<1>2. l \in OrderLine /\ l.line = "ORDER"
  BY EnteredAssumption DEF OrderLine
<1> HIDE DEF l
<1>3. /\ wire' \in [ClientIds -> Seq(OrderLine \cup CancelLine)]
      /\ \A d \in ClientIds : Elements(wire'[d]) \subseteq Elements(wire[d]) \cup {l}
  BY <1>1, <1>2, LineAdded DEF SystemInv
<1>4. SystemType'
  BY <1>1, <1>3 DEF SystemInv, SystemType
<1>5. Meant(l)'
  BY <1>2 DEF Meant
<1>6. \A d \in ClientIds : \A k \in Elements(wire'[d]) : k \in Elements(wire[d]) \/ Meant(k)'
  BY <1>3, <1>5
<1> QED
  BY <1>1, <1>4, <1>6, OrdersKept, SystemKept

LEMMA EnterCancelKeepsInv ==
  ASSUME SystemInv, NEW c \in ClientIds, NEW i \in DOMAIN view[c].book, EnterCancel(c, i)
  PROVE  SystemInv'
<1>1. PICK row : row = view[c].book[i]
  OBVIOUS
<1>2. /\ wire' = [wire EXCEPT ![c] = Append(wire[c], [line |-> "CANCEL", id |-> i, meant |-> row])]
      /\ UNCHANGED <<orders, channel, view>>
  BY <1>1 DEF EnterCancel, CancelId, evars
<1>3. i \in Nat /\ row \in BookRow
  BY <1>1, SnapshotParts DEF SystemInv, SystemType
<1>4. i \in 1 .. Len(orders) /\ row.type = orders[i].type /\ row.price = orders[i].price
      /\ AtMost(Rest(i), row.rest)
  BY <1>1 DEF SystemInv, Past
<1> DEFINE l == [line |-> "CANCEL", id |-> i, meant |-> row]
<1>5. l \in CancelLine /\ l.id = i /\ l.meant = row
  BY <1>3 DEF CancelLine
<1>6. wire' = [wire EXCEPT ![c] = Append(wire[c], l)]
  BY <1>2
<1> HIDE DEF l
<1>7. /\ wire' \in [ClientIds -> Seq(OrderLine \cup CancelLine)]
      /\ \A d \in ClientIds : Elements(wire'[d]) \subseteq Elements(wire[d]) \cup {l}
  BY <1>5, <1>6, LineAdded DEF SystemInv
<1>8. SystemType'
  BY <1>2, <1>7 DEF SystemInv, SystemType
<1>9. Meant(l)'
  <2>1. Rest(i)' = Rest(i) /\ (NoNegatives' <=> NoNegatives)
    BY <1>2 DEF Rest, NoNegatives
  <2>2. AtMost(Rest(i), row.rest)'
    BY <1>4, <2>1 DEF AtMost
  <2> QED
    BY <1>2, <1>4, <1>5, <2>2 DEF Meant
<1>10. \A d \in ClientIds : \A k \in Elements(wire'[d]) : k \in Elements(wire[d]) \/ Meant(k)'
  BY <1>7, <1>9
<1> QED
  BY <1>2, <1>8, <1>10, OrdersKept, SystemKept

-----------------------------------------------------------------------------
(* The steps of the exchange.                                              *)

LEMMA AcceptEvolves ==
  ASSUME SystemInv, NEW c \in ClientIds, NEW type \in OrderType, NEW price \in Prices,
         NEW quantity \in Int, Accept(c, type, price, quantity)
  PROVE  /\ orders' \in Seq(OrderRecord) /\ Evolves
         /\ RestsLeft'
<1> DEFINE o == [clientId |-> c, type |-> type, price |-> price,
                 quantity |-> quantity, filled |-> 0, open |-> TRUE]
<1>1. orders' = Append(orders, o)
  BY DEF Accept
<1>2. o \in OrderRecord /\ o.quantity = quantity /\ o.filled = 0
  BY DEF OrderRecord
<1> HIDE DEF o
<1>3. orders \in Seq(OrderRecord)
  BY DEF SystemInv, SystemType
<1>4. /\ orders' \in Seq(OrderRecord) /\ Len(orders') = Len(orders) + 1
      /\ \A i \in 1 .. Len(orders) : orders'[i] = orders[i]
      /\ orders'[Len(orders) + 1] = o
  BY <1>1, <1>2, <1>3, AppendProperties
<1>5. Len(orders) \in Nat /\ \A i \in 1 .. Len(orders) : Rest(i) \in Int
  BY RestsAreIntegers DEF SystemInv
<1>6. NoNegatives' => NoNegatives /\ quantity >= 0
  <2> SUFFICES ASSUME NoNegatives' PROVE NoNegatives /\ quantity >= 0
    OBVIOUS
  <2>1. DOMAIN orders = 1 .. Len(orders) /\ DOMAIN orders' = 1 .. Len(orders) + 1
    BY <1>3, <1>4, LenProperties
  <2>2. \A i \in 1 .. Len(orders) : orders[i].quantity >= 0
    BY <1>4, <1>5, <2>1 DEF NoNegatives
  <2>3. o.quantity >= 0
    BY <1>4, <1>5, <2>1 DEF NoNegatives
  <2> QED
    BY <1>2, <2>1, <2>2, <2>3 DEF NoNegatives
<1>7. Evolves
  BY <1>4, <1>5, <1>6 DEF Evolves, Rest, AtMost
<1>8. ASSUME NEW i \in 1 .. Len(orders'), NoNegatives' PROVE 0 <= Rest(i)'
  <2>1. CASE i \in 1 .. Len(orders)
    <3>1. RestsLeft
      BY DEF SystemInv
    <3>2. 0 <= Rest(i)
      BY <1>6, <1>8, <2>1, <3>1 DEF RestsLeft, AtMost
    <3> QED
      BY <1>4, <2>1, <3>2 DEF Rest
  <2>2. CASE i = Len(orders) + 1
    BY <1>2, <1>4, <1>6, <1>8, <2>2 DEF Rest
  <2> QED
    BY <1>4, <1>5, <2>1, <2>2
<1> QED
  BY <1>4, <1>7, <1>8 DEF RestsLeft, AtMost

LEMMA CancelEvolves ==
  ASSUME SystemInv, NEW i, Cancel(i)
  PROVE  /\ orders' \in Seq(OrderRecord) /\ Evolves
         /\ RestsLeft'
<1>1. orders \in Seq(OrderRecord) /\ Len(orders) \in Nat /\ DOMAIN orders = 1 .. Len(orders)
  BY OrderParts DEF SystemInv, SystemType
<1>2. i \in 1 .. Len(orders)
  BY <1>1 DEF Cancel, Bids, Asks, OpenOf
<1> DEFINE o == [orders[i] EXCEPT !.open = FALSE]
<1>3. orders' = [orders EXCEPT ![i] = o]
  BY DEF Cancel
<1>4. orders[i] \in OrderRecord
  BY <1>1, <1>2, ElementOfSeq
<1>5. /\ o \in OrderRecord /\ o.type = orders[i].type /\ o.price = orders[i].price
      /\ o.quantity = orders[i].quantity /\ o.filled = orders[i].filled /\ ~o.open
  BY <1>4 DEF OrderRecord
<1> HIDE DEF o
<1>6. /\ orders' \in Seq(OrderRecord) /\ Len(orders') = Len(orders)
      /\ \A k \in 1 .. Len(orders) : orders'[k] = IF k = i THEN o ELSE orders[k]
  BY <1>1, <1>2, <1>3, <1>5, ExceptSeq
<1>7. RestsLeft /\ \A k \in 1 .. Len(orders) : Rest(k) \in Int
  BY RestsAreIntegers DEF SystemInv
<1>8. \A k \in 1 .. Len(orders) : Rest(k)' = Rest(k)
  BY <1>5, <1>6 DEF Rest
<1>9. NoNegatives' <=> NoNegatives
  <2>1. DOMAIN orders' = DOMAIN orders /\ \A k \in DOMAIN orders : orders'[k].quantity = orders[k].quantity
    BY <1>1, <1>5, <1>6, LenProperties
  <2> QED
    BY <2>1 DEF NoNegatives
<1>10. Evolves
  BY <1>1, <1>5, <1>6, <1>7, <1>8, <1>9 DEF Evolves, Rest, AtMost
<1>11. RestsLeft'
  BY <1>6, <1>7, <1>8, <1>9 DEF RestsLeft, AtMost
<1> QED
  BY <1>6, <1>10, <1>11

\* Two fields of an order changed, whatever the fields' types are.
LEMMA OrderUpdated ==
  ASSUME NEW C, NEW T, NEW P, NEW Q, NEW F, NEW B,
         NEW o \in [clientId : C, type : T, price : P, quantity : Q, filled : F, open : B],
         NEW f \in F, NEW b \in B,
         NEW u, u = [[o EXCEPT !.filled = f] EXCEPT !.open = b]
  PROVE  /\ u \in [clientId : C, type : T, price : P, quantity : Q, filled : F, open : B]
         /\ u.type = o.type /\ u.price = o.price /\ u.quantity = o.quantity /\ u.filled = f
<1> DEFINE v == [o EXCEPT !.filled = f]
<1>1. /\ v \in [clientId : C, type : T, price : P, quantity : Q, filled : F, open : B]
      /\ v.type = o.type /\ v.price = o.price /\ v.quantity = o.quantity /\ v.filled = f
  OBVIOUS
<1>2. u = [v EXCEPT !.open = b]
  OBVIOUS
<1> HIDE DEF v
<1> QED
  BY <1>1, <1>2

LEMMA ExecutedParts ==
  ASSUME NEW o \in OrderRecord, NEW q \in Int
  PROVE  /\ Executed(o, q) \in OrderRecord
         /\ Executed(o, q).type = o.type /\ Executed(o, q).price = o.price
         /\ Executed(o, q).quantity = o.quantity /\ Executed(o, q).filled = o.filled + q
<1> DEFINE left == o.quantity - o.filled - q > 0
           u == [[o EXCEPT !.filled = o.filled + q] EXCEPT !.open = left]
<1>1. left \in BOOLEAN
  OBVIOUS
<1>2. o.filled + q \in Int
  BY DEF OrderRecord
<1>3. Executed(o, q) = u
  BY Zenon DEF Executed
<1> HIDE DEF left
<1>4. PICK f \in Int : f = o.filled + q
  BY <1>2
<1>5. u = [[o EXCEPT !.filled = f] EXCEPT !.open = left]
  BY <1>4, Zenon
<1> HIDE DEF u
<1>6. u \in OrderRecord /\ u.type = o.type /\ u.price = o.price /\ u.quantity = o.quantity /\ u.filled = f
  BY <1>1, <1>5, OrderUpdated, Zenon DEF OrderRecord
<1> QED
  BY <1>3, <1>4, <1>6, Zenon

LEMMA ExecuteEvolves ==
  ASSUME SystemInv, NEW i \in Bids, NEW j \in Asks, Execute(i, j)
  PROVE  /\ orders' \in Seq(OrderRecord) /\ Evolves
         /\ RestsLeft'
<1>1. orders \in Seq(OrderRecord) /\ Len(orders) \in Nat /\ DOMAIN orders = 1 .. Len(orders)
  BY OrderParts DEF SystemInv, SystemType
<1>2. /\ i \in 1 .. Len(orders) /\ j \in 1 .. Len(orders) /\ i # j
      /\ orders[i].open /\ orders[j].open
  BY <1>1 DEF Bids, Asks, OpenOf
<1>3. RestsLeft /\ \A k \in 1 .. Len(orders) : Rest(k) \in Int
  BY RestsAreIntegers DEF SystemInv
<1>4. PICK q : q = IF Rest(i) <= Rest(j) THEN Rest(i) ELSE Rest(j)
  OBVIOUS
<1>5. q \in Int /\ q <= Rest(i) /\ q <= Rest(j) /\ AtMost(0, q)
  <2>1. AtMost(0, Rest(i)) /\ AtMost(0, Rest(j)) /\ Rest(i) \in Int /\ Rest(j) \in Int
    BY <1>2, <1>3 DEF RestsLeft
  <2> QED
    BY <1>4, <2>1 DEF AtMost
<1> DEFINE a == Executed(orders[i], q)
           b == Executed(orders[j], q)
<1>6. orders[i] \in OrderRecord /\ orders[j] \in OrderRecord
  BY <1>1, <1>2, ElementOfSeq
<1>7. /\ a \in OrderRecord /\ a.type = orders[i].type /\ a.price = orders[i].price
      /\ a.quantity = orders[i].quantity /\ a.filled = orders[i].filled + q
      /\ b \in OrderRecord /\ b.type = orders[j].type /\ b.price = orders[j].price
      /\ b.quantity = orders[j].quantity /\ b.filled = orders[j].filled + q
  BY <1>5, <1>6, ExecutedParts
<1>8. orders' = [[orders EXCEPT ![i] = a] EXCEPT ![j] = b]
  <2>1. orders' = [orders EXCEPT ![i] = Executed(@, q), ![j] = Executed(@, q)]
    BY <1>4 DEF Execute
  <2> QED
    BY <1>1, <1>2, <2>1
<1> HIDE DEF a, b
<1>9. /\ orders' \in Seq(OrderRecord) /\ Len(orders') = Len(orders)
      /\ \A k \in 1 .. Len(orders) :
           orders'[k] = IF k = j THEN b ELSE IF k = i THEN a ELSE orders[k]
  <2> DEFINE s == [orders EXCEPT ![i] = a]
  <2>1. /\ s \in Seq(OrderRecord) /\ Len(s) = Len(orders)
        /\ \A k \in 1 .. Len(orders) : s[k] = IF k = i THEN a ELSE orders[k]
    BY <1>1, <1>2, <1>7, ExceptSeq
  <2>2. orders' = [s EXCEPT ![j] = b]
    BY <1>8
  <2> HIDE DEF s
  <2>3. /\ [s EXCEPT ![j] = b] \in Seq(OrderRecord) /\ Len([s EXCEPT ![j] = b]) = Len(s)
        /\ \A k \in 1 .. Len(s) : [s EXCEPT ![j] = b][k] = IF k = j THEN b ELSE s[k]
    BY <1>2, <1>7, <2>1, ExceptSeq
  <2> QED
    BY <2>1, <2>2, <2>3
<1>10. \A k \in 1 .. Len(orders) :
         Rest(k)' = IF k \in {i, j} THEN Rest(k) - q ELSE Rest(k)
  <2>1. /\ orders[i].quantity \in Int /\ orders[i].filled \in Int
        /\ orders[j].quantity \in Int /\ orders[j].filled \in Int
    BY <1>6 DEF OrderRecord
  <2> TAKE k \in 1 .. Len(orders)
  <2>2. CASE k = j
    <3>1. orders'[k] = b
      BY <1>9, <2>2
    <3> QED
      BY <1>5, <1>7, <2>1, <2>2, <3>1 DEF Rest
  <2>3. CASE k = i
    <3>1. orders'[k] = a
      BY <1>2, <1>9, <2>3
    <3> QED
      BY <1>5, <1>7, <2>1, <2>3, <3>1 DEF Rest
  <2>4. CASE k \notin {i, j}
    BY <1>9, <2>4 DEF Rest
  <2> QED
    BY <2>2, <2>3, <2>4
<1>11. ASSUME NEW k \in 1 .. Len(orders), NoNegatives PROVE Rest(k)' <= Rest(k) /\ 0 <= Rest(k)'
  <2>1. 0 <= Rest(k) /\ Rest(k) \in Int /\ 0 <= q
    BY <1>3, <1>5, <1>11 DEF RestsLeft, AtMost
  <2> QED
    BY <1>5, <1>10, <2>1
<1>12. NoNegatives' <=> NoNegatives
  <2>1. DOMAIN orders' = DOMAIN orders /\ \A k \in DOMAIN orders : orders'[k].quantity = orders[k].quantity
    BY <1>1, <1>7, <1>9, LenProperties
  <2> QED
    BY <2>1 DEF NoNegatives
<1>13. Evolves
  <2>1. \A k \in 1 .. Len(orders) :
          /\ orders'[k].type = orders[k].type /\ orders'[k].price = orders[k].price
          /\ orders'[k].open => orders[k].open
    BY <1>2, <1>7, <1>9
  <2>2. \A k \in 1 .. Len(orders) : AtMost(orders'[k].quantity - orders'[k].filled, Rest(k))
    BY <1>11 DEF Rest, AtMost
  <2> QED
    BY <1>1, <1>9, <1>12, <2>1, <2>2 DEF Evolves
<1>14. RestsLeft'
  BY <1>9, <1>11, <1>12 DEF RestsLeft, AtMost
<1> QED
  BY <1>9, <1>13, <1>14

LEMMA TradeKeepsInv ==
  ASSUME SystemInv, Trade
  PROVE  SystemInv'
<1>1. PICK i \in Bids, j \in Asks : Execute(i, j)
  BY DEF Trade
<1>2. UNCHANGED <<wire, channel, view>>
  BY DEF Trade
<1>3. /\ orders' \in Seq(OrderRecord) /\ Evolves
      /\ RestsLeft'
  BY <1>1, ExecuteEvolves
<1>4. SystemType'
  BY <1>2, <1>3 DEF SystemInv, SystemType
<1> QED
  BY <1>2, <1>3, <1>4, SystemKept

LEMMA HandleLineKeepsInv ==
  ASSUME SystemInv, NEW c \in ClientIds, HandleLine(c)
  PROVE  SystemInv'
<1> DEFINE l == Head(wire[c])
<1>1. /\ wire[c] # <<>> /\ wire' = [wire EXCEPT ![c] = Tail(wire[c])]
      /\ \/ l.line = "ORDER" /\ Accept(c, l.type, l.price, l.quantity)
         \/ l.line = "CANCEL" /\ Cancel(l.id)
         \/ UNCHANGED evars
      /\ UNCHANGED <<channel, view>>
  BY DEF HandleLine
<1>2. /\ wire' \in [ClientIds -> Seq(OrderLine \cup CancelLine)]
      /\ \A d \in ClientIds : Elements(wire'[d]) \subseteq Elements(wire[d])
      /\ l \in OrderLine \cup CancelLine
  BY <1>1, LineTaken DEF SystemInv
<1> HIDE DEF l
<1>3. /\ orders' \in Seq(OrderRecord) /\ Evolves
      /\ RestsLeft'
  <2>1. CASE l.line = "ORDER" /\ Accept(c, l.type, l.price, l.quantity)
    <3>1. l.type \in OrderType /\ l.price \in Prices /\ l.quantity \in Int
      BY <1>2, <2>1 DEF OrderLine, CancelLine
    <3>2. PICK type \in OrderType, price \in Prices, quantity \in Int :
            Accept(c, type, price, quantity)
      BY <2>1, <3>1
    <3> QED
      BY <3>2, AcceptEvolves
  <2>2. CASE l.line = "CANCEL" /\ Cancel(l.id)
    <3>1. PICK i : Cancel(i)
      BY <2>2
    <3> QED
      BY <3>1, CancelEvolves
  <2>3. CASE UNCHANGED evars
    BY <2>3, OrdersKept DEF evars, SystemInv, SystemType
  <2> QED
    BY <1>1, <2>1, <2>2, <2>3
<1>4. SystemType'
  BY <1>1, <1>2, <1>3 DEF SystemInv, SystemType
<1> QED
  BY <1>1, <1>2, <1>3, <1>4, SystemKept

-----------------------------------------------------------------------------
(* The way of the snapshots.                                               *)

\* The snapshot taken now shows the past truly and is newer than all before it.
LEMMA SnapshotNow ==
  ASSUME SystemInv, NEW s, s = [book |-> Book, last |-> Len(orders)]
  PROVE  /\ s \in SnapshotType /\ Past(s)
         /\ \A t \in SnapshotType : Past(t) => Newer(t, s)
<1>1. /\ Len(orders) \in Nat /\ DOMAIN orders = 1 .. Len(orders)
      /\ \A i \in 1 .. Len(orders) :
           orders[i].type \in OrderType /\ orders[i].price \in Prices /\ Rest(i) \in Int
  BY OrderParts DEF SystemInv
<1>2. /\ Bids \cup Asks \subseteq 1 .. Len(orders)
      /\ \A i \in 1 .. Len(orders) : orders[i].open <=> i \in Bids \cup Asks
  BY <1>1 DEF Bids, Asks, OpenOf, OrderType
<1> DEFINE B == Bids \cup Asks
<1>3. /\ s.last = Len(orders)
      /\ s.book = [i \in B |-> [type |-> orders[i].type, price |-> orders[i].price, rest |-> Rest(i)]]
  BY DEF Book
<1> HIDE DEF B
<1>4. /\ DOMAIN s.book = B
      /\ \A i \in B : /\ s.book[i].type = orders[i].type /\ s.book[i].price = orders[i].price
                       /\ s.book[i].rest = Rest(i)
  BY <1>3
<1>5. s \in SnapshotType
  <2>1. s.book \in [B -> BookRow]
    BY <1>1, <1>2, <1>3 DEF B, BookRow
  <2>2. B \in SUBSET Nat
    BY <1>1, <1>2 DEF B
  <2>3. s.book \in BookType
    BY <2>1, <2>2 DEF BookType
  <2>4. s = [book |-> s.book, last |-> s.last]
    OBVIOUS
  <2> QED
    BY <1>1, <1>3, <2>3, <2>4 DEF SnapshotType
<1>6. Past(s)
  <2>1. \A i \in B : AtMost(Rest(i), s.book[i].rest)
    BY <1>1, <1>2, <1>4 DEF AtMost, B
  <2> QED
    BY <1>1, <1>2, <1>3, <1>4, <2>1 DEF Past, B
<1>7. ASSUME NEW t \in SnapshotType, Past(t) PROVE Newer(t, s)
  BY <1>1, <1>2, <1>4, <1>7 DEF Past, Newer, B
<1> QED
  BY <1>5, <1>6, <1>7

\* A step that moves snapshots only.
LEMMA PastsKept ==
  ASSUME SystemInv, UNCHANGED orders, NEW s, Past(s)
  PROVE  Past(s)'
BY DEF Past, Rest, AtMost, NoNegatives

LEMMA MeantKept ==
  ASSUME UNCHANGED orders, NEW l, Meant(l)
  PROVE  Meant(l)'
BY DEF Meant, Rest, AtMost, NoNegatives

LEMMA NewerKept ==
  ASSUME UNCHANGED orders, NEW s, NEW t, Newer(s, t)
  PROVE  Newer(s, t)'
BY DEF Newer, AtMost, NoNegatives

LEMMA SendSnapshotKeepsInv ==
  ASSUME SystemInv, NEW c \in ClientIds, SendSnapshot(c)
  PROVE  SystemInv'
<1>1. PICK s : s = [book |-> Book, last |-> Len(orders)]
  OBVIOUS
<1>2. /\ channel' = [channel EXCEPT ![c] = Append(channel[c], s)]
      /\ UNCHANGED <<orders, wire, view>>
  BY <1>1 DEF SendSnapshot, Queued, evars
<1>3. /\ s \in SnapshotType /\ Past(s)
      /\ \A t \in SnapshotType : Past(t) => Newer(t, s)
  BY <1>1, SnapshotNow
<1>4. /\ channel \in [ClientIds -> Seq(SnapshotType)] /\ channel[c] \in Seq(SnapshotType)
      /\ view \in [ClientIds -> SnapshotType] /\ Len(channel[c]) \in Nat
  BY LenProperties DEF SystemInv, SystemType
<1>5. /\ channel'[c] \in Seq(SnapshotType) /\ Len(channel'[c]) = Len(channel[c]) + 1
      /\ \A n \in 1 .. Len(channel[c]) : channel'[c][n] = channel[c][n]
      /\ channel'[c][Len(channel[c]) + 1] = s
      /\ \A d \in ClientIds \ {c} : channel'[d] = channel[d]
      /\ channel' \in [ClientIds -> Seq(SnapshotType)]
  BY <1>2, <1>3, <1>4, AppendProperties
<1>6. SystemType'
  BY <1>2, <1>5 DEF SystemInv, SystemType
<1>7. \A n \in 1 .. Len(channel[c]) :
        channel[c][n] \in SnapshotType /\ channel[c][n] \in Elements(channel[c])
  BY <1>4, ElementOfSeq DEF Elements
<1>8. \A n \in 1 .. Len(channel'[c]) :
        \/ n \in 1 .. Len(channel[c]) /\ channel'[c][n] = channel[c][n]
        \/ n = Len(channel[c]) + 1 /\ channel'[c][n] = s
  BY <1>4, <1>5
<1>9. ASSUME NEW d \in ClientIds, NEW t \in {view'[d]} \cup Elements(channel'[d])
      PROVE  Past(t)'
  <2>1. t = s \/ t \in {view[d]} \cup Elements(channel[d])
    BY <1>2, <1>5, <1>8 DEF Elements
  <2>2. Past(t)
    BY <1>3, <2>1 DEF SystemInv
  <2> QED
    BY <1>2, <2>2, PastsKept
<1>10. ASSUME NEW d \in ClientIds PROVE InOrder(d)'
  <2>1. CASE d # c
    BY <1>2, <1>5, <2>1, NewerKept DEF SystemInv, InOrder
  <2>2. CASE d = c
    <3>1. ASSUME NEW n \in 1 .. Len(channel'[c]) PROVE Newer(view[c], channel'[c][n])
      <4>1. CASE n \in 1 .. Len(channel[c])
        BY <1>5, <4>1 DEF SystemInv, InOrder
      <4>2. CASE channel'[c][n] = s
        BY <1>3, <1>4, <4>2 DEF SystemInv
      <4> QED
        BY <1>8, <4>1, <4>2
    <3>2. ASSUME NEW m \in 1 .. Len(channel'[c]), NEW n \in 1 .. Len(channel'[c]), m < n
          PROVE  Newer(channel'[c][m], channel'[c][n])
      <4>1. m \in 1 .. Len(channel[c]) /\ channel'[c][m] = channel[c][m]
        BY <1>4, <1>5, <3>2
      <4>2. CASE n \in 1 .. Len(channel[c])
        BY <1>5, <3>2, <4>1, <4>2 DEF SystemInv, InOrder
      <4>3. CASE channel'[c][n] = s
        BY <1>3, <1>7, <4>1, <4>3 DEF SystemInv
      <4> QED
        BY <1>8, <4>2, <4>3
    <3> QED
      BY <1>2, <2>2, <3>1, <3>2, NewerKept DEF InOrder
  <2> QED
    BY <2>1, <2>2
<1>11. \A d \in ClientIds : \A l \in Elements(wire'[d]) : Meant(l)'
  BY <1>2, MeantKept DEF SystemInv
<1>12. RestsLeft'
  BY <1>2, OrdersKept
<1> QED
  BY <1>6, <1>9, <1>10, <1>11, <1>12 DEF SystemInv

\* The snapshot shown next is newer than the one shown.
LEMMA ShowKeepsInv ==
  ASSUME SystemInv, NEW c \in ClientIds, Show(c)
  PROVE  SystemInv' /\ Newer(view[c], view'[c]) /\ \A d \in ClientIds \ {c} : view'[d] = view[d]
<1>1. /\ channel[c] # <<>>
      /\ view' = [view EXCEPT ![c] = Head(channel[c])]
      /\ channel' = [channel EXCEPT ![c] = Tail(channel[c])]
      /\ UNCHANGED <<orders, wire>>
  BY DEF Show, evars
<1>2. /\ channel \in [ClientIds -> Seq(SnapshotType)] /\ channel[c] \in Seq(SnapshotType)
      /\ view \in [ClientIds -> SnapshotType] /\ Len(channel[c]) \in Nat /\ Len(channel[c]) > 0
  BY <1>1, LenProperties, EmptySeq DEF SystemInv, SystemType
<1>3. /\ Head(channel[c]) \in SnapshotType /\ Head(channel[c]) = channel[c][1]
      /\ Tail(channel[c]) \in Seq(SnapshotType)
      /\ Len(Tail(channel[c])) = Len(channel[c]) - 1
      /\ \A n \in 1 .. Len(Tail(channel[c])) : Tail(channel[c])[n] = channel[c][n + 1]
  BY <1>1, <1>2, HeadTailProperties
<1>4. /\ view'[c] = channel[c][1] /\ channel'[c] = Tail(channel[c])
      /\ \A d \in ClientIds \ {c} : view'[d] = view[d] /\ channel'[d] = channel[d]
  BY <1>1, <1>2, <1>3
<1>5. SystemType'
  BY <1>1, <1>2, <1>3 DEF SystemInv, SystemType
<1>6. /\ 1 \in 1 .. Len(channel[c])
      /\ \A n \in 1 .. Len(channel'[c]) :
           n \in Nat /\ 1 < n + 1 /\ n + 1 \in 1 .. Len(channel[c]) /\ channel'[c][n] = channel[c][n + 1]
  BY <1>2, <1>3, <1>4
<1>7. Newer(view[c], view'[c])
  BY <1>4, <1>6 DEF SystemInv, InOrder
<1>8. ASSUME NEW d \in ClientIds, NEW t \in {view'[d]} \cup Elements(channel'[d])
      PROVE  Past(t)'
  <2>1. t \in {view[d]} \cup Elements(channel[d])
    <3>1. CASE d # c
      BY <1>4, <3>1
    <3>2. CASE d = c /\ t = view'[c]
      BY <1>4, <1>6, <3>2 DEF Elements
    <3>3. CASE d = c /\ t \in Elements(channel'[c])
      <4>1. PICK n \in 1 .. Len(channel'[c]) : t = channel'[c][n]
        BY <3>3 DEF Elements
      <4>2. PICK k : k = n + 1
        OBVIOUS
      <4>3. k \in 1 .. Len(channel[c]) /\ t = channel[c][k]
        BY <1>6, <4>1, <4>2
      <4> QED
        BY <3>3, <4>3 DEF Elements
    <3> QED
      BY <3>1, <3>2, <3>3
  <2>2. Past(t)
    BY <2>1 DEF SystemInv
  <2> QED
    BY <1>1, <2>2, PastsKept
<1>9. ASSUME NEW d \in ClientIds PROVE InOrder(d)'
  <2>1. CASE d # c
    BY <1>1, <1>4, <2>1, NewerKept DEF SystemInv, InOrder
  <2>2. CASE d = c
    <3>1. \A n \in 1 .. Len(channel'[c]) : Newer(view'[c], channel'[c][n])
      <4> TAKE n \in 1 .. Len(channel'[c])
      <4>1. PICK k : k = n + 1
        OBVIOUS
      <4>2. k \in 1 .. Len(channel[c]) /\ 1 < k /\ channel'[c][n] = channel[c][k]
        BY <1>6, <4>1
      <4> QED
        BY <1>4, <1>6, <4>2 DEF SystemInv, InOrder
    <3>2. ASSUME NEW m \in 1 .. Len(channel'[c]), NEW n \in 1 .. Len(channel'[c]), m < n
          PROVE  Newer(channel'[c][m], channel'[c][n])
      <4>1. PICK j, k : j = m + 1 /\ k = n + 1
        OBVIOUS
      <4>2. /\ j \in 1 .. Len(channel[c]) /\ k \in 1 .. Len(channel[c]) /\ j < k
            /\ channel'[c][m] = channel[c][j] /\ channel'[c][n] = channel[c][k]
        BY <1>2, <1>6, <3>2, <4>1
      <4> QED
        BY <4>2 DEF SystemInv, InOrder
    <3> QED
      BY <1>1, <2>2, <3>1, <3>2, NewerKept DEF InOrder
  <2> QED
    BY <2>1, <2>2
<1>10. \A d \in ClientIds : \A l \in Elements(wire'[d]) : Meant(l)'
  BY <1>1, MeantKept DEF SystemInv
<1>11. RestsLeft'
  BY <1>1, OrdersKept
<1> QED
  BY <1>4, <1>5, <1>7, <1>8, <1>9, <1>10, <1>11 DEF SystemInv

\* A view is never older than the one before it.
LEMMA SystemSteps ==
  ASSUME SystemInv, [SystemNext]_vars
  PROVE  SystemInv' /\ \A c \in ClientIds : view'[c] = view[c] \/ Newer(view[c], view'[c])
<1>1. CASE UNCHANGED vars
  <2>1. UNCHANGED <<orders, wire, channel, view>>
    BY <1>1 DEF vars, evars
  <2>2. SystemType'
    BY <2>1 DEF SystemInv, SystemType
  <2>3. \A d \in ClientIds : \A l \in Elements(wire'[d]) : l \in Elements(wire[d]) \/ Meant(l)'
    BY <2>1
  <2> QED
    BY <2>1, <2>2, <2>3, OrdersKept, SystemKept
<1>2. CASE Trade
  BY <1>2, TradeKeepsInv DEF Trade
<1>3. ASSUME NEW c \in ClientIds, NEW type \in OrderType, NEW price \in Prices,
             NEW quantity \in Quantities, EnterOrder(c, type, price, quantity)
      PROVE  SystemInv' /\ UNCHANGED view
  BY <1>3, EnterOrderKeepsInv DEF EnterOrder
<1>4. ASSUME NEW c \in ClientIds, NEW i \in DOMAIN view[c].book, EnterCancel(c, i)
      PROVE  SystemInv' /\ UNCHANGED view
  BY <1>4, EnterCancelKeepsInv DEF EnterCancel
<1>5. ASSUME NEW c \in ClientIds, HandleLine(c) PROVE SystemInv' /\ UNCHANGED view
  BY <1>5, HandleLineKeepsInv DEF HandleLine
<1>6. ASSUME NEW c \in ClientIds, SendSnapshot(c) PROVE SystemInv' /\ UNCHANGED view
  BY <1>6, SendSnapshotKeepsInv DEF SendSnapshot
<1>7. ASSUME NEW c \in ClientIds, Show(c)
      PROVE  SystemInv' /\ \A d \in ClientIds : view'[d] = view[d] \/ Newer(view[d], view'[d])
  BY <1>7, ShowKeepsInv
<1> QED
  BY <1>1, <1>2, <1>3, <1>4, <1>5, <1>6, <1>7 DEF SystemNext, OrderType

-----------------------------------------------------------------------------

\* A cancel on its way means what its user saw, in a system of any size: always
\* the same order, and of it no more than was seen unless an order of a negative
\* quantity, which nothing rejects, traded with it.
THEOREM CancelsMeanWhatWasSeen == SystemSpec => []CancelMeansWhatWasSeen
<1>1. SystemInv => CancelMeansWhatWasSeen
  <2> SUFFICES ASSUME SystemInv, NEW c \in ClientIds, NEW n \in DOMAIN wire[c],
                      wire[c][n].line = "CANCEL", wire[c][n].id \in Bids \cup Asks
               PROVE  /\ orders[wire[c][n].id].type = wire[c][n].meant.type
                      /\ orders[wire[c][n].id].price = wire[c][n].meant.price
                      /\ NoNegatives => Rest(wire[c][n].id) <= wire[c][n].meant.rest
    BY DEF CancelMeansWhatWasSeen
  <2>1. DOMAIN wire[c] = 1 .. Len(wire[c])
    BY LenProperties DEF SystemInv, SystemType
  <2>2. wire[c][n] \in Elements(wire[c])
    BY <2>1 DEF Elements
  <2>3. Meant(wire[c][n])
    BY <2>2 DEF SystemInv
  <2> QED
    BY <2>3 DEF Meant, AtMost
<1>2. SystemInv /\ [SystemNext]_vars => SystemInv'
  BY SystemSteps
<1> QED
  BY <1>1, <1>2, SystemInitial, PTL DEF SystemSpec

\* No dashboard ever shows an order again that was gone from it, nor, with the
\* same exception, more left of an order than before.
THEOREM ViewsForgetNothing == SystemSpec => OrdersNeverReturn
<1>1. SystemInv /\ [SystemNext]_vars =>
        [\A c \in ClientIds : \A i \in (1 .. view[c].last) \cap DOMAIN view'[c].book :
           /\ i \in DOMAIN view[c].book
           /\ NoNegatives => view'[c].book[i].rest <= view[c].book[i].rest]_vars
  <2> SUFFICES ASSUME SystemInv, [SystemNext]_vars, NEW c \in ClientIds,
                      NEW i \in (1 .. view[c].last) \cap DOMAIN view'[c].book
               PROVE  /\ i \in DOMAIN view[c].book
                      /\ NoNegatives => view'[c].book[i].rest <= view[c].book[i].rest
    OBVIOUS
  <2>1. CASE view'[c] = view[c]
    <3>1. i \in DOMAIN view[c].book
      BY <2>1
    <3>2. view[c].book[i].rest \in Int
      BY <3>1, SnapshotParts DEF SystemInv, SystemType
    <3> QED
      BY <2>1, <3>1, <3>2
  <2>2. CASE Newer(view[c], view'[c])
    BY <2>2 DEF Newer, AtMost
  <2> QED
    BY <2>1, <2>2, SystemSteps
<1>2. SystemInv /\ [SystemNext]_vars => SystemInv'
  BY SystemSteps
<1> QED
  BY <1>1, <1>2, SystemInitial, PTL DEF SystemSpec, OrdersNeverReturn

=============================================================================
