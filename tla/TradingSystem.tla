--------------------------- MODULE TradingSystem ---------------------------
(***************************************************************************)
(* The platform end to end: dashboards that enter orders and cancel what   *)
(* they see, sessions, the exchange, the publisher, and the way back.      *)
(* Each part is taken as what its own module shows of it: the engine is    *)
(* the serial Exchange (EngineAudit, HeapBook), a session executes the     *)
(* lines of its client in order (Server), snapshots of an uncrossed book   *)
(* travel in order and whole (Snapshot, SessionWriter, Dashboard).         *)
(***************************************************************************)
EXTENDS Exchange, FiniteSets

CONSTANTS
  MaxEntered,  \* bound: orders entered
  MaxCancels,  \* bound: cancels entered
  MaxQueued    \* bound: snapshots on the way to one dashboard

ASSUME EnteredAssumption == Quantities \subseteq Int

VARIABLES
  wire,      \* per client: the lines on their way to the engine
  channel,   \* per client: the snapshots on their way back
  view,      \* per client: the snapshot shown
  entered, cancels   \* how many orders and cancels were entered

vars == <<evars, wire, channel, view, entered, cancels>>

\* The book as a snapshot prints it, with the last id given (not printed; it
\* tells how far the snapshot reaches).
Book ==
  [i \in Bids \cup Asks |->
     [type |-> orders[i].type, price |-> orders[i].price, rest |-> Rest(i)]]

SystemInit ==
  /\ Init
  /\ wire = [c \in ClientIds |-> <<>>]
  /\ channel = [c \in ClientIds |-> <<>>]
  /\ view = [c \in ClientIds |-> [book |-> Book, last |-> 0]]
  /\ entered = 0 /\ cancels = 0

-----------------------------------------------------------------------------
(* Plausible bugs, each in place of the operator its comment names.        *)

\* Queued: the newest snapshot overtakes those that wait.
QueuedInFront(snapshots, s) == <<s>> \o snapshots

\* CancelId: the row of the order in its table instead of its id.
CancelIdRow(book, i) == Cardinality({j \in DOMAIN book : j <= i /\ book[j].type = book[i].type})

\* SnapshotDue: the walk over the sessions ends after the first of them.
SnapshotDueToFirst(c) == c = CHOOSE d \in ClientIds : TRUE

-----------------------------------------------------------------------------

\* BUY, SELL: one line to the session.
EnterOrder(c, type, price, quantity) ==
  /\ entered < MaxEntered
  /\ entered' = entered + 1
  /\ wire' = [wire EXCEPT ![c] = Append(@, [line |-> "ORDER", type |-> type,
                                            price |-> price, quantity |-> quantity])]
  /\ UNCHANGED <<evars, channel, view, cancels>>

CancelId(book, i) == i

\* CANCEL, of an order the user sees; `meant` is the row it is shown in.
EnterCancel(c, i) ==
  /\ cancels < MaxCancels
  /\ cancels' = cancels + 1
  /\ wire' = [wire EXCEPT ![c] = Append(@, [line |-> "CANCEL",
                                            id   |-> CancelId(view[c].book, i),
                                            meant |-> view[c].book[i]])]
  /\ UNCHANGED <<evars, channel, view, entered>>

\* The read handler calls the engine, which takes a call when it has finished
\* the one before.  A cancel of an order that is gone does nothing.
HandleLine(c) ==
  /\ wire[c] # <<>> /\ ~Crossed
  /\ wire' = [wire EXCEPT ![c] = Tail(@)]
  /\ LET l == Head(wire[c])
     IN  \/ l.line = "ORDER" /\ Accept(c, l.type, l.price, l.quantity)
         \/ l.line = "CANCEL" /\ Cancel(l.id)
         \/ l.line = "CANCEL" /\ l.id \notin Bids \cup Asks /\ UNCHANGED evars
  /\ UNCHANGED <<channel, view, entered, cancels>>

Trade ==
  /\ \E i \in Bids, j \in Asks : Execute(i, j)
  /\ UNCHANGED <<wire, channel, view, entered, cancels>>

\* The walk of the publisher reaches every session.
SnapshotDue(c) == TRUE

Queued(snapshots, s) == Append(snapshots, s)

SendSnapshot(c) ==
  /\ ~Crossed /\ SnapshotDue(c) /\ Len(channel[c]) < MaxQueued
  /\ channel' = [channel EXCEPT ![c] = Queued(@, [book |-> Book, last |-> Len(orders)])]
  /\ UNCHANGED <<evars, wire, view, entered, cancels>>

Show(c) ==
  /\ channel[c] # <<>>
  /\ view' = [view EXCEPT ![c] = Head(channel[c])]
  /\ channel' = [channel EXCEPT ![c] = Tail(@)]
  /\ UNCHANGED <<evars, wire, entered, cancels>>

SystemNext ==
  \/ Trade
  \/ \E c \in ClientIds :
       \/ \E type \in {"BUY", "SELL"}, price \in Prices, quantity \in Quantities :
            EnterOrder(c, type, price, quantity)
       \/ \E i \in DOMAIN view[c].book : EnterCancel(c, i)
       \/ HandleLine(c) \/ SendSnapshot(c) \/ Show(c)

SystemSpec == SystemInit /\ [][SystemNext]_vars

\* What the parts' own liveness gives: lines are handled, a book that can trade
\* does, snapshots are published again and again, and shown.
SystemFairness ==
  /\ WF_vars(Trade)
  /\ \A c \in ClientIds :
       WF_vars(HandleLine(c)) /\ WF_vars(SendSnapshot(c)) /\ WF_vars(Show(c))

FairSystemSpec == SystemSpec /\ SystemFairness

-----------------------------------------------------------------------------

\* Nothing rejects a negative quantity; trading with such an order adds to what
\* is left of the other one.
NoNegatives == \A i \in DOMAIN orders : orders[i].quantity >= 0

\* A cancel on its way is for the very order its user saw: whatever was
\* accepted, traded or cancelled since, that id is still an order of the same
\* side and price, or it is gone; and of it no more is left than was shown,
\* unless an order of a negative quantity was accepted.
CancelMeansWhatWasSeen ==
  \A c \in ClientIds : \A n \in DOMAIN wire[c] :
    LET l == wire[c][n]
    IN  (l.line = "CANCEL" /\ l.id \in Bids \cup Asks) =>
          /\ orders[l.id].type = l.meant.type /\ orders[l.id].price = l.meant.price
          /\ NoNegatives => Rest(l.id) <= l.meant.rest

\* In no dashboard does an order come back that was gone from it; and none
\* grows, unless an order of a negative quantity was accepted.
OrdersNeverReturn ==
  [][\A c \in ClientIds : \A i \in (1 .. view[c].last) \cap DOMAIN view'[c].book :
       /\ i \in DOMAIN view[c].book
       /\ NoNegatives => view'[c].book[i].rest <= view[c].book[i].rest]_vars

\* When everybody stops entering, all dashboards come to show the same book, the
\* one the engine holds, and it is uncrossed.
ViewsConverge == <>[](~Crossed /\ \A c \in ClientIds : view[c].book = Book)

=============================================================================
