----------------------------- MODULE LoadTester -----------------------------
(***************************************************************************)
(* The load tester against the server: workers that send orders as fast as *)
(* the sockets take them and never read, while the server reads orders and *)
(* pushes snapshots at them.  Orders and snapshots are counted; every      *)
(* connection has a bounded buffer in each direction.                      *)
(***************************************************************************)
EXTENDS Integers, FiniteSets

CONSTANTS
  Workers,          \* NUM_CLIENTS of them: 5 in the code
  OrdersPerClient,  \* 50000 in the code
  BufferSize        \* what the sockets of one direction hold

ASSUME SizeAssumption == OrdersPerClient \in Nat /\ BufferSize \in Nat \ {0}

VARIABLES
  server,      \* "down" or "up"
  worker,      \* "starting", "sending", "sleeping", "closed" or "failed"
  sentOrders,  \* per worker
  toServer,    \* orders in the buffers
  toWorker,    \* snapshots in the buffers; nobody takes them out
  handled,     \* orders the engine got
  test         \* main: "running", "reported" or "aborted" by an exception

netVars == <<toServer, toWorker, handled>>
vars == <<server, worker, sentOrders, netVars, test>>

Zero == [w \in Workers |-> 0]

Init ==
  /\ server \in {"down", "up"}
  /\ worker = [w \in Workers |-> "starting"]
  /\ sentOrders = Zero /\ toServer = Zero /\ toWorker = Zero /\ handled = Zero
  /\ test = "running"

-----------------------------------------------------------------------------
(* Plausible bugs, each in place of the operator its comment names.        *)

\* MayRead: a session that waits for its snapshot to leave reads nothing, as
\* with a blocking write in the session.
MayReadUnstalled(unread) == unread < BufferSize

\* AllJoined: the report is printed without waiting for the last worker.
AllJoinedButOne(open) == Cardinality(open) <= 1

-----------------------------------------------------------------------------
(* clientWorker.                                                           *)

Connect(w) ==
  /\ worker[w] = "starting" /\ test = "running"
  /\ worker' = [worker EXCEPT ![w] = IF server = "up" THEN "sending" ELSE "failed"]
  /\ UNCHANGED <<server, sentOrders, netVars, test>>

\* A blocking write: it waits while the buffer is full.
SendOrder(w) ==
  /\ worker[w] = "sending" /\ server = "up" /\ test = "running"
  /\ sentOrders[w] < OrdersPerClient /\ toServer[w] < BufferSize
  /\ sentOrders' = [sentOrders EXCEPT ![w] = @ + 1]
  /\ toServer' = [toServer EXCEPT ![w] = @ + 1]
  /\ UNCHANGED <<server, worker, toWorker, handled, test>>

\* The server is gone: the write throws, in a thread that does not catch.
SendThrows(w) ==
  /\ worker[w] = "sending" /\ server = "down" /\ test = "running"
  /\ sentOrders[w] < OrdersPerClient
  /\ test' = "aborted"
  /\ UNCHANGED <<server, worker, sentOrders, netVars>>

Sleep(w) ==
  /\ worker[w] = "sending" /\ sentOrders[w] = OrdersPerClient /\ test = "running"
  /\ worker' = [worker EXCEPT ![w] = "sleeping"]
  /\ UNCHANGED <<server, sentOrders, netVars, test>>

\* The two seconds are over and the socket is closed.  With snapshots unread
\* that resets the connection, and orders still on their way may be lost.
Close(w) ==
  /\ worker[w] = "sleeping" /\ test = "running"
  /\ worker' = [worker EXCEPT ![w] = "closed"]
  /\ \E left \in IF toWorker[w] > 0 THEN {0, toServer[w]} ELSE {toServer[w]} :
       toServer' = [toServer EXCEPT ![w] = left]
  /\ UNCHANGED <<server, sentOrders, toWorker, handled, test>>

-----------------------------------------------------------------------------
(* main.                                                                   *)

Open == {w \in Workers : worker[w] \notin {"closed", "failed"}}

AllJoined(open) == open = {}

Report ==
  /\ test = "running" /\ AllJoined(Open)
  /\ test' = "reported"
  /\ UNCHANGED <<server, worker, sentOrders, netVars>>

-----------------------------------------------------------------------------
(* The server: reads and writes of a session do not wait for each other.   *)

MayRead(unread) == TRUE

Read(w) ==
  /\ server = "up" /\ toServer[w] > 0 /\ MayRead(toWorker[w])
  /\ toServer' = [toServer EXCEPT ![w] = @ - 1]
  /\ handled' = [handled EXCEPT ![w] = @ + 1]
  /\ UNCHANGED <<server, worker, sentOrders, toWorker, test>>

\* Once the buffer is full the write in progress stays so, and snapshots
\* gather in outgoingMessages.
Write(w) ==
  /\ server = "up" /\ worker[w] \in {"sending", "sleeping"} /\ toWorker[w] < BufferSize
  /\ toWorker' = [toWorker EXCEPT ![w] = @ + 1]
  /\ UNCHANGED <<server, worker, sentOrders, toServer, handled, test>>

ServerEnds ==
  /\ server = "up"
  /\ server' = "down"
  /\ UNCHANGED <<worker, sentOrders, netVars, test>>

Work(w) == Connect(w) \/ SendOrder(w) \/ SendThrows(w) \/ Sleep(w) \/ Close(w)

Next ==
  \/ \E w \in Workers : Work(w) \/ Read(w) \/ Write(w)
  \/ Report \/ ServerEnds

Spec == Init /\ [][Next]_vars

\* Threads run on, a sleep ends, and a server that is up reads.
Fairness ==
  /\ \A w \in Workers : WF_vars(Work(w)) /\ WF_vars(Read(w))
  /\ WF_vars(Report)

FairSpec == Spec /\ Fairness

-----------------------------------------------------------------------------

\* Server and tester never block each other on full buffers, although one of
\* them never reads: the test comes to an end.
TestEnds == <>(test # "running")

\* When the report is printed, every order of every worker that got a
\* connection was sent: the time measured covers all of them.
ReportAfterLastOrder ==
  test = "reported" =>
    \A w \in Workers : worker[w] # "failed" => sentOrders[w] = OrdersPerClient

=============================================================================
