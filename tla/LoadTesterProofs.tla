-------------------------- MODULE LoadTesterProofs --------------------------
(***************************************************************************)
(* Proofs about LoadTester, for any number of workers and orders and any   *)
(* size of the buffers.                                                    *)
(***************************************************************************)
EXTENDS LoadTester, TLAPS

LoadTesterType ==
  /\ worker \in [Workers -> {"starting", "sending", "sleeping", "closed", "failed"}]
  /\ sentOrders \in [Workers -> Nat]

\* A worker that sleeps or is through has sent all its orders, and main reports
\* when no worker is left that could still send.
LoadTesterInv ==
  /\ LoadTesterType
  /\ \A w \in Workers : worker[w] \in {"sleeping", "closed"} => sentOrders[w] = OrdersPerClient
  /\ test = "reported" => Open = {}

LEMMA LoadTesterInit == Init => LoadTesterInv
BY DEF Init, Zero, LoadTesterInv, LoadTesterType, Open

LEMMA LoadTesterNext == LoadTesterInv /\ [Next]_vars => LoadTesterInv'
<1> SUFFICES ASSUME LoadTesterInv, [Next]_vars PROVE LoadTesterInv'
  OBVIOUS
<1> USE DEF LoadTesterInv, LoadTesterType, Open
<1>1. ASSUME NEW w \in Workers, Connect(w) PROVE LoadTesterInv'
  BY <1>1 DEF Connect
<1>2. ASSUME NEW w \in Workers, SendOrder(w) PROVE LoadTesterInv'
  <2>1. /\ worker[w] = "sending" /\ test = "running" /\ UNCHANGED <<worker, test>>
        /\ sentOrders' = [sentOrders EXCEPT ![w] = sentOrders[w] + 1]
    BY <1>2 DEF SendOrder
  <2>2. sentOrders' \in [Workers -> Nat]
    BY <2>1
  <2>3. \A u \in Workers \ {w} : sentOrders'[u] = sentOrders[u]
    BY <2>1
  <2> QED
    BY <2>1, <2>2, <2>3
<1>3. ASSUME NEW w \in Workers, SendThrows(w) PROVE LoadTesterInv'
  BY <1>3 DEF SendThrows
<1>4. ASSUME NEW w \in Workers, Sleep(w) PROVE LoadTesterInv'
  BY <1>4 DEF Sleep
<1>5. ASSUME NEW w \in Workers, Close(w) PROVE LoadTesterInv'
  BY <1>5 DEF Close
<1>6. CASE Report
  <2>1. Open = {} /\ UNCHANGED <<worker, sentOrders>>
    BY <1>6 DEF Report, AllJoined
  <2> QED
    BY <2>1
<1>7. CASE (\E w \in Workers : Read(w) \/ Write(w)) \/ ServerEnds \/ UNCHANGED vars
  BY <1>7 DEF Read, Write, ServerEnds, vars
<1> QED
  BY <1>1, <1>2, <1>3, <1>4, <1>5, <1>6, <1>7 DEF Next, Work

LEMMA LoadTesterInvariant == Spec => []LoadTesterInv
BY LoadTesterInit, LoadTesterNext, PTL DEF Spec

-----------------------------------------------------------------------------

\* The time in the report covers every order of every worker that had a
\* connection, for the 5 clients and 50000 orders of the code as for any other.
THEOREM ReportsAreComplete == Spec => []ReportAfterLastOrder
<1>1. LoadTesterInv => ReportAfterLastOrder
  BY DEF LoadTesterInv, LoadTesterType, Open, ReportAfterLastOrder
<1> QED
  BY <1>1, LoadTesterInvariant, PTL

=============================================================================
