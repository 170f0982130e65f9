--------------------------- MODULE PriorityQueue ---------------------------
(***************************************************************************)
(* std::priority_queue over a std::vector, which keeps a binary heap: push *)
(* is push_heap, pop is pop_heap, as the standard libraries of the build   *)
(* platforms implement them (the hole left by the front sinks along the    *)
(* greater children to the bottom, then the last element rises from it).   *)
(* A queue is the sequence of its vector; the parent of i is i \div 2.     *)
(* `type` tells the queue of the buy orders from that of the sell orders.  *)
(***************************************************************************)
EXTENDS OrderBook, Sequences, FiniteSetsExt

\* The template's Compare: a comes out after b.
ComesAfter(type, a, b) ==
  IF type = "BUY" THEN BuyComparator(a, b) ELSE SellComparator(a, b)

\* The cell i and the cells above it.
Ancestors[i \in Nat] == IF i = 0 THEN {} ELSE {i} \cup Ancestors[i \div 2]

\* x rises from cell `hole` past every ancestor that comes out after it.
Risen(type, heap, hole, x) ==
  LET place == Min({j \in Ancestors[hole] :
                      \A i \in Ancestors[hole] :
                        i > j => ComesAfter(type, heap[i \div 2], x)})
  IN  [i \in DOMAIN heap |->
         IF i = place THEN x
         ELSE IF i \in Ancestors[hole] /\ i > place THEN heap[i \div 2]
         ELSE heap[i]]

Push(type, heap, x) == Risen(type, Append(heap, x), Len(heap) + 1, x)

Top(heap) == heap[1]

\* The child that fills a hole at i: the left one only if it comes out first.
Heir(type, heap, i) ==
  IF 2 * i + 1 <= Len(heap) /\ ~ComesAfter(type, heap[2 * i + 1], heap[2 * i])
  THEN 2 * i + 1
  ELSE 2 * i

\* The cells through which a hole at the front sinks, down to the bottom.
SinkPath(type, heap) ==
  LET from[i \in Nat] ==
        {i} \cup (IF 2 * i > Len(heap) THEN {} ELSE from[Heir(type, heap, i)])
  IN  from[1]

Pop(type, heap) ==
  IF Len(heap) = 1
  THEN <<>>
  ELSE LET rest   == SubSeq(heap, 1, Len(heap) - 1)
           path   == SinkPath(type, rest)
           bottom == Max(path)
           sunk   == [i \in DOMAIN rest |->
                        IF i \in path /\ i # bottom THEN rest[Heir(type, rest, i)]
                                                    ELSE rest[i]]
       IN  Risen(type, sunk, bottom, heap[Len(heap)])

\* All elements in the order in which top and pop deliver them.
Drained(type, heap) ==
  LET state[k \in 0 .. Len(heap)] == IF k = 0 THEN heap ELSE Pop(type, state[k - 1])
  IN  [k \in 1 .. Len(heap) |-> Top(state[k - 1])]

=============================================================================
