---------------------------- MODULE ServerProofs ----------------------------
(***************************************************************************)
(* Proofs about Server, for any number of clients and I/O threads and any  *)
(* number of commands.                                                     *)
(***************************************************************************)
EXTENDS Server, SequenceTheorems, TLAPS

-----------------------------------------------------------------------------
(* The inductive invariant.                                                *)

AcceptPlaces == {"accepted", "numbered", "listing", "listed", "started"}
ReadPlaces   == {"calling", "inEngine", "returned"}

HandlerType == [at : AcceptPlaces \cup ReadPlaces, peer : Peers, n : Nat]

ServerType ==
  /\ accepting \in BOOLEAN
  /\ nextClientId \in Nat
  /\ clients \in Seq(Peers)
  /\ clientId \in [Peers -> Nat]
  /\ conn \in [Peers -> {"new", "backlog", "open", "gone"}]
  /\ taken \in [Peers -> Nat]
  /\ reading \in [Peers -> BOOLEAN]
  /\ thread \in [Threads -> HandlerType \cup {Idle}]
  /\ applied \in Seq([peer : Peers, n : Nat])
  /\ walk \in Nat

\* The thread runs an accept handler.
Accepts(t) == thread[t].at \in AcceptPlaces

\* The accept chain: one accept is outstanding, or one handler runs.
AcceptInv ==
  /\ \A t \in Threads : Accepts(t) =>
       /\ ~accepting /\ main # "starting"
       /\ conn[thread[t].peer] \in {"open", "gone"}
  /\ \A t, u \in Threads : Accepts(t) /\ Accepts(u) => t = u
  /\ accepting => main # "starting"

\* So the plain counter is read and written back by one thread at a time.
IdInv ==
  /\ 0 < nextClientId /\ \A k \in Peers : clientId[k] < nextClientId
  /\ \A t \in Threads : thread[t].at = "numbered" => thread[t].n = nextClientId
  /\ ClientIdsUnique

\* Nothing is read from the client yet, or no more.
NotRead(k) == ~reading[k] /\ \A t \in Threads : Serves(t) => thread[t].peer # k

\* A session is not read from before the accept handler started it.
FreshInv ==
  /\ \A k \in Peers : conn[k] \in {"new", "backlog"} => NotRead(k)
  /\ \A t \in Threads : thread[t].at \in AcceptPlaces \ {"started"} => NotRead(thread[t].peer)

\* The read chain of a session: one read is outstanding, or one handler runs.
ReadInv ==
  /\ \A t \in Threads : Serves(t) => ~reading[thread[t].peer]
  /\ OneHandlerPerSession

\* What the engine executed of a client's commands are the first ones taken; the
\* one in a handler is the last one taken.
OrderInv ==
  /\ \A i \in DOMAIN applied : applied[i].n <= taken[applied[i].peer]
  /\ \A t \in Threads : Serves(t) => thread[t].n = taken[thread[t].peer]
  /\ \A t \in Threads : thread[t].at \in {"calling", "inEngine"} =>
       \A i \in DOMAIN applied :
         applied[i].peer = thread[t].peer => applied[i].n < thread[t].n
  /\ CommandsInOrder

\* The publisher walks under the mutex.
WalkInv == walk > 0 => clientsMutex = Publisher

ServerInv ==
  ServerType /\ AcceptInv /\ IdInv /\ FreshInv /\ ReadInv /\ OrderInv /\ WalkInv

LEMMA ServerInit == Init => ServerInv
<1> SUFFICES ASSUME Init PROVE ServerInv
  OBVIOUS
<1>1. \A t \in Threads : thread[t] = Idle /\ ~Accepts(t) /\ ~Serves(t)
  BY DEF Init, Idle, Accepts, Serves, AcceptPlaces
<1>2. ServerType
  <2>1. <<>> \in Seq(Peers) /\ <<>> \in Seq([peer : Peers, n : Nat])
    BY EmptySeq
  <2>2. thread \in [Threads -> HandlerType \cup {Idle}]
    BY DEF Init
  <2> QED
    BY <2>1, <2>2 DEF Init, ServerType
<1>3. AcceptInv /\ ReadInv
  BY <1>1 DEF Init, AcceptInv, ReadInv, OneHandlerPerSession
<1>4. IdInv
  BY <1>1 DEF Init, IdInv, ClientIdsUnique, Idle
<1>5. FreshInv
  BY <1>1 DEF Init, FreshInv, NotRead, Accepts, AcceptPlaces
<1>6. OrderInv
  BY <1>1 DEF Init, OrderInv, CommandsInOrder, Idle
<1>7. WalkInv
  BY DEF Init, WalkInv
<1> QED
  BY <1>2, <1>3, <1>4, <1>5, <1>6, <1>7 DEF ServerInv

\* A thread that is somewhere in a handler runs a handler.
LEMMA InHandler ==
  ASSUME ServerType, NEW t \in Threads, thread[t].at # "idle"
  PROVE  thread[t] \in HandlerType /\ thread[t].peer \in Peers /\ thread[t].n \in Nat
BY DEF ServerType, Idle, HandlerType

\* A step that moves no thread and touches neither ids nor reads nor the engine.
LEMMA ServerOutside ==
  ASSUME ServerInv, ServerType', AcceptInv', WalkInv',
         UNCHANGED <<nextClientId, clientId, taken, reading, thread, applied>>,
         \A k \in Peers :
           conn'[k] \in {"new", "backlog"} => conn[k] \in {"new", "backlog"}
  PROVE  ServerInv'
<1>4. IdInv'
  BY DEF ServerInv, IdInv, ClientIdsUnique
<1>5. FreshInv'
  BY DEF ServerInv, FreshInv, NotRead, Serves
<1>6. ReadInv'
  BY DEF ServerInv, ReadInv, OneHandlerPerSession, Serves
<1>7. OrderInv'
  BY DEF ServerInv, OrderInv, CommandsInOrder, Serves
<1> QED
  BY <1>4, <1>5, <1>6, <1>7 DEF ServerInv

LEMMA ServerEnvironment ==
  ASSUME ServerInv,
         \/ Serve \/ BindFails \/ Exited \/ UNCHANGED vars
         \/ \E k \in Peers : Connect(k) \/ Send(k) \/ Disconnect(k)
         \/ BeginWalk \/ SendSnapshot \/ EndWalk
  PROVE  ServerInv'
<1>1. UNCHANGED <<nextClientId, clientId, taken, reading, thread, applied, clients>>
  BY DEF Serve, BindFails, Exited, Connect, Send, Disconnect, BeginWalk, SendSnapshot,
         EndWalk, vars, acceptVars, readVars, pubVars
<1>2. conn' \in [Peers -> {"new", "backlog", "open", "gone"}]
      /\ \A k \in Peers :
           /\ conn'[k] \in {"new", "backlog"} => conn[k] \in {"new", "backlog"}
           /\ conn[k] \in {"open", "gone"} => conn'[k] \in {"open", "gone"}
  BY DEF Serve, BindFails, Exited, Connect, Send, Disconnect, BeginWalk, SendSnapshot,
         EndWalk, vars, ServerInv, ServerType
<1>3. \/ Serve /\ main = "starting" /\ main' = "serving" /\ accepting' = TRUE
      \/ UNCHANGED accepting /\ (main # "starting" => main' # "starting")
  BY DEF Serve, BindFails, Exited, Connect, Send, Disconnect, BeginWalk, SendSnapshot,
         EndWalk, vars, acceptVars
<1>4. \A t \in Threads : (Accepts(t) <=> Accepts(t)') /\ (Accepts(t) => thread[t].peer \in Peers)
  BY <1>1, InHandler DEF ServerInv, Accepts, AcceptPlaces
<1>5. AcceptInv'
  BY <1>1, <1>2, <1>3, <1>4 DEF ServerInv, AcceptInv
<1>6. walk' \in Nat /\ WalkInv'
  BY DEF Serve, BindFails, Exited, Connect, Send, Disconnect, BeginWalk, SendSnapshot,
         EndWalk, vars, pubVars, ServerInv, ServerType, WalkInv
<1>7. ServerType'
  BY <1>1, <1>2, <1>3, <1>6 DEF ServerInv, ServerType
<1> QED
  BY <1>1, <1>2, <1>5, <1>6, <1>7, ServerOutside

-----------------------------------------------------------------------------
(* The accept handler.                                                     *)

\* A step of the accept handler from one place to a later one, up to the start
\* of the session, that does nothing but move the handler and the counter.
LEMMA ServerAcceptMoves ==
  ASSUME ServerInv, NEW t \in Threads, NEW w \in HandlerType,
         thread[t].at \in AcceptPlaces \ {"started"}, w.at \in AcceptPlaces \ {"started"},
         w.peer = thread[t].peer,
         thread' = [thread EXCEPT ![t] = w],
         clients' \in Seq(Peers), IdInv', clientId' \in [Peers -> Nat],
         nextClientId' \in Nat,
         UNCHANGED <<main, accepting, conn, taken, reading, applied, walk, clientsMutex>>
  PROVE  ServerInv'
<1>1. /\ thread \in [Threads -> HandlerType \cup {Idle}]
      /\ thread'[t] = w /\ \A u \in Threads \ {t} : thread'[u] = thread[u]
      /\ thread' \in [Threads -> HandlerType \cup {Idle}]
  BY DEF ServerInv, ServerType
<1>2. /\ \A u \in Threads : Accepts(u) <=> Accepts(u)'
      /\ ~Serves(t) /\ ~Serves(t)'
      /\ \A u \in Threads : Serves(u) <=> Serves(u)'
  BY <1>1 DEF Accepts, Serves, AcceptPlaces
<1>3. ServerType'
  BY <1>1 DEF ServerInv, ServerType
<1>4. AcceptInv'
  BY <1>1, <1>2 DEF ServerInv, AcceptInv
<1>5. FreshInv'
  BY <1>1, <1>2 DEF ServerInv, FreshInv, NotRead
<1>6. ReadInv'
  BY <1>1, <1>2 DEF ServerInv, ReadInv, OneHandlerPerSession
<1>7. OrderInv'
  BY <1>1, <1>2 DEF ServerInv, OrderInv, CommandsInOrder, Serves
<1>8. WalkInv'
  BY DEF ServerInv, WalkInv
<1> QED
  BY <1>3, <1>4, <1>5, <1>6, <1>7, <1>8 DEF ServerInv

LEMMA ServerTakeId ==
  ASSUME ServerInv, NEW t \in Threads, TakeId(t)
  PROVE  ServerInv'
<1> DEFINE w == [at |-> "numbered", peer |-> thread[t].peer, n |-> nextClientId]
<1>1. /\ thread[t].at = "accepted" /\ thread[t] \in HandlerType
      /\ thread \in [Threads -> HandlerType \cup {Idle}] /\ nextClientId \in Nat
  BY InHandler DEF TakeId, ServerInv, ServerType
<1>2. w \in HandlerType /\ w.at = "numbered" /\ w.peer = thread[t].peer /\ w.n = nextClientId
  BY <1>1 DEF HandlerType, AcceptPlaces
<1>3. thread' = [thread EXCEPT ![t] = w]
  <2> DEFINE h == [at |-> "numbered", peer |-> thread[t].peer, n |-> thread[t].n]
  <2>1. [thread[t] EXCEPT !.at = "numbered"] = h
    BY <1>1 DEF HandlerType
  <2>2. [h EXCEPT !.n = nextClientId] = w
    OBVIOUS
  <2>3. thread' = [thread EXCEPT ![t] =
                     [[thread[t] EXCEPT !.at = "numbered"] EXCEPT !.n = nextClientId]]
    BY <1>1 DEF TakeId
  <2> HIDE DEF h, w
  <2> QED
    BY <2>1, <2>2, <2>3
<1>4. UNCHANGED <<acceptVars, readVars, pubVars, conn, clientsMutex, engineMutex, applied>>
  BY DEF TakeId
<1> HIDE DEF w
<1>5. IdInv'
  BY <1>1, <1>2, <1>3, <1>4 DEF ServerInv, IdInv, ClientIdsUnique, acceptVars
<1> QED
  BY <1>1, <1>2, <1>3, <1>4, <1>5, ServerAcceptMoves
     DEF ServerInv, ServerType, AcceptPlaces, acceptVars, readVars, pubVars

LEMMA ServerBumpId ==
  ASSUME ServerInv, NEW t \in Threads, BumpId(t)
  PROVE  ServerInv'
<1> DEFINE w == [at |-> "listing", peer |-> thread[t].peer, n |-> thread[t].n]
<1>1. /\ thread[t].at = "numbered" /\ thread[t] \in HandlerType
      /\ thread \in [Threads -> HandlerType \cup {Idle}] /\ nextClientId \in Nat
      /\ thread[t].n = nextClientId /\ thread[t].peer \in Peers
      /\ clientId \in [Peers -> Nat]
  BY InHandler DEF BumpId, ServerInv, ServerType, IdInv
<1>2. w \in HandlerType /\ w.at = "listing" /\ w.peer = thread[t].peer
  BY <1>1 DEF HandlerType, AcceptPlaces
<1>3. thread' = [thread EXCEPT ![t] = w]
  <2>1. thread' = [thread EXCEPT ![t] = [thread[t] EXCEPT !.at = "listing"]]
    BY <1>1 DEF BumpId
  <2>2. [thread[t] EXCEPT !.at = "listing"] = w
    BY <1>1 DEF HandlerType
  <2> QED
    BY <2>1, <2>2
<1>4. /\ nextClientId' = nextClientId + 1
      /\ clientId' = [clientId EXCEPT ![thread[t].peer] = nextClientId]
      /\ UNCHANGED <<main, accepting, clients, readVars, pubVars, conn,
                     clientsMutex, engineMutex, applied>>
  BY <1>1 DEF BumpId
<1>5. \A u \in Threads : thread'[u].at = "numbered" => FALSE
  <2>1. \A u \in Threads \ {t} : thread[u].at # "numbered"
    BY <1>1 DEF ServerInv, AcceptInv, Accepts, AcceptPlaces
  <2> QED
    BY <1>1, <1>2, <1>3, <2>1
<1> HIDE DEF w
<1>6. IdInv'
  <2>1. /\ \A k \in Peers : clientId[k] < nextClientId /\ clientId[k] \in Nat
        /\ ClientIdsUnique /\ 0 < nextClientId
    BY <1>1 DEF ServerInv, IdInv
  <2>2. \A k \in Peers :
          clientId'[k] = IF k = thread[t].peer THEN nextClientId ELSE clientId[k]
    BY <1>1, <1>4
  <2>3. \A k \in Peers : clientId'[k] < nextClientId'
    BY <1>1, <1>4, <2>1, <2>2
  <2>4. ClientIdsUnique'
    BY <1>1, <2>1, <2>2 DEF ClientIdsUnique
  <2> QED
    BY <1>1, <1>4, <1>5, <2>1, <2>3, <2>4 DEF IdInv
<1>7. /\ clients' \in Seq(Peers) /\ clientId' \in [Peers -> Nat] /\ nextClientId' \in Nat
  BY <1>1, <1>4 DEF ServerInv, ServerType
<1>8. /\ thread[t].at \in AcceptPlaces \ {"started"} /\ w.at \in AcceptPlaces \ {"started"}
      /\ UNCHANGED <<main, accepting, conn, taken, reading, applied, walk, clientsMutex>>
  BY <1>1, <1>2, <1>4 DEF AcceptPlaces, readVars, pubVars
<1> QED
  BY <1>2, <1>3, <1>6, <1>7, <1>8, ServerAcceptMoves

LEMMA ServerListClient ==
  ASSUME ServerInv, NEW t \in Threads, ListClient(t)
  PROVE  ServerInv'
<1> DEFINE w == [at |-> "listed", peer |-> thread[t].peer, n |-> thread[t].n]
<1>1. /\ thread[t].at = "listing" /\ thread[t] \in HandlerType
      /\ thread \in [Threads -> HandlerType \cup {Idle}]
      /\ thread[t].peer \in Peers
  BY InHandler DEF ListClient, ServerInv, ServerType
<1>2. w \in HandlerType /\ w.at = "listed" /\ w.peer = thread[t].peer
  BY <1>1 DEF HandlerType, AcceptPlaces
<1>3. thread' = [thread EXCEPT ![t] = w]
  <2>1. thread' = [thread EXCEPT ![t] = [thread[t] EXCEPT !.at = "listed"]]
    BY <1>1 DEF ListClient
  <2>2. [thread[t] EXCEPT !.at = "listed"] = w
    BY <1>1 DEF HandlerType
  <2> QED
    BY <2>1, <2>2
<1>4. /\ clients' = Append(clients, thread[t].peer)
      /\ UNCHANGED <<main, accepting, nextClientId, clientId, readVars, pubVars, conn,
                     clientsMutex, engineMutex, applied>>
  BY DEF ListClient
<1> HIDE DEF w
<1>5. IdInv'
  BY <1>1, <1>2, <1>3, <1>4 DEF ServerInv, IdInv, ClientIdsUnique
<1>6. /\ clients' \in Seq(Peers) /\ clientId' \in [Peers -> Nat] /\ nextClientId' \in Nat
  BY <1>1, <1>4 DEF ServerInv, ServerType
<1>7. /\ thread[t].at \in AcceptPlaces \ {"started"} /\ w.at \in AcceptPlaces \ {"started"}
      /\ UNCHANGED <<main, accepting, conn, taken, reading, applied, walk, clientsMutex>>
  BY <1>1, <1>2, <1>4 DEF AcceptPlaces, readVars, pubVars
<1> QED
  BY <1>2, <1>3, <1>5, <1>6, <1>7, ServerAcceptMoves

LEMMA ServerAcceptDone ==
  ASSUME ServerInv, NEW t \in Threads, NEW k \in Peers, AcceptDone(t, k)
  PROVE  ServerInv'
<1> DEFINE w == Handler("accepted", k, 0)
<1>1. /\ thread[t] = Idle /\ accepting /\ conn[k] = "backlog"
      /\ accepting' = FALSE /\ conn' = [conn EXCEPT ![k] = "open"]
      /\ thread' = [thread EXCEPT ![t] = w]
      /\ UNCHANGED <<main, nextClientId, clients, clientId, readVars, pubVars,
                     clientsMutex, engineMutex, applied>>
  BY DEF AcceptDone, AcceptsDuringHandler
<1>2. w \in HandlerType /\ w.at = "accepted" /\ w.peer = k
  BY DEF Handler, HandlerType, AcceptPlaces
<1> HIDE DEF w
<1>3. /\ thread \in [Threads -> HandlerType \cup {Idle}]
      /\ thread'[t] = w /\ \A u \in Threads \ {t} : thread'[u] = thread[u]
      /\ conn \in [Peers -> {"new", "backlog", "open", "gone"}]
      /\ conn'[k] = "open" /\ \A j \in Peers \ {k} : conn'[j] = conn[j]
  BY <1>1 DEF ServerInv, ServerType
<1>4. /\ \A u \in Threads : ~Accepts(u)
      /\ \A u \in Threads : Accepts(u)' <=> u = t
      /\ \A u \in Threads : Serves(u)' <=> Serves(u)
      /\ ~Serves(t) /\ main # "starting"
  BY <1>1, <1>2, <1>3 DEF ServerInv, AcceptInv, Accepts, Serves, AcceptPlaces, Idle
<1>5. ServerType'
  BY <1>1, <1>2 DEF ServerInv, ServerType, readVars, pubVars
<1>6. AcceptInv'
  BY <1>1, <1>2, <1>3, <1>4 DEF AcceptInv
<1>7. IdInv'
  BY <1>1, <1>2, <1>3 DEF ServerInv, IdInv, ClientIdsUnique
<1>8. FreshInv'
  <2>1. NotRead(k)
    BY <1>1 DEF ServerInv, FreshInv
  <2>2. \A j \in Peers : NotRead(j)' <=> NotRead(j)
    BY <1>1, <1>3, <1>4 DEF NotRead, readVars
  <2>3. \A u \in Threads : thread'[u].at \in AcceptPlaces \ {"started"} => u = t
    BY <1>4 DEF Accepts
  <2> QED
    BY <1>2, <1>3, <2>1, <2>2, <2>3 DEF ServerInv, FreshInv
<1>9. ReadInv'
  BY <1>1, <1>3, <1>4 DEF ServerInv, ReadInv, OneHandlerPerSession, readVars
<1>10. OrderInv'
  BY <1>1, <1>2, <1>3, <1>4 DEF ServerInv, OrderInv, CommandsInOrder, Serves, readVars
<1>11. WalkInv'
  BY <1>1 DEF ServerInv, WalkInv, pubVars
<1> QED
  BY <1>5, <1>6, <1>7, <1>8, <1>9, <1>10, <1>11 DEF ServerInv

LEMMA ServerStartSession ==
  ASSUME ServerInv, NEW t \in Threads, StartSession(t)
  PROVE  ServerInv'
<1> DEFINE k == thread[t].peer
           w == [at |-> "started", peer |-> k, n |-> thread[t].n]
<1>1. /\ thread[t].at = "listed" /\ thread[t] \in HandlerType
      /\ thread \in [Threads -> HandlerType \cup {Idle}] /\ k \in Peers
      /\ reading \in [Peers -> BOOLEAN]
  BY InHandler DEF StartSession, ServerInv, ServerType
<1>2. w \in HandlerType /\ w.at = "started" /\ w.peer = k
  BY <1>1 DEF HandlerType, AcceptPlaces
<1>3. thread' = [thread EXCEPT ![t] = w]
  <2>1. thread' = [thread EXCEPT ![t] = [thread[t] EXCEPT !.at = "started"]]
    BY <1>1 DEF StartSession
  <2>2. [thread[t] EXCEPT !.at = "started"] = w
    BY <1>1 DEF HandlerType
  <2> QED
    BY <2>1, <2>2
<1>4. /\ reading' = [reading EXCEPT ![k] = TRUE]
      /\ UNCHANGED <<acceptVars, sent, taken, pubVars, conn, clientsMutex, engineMutex, applied>>
  BY DEF StartSession
<1> HIDE DEF w, k
<1>5. /\ thread'[t] = w /\ \A u \in Threads \ {t} : thread'[u] = thread[u]
      /\ \A j \in Peers \ {k} : reading'[j] = reading[j]
  BY <1>1, <1>3, <1>4
<1>6. /\ \A u \in Threads : Accepts(u) <=> u = t
      /\ \A u \in Threads : Accepts(u)' <=> u = t
      /\ \A u \in Threads : Serves(u)' <=> Serves(u)
      /\ ~Serves(t)
  BY <1>1, <1>2, <1>5 DEF ServerInv, AcceptInv, Accepts, Serves, AcceptPlaces
<1>7. NotRead(k) /\ conn[k] \in {"open", "gone"}
  BY <1>1, <1>6 DEF ServerInv, FreshInv, AcceptInv, AcceptPlaces, k
<1>8. ServerType'
  BY <1>1, <1>2, <1>3, <1>4 DEF ServerInv, ServerType, acceptVars, pubVars
<1>9. AcceptInv'
  <2>1. w.peer = thread[t].peer
    BY <1>2 DEF k
  <2> QED
    BY <1>4, <1>5, <1>6, <2>1 DEF ServerInv, AcceptInv, acceptVars
<1>10. IdInv'
  BY <1>2, <1>4, <1>5 DEF ServerInv, IdInv, ClientIdsUnique, acceptVars
<1>11. FreshInv'
  <2>1. ASSUME NEW j \in Peers, conn'[j] \in {"new", "backlog"} PROVE NotRead(j)'
    <3>1. j # k /\ NotRead(j)
      BY <1>4, <1>7, <2>1 DEF ServerInv, FreshInv
    <3> QED
      BY <1>4, <1>5, <1>6, <3>1 DEF NotRead
  <2>2. \A u \in Threads : thread'[u].at \notin AcceptPlaces \ {"started"}
    BY <1>2, <1>5, <1>6 DEF Accepts
  <2> QED
    BY <2>1, <2>2 DEF FreshInv
<1>12. ReadInv'
  <2>1. \A u \in Threads : Serves(u) => thread[u].peer # k /\ thread[u].peer \in Peers
    BY <1>7, InHandler DEF NotRead, ServerInv, Serves
  <2> QED
    BY <1>5, <1>6, <2>1 DEF ServerInv, ReadInv, OneHandlerPerSession
<1>13. OrderInv'
  BY <1>2, <1>4, <1>5, <1>6 DEF ServerInv, OrderInv, CommandsInOrder, Serves
<1>14. WalkInv'
  BY <1>4 DEF ServerInv, WalkInv, pubVars
<1> QED
  BY <1>8, <1>9, <1>10, <1>11, <1>12, <1>13, <1>14 DEF ServerInv

LEMMA ServerStartAccept ==
  ASSUME ServerInv, NEW t \in Threads, StartAccept(t)
  PROVE  ServerInv'
<1>1. /\ thread[t].at = "started" /\ accepting' = TRUE
      /\ thread' = [thread EXCEPT ![t] = Idle]
      /\ UNCHANGED <<main, nextClientId, clients, clientId, readVars, pubVars, conn,
                     clientsMutex, engineMutex, applied>>
      /\ thread \in [Threads -> HandlerType \cup {Idle}]
  BY DEF StartAccept, ServerInv, ServerType
<1>2. thread'[t] = Idle /\ \A u \in Threads \ {t} : thread'[u] = thread[u]
  BY <1>1
<1>3. /\ \A u \in Threads : Accepts(u) <=> u = t
      /\ \A u \in Threads : ~Accepts(u)'
      /\ \A u \in Threads : Serves(u)' <=> Serves(u)
      /\ ~Serves(t) /\ main # "starting"
  BY <1>1, <1>2 DEF ServerInv, AcceptInv, Accepts, Serves, AcceptPlaces, Idle
<1>4. ServerType'
  BY <1>1 DEF ServerInv, ServerType, readVars, pubVars
<1>5. AcceptInv'
  BY <1>1, <1>3 DEF AcceptInv
<1>6. IdInv'
  BY <1>1, <1>2 DEF ServerInv, IdInv, ClientIdsUnique, Idle
<1>7. FreshInv'
  <2>1. \A j \in Peers : NotRead(j)' <=> NotRead(j)
    BY <1>1, <1>2, <1>3 DEF NotRead, readVars
  <2>2. \A u \in Threads : thread'[u].at \notin AcceptPlaces
    BY <1>3 DEF Accepts
  <2> QED
    BY <1>1, <2>1, <2>2 DEF ServerInv, FreshInv
<1>8. ReadInv'
  BY <1>1, <1>2, <1>3 DEF ServerInv, ReadInv, OneHandlerPerSession, readVars
<1>9. OrderInv'
  BY <1>1, <1>2, <1>3 DEF ServerInv, OrderInv, CommandsInOrder, Serves, readVars, Idle
<1>10. WalkInv'
  BY <1>1 DEF ServerInv, WalkInv, pubVars
<1> QED
  BY <1>4, <1>5, <1>6, <1>7, <1>8, <1>9, <1>10 DEF ServerInv

-----------------------------------------------------------------------------
(* The read handler.                                                       *)

LEMMA ServerReadLine ==
  ASSUME ServerInv, NEW t \in Threads, NEW k \in Peers, ReadLine(t, k)
  PROVE  ServerInv'
<1> DEFINE w == Handler("calling", k, taken[k] + 1)
<1>1. /\ thread[t] = Idle /\ reading[k]
      /\ reading' = [reading EXCEPT ![k] = FALSE]
      /\ taken' = [taken EXCEPT ![k] = taken[k] + 1]
      /\ thread' = [thread EXCEPT ![t] = w]
      /\ UNCHANGED <<main, accepting, nextClientId, clients, clientId, walk, conn,
                     clientsMutex, applied>>
  BY DEF ReadLine, ReadsDuringHandler, acceptVars, pubVars
<1>2. /\ thread \in [Threads -> HandlerType \cup {Idle}]
      /\ taken \in [Peers -> Nat] /\ reading \in [Peers -> BOOLEAN]
      /\ applied \in Seq([peer : Peers, n : Nat])
  BY DEF ServerInv, ServerType
<1>3. w \in HandlerType /\ w.at = "calling" /\ w.peer = k /\ w.n = taken[k] + 1
  BY <1>2 DEF Handler, HandlerType, ReadPlaces
<1> HIDE DEF w
<1>4. /\ thread'[t] = w /\ \A u \in Threads \ {t} : thread'[u] = thread[u]
      /\ ~reading'[k] /\ \A j \in Peers \ {k} : reading'[j] = reading[j]
      /\ taken'[k] = taken[k] + 1 /\ \A j \in Peers \ {k} : taken'[j] = taken[j]
  BY <1>1, <1>2
<1>5. /\ ~Accepts(t) /\ ~Serves(t) /\ Serves(t)'
      /\ \A u \in Threads : Accepts(u)' <=> Accepts(u)
      /\ \A u \in Threads \ {t} : Serves(u)' <=> Serves(u)
  BY <1>1, <1>3, <1>4 DEF Accepts, Serves, AcceptPlaces, Idle
<1>6. \A u \in Threads : Serves(u) => thread[u].peer \in Peers \ {k}
  BY <1>1, InHandler DEF ServerInv, ReadInv, Serves
<1>7. ServerType'
  BY <1>1, <1>2, <1>3 DEF ServerInv, ServerType
<1>8. AcceptInv'
  BY <1>1, <1>4, <1>5 DEF ServerInv, AcceptInv
<1>9. IdInv'
  BY <1>1, <1>3, <1>4 DEF ServerInv, IdInv, ClientIdsUnique
<1>10. FreshInv'
  <2>1. \A j \in Peers \ {k} : NotRead(j) => NotRead(j)'
    BY <1>3, <1>4, <1>5 DEF NotRead
  <2>2. ~NotRead(k)
    BY <1>1 DEF NotRead
  <2>3. \A u \in Threads : thread'[u].at \in AcceptPlaces \ {"started"} =>
          /\ thread'[u].peer = thread[u].peer /\ thread[u].peer \in Peers
          /\ thread[u].at \in AcceptPlaces \ {"started"}
    BY <1>4, <1>5, InHandler DEF Accepts, ServerInv, AcceptPlaces
  <2>4. \A u \in Threads : thread'[u].at \in AcceptPlaces \ {"started"} =>
          NotRead(thread[u].peer)'
    BY <2>1, <2>2, <2>3 DEF ServerInv, FreshInv
  <2>5. \A j \in Peers : conn'[j] \in {"new", "backlog"} => NotRead(j)'
    BY <1>1, <2>1, <2>2 DEF ServerInv, FreshInv
  <2> QED
    BY <2>3, <2>4, <2>5 DEF FreshInv, NotRead
<1>11. ReadInv'
  <2>1. \A u \in Threads : Serves(u)' => ~reading'[thread'[u].peer]
    BY <1>3, <1>4, <1>5, <1>6 DEF ServerInv, ReadInv
  <2>2. OneHandlerPerSession'
    BY <1>3, <1>4, <1>5, <1>6 DEF ServerInv, ReadInv, OneHandlerPerSession
  <2> QED
    BY <2>1, <2>2 DEF ReadInv
<1>12. OrderInv'
  <2>1. \A i \in DOMAIN applied : applied[i].peer \in Peers /\ applied[i].n \in Nat
    <3>1. \A i \in DOMAIN applied : applied[i] \in [peer : Peers, n : Nat]
      BY <1>2, ElementOfSeq, LenProperties
    <3> QED
      BY <3>1
  <2>2. \A i \in DOMAIN applied : applied[i].n <= taken[applied[i].peer]
    BY DEF ServerInv, OrderInv
  <2>3. \A i \in DOMAIN applied' : applied'[i].n <= taken'[applied'[i].peer]
    BY <1>1, <1>2, <1>4, <2>1, <2>2
  <2>4. \A u \in Threads : Serves(u)' => thread'[u].n = taken'[thread'[u].peer]
    BY <1>3, <1>4, <1>5, <1>6 DEF ServerInv, OrderInv
  <2>5. \A u \in Threads \ {t} : thread'[u].at \in {"calling", "inEngine"} =>
          \A i \in DOMAIN applied' :
            applied'[i].peer = thread'[u].peer => applied'[i].n < thread'[u].n
    BY <1>1, <1>4 DEF ServerInv, OrderInv
  <2>6. \A i \in DOMAIN applied' :
          applied'[i].peer = thread'[t].peer => applied'[i].n < thread'[t].n
    BY <1>1, <1>2, <1>3, <1>4, <2>1, <2>2
  <2>7. CommandsInOrder'
    BY <1>1 DEF ServerInv, OrderInv, CommandsInOrder
  <2> QED
    BY <2>3, <2>4, <2>5, <2>6, <2>7 DEF OrderInv
<1>13. WalkInv'
  BY <1>1 DEF ServerInv, WalkInv
<1> QED
  BY <1>7, <1>8, <1>9, <1>10, <1>11, <1>12, <1>13 DEF ServerInv

LEMMA ServerCallEngine ==
  ASSUME ServerInv, NEW t \in Threads, CallEngine(t)
  PROVE  ServerInv'
<1> DEFINE w == [at |-> "inEngine", peer |-> thread[t].peer, n |-> thread[t].n]
<1>1. /\ thread[t].at = "calling" /\ thread[t] \in HandlerType
      /\ thread \in [Threads -> HandlerType \cup {Idle}]
      /\ UNCHANGED <<main, accepting, nextClientId, clients, clientId, taken, reading, walk,
                     conn, clientsMutex, applied>>
  BY InHandler DEF CallEngine, ServerInv, ServerType, acceptVars, readVars, pubVars
<1>2. w \in HandlerType /\ w.at = "inEngine" /\ w.peer = thread[t].peer /\ w.n = thread[t].n
  BY <1>1 DEF HandlerType, ReadPlaces
<1>3. thread' = [thread EXCEPT ![t] = w]
  <2>1. thread' = [thread EXCEPT ![t] = [thread[t] EXCEPT !.at = "inEngine"]]
    BY <1>1 DEF CallEngine
  <2>2. [thread[t] EXCEPT !.at = "inEngine"] = w
    BY <1>1 DEF HandlerType
  <2> QED
    BY <2>1, <2>2
<1> HIDE DEF w
<1>4. thread'[t] = w /\ \A u \in Threads \ {t} : thread'[u] = thread[u]
  BY <1>1, <1>3
<1>5. /\ \A u \in Threads : Accepts(u)' <=> Accepts(u)
      /\ \A u \in Threads : Serves(u)' <=> Serves(u)
      /\ ~Accepts(t)
  BY <1>1, <1>2, <1>4 DEF Accepts, Serves, AcceptPlaces
<1>6. ServerType'
  BY <1>1, <1>2, <1>3 DEF ServerInv, ServerType
<1>7. AcceptInv'
  BY <1>1, <1>4, <1>5 DEF ServerInv, AcceptInv
<1>8. IdInv'
  BY <1>1, <1>2, <1>4 DEF ServerInv, IdInv, ClientIdsUnique
<1>9. FreshInv'
  <2>1. \A j : NotRead(j)' <=> NotRead(j)
    BY <1>1, <1>2, <1>4, <1>5 DEF NotRead
  <2>2. \A u \in Threads : thread'[u].at \in AcceptPlaces => u # t
    BY <1>5 DEF Accepts
  <2> QED
    BY <1>1, <1>4, <2>1, <2>2 DEF ServerInv, FreshInv
<1>10. ReadInv'
  BY <1>1, <1>2, <1>4, <1>5 DEF ServerInv, ReadInv, OneHandlerPerSession
<1>11. OrderInv'
  BY <1>1, <1>2, <1>4, <1>5 DEF ServerInv, OrderInv, CommandsInOrder
<1>12. WalkInv'
  BY <1>1 DEF ServerInv, WalkInv
<1> QED
  BY <1>6, <1>7, <1>8, <1>9, <1>10, <1>11, <1>12 DEF ServerInv

LEMMA ServerEngineDone ==
  ASSUME ServerInv, NEW t \in Threads, EngineDone(t)
  PROVE  ServerInv'
<1> DEFINE w == [at |-> "returned", peer |-> thread[t].peer, n |-> thread[t].n]
           c == [peer |-> thread[t].peer, n |-> thread[t].n]
<1>1. /\ thread[t].at = "inEngine" /\ thread[t] \in HandlerType
      /\ thread[t].peer \in Peers /\ thread[t].n \in Nat
      /\ thread \in [Threads -> HandlerType \cup {Idle}]
      /\ applied \in Seq([peer : Peers, n : Nat]) /\ taken \in [Peers -> Nat]
      /\ applied' = Append(applied, c)
      /\ UNCHANGED <<main, accepting, nextClientId, clients, clientId, taken, reading, walk,
                     conn, clientsMutex>>
  BY InHandler DEF EngineDone, ServerInv, ServerType, acceptVars, readVars, pubVars
<1>2. w \in HandlerType /\ w.at = "returned" /\ w.peer = thread[t].peer /\ w.n = thread[t].n
  BY <1>1 DEF HandlerType, ReadPlaces
<1>3. thread' = [thread EXCEPT ![t] = w]
  <2>1. thread' = [thread EXCEPT ![t] = [thread[t] EXCEPT !.at = "returned"]]
    BY <1>1 DEF EngineDone
  <2>2. thread[t] \in HandlerType
    BY <1>1
  <2>3. [thread[t] EXCEPT !.at = "returned"] = w
    BY <2>2 DEF HandlerType
  <2> QED
    BY <2>1, <2>3
<1>4. c \in [peer : Peers, n : Nat] /\ c.peer = thread[t].peer /\ c.n = thread[t].n
  BY <1>1
<1> HIDE DEF w, c
<1>5. thread'[t] = w /\ \A u \in Threads \ {t} : thread'[u] = thread[u]
  BY <1>1, <1>3
<1>6. /\ \A u \in Threads : Accepts(u)' <=> Accepts(u)
      /\ \A u \in Threads : Serves(u)' <=> Serves(u)
      /\ ~Accepts(t) /\ Serves(t)
  BY <1>1, <1>2, <1>5 DEF Accepts, Serves, AcceptPlaces
<1>7. /\ applied' \in Seq([peer : Peers, n : Nat])
      /\ Len(applied) \in Nat
      /\ DOMAIN applied = 1 .. Len(applied) /\ DOMAIN applied' = 1 .. (Len(applied) + 1)
      /\ \A i \in DOMAIN applied : applied'[i] = applied[i] /\ applied[i] \in [peer : Peers, n : Nat]
      /\ applied'[Len(applied) + 1] = c
  <2>1. applied \in Seq([peer : Peers, n : Nat]) /\ applied' = Append(applied, c)
    BY <1>1
  <2>2. /\ applied' \in Seq([peer : Peers, n : Nat]) /\ Len(applied') = Len(applied) + 1
        /\ \A i \in 1 .. Len(applied) : applied'[i] = applied[i]
        /\ applied'[Len(applied) + 1] = c
    BY <1>4, <2>1, AppendProperties
  <2>3. /\ Len(applied) \in Nat /\ DOMAIN applied = 1 .. Len(applied)
        /\ DOMAIN applied' = 1 .. Len(applied')
    BY <2>1, <2>2, LenProperties
  <2>4. \A i \in DOMAIN applied : applied[i] \in [peer : Peers, n : Nat]
    BY <2>1, <2>3, ElementOfSeq
  <2> QED
    BY <2>2, <2>3, <2>4
<1>8. ServerType'
  BY <1>1, <1>2, <1>3, <1>7 DEF ServerInv, ServerType
<1>9. AcceptInv'
  BY <1>1, <1>5, <1>6 DEF ServerInv, AcceptInv
<1>10. IdInv'
  BY <1>1, <1>2, <1>5 DEF ServerInv, IdInv, ClientIdsUnique
<1>11. FreshInv'
  <2>1. \A j : NotRead(j)' <=> NotRead(j)
    BY <1>1, <1>2, <1>5, <1>6 DEF NotRead
  <2>2. \A u \in Threads : thread'[u].at \in AcceptPlaces => u # t
    BY <1>6 DEF Accepts
  <2> QED
    BY <1>1, <1>5, <2>1, <2>2 DEF ServerInv, FreshInv
<1>12. ReadInv'
  <2>1. \A u \in Threads : thread'[u].peer = thread[u].peer
    BY <1>2, <1>5
  <2>2. reading' = reading
    BY <1>1
  <2> QED
    BY <1>6, <2>1, <2>2 DEF ServerInv, ReadInv, OneHandlerPerSession
<1>13. OrderInv'
  <2>1. c.n = taken[c.peer]
    BY <1>4, <1>6 DEF ServerInv, OrderInv
  <2>2. \A i \in DOMAIN applied' : applied'[i].n <= taken'[applied'[i].peer]
    BY <1>1, <1>4, <1>7, <2>1 DEF ServerInv, OrderInv
  <2>3. \A u \in Threads : Serves(u)' => thread'[u].n = taken'[thread'[u].peer]
    BY <1>1, <1>2, <1>5, <1>6 DEF ServerInv, OrderInv
  <2>4. ASSUME NEW u \in Threads, thread'[u].at \in {"calling", "inEngine"},
               NEW i \in DOMAIN applied', applied'[i].peer = thread'[u].peer
        PROVE  applied'[i].n < thread'[u].n
    <3>1. u # t /\ thread'[u] = thread[u]
      BY <1>2, <1>5, <2>4
    <3>2. thread[u].peer # thread[t].peer
      BY <1>6, <2>4, <3>1 DEF ServerInv, ReadInv, OneHandlerPerSession, Serves
    <3>3. i \in DOMAIN applied
      BY <1>4, <1>7, <2>4, <3>1, <3>2
    <3> QED
      BY <1>7, <2>4, <3>1, <3>3 DEF ServerInv, OrderInv
  <2>5. CommandsInOrder'
    <3>1. \A i \in DOMAIN applied : applied[i].peer = c.peer => applied[i].n < c.n
      BY <1>1, <1>4 DEF ServerInv, OrderInv
    <3> QED
      BY <1>7, <3>1 DEF ServerInv, OrderInv, CommandsInOrder
  <2> QED
    BY <2>2, <2>3, <2>4, <2>5 DEF OrderInv
<1>14. WalkInv'
  BY <1>1 DEF ServerInv, WalkInv
<1> QED
  BY <1>8, <1>9, <1>10, <1>11, <1>12, <1>13, <1>14 DEF ServerInv

LEMMA ServerDoRead ==
  ASSUME ServerInv, NEW t \in Threads, DoRead(t)
  PROVE  ServerInv'
<1> DEFINE k == thread[t].peer
<1>1. /\ thread[t].at = "returned" /\ k \in Peers
      /\ thread \in [Threads -> HandlerType \cup {Idle}] /\ reading \in [Peers -> BOOLEAN]
      /\ reading' = [reading EXCEPT ![k] = TRUE]
      /\ thread' = [thread EXCEPT ![t] = Idle]
      /\ UNCHANGED <<main, accepting, nextClientId, clients, clientId, taken, walk,
                     conn, clientsMutex, applied>>
  BY InHandler DEF DoRead, ReadsAfterHandler, ServerInv, ServerType, acceptVars, pubVars
<1>2. /\ thread'[t] = Idle /\ \A u \in Threads \ {t} : thread'[u] = thread[u]
      /\ \A j \in Peers \ {k} : reading'[j] = reading[j]
  BY <1>1
<1>3. /\ \A u \in Threads : Accepts(u)' <=> Accepts(u)
      /\ \A u \in Threads : Serves(u)' <=> Serves(u) /\ u # t
      /\ Serves(t) /\ ~Accepts(t)
  BY <1>1, <1>2 DEF Accepts, Serves, AcceptPlaces, Idle
<1>4. \A u \in Threads \ {t} : Serves(u) => thread[u].peer \in Peers \ {k}
  BY <1>3, InHandler DEF ServerInv, ReadInv, OneHandlerPerSession, Serves
<1>5. ~NotRead(k)
  BY <1>3 DEF NotRead
<1> HIDE DEF k
<1>6. ServerType'
  BY <1>1 DEF ServerInv, ServerType
<1>7. AcceptInv'
  BY <1>1, <1>2, <1>3 DEF ServerInv, AcceptInv
<1>8. IdInv'
  BY <1>1, <1>2 DEF ServerInv, IdInv, ClientIdsUnique, Idle
<1>9. FreshInv'
  <2>1. \A j \in Peers \ {k} : NotRead(j) => NotRead(j)'
    BY <1>2, <1>3 DEF NotRead
  <2>2. \A u \in Threads : thread'[u].at \in AcceptPlaces \ {"started"} =>
          /\ thread'[u].peer = thread[u].peer /\ thread[u].peer \in Peers
          /\ thread[u].at \in AcceptPlaces \ {"started"}
    BY <1>2, <1>3, InHandler DEF Accepts, ServerInv, AcceptPlaces
  <2>3. \A u \in Threads : thread'[u].at \in AcceptPlaces \ {"started"} =>
          NotRead(thread[u].peer) /\ thread[u].peer \in Peers \ {k}
    BY <1>5, <2>2 DEF ServerInv, FreshInv
  <2>4. \A j \in Peers : conn'[j] \in {"new", "backlog"} => NotRead(j)'
    BY <1>1, <1>5, <2>1 DEF ServerInv, FreshInv
  <2> QED
    BY <2>1, <2>2, <2>3, <2>4 DEF FreshInv, NotRead
<1>10. ReadInv'
  <2>1. \A u \in Threads : Serves(u)' => ~reading'[thread'[u].peer]
    BY <1>2, <1>3, <1>4 DEF ServerInv, ReadInv
  <2>2. OneHandlerPerSession'
    BY <1>2, <1>3 DEF ServerInv, ReadInv, OneHandlerPerSession
  <2> QED
    BY <2>1, <2>2 DEF ReadInv
<1>11. OrderInv'
  BY <1>1, <1>2, <1>3 DEF ServerInv, OrderInv, CommandsInOrder, Idle
<1>12. WalkInv'
  BY <1>1 DEF ServerInv, WalkInv
<1> QED
  BY <1>6, <1>7, <1>8, <1>9, <1>10, <1>11, <1>12 DEF ServerInv

LEMMA ServerReadFails ==
  ASSUME ServerInv, NEW t \in Threads, NEW k \in Peers, ReadFails(t, k)
  PROVE  ServerInv'
<1>1. /\ reading' = [reading EXCEPT ![k] = FALSE] /\ reading \in [Peers -> BOOLEAN]
      /\ UNCHANGED <<main, accepting, nextClientId, clients, clientId, taken, walk,
                     conn, clientsMutex, applied, thread>>
  BY DEF ReadFails, ServerInv, ServerType, acceptVars, pubVars
<1>2. \A u \in Threads : (Accepts(u)' <=> Accepts(u)) /\ (Serves(u)' <=> Serves(u))
  BY <1>1 DEF Accepts, Serves
<1>3. \A u \in Threads : Serves(u) \/ Accepts(u) => thread[u].peer \in Peers
  BY InHandler DEF ServerInv, Serves, Accepts, AcceptPlaces
<1>4. \A j \in Peers : reading'[j] => reading[j]
  BY <1>1
<1>5. ServerType'
  BY <1>1 DEF ServerInv, ServerType
<1>6. AcceptInv'
  BY <1>1, <1>2 DEF ServerInv, AcceptInv
<1>7. IdInv'
  BY <1>1 DEF ServerInv, IdInv, ClientIdsUnique
<1>8. FreshInv'
  <2>1. \A j \in Peers : NotRead(j) => NotRead(j)'
    BY <1>1, <1>2, <1>4 DEF NotRead
  <2> QED
    BY <1>1, <1>3, <2>1 DEF ServerInv, FreshInv, Accepts, NotRead
<1>9. ReadInv'
  BY <1>1, <1>2, <1>3, <1>4 DEF ServerInv, ReadInv, OneHandlerPerSession
<1>10. OrderInv'
  BY <1>1, <1>2 DEF ServerInv, OrderInv, CommandsInOrder
<1>11. WalkInv'
  BY <1>1 DEF ServerInv, WalkInv
<1> QED
  BY <1>5, <1>6, <1>7, <1>8, <1>9, <1>10, <1>11 DEF ServerInv

LEMMA ServerNext == ServerInv /\ [Next]_vars => ServerInv'
<1> SUFFICES ASSUME ServerInv, [Next]_vars PROVE ServerInv'
  OBVIOUS
<1>1. CASE \/ Serve \/ BindFails \/ Exited \/ UNCHANGED vars
           \/ \E k \in Peers : Connect(k) \/ Send(k) \/ Disconnect(k)
           \/ BeginWalk \/ SendSnapshot \/ EndWalk
  BY <1>1, ServerEnvironment
<1>2. CASE \E t \in Threads :
             \/ TakeId(t) \/ BumpId(t) \/ ListClient(t) \/ StartSession(t) \/ StartAccept(t)
             \/ \E k \in Peers : AcceptDone(t, k)
  BY <1>2, ServerTakeId, ServerBumpId, ServerListClient, ServerStartSession,
     ServerStartAccept, ServerAcceptDone
<1>3. CASE \E t \in Threads :
             \/ CallEngine(t) \/ EngineDone(t) \/ DoRead(t)
             \/ \E k \in Peers : ReadLine(t, k) \/ ReadFails(t, k)
  BY <1>3, ServerCallEngine, ServerEngineDone, ServerDoRead, ServerReadLine, ServerReadFails
<1> QED
  BY <1>1, <1>2, <1>3 DEF Next, Run

LEMMA ServerInvariant == Spec => []ServerInv
BY ServerInit, ServerNext, PTL DEF Spec

-----------------------------------------------------------------------------

\* No two sessions share an id, however many threads run the I/O: one accept at a
\* time makes the plain counter of TcpServer safe.
THEOREM IdsAreUnique == Spec => []ClientIdsUnique
<1>1. ServerInv => ClientIdsUnique
  BY DEF ServerInv, IdInv
<1> QED
  BY <1>1, ServerInvariant, PTL

\* No two threads are ever in the read handler of one session, with no mutex or
\* strand to keep them apart.
THEOREM HandlersDoNotOverlap == Spec => []OneHandlerPerSession
<1>1. ServerInv => OneHandlerPerSession
  BY DEF ServerInv, ReadInv
<1> QED
  BY <1>1, ServerInvariant, PTL

\* The engine executes each client's commands in the order they were sent, for any
\* number of threads and clients.
THEOREM CommandsKeepTheirOrder == Spec => []CommandsInOrder
<1>1. ServerInv => CommandsInOrder
  BY DEF ServerInv, OrderInv
<1> QED
  BY <1>1, ServerInvariant, PTL

\* The publisher's iterators stay valid: nobody inserts into clients during a walk.
THEOREM WalksAreUndisturbed == Spec => WalkUndisturbed
<1>1. ServerInv /\ [Next]_vars => [walk > 0 => clients' = clients]_vars
  <2> SUFFICES ASSUME ServerInv, [Next]_vars, walk > 0 PROVE clients' = clients
    OBVIOUS
  <2>1. clientsMutex # Nobody
    BY NamesAssumption DEF ServerInv, WalkInv
  <2>2. \A t \in Threads : ~ListClient(t)
    BY <2>1 DEF ListClient, MayList
  <2>3. CASE UNCHANGED vars
    BY <2>3 DEF vars, acceptVars
  <2>4. CASE \/ Serve \/ BindFails \/ Exited
             \/ \E k \in Peers : Connect(k) \/ Send(k) \/ Disconnect(k)
             \/ BeginWalk \/ SendSnapshot \/ EndWalk
    BY <2>4 DEF Serve, BindFails, Exited, Connect, Send, Disconnect, BeginWalk,
                SendSnapshot, EndWalk, vars, acceptVars
  <2>5. CASE \E t \in Threads :
               \/ Run(t) \/ CallEngine(t)
               \/ \E k \in Peers : AcceptDone(t, k) \/ ReadLine(t, k) \/ ReadFails(t, k)
    BY <2>5 DEF Run, TakeId, BumpId, StartSession, StartAccept, EngineDone, DoRead,
                CallEngine, AcceptDone, ReadLine, ReadFails, acceptVars
  <2> QED
    BY <2>2, <2>3, <2>4, <2>5 DEF Next
<1> QED
  BY <1>1, ServerInvariant, PTL DEF Spec, WalkUndisturbed

=============================================================================
