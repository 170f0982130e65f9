------------------------------- MODULE Server -------------------------------
(***************************************************************************)
(* TcpServer: the accept chain, the sessions' read chains on a pool of I/O *)
(* threads, and the publisher, with the mutexes they meet at.  A thread    *)
(* that runs a handler is followed from one access of shared state to the  *)
(* next.  Commands are numbered per client; what the engine does with one  *)
(* is MatchingEngine's subject, and the queue behind sendSnapshot is       *)
(* SessionWriter's.                                                        *)
(***************************************************************************)
EXTENDS Integers, Sequences, FiniteSets

CONSTANTS
  Peers,        \* the clients that may connect
  Threads,      \* the I/O threads
  Nobody,       \* a mutex that is free
  Publisher,    \* publisherThread as the holder of a mutex
  MaxCommands   \* bound, per peer: lines the client sends

ASSUME NamesAssumption ==
  Nobody \notin Threads \cup {Publisher} /\ Publisher \notin Threads

VARIABLES
  main,          \* start(): "starting", "serving", or "exited" after a failed bind
  accepting,     \* an async_accept is outstanding
  nextClientId,
  clients,       \* the listed sessions, each named by its peer
  clientId,      \* the id of each session, 0 before it has one
  conn,          \* per peer: "new", "backlog", "open" or "gone"
  sent, taken,   \* per peer: lines sent, lines taken by a read handler
  reading,       \* per session: an async_read_until is outstanding
  thread,        \* per I/O thread: the handler it runs
  clientsMutex, engineMutex,
  applied,       \* history: the commands the engine executed, in order
  walk,          \* publisher: 0 asleep, else the place in clients it is at
  seen           \* per session: the length of `applied` at its last snapshot

acceptVars == <<main, accepting, nextClientId, clients, clientId>>
readVars   == <<sent, taken, reading>>
pubVars    == <<walk, seen>>
vars == <<acceptVars, readVars, pubVars, conn, thread, clientsMutex, engineMutex, applied>>

\* A handler: where it stands, the session it is for, and a local number (the
\* id it read, or the command it holds).
Handler(at, k, n) == [at |-> at, peer |-> k, n |-> n]

Idle == [at |-> "idle"]

Init ==
  /\ main = "starting" /\ accepting = FALSE
  /\ nextClientId = 1 /\ clients = <<>>
  /\ clientId = [k \in Peers |-> 0]
  /\ conn = [k \in Peers |-> "new"]
  /\ sent = [k \in Peers |-> 0] /\ taken = [k \in Peers |-> 0]
  /\ reading = [k \in Peers |-> FALSE]
  /\ thread = [t \in Threads |-> Idle]
  /\ clientsMutex = Nobody /\ engineMutex = Nobody
  /\ applied = <<>>
  /\ walk = 0 /\ seen = [k \in Peers |-> 0]

-----------------------------------------------------------------------------
(* Plausible bugs, each in place of the operator its comment names.        *)

\* AcceptsDuringHandler: startAccept is called first in its handler.
AcceptsDuringHandlerAlready == TRUE

\* ReadsDuringHandler: doRead is called before the command is executed.
ReadsDuringHandlerAlready == TRUE

\* ReadsAfterHandler: doRead is not called again.
ReadsAfterHandlerNoMore == FALSE

\* MayList: clients is extended without its mutex.
MayListUnlocked == TRUE

-----------------------------------------------------------------------------
(* start() and the destructor.                                             *)

Serve ==
  /\ main = "starting"
  /\ main' = "serving" /\ accepting' = TRUE
  /\ UNCHANGED <<nextClientId, clients, clientId, readVars, pubVars, conn, thread,
                 clientsMutex, engineMutex, applied>>

\* bind reports an error: start() returns and the destructor, which finds no
\* thread to join and no client to stop, ends the server.
BindFails ==
  /\ main = "starting"
  /\ main' = "exited"
  /\ UNCHANGED <<accepting, nextClientId, clients, clientId, readVars, pubVars, conn,
                 thread, clientsMutex, engineMutex, applied>>

\* The process is over.  While it serves, start() waits for the I/O threads.
Exited == main = "exited" /\ UNCHANGED vars

-----------------------------------------------------------------------------
(* The clients.                                                            *)

Connect(k) ==
  /\ main = "serving" /\ conn[k] = "new"
  /\ conn' = [conn EXCEPT ![k] = "backlog"]
  /\ UNCHANGED <<acceptVars, readVars, pubVars, thread, clientsMutex, engineMutex, applied>>

Send(k) ==
  /\ conn[k] \in {"backlog", "open"} /\ sent[k] < MaxCommands[k]
  /\ sent' = [sent EXCEPT ![k] = @ + 1]
  /\ UNCHANGED <<acceptVars, taken, reading, pubVars, conn, thread,
                 clientsMutex, engineMutex, applied>>

Disconnect(k) ==
  /\ conn[k] = "open"
  /\ conn' = [conn EXCEPT ![k] = "gone"]
  /\ UNCHANGED <<acceptVars, readVars, pubVars, thread, clientsMutex, engineMutex, applied>>

-----------------------------------------------------------------------------
(* The accept handler.  An accept that fails only starts the next one.     *)

AcceptsDuringHandler == FALSE

AcceptDone(t, k) ==
  /\ thread[t] = Idle /\ accepting /\ conn[k] = "backlog"
  /\ accepting' = AcceptsDuringHandler
  /\ conn' = [conn EXCEPT ![k] = "open"]
  /\ thread' = [thread EXCEPT ![t] = Handler("accepted", k, 0)]
  /\ UNCHANGED <<main, nextClientId, clients, clientId, readVars, pubVars,
                 clientsMutex, engineMutex, applied>>

\* nextClientId++ on a plain int: read, then written back.
TakeId(t) ==
  /\ thread[t].at = "accepted"
  /\ thread' = [thread EXCEPT ![t].at = "numbered", ![t].n = nextClientId]
  /\ UNCHANGED <<acceptVars, readVars, pubVars, conn, clientsMutex, engineMutex, applied>>

BumpId(t) ==
  /\ thread[t].at = "numbered"
  /\ nextClientId' = thread[t].n + 1
  /\ clientId' = [clientId EXCEPT ![thread[t].peer] = thread[t].n]
  /\ thread' = [thread EXCEPT ![t].at = "listing"]
  /\ UNCHANGED <<main, accepting, clients, readVars, pubVars, conn,
                 clientsMutex, engineMutex, applied>>

MayList == clientsMutex = Nobody

ListClient(t) ==
  /\ thread[t].at = "listing" /\ MayList
  /\ clients' = Append(clients, thread[t].peer)
  /\ thread' = [thread EXCEPT ![t].at = "listed"]
  /\ UNCHANGED <<main, accepting, nextClientId, clientId, readVars, pubVars, conn,
                 clientsMutex, engineMutex, applied>>

\* session->start() and, a step later, startAccept.
StartSession(t) ==
  /\ thread[t].at = "listed"
  /\ reading' = [reading EXCEPT ![thread[t].peer] = TRUE]
  /\ thread' = [thread EXCEPT ![t].at = "started"]
  /\ UNCHANGED <<acceptVars, sent, taken, pubVars, conn, clientsMutex, engineMutex, applied>>

StartAccept(t) ==
  /\ thread[t].at = "started"
  /\ accepting' = TRUE
  /\ thread' = [thread EXCEPT ![t] = Idle]
  /\ UNCHANGED <<main, nextClientId, clients, clientId, readVars, pubVars, conn,
                 clientsMutex, engineMutex, applied>>

-----------------------------------------------------------------------------
(* The read handler.                                                       *)

ReadsDuringHandler == FALSE

ReadLine(t, k) ==
  /\ thread[t] = Idle /\ reading[k] /\ taken[k] < sent[k]
  /\ reading' = [reading EXCEPT ![k] = ReadsDuringHandler]
  /\ taken' = [taken EXCEPT ![k] = @ + 1]
  /\ thread' = [thread EXCEPT ![t] = Handler("calling", k, taken[k] + 1)]
  /\ UNCHANGED <<acceptVars, sent, pubVars, conn, clientsMutex, engineMutex, applied>>

\* cancelOrder or processOrder: the wait for the mutex, and the call.
CallEngine(t) ==
  /\ thread[t].at = "calling" /\ engineMutex = Nobody
  /\ engineMutex' = t
  /\ thread' = [thread EXCEPT ![t].at = "inEngine"]
  /\ UNCHANGED <<acceptVars, readVars, pubVars, conn, clientsMutex, applied>>

EngineDone(t) ==
  /\ thread[t].at = "inEngine"
  /\ applied' = Append(applied, [peer |-> thread[t].peer, n |-> thread[t].n])
  /\ engineMutex' = Nobody
  /\ thread' = [thread EXCEPT ![t].at = "returned"]
  /\ UNCHANGED <<acceptVars, readVars, pubVars, conn, clientsMutex>>

ReadsAfterHandler == TRUE

DoRead(t) ==
  /\ thread[t].at = "returned"
  /\ reading' = [reading EXCEPT ![thread[t].peer] = ReadsAfterHandler]
  /\ thread' = [thread EXCEPT ![t] = Idle]
  /\ UNCHANGED <<acceptVars, sent, taken, pubVars, conn, clientsMutex, engineMutex, applied>>

\* The handler gets an error and the chain of reads ends; lines that were on
\* their way may be lost.  The session stays in clients.
ReadFails(t, k) ==
  /\ thread[t] = Idle /\ reading[k] /\ conn[k] = "gone"
  /\ reading' = [reading EXCEPT ![k] = FALSE]
  /\ UNCHANGED <<acceptVars, sent, taken, pubVars, conn, thread,
                 clientsMutex, engineMutex, applied>>

-----------------------------------------------------------------------------
(* The publisher thread.                                                   *)

BeginWalk ==
  /\ main = "serving" /\ walk = 0 /\ clientsMutex = Nobody
  /\ clientsMutex' = Publisher /\ walk' = 1
  /\ UNCHANGED <<acceptVars, readVars, seen, conn, thread, engineMutex, applied>>

\* sendSnapshot: the engine is read under its mutex, here in one step, since
\* nothing else can happen under it.
SendSnapshot ==
  /\ walk \in DOMAIN clients /\ engineMutex = Nobody
  /\ seen' = [seen EXCEPT ![clients[walk]] = Len(applied)]
  /\ walk' = walk + 1
  /\ UNCHANGED <<acceptVars, readVars, conn, thread, clientsMutex, engineMutex, applied>>

EndWalk ==
  /\ walk > Len(clients)
  /\ walk' = 0 /\ clientsMutex' = Nobody
  /\ UNCHANGED <<acceptVars, readVars, seen, conn, thread, engineMutex, applied>>

Run(t) ==
  \/ TakeId(t) \/ BumpId(t) \/ StartSession(t) \/ StartAccept(t)
  \/ EngineDone(t) \/ DoRead(t)

Next ==
  \/ Serve \/ BindFails \/ Exited
  \/ \E k \in Peers : Connect(k) \/ Send(k) \/ Disconnect(k)
  \/ \E t \in Threads :
       \/ Run(t) \/ ListClient(t) \/ CallEngine(t)
       \/ \E k \in Peers : AcceptDone(t, k) \/ ReadLine(t, k) \/ ReadFails(t, k)
  \/ BeginWalk \/ SendSnapshot \/ EndWalk

Spec == Init /\ [][Next]_vars

\* Handlers run on; what is ready gets a thread of the pool, and of those that
\* wait for a mutex some get it, although others take it again and again (the
\* lines sent are bounded, so in the end each does).  Clients owe nothing, not
\* even to stay.
Fairness ==
  /\ WF_vars(\E t \in Threads : Run(t))
  /\ SF_vars(\E t \in Threads : ListClient(t))
  /\ SF_vars(\E t \in Threads : CallEngine(t))
  /\ SF_vars(\E t \in Threads, k \in Peers : AcceptDone(t, k) \/ ReadLine(t, k))
  /\ SF_vars(BeginWalk) /\ SF_vars(SendSnapshot) /\ WF_vars(EndWalk)

FairSpec == Spec /\ Fairness

-----------------------------------------------------------------------------

\* Sessions have different ids although nextClientId is a plain int that every
\* I/O thread may use: positions and snapshots are kept by this id.
ClientIdsUnique ==
  \A k, m \in Peers : k # m /\ clientId[k] = clientId[m] => clientId[k] = 0

\* The thread runs a read handler.
Serves(t) == thread[t].at \in {"calling", "inEngine", "returned"}

\* Never two read handlers of one session at once: readBuffer has no mutex, and
\* MatchingEngine takes the callers of the engine to be the clients.
OneHandlerPerSession ==
  \A t, u \in Threads : t # u /\ Serves(t) /\ Serves(u) => thread[t].peer # thread[u].peer

\* The engine executes the commands of one client in the order it sent them,
\* whatever threads they ran on: a cancel never overtakes its order.
CommandsInOrder ==
  \A i, j \in DOMAIN applied :
    (i < j /\ applied[i].peer = applied[j].peer) => applied[i].n < applied[j].n

\* The publisher walks over clients with iterators that an insertion would
\* invalidate: nobody inserts before the walk is over.
WalkUndisturbed == [][walk > 0 => clients' = clients]_vars

\* A command reaches the engine, and a later snapshot for its sender shows the
\* book with it, unless the sender leaves: nobody waits for ever, whoever
\* connects, sends, leaves or is being published to.
CommandsShown ==
  \A k \in Peers : \A n \in 1 .. MaxCommands[k] :
    sent[k] >= n ~>
      \/ conn[k] = "gone"
      \/ \E i \in 1 .. seen[k] : applied[i] = [peer |-> k, n |-> n]

=============================================================================
