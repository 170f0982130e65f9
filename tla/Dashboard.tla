----------------------------- MODULE Dashboard -----------------------------
(***************************************************************************)
(* The receiving side of a dashboard: the TCP stream, the listener thread  *)
(* that cuts it into snapshots (TcpClient::receiveMessage), the queued     *)
(* calls to the GUI thread, and the end of the window.  A snapshot is its  *)
(* version and travels in two parts, so that the stream can be cut inside  *)
(* one and a read can bring the beginning of the next one along.           *)
(***************************************************************************)
EXTENDS Integers, Sequences, SequencesExt

CONSTANTS
  MaxVersion,   \* bound: how often the book changes
  MaxInFlight,  \* bound: parts of snapshots on the way
  MaxPending    \* bound: queued calls the GUI thread has not run

VARIABLES
  version,        \* of the snapshot published last
  wire,           \* the parts on the way
  link,           \* "up", "closed" by the server, or "refused" at the start
  receiveBuffer,  \* parts read from the socket and not returned yet
  listener,       \* "receiving", "posting" or "ended"
  reply,          \* what receiveMessage returned last
  guiQueue,       \* the queued calls, each with its reply
  shown,          \* the reply the tables and labels were filled from
  running,
  gui             \* "running", "joining" in the destructor, "destroyed", "crashed"

netVars == <<version, wire, link>>
rcvVars == <<receiveBuffer, listener, reply>>
guiVars == <<shown, running, gui>>
vars == <<netVars, rcvVars, guiQueue, guiVars>>

Part(v, piece) == [version |-> v, piece |-> piece]

Whole(v) == <<Part(v, "head"), Part(v, "END_SNAPSHOT")>>

\* connect turns every exception into FALSE; the dashboard reports it and starts
\* its listener all the same.
ConnectOutcomes == {"up", "refused"}

Init ==
  /\ version = 0 /\ wire = <<>>
  /\ link \in ConnectOutcomes
  /\ receiveBuffer = <<>> /\ listener = "receiving" /\ reply = <<>>
  /\ guiQueue = <<>>
  /\ shown = Whole(0) /\ running = TRUE /\ gui = "running"

-----------------------------------------------------------------------------
(* Plausible bugs, each in place of the operator its comment names.        *)

\* Leftover: the buffer is emptied with every snapshot returned.
LeftoverDropped(buffer, n) == <<>>

\* Posted: the newest update is run first.
PostedInFront(queue, r) == <<r>> \o queue

\* GoesOn: no loop around the first snapshot.
GoesOnNever(isRunning) == FALSE

\* GoesOn: `running` is not looked at.
GoesOnAlways(isRunning) == TRUE

-----------------------------------------------------------------------------
(* The server and the network.                                             *)

\* A snapshot is published whether the book changed or not.
Publish ==
  /\ link = "up" /\ Len(wire) < MaxInFlight
  /\ \E v \in {version, version + 1} :
       /\ v <= MaxVersion
       /\ version' = v
       /\ wire' = wire \o Whole(v)
  /\ UNCHANGED <<link, rcvVars, guiQueue, guiVars>>

\* The server's process ends; what is on the way may be cut anywhere.
ServerEnds ==
  /\ link = "up"
  /\ link' = "closed"
  /\ \E n \in 0 .. Len(wire) : wire' = SubSeq(wire, 1, n)
  /\ UNCHANGED <<version, rcvVars, guiQueue, guiVars>>

-----------------------------------------------------------------------------
(* The listener thread: receiveMessage in a loop, until it throws.         *)

Ends(buffer) == {i \in DOMAIN buffer : buffer[i].piece = "END_SNAPSHOT"}

\* read_until: one more read, of as much as has arrived.
ReadSome ==
  /\ listener = "receiving" /\ Ends(receiveBuffer) = {}
  /\ \E n \in 1 .. Len(wire) :
       /\ receiveBuffer' = receiveBuffer \o SubSeq(wire, 1, n)
       /\ wire' = SubSeq(wire, n + 1, Len(wire))
  /\ UNCHANGED <<version, link, listener, reply, guiQueue, guiVars>>

Leftover(buffer, n) == SubSeq(buffer, n + 1, Len(buffer))

\* The lines up to the first END_SNAPSHOT; the rest stays for the next call.
TakeSnapshot ==
  /\ listener = "receiving" /\ Ends(receiveBuffer) # {}
  /\ LET n == Min(Ends(receiveBuffer))
     IN  /\ reply' = SubSeq(receiveBuffer, 1, n)
         /\ receiveBuffer' = Leftover(receiveBuffer, n)
  /\ listener' = "posting"
  /\ UNCHANGED <<netVars, guiQueue, guiVars>>

Posted(queue, r) == Append(queue, r)

GoesOn(isRunning) == isRunning

\* invokeMethod, then the loop's condition.  What is queued once the event loop
\* has ended is never run.
PostUpdate ==
  /\ listener = "posting"
  /\ IF gui = "running"
     THEN Len(guiQueue) < MaxPending /\ guiQueue' = Posted(guiQueue, reply)
     ELSE UNCHANGED guiQueue
  /\ listener' = IF GoesOn(running) THEN "receiving" ELSE "ended"
  /\ UNCHANGED <<netVars, receiveBuffer, reply, guiVars>>

\* No connection, or its end: receiveMessage throws, which ends the loop.
ReceiveThrows ==
  /\ listener = "receiving" /\ Ends(receiveBuffer) = {}
  /\ wire = <<>> /\ link # "up"
  /\ listener' = "ended"
  /\ UNCHANGED <<netVars, receiveBuffer, reply, guiQueue, guiVars>>

-----------------------------------------------------------------------------
(* The GUI thread.                                                         *)

\* The six update functions, one after the other with the same snapshot.
Update ==
  /\ gui = "running" /\ guiQueue # <<>>
  /\ shown' = Head(guiQueue)
  /\ guiQueue' = Tail(guiQueue)
  /\ UNCHANGED <<netVars, rcvVars, running, gui>>

\* A button sends on a connection that is gone: the exception of the write
\* leaves the slot, and the process ends.
ClickWithoutServer ==
  /\ gui = "running" /\ link # "up"
  /\ gui' = "crashed"
  /\ UNCHANGED <<netVars, rcvVars, guiQueue, shown, running>>

\* The event loop ends and the destructor begins.
CloseWindow ==
  /\ gui = "running"
  /\ running' = FALSE /\ gui' = "joining"
  /\ UNCHANGED <<netVars, rcvVars, guiQueue, shown>>

Join ==
  /\ gui = "joining" /\ listener = "ended"
  /\ gui' = "destroyed"
  /\ UNCHANGED <<netVars, rcvVars, guiQueue, shown, running>>

Listen ==
  /\ gui # "crashed"
  /\ ReadSome \/ TakeSnapshot \/ PostUpdate \/ ReceiveThrows

Next ==
  \/ Publish \/ ServerEnds \/ Listen
  \/ Update \/ ClickWithoutServer \/ CloseWindow \/ Join

Spec == Init /\ [][Next]_vars

\* Threads run on, and a server that is up publishes every 50 ms.  It need not
\* end, and nobody need close the window.
Fairness ==
  /\ WF_vars(Publish) /\ WF_vars(Listen)
  /\ WF_vars(Update) /\ WF_vars(Join)

FairSpec == Spec /\ Fairness

-----------------------------------------------------------------------------

\* However the stream is cut into reads, and wherever it breaks off, the tables
\* are only ever filled from one whole snapshot.
SnapshotsWhole ==
  \A r \in {shown} \cup Range(guiQueue) : \E v \in 0 .. version : r = Whole(v)

\* The view never goes back to an older state of the book.
ViewMovesForward == [][shown'[1].version >= shown[1].version]_vars

\* Each state of the book that was published, or a later one, is shown, unless
\* the server ends or the user goes.
ViewCatchesUp ==
  \A v \in 1 .. MaxVersion :
    version >= v ~> shown[1].version >= v \/ link # "up" \/ gui # "running"

\* The destructor returns although the listener blocks in a read and looks at
\* `running` only after one: the next snapshot, or the end of the connection,
\* sets it free.
WindowCloses == gui = "joining" ~> gui = "destroyed"

=============================================================================
