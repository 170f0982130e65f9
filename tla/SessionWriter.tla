--------------------------- MODULE SessionWriter ---------------------------
(***************************************************************************)
(* The write path of one ClientSession.  The publisher thread queues a     *)
(* snapshot (sendMessage) and starts a write when none is in progress; the *)
(* completion handler, on any I/O thread, takes the message off the queue  *)
(* and starts the next write.  sendMutex guards the queue and the flag,    *)
(* but doWrite reads the front of the queue outside of it.                 *)
(*                                                                         *)
(* That read races with a push.  It is harmless as long as push_back       *)
(* leaves the front alone; when the deque grows the table of its blocks    *)
(* (the library of the MSVC build frees the old table in the course of     *)
(* it) the read may return anything.                                       *)
(***************************************************************************)
EXTENDS Integers, Sequences, SequencesExt

CONSTANTS
  Garbage,      \* what is no snapshot
  MapSize,      \* blocks in the deque's first table: 8 in the MSVC library
  MaxMessages   \* bound: how many snapshots are published

ASSUME MapAssumption == MapSize \in Nat \ {0}
ASSUME GarbageAssumption == Garbage \notin Nat

VARIABLES
  outgoingMessages,
  mapSize,           \* blocks in the deque's table
  writeInProgress,
  sendMutex,         \* "free" or "publisher"; a handler takes it for one step
  publisher,         \* in sendMessage: "idle", "pushing" or "starting" a write
  published,         \* how many snapshots were queued; the last one's number
  writes,            \* the writes begun whose handler has not returned:
                     \* message, and "writing", "written", "failed" or "next"
                     \* (the handler is about to start the next write)
  sent,              \* history: the messages written, in order
  socketUp

queueVars == <<outgoingMessages, mapSize, writeInProgress>>
pubVars   == <<sendMutex, publisher, published>>
vars == <<queueVars, pubVars, writes, sent, socketUp>>

Write(message, phase) == [message |-> message, phase |-> phase]

Init ==
  /\ outgoingMessages = <<>>
  /\ mapSize = MapSize
  /\ writeInProgress = FALSE
  /\ sendMutex = "free"
  /\ publisher = "idle"
  /\ published = 0
  /\ writes = <<>>
  /\ sent = <<>>
  /\ socketUp = TRUE

-----------------------------------------------------------------------------
(* Plausible bugs, each in place of the operator its comment names.        *)

\* StartsWrite: the flag is not looked at.
StartsWriteAlways(inProgress) == TRUE

\* FlagAfterSuccess: the flag is never cleared.
FlagAfterSuccessKept(rest) == TRUE

\* FlagAfterFailure: the flag stays set after a failed write.
FlagAfterFailureKept == TRUE

\* WritePlace: the newest message is written.
WritePlaceLast(queue) == Len(queue)

-----------------------------------------------------------------------------
(* sendMessage, on the publisher's thread.                                 *)

StartsWrite(inProgress) == ~inProgress

LockToPush ==
  /\ publisher = "idle" /\ sendMutex = "free"
  /\ published < MaxMessages
  /\ publisher' = "pushing" /\ sendMutex' = "publisher"
  /\ UNCHANGED <<queueVars, published, writes, sent, socketUp>>

\* push_back finds its table full.
Grows == Len(outgoingMessages) + 1 >= mapSize

PushMessage ==
  /\ publisher = "pushing"
  /\ published' = published + 1
  /\ outgoingMessages' = Append(outgoingMessages, published + 1)
  /\ mapSize' = IF Grows THEN 2 * mapSize ELSE mapSize
  /\ writeInProgress' = TRUE
  /\ publisher' = IF StartsWrite(writeInProgress) THEN "starting" ELSE "idle"
  /\ sendMutex' = "free"
  /\ UNCHANGED <<writes, sent, socketUp>>

-----------------------------------------------------------------------------
(* doWrite: front() and async_write.                                       *)

WritePlace(queue) == 1

\* What front() returns; anything, while a push moves the deque's table.
Fronts ==
  {outgoingMessages[WritePlace(outgoingMessages)]} \cup
  (IF publisher = "pushing" /\ Grows THEN {Garbage} ELSE {})

StartWrite ==
  /\ publisher = "starting"
  /\ publisher' = "idle"
  /\ \E message \in Fronts : writes' = Append(writes, Write(message, "writing"))
  /\ UNCHANGED <<queueVars, sendMutex, published, sent, socketUp>>

StartNextWrite(i) ==
  /\ writes[i].phase = "next"
  /\ \E message \in Fronts : writes' = [writes EXCEPT ![i] = Write(message, "writing")]
  /\ UNCHANGED <<queueVars, pubVars, sent, socketUp>>

-----------------------------------------------------------------------------
(* The connection, and the completion handler.                             *)

Transmit(i) ==
  /\ writes[i].phase = "writing" /\ socketUp
  /\ sent' = Append(sent, writes[i].message)
  /\ writes' = [writes EXCEPT ![i].phase = "written"]
  /\ UNCHANGED <<queueVars, pubVars, socketUp>>

WriteFails(i) ==
  /\ writes[i].phase = "writing" /\ ~socketUp
  /\ writes' = [writes EXCEPT ![i].phase = "failed"]
  /\ UNCHANGED <<queueVars, pubVars, sent, socketUp>>

BreakSocket ==
  /\ socketUp
  /\ socketUp' = FALSE
  /\ UNCHANGED <<queueVars, pubVars, writes, sent>>

FlagAfterFailure == FALSE

\* The message stays at the front: the next push begins its write again.
HandleFailure(i) ==
  /\ writes[i].phase = "failed" /\ sendMutex = "free"
  /\ writeInProgress' = FlagAfterFailure
  /\ writes' = RemoveAt(writes, i)
  /\ UNCHANGED <<outgoingMessages, mapSize, pubVars, sent, socketUp>>

FlagAfterSuccess(rest) == rest # <<>>

HandleSuccess(i) ==
  /\ writes[i].phase = "written" /\ sendMutex = "free"
  /\ LET rest == Tail(outgoingMessages)
     IN  /\ outgoingMessages' = rest
         /\ writeInProgress' = FlagAfterSuccess(rest)
         /\ writes' = IF rest # <<>>
                      THEN [writes EXCEPT ![i].phase = "next"]
                      ELSE RemoveAt(writes, i)
  /\ UNCHANGED <<mapSize, pubVars, sent, socketUp>>

Handle == \E i \in DOMAIN writes : HandleFailure(i) \/ HandleSuccess(i)

Proceed ==
  \/ PushMessage
  \/ StartWrite
  \/ \E i \in DOMAIN writes : StartNextWrite(i) \/ Transmit(i) \/ WriteFails(i)

Next == LockToPush \/ BreakSocket \/ Proceed \/ Handle

Spec == Init /\ [][Next]_vars

\* Threads keep running and a connection that is up takes what is written (the
\* client reads).  A handler waits for a mutex that is taken again and again.
\* Nothing makes the publisher publish.
Fairness == WF_vars(Proceed) /\ SF_vars(Handle)

FairSpec == Spec /\ Fairness

-----------------------------------------------------------------------------

\* At most one write is in flight or about to be started, by whichever thread,
\* and while there is one its message (kept in the queue as the buffer of
\* async_write) is not taken off: front() is never called on an empty queue.
OneWriteInFlight ==
  /\ Len(writes) + (IF publisher = "starting" THEN 1 ELSE 0) <= 1
  /\ (writes # <<>> \/ publisher = "starting") => outgoingMessages # <<>>

\* The flag says exactly that somebody will look after the queue, and only a
\* dead connection leaves messages that nobody looks after.
NoLostWakeup ==
  /\ writeInProgress <=> (writes # <<>> \/ publisher = "starting")
  /\ ~writeInProgress /\ outgoingMessages # <<>> => ~socketUp

Channel == INSTANCE SnapshotChannel
  WITH delivered <- sent, broken <- ~socketUp, Torn <- Garbage, Backlog <- MapSize - 1

\* Snapshots leave in the order of their publication, each once and none skipped:
\* the queue, the flag and two threads do what a FIFO channel does.  One may be
\* torn, by the read of the queue's front outside of the mutex, but only when
\* the first table of the deque is all but full of snapshots that wait.
ImplementsChannel == Channel!Spec

\* And none waits for ever on a connection that is up.
DeliversAll == Channel!Fairness

=============================================================================
