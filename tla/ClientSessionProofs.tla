------------------------ MODULE ClientSessionProofs ------------------------
(***************************************************************************)
(* Proofs about ClientSession: the write path, for any number of snapshots *)
(* and any size of the deque's table, and the read path, for any texts     *)
(* typed into the dashboard.                                               *)
(***************************************************************************)
EXTENDS ClientSession, SequenceTheorems, TLAPS

-----------------------------------------------------------------------------
(* The write path.                                                         *)

WriteRecord ==
  [message : Nat \cup {Garbage}, phase : {"writing", "written", "failed", "next"}]

WriterType ==
  /\ outgoingMessages \in Seq(Nat)
  /\ mapSize \in Nat /\ mapSize >= MapSize
  /\ writeInProgress \in BOOLEAN /\ socketUp \in BOOLEAN
  /\ sendMutex \in {"free", "publisher"}
  /\ publisher \in {"idle", "pushing", "starting"}
  /\ published \in Nat
  /\ writes \in Seq(WriteRecord)
  /\ sent \in Seq(Nat \cup {Garbage})

\* The publisher pushes under the mutex.
PushesUnderMutex == publisher = "pushing" <=> sendMutex = "publisher"

\* Writes fail on dead connections only.
FailedMeansDown == \A i \in DOMAIN writes : writes[i].phase = "failed" => ~socketUp

\* OneWriteInFlight and NoLostWakeup are inductive together: that the flag is
\* set for as long as there is a write keeps the publisher from starting a second.
WriterInv ==
  /\ WriterType
  /\ PushesUnderMutex
  /\ FailedMeansDown
  /\ OneWriteInFlight
  /\ NoLostWakeup

\* The only write there is, and the queue without it.
LEMMA RemoveOnly ==
  ASSUME NEW S, NEW s \in Seq(S), Len(s) <= 1, NEW i \in DOMAIN s
  PROVE  i = 1 /\ Len(s) = 1 /\ RemoveAt(s, i) = <<>>
<1>1. DOMAIN s = 1 .. Len(s) /\ Len(s) \in Nat
  BY LenProperties
<1>2. i = 1 /\ Len(s) = 1
  BY <1>1
<1>3. SubSeq(s, 1, 0) = <<>> /\ SubSeq(s, 2, 1) = <<>>
  BY SubSeqEmpty
<1>4. RemoveAt(s, i) = <<>> \o <<>>
  BY <1>2, <1>3 DEF RemoveAt
<1> QED
  BY <1>2, <1>4

LEMMA WriterInit == Init => WriterInv
<1> SUFFICES ASSUME Init PROVE WriterInv
  OBVIOUS
<1> USE DEF Init
<1>1. WriterType
  <2>1. <<>> \in Seq(Nat) /\ <<>> \in Seq(WriteRecord) /\ <<>> \in Seq(Nat \cup {Garbage})
    BY EmptySeq
  <2>2. MapSize \in Nat /\ MapSize >= MapSize
    BY MapAssumption
  <2> QED
    BY <2>1, <2>2 DEF WriterType
<1>2. PushesUnderMutex /\ FailedMeansDown /\ OneWriteInFlight /\ NoLostWakeup
  BY DEF PushesUnderMutex, FailedMeansDown, OneWriteInFlight, NoLostWakeup
<1> QED
  BY <1>1, <1>2 DEF WriterInv

\* At most one write, and none while the publisher is about to start one.
LEMMA WritesAtMostOne ==
  ASSUME WriterInv
  PROVE  /\ Len(writes) \in Nat /\ Len(writes) <= 1 /\ DOMAIN writes = 1 .. Len(writes)
         /\ publisher = "starting" => writes = <<>>
         /\ writes # <<>> => Len(writes) = 1
         /\ \A i \in DOMAIN writes : writes[i] \in WriteRecord /\ i = 1
<1>1. Len(writes) \in Nat /\ DOMAIN writes = 1 .. Len(writes)
  BY LenProperties DEF WriterInv, WriterType
<1>2. Len(writes) <= 1 /\ (publisher = "starting" => Len(writes) = 0)
  BY <1>1 DEF WriterInv, OneWriteInFlight
<1>3. Len(writes) = 0 <=> writes = <<>>
  BY DEF WriterInv, WriterType
<1>4. \A i \in DOMAIN writes : writes[i] \in WriteRecord
  BY <1>1, ElementOfSeq DEF WriterInv, WriterType
<1> QED
  BY <1>1, <1>2, <1>3, <1>4

LEMMA WriterLock ==
  ASSUME WriterInv, LockToPush
  PROVE  WriterInv'
<1> USE DEF LockToPush, queueVars
<1>1. WriterType'
  BY DEF WriterInv, WriterType
<1>2. PushesUnderMutex' /\ FailedMeansDown'
  BY DEF WriterInv, PushesUnderMutex, FailedMeansDown
<1>3. OneWriteInFlight' /\ NoLostWakeup'
  BY DEF WriterInv, OneWriteInFlight, NoLostWakeup
<1> QED
  BY <1>1, <1>2, <1>3 DEF WriterInv

LEMMA WriterPush ==
  ASSUME WriterInv, PushMessage
  PROVE  WriterInv'
<1>1. /\ publisher = "pushing" /\ published' = published + 1
      /\ outgoingMessages' = Append(outgoingMessages, published + 1)
      /\ writeInProgress' = TRUE
      /\ sendMutex' = "free"
      /\ UNCHANGED <<writes, sent, socketUp>>
  BY DEF PushMessage
<1>2. /\ writeInProgress => publisher' = "idle"
      /\ ~writeInProgress => publisher' = "starting"
  BY DEF PushMessage, StartsWrite
<1>3. writeInProgress <=> writes # <<>>
  BY <1>1 DEF WriterInv, NoLostWakeup
<1>4. /\ outgoingMessages' \in Seq(Nat) /\ outgoingMessages' # <<>>
  BY <1>1 DEF WriterInv, WriterType
<1>5. mapSize' \in Nat /\ mapSize' >= MapSize
  BY MapAssumption DEF PushMessage, WriterInv, WriterType
<1>6. WriterType'
  BY <1>1, <1>2, <1>4, <1>5 DEF WriterInv, WriterType
<1>7. PushesUnderMutex' /\ FailedMeansDown'
  BY <1>1, <1>2 DEF WriterInv, PushesUnderMutex, FailedMeansDown
<1>8. OneWriteInFlight'
  <2>1. Len(writes) \in Nat /\ Len(writes) <= 1 /\ (writes = <<>> => Len(writes) = 0)
    BY WritesAtMostOne
  <2> QED
    BY <1>1, <1>2, <1>3, <1>4, <2>1 DEF OneWriteInFlight
<1>9. NoLostWakeup'
  BY <1>1, <1>2, <1>3 DEF NoLostWakeup
<1> QED
  BY <1>6, <1>7, <1>8, <1>9 DEF WriterInv

\* What a write reads at the front of the queue.
LEMMA FrontType ==
  ASSUME WriterInv, outgoingMessages # <<>>, NEW message \in Fronts
  PROVE  message \in Nat \cup {Garbage}
<1>1. outgoingMessages[1] \in Nat
  BY ElementOfSeq DEF WriterInv, WriterType
<1> QED
  BY <1>1 DEF Fronts, WritePlace

LEMMA WriterStart ==
  ASSUME WriterInv, StartWrite
  PROVE  WriterInv'
<1>1. PICK message \in Fronts : writes' = Append(writes, Write(message, "writing"))
  BY DEF StartWrite
<1>2. /\ publisher = "starting" /\ publisher' = "idle" /\ writes = <<>>
      /\ UNCHANGED <<queueVars, sendMutex, published, sent, socketUp>>
  BY WritesAtMostOne DEF StartWrite
<1>3. outgoingMessages # <<>>
  BY <1>2 DEF WriterInv, OneWriteInFlight
<1>4. Write(message, "writing") \in WriteRecord
  BY <1>3, FrontType DEF Write, WriteRecord
<1>5. /\ writes' \in Seq(WriteRecord) /\ Len(writes') = 1 /\ writes' # <<>>
      /\ writes'[1] = Write(message, "writing") /\ DOMAIN writes' = {1}
  BY <1>1, <1>2, <1>4
<1>6. WriterType'
  BY <1>2, <1>5 DEF WriterInv, WriterType, queueVars
<1>7. PushesUnderMutex'
  BY <1>2 DEF WriterInv, PushesUnderMutex
<1>8. FailedMeansDown'
  BY <1>5 DEF FailedMeansDown, Write
<1>9. OneWriteInFlight'
  BY <1>2, <1>3, <1>5 DEF OneWriteInFlight, queueVars
<1>10. NoLostWakeup'
  BY <1>2, <1>5 DEF WriterInv, NoLostWakeup, queueVars
<1> QED
  BY <1>6, <1>7, <1>8, <1>9, <1>10 DEF WriterInv

\* A step that gives the one write another phase, or its next message.
LEMMA WriterRewrite ==
  ASSUME WriterInv, NEW i \in DOMAIN writes, NEW w \in WriteRecord,
         writes' = [writes EXCEPT ![i] = w],
         w.phase = "failed" => ~socketUp,
         UNCHANGED <<queueVars, pubVars, socketUp>>,
         sent' \in Seq(Nat \cup {Garbage})
  PROVE  WriterInv'
<1>1. /\ writes # <<>> /\ Len(writes) = 1 /\ i = 1 /\ writes \in Seq(WriteRecord)
      /\ DOMAIN writes = {1}
  BY WritesAtMostOne DEF WriterInv, WriterType
<1>2. /\ writes' \in Seq(WriteRecord) /\ Len(writes') = 1 /\ writes'[1] = w
      /\ DOMAIN writes' = {1} /\ writes' # <<>>
  BY <1>1, ExceptSeq
<1>3. WriterType'
  BY <1>2 DEF WriterInv, WriterType, queueVars, pubVars
<1>4. PushesUnderMutex' /\ FailedMeansDown'
  BY <1>2 DEF WriterInv, PushesUnderMutex, FailedMeansDown, pubVars
<1>5. OneWriteInFlight' /\ NoLostWakeup'
  BY <1>1, <1>2 DEF WriterInv, OneWriteInFlight, NoLostWakeup, queueVars, pubVars
<1> QED
  BY <1>3, <1>4, <1>5 DEF WriterInv

LEMMA WriterNextWrite ==
  ASSUME WriterInv, NEW i \in DOMAIN writes, StartNextWrite(i)
  PROVE  WriterInv'
<1>1. PICK message \in Fronts : writes' = [writes EXCEPT ![i] = Write(message, "writing")]
  BY DEF StartNextWrite
<1>2. outgoingMessages # <<>>
  BY WritesAtMostOne DEF WriterInv, OneWriteInFlight
<1>3. /\ Write(message, "writing") \in WriteRecord
      /\ Write(message, "writing").phase = "writing"
  BY <1>2, FrontType DEF Write, WriteRecord
<1>4. sent' \in Seq(Nat \cup {Garbage})
  BY DEF StartNextWrite, WriterInv, WriterType
<1> QED
  BY <1>1, <1>3, <1>4, WriterRewrite DEF StartNextWrite

LEMMA WriterTransmit ==
  ASSUME WriterInv, NEW i \in DOMAIN writes, Transmit(i) \/ WriteFails(i)
  PROVE  WriterInv'
<1>1. writes[i] \in WriteRecord
  BY WritesAtMostOne
<1>2. PICK phase \in {"written", "failed"} :
        /\ writes' = [writes EXCEPT ![i].phase = phase]
        /\ phase = "failed" => ~socketUp
        /\ sent' = sent \/ sent' = Append(sent, writes[i].message)
        /\ UNCHANGED <<queueVars, pubVars, socketUp>>
  BY DEF Transmit, WriteFails
<1> DEFINE w == [writes[i] EXCEPT !.phase = phase]
<1>3. /\ w \in WriteRecord /\ w.phase = phase
      /\ writes[i].message \in Nat \cup {Garbage}
  BY <1>1 DEF WriteRecord
<1>4. writes' = [writes EXCEPT ![i] = w]
  BY <1>2
<1>5. sent' \in Seq(Nat \cup {Garbage})
  <2>1. sent \in Seq(Nat \cup {Garbage})
    BY DEF WriterInv, WriterType
  <2> QED
    BY <1>2, <1>3, <2>1, AppendProperties
<1> HIDE DEF w
<1> QED
  BY <1>2, <1>3, <1>4, <1>5, WriterRewrite

LEMMA WriterBreak ==
  ASSUME WriterInv, BreakSocket
  PROVE  WriterInv'
BY DEF BreakSocket, queueVars, pubVars, WriterInv, WriterType, PushesUnderMutex,
       FailedMeansDown, OneWriteInFlight, NoLostWakeup

LEMMA WriterFailure ==
  ASSUME WriterInv, NEW i \in DOMAIN writes, HandleFailure(i)
  PROVE  WriterInv'
<1>1. /\ writes' = <<>> /\ writeInProgress' = FALSE
      /\ UNCHANGED <<outgoingMessages, mapSize, pubVars, sent, socketUp>>
      /\ ~socketUp
  BY WritesAtMostOne, RemoveOnly
     DEF HandleFailure, FlagAfterFailure, WriterInv, WriterType, FailedMeansDown
<1>2. publisher # "starting"
  BY WritesAtMostOne DEF HandleFailure
<1>3. WriterType'
  <2>1. <<>> \in Seq(WriteRecord)
    BY EmptySeq
  <2> QED
    BY <1>1, <2>1 DEF WriterInv, WriterType, pubVars
<1>4. PushesUnderMutex' /\ FailedMeansDown'
  BY <1>1 DEF WriterInv, PushesUnderMutex, FailedMeansDown, pubVars
<1>5. OneWriteInFlight' /\ NoLostWakeup'
  BY <1>1, <1>2 DEF WriterInv, OneWriteInFlight, NoLostWakeup, pubVars
<1> QED
  BY <1>3, <1>4, <1>5 DEF WriterInv

\* The handler of a successful write: what it leaves.
LEMMA AfterSuccess ==
  ASSUME WriterInv, NEW i \in DOMAIN writes, HandleSuccess(i)
  PROVE  /\ i = 1 /\ Len(writes) = 1 /\ writes[i] \in WriteRecord
         /\ outgoingMessages # <<>> /\ outgoingMessages' = Tail(outgoingMessages)
         /\ Tail(outgoingMessages) \in Seq(Nat)
         /\ writeInProgress' = (outgoingMessages' # <<>>)
         /\ outgoingMessages' # <<>> => writes' = [writes EXCEPT ![i].phase = "next"]
         /\ outgoingMessages' = <<>> => writes' = <<>>
<1>1. i = 1 /\ Len(writes) = 1 /\ writes[i] \in WriteRecord /\ RemoveAt(writes, i) = <<>>
  BY WritesAtMostOne, RemoveOnly DEF WriterInv, WriterType
<1>2. outgoingMessages # <<>> /\ outgoingMessages \in Seq(Nat)
  BY <1>1 DEF WriterInv, WriterType, OneWriteInFlight
<1>3. Tail(outgoingMessages) \in Seq(Nat)
  BY <1>2, HeadTailProperties
<1>4. outgoingMessages' = Tail(outgoingMessages)
  BY DEF HandleSuccess
<1>5. writeInProgress' = (outgoingMessages' # <<>>)
  BY <1>4, Zenon DEF HandleSuccess, FlagAfterSuccess
<1>6. writes' = IF outgoingMessages' # <<>> THEN [writes EXCEPT ![i].phase = "next"]
                                            ELSE <<>>
  BY <1>1, <1>4, Zenon DEF HandleSuccess
<1> QED
  BY <1>1, <1>2, <1>3, <1>4, <1>5, <1>6, Zenon

LEMMA WriterSuccess ==
  ASSUME WriterInv, NEW i \in DOMAIN writes, HandleSuccess(i)
  PROVE  WriterInv'
<1>1. /\ i = 1 /\ Len(writes) = 1 /\ writes[i] \in WriteRecord
      /\ outgoingMessages' \in Seq(Nat)
      /\ writeInProgress' = (outgoingMessages' # <<>>)
      /\ outgoingMessages' # <<>> => writes' = [writes EXCEPT ![i].phase = "next"]
      /\ outgoingMessages' = <<>> => writes' = <<>>
  BY AfterSuccess
<1>2. /\ UNCHANGED <<mapSize, pubVars, sent, socketUp>>
      /\ publisher # "starting" /\ publisher' # "starting"
  BY WritesAtMostOne DEF HandleSuccess, pubVars
<1>3. ASSUME outgoingMessages' # <<>>
      PROVE  /\ writes' \in Seq(WriteRecord) /\ Len(writes') = 1 /\ writes' # <<>>
             /\ DOMAIN writes' = {1} /\ writes'[1].phase = "next"
  <2> DEFINE w == [writes[i] EXCEPT !.phase = "next"]
  <2>1. w \in WriteRecord /\ w.phase = "next"
    BY <1>1 DEF WriteRecord
  <2>2. writes' = [writes EXCEPT ![i] = w] /\ writes \in Seq(WriteRecord)
    BY <1>1, <1>3 DEF WriterInv, WriterType
  <2> HIDE DEF w
  <2> QED
    BY <1>1, <2>1, <2>2, ExceptSeq, LenProperties
<1>4. ASSUME outgoingMessages' = <<>>
      PROVE  writes' = <<>> /\ writes' \in Seq(WriteRecord) /\ DOMAIN writes' = {}
  BY <1>1, <1>4
<1>5. writeInProgress' \in BOOLEAN /\ (writeInProgress' <=> outgoingMessages' # <<>>)
  BY <1>1, Zenon
<1>6. WriterType'
  BY <1>1, <1>2, <1>3, <1>4, <1>5 DEF WriterInv, WriterType, pubVars
<1>7. PushesUnderMutex'
  BY <1>2 DEF WriterInv, PushesUnderMutex, pubVars
<1>8. FailedMeansDown'
  BY <1>3, <1>4 DEF FailedMeansDown
<1>9. OneWriteInFlight'
  <2>1. Len(writes') <= 1 /\ (writes' # <<>> => outgoingMessages' # <<>>)
    <3>1. CASE outgoingMessages' # <<>>
      <4>1. Len(writes') = 1
        BY <1>3, <3>1
      <4> QED
        BY <3>1, <4>1
    <3>2. CASE outgoingMessages' = <<>>
      <4>1. writes' = <<>> /\ Len(<<>>) = 0
        BY <1>4, <3>2, EmptySeq
      <4> QED
        BY <4>1
    <3> QED
      BY <3>1, <3>2
  <2>2. Len(writes') \in Nat
    BY <1>6, LenProperties DEF WriterType
  <2> QED
    BY <1>2, <2>1, <2>2 DEF OneWriteInFlight
<1>10. NoLostWakeup'
  BY <1>2, <1>3, <1>4, <1>5 DEF NoLostWakeup
<1> QED
  BY <1>6, <1>7, <1>8, <1>9, <1>10 DEF WriterInv

LEMMA WriterNext == WriterInv /\ [Next]_vars => WriterInv'
<1> SUFFICES ASSUME WriterInv, [Next]_vars PROVE WriterInv'
  OBVIOUS
<1>1. ASSUME UNCHANGED vars PROVE WriterInv'
  BY <1>1 DEF vars, queueVars, pubVars, WriterInv, WriterType, PushesUnderMutex,
              FailedMeansDown, OneWriteInFlight, NoLostWakeup
<1> QED
  BY <1>1, WriterLock, WriterBreak, WriterPush, WriterStart, WriterNextWrite,
     WriterTransmit, WriterFailure, WriterSuccess DEF Next, Proceed, Handle

-----------------------------------------------------------------------------
(* A session: the two paths in one process.                                *)

\* A step of the session is one of the write path, where the end of the process
\* is a connection that breaks, ...
LEMMA WriteSteps == WriterInv /\ [SessionNext]_sessionVars => [Next]_vars
<1> SUFFICES ASSUME WriterInv, [SessionNext]_sessionVars PROVE [Next]_vars
  OBVIOUS
<1>1. ASSUME ConnectionEnds PROVE [Next]_vars
  <2>1. CASE socketUp
    BY <1>1, <2>1 DEF ConnectionEnds, Next, BreakSocket
  <2>2. CASE socketUp = FALSE
    BY <1>1, <2>2 DEF ConnectionEnds, vars
  <2> QED
    BY <2>1, <2>2 DEF WriterInv, WriterType
<1> QED
  BY <1>1 DEF SessionNext, sessionVars

\* ... and one of the read path.
LEMMA ReadSteps == [SessionNext]_sessionVars => [Entry!Next]_(Entry!vars)
BY DEF SessionNext, sessionVars, ProcessLives, entryVars, Entry!vars

LEMMA WriterInvariant == SessionSpec => []WriterInv
<1>1. SessionInit => WriterInv
  BY WriterInit DEF SessionInit
<1>2. WriterInv /\ [SessionNext]_sessionVars => WriterInv'
  BY WriterNext, WriteSteps
<1> QED
  BY <1>1, <1>2, PTL DEF SessionSpec

\* Never two writes at once, by whichever thread, and no front() of an empty
\* queue: for any number of snapshots, any load and failures at any time.
THEOREM WritesDoNotOverlap == SessionSpec => []OneWriteInFlight
<1>1. WriterInv => OneWriteInFlight
  BY DEF WriterInv
<1> QED
  BY <1>1, WriterInvariant, PTL

\* The flag never lies: no snapshot is left in the queue of a live connection
\* with nobody to write it.
THEOREM WakeupsAreNotLost == SessionSpec => []NoLostWakeup
<1>1. WriterInv => NoLostWakeup
  BY DEF WriterInv
<1> QED
  BY <1>1, WriterInvariant, PTL

-----------------------------------------------------------------------------
(* The write path implements the channel.                                  *)

\* How many snapshots were taken off the queue.
Popped == published - Len(outgoingMessages)

Phase == IF writes = <<>> THEN "none" ELSE writes[1].phase

\* What the write in flight may carry: the front of the queue or, when so many
\* snapshots wait that a push may have found the deque's table full, anything.
Carried ==
  {Popped + 1} \cup (IF Len(outgoingMessages) >= MapSize - 1 THEN {Garbage} ELSE {})

\* The queue holds the last snapshots published, in order; for each one taken off
\* the queue there was one transmission, and one for its front once its write is
\* through.
DeliveryInv ==
  /\ Popped \in Nat
  /\ \A k \in 1 .. Len(outgoingMessages) : outgoingMessages[k] = Popped + k
  /\ Len(sent) = Popped + (IF Phase = "written" THEN 1 ELSE 0)
  /\ Phase = "writing" => writes[1].message \in Carried

LEMMA DeliveryInit == Init => DeliveryInv
<1> SUFFICES ASSUME Init PROVE DeliveryInv
  OBVIOUS
<1>1. Len(outgoingMessages) = 0 /\ Len(sent) = 0 /\ published = 0 /\ Phase = "none"
  BY DEF Init, Phase
<1> QED
  BY <1>1 DEF DeliveryInv, Popped, Carried

LEMMA DeliveryStutter ==
  ASSUME DeliveryInv, UNCHANGED <<outgoingMessages, published, sent, writes>>
  PROVE  DeliveryInv'
BY DEF DeliveryInv, Popped, Phase, Carried

LEMMA DeliveryPush ==
  ASSUME WriterInv, DeliveryInv, PushMessage
  PROVE  DeliveryInv'
<1>1. /\ outgoingMessages' = Append(outgoingMessages, published + 1)
      /\ published' = published + 1 /\ UNCHANGED <<writes, sent>>
      /\ outgoingMessages \in Seq(Nat) /\ published \in Nat
  BY DEF PushMessage, WriterInv, WriterType
<1>2. /\ Len(outgoingMessages) \in Nat
      /\ Len(outgoingMessages') = Len(outgoingMessages) + 1
      /\ \A k \in 1 .. Len(outgoingMessages) : outgoingMessages'[k] = outgoingMessages[k]
      /\ outgoingMessages'[Len(outgoingMessages) + 1] = published + 1
  BY <1>1, AppendProperties, LenProperties
<1>3. Popped' = Popped
  BY <1>1, <1>2 DEF Popped
<1>4. ASSUME NEW k \in 1 .. Len(outgoingMessages')
      PROVE  outgoingMessages'[k] = Popped + k
  <2>1. CASE k \in 1 .. Len(outgoingMessages)
    BY <1>2, <2>1 DEF DeliveryInv
  <2>2. CASE k = Len(outgoingMessages) + 1
    BY <1>1, <1>2, <2>2 DEF Popped
  <2> QED
    BY <1>2, <2>1, <2>2
<1>5. Phase' = Phase
  BY <1>1 DEF Phase
<1>6. \A message \in Carried : message \in Carried'
  BY <1>2, <1>3, MapAssumption DEF Carried
<1> QED
  BY <1>1, <1>3, <1>4, <1>5, <1>6 DEF DeliveryInv

\* The front of the queue is the first snapshot not taken off it.
LEMMA FrontIsNext ==
  ASSUME WriterInv, DeliveryInv, writes # <<>> \/ publisher = "starting"
  PROVE  /\ outgoingMessages # <<>> /\ Len(outgoingMessages) \in Nat \ {0}
         /\ outgoingMessages[1] = Popped + 1
         /\ Popped + 1 <= published
<1>1. outgoingMessages # <<>> /\ outgoingMessages \in Seq(Nat) /\ published \in Nat
  BY DEF WriterInv, WriterType, OneWriteInFlight
<1>2. Len(outgoingMessages) \in Nat \ {0}
  BY <1>1, EmptySeq
<1>3. outgoingMessages[1] = Popped + 1
  BY <1>2 DEF DeliveryInv
<1>4. Popped + 1 <= published
  BY <1>1, <1>2 DEF Popped
<1> QED
  BY <1>1, <1>2, <1>3, <1>4

LEMMA DeliveryStart ==
  ASSUME WriterInv, DeliveryInv, StartWrite
  PROVE  DeliveryInv'
<1>1. /\ publisher = "starting" /\ writes = <<>>
      /\ UNCHANGED <<outgoingMessages, published, sent>>
  BY WritesAtMostOne DEF StartWrite, queueVars
<1>2. Fronts = {Popped + 1}
  BY <1>1, FrontIsNext DEF Fronts, WritePlace
<1>3. writes' = Append(writes, Write(Popped + 1, "writing"))
  BY <1>2 DEF StartWrite
<1>4. writes' # <<>> /\ writes'[1] = Write(Popped + 1, "writing")
  BY <1>1, <1>3
<1>5. Phase' = "writing" /\ Phase = "none"
  BY <1>1, <1>4 DEF Phase, Write
<1>6. writes'[1].message \in Carried'
  BY <1>1, <1>4 DEF Carried, Popped, Write
<1> QED
  BY <1>1, <1>5, <1>6 DEF DeliveryInv, Popped

LEMMA DeliveryNextWrite ==
  ASSUME WriterInv, DeliveryInv, NEW i \in DOMAIN writes, StartNextWrite(i)
  PROVE  DeliveryInv'
<1>1. /\ i = 1 /\ writes # <<>> /\ DOMAIN writes = {1} /\ Phase = "next"
      /\ UNCHANGED <<outgoingMessages, published, sent>>
  BY WritesAtMostOne DEF StartNextWrite, queueVars, pubVars, Phase
<1>2. Fronts \subseteq Carried
  <2>1. outgoingMessages[1] = Popped + 1 /\ Len(outgoingMessages) \in Nat
    BY <1>1, FrontIsNext
  <2>2. Grows => Len(outgoingMessages) >= MapSize - 1
    BY <2>1, MapAssumption DEF Grows, WriterInv, WriterType
  <2> QED
    BY <2>1, <2>2 DEF Fronts, WritePlace, Carried
<1>3. PICK message \in Fronts : writes' = [writes EXCEPT ![i] = Write(message, "writing")]
  BY DEF StartNextWrite
<1>4. writes' # <<>> /\ writes'[1] = Write(message, "writing")
  BY <1>1, <1>3
<1>5. Phase' = "writing"
  BY <1>4 DEF Phase, Write
<1>6. writes'[1].message \in Carried'
  BY <1>1, <1>2, <1>4 DEF Carried, Popped, Write
<1> QED
  BY <1>1, <1>5, <1>6 DEF DeliveryInv, Popped

\* A transmission hands over the next snapshot, or a torn one out of a backlog.
LEMMA TransmitsNext ==
  ASSUME WriterInv, DeliveryInv, NEW i \in DOMAIN writes, Transmit(i)
  PROVE  /\ socketUp /\ Phase = "writing" /\ Phase' = "written"
         /\ \E snapshot \in Channel!Nexts : sent' = Append(sent, snapshot)
         /\ Len(sent') = Len(sent) + 1
         /\ Len(sent) = Popped /\ Len(sent) < published
         /\ UNCHANGED <<outgoingMessages, published, socketUp>>
<1>1. /\ i = 1 /\ writes # <<>> /\ DOMAIN writes = {1} /\ writes[1] \in WriteRecord
      /\ Phase = "writing" /\ socketUp
      /\ sent' = Append(sent, writes[1].message)
      /\ writes' = [writes EXCEPT ![1].phase = "written"]
      /\ UNCHANGED <<outgoingMessages, published, socketUp>>
  <2>1. i = 1 /\ writes # <<>> /\ DOMAIN writes = {1} /\ writes[1] \in WriteRecord
    BY WritesAtMostOne
  <2>2. /\ writes[1].phase = "writing" /\ socketUp
        /\ sent' = Append(sent, writes[1].message)
        /\ writes' = [writes EXCEPT ![1].phase = "written"]
        /\ UNCHANGED <<outgoingMessages, published, socketUp>>
    BY <2>1 DEF Transmit, queueVars, pubVars
  <2> QED
    BY <2>1, <2>2 DEF Phase
<1>2. Len(sent) = Popped /\ writes[1].message \in Carried
  BY <1>1 DEF DeliveryInv
<1>3. /\ Popped + 1 <= published /\ Popped \in Nat /\ published \in Nat
      /\ Len(outgoingMessages) = published - Popped
  <2>1. Popped + 1 <= published /\ Len(outgoingMessages) \in Nat
    BY <1>1, FrontIsNext
  <2> QED
    BY <2>1 DEF DeliveryInv, WriterInv, WriterType, Popped
<1>4. Phase' = "written"
  <2>1. writes' # <<>> /\ writes'[1].phase = "written"
    BY <1>1 DEF WriteRecord
  <2> QED
    BY <2>1 DEF Phase
<1>5. Len(sent') = Len(sent) + 1
  <2>1. sent \in Seq(Nat \cup {Garbage}) /\ writes[1].message \in Nat \cup {Garbage}
    BY <1>1 DEF WriterInv, WriterType, WriteRecord
  <2> QED
    BY <1>1, <2>1, AppendProperties
<1>6. writes[1].message \in Channel!Nexts
  BY <1>2, <1>3 DEF Carried, Channel!Nexts
<1> QED
  BY <1>1, <1>2, <1>3, <1>4, <1>5, <1>6

LEMMA DeliveryTransmit ==
  ASSUME WriterInv, DeliveryInv, NEW i \in DOMAIN writes, Transmit(i)
  PROVE  DeliveryInv'
BY TransmitsNext DEF DeliveryInv, Popped

LEMMA DeliveryFails ==
  ASSUME WriterInv, DeliveryInv, NEW i \in DOMAIN writes,
         WriteFails(i) \/ HandleFailure(i)
  PROVE  DeliveryInv'
<1>1. /\ i = 1 /\ writes # <<>> /\ DOMAIN writes = {1} /\ writes[1] \in WriteRecord
      /\ writes \in Seq(WriteRecord) /\ Len(writes) <= 1
      /\ UNCHANGED <<outgoingMessages, published, sent>>
  BY WritesAtMostOne
     DEF WriteFails, HandleFailure, queueVars, pubVars, WriterInv, WriterType
<1>2. Phase \in {"writing", "failed"}
  BY <1>1 DEF Phase, WriteFails, HandleFailure
<1>3. Phase' \in {"none", "failed"}
  <2>1. CASE WriteFails(i)
    <3>1. writes' = [writes EXCEPT ![1].phase = "failed"]
      BY <1>1, <2>1 DEF WriteFails
    <3>2. writes' # <<>> /\ writes'[1].phase = "failed"
      BY <1>1, <3>1 DEF WriteRecord
    <3> QED
      BY <3>2 DEF Phase
  <2>2. CASE HandleFailure(i)
    BY <1>1, <2>2, RemoveOnly DEF HandleFailure, Phase
  <2> QED
    BY <2>1, <2>2
<1> QED
  BY <1>1, <1>2, <1>3 DEF DeliveryInv, Popped

LEMMA DeliverySuccess ==
  ASSUME WriterInv, DeliveryInv, NEW i \in DOMAIN writes, HandleSuccess(i)
  PROVE  DeliveryInv' /\ Popped' = Popped + 1
<1>1. /\ i = 1 /\ Len(writes) = 1 /\ writes[1] \in WriteRecord /\ DOMAIN writes = {1}
      /\ outgoingMessages # <<>> /\ outgoingMessages' = Tail(outgoingMessages)
      /\ outgoingMessages' # <<>> => writes' = [writes EXCEPT ![1].phase = "next"]
      /\ outgoingMessages' = <<>> => writes' = <<>>
      /\ published' = published /\ sent' = sent
      /\ writes[1].phase = "written" /\ writes # <<>>
  <2>1. /\ i = 1 /\ Len(writes) = 1 /\ writes[i] \in WriteRecord
        /\ outgoingMessages # <<>> /\ outgoingMessages' = Tail(outgoingMessages)
        /\ outgoingMessages' # <<>> => writes' = [writes EXCEPT ![i].phase = "next"]
        /\ outgoingMessages' = <<>> => writes' = <<>>
    BY AfterSuccess
  <2>2. DOMAIN writes = {1} /\ writes # <<>>
    BY <2>1, WritesAtMostOne
  <2>3. published' = published /\ sent' = sent /\ writes[i].phase = "written"
    BY DEF HandleSuccess, pubVars
  <2> QED
    BY <2>1, <2>2, <2>3
<1>2. /\ outgoingMessages \in Seq(Nat) /\ published \in Nat
  BY DEF WriterInv, WriterType
<1>3. /\ Len(outgoingMessages) \in Nat \ {0}
      /\ Len(outgoingMessages') = Len(outgoingMessages) - 1
      /\ \A k \in 1 .. Len(outgoingMessages') : outgoingMessages'[k] = outgoingMessages[k + 1]
  BY <1>1, <1>2, HeadTailProperties, EmptySeq
<1>4. Popped' = Popped + 1 /\ Popped \in Nat
  BY <1>1, <1>2, <1>3 DEF Popped, DeliveryInv
<1>5. \A k \in 1 .. Len(outgoingMessages') : outgoingMessages'[k] = Popped' + k
  BY <1>3, <1>4 DEF DeliveryInv
<1>6. Phase = "written"
  BY <1>1 DEF Phase
<1>7. Phase' \in {"none", "next"}
  <2>1. CASE outgoingMessages' # <<>>
    <3>1. writes' = [writes EXCEPT ![1].phase = "next"]
      BY <1>1, <2>1
    <3>2. writes' # <<>> /\ writes'[1].phase = "next"
      BY <1>1, <3>1 DEF WriteRecord
    <3> QED
      BY <3>2 DEF Phase
  <2>2. CASE outgoingMessages' = <<>>
    BY <1>1, <2>2 DEF Phase
  <2> QED
    BY <2>1, <2>2
<1> QED
  BY <1>1, <1>4, <1>5, <1>6, <1>7 DEF DeliveryInv

LEMMA DeliveryNext == WriterInv /\ DeliveryInv /\ [Next]_vars => DeliveryInv'
<1> SUFFICES ASSUME WriterInv, DeliveryInv, [Next]_vars PROVE DeliveryInv'
  OBVIOUS
<1>1. ASSUME LockToPush \/ BreakSocket \/ UNCHANGED vars PROVE DeliveryInv'
  <2>1. UNCHANGED <<outgoingMessages, published, sent, writes>>
    BY <1>1 DEF LockToPush, BreakSocket, vars, queueVars, pubVars
  <2> QED
    BY <2>1, DeliveryStutter
<1> QED
  BY <1>1, DeliveryPush, DeliveryStart, DeliveryNextWrite, DeliveryTransmit,
     DeliveryFails, DeliverySuccess DEF Next, Proceed, Handle

LEMMA ChannelStep == WriterInv /\ DeliveryInv /\ [Next]_vars => [Channel!Next]_(Channel!chvars)
<1> SUFFICES ASSUME WriterInv, DeliveryInv, [Next]_vars
             PROVE  [Channel!Next]_(Channel!chvars)
  OBVIOUS
<1> USE DEF Channel!Next, Channel!chvars
<1>1. ASSUME PushMessage PROVE Channel!Publish
  BY <1>1 DEF PushMessage, Channel!Publish
<1>2. ASSUME NEW i \in DOMAIN writes, Transmit(i) PROVE Channel!Deliver
  BY <1>2, TransmitsNext DEF Channel!Deliver
<1>3. ASSUME BreakSocket PROVE Channel!Break
  BY <1>3, Zenon DEF BreakSocket, Channel!Break, pubVars
<1>4. ASSUME LockToPush \/ StartWrite \/ UNCHANGED vars PROVE UNCHANGED Channel!chvars
  BY <1>4 DEF LockToPush, StartWrite, vars, queueVars, pubVars
<1>5. ASSUME NEW i \in DOMAIN writes,
             StartNextWrite(i) \/ WriteFails(i) \/ HandleFailure(i) \/ HandleSuccess(i)
      PROVE  UNCHANGED Channel!chvars
  BY <1>5 DEF StartNextWrite, WriteFails, HandleFailure, HandleSuccess, queueVars, pubVars
<1> QED
  BY <1>1, <1>2, <1>3, <1>4, <1>5 DEF Next, Proceed, Handle

\* For any number of snapshots, any load and failures at any time, a session
\* delivers the snapshots in the order of their publication, each once, none
\* skipped; and none torn but with as many waiting as the deque's first table
\* has blocks, less one.
THEOREM SessionImplementsChannel == SessionSpec => ImplementsChannel
<1>1. SessionInit => DeliveryInv
  BY DeliveryInit DEF SessionInit
<1>2. WriterInv /\ DeliveryInv /\ [SessionNext]_sessionVars => DeliveryInv'
  BY DeliveryNext, WriteSteps
<1>3. WriterInv /\ DeliveryInv /\ [SessionNext]_sessionVars => [Channel!Next]_(Channel!chvars)
  BY ChannelStep, WriteSteps
<1>4. SessionInit => Channel!Init
  BY DEF SessionInit, Init, Channel!Init
<1> QED
  BY <1>1, <1>2, <1>3, <1>4, WriterInvariant, PTL
     DEF SessionSpec, ImplementsChannel, Channel!Spec

-----------------------------------------------------------------------------
(* The read path.                                                          *)

\* The lines the dashboard makes: an order of four fields or a cancel of two.
OrderPieces(side, quantity, price) ==
  <<Entry!Name(side), Entry!Name("AAPL"), Entry!Integer(quantity), Entry!Decimal(price)>>
CancelPieces(id) == <<Entry!Name("CANCEL"), Entry!Integer(id)>>

Sides == {"BUY", "SELL", "MKT_BUY", "MKT_SELL"}

OrderLines ==
  {OrderPieces(side, quantity, price) : side \in Sides, quantity \in Entry!Ints, price \in Int}
CancelLines == {CancelPieces(id) : id \in Entry!Ints}
Lines == OrderLines \cup CancelLines

Entries ==
  [what : {"BUY", "SELL", "MARKET BUY", "MARKET SELL", "CANCEL"},
   number : NumberTexts, price : PriceTexts \cup {0}]

\* Whatever was entered is on its way or has become the call it asks for.
EntryInv ==
  /\ LinesParse
  /\ entered \in Seq(Entries)
  /\ wire \in Seq(Lines)
  /\ calls \in Seq({Entry!CallOf(line) : line \in Lines})
  /\ Len(entered) = Len(calls) + Len(wire)
  /\ EngineGetsWhatWasEntered
  /\ \A k \in DOMAIN wire : Entry!Agree(entered[Len(calls) + k], Entry!CallOf(wire[k]))

\* What is read of an order: nothing throws, the quantity is the int printed and
\* the price the decimal printed.
LEMMA OrderIsRead ==
  ASSUME NEW side \in Sides, NEW quantity \in Entry!Ints, NEW price \in Int
  PROVE  /\ ~Entry!Throws(OrderPieces(side, quantity, price))
         /\ Entry!CallOf(OrderPieces(side, quantity, price)) =
              [call |-> "processOrder", type |-> IF side = "BUY" THEN "BUY" ELSE "SELL",
               number |-> quantity, price |-> price]
<1> DEFINE line == OrderPieces(side, quantity, price)
<1>1. /\ Len(line) = 4 /\ line[1] = Entry!Name(side)
      /\ line[3] = Entry!Integer(quantity) /\ line[4] = Entry!Decimal(price)
  BY DEF OrderPieces
<1>2. line[1] # Entry!Name("CANCEL") /\ line[4] # Entry!Name("")
      /\ (line[1] = Entry!Name("BUY") <=> side = "BUY")
  <2>1. /\ line[1].what = side /\ line[4].what = "decimal"
        /\ Entry!Name("CANCEL").what = "CANCEL" /\ Entry!Name("").what = ""
        /\ Entry!Name("BUY").what = "BUY"
    BY <1>1 DEF Entry!Name, Entry!Decimal
  <2>2. side # "CANCEL" /\ "decimal" # ""
    BY DEF Sides
  <2>3. side = "BUY" => line[1] = Entry!Name("BUY")
    BY <1>1
  <2> QED
    BY <2>1, <2>2, <2>3
<1> HIDE DEF line
<1>3. ~Entry!IsCancel(line) /\ Entry!Tokens(line) = line
  BY <1>1, <1>2 DEF Entry!IsCancel, Entry!Tokens, Entry!Last
<1>4. /\ Entry!Stoi(line[3]) = quantity /\ Entry!Stod(line[4]) = price
      /\ Entry!IsInt(line[3]) /\ Entry!Numeric(line[4])
  BY <1>1 DEF Entry!Stoi, Entry!Stod, Entry!IsInt, Entry!Numeric, Entry!Integer, Entry!Decimal
<1>5. ~Entry!Throws(line)
  BY <1>1, <1>3, <1>4 DEF Entry!Throws
<1>6. Entry!CallOf(line) =
        [call |-> "processOrder", type |-> IF side = "BUY" THEN "BUY" ELSE "SELL",
         number |-> quantity, price |-> price]
  BY <1>2, <1>3, <1>4 DEF Entry!CallOf, Entry!Parsed
<1> QED
  BY <1>5, <1>6 DEF line

\* And of a cancel.
LEMMA CancelIsRead ==
  ASSUME NEW id \in Entry!Ints
  PROVE  /\ ~Entry!Throws(CancelPieces(id))
         /\ Entry!CallOf(CancelPieces(id)) = [call |-> "cancelOrder", number |-> id]
<1> DEFINE line == CancelPieces(id)
<1>1. Len(line) = 2 /\ line[1] = Entry!Name("CANCEL") /\ line[2] = Entry!Integer(id)
  BY DEF CancelPieces
<1> HIDE DEF line
<1>2. Entry!IsCancel(line)
  BY <1>1 DEF Entry!IsCancel
<1>3. Entry!Stoi(line[2]) = id /\ Entry!IsInt(line[2])
  BY <1>1 DEF Entry!Stoi, Entry!IsInt, Entry!Numeric, Entry!Integer
<1>4. ~Entry!Throws(line) /\ Entry!CallOf(line) = [call |-> "cancelOrder", number |-> id]
  BY <1>2, <1>3 DEF Entry!Throws, Entry!CallOf
<1> QED
  BY <1>4 DEF line

\* The pieces that TcpClient puts together.
LEMMA PiecesOfOrder ==
  ASSUME NEW side, NEW quantity, NEW price
  PROVE  Entry!OrderLine(side, quantity, price)
           = OrderPieces(side, quantity, Entry!Printed(price))
<1>1. ASSUME NEW a, NEW b, NEW c, NEW d
      PROVE  <<a, b, c>> \o <<d>> = <<a, b, c, d>>
  <2> DEFINE S == {a, b, c, d}
             s == <<a, b, c>> \o <<d>>
  <2>1. <<a, b, c>> \in Seq(S) /\ <<d>> \in Seq(S) /\ <<a, b, c, d>> \in Seq(S)
    OBVIOUS
  <2>2. s \in Seq(S) /\ Len(s) = 4 /\ s[1] = a /\ s[2] = b /\ s[3] = c /\ s[4] = d
    BY <2>1, ConcatProperties
  <2> HIDE DEF S, s
  <2>3. \A i \in 1 .. Len(s) : s[i] = <<a, b, c, d>>[i]
    BY <2>2
  <2>4. Len(<<a, b, c, d>>) = 4
    OBVIOUS
  <2> QED
    BY <2>1, <2>2, <2>3, <2>4, SeqEqual DEF s
<1> QED
  BY <1>1, Zenon DEF Entry!OrderLine, Entry!PriceText, OrderPieces

LEMMA NoLineThrows ==
  ASSUME NEW line \in Lines
  PROVE  ~Entry!Throws(line)
<1>1. CASE line \in OrderLines
  <2>1. PICK side \in Sides, quantity \in Entry!Ints, price \in Int :
          line = OrderPieces(side, quantity, price)
    BY <1>1 DEF OrderLines
  <2> QED
    BY <2>1, OrderIsRead
<1>2. CASE line \in CancelLines
  <2>1. PICK id \in Entry!Ints : line = CancelPieces(id)
    BY <1>2 DEF CancelLines
  <2> QED
    BY <2>1, CancelIsRead
<1> QED
  BY <1>1, <1>2 DEF Lines

\* What is printed of a price is within half of the last decimal of it.
LEMMA PrintedIsNear ==
  ASSUME NEW price \in Int
  PROVE  /\ Entry!Printed(price) \in Int
         /\ -5 <= 10 * Entry!Printed(price) - price
         /\ 10 * Entry!Printed(price) - price <= 5
         /\ price = 0 => Entry!Printed(price) = 0
BY DEF Entry!Printed

\* What is typed, once it is not empty, is read as a number.
LEMMA NumberIsRead ==
  ASSUME NEW text \in NumberTexts, text # Empty
  PROVE  Entry!Number(text) \in Entry!Ints /\ Entry!IsNumberOf(Entry!Number(text), text)
<1>1. text = Word \/ text \in Int
  BY TextsAssumption
<1>2. 0 \in Entry!Ints
  BY IntMaxAssumption DEF Entry!Ints
<1> QED
  BY <1>1, <1>2 DEF Entry!Number, Entry!IsNumberOf

LEMMA PriceIsRead ==
  ASSUME NEW text \in PriceTexts, text # Empty
  PROVE  /\ Entry!Price(text) \in Int
         /\ Entry!IsPriceOf(Entry!Printed(Entry!Price(text)), text)
<1>1. CASE text = Word
  BY <1>1, PrintedIsNear DEF Entry!Price, Entry!IsPriceOf
<1>2. CASE text # Word
  <2>1. text \in Int /\ Entry!Price(text) = text
    BY <1>2, TextsAssumption DEF Entry!Price
  <2> QED
    BY <1>2, <2>1, PrintedIsNear DEF Entry!IsPriceOf
<1> QED
  BY <1>1, <1>2

\* The price of an order at the market.
LEMMA ZeroIsRead == 0 \in Int /\ Entry!Printed(0) = 0 /\ Entry!IsPriceOf(0, 0)
<1>1. 0 # Word
  BY TextsAssumption
<1> QED
  BY <1>1, PrintedIsNear DEF Entry!IsPriceOf

\* A button that sends a line that asks for what was entered.
LEMMA EntryClick ==
  ASSUME EntryInv, NEW entry \in Entries, NEW line \in Lines,
         Entry!Agree(entry, Entry!CallOf(line)),
         entered' = Append(entered, entry), wire' = Append(wire, line),
         UNCHANGED <<calls, session>>
  PROVE  EntryInv'
<1>1. /\ entered \in Seq(Entries) /\ wire \in Seq(Lines)
      /\ calls \in Seq({Entry!CallOf(l) : l \in Lines})
      /\ Len(entered) = Len(calls) + Len(wire)
  BY DEF EntryInv
<1>2. /\ Len(entered) \in Nat /\ Len(wire) \in Nat /\ Len(calls) \in Nat
      /\ DOMAIN calls = 1 .. Len(calls) /\ DOMAIN wire = 1 .. Len(wire)
  BY <1>1, LenProperties
<1>3. /\ entered' \in Seq(Entries) /\ Len(entered') = Len(entered) + 1
      /\ \A k \in 1 .. Len(entered) : entered'[k] = entered[k]
      /\ entered'[Len(entered) + 1] = entry
  BY <1>1, AppendProperties
<1>4. /\ wire' \in Seq(Lines) /\ Len(wire') = Len(wire) + 1
      /\ \A k \in 1 .. Len(wire) : wire'[k] = wire[k]
      /\ wire'[Len(wire) + 1] = line
      /\ DOMAIN wire' = 1 .. (Len(wire) + 1)
  BY <1>1, AppendProperties, LenProperties
<1>5. ASSUME NEW k \in DOMAIN wire'
      PROVE  Entry!Agree(entered'[Len(calls) + k], Entry!CallOf(wire'[k]))
  <2>1. CASE k \in DOMAIN wire
    <3>1. Len(calls) + k \in 1 .. Len(entered)
      BY <1>1, <1>2, <2>1
    <3>2. entered'[Len(calls) + k] = entered[Len(calls) + k] /\ wire'[k] = wire[k]
      BY <1>2, <1>3, <1>4, <2>1, <3>1
    <3> QED
      BY <2>1, <3>2 DEF EntryInv
  <2>2. CASE k = Len(wire) + 1
    <3>1. Len(calls) + k = Len(entered) + 1
      BY <1>1, <1>2, <2>2
    <3> QED
      BY <1>3, <1>4, <2>2, <3>1
  <2>3. k \in DOMAIN wire \/ k = Len(wire) + 1
    BY <1>2, <1>4
  <2> QED
    BY <2>1, <2>2, <2>3
<1>6. EngineGetsWhatWasEntered'
  <2> SUFFICES ASSUME NEW k \in DOMAIN calls PROVE Entry!Agree(entered'[k], calls[k])
    BY DEF EngineGetsWhatWasEntered, Entry!EngineGetsWhatWasEntered
  <2>1. entered'[k] = entered[k]
    BY <1>1, <1>2, <1>3
  <2> QED
    BY <2>1 DEF EntryInv, EngineGetsWhatWasEntered, Entry!EngineGetsWhatWasEntered
<1>7. LinesParse'
  BY DEF EntryInv, LinesParse, Entry!LinesParse
<1> QED
  BY <1>1, <1>2, <1>3, <1>4, <1>5, <1>6, <1>7 DEF EntryInv

LEMMA EntryRead ==
  ASSUME EntryInv, Entry!ReadHandler
  PROVE  EntryInv'
<1>1. /\ entered \in Seq(Entries) /\ wire \in Seq(Lines) /\ wire # <<>>
      /\ calls \in Seq({Entry!CallOf(l) : l \in Lines})
      /\ Len(entered) = Len(calls) + Len(wire)
      /\ wire' = Tail(wire) /\ entered' = entered
  BY DEF EntryInv, Entry!ReadHandler
<1>2. /\ Len(entered) \in Nat /\ Len(wire) \in Nat /\ Len(calls) \in Nat
      /\ DOMAIN calls = 1 .. Len(calls) /\ DOMAIN wire = 1 .. Len(wire)
  BY <1>1, LenProperties
<1>3. /\ Head(wire) \in Lines /\ Head(wire) = wire[1] /\ 1 \in DOMAIN wire
      /\ wire' \in Seq(Lines) /\ Len(wire') = Len(wire) - 1
      /\ \A k \in 1 .. Len(wire') : wire'[k] = wire[k + 1]
      /\ DOMAIN wire' = 1 .. Len(wire')
  BY <1>1, <1>2, HeadTailProperties, EmptySeq, LenProperties
<1>4. calls' = Append(calls, Entry!CallOf(wire[1])) /\ session' = session
  BY <1>3, NoLineThrows DEF Entry!ReadHandler
<1>5. /\ calls' \in Seq({Entry!CallOf(l) : l \in Lines}) /\ Len(calls') = Len(calls) + 1
      /\ \A k \in 1 .. Len(calls) : calls'[k] = calls[k]
      /\ calls'[Len(calls) + 1] = Entry!CallOf(wire[1])
      /\ DOMAIN calls' = 1 .. (Len(calls) + 1)
  <2>1. Entry!CallOf(wire[1]) \in {Entry!CallOf(l) : l \in Lines}
    BY <1>3
  <2> QED
    BY <1>1, <1>4, <2>1, AppendProperties, LenProperties
<1>6. ASSUME NEW k \in DOMAIN wire'
      PROVE  Entry!Agree(entered'[Len(calls') + k], Entry!CallOf(wire'[k]))
  <2>1. k + 1 \in DOMAIN wire /\ wire'[k] = wire[k + 1]
    BY <1>2, <1>3
  <2>2. Len(calls') + k = Len(calls) + (k + 1)
    BY <1>2, <1>3, <1>5
  <2> QED
    BY <1>1, <2>1, <2>2 DEF EntryInv
<1>7. EngineGetsWhatWasEntered'
  <2> SUFFICES ASSUME NEW k \in DOMAIN calls' PROVE Entry!Agree(entered[k], calls'[k])
    BY <1>1 DEF EngineGetsWhatWasEntered, Entry!EngineGetsWhatWasEntered
  <2>1. CASE k \in DOMAIN calls
    BY <1>2, <1>5, <2>1 DEF EntryInv, EngineGetsWhatWasEntered, Entry!EngineGetsWhatWasEntered
  <2>2. CASE k = Len(calls) + 1
    BY <1>3, <1>5, <2>2 DEF EntryInv
  <2> QED
    BY <1>2, <1>5, <2>1, <2>2
<1>8. LinesParse'
  BY <1>4 DEF EntryInv, LinesParse, Entry!LinesParse
<1>9. Len(entered') = Len(calls') + Len(wire')
  <2>1. Len(entered') = Len(entered) /\ Len(entered) = Len(calls) + Len(wire)
    BY <1>1
  <2>2. Len(calls') = Len(calls) + 1 /\ Len(wire') = Len(wire) - 1
    BY <1>3, <1>5
  <2> QED
    BY <1>2, <2>1, <2>2
<1> QED
  BY <1>1, <1>3, <1>5, <1>6, <1>7, <1>8, <1>9 DEF EntryInv

\* The end of the process at a line of another client.
LEMMA EntryEnds ==
  ASSUME EntryInv, NEW line, Entry!OtherHandler(line)
  PROVE  EntryInv'
BY DEF Entry!OtherHandler, EntryInv, LinesParse, Entry!LinesParse,
       EngineGetsWhatWasEntered, Entry!EngineGetsWhatWasEntered

\* An order line asks for what was entered if its side, quantity and price do.
LEMMA OrderAgrees ==
  ASSUME NEW entry \in Entries, entry.what # "CANCEL",
         NEW side \in Sides, NEW quantity \in Entry!Ints, NEW price \in Int,
         entry.what = "BUY" <=> side = "BUY",
         Entry!IsNumberOf(quantity, entry.number), Entry!IsPriceOf(price, entry.price)
  PROVE  /\ OrderPieces(side, quantity, price) \in Lines
         /\ Entry!Agree(entry, Entry!CallOf(OrderPieces(side, quantity, price)))
<1>1. OrderPieces(side, quantity, price) \in Lines
  BY DEF Lines, OrderLines
<1> DEFINE call == Entry!CallOf(OrderPieces(side, quantity, price))
<1>2. /\ call.call = "processOrder" /\ call.type = (IF side = "BUY" THEN "BUY" ELSE "SELL")
      /\ call.number = quantity /\ call.price = price
  BY OrderIsRead
<1> HIDE DEF call
<1>3. Entry!Agree(entry, call)
  BY <1>2, Zenon DEF Entry!Agree
<1> QED
  BY <1>1, <1>3 DEF call

\* What the buttons send asks for what was entered, whatever that is.
LEMMA EntryNext == EntryInv /\ [Entry!Next]_(Entry!vars) => EntryInv'
<1> SUFFICES ASSUME EntryInv, [Entry!Next]_(Entry!vars) PROVE EntryInv'
  OBVIOUS
<1>1. ASSUME NEW type \in {"BUY", "SELL"}, NEW price \in PriceTexts, NEW qty \in NumberTexts,
             Entry!ClickLimit(type, price, qty)
      PROVE  EntryInv'
  <2> DEFINE n == Entry!Number(qty)
             p == Entry!Printed(Entry!Price(price))
             entry == [what |-> type, number |-> qty, price |-> price]
  <2>1. n \in Entry!Ints /\ Entry!IsNumberOf(n, qty) /\ Entry!IsPriceOf(p, price) /\ p \in Int
    BY <1>1, NumberIsRead, PriceIsRead, PrintedIsNear DEF Entry!ClickLimit
  <2>2. /\ entered' = Append(entered, entry)
        /\ wire' = Append(wire, Entry!OrderLine(type, n, Entry!Price(price)))
        /\ UNCHANGED <<calls, session>>
    BY <1>1 DEF Entry!ClickLimit, Entry!Entered, Entry!SendOrder
  <2>3. Entry!OrderLine(type, n, Entry!Price(price)) = OrderPieces(type, n, p)
    BY PiecesOfOrder
  <2> HIDE DEF n, p
  <2>4. entry \in Entries /\ entry.what = type /\ entry.number = qty /\ entry.price = price
    BY DEF Entries
  <2> HIDE DEF entry
  <2>5. type \in Sides /\ type # "CANCEL"
    BY DEF Sides
  <2>6. OrderPieces(type, n, p) \in Lines /\ Entry!Agree(entry, Entry!CallOf(OrderPieces(type, n, p)))
    BY <2>1, <2>4, <2>5, OrderAgrees
  <2> QED
    BY <2>2, <2>3, <2>4, <2>6, EntryClick
<1>2. ASSUME NEW type \in {"MARKET BUY", "MARKET SELL"}, NEW qty \in NumberTexts,
             Entry!ClickMarket(type, qty)
      PROVE  EntryInv'
  <2> DEFINE n == Entry!Number(qty)
             side == IF type = "MARKET BUY" THEN "MKT_BUY" ELSE "MKT_SELL"
             entry == [what |-> type, number |-> qty, price |-> 0]
  <2>1. n \in Entry!Ints /\ Entry!IsNumberOf(n, qty)
    BY <1>2, NumberIsRead DEF Entry!ClickMarket
  <2>2. /\ entered' = Append(entered, entry)
        /\ wire' = Append(wire, Entry!OrderLine(side, n, 0))
        /\ UNCHANGED <<calls, session>>
    BY <1>2 DEF Entry!ClickMarket, Entry!Entered, Entry!SendOrder
  <2>3. Entry!OrderLine(side, n, 0) = OrderPieces(side, n, 0)
    BY PiecesOfOrder, ZeroIsRead
  <2> HIDE DEF n
  <2>4. entry \in Entries /\ entry.what = type /\ entry.number = qty /\ entry.price = 0
    BY DEF Entries
  <2> HIDE DEF entry
  <2>5. side \in Sides /\ side # "BUY" /\ type # "BUY" /\ type # "CANCEL"
    BY DEF Sides
  <2> HIDE DEF side
  <2>6. OrderPieces(side, n, 0) \in Lines /\ Entry!Agree(entry, Entry!CallOf(OrderPieces(side, n, 0)))
    <3>1. Entry!IsPriceOf(0, entry.price) /\ Entry!IsNumberOf(n, entry.number)
      BY <2>1, <2>4, ZeroIsRead, Zenon
    <3>2. entry.what # "CANCEL" /\ (entry.what = "BUY" <=> side = "BUY")
      BY <2>4, <2>5, Zenon
    <3> QED
      BY <2>1, <2>4, <2>5, <3>1, <3>2, ZeroIsRead, OrderAgrees
  <2> QED
    BY <2>2, <2>3, <2>4, <2>6, EntryClick
<1>3. ASSUME NEW id \in NumberTexts, Entry!ClickCancel(id) PROVE EntryInv'
  <2> DEFINE n == Entry!Number(id)
             entry == [what |-> "CANCEL", number |-> id, price |-> 0]
             line == CancelPieces(n)
  <2>1. n \in Entry!Ints /\ Entry!IsNumberOf(n, id)
    BY <1>3, NumberIsRead DEF Entry!ClickCancel
  <2>2. /\ entered' = Append(entered, entry) /\ wire' = Append(wire, line)
        /\ UNCHANGED <<calls, session>>
    BY <1>3 DEF Entry!ClickCancel, Entry!Entered, Entry!CancelLine, CancelPieces
  <2> HIDE DEF n
  <2>3. entry \in Entries /\ line \in Lines
    BY <2>1 DEF Entries, Lines, CancelLines
  <2>4. Entry!Agree(entry, Entry!CallOf(line))
    BY <2>1, CancelIsRead DEF Entry!Agree
  <2> HIDE DEF entry, line
  <2> QED
    BY <2>2, <2>3, <2>4, EntryClick
<1>4. CASE UNCHANGED Entry!vars
  BY <1>4 DEF Entry!vars, EntryInv, LinesParse, Entry!LinesParse,
              EngineGetsWhatWasEntered, Entry!EngineGetsWhatWasEntered
<1> QED
  BY <1>1, <1>2, <1>3, <1>4, EntryRead, EntryEnds, Zenon DEF Entry!Next

LEMMA EntryInvariant == SessionSpec => []EntryInv
<1>1. SessionInit => EntryInv
  <2> SUFFICES ASSUME Entry!Init PROVE EntryInv
    BY DEF SessionInit
  <2>1. entered = <<>> /\ wire = <<>> /\ calls = <<>> /\ session = "reading" /\ Len(<<>>) = 0
    BY EmptySeq DEF Entry!Init
  <2> QED
    BY <2>1, EmptySeq DEF EntryInv, LinesParse, Entry!LinesParse,
                          EngineGetsWhatWasEntered, Entry!EngineGetsWhatWasEntered
<1>2. EntryInv /\ [SessionNext]_sessionVars => EntryInv'
  BY EntryNext, ReadSteps
<1> QED
  BY <1>1, <1>2, PTL DEF SessionSpec

\* Whatever is typed, the engine gets the calls that the user entered, in that
\* order, with the number and the price entered.
THEOREM EntriesReachTheEngine == SessionSpec => []EngineGetsWhatWasEntered
<1>1. EntryInv => EngineGetsWhatWasEntered
  BY DEF EntryInv
<1> QED
  BY <1>1, EntryInvariant, PTL

\* No text typed into the dashboard makes stoi, stod or the parser throw: the
\* server ends only at lines of other clients.
THEOREM NoTextEndsTheServer == SessionSpec => []LinesParse
<1>1. EntryInv => LinesParse
  BY DEF EntryInv
<1> QED
  BY <1>1, EntryInvariant, PTL

=============================================================================
