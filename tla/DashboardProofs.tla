-------------------------- MODULE DashboardProofs --------------------------
(***************************************************************************)
(* Proofs about Dashboard, for any number of snapshots, of parts on the    *)
(* way and of queued calls.                                                *)
(***************************************************************************)
EXTENDS Dashboard, SequenceTheorems, TLAPS

PartType == [version : Nat, piece : {"head", "END_SNAPSHOT"}]

Wholes == {Whole(v) : v \in Nat}

Ver(r) == r[1].version

\* A whole snapshot is known by its version.
LEMMA WholeByVersion ==
  /\ \A v \in Nat : Whole(v) \in Wholes /\ Ver(Whole(v)) = v
  /\ \A r \in Wholes : Ver(r) \in Nat /\ r = Whole(Ver(r))
BY DEF Wholes, Ver, Whole, Part

-----------------------------------------------------------------------------
(* The stream: what was read and not returned yet, and what is on the way. *)

\* Snapshots in their order, each with its end behind its head; the first part
\* is a head, the last one may lack its end.
WellFormed(s) ==
  /\ s \in Seq(PartType)
  /\ s # <<>> => s[1].piece = "head"
  /\ \A i \in 1 .. Len(s) - 1 :
       IF s[i].piece = "head"
       THEN s[i + 1].piece = "END_SNAPSHOT" /\ s[i + 1].version = s[i].version
       ELSE s[i + 1].piece = "head"
  /\ \A i, j \in 1 .. Len(s) : i <= j => s[i].version <= s[j].version

\* The stream ends with the end of a snapshot.
Complete(s) == s # <<>> => s[Len(s)].piece = "END_SNAPSHOT"

Stream == receiveBuffer \o wire

LEMMA WellFormedPrefix ==
  ASSUME NEW s, WellFormed(s), NEW t \in Seq(PartType),
         Len(t) <= Len(s), \A i \in 1 .. Len(t) : t[i] = s[i]
  PROVE  WellFormed(t)
<1>1. Len(s) \in Nat /\ Len(t) \in Nat /\ (t # <<>> => Len(t) > 0) /\ (Len(s) > 0 => s # <<>>)
  BY LenProperties, EmptySeq DEF WellFormed
<1>2. t # <<>> => t[1].piece = "head"
  BY <1>1 DEF WellFormed
<1>3. \A i \in 1 .. Len(t) - 1 :
        /\ i \in 1 .. Len(s) - 1
        /\ t[i] = s[i] /\ t[i + 1] = s[i + 1]
  BY <1>1
<1>4. \A i, j \in 1 .. Len(t) : i <= j => t[i].version <= t[j].version
  BY <1>1 DEF WellFormed
<1> QED
  BY <1>2, <1>3, <1>4 DEF WellFormed

\* One more snapshot behind a complete stream.
LEMMA WellFormedExtended ==
  ASSUME NEW s, WellFormed(s), Complete(s), NEW v \in Nat,
         \A i \in 1 .. Len(s) : s[i].version <= v,
         NEW t, t = s \o Whole(v)
  PROVE  /\ WellFormed(t) /\ Complete(t)
         /\ \A i \in 1 .. Len(t) : t[i].version = v \/ (i <= Len(s) /\ t[i] = s[i])
<1>1. /\ Part(v, "head") \in PartType /\ Part(v, "END_SNAPSHOT") \in PartType
      /\ Part(v, "head").version = v /\ Part(v, "head").piece = "head"
      /\ Part(v, "END_SNAPSHOT").version = v /\ Part(v, "END_SNAPSHOT").piece = "END_SNAPSHOT"
  BY DEF Part, PartType
<1> DEFINE a == Part(v, "head")
           b == Part(v, "END_SNAPSHOT")
<1>2. <<a, b>> \in Seq(PartType) /\ Len(<<a, b>>) = 2 /\ <<a, b>>[1] = a /\ <<a, b>>[2] = b
  BY <1>1
<1>3. t = s \o <<a, b>>
  BY DEF Whole
<1>4. /\ a.version = v /\ a.piece = "head" /\ b.version = v /\ b.piece = "END_SNAPSHOT"
  BY <1>1
<1> HIDE DEF a, b
<1>5. /\ t \in Seq(PartType) /\ Len(t) = Len(s) + 2 /\ Len(s) \in Nat
      /\ \A i \in 1 .. Len(s) : t[i] = s[i] /\ s[i] \in PartType
      /\ t[Len(s) + 1] = a /\ t[Len(s) + 2] = b
  <2>1. s \in Seq(PartType)
    BY DEF WellFormed
  <2>2. /\ t \in Seq(PartType) /\ Len(t) = Len(s) + 2
        /\ \A i \in 1 .. Len(s) + 2 : t[i] = IF i <= Len(s) THEN s[i] ELSE <<a, b>>[i - Len(s)]
    BY <1>2, <1>3, <2>1, ConcatProperties
  <2>3. Len(s) \in Nat /\ \A i \in 1 .. Len(s) : s[i] \in PartType
    BY <2>1, LenProperties, ElementOfSeq
  <2> QED
    BY <1>2, <2>2, <2>3
<1>6. t # <<>> /\ (Len(s) > 0 <=> s # <<>>)
  BY <1>5, EmptySeq DEF WellFormed
<1>7. Complete(t)
  BY <1>4, <1>5 DEF Complete
<1>8. t[1].piece = "head"
  BY <1>4, <1>5, <1>6 DEF WellFormed
<1>9. \A i \in 1 .. Len(t) - 1 :
        IF t[i].piece = "head"
        THEN t[i + 1].piece = "END_SNAPSHOT" /\ t[i + 1].version = t[i].version
        ELSE t[i + 1].piece = "head"
  <2>1. ASSUME NEW i \in 1 .. Len(s) - 1
        PROVE  t[i] = s[i] /\ t[i + 1] = s[i + 1]
    BY <1>5
  <2>2. ASSUME Len(s) > 0 PROVE t[Len(s)].piece = "END_SNAPSHOT" /\ t[Len(s) + 1].piece = "head"
    BY <1>4, <1>5, <1>6, <2>2 DEF Complete
  <2>3. \A i \in 1 .. Len(t) - 1 : i \in 1 .. Len(s) - 1 \/ (i = Len(s) /\ Len(s) > 0) \/ i = Len(s) + 1
    BY <1>5
  <2>4. \A i \in 1 .. Len(s) - 1 :
          IF s[i].piece = "head"
          THEN s[i + 1].piece = "END_SNAPSHOT" /\ s[i + 1].version = s[i].version
          ELSE s[i + 1].piece = "head"
    BY DEF WellFormed
  <2>5. t[Len(s) + 1 + 1] = b
    BY <1>5
  <2>6. ASSUME NEW i \in 1 .. Len(s) - 1
        PROVE  IF t[i].piece = "head"
               THEN t[i + 1].piece = "END_SNAPSHOT" /\ t[i + 1].version = t[i].version
               ELSE t[i + 1].piece = "head"
    BY <2>1, <2>4
  <2>7. Len(s) > 0 => t[Len(s)].piece # "head" /\ t[Len(s) + 1].piece = "head"
    BY <2>2
  <2>8. /\ t[Len(s) + 1].piece = "head" /\ t[Len(s) + 1 + 1].piece = "END_SNAPSHOT"
        /\ t[Len(s) + 1 + 1].version = t[Len(s) + 1].version
    BY <1>4, <1>5, <2>5
  <2> QED
    BY <2>3, <2>6, <2>7, <2>8
<1>10. \A i \in 1 .. Len(t) : t[i].version = v \/ (i <= Len(s) /\ t[i] = s[i])
  <2> SUFFICES ASSUME NEW i \in 1 .. Len(t)
               PROVE  t[i].version = v \/ (i <= Len(s) /\ t[i] = s[i])
    OBVIOUS
  <2>1. CASE i \in 1 .. Len(s)
    BY <1>5, <2>1
  <2>2. CASE i = Len(s) + 1
    <3>1. t[i] = a
      BY <1>5, <2>2
    <3> QED
      BY <1>4, <3>1
  <2>3. CASE i = Len(s) + 2
    <3>1. t[i] = b
      BY <1>5, <2>3
    <3> QED
      BY <1>4, <3>1
  <2> QED
    BY <1>5, <2>1, <2>2, <2>3
<1>11. \A i, j \in 1 .. Len(t) : i <= j => t[i].version <= t[j].version
  <2>1. \A i \in 1 .. Len(s) : s[i].version <= v
    OBVIOUS
  <2>2. \A i \in 1 .. Len(t) : i > Len(s) => t[i].version = v
    BY <1>4, <1>5
  <2>3. \A i \in 1 .. Len(t) : t[i].version <= v
    BY <1>4, <1>5, <1>10, <2>1
  <2>4. \A i, j \in 1 .. Len(s) : i <= j => t[i].version <= t[j].version
    BY <1>5 DEF WellFormed
  <2> QED
    BY <1>5, <2>2, <2>3, <2>4
<1> QED
  BY <1>5, <1>7, <1>8, <1>9, <1>10, <1>11 DEF WellFormed

\* What is left when the first snapshot is taken out.
LEMMA WellFormedRest ==
  ASSUME NEW s, WellFormed(s), NEW t \in Seq(PartType), Len(s) >= 2, Len(t) = Len(s) - 2,
         \A i \in 1 .. Len(t) : t[i] = s[i + 2]
  PROVE  WellFormed(t) /\ (Complete(s) => Complete(t))
<1>1. /\ Len(s) \in Nat /\ Len(t) \in Nat /\ s # <<>>
      /\ (t # <<>> => Len(t) > 0)
  BY LenProperties, EmptySeq DEF WellFormed
<1>2. s[1].piece = "head" /\ s[2].piece = "END_SNAPSHOT"
  <2>1. 1 \in 1 .. Len(s) - 1 /\ 1 + 1 = 2
    BY <1>1
  <2> QED
    BY <1>1, <2>1 DEF WellFormed
<1>3. t # <<>> => t[1].piece = "head"
  <2>1. ASSUME t # <<>> PROVE t[1].piece = "head"
    <3>1. 2 \in 1 .. Len(s) - 1 /\ t[1] = s[2 + 1]
      BY <1>1, <2>1
    <3> QED
      BY <1>2, <3>1 DEF WellFormed
  <2> QED
    BY <2>1
<1>4. \A i \in 1 .. Len(t) - 1 :
        i + 2 \in 1 .. Len(s) - 1 /\ t[i] = s[i + 2] /\ t[i + 1] = s[(i + 2) + 1]
  BY <1>1
<1>5. \A i \in 1 .. Len(t) - 1 :
        IF t[i].piece = "head"
        THEN t[i + 1].piece = "END_SNAPSHOT" /\ t[i + 1].version = t[i].version
        ELSE t[i + 1].piece = "head"
  <2>1. \A k \in 1 .. Len(s) - 1 :
          IF s[k].piece = "head"
          THEN s[k + 1].piece = "END_SNAPSHOT" /\ s[k + 1].version = s[k].version
          ELSE s[k + 1].piece = "head"
    BY DEF WellFormed
  <2> TAKE i \in 1 .. Len(t) - 1
  <2>2. i + 2 \in 1 .. Len(s) - 1 /\ t[i] = s[i + 2] /\ t[i + 1] = s[(i + 2) + 1]
    BY <1>4
  <2>3. PICK k : k = i + 2
    OBVIOUS
  <2> QED
    BY <2>1, <2>2, <2>3
<1>6. \A i, j \in 1 .. Len(t) : i <= j => t[i].version <= t[j].version
  <2> SUFFICES ASSUME NEW i \in 1 .. Len(t), NEW j \in 1 .. Len(t), i <= j
               PROVE  t[i].version <= t[j].version
    OBVIOUS
  <2>1. i + 2 \in 1 .. Len(s) /\ j + 2 \in 1 .. Len(s) /\ i + 2 <= j + 2
    BY <1>1
  <2>2. s[i + 2].version <= s[j + 2].version
    BY <2>1 DEF WellFormed
  <2> QED
    BY <2>2
<1>7. Complete(s) => Complete(t)
  BY <1>1 DEF Complete
<1> QED
  BY <1>3, <1>5, <1>6, <1>7 DEF WellFormed

-----------------------------------------------------------------------------
(* The inductive invariant.                                                *)

DashboardType ==
  /\ version \in Nat
  /\ wire \in Seq(PartType) /\ receiveBuffer \in Seq(PartType)
  /\ guiQueue \in Seq(Wholes)
  /\ shown \in Wholes
  /\ listener = "posting" => reply \in Wholes

\* Publications are whole and in order, and only the end of the server cuts one.
StreamInv ==
  /\ WellFormed(Stream)
  /\ link = "up" => Complete(Stream)
  /\ \A i \in 1 .. Len(Stream) : Stream[i].version <= version

\* From the stream over the listener and the queue to the tables: what comes
\* later is not older.
ViewInv ==
  /\ Ver(shown) <= version
  /\ \A i \in 1 .. Len(guiQueue) :
       /\ Ver(shown) <= Ver(guiQueue[i]) /\ Ver(guiQueue[i]) <= version
       /\ \A j \in 1 .. Len(Stream) : Ver(guiQueue[i]) <= Stream[j].version
       /\ \A j \in 1 .. Len(guiQueue) : i <= j => Ver(guiQueue[i]) <= Ver(guiQueue[j])
  /\ \A j \in 1 .. Len(Stream) : Ver(shown) <= Stream[j].version
  /\ listener = "posting" =>
       /\ Ver(shown) <= Ver(reply) /\ Ver(reply) <= version
       /\ \A i \in 1 .. Len(guiQueue) : Ver(guiQueue[i]) <= Ver(reply)
       /\ \A j \in 1 .. Len(Stream) : Ver(reply) <= Stream[j].version

DashboardInv == DashboardType /\ StreamInv /\ ViewInv

LEMMA DashboardInit == Init => DashboardInv
<1> SUFFICES ASSUME Init PROVE DashboardInv
  OBVIOUS
<1>1. <<>> \in Seq(PartType) /\ <<>> \in Seq(Wholes) /\ Len(<<>>) = 0
  BY EmptySeq
<1>2. shown \in Wholes /\ Ver(shown) = 0 /\ version = 0
  BY WholeByVersion DEF Init
<1>3. Stream = <<>> /\ guiQueue = <<>> /\ listener = "receiving"
  BY <1>1, ConcatEmptySeq DEF Init, Stream
<1>4. DashboardType
  BY <1>1, <1>2 DEF Init, DashboardType
<1>5. StreamInv
  BY <1>1, <1>3 DEF StreamInv, WellFormed, Complete
<1>6. ViewInv
  BY <1>1, <1>2, <1>3 DEF ViewInv
<1> QED
  BY <1>4, <1>5, <1>6 DEF DashboardInv

\* Elements of the stream.
LEMMA StreamElements ==
  ASSUME DashboardInv
  PROVE  /\ Stream \in Seq(PartType)
         /\ Len(Stream) = Len(receiveBuffer) + Len(wire)
         /\ Len(Stream) \in Nat /\ Len(receiveBuffer) \in Nat /\ Len(wire) \in Nat
         /\ \A i \in 1 .. Len(Stream) : Stream[i].version \in Nat
         /\ \A i \in 1 .. Len(receiveBuffer) : Stream[i] = receiveBuffer[i]
         /\ \A i \in 1 .. Len(wire) : Stream[Len(receiveBuffer) + i] = wire[i]
         /\ DOMAIN receiveBuffer = 1 .. Len(receiveBuffer)
<1>1. receiveBuffer \in Seq(PartType) /\ wire \in Seq(PartType)
  BY DEF DashboardInv, DashboardType
<1>2. /\ Stream \in Seq(PartType)
      /\ Len(Stream) = Len(receiveBuffer) + Len(wire)
      /\ \A i \in 1 .. Len(receiveBuffer) + Len(wire) : Stream[i] =
           IF i <= Len(receiveBuffer) THEN receiveBuffer[i] ELSE wire[i - Len(receiveBuffer)]
  BY <1>1, ConcatProperties DEF Stream
<1>3. /\ Len(receiveBuffer) \in Nat /\ Len(wire) \in Nat
      /\ DOMAIN receiveBuffer = 1 .. Len(receiveBuffer)
  BY <1>1, LenProperties
<1>4. \A i \in 1 .. Len(Stream) : Stream[i] \in PartType
  BY <1>2, ElementOfSeq
<1>5. \A i \in 1 .. Len(wire) : Stream[Len(receiveBuffer) + i] = wire[i]
  <2>1. ASSUME NEW i \in 1 .. Len(wire)
        PROVE  /\ Len(receiveBuffer) + i \in 1 .. Len(receiveBuffer) + Len(wire)
               /\ ~(Len(receiveBuffer) + i <= Len(receiveBuffer))
               /\ (Len(receiveBuffer) + i) - Len(receiveBuffer) = i
    BY <1>3
  <2> QED
    BY <1>2, <2>1
<1> QED
  BY <1>2, <1>3, <1>4, <1>5 DEF PartType

\* A step that only shortens the stream, or leaves it, and moves nothing else.
LEMMA StreamShortened ==
  ASSUME DashboardInv, DashboardType', UNCHANGED <<version, guiQueue, shown>>,
         Stream' \in Seq(PartType), Len(Stream') <= Len(Stream),
         \A i \in 1 .. Len(Stream') : Stream'[i] = Stream[i],
         link' = "up" => link = "up" /\ Stream' = Stream,
         listener' = "posting" => listener = "posting" /\ reply' = reply
  PROVE  DashboardInv'
<1>1. Len(Stream) \in Nat /\ Len(Stream') \in Nat
  BY StreamElements, LenProperties
<1>2. WellFormed(Stream')
  BY WellFormedPrefix DEF DashboardInv, StreamInv
<1>3. \A i \in 1 .. Len(Stream') : i \in 1 .. Len(Stream) /\ Stream'[i] = Stream[i]
  BY <1>1
<1>4. StreamInv'
  BY <1>2, <1>3 DEF DashboardInv, StreamInv
<1>5. ViewInv'
  BY <1>3 DEF DashboardInv, ViewInv
<1> QED
  BY <1>4, <1>5 DEF DashboardInv

-----------------------------------------------------------------------------
(* The steps.                                                              *)

LEMMA PublishKeepsInv ==
  ASSUME DashboardInv, Publish
  PROVE  DashboardInv'
<1>1. PICK v \in {version, version + 1} : version' = v /\ wire' = wire \o Whole(v)
  BY DEF Publish
<1>2. /\ link = "up" /\ version \in Nat
      /\ UNCHANGED <<link, receiveBuffer, listener, reply, guiQueue, shown>>
  BY DEF Publish, rcvVars, guiVars, DashboardInv, DashboardType
<1>3. v \in Nat /\ version <= v
  BY <1>1, <1>2
<1>4. receiveBuffer \in Seq(PartType) /\ wire \in Seq(PartType)
  BY DEF DashboardInv, DashboardType
<1>5. Whole(v) \in Seq(PartType)
  <2>1. Part(v, "head") \in PartType /\ Part(v, "END_SNAPSHOT") \in PartType
    BY <1>3 DEF Part, PartType
  <2> QED
    BY <2>1 DEF Whole
<1>6. wire' \in Seq(PartType) /\ Stream' = Stream \o Whole(v)
  <2>1. wire' \in Seq(PartType)
    BY <1>1, <1>4, <1>5, ConcatProperties
  <2>2. Stream' = receiveBuffer \o (wire \o Whole(v))
    BY <1>1, <1>2 DEF Stream
  <2> DEFINE tail == Whole(v)
  <2>3. tail \in Seq(PartType)
    BY <1>5
  <2> HIDE DEF tail
  <2>4. (receiveBuffer \o wire) \o tail = receiveBuffer \o (wire \o tail)
    BY <1>4, <2>3, ConcatAssociative
  <2> QED
    BY <2>1, <2>2, <2>4 DEF Stream, tail
<1>7. WellFormed(Stream) /\ Complete(Stream)
  BY <1>2 DEF DashboardInv, StreamInv
<1>8. \A i \in 1 .. Len(Stream) : Stream[i].version <= v
  BY <1>2, <1>3, StreamElements DEF DashboardInv, StreamInv
<1>9. /\ WellFormed(Stream') /\ Complete(Stream')
      /\ \A i \in 1 .. Len(Stream') :
           Stream'[i].version = v \/ (i <= Len(Stream) /\ Stream'[i] = Stream[i])
  BY <1>3, <1>6, <1>7, <1>8, WellFormedExtended
<1>10. \A i \in 1 .. Len(Stream') :
         Stream'[i].version = v \/ (i \in 1 .. Len(Stream) /\ Stream'[i] = Stream[i])
  BY <1>9, StreamElements
<1>11. StreamInv'
  BY <1>1, <1>3, <1>8, <1>9, <1>10 DEF StreamInv
<1>12. DashboardType'
  BY <1>1, <1>2, <1>3, <1>6 DEF DashboardInv, DashboardType
<1>13. /\ Ver(shown) \in Nat /\ \A i \in 1 .. Len(guiQueue) : Ver(guiQueue[i]) \in Nat
       /\ listener = "posting" => Ver(reply) \in Nat
  BY WholeByVersion, ElementOfSeq DEF DashboardInv, DashboardType
<1>14. ViewInv'
  <2>1. version' = v /\ listener' = listener /\ reply' = reply /\ guiQueue' = guiQueue /\ shown' = shown
    BY <1>1, <1>2
  <2>2. ViewInv
    BY DEF DashboardInv
  <2>3. ASSUME NEW n \in Nat, n <= version, \A j \in 1 .. Len(Stream) : n <= Stream[j].version
        PROVE  n <= v /\ \A j \in 1 .. Len(Stream') : n <= Stream'[j].version
    BY <1>2, <1>3, <1>10, <2>3
  <2>4. /\ Ver(shown) <= v
        /\ \A j \in 1 .. Len(Stream') : Ver(shown) <= Stream'[j].version
    BY <1>13, <2>2, <2>3 DEF ViewInv
  <2>5. \A i \in 1 .. Len(guiQueue) :
          /\ Ver(guiQueue[i]) <= v
          /\ \A j \in 1 .. Len(Stream') : Ver(guiQueue[i]) <= Stream'[j].version
    BY <1>13, <2>2, <2>3 DEF ViewInv
  <2>6. listener = "posting" =>
          /\ Ver(reply) <= v
          /\ \A j \in 1 .. Len(Stream') : Ver(reply) <= Stream'[j].version
    BY <1>13, <2>2, <2>3 DEF ViewInv
  <2> QED
    BY <2>1, <2>2, <2>4, <2>5, <2>6 DEF ViewInv
<1> QED
  BY <1>11, <1>12, <1>14 DEF DashboardInv

LEMMA ServerEndsKeepsInv ==
  ASSUME DashboardInv, ServerEnds
  PROVE  DashboardInv'
<1>1. PICK n \in 0 .. Len(wire) : wire' = SubSeq(wire, 1, n)
  BY DEF ServerEnds
<1>2. /\ link' = "closed"
      /\ UNCHANGED <<version, receiveBuffer, listener, reply, guiQueue, shown>>
  BY DEF ServerEnds, rcvVars, guiVars
<1>3. /\ receiveBuffer \in Seq(PartType) /\ wire \in Seq(PartType)
      /\ Len(wire) \in Nat /\ Len(receiveBuffer) \in Nat
  BY LenProperties DEF DashboardInv, DashboardType
<1>4. /\ wire' \in Seq(PartType) /\ Len(wire') = n
      /\ \A i \in 1 .. n : wire'[i] = wire[i]
  <2>1. \A i \in 1 .. n : wire[i] \in PartType
    BY <1>3, ElementOfSeq
  <2> QED
    BY <1>1, <1>3, <2>1, SubSeqProperties
<1>5. /\ Stream' \in Seq(PartType) /\ Len(Stream') = Len(receiveBuffer) + n
      /\ \A i \in 1 .. Len(receiveBuffer) + n : Stream'[i] =
           IF i <= Len(receiveBuffer) THEN receiveBuffer[i] ELSE wire'[i - Len(receiveBuffer)]
  <2>1. Stream' = receiveBuffer \o wire'
    BY <1>2 DEF Stream
  <2>2. PICK left \in Seq(PartType) : left = wire' /\ Len(left) = n
    BY <1>4
  <2>3. Stream' = receiveBuffer \o left /\ receiveBuffer \in Seq(PartType)
    BY <1>3, <2>1, <2>2
  <2>4. /\ receiveBuffer \o left \in Seq(PartType)
        /\ Len(receiveBuffer \o left) = Len(receiveBuffer) + Len(left)
        /\ \A i \in 1 .. Len(receiveBuffer) + Len(left) : (receiveBuffer \o left)[i] =
             IF i <= Len(receiveBuffer) THEN receiveBuffer[i] ELSE left[i - Len(receiveBuffer)]
    BY <2>3, ConcatProperties
  <2> QED
    BY <2>2, <2>3, <2>4
<1>6. \A i \in 1 .. Len(Stream') : Stream'[i] = Stream[i]
  <2>1. \A i \in 1 .. Len(receiveBuffer) + Len(wire) : Stream[i] =
          IF i <= Len(receiveBuffer) THEN receiveBuffer[i] ELSE wire[i - Len(receiveBuffer)]
    BY <1>3, ConcatProperties DEF Stream
  <2> QED
    <3> TAKE i \in 1 .. Len(Stream')
    <3>1. i \in 1 .. Len(receiveBuffer) + n /\ i \in 1 .. Len(receiveBuffer) + Len(wire)
      BY <1>3, <1>5
    <3>2. CASE i <= Len(receiveBuffer)
      BY <1>5, <2>1, <3>1, <3>2
    <3>3. CASE ~(i <= Len(receiveBuffer))
      <4>1. i - Len(receiveBuffer) \in 1 .. n
        BY <1>3, <3>1, <3>3
      <4> QED
        BY <1>4, <1>5, <2>1, <3>1, <3>3, <4>1
    <3> QED
      BY <3>2, <3>3
<1>7. DashboardType'
  BY <1>2, <1>4 DEF DashboardInv, DashboardType
<1> QED
  BY <1>2, <1>3, <1>5, <1>6, <1>7, StreamElements, StreamShortened

LEMMA ReadSomeKeepsInv ==
  ASSUME DashboardInv, ReadSome
  PROVE  DashboardInv'
<1>1. PICK n \in 1 .. Len(wire) :
        /\ receiveBuffer' = receiveBuffer \o SubSeq(wire, 1, n)
        /\ wire' = SubSeq(wire, n + 1, Len(wire))
  BY DEF ReadSome
<1>2. UNCHANGED <<version, link, listener, reply, guiQueue, shown>>
  BY DEF ReadSome, guiVars
<1>3. /\ receiveBuffer \in Seq(PartType) /\ wire \in Seq(PartType) /\ Len(wire) \in Nat
  BY LenProperties DEF DashboardInv, DashboardType
<1>4. SubSeq(wire, 1, n) \in Seq(PartType) /\ SubSeq(wire, n + 1, Len(wire)) \in Seq(PartType)
  <2>1. \A i \in 1 .. Len(wire) : wire[i] \in PartType
    BY <1>3, ElementOfSeq
  <2>2. \A i \in 1 .. n : wire[i] \in PartType
    BY <1>3, <2>1
  <2>3. \A i \in n + 1 .. Len(wire) : wire[i] \in PartType
    BY <1>3, <2>1
  <2> QED
    BY <1>3, <2>2, <2>3, SubSeqProperties
<1>5. SubSeq(wire, 1, n) \o SubSeq(wire, n + 1, Len(wire)) = wire
  BY <1>3, ConcatAdjacentSubSeq, SubSeqFull
<1>6. Stream' = Stream /\ receiveBuffer' \in Seq(PartType)
  <2>1. receiveBuffer' \in Seq(PartType)
    BY <1>1, <1>3, <1>4, ConcatProperties
  <2>2. Stream' = (receiveBuffer \o SubSeq(wire, 1, n)) \o SubSeq(wire, n + 1, Len(wire))
    BY <1>1 DEF Stream
  <2>3. Stream' = receiveBuffer \o (SubSeq(wire, 1, n) \o SubSeq(wire, n + 1, Len(wire)))
    <3> DEFINE a == SubSeq(wire, 1, n)
               b == SubSeq(wire, n + 1, Len(wire))
    <3>1. receiveBuffer \in Seq(PartType) /\ a \in Seq(PartType) /\ b \in Seq(PartType)
      BY <1>3, <1>4
    <3>2. Stream' = (receiveBuffer \o a) \o b
      BY <2>2
    <3> HIDE DEF a, b
    <3>3. Stream' = receiveBuffer \o (a \o b)
      BY <3>1, <3>2, ConcatAssociative
    <3> QED
      BY <3>3 DEF a, b
  <2> QED
    BY <1>5, <2>1, <2>3 DEF Stream
<1>7. DashboardType'
  BY <1>1, <1>2, <1>4, <1>6 DEF DashboardInv, DashboardType
<1> QED
  BY <1>2, <1>6, <1>7, StreamElements, StreamShortened

\* The first END_SNAPSHOT in the buffer is its second part: what is taken out is
\* the first snapshot of the stream.
LEMMA FirstSnapshot ==
  ASSUME DashboardInv, Ends(receiveBuffer) # {}
  PROVE  /\ Min(Ends(receiveBuffer)) = 2 /\ Len(receiveBuffer) >= 2
         /\ SubSeq(receiveBuffer, 1, 2) \in Wholes
         /\ Ver(SubSeq(receiveBuffer, 1, 2)) = Stream[1].version
<1>1. /\ receiveBuffer \in Seq(PartType) /\ Len(receiveBuffer) \in Nat
      /\ DOMAIN receiveBuffer = 1 .. Len(receiveBuffer)
      /\ Len(Stream) \in Nat /\ Len(Stream) >= Len(receiveBuffer)
      /\ \A i \in 1 .. Len(receiveBuffer) : Stream[i] = receiveBuffer[i]
      /\ \A i \in 1 .. Len(receiveBuffer) : receiveBuffer[i] \in PartType
  BY StreamElements, ElementOfSeq DEF DashboardInv, DashboardType
<1>2. PICK e \in 1 .. Len(receiveBuffer) : receiveBuffer[e].piece = "END_SNAPSHOT"
  BY <1>1 DEF Ends
<1>3. receiveBuffer[1].piece = "head" /\ 1 \in 1 .. Len(receiveBuffer)
  <2>1. Stream # <<>>
    BY <1>1, <1>2, EmptySeq
  <2> QED
    BY <1>1, <1>2, <2>1 DEF DashboardInv, StreamInv, WellFormed
<1>4. Len(receiveBuffer) >= 2
  BY <1>1, <1>2, <1>3
<1>5. receiveBuffer[2].piece = "END_SNAPSHOT" /\ receiveBuffer[2].version = receiveBuffer[1].version
  <2>1. 1 \in 1 .. Len(Stream) - 1 /\ 1 + 1 = 2
    BY <1>1, <1>4
  <2>2. Stream[1] = receiveBuffer[1] /\ Stream[2] = receiveBuffer[2]
    BY <1>1, <1>4
  <2> QED
    BY <1>3, <2>1, <2>2 DEF DashboardInv, StreamInv, WellFormed
<1>6. 2 \in Ends(receiveBuffer) /\ \A i \in Ends(receiveBuffer) : 2 <= i
  BY <1>1, <1>3, <1>4, <1>5 DEF Ends
<1>7. Min(Ends(receiveBuffer)) = 2
  <2>1. \A i \in Ends(receiveBuffer) : i \in Nat
    BY <1>1 DEF Ends
  <2> QED
    BY <1>6, <2>1 DEF Min
<1> DEFINE v == receiveBuffer[1].version
<1>8. v \in Nat /\ receiveBuffer[1] = Part(v, "head") /\ receiveBuffer[2] = Part(v, "END_SNAPSHOT")
  <2>1. receiveBuffer[1] \in PartType /\ receiveBuffer[2] \in PartType
    BY <1>1, <1>4
  <2> QED
    BY <1>3, <1>5, <2>1 DEF Part, PartType
<1>9. SubSeq(receiveBuffer, 1, 2) = Whole(v)
  <2>1. /\ SubSeq(receiveBuffer, 1, 2) \in Seq(PartType)
        /\ Len(SubSeq(receiveBuffer, 1, 2)) = 2
        /\ \A i \in 1 .. 2 : SubSeq(receiveBuffer, 1, 2)[i] = receiveBuffer[i]
    <3>1. \A i \in 1 .. 2 : receiveBuffer[i] \in PartType
      BY <1>1, <1>4
    <3>2. \A i \in 1 .. 2 - 1 + 1 : SubSeq(receiveBuffer, 1, 2)[i] = receiveBuffer[1 + i - 1]
      BY <3>1, SubSeqProperties
    <3> QED
      BY <3>1, <3>2, SubSeqProperties
  <2>2. /\ Whole(v) \in Seq(PartType) /\ Len(Whole(v)) = 2
        /\ Whole(v)[1] = Part(v, "head") /\ Whole(v)[2] = Part(v, "END_SNAPSHOT")
    <3>1. Part(v, "head") \in PartType /\ Part(v, "END_SNAPSHOT") \in PartType
      BY <1>8 DEF Part, PartType
    <3> QED
      BY <3>1 DEF Whole
  <2>3. \A i \in 1 .. 2 : SubSeq(receiveBuffer, 1, 2)[i] = Whole(v)[i]
    BY <1>8, <2>1, <2>2
  <2> HIDE DEF v
  <2> QED
    BY <2>1, <2>2, <2>3, SeqEqual
<1> QED
  BY <1>1, <1>3, <1>4, <1>7, <1>8, <1>9, WholeByVersion

LEMMA TakeSnapshotKeepsInv ==
  ASSUME DashboardInv, TakeSnapshot
  PROVE  DashboardInv'
<1>1. /\ Ends(receiveBuffer) # {} /\ listener' = "posting"
      /\ reply' = SubSeq(receiveBuffer, 1, Min(Ends(receiveBuffer)))
      /\ receiveBuffer' = SubSeq(receiveBuffer, Min(Ends(receiveBuffer)) + 1, Len(receiveBuffer))
      /\ UNCHANGED <<version, wire, link, guiQueue, shown>>
  BY DEF TakeSnapshot, Leftover, netVars, guiVars
<1>2. /\ reply' = SubSeq(receiveBuffer, 1, 2) /\ receiveBuffer' = SubSeq(receiveBuffer, 3, Len(receiveBuffer))
      /\ Len(receiveBuffer) >= 2
      /\ reply' \in Wholes /\ Ver(reply') = Stream[1].version
  BY <1>1, FirstSnapshot
<1>3. /\ receiveBuffer \in Seq(PartType) /\ wire \in Seq(PartType)
      /\ Len(receiveBuffer) \in Nat /\ Len(wire) \in Nat
  BY LenProperties DEF DashboardInv, DashboardType
<1>4. /\ receiveBuffer' \in Seq(PartType) /\ Len(receiveBuffer') = Len(receiveBuffer) - 2
      /\ \A i \in 1 .. Len(receiveBuffer) - 2 : receiveBuffer'[i] = receiveBuffer[i + 2]
  <2>1. \A i \in 3 .. Len(receiveBuffer) : receiveBuffer[i] \in PartType
    BY <1>3, ElementOfSeq
  <2>2. /\ receiveBuffer' \in Seq(PartType)
        /\ Len(receiveBuffer') = IF 3 <= Len(receiveBuffer) THEN Len(receiveBuffer) - 3 + 1 ELSE 0
        /\ \A i \in 1 .. Len(receiveBuffer) - 3 + 1 : receiveBuffer'[i] = receiveBuffer[3 + i - 1]
    BY <1>2, <1>3, <2>1, SubSeqProperties
  <2> QED
    BY <1>2, <1>3, <2>2
<1>5. /\ Stream' \in Seq(PartType) /\ Len(Stream') = Len(Stream) - 2 /\ Len(Stream) >= 2
      /\ Len(Stream) \in Nat
      /\ \A i \in 1 .. Len(Stream') : Stream'[i] = Stream[i + 2]
  <2>1. /\ Stream' \in Seq(PartType) /\ Len(Stream') = Len(receiveBuffer') + Len(wire)
        /\ \A i \in 1 .. Len(receiveBuffer') + Len(wire) : Stream'[i] =
             IF i <= Len(receiveBuffer') THEN receiveBuffer'[i] ELSE wire[i - Len(receiveBuffer')]
    BY <1>1, <1>3, <1>4, ConcatProperties DEF Stream
  <2>2. /\ Len(Stream) = Len(receiveBuffer) + Len(wire)
        /\ \A i \in 1 .. Len(receiveBuffer) + Len(wire) : Stream[i] =
             IF i <= Len(receiveBuffer) THEN receiveBuffer[i] ELSE wire[i - Len(receiveBuffer)]
    BY <1>3, ConcatProperties DEF Stream
  <2>3. ASSUME NEW i \in 1 .. Len(Stream') PROVE Stream'[i] = Stream[i + 2]
    <3>1. i + 2 \in 1 .. Len(receiveBuffer) + Len(wire)
      BY <1>3, <1>4, <2>1
    <3>2. CASE i <= Len(receiveBuffer')
      BY <1>3, <1>4, <2>1, <2>2, <3>1, <3>2
    <3>3. CASE ~(i <= Len(receiveBuffer'))
      <4>1. ~(i + 2 <= Len(receiveBuffer)) /\ (i + 2) - Len(receiveBuffer) = i - Len(receiveBuffer')
        BY <1>3, <1>4, <3>3
      <4> QED
        BY <2>1, <2>2, <3>1, <3>3, <4>1
    <3> QED
      BY <3>2, <3>3
  <2> QED
    BY <1>2, <1>3, <1>4, <2>1, <2>2, <2>3
<1>6. WellFormed(Stream') /\ (Complete(Stream) => Complete(Stream'))
  BY <1>5, WellFormedRest DEF DashboardInv, StreamInv
<1>7. \A i \in 1 .. Len(Stream') : i + 2 \in 1 .. Len(Stream) /\ Stream'[i] = Stream[i + 2]
  BY <1>5
<1>8. StreamInv'
  BY <1>1, <1>6, <1>7 DEF DashboardInv, StreamInv
<1>9. DashboardType'
  BY <1>1, <1>2, <1>4 DEF DashboardInv, DashboardType
<1>10. 1 \in 1 .. Len(Stream) /\ \A i \in 1 .. Len(Stream) : Stream[1].version <= Stream[i].version
  BY <1>5 DEF DashboardInv, StreamInv, WellFormed
<1>11. \A i \in 1 .. Len(Stream') : Ver(reply') <= Stream'[i].version
  BY <1>2, <1>7, <1>10
<1>12. Ver(reply') <= version
  BY <1>2, <1>10 DEF DashboardInv, StreamInv
<1>13. Ver(shown) <= Ver(reply') /\ \A i \in 1 .. Len(guiQueue) : Ver(guiQueue[i]) <= Ver(reply')
  BY <1>2, <1>10 DEF DashboardInv, ViewInv
<1>14. ViewInv'
  BY <1>1, <1>7, <1>11, <1>12, <1>13 DEF DashboardInv, ViewInv, Ver
<1> QED
  BY <1>8, <1>9, <1>14 DEF DashboardInv

LEMMA PostUpdateKeepsInv ==
  ASSUME DashboardInv, PostUpdate
  PROVE  DashboardInv'
<1>1. /\ listener = "posting" /\ listener' \in {"receiving", "ended"}
      /\ guiQueue' = Append(guiQueue, reply) \/ UNCHANGED guiQueue
      /\ UNCHANGED <<version, wire, link, receiveBuffer, reply, shown>>
  BY DEF PostUpdate, Posted, netVars, guiVars
<1>2. Stream' = Stream
  BY <1>1 DEF Stream
<1>3. guiQueue \in Seq(Wholes) /\ Len(guiQueue) \in Nat /\ reply \in Wholes /\ Ver(reply) \in Nat
  BY <1>1, LenProperties, WholeByVersion DEF DashboardInv, DashboardType
<1>4. /\ guiQueue' \in Seq(Wholes)
      /\ \A i \in 1 .. Len(guiQueue') :
           \/ i \in 1 .. Len(guiQueue) /\ guiQueue'[i] = guiQueue[i]
           \/ i = Len(guiQueue) + 1 /\ guiQueue'[i] = reply
  <2>1. CASE guiQueue' = Append(guiQueue, reply)
    <3>1. /\ guiQueue' \in Seq(Wholes) /\ Len(guiQueue') = Len(guiQueue) + 1
          /\ \A i \in 1 .. Len(guiQueue) : guiQueue'[i] = guiQueue[i]
          /\ guiQueue'[Len(guiQueue) + 1] = reply
      BY <1>3, <2>1, AppendProperties
    <3> QED
      BY <1>3, <3>1
  <2>2. CASE UNCHANGED guiQueue
    BY <1>3, <2>2
  <2> QED
    BY <1>1, <2>1, <2>2
<1>5. DashboardType'
  BY <1>1, <1>4 DEF DashboardInv, DashboardType
<1>6. StreamInv'
  BY <1>1, <1>2 DEF DashboardInv, StreamInv
<1>7. ViewInv'
  <2>1. /\ Ver(shown) <= Ver(reply) /\ Ver(reply) <= version
        /\ \A i \in 1 .. Len(guiQueue) : Ver(guiQueue[i]) <= Ver(reply)
        /\ \A j \in 1 .. Len(Stream) : Ver(reply) <= Stream[j].version
    BY <1>1 DEF DashboardInv, ViewInv
  <2>2. \A i, j \in 1 .. Len(guiQueue') : i <= j => Ver(guiQueue'[i]) <= Ver(guiQueue'[j])
    <3> SUFFICES ASSUME NEW i \in 1 .. Len(guiQueue'), NEW j \in 1 .. Len(guiQueue'), i <= j
                 PROVE  Ver(guiQueue'[i]) <= Ver(guiQueue'[j])
      OBVIOUS
    <3>1. CASE i \in 1 .. Len(guiQueue) /\ j \in 1 .. Len(guiQueue)
      <4>1. guiQueue'[i] = guiQueue[i] /\ guiQueue'[j] = guiQueue[j]
        BY <1>3, <1>4, <3>1
      <4> QED
        BY <3>1, <4>1 DEF DashboardInv, ViewInv
    <3>2. CASE i \in 1 .. Len(guiQueue) /\ j = Len(guiQueue) + 1
      <4>1. guiQueue'[i] = guiQueue[i] /\ guiQueue'[j] = reply
        BY <1>3, <1>4, <3>2
      <4> QED
        BY <2>1, <3>2, <4>1
    <3>3. CASE i = Len(guiQueue) + 1
      <4>1. guiQueue'[i] = reply /\ guiQueue'[j] = reply
        BY <1>3, <1>4, <3>3
      <4> QED
        BY <1>3, <4>1
    <3> QED
      BY <1>3, <1>4, <3>1, <3>2, <3>3
  <2>3. \A i \in 1 .. Len(guiQueue') :
          /\ Ver(shown) <= Ver(guiQueue'[i]) /\ Ver(guiQueue'[i]) <= version
          /\ \A j \in 1 .. Len(Stream) : Ver(guiQueue'[i]) <= Stream[j].version
    BY <1>4, <2>1 DEF DashboardInv, ViewInv
  <2> QED
    BY <1>1, <1>2, <2>2, <2>3 DEF DashboardInv, ViewInv
<1> QED
  BY <1>5, <1>6, <1>7 DEF DashboardInv

\* What the tables are filled from next is not older than what they show.
LEMMA UpdateKeepsInv ==
  ASSUME DashboardInv, Update
  PROVE  DashboardInv' /\ Ver(shown') >= Ver(shown)
<1>1. /\ guiQueue # <<>> /\ shown' = Head(guiQueue) /\ guiQueue' = Tail(guiQueue)
      /\ UNCHANGED <<version, wire, link, receiveBuffer, listener, reply>>
  BY DEF Update, netVars, rcvVars
<1>2. Stream' = Stream
  BY <1>1 DEF Stream
<1>3. guiQueue \in Seq(Wholes) /\ Len(guiQueue) \in Nat /\ Len(guiQueue) > 0
  BY <1>1, LenProperties, EmptySeq DEF DashboardInv, DashboardType
<1>4. /\ guiQueue' \in Seq(Wholes) /\ shown' = guiQueue[1] /\ shown' \in Wholes
      /\ Len(guiQueue') = Len(guiQueue) - 1
      /\ \A i \in 1 .. Len(guiQueue') : guiQueue'[i] = guiQueue[i + 1]
  BY <1>1, <1>3, HeadTailProperties
<1>5. 1 \in 1 .. Len(guiQueue) /\ \A i \in 1 .. Len(guiQueue') : i + 1 \in 1 .. Len(guiQueue)
  BY <1>3, <1>4
<1>6. DashboardType'
  BY <1>1, <1>4 DEF DashboardInv, DashboardType
<1>7. StreamInv'
  BY <1>1, <1>2 DEF DashboardInv, StreamInv
<1>8. \A i, j \in 1 .. Len(guiQueue') : i <= j => Ver(guiQueue'[i]) <= Ver(guiQueue'[j])
  <2> SUFFICES ASSUME NEW i \in 1 .. Len(guiQueue'), NEW j \in 1 .. Len(guiQueue'), i <= j
               PROVE  Ver(guiQueue'[i]) <= Ver(guiQueue'[j])
    OBVIOUS
  <2>1. i + 1 <= j + 1
    BY <1>3, <1>4
  <2>2. Ver(guiQueue[i + 1]) <= Ver(guiQueue[j + 1])
    BY <1>5, <2>1 DEF DashboardInv, ViewInv
  <2> QED
    BY <1>4, <2>2
<1>9. \A i \in 1 .. Len(guiQueue') : Ver(shown') <= Ver(guiQueue'[i])
  <2> TAKE i \in 1 .. Len(guiQueue')
  <2>1. i + 1 \in 1 .. Len(guiQueue) /\ 1 <= i + 1
    BY <1>3, <1>4
  <2>2. Ver(guiQueue[1]) <= Ver(guiQueue[i + 1])
    BY <1>5, <2>1 DEF DashboardInv, ViewInv
  <2>3. guiQueue'[i] = guiQueue[i + 1] /\ shown' = guiQueue[1]
    BY <1>4
  <2> QED
    BY <2>2, <2>3
<1>10. \A k \in 1 .. Len(guiQueue) :
         /\ Ver(shown) <= Ver(guiQueue[k]) /\ Ver(guiQueue[k]) <= version
         /\ \A j \in 1 .. Len(Stream) : Ver(guiQueue[k]) <= Stream[j].version
         /\ listener = "posting" => Ver(guiQueue[k]) <= Ver(reply)
  BY DEF DashboardInv, ViewInv
<1>11. Ver(shown') = Ver(guiQueue[1]) /\ Ver(shown') \in Nat /\ Ver(shown) \in Nat
  BY <1>4, WholeByVersion DEF DashboardInv, DashboardType
<1>12. \A i \in 1 .. Len(guiQueue') :
         /\ Ver(guiQueue'[i]) <= version
         /\ \A j \in 1 .. Len(Stream) : Ver(guiQueue'[i]) <= Stream[j].version
         /\ listener = "posting" => Ver(guiQueue'[i]) <= Ver(reply)
  BY <1>4, <1>5, <1>10
<1>13. /\ Ver(shown') <= version
       /\ \A j \in 1 .. Len(Stream) : Ver(shown') <= Stream[j].version
       /\ listener = "posting" => Ver(shown') <= Ver(reply)
  BY <1>5, <1>10, <1>11
<1>14. listener = "posting" =>
         Ver(reply) <= version /\ \A j \in 1 .. Len(Stream) : Ver(reply) <= Stream[j].version
  BY DEF DashboardInv, ViewInv
<1>15. ViewInv'
  BY <1>1, <1>2, <1>8, <1>9, <1>12, <1>13, <1>14 DEF ViewInv, Ver
<1> QED
  BY <1>5, <1>6, <1>7, <1>10, <1>11, <1>15 DEF DashboardInv

LEMMA DashboardNext ==
  DashboardInv /\ [Next]_vars => DashboardInv' /\ Ver(shown') >= Ver(shown)
<1> SUFFICES ASSUME DashboardInv, [Next]_vars
             PROVE  DashboardInv' /\ Ver(shown') >= Ver(shown)
  OBVIOUS
<1>1. Ver(shown) \in Nat
  BY WholeByVersion DEF DashboardInv, DashboardType
<1>2. UNCHANGED shown => Ver(shown') >= Ver(shown)
  BY <1>1
<1>3. CASE Publish
  BY <1>2, <1>3, PublishKeepsInv DEF Publish, guiVars
<1>4. CASE ServerEnds
  BY <1>2, <1>4, ServerEndsKeepsInv DEF ServerEnds, guiVars
<1>5. CASE Listen
  <2>1. CASE ReadSome
    BY <1>2, <2>1, ReadSomeKeepsInv DEF ReadSome, guiVars
  <2>2. CASE TakeSnapshot
    BY <1>2, <2>2, TakeSnapshotKeepsInv DEF TakeSnapshot, guiVars
  <2>3. CASE PostUpdate
    BY <1>2, <2>3, PostUpdateKeepsInv DEF PostUpdate, guiVars
  <2>4. CASE ReceiveThrows
    <3>1. listener' = "ended" /\ UNCHANGED <<version, wire, link, receiveBuffer, reply, guiQueue, shown>>
      BY <2>4 DEF ReceiveThrows, netVars, guiVars
    <3>2. Stream' = Stream
      BY <3>1 DEF Stream
    <3>3. DashboardType'
      BY <3>1 DEF DashboardInv, DashboardType
    <3> QED
      BY <1>2, <3>1, <3>2, <3>3, StreamElements, StreamShortened
  <2> QED
    BY <1>5, <2>1, <2>2, <2>3, <2>4 DEF Listen
<1>6. CASE Update
  BY <1>6, UpdateKeepsInv
<1>7. CASE ClickWithoutServer \/ CloseWindow \/ Join \/ UNCHANGED vars
  <2>1. UNCHANGED <<version, wire, link, receiveBuffer, listener, reply, guiQueue, shown>>
    BY <1>7 DEF ClickWithoutServer, CloseWindow, Join, vars, netVars, rcvVars, guiVars
  <2>2. Stream' = Stream
    BY <2>1 DEF Stream
  <2> QED
    BY <1>2, <2>1, <2>2 DEF DashboardInv, DashboardType, StreamInv, ViewInv
<1> QED
  BY <1>3, <1>4, <1>5, <1>6, <1>7 DEF Next

LEMMA DashboardInvariant == Spec => []DashboardInv
BY DashboardInit, DashboardNext, PTL DEF Spec

-----------------------------------------------------------------------------

\* However the reads cut the stream and wherever it breaks off, receiveMessage
\* returns, the queue holds and the tables are filled from whole snapshots only.
THEOREM TablesShowWholeSnapshots == Spec => []SnapshotsWhole
<1>1. DashboardInv => SnapshotsWhole
  <2> SUFFICES ASSUME DashboardInv, NEW r \in {shown} \cup Range(guiQueue)
               PROVE  \E v \in 0 .. version : r = Whole(v)
    BY DEF SnapshotsWhole
  <2>1. guiQueue \in Seq(Wholes) /\ DOMAIN guiQueue = 1 .. Len(guiQueue) /\ version \in Nat
    BY LenProperties DEF DashboardInv, DashboardType
  <2>2. r \in Wholes /\ Ver(r) <= version
    <3>1. CASE r = shown
      BY <3>1 DEF DashboardInv, DashboardType, ViewInv
    <3>2. CASE r \in Range(guiQueue)
      <4>1. PICK i \in 1 .. Len(guiQueue) : r = guiQueue[i]
        BY <2>1, <3>2 DEF Range
      <4> QED
        BY <2>1, <4>1, ElementOfSeq DEF DashboardInv, ViewInv
    <3> QED
      BY <3>1, <3>2
  <2>3. Ver(r) \in 0 .. version /\ r = Whole(Ver(r))
    BY <2>1, <2>2, WholeByVersion
  <2> QED
    BY <2>3
<1> QED
  BY <1>1, DashboardInvariant, PTL

\* The view never goes back: from the publisher over the network, the listener
\* and the event queue, nothing overtakes.
THEOREM ViewNeverGoesBack == Spec => ViewMovesForward
<1>1. DashboardInv /\ [Next]_vars => [shown'[1].version >= shown[1].version]_vars
  BY DashboardNext DEF Ver
<1> QED
  BY <1>1, DashboardInvariant, PTL DEF Spec, ViewMovesForward

=============================================================================
