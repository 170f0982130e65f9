--------------------------- MODULE ClientSession ---------------------------
(***************************************************************************)
(* One session of the server with its dashboard: the read path, from the   *)
(* buttons to the calls of the engine (OrderEntry), and the write path     *)
(* (SessionWriter).  The two run on threads of one process, which ends,    *)
(* and its connections with it, when an exception leaves a read handler,   *)
(* this session's or another's.                                            *)
(***************************************************************************)
EXTENDS SessionWriter

CONSTANTS Empty, Word, PriceTexts, NumberTexts, OtherLines, IntMax, MaxClicks

\* A text is missing, is no number, or is a number.
ASSUME TextsAssumption ==
  /\ PriceTexts \cup NumberTexts \subseteq Int \cup {Empty, Word}
  /\ Word \notin Int
ASSUME IntMaxAssumption == IntMax \in Nat

VARIABLES entered, wire, calls, session

Entry == INSTANCE OrderEntry

entryVars == <<entered, wire, calls, session>>

sessionVars == <<vars, entryVars>>

SessionInit == Init /\ Entry!Init

ProcessLives == session = "reading" /\ UNCHANGED entryVars

\* The connections of a process that ends are closed.
ConnectionEnds == socketUp' = FALSE /\ UNCHANGED <<queueVars, pubVars, writes, sent>>

SessionNext ==
  \/ Next /\ ProcessLives
  \/ Entry!Next /\ IF session' = session THEN UNCHANGED vars ELSE ConnectionEnds

\* SessionWriter's, as long as the process lives.
SessionFairness ==
  /\ WF_sessionVars(Proceed /\ ProcessLives)
  /\ SF_sessionVars(Handle /\ ProcessLives)

SessionSpec == SessionInit /\ [][SessionNext]_sessionVars /\ SessionFairness

-----------------------------------------------------------------------------

\* The engine gets what the user of the dashboard entered, call by call.
EngineGetsWhatWasEntered == Entry!EngineGetsWhatWasEntered

\* No line the dashboard can send ends the server.
LinesParse == Entry!LinesParse

=============================================================================
