---------------------------- MODULE EventBuilder ----------------------------
(***************************************************************************)
(* The event builder process (EventBuilder.cpp, DAQ build): it attaches to *)
(* CHICAGO_UNION, takes the events minervadaq put into ET, appends each to *)
(* the raw data file and puts it back, until it meets the sentinel, is     *)
(* told to quit by signals, or ET fails.                                   *)
(***************************************************************************)
EXTENDS ETSystem

CONSTANT EBFaults       \* may ET calls of the event builder fail, may it be killed?

ASSUME EBAssumption == EBFaults \in BOOLEAN

VARIABLES
  ebPc,             \* control point: see EBPoints
  ebContinue,       \* main()'s continueRunning
  waitingToQuit,    \* first quit signal received
  quitNow,          \* second quit signal received
  hand,             \* the event in hand, as a sequence of length 0 or 1
  raw,              \* the blocks this process has written, in order
  older             \* what the raw data file held when it was opened

ebVars == <<ebPc, ebContinue, waitingToQuit, quitNow, hand, raw, older>>

EBPoints == {"off", "starting", "loop", "getAsync", "getTimed", "write", "putBack",
             "detach", "exited"}

EBInit ==
  /\ ebPc = "off"
  /\ ebContinue = TRUE
  /\ waitingToQuit = FALSE
  /\ quitNow = FALSE
  /\ hand = <<>>
  /\ raw = <<>>
  /\ older = <<>>

-----------------------------------------------------------------------------
\* A fresh process.  It opens its output file for appending (ios::app): with the
\* name of an earlier run's file (reuse) it goes on behind what that run wrote.
StartEB(reuse) ==
  /\ ebPc' = "starting"
  /\ ebContinue' = TRUE
  /\ waitingToQuit' = FALSE
  /\ quitNow' = FALSE
  /\ hand' = <<>>
  /\ raw' = <<>>
  /\ older' = IF reuse THEN older \o raw ELSE <<>>

\* et_open, the heartbeat check, et_station_create and et_station_attach; from
\* here on the ready signal (SIGUSR1) is out.
EBAttach ==
  /\ ebPc = "starting"
  /\ etAlive
  /\ ETAttach
  /\ ebPc' = "loop"
  /\ UNCHANGED <<etAlive, ebContinue, waitingToQuit, quitNow, hand, raw, older>>

\* Any of those steps fails, or ET's heart does not beat for five minutes:
\* exit(EXIT_ETSTARTUP_ERROR).
EBStartupError ==
  /\ EBFaults \/ ~etAlive
  /\ ebPc = "starting"
  /\ ebPc' = "exited"
  /\ UNCHANGED <<etVars, ebContinue, waitingToQuit, quitNow, hand, raw, older>>

\* quitsignal_handler: the first signal asks to drain and quit, the second to
\* quit at once.
EBSignal ==
  /\ ebPc \in EBPoints \ {"off", "exited"}
  /\ ~quitNow
  /\ IF waitingToQuit
       THEN quitNow' = TRUE /\ UNCHANGED waitingToQuit
       ELSE waitingToQuit' = TRUE /\ UNCHANGED quitNow
  /\ UNCHANGED <<etVars, ebPc, ebContinue, hand, raw, older>>

\* The while condition holds and the user does not want to quit at once.
EBLooping == etAlive /\ ebContinue /\ ~(waitingToQuit /\ quitNow)

\* Mutant: every et_event_get has a time-out.
EBEnterLoopTimed ==
  /\ ebPc = "loop"
  /\ EBLooping
  /\ ebPc' = "getTimed"
  /\ UNCHANGED <<etVars, ebContinue, waitingToQuit, quitNow, hand, raw, older>>

\* The top of the loop: which kind of et_event_get is next.
EBEnterLoop ==
  /\ ebPc = "loop"
  /\ EBLooping
  /\ ebPc' = IF waitingToQuit THEN "getTimed" ELSE "getAsync"
  /\ UNCHANGED <<etVars, ebContinue, waitingToQuit, quitNow, hand, raw, older>>

\* et_event_get returned ET_OK.
EBGet ==
  /\ ebPc \in {"getAsync", "getTimed"}
  /\ etAlive
  /\ ETGet
  /\ hand' = <<Head(station)>>
  /\ ebPc' = "write"
  /\ UNCHANGED <<etAlive, attached, ebContinue, waitingToQuit, quitNow, raw, older>>

\* ET_ASYNC found no event (ET_ERROR_EMPTY) or the station busy
\* (ET_ERROR_BUSY): go round again.
EBEmpty ==
  /\ ebPc = "getAsync"
  /\ station = <<>> \/ EBFaults
  /\ ebPc' = "loop"
  /\ UNCHANGED <<etVars, ebContinue, waitingToQuit, quitNow, hand, raw, older>>

\* Mutant: the time-out does not end the loop.
EBTimeoutIgnored ==
  /\ ebPc = "getTimed"
  /\ station = <<>>
  /\ ebPc' = "loop"
  /\ UNCHANGED <<etVars, ebContinue, waitingToQuit, quitNow, hand, raw, older>>

\* ET_TIMED: no event for SECONDS_BEFORE_TIMEOUT.
EBTimeout ==
  /\ ebPc = "getTimed"
  /\ station = <<>>
  /\ ebContinue' = FALSE
  /\ ebPc' = "loop"
  /\ UNCHANGED <<etVars, waitingToQuit, quitNow, hand, raw, older>>

\* Mutant: the NEARLINE treatment of socket errors, which misses an event and
\* goes on.
EBGetErrorNearline ==
  /\ ebPc \in {"getAsync", "getTimed"}
  /\ EBFaults \/ ~etAlive
  /\ ETGet
  /\ hand' = <<>>
  /\ ebPc' = "loop"
  /\ UNCHANGED <<etAlive, attached, ebContinue, waitingToQuit, quitNow, raw, older>>

\* et_event_get failed: a socket error, ET_ERROR_DEAD or ET_ERROR_WAKEUP.
EBGetError ==
  /\ ebPc \in {"getAsync", "getTimed"}
  /\ EBFaults \/ ~etAlive
  /\ ebContinue' = FALSE
  /\ ebPc' = "loop"
  /\ UNCHANGED <<etVars, waitingToQuit, quitNow, hand, raw, older>>

\* Mutant: the sentinel is not recognised.
EBWriteOn ==
  /\ ebPc = "write"
  /\ raw' = Append(raw, hand[1])
  /\ ebPc' = "putBack"
  /\ UNCHANGED <<etVars, ebContinue, waitingToQuit, quitNow, hand, older>>

\* Write dataLength bytes, flush, and look at the leading bank type.
EBWrite ==
  /\ ebPc = "write"
  /\ raw' = Append(raw, hand[1])
  /\ ebContinue' = IF hand[1].lead = "Sentinel" THEN FALSE ELSE ebContinue
  /\ ebPc' = "putBack"
  /\ UNCHANGED <<etVars, waitingToQuit, quitNow, hand, older>>

\* Mutant: an event that could not be put back is written once more.
EBPutBackAgain ==
  /\ ebPc = "putBack"
  /\ \/ etAlive /\ ETReturn /\ hand' = <<>> /\ ebPc' = "loop"
     \/ /\ EBFaults \/ ~etAlive
        /\ ebPc' = "write"
        /\ UNCHANGED <<etFree, held, kept, station, hand>>
  /\ UNCHANGED <<etAlive, attached, ebContinue, waitingToQuit, quitNow, raw, older>>

\* et_event_put, whose status nobody looks at: on ET_ERROR_DEAD or ET_ERROR the
\* loop goes on and the event stays with the event builder's attachment.
EBPutBack ==
  /\ ebPc = "putBack"
  /\ \/ etAlive /\ ETReturn
     \/ (EBFaults \/ ~etAlive) /\ ETReturnFails
  /\ hand' = <<>>
  /\ ebPc' = "loop"
  /\ UNCHANGED <<etAlive, attached, ebContinue, waitingToQuit, quitNow, raw, older>>

\* The while condition is false, or quit_now makes the loop break.
EBLeaveLoop ==
  /\ ebPc = "loop"
  /\ ~EBLooping
  /\ ebPc' = "detach"
  /\ UNCHANGED <<etVars, ebContinue, waitingToQuit, quitNow, hand, raw, older>>

\* et_station_detach, et_close, close the output file; a failure of the first
\* two only changes the exit code.
EBDetach ==
  /\ ebPc = "detach"
  /\ ETDetach(Len(hand))
  /\ ebPc' = "exited"
  /\ UNCHANGED <<etAlive, ebContinue, waitingToQuit, quitNow, hand, raw, older>>

\* The process is killed; ET notices and releases what it held.
EBCrash ==
  /\ EBFaults
  /\ ebPc \in EBPoints \ {"off", "exited"}
  /\ ETDetach(Len(hand))
  /\ ebPc' = "exited"
  /\ hand' = <<>>
  /\ UNCHANGED <<etAlive, ebContinue, waitingToQuit, quitNow, raw, older>>

\* What the event builder itself does once it is running.
EBStep ==
  \/ EBAttach
  \/ EBStartupError
  \/ EBEnterLoop
  \/ EBGet
  \/ EBEmpty
  \/ EBTimeout
  \/ EBGetError
  \/ EBWrite
  \/ EBPutBack
  \/ EBLeaveLoop
  \/ EBDetach

=============================================================================
