----------------------------- MODULE DAQSystem -----------------------------
(***************************************************************************)
(* minervadaq and the event builder composed over ET, for a sequence of    *)
(* runs.  Whoever runs the DAQ (Run Control, or runthedaq's scripts)       *)
(* starts ET and the event builder, then minervadaq, and starts the next   *)
(* run when both have ended.                                               *)
(***************************************************************************)
EXTENDS MinervaDAQ, EventBuilder, FiniteSets

CONSTANT FileNames      \* how the files of a run may get their names

ASSUME FileNamesAssumption == FileNames \subseteq {"fresh", "reused"}

vars == <<daqVars, etVars, ebVars>>

Init == DAQInit /\ ETInit /\ EBInit

\* A new run: a fresh ET system and a new event builder.  Run Control names the
\* files of a run after it; start_daq_singleton, left to itself, always uses the
\* same names.
StartRun ==
  /\ pc \in {"down", "exited"}
  /\ ebPc \in {"off", "exited"}
  /\ run < MaxRuns
  /\ pc' = "down"
  /\ etAlive' = TRUE
  /\ etFree' = NEvents
  /\ held' = 0
  /\ kept' = 0
  /\ station' = <<>>
  /\ attached' = FALSE
  /\ \E name \in FileNames : StartEB(name = "reused") /\ NewRunFiles(name = "reused")
  /\ UNCHANGED <<resume, continueRunning, channel, sentSentinel, exitCode, run,
                 gate, globalGate, firstGate, ggFile, fileFault, runFault, stale,
                 dbVars, headers>>

\* ET's heartbeat stops, or comes back.
ETStall == "ET" \in Faults /\ etAlive /\ etAlive' = FALSE
           /\ UNCHANGED <<daqVars, etFree, held, kept, station, attached, ebVars>>

ETResume == ~etAlive /\ etAlive' = TRUE
            /\ UNCHANGED <<daqVars, etFree, held, kept, station, attached, ebVars>>

Environment ==
  \/ StartRun
  \/ StartDAQ(attached) /\ ebPc # "off" /\ UNCHANGED <<etVars, ebVars>>
  \/ QuitSignal /\ UNCHANGED ebVars
  \/ CrashDAQ /\ UNCHANGED ebVars
  \/ EBSignal /\ UNCHANGED daqVars
  \/ EBCrash /\ UNCHANGED daqVars
  \/ ETStall
  \/ ETResume

MinervaDAQStep == DAQStep /\ UNCHANGED ebVars

EventBuilderStep == EBStep /\ UNCHANGED daqVars

\* The bound on the number of runs is reached and both processes have ended.
AllRunsOver ==
  /\ run = MaxRuns
  /\ pc = "exited"
  /\ ebPc = "exited"
  /\ UNCHANGED vars

Next == Environment \/ MinervaDAQStep \/ EventBuilderStep \/ AllRunsOver

Spec == Init /\ [][Next]_vars

\* Both processes are scheduled.  Nothing makes a trigger arrive, though: the
\* wait for it is only certain to end once the quit flag is down.
FairSpec ==
  /\ Spec
  /\ WF_vars(MinervaDAQStep /\ (pc = "waitForIRQ" => ~continueRunning))
  /\ WF_vars(EventBuilderStep)

-----------------------------------------------------------------------------
\* The flags.
FlagsOK ==
  /\ etAlive \in BOOLEAN /\ attached \in BOOLEAN
  /\ continueRunning \in BOOLEAN /\ sentSentinel \in BOOLEAN
  /\ ebContinue \in BOOLEAN /\ waitingToQuit \in BOOLEAN /\ quitNow \in BOOLEAN
  /\ fileFault \in BOOLEAN /\ runFault \in BOOLEAN

\* Control points, counters, blocks and records.
ValuesOK ==
  /\ etFree \in 0..NEvents /\ held \in 0..NEvents /\ kept \in 0..NEvents
  /\ station \in Seq(Block) /\ hand \in Seq(Block)
  /\ raw \in Seq(Block) /\ older \in Seq(Block)
  /\ declared \in Seq(Block) /\ sent \in Seq(Block)
  /\ pc \in DAQPoints /\ resume \in DAQPoints /\ ebPc \in EBPoints
  /\ gate \in Nat /\ globalGate \in Nat /\ firstGate \in Nat /\ ggFile \in Nat
  /\ channel \in 1..(NChannels + 1)
  /\ exitCode \in {"none", "EXIT_CLEAN_SENTINEL", "EXIT_CLEAN_NOSENTINEL", "crash"}
  /\ run \in 0..MaxRuns
  /\ sam \in [MetadataFiles -> [run : Nat, events : Nat, firstEvent : Nat, lastEvent : Nat]]
  /\ stale \subseteq MetadataFiles
  /\ dbRuns \in Seq([run : Nat, first : Nat, last : Nat])
  /\ dbErrors \in Seq([run : Nat, gg : Nat])
  /\ headers \in Seq(Nat)

\* Every variable of both processes and of ET has its type: in particular the
\* channel iterator stays within one past the last channel and the pool within
\* its size.
TypeOK == FlagsOK /\ ValuesOK

\* ET's pool: an event is free, queued, in the event builder's hand, or stuck
\* with minervadaq or the event builder after a failed put, and no path through
\* either process (error paths, detach and kill included) leaks one.  minervadaq
\* sleeps in et_event_new when the pool runs dry.
PoolConserved == etFree + held + kept + Len(station) + Len(hand) = NEvents

\* What the event builder has appended to the raw data file is the first blocks
\* that minervadaq put into ET, each once and in order, whatever signals, errors and kills hit either process:
\* the event builder attaches before minervadaq is started.
RawIsPrefix ==
  WaitForReady =>
    /\ Len(raw) <= Len(sent)
    /\ \A i \in 1..Len(raw) : raw[i] = sent[i]

\* Also when minervadaq is started after a fixed delay (runthedaq's scripts),
\* and so perhaps before the event builder is attached, only the first blocks
\* of a run can be missing from the file: what is there has no holes.
RawHasNoHoles ==
  \E skipped \in 0..(Len(sent) - Len(raw)) :
    \A i \in 1..Len(raw) : raw[i] = sent[skipped + i]

\* A run's part of the file that ends with the sentinel is complete: it has every
\* block that minervadaq managed to put into ET during the run.
SentinelMeansComplete ==
  (WaitForReady /\ raw # <<>> /\ raw[Len(raw)].bank = "Sentinel") => raw = sent

\* What minervadaq declares is in the order offline decoding relies on, also
\* when an exception, a quit signal or a crash cuts a gate short: run header,
\* then per gate all channels and the DAQ header, and after the one sentinel
\* nothing.
RR == INSTANCE RunRecord WITH record <- raw

StreamInOrder == RR!InOrder(declared)

\* The global gate number of every DAQ header is larger than that of all
\* earlier ones, across gates, runs, exceptions and crashes, as long as the
\* global gate file can be opened at start-up and for writing; failing to open
\* it when a gate begins does no harm.
GlobalGatesIncrease ==
  ~fileFault => \A i, j \in 1..Len(headers) : i < j => headers[i] < headers[j]

DAQHeaders(blocks) == {i \in 1..Len(blocks) : blocks[i].bank = "DAQ"}

\* A SAM metadata file written by the current run spans exactly the gates it
\* counts, and has the DAQ headers of those gates in its range, except that the
\* header of the last one may be missing when the process stops between the two
\* writes.  If the file could be opened the last time, no header of the run lies
\* outside; if not, the file describes the run up to the last gate for which it
\* could.  Troubles with the global gate file in earlier runs, or when a gate
\* begins, do not matter.
MetadataMatchesHeaders ==
  \A f \in MetadataFiles :
    pc # "down" /\ ~runFault /\ sam[f].run = run /\ sam[f].events > 0 =>
      LET covered == {i \in DAQHeaders(declared) :
                        declared[i].gg \in sam[f].firstEvent..sam[f].lastEvent}
      IN  /\ sam[f].lastEvent = sam[f].firstEvent + sam[f].events - 1
          /\ Cardinality(covered) \in {sam[f].events - 1, sam[f].events}
          /\ f \notin stale => covered = DAQHeaders(declared)

\* The gate ranges that two runs leave in the database share at most the one
\* gate that was under way when the first of them was cut short.
RunRangesMeetAtMostOnce ==
  ~fileFault => \A i, j \in 1..Len(dbRuns) : i < j => dbRuns[i].last <= dbRuns[j].first

\* The row of a run covers every DAQ header of the run.
DBRowCoversHeaders ==
  \A k \in 1..Len(dbRuns) : dbRuns[k].run = run =>
    \A i \in DAQHeaders(declared) :
      ~runFault => declared[i].gg \in dbRuns[k].first..dbRuns[k].last

\* The raw data file obeys RunRecord: a run's record is in order, and nothing that
\* an earlier run left in the file is touched.  A block that ET refused would leave a
\* hole, so this is for an ET that works.
RawFileIsRunRecord == RR!Spec

\* exit_codes.h: EXIT_CLEAN_SENTINEL means "Sentinel frame is coming from this
\* node".  It is, after exceptions and signals too, if ET works; when ET refuses
\* the sentinel SendSentinel still returns true and the code is the same.
SentinelIsComing ==
  (pc = "exited" /\ exitCode = "EXIT_CLEAN_SENTINEL") =>
    \E i \in 1..Len(sent) : sent[i].bank = "Sentinel"

\* With a working ET, an event builder that ends without having been told to
\* has written the sentinel: exceptions in minervadaq, file and database
\* troubles, and minervadaq's death do not make it give up early.
QuitsAtSentinel ==
  ebPc = "exited" /\ ~waitingToQuit =>
    raw # <<>> /\ raw[Len(raw)].bank = "Sentinel"

\* Every byte of a block reaches the raw data file.
BlocksWhole == \A i \in 1..Len(raw) : raw[i].dataLength = raw[i].len

\* Once told to quit, minervadaq ends.
QuitLeadsToExit ==
  (~continueRunning /\ pc \notin {"down", "exited"}) ~> (pc = "exited")

\* Once a sentinel is queued at the station the event builder ends.
SentinelStopsBuilder ==
  (\E i \in 1..Len(station) : station[i].bank = "Sentinel") ~> (ebPc = "exited")

\* Once told to quit, the event builder ends.
SignalStopsBuilder == waitingToQuit ~> (ebPc = "exited")

=============================================================================
