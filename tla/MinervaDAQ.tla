----------------------------- MODULE MinervaDAQ -----------------------------
(***************************************************************************)
(* The minervadaq process: daqmain.cpp's main(), DAQWorker and             *)
(* ReadoutStateRecorder, over a sequence of runs that share the global     *)
(* gate file and the run database.                                         *)
(*                                                                         *)
(* The hardware below ReadoutWorker is reduced to the outcomes its calls   *)
(* have here: success, an FHWException, or (while waiting for the trigger) *)
(* a time-out.  A block read from a channel is its length, a 17-bit value  *)
(* of the DPM pointer; what leadBankType() says about it is computed from  *)
(* the length that survives the conversion to unsigned short.              *)
(***************************************************************************)
EXTENDS ETSystem, Integers

CONSTANTS
  NumberOfGates,    \* args->numberOfGates
  NChannels,        \* number of readoutChannels
  BlockLengths,     \* DPM pointer values the channels may hold
  GlobalGate0,      \* content of the global gate file before the first run
  MaxRuns,          \* bound on the number of runs in a behaviour
  MetadataFiles,    \* the files FinishGate rewrites: SAM Python and SAM JSON
  WaitForReady,     \* does whoever starts minervadaq wait for SIGUSR1?
  Faults            \* which kinds of fault the environment may inject

FaultKinds == {"ET", "HW", "File", "DB", "Crash"}

ASSUME DAQAssumption ==
  /\ NumberOfGates \in Nat
  /\ NChannels \in Nat \ {0}
  /\ BlockLengths \subseteq Nat /\ \A len \in BlockLengths : len < 131072
  /\ GlobalGate0 \in Nat
  /\ MaxRuns \in Nat
  /\ WaitForReady \in BOOLEAN
  /\ Faults \subseteq FaultKinds

VARIABLES
  pc,               \* control point of minervadaq, see DAQPoints
  resume,           \* where to go on after et_wait_for_alive
  continueRunning,  \* cleared by the signal handler
  gate,             \* ReadoutStateRecorder::gate
  globalGate,       \* ReadoutStateRecorder::globalGate
  firstGate,        \* ReadoutStateRecorder::firstGate
  channel,          \* position of currentChannel in readoutChannels
  sentSentinel,     \* main()'s sentSentinel
  exitCode,         \* how the process ended
  run,              \* number of the current run, 0 before the first
  ggFile,           \* the global gate file
  sam,              \* the SAM metadata files
  dbRuns, dbErrors, \* tables RUNSUBRUN and HWERRORS
  declared,         \* history: blocks handed to ContactEventBuilder, this run
  sent,             \* history: blocks et_event_put accepted, this run
  headers,          \* history: global gates of all declared DAQ headers
  fileFault,        \* history: has a global gate ever been lost, because the file
                    \* could not be opened at start-up or for writing?
  runFault,         \* history: has that happened in this run?
  stale             \* history: metadata files that could not be opened the last
                    \* time this run was to write them

mainVars     == <<pc, resume, continueRunning, channel, sentSentinel, exitCode, run>>
recorderVars == <<gate, globalGate, firstGate, ggFile, sam, fileFault, runFault, stale>>
dbVars       == <<dbRuns, dbErrors>>
histVars     == <<declared, sent, headers>>
daqVars      == <<mainVars, recorderVars, dbVars, histVars>>

DAQPoints == {"down", "setUpET", "initializeHardware", "runHeader", "beginGate",
              "waitForIRQ", "waitForSequencer", "readChannel", "finishGate",
              "writeMetadata", "daqHeader", "resetInterrupts", "sentinel",
              "closeDownET", "cleanupHardware", "catch", "writeRunData",
              "waitForAlive", "exited"}

\* The bank type found at data[5] of a declared block.
Banks == {"Run", "Data", "DAQ", "Sentinel"}

Block == [bank : Banks, gate : Nat, gg : Nat, ch : Nat,
          len : Nat, dataLength : Nat, lead : Banks]

NoMetadata == [run |-> 0, events |-> 0, firstEvent |-> 0, lastEvent |-> 0]

-----------------------------------------------------------------------------
\* Headers are far shorter than 64 kB and start with their own bank type.
Header(bank) ==
  [bank |-> bank, gate |-> gate, gg |-> globalGate, ch |-> 0,
   len |-> 48, dataLength |-> 48, lead |-> bank]

\* SequencerReadoutBlock::SetData and EventHandler::dataLength keep 16 bits of
\* the block's length.
DataLength(len) == len % 65536

\* EventHandler::leadBankType reads data[5] unchecked: with fewer than six
\* bytes copied it finds whatever malloc returned.
LeadBanks(dataLength) ==
  IF dataLength > 5 THEN {"Data"} ELSE {"Data", "Sentinel"}

\* CreateEventHandler on the block read from the current channel.
DataBlocks ==
  UNION {{[bank |-> "Data", gate |-> gate, gg |-> globalGate, ch |-> channel,
           len |-> len, dataLength |-> DataLength(len), lead |-> lead] :
            lead \in LeadBanks(DataLength(len))} : len \in BlockLengths}

\* DeclareDataBlock: ContactEventBuilder, whose result nobody looks at.
\*  1. the event is put into ET and ET is still alive afterwards;
\*  2. it is put, but ET is found dead afterwards: et_wait_for_alive;
\*  3. ET is dead or et_event_new fails: the block is dropped;
\*  4. et_event_put fails, or et_event_new once it has the event (no temp file):
\*     the block is dropped, its event stays with us.
Declare(e, next) ==
  /\ declared' = Append(declared, e)
  /\ \/ /\ etAlive
        /\ ETPut(e)
        /\ sent' = Append(sent, e)
        /\ pc' = next
        /\ UNCHANGED <<resume, etAlive, attached>>
     \/ /\ "ET" \in Faults
        /\ etAlive
        /\ ETPut(e)
        /\ sent' = Append(sent, e)
        /\ etAlive' = FALSE
        /\ pc' = "waitForAlive"
        /\ resume' = next
        /\ UNCHANGED attached
     \/ /\ ~etAlive \/ "ET" \in Faults
        /\ pc' = next
        /\ UNCHANGED <<resume, sent, etVars>>
     \/ /\ "ET" \in Faults
        /\ etAlive
        /\ ETPutFails
        /\ pc' = next
        /\ UNCHANGED <<resume, sent, etAlive, attached>>

\* et_wait_for_alive returns once ET's heart beats again.
EtWaitForAlive ==
  /\ pc = "waitForAlive"
  /\ etAlive
  /\ pc' = resume
  /\ UNCHANGED <<resume, continueRunning, channel, sentSentinel, exitCode, run,
                 recorderVars, dbVars, histVars, etVars>>

\* An FHWException leaves the try block of main().
Throw == "HW" \in Faults /\ pc' = "catch"

-----------------------------------------------------------------------------
\* Powers of ten; a bound of the model: global gates stay below 10^9.
Tens == {1, 10, 100, 1000, 10000, 100000, 1000000, 10000000, 100000000}

\* The weight of the first decimal digit of n.
LeadWeight(n) ==
  IF n = 0 THEN 1
  ELSE CHOOSE t \in Tens : t <= n /\ \A u \in Tens : u <= n => u <= t

\* WriteGlobalGateToFile does not truncate the file: a number with fewer digits
\* than the old one leaves the old one's last digits behind it.
Overwrite(old, new) ==
  IF LeadWeight(old) <= LeadWeight(new) THEN new
  ELSE LET w == LeadWeight(old) \div LeadWeight(new) IN new * w + (old % w)

\* GetGlobalGateFromFile: a file that cannot be opened leaves globalGate as it
\* was.
GlobalGateFromFile(current) ==
  {ggFile} \cup (IF "File" \in Faults THEN {current} ELSE {})

\* Mutant: the first gate of a run is the last one of the previous run.
FirstGateNotAdvanced(lastGate) == lastGate

\* firstGate, from the last global gate of the previous runs.
FirstGate(lastGate) == lastGate + 1

\* A new run has raw data and SAM files of its own, unless it is given the file
\* names of the last one (reuse).
NewRunFiles(reuse) ==
  /\ sam' = IF reuse THEN sam ELSE [f \in MetadataFiles |-> NoMetadata]
  /\ declared' = <<>>
  /\ sent' = <<>>

\* main() up to the DAQWorker constructor, which creates the recorder.  ready
\* says that the event builder has sent its ready signal.
StartDAQ(ready) ==
  /\ pc = "down"
  /\ run < MaxRuns
  /\ WaitForReady => ready
  /\ run' = run + 1
  /\ pc' = "setUpET"
  /\ continueRunning' = TRUE
  /\ gate' = 0
  /\ globalGate' \in GlobalGateFromFile(0)
  /\ runFault' = (globalGate' # ggFile)
  /\ fileFault' = (fileFault \/ runFault')
  /\ firstGate' = FirstGate(globalGate')
  /\ channel' = 1
  /\ sentSentinel' = FALSE
  /\ exitCode' = "none"
  /\ stale' = {}
  /\ UNCHANGED <<resume, ggFile, sam, dbVars, histVars>>

\* quitsignal_handler of daqmain: SIGINT or SIGTERM.
QuitSignal ==
  /\ pc \notin {"down", "exited"}
  /\ continueRunning
  /\ continueRunning' = FALSE
  /\ UNCHANGED <<pc, resume, channel, sentSentinel, exitCode, run,
                 recorderVars, dbVars, histVars, etVars>>

\* SetUpET, and main()'s test of its result.
SetUpET ==
  /\ pc = "setUpET"
  /\ \/ etAlive /\ pc' = "initializeHardware"
     \/ (~etAlive \/ "ET" \in Faults) /\ pc' = "writeRunData"
  /\ UNCHANGED <<resume, continueRunning, channel, sentSentinel, exitCode, run,
                 recorderVars, dbVars, histVars, etVars>>

\* InitializeHardware; TakeData begins with the run header.
InitializeHardware ==
  /\ pc = "initializeHardware"
  /\ pc' = "runHeader" \/ Throw
  /\ UNCHANGED <<resume, continueRunning, channel, sentSentinel, exitCode, run,
                 recorderVars, dbVars, histVars, etVars>>

\* GetRunHeader reads the cards' registers, and may throw.
DeclareRunHeaderToET ==
  /\ pc = "runHeader"
  /\ \/ Declare(Header("Run"), "beginGate")
     \/ Throw /\ UNCHANGED <<resume, declared, sent, etVars>>
  /\ UNCHANGED <<continueRunning, channel, sentSentinel, exitCode, run,
                 recorderVars, dbVars, headers>>

\* ReadoutStateRecorder::MoreGates.
MoreGates == gate + 1 <= NumberOfGates

\* DAQWorker::BeginNextGate up to the wait for the trigger.
BeginNextGate ==
  /\ pc = "beginGate"
  /\ IF continueRunning /\ MoreGates
       THEN pc' = "waitForIRQ" /\ channel' = 1
       ELSE pc' = "resetInterrupts" /\ UNCHANGED channel
  /\ UNCHANGED <<resume, continueRunning, sentSentinel, exitCode, run,
                 recorderVars, dbVars, histVars, etVars>>

\* Mutant: the polling loop does not look at the quit flag.
WaitForIRQOnly ==
  /\ pc = "waitForIRQ"
  /\ continueRunning
  /\ pc' \in {"waitForSequencer", "resetInterrupts"}
  /\ UNCHANGED <<resume, continueRunning, channel, sentSentinel, exitCode, run,
                 recorderVars, dbVars, histVars, etVars>>

\* The polling loop inside Trigger: an interrupt (the last poll may find one
\* although a quit signal has just come in), or a false return because of the
\* quit flag or the time-out (triggerTime = 0 ends TakeData's loop).
WaitForIRQ ==
  /\ pc = "waitForIRQ"
  /\ pc' \in {"waitForSequencer", "resetInterrupts"} \/ Throw
  /\ UNCHANGED <<resume, continueRunning, channel, sentSentinel, exitCode, run,
                 recorderVars, dbVars, histVars, etVars>>

\* WaitForSequencerReadoutCompletion, then ReadoutStateRecorder::BeginNextGate
\* counts the gate and takes the next global gate from the file.
WaitForSequencer ==
  /\ pc = "waitForSequencer"
  /\ \/ /\ gate' = gate + 1
        /\ globalGate' \in {g + 1 : g \in GlobalGateFromFile(globalGate)}
        /\ pc' = IF gate' <= NumberOfGates THEN "readChannel" ELSE "resetInterrupts"
     \/ Throw /\ UNCHANGED <<gate, globalGate>>
  /\ UNCHANGED <<resume, continueRunning, channel, sentSentinel, exitCode, run,
                 firstGate, ggFile, sam, fileFault, runFault, stale, dbVars, histVars,
                 etVars>>

\* Mutant: an off-by-one at the end of readoutChannels.
OneMoreChannel == channel <= NChannels

\* What MoveToNextChannel answers.
MoveToNextChannel == channel < NChannels

\* One turn of TakeData's do-while: read the block of the current channel,
\* declare it, MoveToNextChannel.
ReadChannel ==
  /\ pc = "readChannel"
  /\ \/ /\ \E e \in DataBlocks :
             Declare(e, IF MoveToNextChannel THEN "readChannel" ELSE "finishGate")
        /\ channel' = channel + 1
     \/ Throw /\ UNCHANGED <<resume, channel, declared, sent, etVars>>
  /\ UNCHANGED <<continueRunning, sentSentinel, exitCode, run,
                 recorderVars, dbVars, headers>>

\* Mutant: the global gate is not saved.
FinishGateUnsaved ==
  /\ pc = "finishGate"
  /\ pc' = "writeMetadata"
  /\ UNCHANGED <<resume, continueRunning, channel, sentSentinel, exitCode, run,
                 recorderVars, dbVars, histVars, etVars>>

\* DAQWorker::FinishGate up to WriteGlobalGateToFile; reading the MINOS SGATE
\* time may throw.
FinishGate ==
  /\ pc = "finishGate"
  /\ \/ /\ pc' = "writeMetadata"
        /\ \/ ggFile' = Overwrite(ggFile, globalGate) /\ UNCHANGED <<fileFault, runFault>>
           \/ /\ "File" \in Faults
              /\ fileFault' = TRUE
              /\ runFault' = TRUE
              /\ UNCHANGED ggFile
     \/ Throw /\ UNCHANGED <<ggFile, fileFault, runFault>>
  /\ UNCHANGED <<resume, continueRunning, channel, sentSentinel, exitCode, run,
                 gate, globalGate, firstGate, sam, stale, dbVars, histVars, etVars>>

\* What FinishGate has to say about the run so far.
Metadata == [run |-> run, events |-> gate, firstEvent |-> firstGate, lastEvent |-> globalGate]

\* The rest of ReadoutStateRecorder::FinishGate: each metadata file is written
\* anew, or keeps its contents when it cannot be opened.
WriteMetadata ==
  /\ pc = "writeMetadata"
  /\ \E unopened \in SUBSET MetadataFiles :
       /\ unopened # {} => "File" \in Faults
       /\ sam' = [f \in MetadataFiles |-> IF f \in unopened THEN sam[f] ELSE Metadata]
       /\ stale' = unopened
  /\ pc' = "daqHeader"
  /\ UNCHANGED <<resume, continueRunning, channel, sentSentinel, exitCode, run,
                 gate, globalGate, firstGate, ggFile, fileFault, runFault, dbVars, histVars, etVars>>

DeclareDAQHeaderToET ==
  /\ pc = "daqHeader"
  /\ Declare(Header("DAQ"), "beginGate")
  /\ headers' = Append(headers, globalGate)
  /\ UNCHANGED <<continueRunning, channel, sentSentinel, exitCode, run,
                 recorderVars, dbVars>>

\* InterruptResetToDefault at the end of TakeData.
InterruptResetToDefault ==
  /\ pc = "resetInterrupts"
  /\ pc' = "sentinel" \/ Throw
  /\ UNCHANGED <<resume, continueRunning, channel, sentSentinel, exitCode, run,
                 recorderVars, dbVars, histVars, etVars>>

\* sentSentinel = worker->SendSentinel(), which always returns true.
SendSentinel ==
  /\ pc = "sentinel"
  /\ Declare(Header("Sentinel"), "closeDownET")
  /\ sentSentinel' = TRUE
  /\ UNCHANGED <<continueRunning, channel, exitCode, run,
                 recorderVars, dbVars, headers>>

\* CloseDownET: detach from GRANDCENTRAL; a failure is only logged.
CloseDownET ==
  /\ pc = "closeDownET"
  /\ pc' = "cleanupHardware"
  /\ \/ ETReleaseProducer
     \/ (~etAlive \/ "ET" \in Faults) /\ UNCHANGED etVars
  /\ UNCHANGED <<resume, continueRunning, channel, sentSentinel, exitCode, run,
                 recorderVars, dbVars, histVars>>

CleanupHardware ==
  /\ pc = "cleanupHardware"
  /\ pc' = "writeRunData" \/ Throw
  /\ UNCHANGED <<resume, continueRunning, channel, sentSentinel, exitCode, run,
                 recorderVars, dbVars, histVars, etVars>>

\* AddErrorToDB: at most one row per run and subrun, the table's primary key.
\* A std::exception that is no FHWException is not recorded.
AddErrorToDB ==
  \/ dbErrors' = IF \E i \in 1..Len(dbErrors) : dbErrors[i].run = run
                   THEN dbErrors
                   ELSE Append(dbErrors, [run |-> run, gg |-> globalGate])
  \/ UNCHANGED dbErrors

\* Mutant: the sentinel is sent whether or not it has been sent before.
CatchAndResend ==
  /\ pc = "catch"
  /\ AddErrorToDB
  /\ Declare(Header("Sentinel"), "writeRunData")
  /\ sentSentinel' = TRUE
  /\ UNCHANGED <<continueRunning, channel, exitCode, run,
                 recorderVars, dbRuns, headers>>

\* Mutant: the sentinel is taken for sent after an exception.
CatchAndForget ==
  /\ pc = "catch"
  /\ AddErrorToDB
  /\ pc' = "writeRunData"
  /\ sentSentinel' = TRUE
  /\ UNCHANGED <<resume, declared, sent, etVars, continueRunning, channel, exitCode,
                 run, recorderVars, dbRuns, headers>>

\* The catch clauses of main(): record the error, send the sentinel unless it
\* has been sent.
CatchException ==
  /\ pc = "catch"
  /\ AddErrorToDB
  /\ IF sentSentinel
       THEN pc' = "writeRunData" /\ UNCHANGED <<resume, declared, sent, etVars>>
       ELSE Declare(Header("Sentinel"), "writeRunData")
  /\ sentSentinel' = TRUE
  /\ UNCHANGED <<continueRunning, channel, exitCode, run,
                 recorderVars, dbRuns, headers>>

\* Mutant: a half-open range of gates.
RunDataHalfOpen == [run |-> run, first |-> firstGate, last |-> globalGate + 1]

\* Mutant: the gate under way is left out of the range.
RunDataOneShort == [run |-> run, first |-> firstGate, last |-> globalGate - 1]

\* The row AddRunDataToDB inserts into RUNSUBRUN.
RunData == [run |-> run, first |-> firstGate, last |-> globalGate]

\* WriteRunDataToDB and the end of main().
WriteRunDataToDB ==
  /\ pc = "writeRunData"
  /\ \/ dbRuns' = Append(dbRuns, RunData)
     \/ "DB" \in Faults /\ UNCHANGED dbRuns
  /\ exitCode' = IF sentSentinel THEN "EXIT_CLEAN_SENTINEL" ELSE "EXIT_CLEAN_NOSENTINEL"
  /\ pc' = "exited"
  /\ ETReleaseProducer
  /\ UNCHANGED <<resume, continueRunning, channel, sentSentinel, run,
                 recorderVars, dbErrors, histVars>>

\* The process dies between two steps: SIGKILL, an abort, or one of the exit()
\* calls below ReadoutWorker.
CrashDAQ ==
  /\ "Crash" \in Faults
  /\ pc \notin {"down", "exited"}
  /\ pc' = "exited"
  /\ exitCode' = "crash"
  /\ ETReleaseProducer
  /\ UNCHANGED <<resume, continueRunning, channel, sentSentinel, run,
                 recorderVars, dbVars, histVars>>

DAQInit ==
  /\ pc = "down"
  /\ resume = "down"
  /\ continueRunning = TRUE
  /\ gate = 0
  /\ globalGate = 0
  /\ firstGate = 0
  /\ channel = 1
  /\ sentSentinel = FALSE
  /\ exitCode = "none"
  /\ run = 0
  /\ ggFile = GlobalGate0
  /\ sam = [f \in MetadataFiles |-> NoMetadata]
  /\ stale = {}
  /\ dbRuns = <<>>
  /\ dbErrors = <<>>
  /\ declared = <<>>
  /\ sent = <<>>
  /\ headers = <<>>
  /\ fileFault = FALSE
  /\ runFault = FALSE

\* What minervadaq itself does, whatever the environment is doing.
DAQStep ==
  \/ EtWaitForAlive
  \/ SetUpET
  \/ InitializeHardware
  \/ DeclareRunHeaderToET
  \/ BeginNextGate
  \/ WaitForIRQ
  \/ WaitForSequencer
  \/ ReadChannel
  \/ FinishGate
  \/ WriteMetadata
  \/ DeclareDAQHeaderToET
  \/ InterruptResetToDefault
  \/ SendSentinel
  \/ CloseDownET
  \/ CleanupHardware
  \/ CatchException
  \/ WriteRunDataToDB

=============================================================================
