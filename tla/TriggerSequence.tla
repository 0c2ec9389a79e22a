--------------------------- MODULE TriggerSequence ---------------------------
(***************************************************************************)
(* How ReadoutWorker gets the detector to open one gate and waits until    *)
(* its data are in the memories of the channels: InitializeCrates,         *)
(* Trigger (all modes but the test-beam ones, which use TriggerCosmics),   *)
(* the CRIM interrupt polling and the end of TakeData, VME access by VME   *)
(* access, against a beam that does not wait for the DAQ.                  *)
(*                                                                         *)
(* The modules behind the VME bus are external.  A CRIM lets a gate        *)
(* through only while its sequencer latch is reset, and the gate sets the  *)
(* latch; the master's gate leaves an interrupt (SGATEFall) pending.  Some *)
(* time after its CRIM's gate a channel's sequencer starts (RDFE), which   *)
(* takes the RDFEDone bit down, and ends, which puts it up.                *)
(***************************************************************************)
EXTENDS Naturals, Sequences, FiniteSets

CONSTANTS
  NCrims,           \* CRIMs, in the order the loops over crates visit them
  NChannels,        \* channels with front-end boards, in that order
  CrimOf,           \* which CRIM's gate a channel gets: the cabling
  RunModes,         \* the values of args->runMode
  NumberOfGates,    \* args->numberOfGates
  MaxRuns,          \* bound on the runs that follow one another
  MaxSpills,        \* bound on the beam spills that find an open CRIM
  VMEFaults         \* may VME accesses fail, and the bus go down?

Crims    == 1..NCrims
Channels == 1..NChannels
Modes    == {"OneShot", "NuMIBeam", "PureLightInjection",
             "MixedBeamPedestal", "MixedBeamLightInjection"}

ASSUME TriggerAssumption ==
  /\ NCrims \in Nat \ {0} /\ NChannels \in Nat \ {0}
  /\ CrimOf \in [Channels -> Crims]
  /\ RunModes \subseteq Modes
  /\ NumberOfGates \in Nat /\ MaxRuns \in Nat /\ MaxSpills \in Nat
  /\ VMEFaults \in BOOLEAN

VARIABLES
  pc, idx,          \* control point, and position in the loop it stands for
  continueRunning,  \* *status, cleared by the signal handler
  gate,             \* ReadoutStateRecorder::gate
  trig,             \* its triggerType
  interruptStatus,  \* the local of EnableIRQ and of WaitForIRQ
  waited,           \* has the polling loop gone round without an interrupt?
  run, mode,        \* number of the current run, and its args->runMode
  outcome,          \* how the last run ended
  bus,              \* does the VME bus answer?
  latch,            \* per CRIM: is the sequencer latch set, i.e. are gates barred?
  opened,           \* per CRIM: the last gate it let through, 0 for none
  pending,          \* the master CRIM's pending interrupt
  sequencer,        \* per channel: is sequencer read-out enabled?
  due,              \* per channel: a gate whose RDFE has still to start, or 0
  rdfe,             \* per channel: "idle", "busy", "done" or "error"
  memory,           \* per channel: the gate whose data are in its memory
  source,           \* history: what each gate was, "spill" or "software"
  readouts,         \* history: the gates that were read out
  cutShort          \* history: did a signal cut the last sleep short?

control  == <<pc, idx, continueRunning, gate, trig, interruptStatus, waited,
              run, mode, outcome, readouts, cutShort>>
crimVars == <<bus, latch, opened, pending, source>>
channelVars == <<sequencer, due, rdfe, memory>>
vars     == <<control, crimVars, channelVars>>

\* ReadoutWorker::MasterCRIM: the first CRIM of the first crate.
Master == 1

OpenCrims == {c \in Crims : ~latch[c]}

Spills == {i \in 1..Len(source) : source[i] = "spill"}

-----------------------------------------------------------------------------
\* The hardware.

\* A gate that the CRIMs in S let through.
OpenGate(S, kind) ==
  LET id == Len(source) + 1 IN
  /\ source' = Append(source, kind)
  /\ latch' = [c \in Crims |-> latch[c] \/ c \in S]
  /\ opened' = [c \in Crims |-> IF c \in S THEN id ELSE opened[c]]
  /\ pending' = (pending \/ Master \in S)
  /\ due' = [h \in Channels |->
               IF CrimOf[h] \in S /\ sequencer[h] THEN id ELSE due[h]]
  /\ UNCHANGED <<bus, sequencer, rdfe, memory>>

\* A beam spill reaches all CRIMs at once.
Spill ==
  /\ Cardinality(Spills) < MaxSpills
  /\ OpenCrims # {}
  /\ OpenGate(OpenCrims, "spill")
  /\ UNCHANGED control

\* The sequencer of channel h starts to read the front-end boards.
StartRDFE(h) ==
  /\ due[h] # 0
  /\ rdfe[h] # "busy"
  /\ due' = [due EXCEPT ![h] = 0]
  /\ rdfe' = [rdfe EXCEPT ![h] = "busy"]
  /\ memory' = [memory EXCEPT ![h] = due[h]]
  /\ UNCHANGED <<control, crimVars, sequencer>>

\* It ends, with RDFEDone or with one of the error bits.
FinishRDFE(h) ==
  /\ rdfe[h] = "busy"
  /\ \E end \in {"done"} \cup (IF VMEFaults THEN {"error"} ELSE {}) :
       rdfe' = [rdfe EXCEPT ![h] = end]
  /\ UNCHANGED <<control, crimVars, sequencer, due, memory>>

\* The bus stops answering, or answers again.
BusFails ==
  /\ VMEFaults
  /\ bus' = ~bus
  /\ UNCHANGED <<control, latch, opened, pending, source, channelVars>>

Hardware == Spill \/ BusFails \/ \E h \in Channels : StartRDFE(h) \/ FinishRDFE(h)

-----------------------------------------------------------------------------
\* minervadaq.

\* Mutant: the loop runs one past the end.
TurnPastEnd(n, next) ==
  IF idx <= n THEN idx' = idx + 1 /\ UNCHANGED pc
              ELSE idx' = 1 /\ pc' = next

\* One turn of a loop over n modules; the next point after the last.
Turn(n, next) ==
  IF idx < n THEN idx' = idx + 1 /\ UNCHANGED pc
             ELSE idx' = 1 /\ pc' = next

\* ClearAndResetStatusRegister of channel h.
ClearAndResetStatus(h) ==
  /\ rdfe' = [rdfe EXCEPT ![h] = "idle"]
  /\ memory' = [memory EXCEPT ![h] = 0]

\* Read-out of channel h by its sequencer, switched on and off.
EnableSequencerReadout(h) ==
  /\ sequencer' = [sequencer EXCEPT ![h] = TRUE]
  /\ UNCHANGED due

DisableSequencerReadout(h) ==
  /\ sequencer' = [sequencer EXCEPT ![h] = FALSE]
  /\ due' = [due EXCEPT ![h] = 0]

\* What ECROC::Initialize does to channel h.
InitializeChannel(h) ==
  /\ ClearAndResetStatus(h)
  /\ EnableSequencerReadout(h)

\* Does the status of channel h show one of the bits that DecodeStatusMessage
\* and DecodeTxRxMessage count as errors?
FrameErrors(h) == rdfe[h] = "error"

\* A new minervadaq process; the modules keep what the last one left in them.
StartRun ==
  /\ pc = "off"
  /\ run < MaxRuns
  /\ run' = run + 1
  /\ mode' \in RunModes
  /\ pc' = "addECROC"
  /\ idx' = 1
  /\ continueRunning' = TRUE
  /\ gate' = 0
  /\ trig' = "UnknownTrigger"
  /\ outcome' = "none"
  /\ cutShort' = FALSE
  /\ UNCHANGED <<interruptStatus, waited, readouts, crimVars,
                 channelVars>>

\* SIGINT or SIGTERM, while minervadaq is not in nanosleep (see CutSleep).
QuitSignal ==
  /\ pc # "off"
  /\ continueRunning
  /\ continueRunning' = FALSE
  /\ UNCHANGED <<pc, idx, gate, trig, interruptStatus, waited, run, mode, outcome,
                 readouts, cutShort, crimVars, channelVars>>

\* VMECrate::AddECROC: the channels are cleared and read-out by the sequencer
\* is switched off while the front-end boards are looked for.
AddECROC ==
  /\ pc = "addECROC"
  /\ ClearAndResetStatus(idx)
  /\ DisableSequencerReadout(idx)
  /\ Turn(NChannels, "initialize")
  /\ UNCHANGED <<continueRunning, gate, trig, interruptStatus, waited, run, mode,
                 outcome, readouts, cutShort, crimVars>>

\* InitializeCrates, channel by channel; it ends with EnableIRQ.
InitializeCrates ==
  /\ pc = "initialize"
  /\ InitializeChannel(idx)
  /\ Turn(NChannels, "enableIRQ")
  /\ UNCHANGED <<continueRunning, gate, trig, interruptStatus, waited, run, mode,
                 outcome, readouts, cutShort, crimVars>>

\* CRIM::EnableIRQ on the master: SetupInterruptMask and GetInterruptStatus ...
EnableIRQ ==
  /\ pc = "enableIRQ"
  /\ interruptStatus' = pending
  /\ pc' = "clearPending"
  /\ UNCHANGED <<idx, continueRunning, gate, trig, waited, run, mode, outcome,
                 readouts, cutShort, crimVars, channelVars>>

\* Mutant: old interrupts are left pending.
KeepPendingInterrupts ==
  /\ pc = "clearPending"
  /\ pc' = IF trig = "UnknownTrigger" THEN "beginGate" ELSE "softwareGate"
  /\ UNCHANGED <<idx, continueRunning, gate, trig, interruptStatus, waited, run,
                 mode, outcome, readouts, cutShort, crimVars, channelVars>>

\* ... ClearPendingInterrupts, if the status read was not 0,
\* ResetGlobalEnableIRQ and CAENVMEEnableIRQ.
ClearPendingInterrupts ==
  /\ pc = "clearPending"
  /\ pending' = (pending /\ ~interruptStatus)
  /\ pc' = IF trig = "UnknownTrigger" THEN "beginGate" ELSE "softwareGate"
  /\ UNCHANGED <<idx, continueRunning, gate, trig, interruptStatus, waited, run,
                 mode, outcome, readouts, cutShort, bus, latch, opened, source,
                 channelVars>>

\* ReadoutStateRecorder::GetNextTriggerType.
GetNextTriggerType ==
  CASE mode = "OneShot" -> "Pedestal"
    [] mode = "NuMIBeam" -> "NuMI"
    [] mode = "PureLightInjection" -> "LightInjection"
    [] mode = "MixedBeamPedestal" -> IF gate % 2 = 1 THEN "Pedestal" ELSE "NuMI"
    [] mode = "MixedBeamLightInjection" ->
         IF gate % 2 = 1 THEN "LightInjection" ELSE "NuMI"

\* DAQWorker::BeginNextGate up to Trigger.
BeginNextGate ==
  /\ pc = "beginGate"
  /\ IF continueRunning /\ gate + 1 <= NumberOfGates
       THEN trig' = GetNextTriggerType /\ pc' = "resetLatch"
       ELSE pc' = "resetInterrupts" /\ UNCHANGED trig
  /\ idx' = 1
  /\ UNCHANGED <<continueRunning, gate, interruptStatus, waited, run, mode,
                 outcome, readouts, cutShort, crimVars, channelVars>>

\* Mutant: only the master's latch is reset.
ResetMasterLatch ==
  /\ pc = "resetLatch"
  /\ latch' = [latch EXCEPT ![Master] = FALSE]
  /\ pc' = "enableIRQ"
  /\ UNCHANGED <<idx, continueRunning, gate, trig, interruptStatus, waited, run,
                 mode, outcome, readouts, cutShort, bus, opened, pending, source,
                 channelVars>>

\* ReadoutWorker::ResetSequencerLatch, CRIM by CRIM.
ResetSequencerLatch ==
  /\ pc = "resetLatch"
  /\ latch' = [latch EXCEPT ![idx] = FALSE]
  /\ Turn(NCrims, "enableIRQ")
  /\ UNCHANGED <<continueRunning, gate, trig, interruptStatus, waited, run, mode,
                 outcome, readouts, cutShort, bus, opened, pending, source,
                 channelVars>>

\* The switch of Trigger: for pedestals and light injection the master opens a
\* gate, which the other CRIMs get from it; the other triggers come by themselves.
SendSoftwareGate ==
  /\ pc = "softwareGate"
  /\ IF trig \in {"Pedestal", "LightInjection"}
       THEN bus /\ OpenGate(IF latch[Master] THEN {} ELSE OpenCrims, "software")
       ELSE UNCHANGED <<crimVars, channelVars>>
  /\ pc' = "waitForIRQ"
  /\ waited' = FALSE
  /\ UNCHANGED <<idx, continueRunning, gate, trig, interruptStatus, run, mode,
                 outcome, readouts, cutShort>>

\* Mutant: a time-out is reported as success.
WaitForIRQTimeOutSucceeds ==
  /\ pc = "waitForIRQ"
  /\ IF continueRunning
       THEN /\ interruptStatus' = pending
            /\ pc' \in {"waitForIRQ", "acknowledge"}
       ELSE pc' = "resetInterrupts" /\ UNCHANGED interruptStatus
  /\ UNCHANGED <<idx, continueRunning, gate, trig, waited, run, mode, outcome,
                 readouts, cutShort, crimVars, channelVars>>

\* Mutant: the loop does not look at the quit flag.
WaitForIRQOnly ==
  /\ pc = "waitForIRQ"
  /\ interruptStatus' = pending
  /\ waited' = TRUE
  /\ pc' = IF pending THEN "acknowledge" ELSE pc
  /\ UNCHANGED <<idx, continueRunning, gate, trig, run, mode, outcome, readouts,
                 cutShort, crimVars, channelVars>>

\* One turn of the loop of CRIM::WaitForIRQ:
\*  1. the quit flag is down: return at once;
\*  2. the interrupt is there: leave the loop to acknowledge it;
\*  3. it is not: go round again;
\*  4. the time is up, whatever the status just read: leave the loop.  An hour
\*     does not pass in the first turn.
WaitForIRQ ==
  /\ pc = "waitForIRQ"
  /\ \/ /\ ~continueRunning
        /\ pc' = "resetInterrupts"
        /\ UNCHANGED <<interruptStatus, waited>>
     \/ /\ continueRunning /\ bus
        /\ interruptStatus' = pending
        /\ waited' = TRUE
        /\ pc' = IF pending THEN "acknowledge" ELSE pc
     \/ /\ continueRunning /\ bus
        /\ waited
        /\ interruptStatus' = pending
        /\ pc' = "giveUp"
        /\ UNCHANGED waited
  /\ UNCHANGED <<idx, continueRunning, gate, trig, run, mode, outcome, readouts,
                 cutShort, crimVars, channelVars>>

\* ClearPendingInterrupts at the end of WaitForIRQ; after a time-out Trigger
\* returns 0, which ends TakeData's loop.
Acknowledge ==
  /\ pc \in {"acknowledge", "giveUp"}
  /\ pending' = (pending /\ ~interruptStatus)
  /\ pc' = IF pc = "acknowledge" THEN "sleep" ELSE "resetInterrupts"
  /\ UNCHANGED <<idx, continueRunning, gate, trig, interruptStatus, waited, run,
                 mode, outcome, readouts, cutShort, bus, latch, opened, source,
                 channelVars>>

\* After the sleep the sequencers are asked for, channel by channel.
EndSleep(cut) ==
  /\ pc = "sleep"
  /\ cutShort' = cut
  /\ pc' = "sequencers"
  /\ idx' = 1
  /\ UNCHANGED <<gate, trig, interruptStatus, waited, run, mode, outcome, readouts,
                 crimVars, channelVars>>

\* Mutant: the sleep is shorter than the delay of the sequencers.
ShortSleep == EndSleep(FALSE) /\ UNCHANGED continueRunning

\* MicroSecondSleep: 4 ms are longer than the delay after which a sequencer
\* starts, 511 steps of 2.411 microseconds.
Sleep ==
  /\ \A h \in Channels : due[h] = 0
  /\ EndSleep(FALSE)
  /\ UNCHANGED continueRunning

\* A quit signal, the first or a later one, makes nanosleep return at once;
\* MicroSecondSleep does not look at what it returns.
CutSleep == EndSleep(TRUE) /\ continueRunning' = FALSE

\* How a run ends: the modules stay as they are.
EndRun(how) == pc' = "off" /\ outcome' = how

\* WaitForSequencerReadoutCompletion of one channel; an error bit throws.
WaitForSequencerReadoutCompletion ==
  /\ pc = "sequencers"
  /\ \/ /\ rdfe[idx] = "done"
        /\ Turn(NChannels, "readGate")
        /\ UNCHANGED outcome
     \/ /\ FrameErrors(idx)
        /\ EndRun("exception")
        /\ UNCHANGED idx
  /\ UNCHANGED <<continueRunning, gate, trig, interruptStatus, waited, run, mode,
                 readouts, cutShort, crimVars, channelVars>>

\* The body of TakeData's loop: the memories of all channels become the blocks
\* of one gate.  After a sleep cut short a sequencer may still be filling one: it
\* then counts as the new gate's.
ReadGate ==
  /\ pc = "readGate"
  /\ gate' = gate + 1
  /\ readouts' = Append(readouts, [run |-> run, trig |-> trig,
                                   gate |-> opened[Master], data |-> memory,
                                   cut |-> cutShort])
  /\ pc' = "beginGate"
  /\ UNCHANGED <<idx, continueRunning, trig, interruptStatus, waited, run, mode,
                 outcome, cutShort, crimVars, channelVars>>

\* InterruptResetToDefault at the end of TakeData.
InterruptResetToDefault ==
  /\ pc = "resetInterrupts"
  /\ pending' = FALSE
  /\ pc' = "cleanupHardware"
  /\ idx' = 1
  /\ UNCHANGED <<continueRunning, gate, trig, interruptStatus, waited, run, mode,
                 outcome, readouts, cutShort, bus, latch, opened, source,
                 channelVars>>

\* CleanupHardware: DisableSequencerReadout, channel by channel.
CleanupHardware ==
  /\ pc = "cleanupHardware"
  /\ DisableSequencerReadout(idx)
  /\ IF idx < NChannels
       THEN idx' = idx + 1 /\ UNCHANGED <<pc, outcome>>
       ELSE EndRun("ended") /\ UNCHANGED idx
  /\ UNCHANGED <<continueRunning, gate, trig, interruptStatus, waited, run, mode,
                 readouts, cutShort, rdfe, memory, crimVars>>

\* Points whose code reads over the bus, and those that do so before they
\* write.
ReadsFirst == {"waitForIRQ", "sequencers", "readGate", "cleanupHardware"}
Reads == ReadsFirst \cup {"addECROC", "initialize", "enableIRQ", "clearPending",
                         "resetInterrupts"}

\* A read that fails throws, and main() does not clean the hardware up.  A
\* write never fails: WriteCycle repeats it until the bus takes it.
VMEError ==
  /\ VMEFaults
  /\ pc \in (IF bus THEN Reads ELSE ReadsFirst)
  /\ EndRun("exception")
  /\ UNCHANGED <<idx, continueRunning, gate, trig, interruptStatus, waited, run,
                 mode, readouts, cutShort, crimVars, channelVars>>

-----------------------------------------------------------------------------
Points == {"off", "addECROC", "initialize", "enableIRQ", "clearPending",
           "beginGate", "resetLatch", "softwareGate", "waitForIRQ",
           "acknowledge", "giveUp", "sleep", "sequencers", "readGate",
           "resetInterrupts", "cleanupHardware"}

Init ==
  /\ pc = "off" /\ idx = 1 /\ continueRunning = TRUE
  /\ gate = 0 /\ trig = "UnknownTrigger"
  /\ interruptStatus = FALSE /\ waited = FALSE
  /\ run = 0 /\ mode = "none" /\ outcome = "none" /\ readouts = <<>>
  /\ bus = TRUE
  /\ latch = [c \in Crims |-> TRUE]
  /\ opened = [c \in Crims |-> 0]
  /\ pending \in BOOLEAN
  /\ sequencer = [h \in Channels |-> FALSE]
  /\ due = [h \in Channels |-> 0]
  /\ rdfe = [h \in Channels |-> "idle"]
  /\ memory = [h \in Channels |-> 0]
  /\ source = <<>>
  /\ cutShort = FALSE

DAQStep ==
  \/ BeginNextGate \/ SendSoftwareGate \/ WaitForIRQ \/ Sleep
  \/ /\ bus
     /\ \/ AddECROC \/ InitializeCrates
        \/ EnableIRQ \/ ClearPendingInterrupts
        \/ ResetSequencerLatch \/ Acknowledge
        \/ WaitForSequencerReadoutCompletion \/ ReadGate
        \/ InterruptResetToDefault \/ CleanupHardware

\* The bound on the number of runs is reached.
AllRunsOver == pc = "off" /\ run = MaxRuns /\ UNCHANGED vars

Next == AllRunsOver \/ StartRun \/ QuitSignal \/ CutSleep \/ VMEError \/ DAQStep \/ Hardware

Spec == Init /\ [][Next]_vars

\* minervadaq is scheduled, and a sequencer that has a gate to read reads it.
\* Nothing makes a spill come, or the hour pass.
FairSpec ==
  /\ Spec
  /\ WF_vars(DAQStep /\ pc' # "giveUp")
  /\ WF_vars(VMEError /\ ~bus)
  /\ \A h \in Channels : WF_vars(StartRDFE(h)) /\ WF_vars(FinishRDFE(h))

-----------------------------------------------------------------------------
Readout == [run : Nat, trig : {"Pedestal", "NuMI", "LightInjection"},
            gate : Nat, data : [Channels -> Nat], cut : BOOLEAN]

\* The flags.
FlagsOK ==
  /\ continueRunning \in BOOLEAN /\ interruptStatus \in BOOLEAN /\ waited \in BOOLEAN
  /\ bus \in BOOLEAN /\ pending \in BOOLEAN
  /\ cutShort \in BOOLEAN
  /\ latch \in [Crims -> BOOLEAN] /\ sequencer \in [Channels -> BOOLEAN]

\* Control points and counters.
ControlOK ==
  /\ pc \in Points
  /\ idx \in 1..(IF pc = "resetLatch" THEN NCrims ELSE NChannels)
  /\ gate \in Nat /\ run \in 0..MaxRuns /\ mode \in Modes \cup {"none"}
  /\ trig \in {"UnknownTrigger", "Pedestal", "NuMI", "LightInjection"}
  /\ outcome \in {"none", "ended", "exception"}

\* CRIMs, channels and histories.
ModulesOK ==
  /\ opened \in [Crims -> Nat]
  /\ due \in [Channels -> Nat] /\ memory \in [Channels -> Nat]
  /\ rdfe \in [Channels -> {"idle", "busy", "done", "error"}]
  /\ source \in Seq({"spill", "software"}) /\ readouts \in Seq(Readout)

\* Every variable has its type; the loops over CRIMs and channels stay within
\* them.
TypeOK == FlagsOK /\ ControlOK /\ ModulesOK

\* The blocks of a gate all come from the one gate whose interrupt was
\* acknowledged: no channel holds an older gate (whose RDFEDone bit was still
\* up) or one that only some of the CRIMs let through.  The exception is a gate
\* whose sleep a signal cut short, and that is the last one its run reads.
GateCoherent ==
  \A i \in 1..Len(readouts) :
    IF readouts[i].cut
      THEN \A j \in 1..Len(readouts) : readouts[j].run = readouts[i].run => j <= i
      ELSE \A h \in Channels : readouts[i].data[h] = readouts[i].gate

\* ReadoutWorker::Trigger: "we can read all the status registers to be sure they're
\* finished": no gate is read before the sequencers have finished with it.  The
\* code does not keep this promise when a quit signal cuts the sleep short, so that
\* no run has it as an invariant; GateCoherent says what is left of it.
FinishedWhenRead ==
  pc = "readGate" => \A h \in Channels : due[h] = 0 /\ rdfe[h] = "done"

\* From the interrupt to the end of the read-out no CRIM lets a gate through
\* that would overwrite what is being read, although the latches are reset one
\* after the other while spills come in.
LatchedWhileReading ==
  pc \in {"acknowledge", "sleep", "sequencers", "readGate"} => OpenCrims = {}

\* No gate is read out twice, and gates are read out in the order in which
\* they were opened, also across runs.
GatesReadOnceInOrder ==
  \A i, j \in 1..Len(readouts) : i < j => readouts[i].gate < readouts[j].gate

\* Told to quit, minervadaq lets go of the hardware, whether or not a trigger
\* ever comes and wherever in Trigger the signal finds it, unless the bus goes
\* down under it.
QuitEndsRun == (pc # "off" /\ ~continueRunning) ~> (pc = "off" \/ ~bus)

\* Without beam, VME errors and signals a run of software-triggered gates reads
\* all its gates: no software gate is lost to the clearing of old interrupts,
\* whatever run came before.
AllGatesRead ==
  \A r \in 1..MaxRuns :
    (run = r /\ pc = "beginGate" /\ mode = "OneShot")
      ~> (run = r /\ \/ gate = NumberOfGates
                     \/ Spills # {} \/ ~continueRunning
                     \/ outcome = "exception" \/ ~bus)

\* VMECommunicator::WriteCycle: "If the message wasn't sent but the error was
\* not a bus error (-1) or a parameter error (-4) keep trying until it's
\* successful."  So a bus error that stays is given up on.
BusErrorEndsRun == ~bus ~> (bus \/ pc = "off")

=============================================================================
