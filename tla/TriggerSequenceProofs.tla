------------------------ MODULE TriggerSequenceProofs ------------------------
(***************************************************************************)
(* Proofs about TriggerSequence, for every number of CRIMs, channels,      *)
(* gates, runs and spills, every cabling and every mix of run modes, with  *)
(* and without VME faults.                                                 *)
(*                                                                         *)
(* The argument: the master's latch is the first to be reset, and a gate   *)
(* sets every latch it finds reset.  So once all latches have been reset,  *)
(* an open master means that all CRIMs are open (Armed), and a gate that   *)
(* leaves an interrupt behind the clearing of old ones is one that every   *)
(* CRIM let through and that finds every sequencer on (Caught).  After a   *)
(* full sleep all its data are there; after one cut short by a signal the  *)
(* quit flag is down, and no further gate is read in that run (LastGates). *)
(***************************************************************************)
EXTENDS TriggerSequence, TLAPS

\* From the end of the loop that resets the latches to the interrupt.
ArmedPoints == {"softwareGate", "waitForIRQ"}

\* From the interrupt to the end of the read-out.
ReadPoints == {"acknowledge", "sleep", "sequencers", "readGate"}

\* Where all channels have been initialized.
GatePoints == {"enableIRQ", "clearPending", "beginGate", "resetLatch", "giveUp"}
                \cup ArmedPoints \cup ReadPoints

\* EnableIRQ as a part of Trigger, not of InitializeCrates.
Enabling == pc \in {"enableIRQ", "clearPending"} /\ trig # "UnknownTrigger"

\* The interrupt that is pending will not be taken for an old one.
NewInterrupt ==
  \/ pc \in ArmedPoints /\ pending
  \/ Enabling /\ pc = "clearPending" /\ pending /\ ~interruptStatus

\* No CRIM is open, all let the same gate through last, and it is newer than
\* the gates that were read out.
OneGate ==
  /\ \A c \in Crims : latch[c] /\ opened[c] = opened[Master]
  /\ opened[Master] # 0
  /\ \A i \in 1..Len(readouts) : readouts[i].gate < opened[Master]

\* The sequencer of channel h still has to read that gate, or has started to.
Reads1(h) ==
  \/ due[h] = opened[Master]
  \/ due[h] = 0 /\ memory[h] = opened[Master]

\* The modes and trigger types that go with the control points.
Control ==
  /\ pc # "off" => mode \in Modes
  /\ pc \in {"addECROC", "initialize"} => trig = "UnknownTrigger"
  /\ pc \in {"resetLatch"} \cup ArmedPoints \cup ReadPoints => trig # "UnknownTrigger"

\* Every sequencer is on when a gate can be taken.
SequencersOn ==
  /\ pc = "initialize" => \A h \in Channels : h < idx => sequencer[h]
  /\ pc \in GatePoints => \A h \in Channels : sequencer[h]

\* An open master means that the CRIMs whose turn has come are open.
Armed ==
  /\ pc = "resetLatch" /\ idx > 1 /\ ~latch[Master] =>
       \A c \in Crims : c < idx => ~latch[c]
  /\ (Enabling \/ pc \in ArmedPoints) /\ ~latch[Master] => \A c \in Crims : ~latch[c]

\* Gates are numbered in the order in which they are opened.
Numbered ==
  /\ \A c \in Crims : opened[c] <= Len(source)
  /\ \A i \in 1..Len(readouts) : readouts[i].gate <= opened[Master]

\* A gate that will be read out, or is being read out, is one for all.
Caught ==
  /\ NewInterrupt \/ pc \in ReadPoints => OneGate /\ \A h \in Channels : Reads1(h)
  /\ pc \in {"sequencers", "readGate"} /\ ~cutShort => \A h \in Channels : due[h] = 0

\* A gate whose sleep was cut short is the last one of its run.
LastGates ==
  /\ pc \in {"sequencers", "readGate"} /\ cutShort => ~continueRunning
  /\ \A i \in 1..Len(readouts) :
       /\ readouts[i].run <= run
       /\ readouts[i].cut /\ readouts[i].run = run =>
            /\ ~continueRunning
            /\ pc \in {"beginGate", "resetInterrupts", "cleanupHardware", "off"}

IInv ==
  /\ TypeOK /\ Control /\ SequencersOn /\ Armed /\ Numbered /\ Caught
  /\ LastGates /\ GateCoherent /\ GatesReadOnceInOrder

-----------------------------------------------------------------------------
(* Facts about the operators.                                              *)

\* GetNextTriggerType has a case for every mode.
LEMMA NextTriggerType ==
  ASSUME mode \in Modes
  PROVE  GetNextTriggerType \in {"Pedestal", "NuMI", "LightInjection"}
<1>1. \/ mode = "OneShot" \/ mode = "NuMIBeam" \/ mode = "PureLightInjection"
      \/ mode = "MixedBeamPedestal" \/ mode = "MixedBeamLightInjection"
  BY DEF Modes
<1> QED
  BY <1>1 DEF GetNextTriggerType

\* What a gate does to the CRIMs in S and to their channels.
LEMMA OpenGateEffect ==
  ASSUME TypeOK, NEW S, NEW kind \in {"spill", "software"}, OpenGate(S, kind)
  PROVE  /\ source' \in Seq({"spill", "software"}) /\ Len(source') = Len(source) + 1
         /\ opened' \in [Crims -> Nat] /\ due' \in [Channels -> Nat]
         /\ \A c \in Crims : opened'[c] = IF c \in S THEN Len(source) + 1 ELSE opened[c]
         /\ \A c \in Crims : latch'[c] <=> latch[c] \/ c \in S
         /\ pending' <=> pending \/ Master \in S
         /\ \A h \in Channels : due'[h] = IF CrimOf[h] \in S /\ sequencer[h]
                                            THEN Len(source) + 1 ELSE due[h]
         /\ UNCHANGED <<bus, sequencer, rdfe, memory>>
<1>1. source' \in Seq({"spill", "software"}) /\ Len(source') = Len(source) + 1
      /\ Len(source) \in Nat
  BY DEF TypeOK, ModulesOK, OpenGate
<1>2. /\ opened' = [c \in Crims |-> IF c \in S THEN Len(source) + 1 ELSE opened[c]]
      /\ latch' = [c \in Crims |-> latch[c] \/ c \in S]
      /\ pending' = (pending \/ Master \in S)
      /\ due' = [h \in Channels |->
                   IF CrimOf[h] \in S /\ sequencer[h] THEN Len(source) + 1 ELSE due[h]]
      /\ UNCHANGED <<bus, sequencer, rdfe, memory>>
  BY DEF OpenGate
<1>3. opened' \in [Crims -> Nat]
  BY <1>1, <1>2, SMT DEF TypeOK, ModulesOK
<1>4. due' \in [Channels -> Nat]
  BY <1>1, <1>2, SMT DEF TypeOK, ModulesOK
<1>5. /\ \A c \in Crims : latch'[c] <=> latch[c] \/ c \in S
      /\ pending' <=> pending \/ Master \in S
  BY <1>2, Zenon
<1>6. /\ \A c \in Crims : opened'[c] = IF c \in S THEN Len(source) + 1 ELSE opened[c]
      /\ \A h \in Channels : due'[h] = IF CrimOf[h] \in S /\ sequencer[h]
                                         THEN Len(source) + 1 ELSE due[h]
  BY <1>2, Zenon
<1> QED
  BY <1>1, <1>2, <1>3, <1>4, <1>5, <1>6, Zenon

\* The gates of the model: a spill finds the open CRIMs; a software gate does
\* if the master is open, and otherwise none.  Neither leaves the master open.
LEMMA GatesOpened ==
  ASSUME TypeOK, Spill \/ (SendSoftwareGate /\ trig \in {"Pedestal", "LightInjection"})
  PROVE  \E S \in {OpenCrims, {}} : \E kind \in {"spill", "software"} :
           OpenGate(S, kind) /\ (S = {} => latch[Master])
<1>1. CASE Spill
  BY <1>1, Zenon DEF Spill
<1>2. CASE SendSoftwareGate /\ trig \in {"Pedestal", "LightInjection"}
  <2>1. OpenGate(IF latch[Master] THEN {} ELSE OpenCrims, "software")
    BY <1>2, Zenon DEF SendSoftwareGate
  <2>2. OpenCrims = {} => latch[Master]
    BY TriggerAssumption DEF OpenCrims, Crims, Master
  <2> QED
    BY <2>1, <2>2, Zenon
<1> QED
  BY <1>1, <1>2

\* Every CRIM is latched after a gate, or the master and all that were before.
LEMMA GateLatches ==
  ASSUME TypeOK, Spill \/ (SendSoftwareGate /\ trig \in {"Pedestal", "LightInjection"})
  PROVE  latch'[Master]
<1>1. PICK S \in {OpenCrims, {}} : \E kind \in {"spill", "software"} :
        OpenGate(S, kind) /\ (S = {} => latch[Master])
  BY GatesOpened
<1>2. \A c \in Crims : latch'[c] <=> latch[c] \/ c \in S
  BY <1>1, OpenGateEffect
<1>3. Master \in Crims
  BY TriggerAssumption DEF Crims, Master
<1> QED
  BY <1>1, <1>2, <1>3 DEF OpenCrims
-----------------------------------------------------------------------------
(* Types and control points.                                               *)

\* The flags keep their types.
LEMMA FlagsStep ==
  ASSUME TypeOK, [Next]_vars
  PROVE  FlagsOK'
<1> USE DEF TypeOK, FlagsOK, control, crimVars, channelVars
<1>1. CASE StartRun
  BY <1>1, Zenon DEF StartRun
<1>2. CASE QuitSignal
  BY <1>2, Zenon DEF QuitSignal
<1>3. CASE VMEError
  BY <1>3, Zenon DEF VMEError, EndRun, Reads, ReadsFirst
<1>4. CASE BeginNextGate
  BY <1>4, Zenon DEF BeginNextGate
<1>5. CASE SendSoftwareGate
  BY <1>5, Zenon DEF SendSoftwareGate, OpenGate
<1>6. CASE WaitForIRQ
  BY <1>6, Zenon DEF WaitForIRQ
<1>7. CASE Sleep
  BY <1>7, Zenon DEF Sleep, EndSleep
<1>7a. CASE CutSleep
  BY <1>7a, Zenon DEF CutSleep, EndSleep
<1>8. CASE AddECROC
  BY <1>8, Zenon DEF AddECROC, ClearAndResetStatus, DisableSequencerReadout, Turn
<1>9. CASE InitializeCrates
  BY <1>9, Zenon DEF InitializeCrates, InitializeChannel, ClearAndResetStatus,
     EnableSequencerReadout, Turn
<1>10. CASE EnableIRQ
  BY <1>10, Zenon DEF EnableIRQ
<1>11. CASE ClearPendingInterrupts
  BY <1>11, Zenon DEF ClearPendingInterrupts
<1>12. CASE ResetSequencerLatch
  BY <1>12, Zenon DEF ResetSequencerLatch, Turn
<1>13. CASE Acknowledge
  BY <1>13, Zenon DEF Acknowledge
<1>14. CASE WaitForSequencerReadoutCompletion
  BY <1>14, Zenon DEF WaitForSequencerReadoutCompletion, Turn, EndRun
<1>15. CASE ReadGate
  BY <1>15, Zenon DEF ReadGate
<1>16. CASE InterruptResetToDefault
  BY <1>16, Zenon DEF InterruptResetToDefault
<1>17. CASE CleanupHardware
  BY <1>17, Zenon DEF CleanupHardware, DisableSequencerReadout, EndRun
<1>18. CASE Spill
  BY <1>18, Zenon DEF Spill, OpenGate
<1>19. CASE BusFails
  BY <1>19, Zenon DEF BusFails
<1>20. CASE \E h \in Channels : StartRDFE(h)
  BY <1>20, Zenon DEF StartRDFE
<1>21. CASE \E h \in Channels : FinishRDFE(h)
  BY <1>21, Zenon DEF FinishRDFE
<1>22. CASE UNCHANGED vars
  BY <1>22, Zenon DEF vars
<1> QED
  BY <1>1, <1>2, <1>3, <1>4, <1>5, <1>6, <1>7, <1>7a, <1>8, <1>9, <1>10, <1>11, <1>12, <1>13,
     <1>14, <1>15, <1>16, <1>17, <1>18, <1>19, <1>20, <1>21, <1>22 DEF Next, DAQStep,
     Hardware, AllRunsOver

\* So do control points and counters: the loops end where they should.
LEMMA ControlOKStep ==
  ASSUME TypeOK, Control, [Next]_vars
  PROVE  ControlOK'
<1>0. ControlOK /\ Control
  BY DEF TypeOK
<1>1. NCrims \in Nat \ {0} /\ NChannels \in Nat \ {0} /\ MaxRuns \in Nat /\ RunModes \subseteq Modes
  BY TriggerAssumption
<1> USE <1>0, <1>1 DEF ControlOK, Control, Points, control
<1>2. CASE StartRun
  BY <1>2, SMT DEF StartRun
<1>3. CASE QuitSignal
  BY <1>3, SMT DEF QuitSignal
<1>4. CASE VMEError
  BY <1>4, SMT DEF VMEError, EndRun, Reads, ReadsFirst
<1>5. CASE BeginNextGate
  BY <1>5, NextTriggerType, SMT DEF BeginNextGate
<1>6. CASE SendSoftwareGate
  BY <1>6, SMT DEF SendSoftwareGate, OpenGate
<1>7. CASE WaitForIRQ
  BY <1>7, SMT DEF WaitForIRQ
<1>8. CASE Sleep
  BY <1>8, SMT DEF Sleep, EndSleep
<1>8a. CASE CutSleep
  BY <1>8a, SMT DEF CutSleep, EndSleep
<1>9. CASE AddECROC
  BY <1>9, SMT DEF AddECROC, ClearAndResetStatus, DisableSequencerReadout, Turn
<1>10. CASE InitializeCrates
  BY <1>10, SMT DEF InitializeCrates, InitializeChannel, ClearAndResetStatus,
     EnableSequencerReadout, Turn
<1>11. CASE EnableIRQ
  BY <1>11, SMT DEF EnableIRQ
<1>12. CASE ClearPendingInterrupts
  BY <1>12, SMT DEF ClearPendingInterrupts
<1>13. CASE ResetSequencerLatch
  BY <1>13, SMT DEF ResetSequencerLatch, Turn
<1>14. CASE Acknowledge
  BY <1>14, SMT DEF Acknowledge
<1>15. CASE WaitForSequencerReadoutCompletion
  BY <1>15, SMT DEF WaitForSequencerReadoutCompletion, Turn, EndRun
<1>16. CASE ReadGate
  BY <1>16, SMT DEF ReadGate
<1>17. CASE InterruptResetToDefault
  BY <1>17, SMT DEF InterruptResetToDefault
<1>18. CASE CleanupHardware
  BY <1>18, SMT DEF CleanupHardware, DisableSequencerReadout, EndRun
<1>19. CASE Spill
  BY <1>19, SMT DEF Spill, OpenGate
<1>20. CASE BusFails
  BY <1>20, SMT DEF BusFails
<1>21. CASE \E h \in Channels : StartRDFE(h)
  BY <1>21, SMT DEF StartRDFE
<1>22. CASE \E h \in Channels : FinishRDFE(h)
  BY <1>22, SMT DEF FinishRDFE
<1>23. CASE UNCHANGED vars
  BY <1>23, SMT DEF vars
<1> QED
  BY <1>2, <1>3, <1>4, <1>5, <1>6, <1>7, <1>8, <1>8a, <1>9, <1>10, <1>11, <1>12, <1>13,
     <1>14, <1>15, <1>16, <1>17, <1>18, <1>19, <1>20, <1>21, <1>22, <1>23 DEF Next,
     DAQStep, Hardware, AllRunsOver

\* And so do the modules and the histories.
LEMMA ModulesOKStep ==
  ASSUME TypeOK, Control, [Next]_vars
  PROVE  ModulesOK'
<1>a. pc # "resetLatch" => idx \in Channels
  BY DEF TypeOK, ControlOK, Channels
<1>0. TypeOK /\ ModulesOK
  BY DEF TypeOK
<1> USE <1>0 DEF ModulesOK, control, crimVars, channelVars
<1>1. CASE StartRun
  BY <1>1, SMT DEF StartRun
<1>2. CASE QuitSignal
  BY <1>2, SMT DEF QuitSignal
<1>3. CASE VMEError
  BY <1>3, SMT DEF VMEError, EndRun, Reads, ReadsFirst
<1>4. CASE BeginNextGate
  BY <1>4, SMT DEF BeginNextGate
<1>5. CASE SendSoftwareGate
  <2>1. CASE trig \in {"Pedestal", "LightInjection"}
    <3>1. PICK S \in {OpenCrims, {}} : \E kind \in {"spill", "software"} : OpenGate(S, kind)
      BY <1>5, <2>1, GatesOpened
    <3> QED
      BY <1>5, <3>1, OpenGateEffect DEF SendSoftwareGate
  <2>2. CASE trig \notin {"Pedestal", "LightInjection"}
    BY <1>5, <2>2 DEF SendSoftwareGate
  <2> QED
    BY <2>1, <2>2
<1>6. CASE WaitForIRQ
  BY <1>6, SMT DEF WaitForIRQ
<1>7. CASE Sleep
  BY <1>7, SMT DEF Sleep, EndSleep
<1>7a. CASE CutSleep
  BY <1>7a, SMT DEF CutSleep, EndSleep
<1>8. CASE AddECROC
  <2>1. /\ due' = [due EXCEPT ![idx] = 0] /\ memory' = [memory EXCEPT ![idx] = 0]
        /\ rdfe' = [rdfe EXCEPT ![idx] = "idle"]
        /\ UNCHANGED <<opened, source, readouts>>
    BY <1>8, Zenon DEF AddECROC, ClearAndResetStatus, DisableSequencerReadout
  <2> QED
    BY <1>a, <1>8, <2>1, SMT DEF AddECROC
<1>9. CASE InitializeCrates
  <2>1. /\ memory' = [memory EXCEPT ![idx] = 0] /\ rdfe' = [rdfe EXCEPT ![idx] = "idle"]
        /\ UNCHANGED <<due, opened, source, readouts>>
    BY <1>9, Zenon DEF InitializeCrates, InitializeChannel, ClearAndResetStatus,
                       EnableSequencerReadout
  <2> QED
    BY <1>a, <1>9, <2>1, SMT DEF InitializeCrates
<1>10. CASE EnableIRQ
  BY <1>10, SMT DEF EnableIRQ
<1>11. CASE ClearPendingInterrupts
  BY <1>11, SMT DEF ClearPendingInterrupts
<1>12. CASE ResetSequencerLatch
  BY <1>12, SMT DEF ResetSequencerLatch, Turn
<1>13. CASE Acknowledge
  BY <1>13, SMT DEF Acknowledge
<1>14. CASE WaitForSequencerReadoutCompletion
  BY <1>14, SMT DEF WaitForSequencerReadoutCompletion, Turn, EndRun
<1>15. CASE ReadGate
  <2>1. run \in Nat /\ trig \in {"Pedestal", "NuMI", "LightInjection"} /\ opened[Master] \in Nat
    BY <1>15, TriggerAssumption, SMT
       DEF TypeOK, ControlOK, Control, ReadPoints, ReadGate, Crims, Master
  <2>2. cutShort \in BOOLEAN
    BY DEF TypeOK, FlagsOK
  <2>3. [run |-> run, trig |-> trig, gate |-> opened[Master], data |-> memory,
         cut |-> cutShort] \in Readout
    BY <2>1, <2>2, SMT DEF Readout
  <2> QED
    BY <1>15, <2>3, SMT DEF ReadGate
<1>16. CASE InterruptResetToDefault
  BY <1>16, SMT DEF InterruptResetToDefault
<1>17. CASE CleanupHardware
  <2>1. due' = [due EXCEPT ![idx] = 0] /\ UNCHANGED <<rdfe, memory, opened, source, readouts>>
    BY <1>17, Zenon DEF CleanupHardware, DisableSequencerReadout
  <2> QED
    BY <1>a, <1>17, <2>1, SMT DEF CleanupHardware
<1>18. CASE Spill
  BY <1>18, SMT DEF Spill, OpenGate
<1>19. CASE BusFails
  BY <1>19, SMT DEF BusFails
<1>20. CASE \E h \in Channels : StartRDFE(h)
  BY <1>20, SMT DEF StartRDFE
<1>21. CASE \E h \in Channels : FinishRDFE(h)
  BY <1>21, SMT DEF FinishRDFE
<1>22. CASE UNCHANGED vars
  BY <1>22, SMT DEF vars
<1> QED
  BY <1>1, <1>2, <1>3, <1>4, <1>5, <1>6, <1>7, <1>7a, <1>8, <1>9, <1>10, <1>11, <1>12, <1>13,
     <1>14, <1>15, <1>16, <1>17, <1>18, <1>19, <1>20, <1>21, <1>22 DEF Next, DAQStep,
     Hardware, AllRunsOver

\* Modes and trigger types go with the control points.
LEMMA ControlStep ==
  ASSUME TypeOK, Control, [Next]_vars
  PROVE  Control'
<1>0. ControlOK /\ Control /\ RunModes \subseteq Modes
  BY TriggerAssumption DEF TypeOK
<1> USE <1>0 DEF Control, ControlOK, ArmedPoints, ReadPoints, control
<1>1. CASE StartRun
  BY <1>1, SMT DEF StartRun
<1>2. CASE QuitSignal
  BY <1>2, SMT DEF QuitSignal
<1>3. CASE VMEError
  BY <1>3, SMT DEF VMEError, EndRun, Reads, ReadsFirst
<1>4. CASE BeginNextGate
  BY <1>4, NextTriggerType, SMT DEF BeginNextGate
<1>5. CASE SendSoftwareGate
  BY <1>5, SMT DEF SendSoftwareGate, OpenGate
<1>6. CASE WaitForIRQ
  BY <1>6, SMT DEF WaitForIRQ
<1>7. CASE Sleep
  BY <1>7, SMT DEF Sleep, EndSleep
<1>7a. CASE CutSleep
  BY <1>7a, SMT DEF CutSleep, EndSleep
<1>8. CASE AddECROC
  BY <1>8, SMT DEF AddECROC, ClearAndResetStatus, DisableSequencerReadout, Turn
<1>9. CASE InitializeCrates
  BY <1>9, SMT DEF InitializeCrates, InitializeChannel, ClearAndResetStatus,
     EnableSequencerReadout, Turn
<1>10. CASE EnableIRQ
  BY <1>10, SMT DEF EnableIRQ
<1>11. CASE ClearPendingInterrupts
  BY <1>11, SMT DEF ClearPendingInterrupts
<1>12. CASE ResetSequencerLatch
  BY <1>12, SMT DEF ResetSequencerLatch, Turn
<1>13. CASE Acknowledge
  BY <1>13, SMT DEF Acknowledge
<1>14. CASE WaitForSequencerReadoutCompletion
  BY <1>14, SMT DEF WaitForSequencerReadoutCompletion, Turn, EndRun
<1>15. CASE ReadGate
  BY <1>15, SMT DEF ReadGate
<1>16. CASE InterruptResetToDefault
  BY <1>16, SMT DEF InterruptResetToDefault
<1>17. CASE CleanupHardware
  BY <1>17, SMT DEF CleanupHardware, DisableSequencerReadout, EndRun
<1>18. CASE Spill
  BY <1>18, SMT DEF Spill, OpenGate
<1>19. CASE BusFails
  BY <1>19, SMT DEF BusFails
<1>20. CASE \E h \in Channels : StartRDFE(h)
  BY <1>20, SMT DEF StartRDFE
<1>21. CASE \E h \in Channels : FinishRDFE(h)
  BY <1>21, SMT DEF FinishRDFE
<1>22. CASE UNCHANGED vars
  BY <1>22, SMT DEF vars
<1> QED
  BY <1>1, <1>2, <1>3, <1>4, <1>5, <1>6, <1>7, <1>7a, <1>8, <1>9, <1>10, <1>11, <1>12, <1>13,
     <1>14, <1>15, <1>16, <1>17, <1>18, <1>19, <1>20, <1>21, <1>22 DEF Next, DAQStep,
     Hardware, AllRunsOver

\* Sequencers are switched on by InitializeCrates and off after the last gate.
LEMMA SequencersStep ==
  ASSUME TypeOK, SequencersOn, [Next]_vars
  PROVE  SequencersOn'
<1>0. ControlOK /\ SequencersOn /\ sequencer \in [Channels -> BOOLEAN]
  BY DEF TypeOK, FlagsOK
<1> USE <1>0 DEF SequencersOn, ControlOK, GatePoints, ArmedPoints, ReadPoints,
        Channels, control, channelVars
<1>1. CASE StartRun
  BY <1>1, SMT DEF StartRun
<1>2. CASE QuitSignal
  BY <1>2, SMT DEF QuitSignal
<1>3. CASE VMEError
  BY <1>3, SMT DEF VMEError, EndRun, Reads, ReadsFirst
<1>4. CASE BeginNextGate
  BY <1>4, SMT DEF BeginNextGate
<1>5. CASE SendSoftwareGate
  <2>1. pc' = "waitForIRQ" /\ pc = "softwareGate" /\ UNCHANGED sequencer
    BY <1>5, Zenon DEF SendSoftwareGate, OpenGate, channelVars
  <2> QED
    BY <2>1, SMT
<1>6. CASE WaitForIRQ
  BY <1>6, SMT DEF WaitForIRQ
<1>7. CASE Sleep
  BY <1>7, SMT DEF Sleep, EndSleep
<1>7a. CASE CutSleep
  BY <1>7a, SMT DEF CutSleep, EndSleep
<1>8. CASE AddECROC
  BY <1>8, SMT DEF AddECROC, ClearAndResetStatus, DisableSequencerReadout, Turn
<1>9. CASE InitializeCrates
  <2>1. pc = "initialize" /\ sequencer' = [sequencer EXCEPT ![idx] = TRUE]
    BY <1>9, Zenon DEF InitializeCrates, InitializeChannel, EnableSequencerReadout
  <2>2. Turn(NChannels, "enableIRQ")
    BY <1>9, Zenon DEF InitializeCrates
  <2>3. /\ idx \in 1..NChannels
        /\ \A h \in 1..NChannels : h < idx + 1 => sequencer'[h]
    BY <2>1, SMT
  <2>4. NChannels \in Nat
    BY TriggerAssumption
  <2>5. CASE idx < NChannels
    BY <2>1, <2>2, <2>3, <2>5, SMT DEF Turn
  <2>6. CASE ~(idx < NChannels)
    BY <2>1, <2>2, <2>3, <2>4, <2>6, SMT DEF Turn
  <2> QED
    BY <2>5, <2>6
<1>10. CASE EnableIRQ
  BY <1>10, SMT DEF EnableIRQ
<1>11. CASE ClearPendingInterrupts
  BY <1>11, SMT DEF ClearPendingInterrupts
<1>12. CASE ResetSequencerLatch
  BY <1>12, SMT DEF ResetSequencerLatch, Turn
<1>13. CASE Acknowledge
  BY <1>13, SMT DEF Acknowledge
<1>14. CASE WaitForSequencerReadoutCompletion
  BY <1>14, SMT DEF WaitForSequencerReadoutCompletion, Turn, EndRun
<1>15. CASE ReadGate
  BY <1>15, SMT DEF ReadGate
<1>16. CASE InterruptResetToDefault
  BY <1>16, SMT DEF InterruptResetToDefault
<1>17. CASE CleanupHardware
  BY <1>17, SMT DEF CleanupHardware, DisableSequencerReadout, EndRun
<1>18. CASE Spill
  BY <1>18, SMT DEF Spill, OpenGate
<1>19. CASE BusFails
  BY <1>19, SMT DEF BusFails
<1>20. CASE \E h \in Channels : StartRDFE(h)
  BY <1>20, SMT DEF StartRDFE
<1>21. CASE \E h \in Channels : FinishRDFE(h)
  BY <1>21, SMT DEF FinishRDFE
<1>22. CASE UNCHANGED vars
  BY <1>22, SMT DEF vars
<1> QED
  BY <1>1, <1>2, <1>3, <1>4, <1>5, <1>6, <1>7, <1>7a, <1>8, <1>9, <1>10, <1>11, <1>12, <1>13,
     <1>14, <1>15, <1>16, <1>17, <1>18, <1>19, <1>20, <1>21, <1>22 DEF Next, DAQStep,
     Hardware, AllRunsOver

\* Latches are reset by ResetSequencerLatch only, the master's first.
LEMMA ArmedStep ==
  ASSUME TypeOK, Control, Armed, [Next]_vars
  PROVE  Armed'
<1>0. ControlOK /\ Control /\ Armed /\ latch \in [Crims -> BOOLEAN]
  BY DEF TypeOK, FlagsOK
<1>00. NCrims \in Nat \ {0}
  BY TriggerAssumption
<1> USE <1>0, <1>00 DEF Armed, Control, ControlOK, Enabling, ArmedPoints, ReadPoints,
        Crims, Master, control, crimVars
<1>1. CASE StartRun
  BY <1>1, SMT DEF StartRun
<1>2. CASE QuitSignal
  BY <1>2, SMT DEF QuitSignal
<1>3. CASE VMEError
  BY <1>3, SMT DEF VMEError, EndRun, Reads, ReadsFirst
<1>4. CASE BeginNextGate
  BY <1>4, SMT DEF BeginNextGate
<1>5. CASE SendSoftwareGate
  <2>1. CASE trig \in {"Pedestal", "LightInjection"}
    <3>1. pc' = "waitForIRQ" /\ pc = "softwareGate" /\ latch'[Master]
      BY <1>5, <2>1, GateLatches, Zenon DEF SendSoftwareGate
    <3> QED
      BY <3>1, SMT
  <2>2. CASE trig \notin {"Pedestal", "LightInjection"}
    BY <1>5, <2>2, SMT DEF SendSoftwareGate
  <2> QED
    BY <2>1, <2>2
<1>6. CASE WaitForIRQ
  BY <1>6, SMT DEF WaitForIRQ
<1>7. CASE Sleep
  BY <1>7, SMT DEF Sleep, EndSleep
<1>7a. CASE CutSleep
  BY <1>7a, SMT DEF CutSleep, EndSleep
<1>8. CASE AddECROC
  BY <1>8, SMT DEF AddECROC, ClearAndResetStatus, DisableSequencerReadout, Turn
<1>9. CASE InitializeCrates
  BY <1>9, SMT DEF InitializeCrates, InitializeChannel, ClearAndResetStatus,
     EnableSequencerReadout, Turn
<1>10. CASE EnableIRQ
  BY <1>10, SMT DEF EnableIRQ
<1>11. CASE ClearPendingInterrupts
  BY <1>11, SMT DEF ClearPendingInterrupts
<1>12. CASE ResetSequencerLatch
  BY <1>12, SMT DEF ResetSequencerLatch, Turn
<1>13. CASE Acknowledge
  BY <1>13, SMT DEF Acknowledge
<1>14. CASE WaitForSequencerReadoutCompletion
  BY <1>14, SMT DEF WaitForSequencerReadoutCompletion, Turn, EndRun
<1>15. CASE ReadGate
  BY <1>15, SMT DEF ReadGate
<1>16. CASE InterruptResetToDefault
  BY <1>16, SMT DEF InterruptResetToDefault
<1>17. CASE CleanupHardware
  BY <1>17, SMT DEF CleanupHardware, DisableSequencerReadout, EndRun
<1>18. CASE Spill
  BY <1>18, GateLatches, SMT DEF Spill
<1>19. CASE BusFails
  BY <1>19, SMT DEF BusFails
<1>20. CASE \E h \in Channels : StartRDFE(h)
  BY <1>20, SMT DEF StartRDFE
<1>21. CASE \E h \in Channels : FinishRDFE(h)
  BY <1>21, SMT DEF FinishRDFE
<1>22. CASE UNCHANGED vars
  BY <1>22, SMT DEF vars
<1> QED
  BY <1>1, <1>2, <1>3, <1>4, <1>5, <1>6, <1>7, <1>7a, <1>8, <1>9, <1>10, <1>11, <1>12, <1>13,
     <1>14, <1>15, <1>16, <1>17, <1>18, <1>19, <1>20, <1>21, <1>22 DEF Next, DAQStep,
     Hardware, AllRunsOver

\* A read-out has the number of its gate and a number per channel.
LEMMA ReadoutTyped ==
  ASSUME TypeOK, NEW i \in 1..Len(readouts)
  PROVE  /\ readouts[i].gate \in Nat /\ readouts[i].data \in [Channels -> Nat]
         /\ readouts[i].run \in Nat /\ readouts[i].cut \in BOOLEAN
<1>1. readouts \in Seq(Readout)
  BY DEF TypeOK, ModulesOK
<1>2. readouts[i] \in Readout
  BY <1>1
<1> QED
  BY <1>2 DEF Readout

\* A gate gets the next number, at every CRIM that lets it through.
LEMMA NumberedStep ==
  ASSUME TypeOK, Numbered, [Next]_vars
  PROVE  Numbered'
<1>0. /\ TypeOK /\ Numbered /\ Master \in Crims
      /\ opened \in [Crims -> Nat] /\ Len(source) \in Nat /\ readouts \in Seq(Readout)
  BY TriggerAssumption DEF TypeOK, ModulesOK, Crims, Master
<1>00. \A i \in 1..Len(readouts) : readouts[i].gate \in Nat
  BY <1>0, ReadoutTyped
<1> USE <1>0, <1>00 DEF Numbered, control, crimVars
<1>1. CASE StartRun
  BY <1>1, Zenon DEF StartRun
<1>2. CASE QuitSignal
  BY <1>2, Zenon DEF QuitSignal
<1>3. CASE VMEError
  BY <1>3, Zenon DEF VMEError, EndRun, Reads, ReadsFirst
<1>4. CASE BeginNextGate
  BY <1>4, Zenon DEF BeginNextGate
<1>5. CASE SendSoftwareGate
  <2>1. UNCHANGED readouts
    BY <1>5, Zenon DEF SendSoftwareGate
  <2>2. CASE trig \in {"Pedestal", "LightInjection"}
    <3>1. PICK S \in {OpenCrims, {}} : \E kind \in {"spill", "software"} : OpenGate(S, kind)
      BY <1>5, <2>2, GatesOpened
    <3>2. /\ Len(source') = Len(source) + 1
          /\ \A c \in Crims : opened'[c] = IF c \in S THEN Len(source) + 1 ELSE opened[c]
      BY <3>1, OpenGateEffect
    <3> QED
      BY <2>1, <3>2, SMTT(30)
  <2>3. CASE trig \notin {"Pedestal", "LightInjection"}
    BY <1>5, <2>1, <2>3, Zenon DEF SendSoftwareGate
  <2> QED
    BY <2>2, <2>3
<1>6. CASE WaitForIRQ
  BY <1>6, Zenon DEF WaitForIRQ
<1>7. CASE Sleep
  BY <1>7, Zenon DEF Sleep, EndSleep
<1>7a. CASE CutSleep
  BY <1>7a, Zenon DEF CutSleep, EndSleep
<1>8. CASE AddECROC
  BY <1>8, Zenon DEF AddECROC, ClearAndResetStatus, DisableSequencerReadout, Turn
<1>9. CASE InitializeCrates
  BY <1>9, Zenon DEF InitializeCrates, InitializeChannel, ClearAndResetStatus,
     EnableSequencerReadout, Turn
<1>10. CASE EnableIRQ
  BY <1>10, Zenon DEF EnableIRQ
<1>11. CASE ClearPendingInterrupts
  BY <1>11, Zenon DEF ClearPendingInterrupts
<1>12. CASE ResetSequencerLatch
  BY <1>12, Zenon DEF ResetSequencerLatch, Turn
<1>13. CASE Acknowledge
  BY <1>13, Zenon DEF Acknowledge
<1>14. CASE WaitForSequencerReadoutCompletion
  BY <1>14, Zenon DEF WaitForSequencerReadoutCompletion, Turn, EndRun
<1>15. CASE ReadGate
  <2>1. /\ readouts' = Append(readouts, [run |-> run, trig |-> trig,
                                         gate |-> opened[Master], data |-> memory,
                                         cut |-> cutShort])
        /\ UNCHANGED <<opened, source>>
    BY <1>15, Zenon DEF ReadGate
  <2> QED
    BY <2>1, SMT
<1>16. CASE InterruptResetToDefault
  BY <1>16, Zenon DEF InterruptResetToDefault
<1>17. CASE CleanupHardware
  BY <1>17, Zenon DEF CleanupHardware, DisableSequencerReadout, EndRun
<1>18. CASE Spill
  <2>1. PICK S \in {OpenCrims, {}} : \E kind \in {"spill", "software"} : OpenGate(S, kind)
    BY <1>18, GatesOpened
  <2>2. /\ Len(source') = Len(source) + 1
        /\ \A c \in Crims : opened'[c] = IF c \in S THEN Len(source) + 1 ELSE opened[c]
    BY <2>1, OpenGateEffect
  <2>3. UNCHANGED readouts
    BY <1>18, Zenon DEF Spill, control
  <2> QED
    BY <2>2, <2>3, SMTT(30)
<1>19. CASE BusFails
  BY <1>19, Zenon DEF BusFails
<1>20. CASE \E h \in Channels : StartRDFE(h)
  BY <1>20, Zenon DEF StartRDFE
<1>21. CASE \E h \in Channels : FinishRDFE(h)
  BY <1>21, Zenon DEF FinishRDFE
<1>22. CASE UNCHANGED vars
  BY <1>22, Zenon DEF vars
<1> QED
  BY <1>1, <1>2, <1>3, <1>4, <1>5, <1>6, <1>7, <1>7a, <1>8, <1>9, <1>10, <1>11, <1>12, <1>13,
     <1>14, <1>15, <1>16, <1>17, <1>18, <1>19, <1>20, <1>21, <1>22 DEF Next, DAQStep,
     Hardware, AllRunsOver

\* A gate while a caught one is waiting to be read out finds no CRIM open; one
\* that finds the master open between the clearing of old interrupts and the
\* wait is caught itself.
LEMMA GateCaught ==
  ASSUME TypeOK, Numbered, Spill \/ (SendSoftwareGate /\ trig \in {"Pedestal",
     "LightInjection"}),
         UNCHANGED readouts
  PROVE  /\ OneGate /\ (\A h \in Channels : Reads1(h)) =>
              OneGate' /\ (\A h \in Channels : Reads1(h)') /\ UNCHANGED due
         /\ latch[Master] => pending' = pending
         /\ (\A c \in Crims : ~latch[c]) /\ (\A h \in Channels : sequencer[h]) =>
              OneGate' /\ \A h \in Channels : Reads1(h)'

<1>1. PICK S \in {OpenCrims, {}} :
        (\E kind \in {"spill", "software"} : OpenGate(S, kind)) /\ (S = {} => latch[Master])
  BY GatesOpened
<1>2. /\ \A c \in Crims : opened'[c] = IF c \in S THEN Len(source) + 1 ELSE opened[c]
      /\ \A c \in Crims : latch'[c] <=> latch[c] \/ c \in S
      /\ pending' <=> pending \/ Master \in S
      /\ \A h \in Channels : due'[h] = IF CrimOf[h] \in S /\ sequencer[h]
                                         THEN Len(source) + 1 ELSE due[h]
      /\ UNCHANGED memory
  BY <1>1, OpenGateEffect
<1>3. /\ Len(source) \in Nat /\ opened \in [Crims -> Nat] /\ Master \in Crims
      /\ \A h \in Channels : CrimOf[h] \in Crims
      /\ \A i \in 1..Len(readouts) : readouts[i].gate \in Nat
  BY TriggerAssumption, ReadoutTyped, SMTT(30) DEF TypeOK, ModulesOK, Crims, Master
<1>4. ASSUME OneGate, \A h \in Channels : Reads1(h)
      PROVE  OneGate' /\ (\A h \in Channels : Reads1(h)') /\ UNCHANGED due
  <2>1. S = {}
    BY <1>1, <1>4 DEF OneGate, OpenCrims
  <2>2. \A c \in Crims : opened'[c] = opened[c] /\ latch'[c]
    BY <1>2, <1>4, <2>1 DEF OneGate
  <2>3. due' = due
    BY <1>2, <2>1, OpenGateEffect, <1>1 DEF TypeOK, ModulesOK
  <2> QED
    BY <1>2, <1>3, <1>4, <2>2, <2>3 DEF OneGate, Reads1
<1>5. ASSUME latch[Master] PROVE pending' = pending
  <2>1. Master \notin S
    BY <1>1, <1>5 DEF OpenCrims
  <2>2. pending \in BOOLEAN /\ pending' \in BOOLEAN
    BY <1>1, Zenon DEF TypeOK, FlagsOK, OpenGate
  <2> QED
    BY <1>2, <2>1, <2>2, Zenon
<1>6. ASSUME \A c \in Crims : ~latch[c], \A h \in Channels : sequencer[h]
      PROVE  OneGate' /\ \A h \in Channels : Reads1(h)'
  <2>1. \A c \in Crims : c \in S
    BY <1>1, <1>3, <1>6 DEF OpenCrims
  <2>2. \A c \in Crims : opened'[c] = Len(source) + 1 /\ latch'[c]
    BY <1>2, <2>1
  <2>3. \A h \in Channels : due'[h] = Len(source) + 1
    BY <1>2, <1>3, <1>6, <2>1
  <2>4. \A i \in 1..Len(readouts) : readouts[i].gate < Len(source) + 1
    BY <1>3 DEF Numbered
  <2> QED
    BY <1>3, <2>2, <2>3, <2>4 DEF OneGate, Reads1
<1> QED
  BY <1>4, <1>5, <1>6

\* What is caught stays caught until it is read out.
LEMMA CaughtStep ==
  ASSUME TypeOK, Control, SequencersOn, Armed, Numbered, Caught, [Next]_vars
  PROVE  Caught'
<1>0. TypeOK /\ Control /\ SequencersOn /\ Armed /\ Numbered /\ Caught
  OBVIOUS
<1>00. /\ ControlOK /\ ModulesOK /\ Master \in Crims
  BY TriggerAssumption DEF TypeOK, Crims, Master
<1> USE <1>0, <1>00 DEF Caught, NewInterrupt, Enabling, OneGate, Reads1, ArmedPoints,
        ReadPoints, control, crimVars, channelVars
<1>1. CASE StartRun
  BY <1>1, SMT DEF StartRun
<1>2. CASE QuitSignal
  BY <1>2, SMT DEF QuitSignal
<1>3. CASE VMEError
  BY <1>3, SMT DEF VMEError, EndRun, Reads, ReadsFirst
<1>4. CASE BeginNextGate
  BY <1>4, SMT DEF BeginNextGate
<1>5. CASE SendSoftwareGate
  <2>1. pc = "softwareGate" /\ pc' = "waitForIRQ" /\ UNCHANGED readouts
    BY <1>5, Zenon DEF SendSoftwareGate
  <2>2. CASE trig \in {"Pedestal", "LightInjection"}
    <3>1. CASE pending
      <4>1. OneGate /\ \A h \in Channels : Reads1(h)
        BY <2>1, <3>1, SMT
      <4>2. OneGate' /\ (\A h \in Channels : Reads1(h)')
        BY <1>5, <2>1, <2>2, <4>1, GateCaught, Zenon
      <4> QED
        BY <2>1, <4>2, SMT
    <3>2. CASE ~pending /\ latch[Master]
      <4>1. pending' = pending
        BY <1>5, <2>1, <2>2, <3>2, GateCaught, Zenon
      <4> QED
        BY <2>1, <3>2, <4>1, SMT
    <3>3. CASE ~latch[Master]
      <4>1. \A c \in Crims : ~latch[c]
        BY <2>1, <3>3, SMT DEF Armed
      <4>2. \A h \in Channels : sequencer[h]
        BY <2>1, SMT DEF SequencersOn, GatePoints
      <4>3. OneGate' /\ (\A h \in Channels : Reads1(h)')
        BY <1>5, <2>1, <2>2, <4>1, <4>2, GateCaught, Zenon
      <4> QED
        BY <2>1, <4>3, SMT
    <3> QED
      BY <3>1, <3>2, <3>3, Zenon
  <2>3. CASE trig \notin {"Pedestal", "LightInjection"}
    BY <1>5, <2>3, SMT DEF SendSoftwareGate
  <2> QED
    BY <2>2, <2>3
<1>6. CASE WaitForIRQ
  BY <1>6, SMT DEF WaitForIRQ
<1>7. CASE Sleep
  BY <1>7, SMT DEF Sleep, EndSleep
<1>7a. CASE CutSleep
  BY <1>7a, SMT DEF CutSleep, EndSleep
<1>8. CASE AddECROC
  BY <1>8, SMT DEF AddECROC, ClearAndResetStatus, DisableSequencerReadout, Turn
<1>9. CASE InitializeCrates
  BY <1>9, SMT DEF InitializeCrates, InitializeChannel, ClearAndResetStatus,
     EnableSequencerReadout, Turn
<1>10. CASE EnableIRQ
  BY <1>10, SMT DEF EnableIRQ
<1>11. CASE ClearPendingInterrupts
  <2>1. pending' <=> pending /\ ~interruptStatus
    BY <1>11, Zenon DEF ClearPendingInterrupts
  <2>2. /\ pc = "clearPending" /\ UNCHANGED <<trig, latch, opened, readouts, due, memory>>
        /\ pc' = IF trig = "UnknownTrigger" THEN "beginGate" ELSE "softwareGate"
    BY <1>11, Zenon DEF ClearPendingInterrupts
  <2> QED
    BY <2>1, <2>2, SMT
<1>12. CASE ResetSequencerLatch
  BY <1>12, SMT DEF ResetSequencerLatch, Turn
<1>13. CASE Acknowledge
  BY <1>13, SMT DEF Acknowledge
<1>14. CASE WaitForSequencerReadoutCompletion
  BY <1>14, SMT DEF WaitForSequencerReadoutCompletion, Turn, EndRun
<1>15. CASE ReadGate
  BY <1>15, SMT DEF ReadGate
<1>16. CASE InterruptResetToDefault
  BY <1>16, SMT DEF InterruptResetToDefault
<1>17. CASE CleanupHardware
  BY <1>17, SMT DEF CleanupHardware, DisableSequencerReadout, EndRun
<1>18. CASE Spill
  <2>1. UNCHANGED <<pc, trig, interruptStatus, readouts, cutShort>>
    BY <1>18, Zenon DEF Spill
  <2>2. CASE NewInterrupt \/ pc \in ReadPoints
    BY <1>18, <2>1, <2>2, GateCaught, Zenon
  <2>3. CASE ~(NewInterrupt \/ pc \in ReadPoints) /\ NewInterrupt'
    <3>1. pending' # pending
      <4>1. SUFFICES ASSUME pending' = pending PROVE FALSE
        OBVIOUS
      <4>2. NewInterrupt' = NewInterrupt
        BY <2>1, <4>1, Zenon
      <4> QED
        BY <2>3, <4>2, Zenon
    <3>2. ~latch[Master]
      BY <1>18, <2>1, <3>1, GateCaught, Zenon
    <3>3. pc \in ArmedPoints \/ Enabling
      BY <2>1, <2>3, Zenon
    <3>4. \A c \in Crims : ~latch[c]
      BY <3>2, <3>3, Zenon DEF Armed
    <3>5. \A h \in Channels : sequencer[h]
      BY <3>3, SMT DEF SequencersOn, GatePoints
    <3>6. OneGate' /\ \A h \in Channels : Reads1(h)'
      BY <1>18, <2>1, <3>4, <3>5, GateCaught, Zenon
    <3> QED
      BY <2>1, <2>3, <3>6, Zenon
  <2>4. CASE ~(NewInterrupt \/ pc \in ReadPoints) /\ ~NewInterrupt'
    BY <2>1, <2>4, Zenon
  <2> QED
    BY <2>2, <2>3, <2>4, Zenon
<1>19. CASE BusFails
  BY <1>19, SMT DEF BusFails
<1>20. CASE \E h \in Channels : StartRDFE(h)
  <2>1. PICK h \in Channels : StartRDFE(h)
    BY <1>20
  <2>2. /\ due[h] # 0 /\ due' = [due EXCEPT ![h] = 0] /\ memory' = [memory EXCEPT ![h] = due[h]]
        /\ UNCHANGED <<pc, trig, interruptStatus, pending, latch, opened, readouts, cutShort>>
    BY <2>1, Zenon DEF StartRDFE
  <2>3. /\ NewInterrupt' = NewInterrupt /\ (OneGate => OneGate')
        /\ pc' \in ReadPoints => pc \in ReadPoints
    BY <2>2, Zenon
  <2>4. ASSUME NEW g \in Channels, Reads1(g) PROVE Reads1(g)'
    BY <2>2, <2>4, SMT DEF ModulesOK
  <2>5. ~(pc \in {"sequencers", "readGate"} /\ ~cutShort)
    BY <2>2, Zenon
  <2> QED
    BY <2>2, <2>3, <2>4, <2>5, Zenon
<1>21. CASE \E h \in Channels : FinishRDFE(h)
  BY <1>21, SMT DEF FinishRDFE
<1>22. CASE UNCHANGED vars
  BY <1>22, SMT DEF vars
<1> QED
  BY <1>1, <1>2, <1>3, <1>4, <1>5, <1>6, <1>7, <1>7a, <1>8, <1>9, <1>10, <1>11, <1>12, <1>13,
     <1>14, <1>15, <1>16, <1>17, <1>18, <1>19, <1>20, <1>21, <1>22 DEF Next, DAQStep,
     Hardware, AllRunsOver

\* A signal that cuts the sleep short takes the quit flag down, and with that down
\* no further gate begins.
LEMMA LastGatesStep ==
  ASSUME TypeOK, LastGates, [Next]_vars
  PROVE  LastGates'
<1>0. /\ LastGates /\ run \in Nat /\ readouts \in Seq(Readout) /\ Len(readouts) \in Nat
      /\ \A i \in 1..Len(readouts) : readouts[i].run \in Nat
  BY TriggerAssumption, ReadoutTyped DEF TypeOK, ControlOK, ModulesOK
<1>a. ASSUME UNCHANGED <<run, readouts, continueRunning, cutShort>>,
             pc' \in {"sequencers", "readGate"} => pc \in {"sequencers", "readGate"},
             pc \in {"beginGate", "resetInterrupts", "cleanupHardware", "off"}
               /\ ~continueRunning
               => pc' \in {"beginGate", "resetInterrupts", "cleanupHardware", "off"}
      PROVE  LastGates'
  BY <1>0, <1>a DEF LastGates
<1>1. CASE StartRun
  <2>1. run' = run + 1 /\ pc' = "addECROC" /\ readouts' = readouts
    BY <1>1, Zenon DEF StartRun
  <2>2. \A i \in 1..Len(readouts) : readouts[i].run <= run
    BY <1>0 DEF LastGates
  <2> QED
    BY <1>0, <2>1, <2>2 DEF LastGates
<1>2. CASE QuitSignal
  <2>1. UNCHANGED <<pc, run, readouts, cutShort>> /\ ~continueRunning'
    BY <1>2, Zenon DEF QuitSignal
  <2> QED
    BY <1>0, <2>1 DEF LastGates
<1>3. CASE CutSleep
  <2>1. UNCHANGED <<run, readouts>> /\ pc = "sleep" /\ pc' = "sequencers"
    BY <1>3, Zenon DEF CutSleep, EndSleep
  <2>2. cutShort' => ~continueRunning'
    BY <1>3, Zenon DEF CutSleep, EndSleep
  <2>3. \A i \in 1..Len(readouts) :
          readouts[i].run <= run /\ ~(readouts[i].cut /\ readouts[i].run = run)
    BY <1>0, <2>1 DEF LastGates
  <2> QED
    BY <2>1, <2>2, <2>3 DEF LastGates
<1>4. CASE VMEError
  <2>1. UNCHANGED <<run, readouts, continueRunning, cutShort>>
    BY <1>4, Zenon DEF VMEError, EndRun, Reads, ReadsFirst
  <2> QED
    BY <1>a, <1>4, <2>1 DEF VMEError, EndRun, Reads, ReadsFirst
<1>5. CASE BeginNextGate
  <2>1. UNCHANGED <<run, readouts, continueRunning, cutShort>>
    BY <1>5, Zenon DEF BeginNextGate
  <2> QED
    BY <1>a, <1>5, <2>1 DEF BeginNextGate
<1>6. CASE SendSoftwareGate
  <2>1. UNCHANGED <<run, readouts, continueRunning, cutShort>>
    BY <1>6, Zenon DEF SendSoftwareGate, OpenGate
  <2> QED
    BY <1>a, <1>6, <2>1 DEF SendSoftwareGate, OpenGate
<1>7. CASE WaitForIRQ
  <2>1. UNCHANGED <<run, readouts, continueRunning, cutShort>>
    BY <1>7, Zenon DEF WaitForIRQ
  <2> QED
    BY <1>a, <1>7, <2>1 DEF WaitForIRQ
<1>8. CASE Sleep
  <2>1. UNCHANGED <<run, readouts>> /\ pc = "sleep" /\ pc' = "sequencers"
    BY <1>8, Zenon DEF Sleep, EndSleep
  <2>2. cutShort' => ~continueRunning'
    BY <1>8, Zenon DEF Sleep, EndSleep
  <2>3. \A i \in 1..Len(readouts) :
          readouts[i].run <= run /\ ~(readouts[i].cut /\ readouts[i].run = run)
    BY <1>0, <2>1 DEF LastGates
  <2> QED
    BY <2>1, <2>2, <2>3 DEF LastGates
<1>9. CASE AddECROC
  <2>1. UNCHANGED <<run, readouts, continueRunning, cutShort>>
    BY <1>9, Zenon DEF AddECROC, Turn
  <2> QED
    BY <1>a, <1>9, <2>1 DEF AddECROC, Turn
<1>10. CASE InitializeCrates
  <2>1. UNCHANGED <<run, readouts, continueRunning, cutShort>>
    BY <1>10, Zenon DEF InitializeCrates, Turn
  <2> QED
    BY <1>a, <1>10, <2>1 DEF InitializeCrates, Turn
<1>11. CASE EnableIRQ
  <2>1. UNCHANGED <<run, readouts, continueRunning, cutShort>>
    BY <1>11, Zenon DEF EnableIRQ
  <2> QED
    BY <1>a, <1>11, <2>1 DEF EnableIRQ
<1>12. CASE ClearPendingInterrupts
  <2>1. UNCHANGED <<run, readouts, continueRunning, cutShort>>
    BY <1>12, Zenon DEF ClearPendingInterrupts
  <2> QED
    BY <1>a, <1>12, <2>1 DEF ClearPendingInterrupts
<1>13. CASE ResetSequencerLatch
  <2>1. UNCHANGED <<run, readouts, continueRunning, cutShort>>
    BY <1>13, Zenon DEF ResetSequencerLatch, Turn
  <2> QED
    BY <1>a, <1>13, <2>1 DEF ResetSequencerLatch, Turn
<1>14. CASE Acknowledge
  <2>1. UNCHANGED <<run, readouts, continueRunning, cutShort>>
    BY <1>14, Zenon DEF Acknowledge
  <2> QED
    BY <1>a, <1>14, <2>1 DEF Acknowledge
<1>15. CASE WaitForSequencerReadoutCompletion
  <2>1. UNCHANGED <<run, readouts, continueRunning, cutShort>>
    BY <1>15, Zenon DEF WaitForSequencerReadoutCompletion, Turn, EndRun
  <2> QED
    BY <1>a, <1>15, <2>1 DEF WaitForSequencerReadoutCompletion, Turn, EndRun
<1>16. CASE ReadGate
  <2>1. /\ pc = "readGate" /\ pc' = "beginGate"
        /\ readouts' = Append(readouts, [run |-> run, trig |-> trig,
                                         gate |-> opened[Master], data |-> memory,
                                         cut |-> cutShort])
        /\ UNCHANGED <<run, continueRunning, cutShort>>
    BY <1>16, Zenon DEF ReadGate
  <2>2. /\ Len(readouts') = Len(readouts) + 1
        /\ \A i \in 1..Len(readouts) : readouts'[i] = readouts[i]
        /\ readouts'[Len(readouts) + 1].run = run
        /\ readouts'[Len(readouts) + 1].cut = cutShort
    BY <1>0, <2>1, SMT
  <2>3. /\ cutShort => ~continueRunning
        /\ \A i \in 1..Len(readouts) :
             readouts[i].run <= run /\ ~(readouts[i].cut /\ readouts[i].run = run)
    BY <1>0, <2>1 DEF LastGates
  <2>4. \A i \in 1..Len(readouts') : i \in 1..Len(readouts) \/ i = Len(readouts) + 1
    BY <1>0, <2>2
  <2>5. \A i \in 1..Len(readouts') :
          readouts'[i].run <= run' /\ (readouts'[i].cut => readouts'[i].run # run' \/ cutShort)
    BY <1>0, <2>1, <2>2, <2>3, <2>4
  <2> QED
    BY <2>1, <2>3, <2>5 DEF LastGates
<1>17. CASE InterruptResetToDefault
  <2>1. UNCHANGED <<run, readouts, continueRunning, cutShort>>
    BY <1>17, Zenon DEF InterruptResetToDefault
  <2> QED
    BY <1>a, <1>17, <2>1 DEF InterruptResetToDefault
<1>18. CASE CleanupHardware
  <2>1. UNCHANGED <<run, readouts, continueRunning, cutShort>>
    BY <1>18, Zenon DEF CleanupHardware, EndRun
  <2> QED
    BY <1>a, <1>18, <2>1 DEF CleanupHardware, EndRun
<1>19. CASE Spill
  <2>1. UNCHANGED control
    BY <1>19, Zenon DEF Spill
  <2> QED
    BY <1>a, <2>1 DEF control
<1>20. CASE BusFails
  <2>1. UNCHANGED control
    BY <1>20, Zenon DEF BusFails
  <2> QED
    BY <1>a, <2>1 DEF control
<1>21. CASE \E h \in Channels : StartRDFE(h)
  <2>1. UNCHANGED control
    BY <1>21, Zenon DEF StartRDFE
  <2> QED
    BY <1>a, <2>1 DEF control
<1>22. CASE \E h \in Channels : FinishRDFE(h)
  <2>1. UNCHANGED control
    BY <1>22, Zenon DEF FinishRDFE
  <2> QED
    BY <1>a, <2>1 DEF control
<1>23. CASE UNCHANGED vars
  <2>1. UNCHANGED control
    BY <1>23, Zenon DEF vars
  <2> QED
    BY <1>a, <2>1 DEF control
<1> QED
  BY <1>1, <1>2, <1>3, <1>4, <1>5, <1>6, <1>7, <1>8, <1>9, <1>10, <1>11, <1>12, <1>13,
     <1>14, <1>15, <1>16, <1>17, <1>18, <1>19, <1>20, <1>21, <1>22, <1>23 DEF Next,
     DAQStep, Hardware, AllRunsOver

\* Only ReadGate adds a read-out, of the gate that was caught.
LEMMA HistoryStep ==
  ASSUME TypeOK, Caught, LastGates, GateCoherent, GatesReadOnceInOrder, [Next]_vars
  PROVE  GateCoherent' /\ GatesReadOnceInOrder'
<1>0. GateCoherent /\ GatesReadOnceInOrder
  OBVIOUS
<1> USE <1>0 DEF GateCoherent, GatesReadOnceInOrder, control
<1>1. CASE StartRun
  BY <1>1, Zenon DEF StartRun
<1>2. CASE QuitSignal
  BY <1>2, Zenon DEF QuitSignal
<1>3. CASE VMEError
  BY <1>3, Zenon DEF VMEError, EndRun, Reads, ReadsFirst
<1>4. CASE BeginNextGate
  BY <1>4, Zenon DEF BeginNextGate
<1>5. CASE SendSoftwareGate
  BY <1>5, Zenon DEF SendSoftwareGate, OpenGate
<1>6. CASE WaitForIRQ
  BY <1>6, Zenon DEF WaitForIRQ
<1>7. CASE Sleep
  BY <1>7, Zenon DEF Sleep, EndSleep
<1>7a. CASE CutSleep
  BY <1>7a, Zenon DEF CutSleep, EndSleep
<1>8. CASE AddECROC
  BY <1>8, Zenon DEF AddECROC, ClearAndResetStatus, DisableSequencerReadout, Turn
<1>9. CASE InitializeCrates
  BY <1>9, Zenon DEF InitializeCrates, InitializeChannel, ClearAndResetStatus,
     EnableSequencerReadout, Turn
<1>10. CASE EnableIRQ
  BY <1>10, Zenon DEF EnableIRQ
<1>11. CASE ClearPendingInterrupts
  BY <1>11, Zenon DEF ClearPendingInterrupts
<1>12. CASE ResetSequencerLatch
  BY <1>12, Zenon DEF ResetSequencerLatch, Turn
<1>13. CASE Acknowledge
  BY <1>13, Zenon DEF Acknowledge
<1>14. CASE WaitForSequencerReadoutCompletion
  BY <1>14, Zenon DEF WaitForSequencerReadoutCompletion, Turn, EndRun
<1>15. CASE ReadGate
  <2>1. pc = "readGate"
        /\ readouts' = Append(readouts, [run |-> run, trig |-> trig,
                                         gate |-> opened[Master], data |-> memory,
                                         cut |-> cutShort])
    BY <1>15, Zenon DEF ReadGate
  <2>2. /\ ~cutShort => \A h \in Channels : memory[h] = opened[Master]
        /\ \A i \in 1..Len(readouts) : readouts[i].gate < opened[Master]
    <3>1. OneGate /\ \A h \in Channels : Reads1(h)
      BY <2>1, SMT DEF Caught, ReadPoints
    <3>2. ~cutShort => \A h \in Channels : due[h] = 0
      BY <2>1, SMT DEF Caught
    <3> QED
      BY <3>1, <3>2, SMT DEF OneGate, Reads1
  <2>3. readouts \in Seq(Readout) /\ Len(readouts) \in Nat
    BY DEF TypeOK, ModulesOK
  <2>4. /\ Len(readouts') = Len(readouts) + 1
        /\ \A i \in 1..Len(readouts) : readouts'[i] = readouts[i]
        /\ readouts'[Len(readouts) + 1].gate = opened[Master]
        /\ readouts'[Len(readouts) + 1].data = memory
        /\ readouts'[Len(readouts) + 1].run = run
        /\ readouts'[Len(readouts) + 1].cut = cutShort
    BY <2>1, <2>3, SMT
  <2>5. GateCoherent'
    <3>1. \A i \in 1..Len(readouts) : readouts[i].cut => readouts[i].run # run
      BY <2>1 DEF LastGates
    <3>2. \A i \in 1..Len(readouts') : i \in 1..Len(readouts) \/ i = Len(readouts) + 1
      BY <2>3, <2>4
    <3>3. ASSUME NEW i \in 1..Len(readouts'), readouts'[i].cut, NEW j \in 1..Len(readouts'),
                 readouts'[j].run = readouts'[i].run
          PROVE  j <= i
      <4>1. CASE i \in 1..Len(readouts) /\ j \in 1..Len(readouts)
        <5>1. readouts[i].cut /\ readouts[j].run = readouts[i].run
          BY <2>4, <3>3, <4>1
        <5> QED
          BY <4>1, <5>1, Zenon
      <4>2. CASE i \in 1..Len(readouts) /\ j = Len(readouts) + 1
        BY <2>4, <3>1, <3>3, <4>2
      <4>3. CASE i = Len(readouts) + 1
        BY <2>3, <2>4, <3>2, <4>3
      <4> QED
        BY <3>2, <4>1, <4>2, <4>3
    <3>4. ASSUME NEW i \in 1..Len(readouts'), ~readouts'[i].cut, NEW h \in Channels
          PROVE  readouts'[i].data[h] = readouts'[i].gate
      <4>1. CASE i \in 1..Len(readouts)
        <5>1. ~readouts[i].cut
          BY <2>4, <3>4, <4>1
        <5>2. readouts[i].data[h] = readouts[i].gate
          BY <4>1, <5>1, Zenon
        <5> QED
          BY <2>4, <4>1, <5>2
      <4>2. CASE i = Len(readouts) + 1
        BY <2>2, <2>4, <3>4, <4>2
      <4> QED
        BY <3>2, <4>1, <4>2
    <3> QED
      BY <3>3, <3>4, Zenon
  <2>6. GatesReadOnceInOrder'
    BY <2>2, <2>3, <2>4, SMT
  <2> QED
    BY <2>5, <2>6
<1>16. CASE InterruptResetToDefault
  BY <1>16, Zenon DEF InterruptResetToDefault
<1>17. CASE CleanupHardware
  BY <1>17, Zenon DEF CleanupHardware, DisableSequencerReadout, EndRun
<1>18. CASE Spill
  BY <1>18, Zenon DEF Spill, OpenGate
<1>19. CASE BusFails
  BY <1>19, Zenon DEF BusFails
<1>20. CASE \E h \in Channels : StartRDFE(h)
  BY <1>20, Zenon DEF StartRDFE
<1>21. CASE \E h \in Channels : FinishRDFE(h)
  BY <1>21, Zenon DEF FinishRDFE
<1>22. CASE UNCHANGED vars
  BY <1>22, Zenon DEF vars
<1> QED
  BY <1>1, <1>2, <1>3, <1>4, <1>5, <1>6, <1>7, <1>7a, <1>8, <1>9, <1>10, <1>11, <1>12, <1>13,
     <1>14, <1>15, <1>16, <1>17, <1>18, <1>19, <1>20, <1>21, <1>22 DEF Next, DAQStep,
     Hardware, AllRunsOver

-----------------------------------------------------------------------------
(* The results.                                                            *)

\* The invariant holds before the first run.
LEMMA InitInvariant == Init => IInv
<1> SUFFICES ASSUME Init PROVE IInv
  OBVIOUS
<1>1. FlagsOK
  BY Zenon DEF Init, FlagsOK
<1>2. ControlOK
  BY TriggerAssumption, SMT DEF Init, ControlOK, Points
<1>3. ModulesOK
  BY SMT DEF Init, ModulesOK
<1>4. Control /\ SequencersOn /\ Armed
  BY SMT DEF Init, Control, SequencersOn, Armed, Enabling, GatePoints, ArmedPoints, ReadPoints
<1>5. Numbered /\ Caught
  BY SMT DEF Init, Numbered, Caught, NewInterrupt, Enabling, ArmedPoints, ReadPoints, Crims
<1>6. LastGates /\ GateCoherent /\ GatesReadOnceInOrder
  BY SMT DEF Init, LastGates, GateCoherent, GatesReadOnceInOrder
<1> QED
  BY <1>1, <1>2, <1>3, <1>4, <1>5, <1>6 DEF IInv, TypeOK

\* Every step of minervadaq, the CRIMs and the sequencers keeps it.
LEMMA NextInvariant == IInv /\ [Next]_vars => IInv'
  BY FlagsStep, ControlOKStep, ModulesOKStep, ControlStep, SequencersStep, ArmedStep,
     NumberedStep, CaughtStep, LastGatesStep, HistoryStep, Zenon DEF IInv, TypeOK

\* IInv is an inductive invariant of the trigger sequence.
THEOREM Invariance == Spec => []IInv
  BY InitInvariant, NextInvariant, PTL DEF Spec

\* Every variable keeps its type, and the loops over CRIMs and channels stay
\* within them, for every number of either.
THEOREM TypeCorrect == Spec => []TypeOK
<1>1. IInv => TypeOK
  BY DEF IInv
<1> QED
  BY <1>1, Invariance, PTL

\* From the interrupt to the end of the read-out no CRIM is open, whatever
\* spills come while the latches are reset one after the other.
THEOREM Latched == Spec => []LatchedWhileReading
<1>1. IInv => LatchedWhileReading
  BY DEF IInv, Caught, OneGate, ReadPoints, LatchedWhileReading, OpenCrims
<1> QED
  BY <1>1, Invariance, PTL

\* The blocks of a gate come from that one gate in every channel, for every
\* cabling of channels to CRIMs, except when a signal cuts the sleep before its
\* read-out short; and then it is the last gate of its run.
THEOREM Coherent == Spec => []GateCoherent
<1>1. IInv => GateCoherent
  BY DEF IInv
<1> QED
  BY <1>1, Invariance, PTL

\* No gate is read out twice or out of order, across runs, exceptions and
\* time-outs.
THEOREM ReadOnceInOrder == Spec => []GatesReadOnceInOrder
<1>1. IInv => GatesReadOnceInOrder
  BY DEF IInv
<1> QED
  BY <1>1, Invariance, PTL

=============================================================================
