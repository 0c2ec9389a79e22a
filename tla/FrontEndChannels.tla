-------------------------- MODULE FrontEndChannels --------------------------
(***************************************************************************)
(* The channels of one CROC-E: how VMECrate::AddECROC finds the front-end  *)
(* boards (ClearAndResetStatusRegisters, DisableSequencerReadout,          *)
(* SetupNFrontEndBoards with one exchange of messages per board,           *)
(* ClearEmptyChannels), how the boards' frames are read out as one block   *)
(* per channel and gate, and how a block is split into frames again when   *)
(* events do not go to ET.  TriggerSequence says when a gate is read out;  *)
(* here a gate is one step.                                                *)
(*                                                                         *)
(* The CROC-E and the boards are external.  A channel's sequencer, when it *)
(* is switched on, fills the channel's memory at every gate with a frame   *)
(* of each of the boards its configuration register counts.  A board       *)
(* answers the message sent to its address, or the CROC-E reports a        *)
(* time-out, a CRC error or a header error.                                *)
(***************************************************************************)
EXTENDS Integers, Sequences, FiniteSetsExt

CONSTANTS
  NChannels,        \* channels of the CROC-E (4)
  MaxFEBs,          \* boards a channel can have (10)
  Chains,           \* chains of boards: firmware by address, 0 for no board
  Requests,         \* boards per channel that hardware files ask for
  FrameLengths,     \* lengths of the boards' frames in a block
  UShort,           \* one more than the largest unsigned short (2^16)
  HeaderFaults,     \* may a board report errors in the header of its answer?
  MaxRuns, MaxGates \* bounds on processes and on gates

Channels == 1..NChannels
Boards   == 1..MaxFEBs

ASSUME ChannelAssumption ==
  /\ NChannels \in Nat \ {0} /\ MaxFEBs \in Nat \ {0}
  /\ Chains \subseteq [Boards -> Nat]
  /\ Requests \subseteq [Channels -> Int]
  /\ FrameLengths \subseteq Nat \ {0}
  /\ UShort \in Nat \ {0}
  /\ HeaderFaults \in BOOLEAN
  /\ MaxRuns \in Nat /\ MaxGates \in Nat

VARIABLES
  pc, chan,         \* control point, and channel it is at
  nFEBs,            \* arguments of AddECROC
  feb, febFirmware, \* locals of SetupNFrontEndBoards ...
  config,           \* ... with the sequencer bit of the register it read
  vector,           \* FrontEndBoardsVector of each channel
  kept,             \* ECROCChannels after ClearEmptyChannels
  answers,          \* the answers on which the boards of vector were accepted
  block,            \* SequencerReadoutBlock: frames in memory, and dataLength
  index, frames,    \* locals of ProcessDataIntoFrames
  run, readouts     \* processes so far, and the blocks read by this one

VARIABLES
  chain,            \* boards on each channel: part of the detector
  status,           \* frame status register: the bits that are up
  asked,            \* address in the message in the send memory, 0 if none
  sending,          \* the message is on its way
  memory,           \* frames in the receive memory
  nfebsField,       \* configuration register: number of boards ...
  sequencer,        \* ... and sequencer readout enabled
  headerFirmware,   \* firmware in the header data register
  gate              \* gates so far

daqVars  == <<pc, chan, nFEBs, feb, febFirmware, config, vector, kept, answers,
              block, index, frames, run, readouts>>
crocVars == <<status, asked, sending, memory, nfebsField, sequencer,
              headerFirmware, gate>>
vars == <<daqVars, chain, crocVars>>

-----------------------------------------------------------------------------
\* Bytes as the sets of their bits: FrameTypes::ResponseFlags.  The upper
\* nibble of DeviceStatus is the device, FPGA = 0x20.
FPGA   == {5}
OKBits == [DeviceStatus |-> {0, 1}, FrameStatus |-> 0..4]

\* The answers of a board to the message to address a: both status bytes
\* without error flags, or, one at a time, short of some.
StatusBytes ==
  {OKBits} \cup
  (IF HeaderFaults THEN {[OKBits EXCEPT !.DeviceStatus = {1}],
                         [OKBits EXCEPT !.FrameStatus = 1..4],
                         [OKBits EXCEPT !.FrameStatus = {}]}
                   ELSE {})

Answer(a, fw, length, bytes) ==
  [feb |-> a, firmware |-> fw, length |-> length, gate |-> 0,
   DeviceStatus |-> FPGA \cup bytes.DeviceStatus, FrameStatus |-> bytes.FrameStatus]

\* A board's frame in the data of a gate; the first frame of a block is an
\* FPGA frame, of the length that DecodeRegisterValues asks for.
DataFrame(a, fw, length) ==
  [Answer(a, fw, length, OKBits) EXCEPT !.gate = gate + 1]

FPGAFrameMaxSize == 80

\* A message that was sent: the board it is for answers, or the CROC-E gives
\* up; nobody else is addressed.
Reply(c) ==
  /\ sending[c]
  /\ sending' = [sending EXCEPT ![c] = FALSE]
  /\ \/ /\ chain[c][asked[c]] # 0
        /\ \E bytes \in StatusBytes, length \in {FPGAFrameMaxSize, FPGAFrameMaxSize - 4} :
             memory' = [memory EXCEPT ![c] =
                Append(@, Answer(asked[c], chain[c][asked[c]], length, bytes))]
        /\ status' = [status EXCEPT ![c] = @ \cup {"ReceiveMemoryFrameReceived"}]
     \/ /\ \E e \in {"ReceiveMemoryFrameTimeout", "ReceiveMemoryCRCError",
                     "ReceiveMemoryFrameHeaderError"} :
             status' = [status EXCEPT ![c] = @ \cup {e}]
        /\ UNCHANGED memory
  /\ UNCHANGED <<daqVars, chain, asked, nfebsField, sequencer, headerFirmware, gate>>

\* A gate.  Where a board is missing the sequencer reports an error.
SequencerReads(c, lengths) ==
  [i \in 1..nfebsField[c] |->
     DataFrame(i, IF i \in Boards THEN chain[c][i] ELSE 0,
               IF i = 1 THEN FPGAFrameMaxSize ELSE lengths[i])]

OpenGate ==
  /\ gate < MaxGates
  /\ gate' = gate + 1
  /\ \E lengths \in [Boards -> FrameLengths] :
       memory' = [c \in Channels |->
         IF sequencer[c] /\ nfebsField[c] > 0 THEN SequencerReads(c, lengths)
                                              ELSE memory[c]]
  /\ status' = [c \in Channels |->
       status[c] \cup
       (IF ~sequencer[c] THEN {}
        ELSE IF \E i \in 1..nfebsField[c] : chain[c][i] = 0 THEN {"SequencerError"}
        ELSE {"SendMemoryRDFEDone"} \cup
             (IF nfebsField[c] > 0 THEN {"ReceiveMemoryFrameReceived"} ELSE {}))]
  /\ UNCHANGED <<chain, asked, sending, nfebsField, sequencer, headerFirmware>>

\* Spills come while the boards are looked for too; while a gate is read out
\* the CRIMs let none through.
Spill ==
  /\ pc \notin {"waitForGate", "sequencers", "readBlock", "process"}
  /\ OpenGate
  /\ UNCHANGED daqVars

-----------------------------------------------------------------------------
\* minervadaq.  How a process ends: the channels stay as they are.
Throw == pc' = "off"

\* A loop over the channels in cs: the next one, or the next point.
NextChannel(cs, next) ==
  IF \E d \in cs : d > chan
    THEN chan' = Min({d \in cs : d > chan}) /\ UNCHANGED pc
    ELSE chan' = Min(cs \cup {NChannels}) /\ pc' = next

\* Mutant: the status register is cleared and the memory is not.
ClearStatusOnly(c) ==
  /\ status' = [status EXCEPT ![c] = {}]
  /\ asked' = [asked EXCEPT ![c] = 0]
  /\ sending' = [sending EXCEPT ![c] = FALSE]
  /\ UNCHANGED memory

\* EChannels::ClearAndResetStatusRegister: status and memory pointers.
ClearAndReset(c) ==
  /\ status' = [status EXCEPT ![c] = {}]
  /\ memory' = [memory EXCEPT ![c] = <<>>]
  /\ asked' = [asked EXCEPT ![c] = 0]
  /\ sending' = [sending EXCEPT ![c] = FALSE]

\* A new process and its hardware file.  Numbers of boards out of range are
\* taken as 0.
AddECROC ==
  /\ pc = "off"
  /\ run < MaxRuns
  /\ run' = run + 1
  /\ \E request \in Requests :
       nFEBs' = [c \in Channels |-> IF request[c] \in Boards THEN request[c] ELSE 0]
  /\ pc' = "clearStatus" /\ chan' = 1
  /\ feb' = 0 /\ febFirmware' = 0
  /\ vector' = [c \in Channels |-> <<>>]
  /\ answers' = [c \in Channels |-> <<>>]
  /\ kept' = Channels /\ readouts' = <<>> /\ frames' = <<>>
  /\ UNCHANGED <<config, block, index, chain, crocVars>>

ClearAndResetStatusRegisters ==
  /\ pc = "clearStatus"
  /\ ClearAndReset(chan)
  /\ NextChannel(Channels, "disable")
  /\ UNCHANGED <<nFEBs, feb, febFirmware, config, vector, kept, answers, block, index,
                 frames, run, readouts, chain, nfebsField, sequencer, headerFirmware, gate>>

\* Mutant: sequencers are left as the last process had them.
LeaveSequencersOn ==
  /\ pc = "disable"
  /\ NextChannel(Channels, "setup")
  /\ UNCHANGED <<nFEBs, feb, febFirmware, config, vector, kept, answers, block, index,
                 frames, run, readouts, chain, crocVars>>

\* "make sure this is disabled for init"
DisableSequencerReadout ==
  /\ pc = "disable"
  /\ sequencer' = [sequencer EXCEPT ![chan] = FALSE]
  /\ NextChannel(Channels, "setup")
  /\ UNCHANGED <<nFEBs, feb, febFirmware, config, vector, kept, answers, block, index,
                 frames, run, readouts, chain, status, asked, sending, memory,
                 nfebsField, headerFirmware, gate>>

\* SetupNFrontEndBoards up to its loop: nothing to do for no boards, else the
\* configuration register is read.
SetupNFrontEndBoards ==
  /\ pc = "setup"
  /\ \/ /\ nFEBs[chan] = 0
        /\ NextChannel(Channels, "clearEmpty")
        /\ UNCHANGED <<feb, febFirmware, config>>
     \/ /\ nFEBs[chan] > 0
        /\ config' = sequencer[chan]
        /\ feb' = 1 /\ febFirmware' = 0
        /\ pc' = "clear"
        /\ UNCHANGED chan
  /\ UNCHANGED <<nFEBs, vector, kept, answers, block, index, frames, run, readouts,
                 chain, crocVars>>

\* ReadFPGAProgrammingRegistersToMemory, write by write ...
ClearAndResetStatusRegister ==
  /\ pc = "clear"
  /\ ClearAndReset(chan)
  /\ pc' = "writeMessage"
  /\ UNCHANGED <<chan, nFEBs, feb, febFirmware, config, vector, kept, answers, block,
                 index, frames, run, readouts, chain, nfebsField, sequencer,
                 headerFirmware, gate>>

WriteMessageToMemory ==
  /\ pc = "writeMessage"
  /\ asked' = [asked EXCEPT ![chan] = feb]
  /\ pc' = "sendMessage"
  /\ UNCHANGED <<chan, nFEBs, feb, febFirmware, config, vector, kept, answers, block,
                 index, frames, run, readouts, chain, status, sending, memory,
                 nfebsField, sequencer, headerFirmware, gate>>

\* Mutant: the message stays in the send memory.
ForgetToSend ==
  /\ pc = "sendMessage"
  /\ pc' = "waitForMessage"
  /\ UNCHANGED <<chan, nFEBs, feb, febFirmware, config, vector, kept, answers, block,
                 index, frames, run, readouts, chain, crocVars>>

SendMessage ==
  /\ pc = "sendMessage"
  /\ sending' = [sending EXCEPT ![chan] = TRUE]
  /\ pc' = "waitForMessage"
  /\ UNCHANGED <<chan, nFEBs, feb, febFirmware, config, vector, kept, answers, block,
                 index, frames, run, readouts, chain, status, asked, memory,
                 nfebsField, sequencer, headerFirmware, gate>>

\* The status bits that DecodeStatusMessage counts as errors, of those the
\* CROC-E of this model sets.
FrameErrors ==
  {"ReceiveMemoryFrameTimeout", "ReceiveMemoryCRCError",
   "ReceiveMemoryFrameHeaderError", "SequencerError"}

\* ... WaitForMessageReceived: the loop has no time-out of its own, and does
\* not end at a SequencerError ...
WaitForMessageReceived ==
  /\ pc = "waitForMessage"
  /\ status[chan] \ {"SequencerError", "SendMemoryRDFEDone"} # {}
  /\ IF status[chan] \cap FrameErrors # {} THEN Throw ELSE pc' = "isAvailable"
  /\ UNCHANGED <<chan, nFEBs, feb, febFirmware, config, vector, kept, answers, block,
                 index, frames, run, readouts, chain, crocVars>>

\* LVDSFrame::CheckForErrors: (!byte) & flag, where ! is logical, so that its
\* value is bit 0 for a byte that is 0, and nothing for all others.  (The flag
\* Direction is bit 7 and can never be met.)
Not(byte) == IF byte = {} THEN {0} ELSE {}
Flags == <<[byte |-> "DeviceStatus", bit |-> 0], [byte |-> "DeviceStatus", bit |-> 1],
           [byte |-> "FrameStatus", bit |-> 0], [byte |-> "FrameStatus", bit |-> 1],
           [byte |-> "FrameStatus", bit |-> 2], [byte |-> "FrameStatus", bit |-> 3],
           [byte |-> "FrameStatus", bit |-> 4]>>
CheckForErrors(message) ==
  \E i \in DOMAIN Flags : Flags[i].bit \in Not(message[Flags[i].byte])

\* FPGAFrame::DecodeRegisterValues throws for these.
DecodeThrows(message) ==
  message.length # FPGAFrameMaxSize \/ CheckForErrors(message)

\* ... and isAvailable: the frame at the start of the memory is decoded.  The
\* address that is compared, GetFEBNumber, is the one the frame was made with
\* and not one that was received, so the firmware is always returned.
\* SetupNFrontEndBoards goes on with it: all boards have the same firmware,
\* and it is not 0.
IsAvailable ==
  /\ pc = "isAvailable"
  /\ LET message == Head(memory[chan])
         firmware == message.firmware
     IN  IF DecodeThrows(message) \/ firmware = 0 \/ (feb > 1 /\ firmware # febFirmware)
           THEN Throw /\ UNCHANGED <<feb, febFirmware, vector, answers>>
           ELSE /\ febFirmware' = firmware
                /\ vector' = [vector EXCEPT ![chan] = Append(@, feb)]
                /\ answers' = [answers EXCEPT ![chan] = Append(@, message)]
                /\ feb' = feb + 1
                /\ pc' = IF feb = nFEBs[chan] THEN "setConfig" ELSE "clear"
  /\ UNCHANGED <<chan, nFEBs, config, kept, block, index, frames, run, readouts,
                 chain, crocVars>>

\* Mutant: one channel too many.
SetConfigurationPastEnd ==
  /\ pc = "setConfig"
  /\ chan' = chan + 1 /\ pc' = "setup"
  /\ UNCHANGED <<nFEBs, feb, febFirmware, config, vector, kept, answers, block, index,
                 frames, run, readouts, chain, crocVars>>

\* SetNFEBs, SetChannelConfiguration and SetupHeaderData: the register is
\* written as it was read, with the number of boards.
SetChannelConfiguration ==
  /\ pc = "setConfig"
  /\ nfebsField' = [nfebsField EXCEPT ![chan] = nFEBs[chan]]
  /\ sequencer' = [sequencer EXCEPT ![chan] = config]
  /\ headerFirmware' = [headerFirmware EXCEPT ![chan] = febFirmware]
  /\ IF chan < NChannels THEN chan' = chan + 1 /\ pc' = "setup"
                         ELSE chan' = 1 /\ pc' = "clearEmpty"
  /\ UNCHANGED <<nFEBs, feb, febFirmware, config, vector, kept, answers, block, index,
                 frames, run, readouts, chain, status, asked, sending, memory, gate>>

\* Mutant: channels without boards stay in the list.
KeepEmptyChannels ==
  /\ pc = "clearEmpty"
  /\ chan' = 1 /\ pc' = "initialize"
  /\ UNCHANGED <<nFEBs, feb, febFirmware, config, vector, kept, answers, block, index,
                 frames, run, readouts, chain, crocVars>>

\* ECROC::ClearEmptyChannels.  With no channel left minervadaq exits at the
\* first gate.
ClearEmptyChannels ==
  /\ pc = "clearEmpty"
  /\ kept' = {c \in Channels : vector[c] # <<>>}
  /\ IF kept' = {} THEN Throw /\ UNCHANGED chan
                   ELSE chan' = Min(kept') /\ pc' = "initialize"
  /\ UNCHANGED <<nFEBs, feb, febFirmware, config, vector, answers, block, index,
                 frames, run, readouts, chain, crocVars>>

\* ECROC::Initialize and ConfigureForStandardDataTaking.
Initialize ==
  /\ pc = "initialize"
  /\ ClearAndReset(chan)
  /\ sequencer' = [sequencer EXCEPT ![chan] = TRUE]
  /\ NextChannel(kept, "waitForGate")
  /\ UNCHANGED <<nFEBs, feb, febFirmware, config, vector, kept, answers, block, index,
                 frames, run, readouts, chain, nfebsField, headerFirmware, gate>>

\* Trigger (TriggerSequence) ...
WaitForGate ==
  /\ pc = "waitForGate"
  /\ OpenGate
  /\ pc' = "sequencers" /\ chan' = Min(kept)
  /\ UNCHANGED <<nFEBs, feb, febFirmware, config, vector, kept, answers, block, index,
                 frames, run, readouts>>

\* ... to the sequencers' end.
WaitForSequencerReadoutCompletion ==
  /\ pc = "sequencers"
  /\ \/ /\ status[chan] \cap FrameErrors # {}
        /\ Throw /\ UNCHANGED chan
     \/ /\ status[chan] \cap FrameErrors = {}
        /\ "SendMemoryRDFEDone" \in status[chan]
        /\ NextChannel(kept, "readBlock")
  /\ UNCHANGED <<nFEBs, feb, febFirmware, config, vector, kept, answers, block, index,
                 frames, run, readouts, chain, crocVars>>

\* Bytes of the first k frames of a block.
Offset(fs, k) ==
  LET bytes[n \in 0..Len(fs)] == IF n = 0 THEN 0 ELSE bytes[n - 1] + fs[n].length
  IN  bytes[k]

\* ReadDPMPointer, ReadMemory and SetData, whose length is an unsigned short.
\* TakeData then declares the block to ET, or dissolves it.
ReadBlock ==
  /\ pc = "readBlock"
  /\ block' = [data |-> memory[chan],
               dataLength |-> Offset(memory[chan], Len(memory[chan])) % UShort]
  /\ readouts' = Append(readouts, [chan |-> chan, gate |-> gate, data |-> memory[chan]])
  /\ index' = 0 /\ frames' = <<>>
  /\ \/ NextChannel(kept, "waitForGate")
     \/ pc' = "process" /\ UNCHANGED chan
  /\ UNCHANGED <<nFEBs, feb, febFirmware, config, vector, kept, answers, run, chain,
                 crocVars>>

\* Mutant: the loop stops before the frame that ends with the block.
ProcessButLast ==
  /\ pc = "process"
  /\ \E k \in DOMAIN block.data :
       /\ Offset(block.data, k - 1) = index
       /\ IF index + block.data[k].length < block.dataLength
            THEN /\ frames' = Append(frames, block.data[k])
                 /\ index' = (index + block.data[k].length) % UShort
            ELSE index' = block.dataLength /\ UNCHANGED frames
  /\ UNCHANGED <<pc, chan, nFEBs, feb, febFirmware, config, vector, kept, answers,
                 block, run, readouts, chain, crocVars>>

\* SequencerReadoutBlock::ProcessDataIntoFrames, frame by frame, and the rest
\* of DissolveDataBlock.
ProcessDataIntoFrames ==
  /\ pc = "process"
  /\ \/ /\ index < block.dataLength
        /\ \E k \in DOMAIN block.data :
             /\ Offset(block.data, k - 1) = index
             /\ frames' = Append(frames, block.data[k])
             /\ index' = (index + block.data[k].length) % UShort
        /\ UNCHANGED <<pc, chan>>
     \/ /\ index >= block.dataLength
        /\ IF \E d \in kept : d > chan
             THEN chan' = Min({d \in kept : d > chan}) /\ pc' = "readBlock"
             ELSE chan' = Min(kept) /\ pc' = "waitForGate"
        /\ UNCHANGED <<index, frames>>
  /\ UNCHANGED <<nFEBs, feb, febFirmware, config, vector, kept, answers, block, run,
                 readouts, chain, crocVars>>

\* The end of a run: CleanupHardware, which switches the sequencers off.
CleanupHardware ==
  /\ pc = "waitForGate"
  /\ sequencer' = [c \in Channels |-> sequencer[c] /\ c \notin kept]
  /\ Throw
  /\ UNCHANGED <<chan, nFEBs, feb, febFirmware, config, vector, kept, answers, block,
                 index, frames, run, readouts, chain, status, asked, sending, memory,
                 nfebsField, headerFirmware, gate>>

\* A failing read, an exception elsewhere or a kill.
Dies ==
  /\ pc # "off"
  /\ Throw
  /\ UNCHANGED <<chan, nFEBs, feb, febFirmware, config, vector, kept, answers, block,
                 index, frames, run, readouts, chain, crocVars>>

-----------------------------------------------------------------------------
Points == {"off", "clearStatus", "disable", "setup", "clear", "writeMessage",
           "sendMessage", "waitForMessage", "isAvailable", "setConfig", "clearEmpty",
           "initialize", "waitForGate", "sequencers", "readBlock", "process"}

\* The registers are as an earlier process left them.
Init ==
  /\ pc = "off" /\ chan = 1
  /\ nFEBs = [c \in Channels |-> 0] /\ feb = 0 /\ febFirmware = 0
  /\ config = FALSE
  /\ vector = [c \in Channels |-> <<>>] /\ answers = vector /\ kept = {}
  /\ block = [data |-> <<>>, dataLength |-> 0] /\ index = 0 /\ frames = <<>>
  /\ run = 0 /\ readouts = <<>>
  /\ chain \in [Channels -> Chains]
  /\ status = [c \in Channels |-> {}] /\ memory = [c \in Channels |-> <<>>]
  /\ asked = [c \in Channels |-> 0] /\ sending = [c \in Channels |-> FALSE]
  /\ nfebsField \in [Channels -> {0, MaxFEBs}]
  /\ sequencer \in {[c \in Channels |-> on] : on \in BOOLEAN}
  /\ headerFirmware = [c \in Channels |-> 0]
  /\ gate = 0

SetupStep ==
  \/ ClearAndResetStatusRegisters \/ DisableSequencerReadout
  \/ SetupNFrontEndBoards \/ ClearAndResetStatusRegister \/ WriteMessageToMemory
  \/ SendMessage \/ WaitForMessageReceived \/ IsAvailable
  \/ SetChannelConfiguration \/ ClearEmptyChannels \/ Initialize

ReadoutStep ==
  \/ WaitForSequencerReadoutCompletion \/ ReadBlock \/ ProcessDataIntoFrames

\* The bound on the number of processes is reached.
AllRunsOver == pc = "off" /\ run = MaxRuns /\ UNCHANGED vars

Next ==
  \/ AllRunsOver \/ AddECROC \/ SetupStep \/ WaitForGate \/ ReadoutStep
  \/ CleanupHardware \/ Dies
  \/ Spill \/ \E c \in Channels : Reply(c)

Spec == Init /\ [][Next]_vars

\* minervadaq is scheduled, and a CROC-E that sent a message gets an answer or
\* reports that there was none.  Nothing makes a gate come.
FairSpec ==
  /\ Spec
  /\ WF_vars(SetupStep) /\ WF_vars(ReadoutStep)
  /\ \A c \in Channels : WF_vars(Reply(c))

-----------------------------------------------------------------------------
Frame == [feb : Nat, firmware : Nat, length : Nat, gate : Nat,
          DeviceStatus : SUBSET (0..7), FrameStatus : SUBSET (0..7)]

\* The process that looks for boards.
SetupTypes ==
  /\ pc \in Points /\ chan \in Channels
  /\ nFEBs \in [Channels -> 0..MaxFEBs]
  /\ feb \in 0..(MaxFEBs + 1) /\ febFirmware \in Nat
  /\ config \in BOOLEAN
  /\ vector \in [Channels -> Seq(Boards)] /\ answers \in [Channels -> Seq(Frame)]
  /\ kept \subseteq Channels
  /\ run \in 0..MaxRuns

\* The blocks it reads and splits.
ReadoutTypes ==
  /\ block \in [data : Seq(Frame), dataLength : 0..(UShort - 1)]
  /\ index \in 0..(UShort - 1) /\ frames \in Seq(Frame)
  /\ readouts \in Seq([chan : Channels, gate : Nat, data : Seq(Frame)])

\* The detector and the CROC-E.
CrocTypes ==
  /\ chain \in [Channels -> Chains]
  /\ memory \in [Channels -> Seq(Frame)]
  /\ asked \in [Channels -> 0..MaxFEBs] /\ sending \in [Channels -> BOOLEAN]
  /\ nfebsField \in [Channels -> 0..MaxFEBs] /\ sequencer \in [Channels -> BOOLEAN]
  /\ headerFirmware \in [Channels -> Nat] /\ gate \in 0..MaxGates

\* Every variable has its type; the loops over channels and boards stay within
\* them.
TypeOK == SetupTypes /\ ReadoutTypes /\ CrocTypes

\* A board in FrontEndBoardsVector is on the chain under that address and has
\* the firmware its channel goes by: no answer that an earlier question, an
\* earlier process or the sequencer left in the memory is taken for its own.
\* Nothing but the clearing and the disabled sequencers sees to that, since
\* isAvailable does not look at the address in the answer.
AvailableMeansPresent ==
  \A c \in Channels : \A k \in DOMAIN vector[c] :
    /\ vector[c][k] = k
    /\ chain[c][k] # 0
    /\ chain[c][k] = chain[c][1]

\* While gates are read the sequencers run in exactly the channels that are
\* read out, also when the last process used others and left them on; and each
\* is set for the boards found, and labels their data with their firmware.
SequencersMatchBoards ==
  pc \in {"waitForGate", "sequencers", "readBlock", "process"} =>
    \A c \in Channels :
      /\ sequencer[c] <=> vector[c] # <<>>
      /\ sequencer[c] => /\ nfebsField[c] = Len(vector[c])
                         /\ headerFirmware[c] = chain[c][1]

\* A block holds one frame of each board found on its channel, in the order of
\* the addresses, all of the gate it is read for.
BlocksMatchBoards ==
  \A i \in DOMAIN readouts :
    LET r == readouts[i]
    IN  /\ Len(r.data) = Len(vector[r.chan])
        /\ \A k \in DOMAIN r.data : r.data[k].feb = k /\ r.data[k].gate = r.gate

\* Splitting a block gives back its frames, as long as its length fits an
\* unsigned short.
FramesRecovered ==
  (pc = "process" /\ index >= block.dataLength
     /\ Offset(block.data, Len(block.data)) < UShort) => frames = block.data

\* From every point of a process the program comes back to waiting for a gate,
\* or ends: no exchange of messages waits for ever, although the loop of
\* WaitForMessageReceived has no time-out of its own, and neither does the
\* search for boards nor the splitting of a block whose length was cut.
LoopsEnd == (pc # "off") ~> pc \in {"waitForGate", "off"}

\* LVDSFrame::CheckForErrors: "Check incoming frame header data for errors."
\* So a board that is accepted reported a working device and a correct CRC.  The
\* code does not keep this promise (a logical ! for a bitwise ~), so that no run has
\* it as an invariant.
AcceptedHeadersOK ==
  \A c \in Channels : \A k \in DOMAIN answers[c] :
    /\ 0 \in answers[c][k].DeviceStatus
    /\ 0 \in answers[c][k].FrameStatus

=============================================================================
